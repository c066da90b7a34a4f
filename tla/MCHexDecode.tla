---------------------------- MODULE MCHexDecode ----------------------------
\* Instances of HexDecode for TLC.
EXTENDS HexDecode

\* The ends of the ranges of digits and the characters next to them.
EdgeChars == {47, 48, 57, 58, 64, 65, 70, 71, 96, 97, 102, 103}
UpTo4     == 0..4
=============================================================================
