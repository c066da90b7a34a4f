--------------------------- MODULE MCDataCommands ---------------------------
\* An instance of DataCommands for TLC.
EXTENDS DataCommands

TwoTcp == {"t1", "t2"}
OneUdp == {"u1"}
Sizes  == {0, 2, 3, 7}
=============================================================================
