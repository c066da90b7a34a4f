-------------------------------- MODULE MCSsl --------------------------------
\* An instance of Ssl for TLC.
EXTENDS Ssl

OneProfile == {0}
OneName    == {"n1"}
TwoCerts   == {"c1", "c2"}
OneHost    == {"h1"}
Lengths    == [c \in TwoCerts |-> IF c = "c1" THEN 1 ELSE 2]
=============================================================================
