--------------------------- MODULE MCRegistration ---------------------------
\* Instances of Registration for TLC.
EXTENDS Registration

\* Every intervention and a registered network.
MixedReports == {"NotRegistering", "Home", "Denied"}
\* The forced attach needs these two only.
IdleReports  == {"NotRegistering", "Home"}
=============================================================================
