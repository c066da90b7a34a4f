------------------------------ MODULE MCSockets ------------------------------
\* Instances of Sockets for TLC.
EXTENDS Sockets

OneHandle == {0}
Tcp       == {"tcp"}
Both      == {"tcp", "udp"}
NoSends   == {}
LongSend  == {3}
=============================================================================
