----------------------------- MODULE ByteStream -----------------------------
(***************************************************************************)
(* What the sockets promise an application that reads from TCP: under each *)
(* socket number one stream, that of the socket which holds the number.    *)
(* Reading only ever extends it, by the bytes that come next; it is taken  *)
(* back only with its socket; and once bytes are lost it may skip some,    *)
(* but still never repeats or reorders one.                                *)
(***************************************************************************)
EXTENDS Naturals, Sequences

CONSTANT Handles

\* For each number: the socket (0: none), the bytes the application has read
\* from it, numbered by the peer, and whether it is whole or some were lost.
VARIABLE streams

Nothing == [socket |-> 0, got |-> <<>>, fate |-> "whole"]

\* No byte has been read, or lost.
Fresh(s) == s.got = <<>> /\ s.fate = "whole"

Ascending(s) == \A i \in 1..(Len(s) - 1) : s[i] < s[i + 1]
Unbroken(s)  == \A i \in 1..Len(s) : s[i] = i

Extends(t, s) == Len(t) >= Len(s) /\ \A i \in 1..Len(s) : t[i] = s[i]

Init == streams = [h \in Handles |-> Nothing]

\* The number is given up, or taken by a socket nobody has read from.
Renew(h) ==
  /\ Fresh(streams'[h])
  /\ \/ streams'[h] = Nothing \/ Fresh(streams[h])
     \/ streams'[h].socket # streams[h].socket

\* The application reads on.
Read(h) ==
  /\ streams'[h] = [streams[h] EXCEPT !.got = streams'[h].got]
  /\ Extends(streams'[h].got, streams[h].got)
  /\ Ascending(streams'[h].got)
  /\ streams[h].fate = "whole" => Unbroken(streams'[h].got)

\* Bytes are lost with the reply that carried them.
Lose(h) == streams'[h] = [streams[h] EXCEPT !.fate = "holed"]

Next == \A h \in Handles :
          streams'[h] = streams[h] \/ Renew(h) \/ Read(h) \/ Lose(h)

Spec == Init /\ [][Next]_streams
=============================================================================
