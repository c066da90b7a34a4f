--------------------------- MODULE ConnectionFsm ---------------------------
(***************************************************************************)
(* What the registration logic promises the rest of the driver, in terms   *)
(* of two variables: conn_state, and registered, the verdict of the        *)
(* statuses the driver knows.  The device is declared Connected only on a  *)
(* verdict already in hand, and loses that only to a bad verdict or to a   *)
(* new bring-up.                                                           *)
(***************************************************************************)
VARIABLES conn_state, registered

fsmVars == <<conn_state, registered>>

Init == conn_state = "Disconnected" /\ registered = FALSE

\* A bring-up starts over.
Start == conn_state' = "Connecting" /\ registered' = FALSE

\* New statuses are read.
Observe == registered' \in BOOLEAN /\ UNCHANGED conn_state

\* The driver acts on the statuses it knows, and forgets bad ones.
Settle ==
  /\ conn_state # "Disconnected"
  /\ conn_state' = IF registered THEN "Connected" ELSE "Connecting"
  /\ UNCHANGED registered

Next == Start \/ Observe \/ Settle

Spec == Init /\ [][Next]_fsmVars
=============================================================================
