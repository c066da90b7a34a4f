---------------------------- MODULE Registration ----------------------------
(***************************************************************************)
(* Network registration: the statuses of the three domains                 *)
(* (registration.rs) and the decisions of Network::process_events on them  *)
(* (network.rs), with time.  A step of pc ends where the driver blocks on  *)
(* AT commands; time passes at any moment.                                 *)
(*                                                                         *)
(* An Instant is kept as its age in ticks, None as NoTime.  Ages stop      *)
(* growing at AgeCap, beyond every duration the code compares them with.   *)
(***************************************************************************)
EXTENDS Naturals

CONSTANTS
  CheckInterval,  \* REGISTRATION_CHECK_INTERVAL, 15 s, in ticks
  RegTimeout,     \* REGISTRATION_TIMEOUT, 3 min
  StickyUnit,     \* the 15 s that intervene_registration multiplies
  U8Max,          \* largest value of registration_interventions (255)
  AgeCap,
  Reports         \* the statuses this network reports

Statuses == {"None", "NotRegistering", "Home", "Searching", "Denied", "Unknown",
             "Roaming"}

ASSUME TimesAssumption ==
  /\ CheckInterval \in Nat /\ RegTimeout \in Nat \ {0}
  /\ StickyUnit \in Nat \ {0} /\ U8Max \in Nat \ {0} /\ AgeCap \in Nat
  /\ CheckInterval <= AgeCap /\ RegTimeout <= AgeCap
  /\ U8Max * StickyUnit <= AgeCap

ASSUME ReportsAssumption == Reports \subseteq Statuses

Domains == {"csd", "psd", "eps"}
NoTime  == AgeCap + 1
Ages    == 0..NoTime

VARIABLES
  pc,             \* "idle" between calls, or the commands waited for
  conn_state,     \* RegistrationState.conn_state
  reg,            \* csd, psd, eps: [status, started, sticky]
  registration_interventions,
  reg_start_time, reg_check_time,
  since_forget,   \* history: time since all three statuses were last reset
  since_conn      \* history: time since the device was Connected or brought up

times   == <<reg_start_time, reg_check_time>>
history == <<since_forget, since_conn>>
vars == <<pc, conn_state, reg, registration_interventions, times, history>>

Labels == {"idle", "init", "plmn", "rf", "attach", "poll", "upd", "down"}

TypeOK ==
  /\ pc \in Labels
  /\ conn_state \in {"Disconnected", "Connecting", "Connected"}
  /\ reg \in [Domains -> [status : Statuses, started : Ages, sticky : BOOLEAN]]
  /\ registration_interventions \in 1..U8Max
  /\ reg_start_time \in Ages /\ reg_check_time \in Ages
  /\ since_forget \in 0..AgeCap /\ since_conn \in 0..AgeCap

-----------------------------------------------------------------------------
(***************************************************************************)
(* registration.rs                                                         *)
(***************************************************************************)
\* CellularRegistrationStatus::reset
Fresh == [status |-> "None", started |-> NoTime, sticky |-> FALSE]

\* set_status: a new status starts now; the same one read again is sticky.
SetStatus(d, s) ==
  IF d.status # s THEN [status |-> s, started |-> 0, sticky |-> FALSE]
  ELSE [d EXCEPT !.sticky = TRUE]

\* registered
IsRegistered(d) == d.status \in {"Home", "Roaming"}

\* duration
Duration(d) == IF d.started = NoTime THEN 0 ELSE d.started

\* (csd && psd) || eps, as check_registration_state tests it.
Online(r) == \/ IsRegistered(r["csd"]) /\ IsRegistered(r["psd"])
             \/ IsRegistered(r["eps"])

AllFresh == [d \in Domains |-> Fresh]

\* Mutants: the clock of the timeout runs on; the statuses are kept.
ResetKeepsClock ==
  /\ reg' = AllFresh /\ since_forget' = 0 /\ registration_interventions' = 1
  /\ reg_check_time' = 0 /\ UNCHANGED reg_start_time
ResetKeepsStatuses ==
  /\ UNCHANGED <<reg, since_forget>> /\ registration_interventions' = 1
  /\ reg_start_time' = 0 /\ reg_check_time' = 0

\* RegistrationState::reset
ResetState ==
  /\ reg' = AllFresh /\ since_forget' = 0
  /\ reg_start_time' = 0 /\ reg_check_time' = 0
  /\ registration_interventions' = 1

\* RegistrationState::new
Init ==
  /\ pc = "idle" /\ conn_state = "Disconnected"
  /\ reg = AllFresh /\ registration_interventions = 1
  /\ reg_start_time = NoTime /\ reg_check_time = NoTime
  /\ since_forget = 0 /\ since_conn = 0

\* Mutant: a plain addition.
SaturatedMissing(n) == n + 1

\* u8::saturating_add(1)
Saturated(n) == IF n + 1 > U8Max THEN U8Max ELSE n + 1

\* compare_and_set for every domain d that was answered, with f[d].
CompareAndSet(r, f) ==
  [d \in Domains |-> IF f[d] = "missing" THEN r[d] ELSE SetStatus(r[d], f[d])]

\* update_registration: each of the three answers is a status or is missing.
UpdateRegistration ==
  \E f \in [Domains -> Reports \cup {"missing"}] : reg' = CompareAndSet(reg, f)

-----------------------------------------------------------------------------
(***************************************************************************)
(* client.rs: the registration part of initialize.                         *)
(***************************************************************************)
\* AT+CFUN=1 succeeded: the state is reset and Connecting.
StartOver ==
  /\ pc \in {"idle", "down"}
  /\ pc' = "init" /\ conn_state' = "Connecting"
  /\ ResetState
  /\ since_conn' = 0

\* After a reset initialize may fail before AT+CFUN=1, with power_state already On.
\* spin calls process_events all the same, and the expired reg_start_time is still
\* there: the next check resets the modem again.
InitializeFails ==
  /\ pc = "down" /\ pc' = "idle"
  /\ UNCHANGED <<conn_state, reg, registration_interventions, times, history>>

\* The rest of initialize; a command that fails ends it before the update.
FinishInit ==
  /\ pc = "init" /\ pc' = "idle"
  /\ \/ /\ UpdateRegistration
        /\ reg_start_time' = 0 /\ reg_check_time' = 0
        /\ since_conn' = 0
     \/ UNCHANGED <<reg, reg_start_time, reg_check_time, since_conn>>
  /\ UNCHANGED <<conn_state, registration_interventions, since_forget>>

-----------------------------------------------------------------------------
(***************************************************************************)
(* network.rs                                                              *)
(***************************************************************************)
\* Mutant: the number of interventions plays no role.
StuckSoon(d, n) == d.sticky /\ Duration(d) >= StickyUnit

\* A status read twice that is old enough for intervention number n.
IsStuck(d, n) == d.sticky /\ Duration(d) >= n * StickyUnit

\* intervene_registration's choice, with n interventions counted.
Intervention(r, n) ==
  LET Stuck(d) == IsStuck(r[d], n)
      Both(d, e, s) == r[d].status = s /\ r[e].status = s
  IN CASE Stuck("eps") /\ Both("eps", "csd", "NotRegistering") -> "plmn"
       [] Stuck("eps") /\ Both("eps", "csd", "Denied")         -> "rf"
       [] /\ ~(Stuck("eps") /\ (\/ Both("eps", "csd", "NotRegistering")
                                \/ Both("eps", "csd", "Denied")))
          /\ Stuck("csd") /\ r["csd"].status \in {"Denied", "Roaming"}
          /\ r["psd"].status = "Denied"                        -> "rf"
       [] /\ IsRegistered(r["csd"]) /\ Stuck("psd")
          /\ Both("psd", "eps", "NotRegistering")              -> "attach"
       [] OTHER                                                -> "poll"

\* check_registration_state, then intervene_registration up to its commands.
ProcessEvents ==
  /\ pc = "idle"
  /\ \/ /\ conn_state = "Disconnected"
        /\ pc' = "poll"
        /\ UNCHANGED <<conn_state, reg, registration_interventions, times, history>>
     \/ /\ conn_state # "Disconnected" /\ Online(reg)
        /\ conn_state' = "Connected" /\ since_conn' = 0
        /\ pc' = "poll"
        /\ UNCHANGED <<reg, registration_interventions, times, since_forget>>
     \/ /\ conn_state = "Connected" /\ ~Online(reg)
        /\ ResetState
        /\ conn_state' = "Connecting" /\ since_conn' = 0
        /\ pc' = "poll"
     \/ /\ conn_state = "Connecting" /\ ~Online(reg)
        /\ pc' = Intervention(reg, registration_interventions)
        /\ \/ /\ pc' = "poll"
              /\ UNCHANGED <<reg, registration_interventions, since_forget>>
           \/ /\ pc' \in {"plmn", "rf"}
              /\ reg' = AllFresh /\ since_forget' = 0
              /\ registration_interventions' = Saturated(registration_interventions)
           \/ /\ pc' = "attach"
              /\ reg' = [reg EXCEPT !["psd"] = Fresh]
              /\ registration_interventions' = Saturated(registration_interventions)
              /\ UNCHANGED since_forget
        /\ UNCHANGED <<conn_state, times, since_conn>>

\* The replies to the intervention; an error that is not ignored ends the call.
Intervene ==
  /\ \/ pc = "plmn" /\ pc' = "poll" /\ UNCHANGED <<reg, since_forget>>
     \/ pc = "rf" /\ pc' \in {"poll", "idle"} /\ UNCHANGED <<reg, since_forget>>
     \/ /\ pc = "attach" /\ pc' \in {"poll", "idle"}
        /\ UNCHANGED <<reg, since_forget>>
     \/ /\ pc = "attach" /\ pc' \in {"poll", "idle"}     \* GPRS attach failed
        /\ reg' = AllFresh /\ since_forget' = 0
  /\ UNCHANGED <<conn_state, registration_interventions, times, since_conn>>

Due(age, limit) == age = NoTime \/ age >= limit

\* The test of the check interval (check_running_imsi touches imsi_check_time only,
\* which nothing else reads).
Poll ==
  /\ pc = "poll"
  /\ \/ /\ Due(reg_check_time, CheckInterval)
        /\ reg_check_time' = 0 /\ pc' = "upd"
     \/ /\ ~Due(reg_check_time, CheckInterval)
        /\ pc' = "idle" /\ UNCHANGED reg_check_time
  /\ UNCHANGED <<conn_state, reg, registration_interventions, reg_start_time, history>>

\* Mutant: the clock of the periodic check, which has just been restarted.
TimedOutByCheck == reg_check_time # NoTime /\ reg_check_time >= RegTimeout

TimedOut == reg_start_time # NoTime /\ reg_start_time >= RegTimeout

\* The periodic update; Err(Timeout) makes the caller reset the modem.
PeriodicCheck ==
  /\ pc = "upd"
  /\ UpdateRegistration
  /\ pc' = IF conn_state = "Connecting" /\ TimedOut THEN "down" ELSE "idle"
  /\ UNCHANGED <<conn_state, registration_interventions, times, history>>

-----------------------------------------------------------------------------
Older(age)   == IF age >= AgeCap THEN age ELSE age + 1

Tick ==
  /\ reg' = [d \in Domains |-> [reg[d] EXCEPT !.started = Older(@)]]
  /\ reg_start_time' = Older(reg_start_time)
  /\ reg_check_time' = Older(reg_check_time)
  /\ since_forget' = Older(since_forget)
  /\ since_conn' = IF conn_state = "Connected" THEN since_conn ELSE Older(since_conn)
  /\ UNCHANGED <<pc, conn_state, registration_interventions>>

Step == ProcessEvents \/ Intervene \/ Poll \/ PeriodicCheck \/ FinishInit
        \/ (pc = "down" /\ StartOver) \/ InitializeFails

Next == StartOver \/ InitializeFails \/ FinishInit \/ ProcessEvents \/ Intervene \/ Poll
        \/ PeriodicCheck \/ Tick

Spec == Init /\ [][Next]_vars

\* process_events is called in a loop and time passes.
FairSpec == Spec /\ WF_vars(Step) /\ WF_vars(Tick)

-----------------------------------------------------------------------------
(***************************************************************************)
(* Properties                                                              *)
(***************************************************************************)
\* The back-off: no radio cycle, operator reselection or forced attach comes
\* sooner after the statuses were last all forgotten than 15 s for every
\* intervention made in this attempt, so that each gets longer to work.
BackOff ==
  Intervention(reg, registration_interventions) # "poll" =>
    since_forget >= registration_interventions * StickyUnit

\* The modem is reset for a registration timeout only after it was given the
\* whole REGISTRATION_TIMEOUT since it was last connected or brought up.  A reset whose
\* bring-up failed starts no new attempt, so the next reset may follow at once.
TimeoutEarned == pc = "down" => conn_state = "Connecting" /\ since_conn >= RegTimeout

\* Registration does not hang in Connecting: the device gets connected, is reset
\* or brought up anew, also when every intervention fails.
ConnectingEnds ==
  (conn_state = "Connecting") ~> (conn_state = "Connected" \/ pc \in {"down", "init"})

\* The logic implements its abstract promise.
Fsm == INSTANCE ConnectionFsm WITH registered <- Online(reg)
Implements == Fsm!Spec

\* "If both (CSD + PSD) is registered, or EPS is registered, we are connected!"
\* (network.rs:246): no reset for a timeout then.
NoResetOnceRegistered == pc = "down" => ~Online(reg)
=============================================================================
