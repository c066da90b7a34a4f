------------------------- MODULE RegistrationProofs -------------------------
(***************************************************************************)
(* Theorems about Registration, for every value of its constants.          *)
(***************************************************************************)
EXTENDS Registration, TLAPS

Rec == [status : Statuses, started : Ages, sticky : BOOLEAN]

-----------------------------------------------------------------------------
(***************************************************************************)
(* The helpers.                                                            *)
(***************************************************************************)
LEMMA AgeFacts ==
  /\ AgeCap \in Nat /\ NoTime \in Ages /\ 0 \in Ages /\ NoTime # 0
  /\ \A a \in Ages : Older(a) \in Ages /\ (a = NoTime <=> Older(a) = NoTime)
  /\ \A a \in 0..AgeCap : Older(a) \in 0..AgeCap
  /\ \A a, b \in 0..AgeCap : a <= b => Older(a) <= Older(b)
  /\ \A a \in 0..AgeCap : a <= Older(a)
BY TimesAssumption DEF Ages, NoTime, Older

LEMMA RecFacts ==
  /\ Fresh \in Rec /\ AllFresh \in [Domains -> Rec]
  /\ \A d \in Rec, s \in Statuses : SetStatus(d, s) \in Rec
<1>1. Fresh \in Rec BY AgeFacts DEF Fresh, Rec, Statuses
<1>2. AllFresh \in [Domains -> Rec] BY <1>1 DEF AllFresh
<1>3. \A d \in Rec, s \in Statuses : SetStatus(d, s) \in Rec
  BY AgeFacts DEF SetStatus, Rec
<1> QED BY <1>1, <1>2, <1>3

\* What an update can make of a domain's record.
LEMMA UpdateFacts ==
  ASSUME TypeOK, UpdateRegistration
  PROVE  /\ reg' \in [Domains -> Rec]
         /\ \A d \in Domains : reg'[d].started \in {0, reg[d].started}
<1>1. PICK f \in [Domains -> Reports \cup {"missing"}] :
        reg' = [d \in Domains |-> IF f[d] = "missing" THEN reg[d]
                                  ELSE SetStatus(reg[d], f[d])]
  BY DEF UpdateRegistration, CompareAndSet
<1>2. \A d \in Domains : reg[d] \in Rec BY DEF TypeOK, Rec
<1>3. \A d \in Domains : f[d] = "missing" \/ f[d] \in Statuses BY ReportsAssumption
<1>4. \A d \in Domains : reg'[d] \in Rec BY <1>1, <1>2, <1>3, RecFacts
<1>5. \A d \in Rec, s \in Statuses : SetStatus(d, s).started \in {0, d.started}
  BY DEF SetStatus, Rec
<1>6. \A d \in Domains : reg'[d].started \in {0, reg[d].started}
  BY <1>1, <1>2, <1>3, <1>5
<1>7. reg' \in [Domains -> Rec]
  <2>1. reg' = [d \in Domains |-> reg'[d]] BY <1>1
  <2> QED BY <2>1, <1>4
<1> QED BY <1>6, <1>7

LEMMA TickFacts ==
  ASSUME TypeOK, Tick
  PROVE  /\ reg' \in [Domains -> Rec]
         /\ \A d \in Domains : reg'[d].started = Older(reg[d].started)
<1>1. reg' = [d \in Domains |-> [reg[d] EXCEPT !.started = Older(@)]] BY DEF Tick
<1>2. \A d \in Domains : reg[d] \in Rec BY DEF TypeOK, Rec
<1>3. \A d \in Rec : /\ [d EXCEPT !.started = Older(@)] \in Rec
                     /\ [d EXCEPT !.started = Older(@)].started = Older(d.started)
  BY AgeFacts DEF Rec
<1> QED BY <1>1, <1>2, <1>3

\* No intervention before its domain's status is n * StickyUnit old.
LEMMA InterventionFacts ==
  ASSUME TypeOK
  PROVE  LET n == registration_interventions
         IN  /\ Intervention(reg, n) \in {"plmn", "rf", "attach", "poll"}
             /\ Intervention(reg, n) # "poll" =>
                  \E d \in Domains : Duration(reg[d]) >= n * StickyUnit
BY DEF Intervention, IsStuck, Domains

-----------------------------------------------------------------------------
(***************************************************************************)
(* The inductive invariant.  A status that is remembered was read after    *)
(* the last time all were forgotten, and the clock of the timeout is never *)
(* older than the attempt it measures.                                     *)
(***************************************************************************)
StatusesRecent ==
  \A d \in Domains : reg[d].started = NoTime \/ reg[d].started <= since_forget

ClockHonest ==
  conn_state = "Connecting" => reg_start_time = NoTime \/ reg_start_time <= since_conn

IInv == TypeOK /\ StatusesRecent /\ ClockHonest /\ TimeoutEarned

LEMMA FreshFacts ==
  ASSUME reg' = AllFresh
  PROVE  reg' \in [Domains -> Rec] /\ (\A d \in Domains : reg'[d].started = NoTime)
BY RecFacts DEF AllFresh, Fresh

LEMMA TypeStep ==
  ASSUME TypeOK, [Next]_vars PROVE TypeOK'
<1> USE DEF times, history
<1>a. reg \in [Domains -> Rec] BY DEF TypeOK, Rec
<1>b. reg' \in [Domains -> Rec] => reg' \in
        [Domains -> [status : Statuses, started : Ages, sticky : BOOLEAN]]
  BY DEF Rec
<1>c. 1 \in 1..U8Max /\ Saturated(registration_interventions) \in 1..U8Max
  BY TimesAssumption DEF Saturated, TypeOK
<1>1. CASE StartOver
  BY <1>1, <1>b, <1>c, FreshFacts, AgeFacts DEF StartOver, ResetState, TypeOK, Labels
<1>2. CASE FinishInit
  BY <1>2, <1>a, <1>b, UpdateFacts, AgeFacts DEF FinishInit, TypeOK, Labels
<1>3. CASE ProcessEvents
  <2>1. reg' \in [Domains -> Rec]
    BY <1>3, <1>a, FreshFacts, RecFacts DEF ProcessEvents, ResetState
  <2>2. pc' \in Labels
    BY <1>3, InterventionFacts DEF ProcessEvents, Labels
  <2>3. /\ conn_state' \in {"Disconnected", "Connecting", "Connected"}
        /\ registration_interventions' \in 1..U8Max
        /\ reg_start_time' \in Ages /\ reg_check_time' \in Ages
        /\ since_forget' \in 0..AgeCap /\ since_conn' \in 0..AgeCap
    BY <1>3, <1>c, AgeFacts DEF ProcessEvents, ResetState, TypeOK
  <2> QED BY <1>b, <2>1, <2>2, <2>3 DEF TypeOK
<1>4. CASE Intervene
  BY <1>4, <1>a, <1>b, FreshFacts, AgeFacts DEF Intervene, TypeOK, Labels
<1>5. CASE Poll
  BY <1>5, AgeFacts DEF Poll, TypeOK, Labels
<1>6. CASE PeriodicCheck
  BY <1>6, <1>b, UpdateFacts DEF PeriodicCheck, TypeOK, Labels
<1>7. CASE Tick
  BY <1>7, <1>b, TickFacts, AgeFacts DEF Tick, TypeOK
<1>8. CASE UNCHANGED vars \/ InitializeFails
  BY <1>8 DEF vars, InitializeFails, TypeOK, Labels
<1> QED BY <1>1, <1>2, <1>3, <1>4, <1>5, <1>6, <1>7, <1>8 DEF Next

LEMMA InitType == Init => TypeOK
<1>1. Init => reg \in [Domains -> Rec] BY RecFacts DEF Init
<1> QED BY <1>1, AgeFacts, TimesAssumption DEF Init, TypeOK, Labels, Rec

\* The statuses, ages and counters keep their ranges: no age passes AgeCap
\* unnoticed and the number of interventions stays a non-zero u8.
THEOREM TypeCorrect == Spec => []TypeOK
<1>1. TypeOK /\ [Next]_vars => TypeOK' BY TypeStep
<1> QED BY InitType, <1>1, PTL DEF Spec

LEMMA InvStep ==
  ASSUME IInv, [Next]_vars PROVE IInv'
<1> USE DEF times, history
<1>a. TypeOK /\ TypeOK' BY TypeStep DEF IInv
<1>b. \A d \in Domains : reg[d].started \in Ages BY <1>a DEF TypeOK
<1>c. /\ since_forget \in 0..AgeCap /\ since_conn \in 0..AgeCap /\ reg_start_time \in Ages
      /\ since_forget' \in 0..AgeCap /\ since_conn' \in 0..AgeCap
  BY <1>a DEF TypeOK
<1>d. reg' = AllFresh => StatusesRecent' BY FreshFacts DEF StatusesRecent
<1>e. UpdateRegistration /\ UNCHANGED since_forget => StatusesRecent'
  BY <1>a, <1>c, UpdateFacts DEF StatusesRecent, IInv
<1>f. UNCHANGED <<reg, since_forget>> => StatusesRecent'
  BY DEF StatusesRecent, IInv
<1>1. StatusesRecent'
  <2>1. CASE StartOver BY <2>1, <1>d DEF StartOver, ResetState
  <2>2. CASE FinishInit BY <2>2, <1>e, <1>f DEF FinishInit
  <2>3. CASE ProcessEvents
    <3>1. reg' = [reg EXCEPT !["psd"] = Fresh] /\ UNCHANGED since_forget => StatusesRecent'
      BY <1>a DEF StatusesRecent, IInv, Fresh, TypeOK
    <3> QED BY <2>3, <3>1, <1>d, <1>f DEF ProcessEvents, ResetState
  <2>4. CASE Intervene BY <2>4, <1>d, <1>f DEF Intervene
  <2>5. CASE Poll BY <2>5, <1>f DEF Poll
  <2>6. CASE PeriodicCheck BY <2>6, <1>e DEF PeriodicCheck
  <2>7. CASE Tick
    <3>1. since_forget' = Older(since_forget) BY <2>7 DEF Tick
    <3>2. ASSUME NEW d \in Domains
          PROVE  reg'[d].started = NoTime \/ reg'[d].started <= since_forget'
      <4>1. reg'[d].started = Older(reg[d].started) BY <1>a, <2>7, TickFacts
      <4>2. reg[d].started = NoTime \/ reg[d].started \in 0..AgeCap
        BY <1>b, AgeFacts DEF Ages, NoTime
      <4>3. reg[d].started = NoTime \/ reg[d].started <= since_forget
        BY DEF IInv, StatusesRecent
      <4> QED BY <3>1, <4>1, <4>2, <4>3, <1>b, <1>c, AgeFacts
    <3> QED BY <3>2 DEF StatusesRecent
  <2>8. CASE UNCHANGED vars \/ InitializeFails BY <2>8, <1>f DEF vars, InitializeFails
  <2> QED BY <2>1, <2>2, <2>3, <2>4, <2>5, <2>6, <2>7, <2>8 DEF Next
<1>2. ClockHonest' /\ TimeoutEarned'
  <2>a. ClockHonest /\ TimeoutEarned BY DEF IInv
  <2>1. CASE StartOver
    BY <2>1, <1>c DEF StartOver, ResetState, ClockHonest, TimeoutEarned
  <2>2. CASE FinishInit
    BY <2>2, <2>a, <1>c DEF FinishInit, ClockHonest, TimeoutEarned
  <2>3. CASE ProcessEvents
    <3>1. pc' # "down" BY <2>3, <1>a, InterventionFacts DEF ProcessEvents
    <3> QED BY <2>3, <2>a, <3>1, <1>c DEF ProcessEvents, ResetState, ClockHonest, TimeoutEarned
  <2>4. CASE Intervene
    BY <2>4, <2>a DEF Intervene, ClockHonest, TimeoutEarned
  <2>5. CASE Poll
    BY <2>5, <2>a DEF Poll, ClockHonest, TimeoutEarned
  <2>6. CASE PeriodicCheck
    BY <2>6, <2>a, <1>c, TimesAssumption
       DEF PeriodicCheck, TimedOut, ClockHonest, TimeoutEarned, Ages, NoTime
  <2>7. CASE Tick
    <3>1. reg_start_time = NoTime \/ reg_start_time \in 0..AgeCap
      BY <1>c, AgeFacts DEF Ages, NoTime
    <3>2. ClockHonest' BY <2>7, <2>a, <3>1, <1>c, AgeFacts DEF Tick, ClockHonest
    <3>3. since_conn <= since_conn'
      BY <2>7, <1>c, AgeFacts DEF Tick
    <3>4. TimeoutEarned' BY <2>7, <2>a, <3>3, <1>c, TimesAssumption DEF Tick, TimeoutEarned
    <3> QED BY <3>2, <3>4
  <2>8. CASE UNCHANGED vars \/ InitializeFails
    BY <2>8, <2>a DEF vars, InitializeFails, ClockHonest, TimeoutEarned
  <2> QED BY <2>1, <2>2, <2>3, <2>4, <2>5, <2>6, <2>7, <2>8 DEF Next
<1> QED BY <1>a, <1>1, <1>2 DEF IInv

LEMMA Invariance == Spec => []IInv
<1>1. Init => IInv
  <2>1. Init => StatusesRecent BY DEF Init, StatusesRecent, AllFresh, Fresh
  <2>2. Init => ClockHonest /\ TimeoutEarned BY DEF Init, ClockHonest, TimeoutEarned
  <2> QED BY InitType, <2>1, <2>2 DEF IInv
<1>2. IInv /\ [Next]_vars => IInv' BY InvStep
<1> QED BY <1>1, <1>2, PTL DEF Spec

\* The back-off holds for every check interval, timeout and mix of reports:
\* a status can only be old enough when the last reset of all of them is.
THEOREM BackOffHolds == Spec => []BackOff
<1>1. ASSUME IInv PROVE BackOff
  <2> SUFFICES ASSUME Intervention(reg, registration_interventions) # "poll"
               PROVE  since_forget >= registration_interventions * StickyUnit
    BY DEF BackOff
  <2>1. PICK d \in Domains : Duration(reg[d]) >= registration_interventions * StickyUnit
    BY <1>1, InterventionFacts DEF IInv
  <2>2. /\ registration_interventions \in Nat /\ registration_interventions >= 1
        /\ reg[d].started \in Nat /\ since_forget \in Nat
    BY <1>1, AgeFacts DEF IInv, TypeOK, Ages, NoTime
  <2>3. registration_interventions * StickyUnit \in Nat
        /\ registration_interventions * StickyUnit >= 1
    BY <2>2, TimesAssumption
  <2>4. reg[d].started # NoTime BY <2>1, <2>3 DEF Duration
  <2>5. reg[d].started <= since_forget BY <1>1, <2>4 DEF IInv, StatusesRecent
  <2> QED BY <2>1, <2>2, <2>3, <2>4, <2>5 DEF Duration
<1> QED BY <1>1, Invariance, PTL

\* A modem is reset for a registration timeout only when the whole timeout has
\* passed since it was last connected or brought up, whatever was reported.
THEOREM TimeoutIsEarned == Spec => []TimeoutEarned
<1>1. IInv => TimeoutEarned BY DEF IInv
<1> QED BY <1>1, Invariance, PTL

-----------------------------------------------------------------------------
(***************************************************************************)
(* Refinement of ConnectionFsm.                                            *)
(***************************************************************************)
\* Registration implements the abstract connection state machine, registered
\* being the test of check_registration_state.
THEOREM RegistrationImplements == Spec => Implements
<1> USE DEF times, history
<1>a. ~Online(AllFresh) /\ \A r : Online(r) \in BOOLEAN
  BY DEF Online, AllFresh, Fresh, IsRegistered, Domains
<1>1. Init => Fsm!Init BY <1>a DEF Init, Fsm!Init
<1>2. ASSUME TypeOK, [Next]_vars PROVE [Fsm!Next]_(Fsm!fsmVars)
  <2> USE DEF Fsm!Next, Fsm!Start, Fsm!Observe, Fsm!Settle, Fsm!fsmVars
  <2>a. UNCHANGED conn_state => Fsm!Observe BY <1>a
  <2>1. CASE StartOver BY <2>1, <1>a DEF StartOver, ResetState
  <2>2. CASE ProcessEvents
    <3>1. CASE UNCHANGED conn_state BY <3>1, <2>a
    <3>2. CASE conn_state' # conn_state
      BY <2>2, <3>2, <1>2, <1>a DEF ProcessEvents, ResetState, TypeOK
    <3> QED BY <3>1, <3>2
  <2>3. CASE \/ FinishInit \/ Intervene \/ Poll \/ PeriodicCheck \/ InitializeFails
             \/ Tick \/ UNCHANGED vars
    BY <2>3, <2>a DEF FinishInit, Intervene, Poll, PeriodicCheck, InitializeFails, Tick, vars
  <2> QED BY <1>2, <2>1, <2>2, <2>3 DEF Next
<1> QED BY <1>1, <1>2, TypeCorrect, PTL DEF Spec, Implements, Fsm!Spec
=============================================================================
