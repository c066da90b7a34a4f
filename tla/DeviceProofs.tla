---------------------------- MODULE DeviceProofs ----------------------------
(***************************************************************************)
(* Theorems about Device, for every value of its constants.                *)
(***************************************************************************)
EXTENDS Device, TLAPS

Ctx     == {"Setup", "Activating", "Active"}
Results == {"Ok", "Err", "WouldBlock"}

-----------------------------------------------------------------------------
(***************************************************************************)
(* What the helpers of Device leave in the variables they set.             *)
(***************************************************************************)
FlowOK == /\ pc' \in Labels /\ tries' \in Nat /\ context_state' \in Ctx
          /\ net_urcs' \in Seq(Urcs) /\ Len(net_urcs') <= UrcCapacity
CountOK == consecutive_timeouts' \in 0..U8Max
ModemOK == /\ modem' \in {"off", "hung", "run"} /\ configured' \in BOOLEAN
           /\ pdp' \in BOOLEAN /\ psd' \in BOOLEAN

\* Every label a step can go to is a label.
LEMMA LabelFacts ==
  /\ {"idle", "events", "api_at", "cpwroff", "hpo", "ufactory", "fr_soft",
      "probe", "intervene", "itv_cops0", "itv_cycle", "itv_pdp", "itv_cgact",
      "itv_cops", "imsi", "sched", "upd", "ingress", "service",
      "svc_at"} \subseteq Labels
  /\ PowerLabels \subseteq Labels /\ ResetLabels \subseteq Labels
  /\ InitLabels \subseteq Labels /\ DefineLabels \subseteq Labels
  /\ ConnectLabels \subseteq Labels
  BY DEF Labels, EventLabels, ServiceLabels, InitLabels

\* handle_urc takes one message off a well-formed queue.
LEMMA HandleUrcType ==
  ASSUME TypeOK, NEW c \in Ctx, HandleUrc(c)
  PROVE  /\ context_state' \in Ctx /\ net_urcs' \in Seq(Urcs)
         /\ Len(net_urcs') <= UrcCapacity
<1>1. CASE net_urcs = <<>>
  BY <1>1 DEF HandleUrc, TypeOK
<1>2. CASE net_urcs # <<>>
  <2>1. net_urcs' = Tail(net_urcs) /\ net_urcs \in Seq(Urcs)
    BY <1>2 DEF HandleUrc, TypeOK
  <2>2. Tail(net_urcs) \in Seq(Urcs) /\ Len(Tail(net_urcs)) = Len(net_urcs) - 1
    BY <1>2, <2>1
  <2>3. context_state' \in Ctx
    BY <1>2 DEF HandleUrc, AfterUrc, Ctx
  <2>4. Len(net_urcs) \in Nat /\ Len(net_urcs) <= UrcCapacity
    BY <2>1 DEF TypeOK
  <2> QED BY <2>1, <2>2, <2>3, <2>4, BoundsAssumption
<1> QED BY <1>1, <1>2

\* Moving to another command.
LEMMA GotoType ==
  ASSUME TypeOK, NEW l \in Labels, NEW c \in Ctx, Goto(l, c) PROVE FlowOK
<1>1. CASE l \in UrcChecked
  BY <1>1, HandleUrcType DEF Goto, FlowOK
<1>2. CASE l \notin UrcChecked
  BY <1>2 DEF Goto, FlowOK, TypeOK
<1> QED BY <1>1, <1>2

LEMMA IssueType == ASSUME TypeOK, NEW l \in Labels, Issue(l) PROVE FlowOK
<1> context_state \in Ctx BY DEF TypeOK, Ctx
<1> QED BY GotoType DEF Issue

LEMMA RetryType == ASSUME TypeOK, Retry PROVE FlowOK
<1> context_state \in Ctx BY DEF TypeOK, Ctx
<1> HandleUrc(context_state) BY DEF Retry
<1> QED BY HandleUrcType DEF Retry, FlowOK, TypeOK

LEMMA ReturnType ==
  ASSUME TypeOK, NEW r \in Results, Return(r) PROVE FlowOK /\ res' \in Results
BY IssueType, LabelFacts DEF Return

LEMMA InitReturnsType ==
  ASSUME TypeOK, NEW r \in Results, InitReturns(r) PROVE FlowOK /\ res' \in Results
BY IssueType, LabelFacts DEF InitReturns

LEMMA FailType == ASSUME TypeOK, Fail PROVE FlowOK /\ res' \in Results
BY ReturnType, InitReturnsType DEF Fail, Results

\* The timeout counter stays a u8.
LEMMA SatType == ASSUME NEW n \in Nat PROVE Sat(n) \in 0..U8Max
BY BoundsAssumption DEF Sat

LEMMA CountType == ASSUME TypeOK, NEW r PROVE Count(r) \in 0..U8Max
BY SatType, BoundsAssumption DEF Count, TypeOK

LEMMA FailedType == ASSUME TypeOK, NEW n \in Nat PROVE Failed(n) \subseteq 0..U8Max
<1>1. \A k \in 0..n : consecutive_timeouts + k \in Nat BY BoundsAssumption DEF TypeOK
<1>2. consecutive_timeouts + n \in Nat BY BoundsAssumption DEF TypeOK
<1> QED BY <1>1, <1>2, SatType DEF Failed

LEMMA SentType == ASSUME TypeOK, NEW r, Sent(r) PROVE CountOK
BY CountType DEF Sent, CountOK

LEMMA SentAllType == ASSUME TypeOK, NEW r, SentAll(r) PROVE CountOK
BY CountType, BoundsAssumption DEF SentAll, CountOK

LEMMA SentUntilType ==
  ASSUME TypeOK, NEW n \in Nat, NEW ok, SentUntil(n, ok) PROVE CountOK
BY FailedType, BoundsAssumption DEF SentUntil, CountOK

LEMMA SentIgnoredType ==
  ASSUME TypeOK, NEW n \in Nat, SentIgnored(n) PROVE CountOK
<1>1. {Sat(k) : k \in 0..(n - 1)} \subseteq 0..U8Max BY SatType
<1> QED BY <1>1, FailedType, BoundsAssumption DEF SentIgnored, CountOK

\* The modem.
LEMMA ModemType ==
  ASSUME TypeOK
  PROVE  /\ \A r : Obey(r) => ModemOK
         /\ \A m \in {"off", "hung", "run"} : Becomes(m) => ModemOK
         /\ ResetPulse => ModemOK
         /\ PowerPulse => ModemOK
         /\ UNCHANGED modemVars => ModemOK
<1>1. \A m \in {"off", "hung", "run"} : Becomes(m) => ModemOK
  BY DEF Becomes, ModemOK
<1>2. UNCHANGED modemVars => ModemOK
  BY DEF ModemOK, modemVars, TypeOK
<1>3. \A r : Obey(r) => ModemOK
  BY <1>2 DEF Obey, ModemOK, TypeOK
<1> QED BY <1>1, <1>2, <1>3 DEF ResetPulse, PowerPulse

LEMMA PowerType ==
  ASSUME TypeOK
  PROVE  /\ \A on : Probe(on) => CountOK
         /\ ProbeFails => CountOK
         /\ \A on : Waited(on) => CountOK
         /\ \A o : PowerOn(o) => CountOK /\ ModemOK
<1> UNCHANGED consecutive_timeouts => CountOK BY DEF CountOK, TypeOK
<1>1. \A on : Probe(on) => CountOK
  BY SentUntilType DEF Probe
<1>2. ProbeFails => CountOK
  BY DEF ProbeFails
<1>3. \A on : Waited(on) => CountOK
  BY BoundsAssumption DEF Waited, CountOK, TypeOK
<1>4. \A o : PowerOn(o) => CountOK
  BY <1>1, <1>2, <1>3 DEF PowerOn, CountOK
<1>5. \A o : PowerOn(o) => ModemOK
  BY ModemType DEF PowerOn
<1> QED BY <1>1, <1>2, <1>3, <1>4, <1>5

-----------------------------------------------------------------------------
(***************************************************************************)
(* The type invariant, one group of actions at a time.                     *)
(***************************************************************************)
\* The variables outside the control flow, the counter and the modem.
RestOK ==
  /\ call' \in ApiCalls /\ res' \in Results
  /\ state' \in {"Off", "AtInitialized", "FullyInitialized"}
  /\ power_state' \in {"Off", "On"} /\ sockets' \in BOOLEAN
  /\ conn_state' \in {"Disconnected", "Connecting", "Connected"}
  /\ registered' \in BOOLEAN /\ dev_urcs' \in 0..UrcCapacity
  /\ calm' \in BOOLEAN /\ defined' \in BOOLEAN /\ lost' \in BOOLEAN

LEMMA TypeParts ==
  ASSUME TypeOK, FlowOK, CountOK, ModemOK, RestOK PROVE TypeOK'
BY DEF TypeOK, FlowOK, CountOK, ModemOK, RestOK, Ctx, Results

\* What a step leaves unchanged keeps its type.
LEMMA SameType ==
  ASSUME TypeOK
  PROVE  /\ UNCHANGED consecutive_timeouts => CountOK
         /\ UNCHANGED <<modem, configured, pdp, psd>> => ModemOK
BY DEF TypeOK, CountOK, ModemOK

LEMMA PowerStepsType ==
  ASSUME TypeOK,
         HardReset \/ PowerIsOn \/ PowerFailed \/ PowerAgain \/ HardPowerOff
           \/ SoftPowerOff \/ FactoryReset \/ PowerState
  PROVE  TypeOK'
<1> USE DEF devVars, regVars, modemVars, histVars
<1>1. CASE HardReset
  <2>1. FlowOK BY <1>1, IssueType, LabelFacts DEF HardReset, PowerLabels
  <2>2. CountOK /\ ModemOK BY <1>1, ModemType, SameType DEF HardReset
  <2>3. RestOK BY <1>1 DEF HardReset, TypeOK, RestOK, Results
  <2> QED BY <2>1, <2>2, <2>3, TypeParts
<1>2. CASE PowerIsOn
  <2>1. CountOK /\ ModemOK BY <1>2, PowerType DEF PowerIsOn
  <2>2. FlowOK /\ res' \in Results
    <3>1. EnterSetup => FlowOK
      BY GotoType, LabelFacts DEF EnterSetup, Ctx, PowerLabels
    <3>2. res \in Results BY DEF TypeOK, Results
    <3>3. "alive" \in Labels BY LabelFacts DEF InitLabels, SetupLabels
    <3> QED BY <1>2, <3>1, <3>2, <3>3, IssueType, InitReturnsType, ReturnType
            DEF PowerIsOn, Results
  <2>3. RestOK BY <1>2, <2>2 DEF PowerIsOn, EnterSetup, TypeOK, RestOK
  <2> QED BY <2>1, <2>2, <2>3, TypeParts
<1>3. CASE PowerFailed
  <2>1. CountOK /\ ModemOK BY <1>3, PowerType DEF PowerFailed
  <2>2. "init_rst" \in Labels /\ "setup_hpo" \in Labels
    BY LabelFacts DEF InitLabels, SetupLabels
  <2>3. FlowOK /\ res' \in Results
    BY <1>3, <2>2, IssueType, FailType DEF PowerFailed, TypeOK, Results
  <2>4. RestOK BY <1>3, <2>3 DEF PowerFailed, TypeOK, RestOK
  <2> QED BY <2>1, <2>3, <2>4, TypeParts
<1>4. CASE PowerAgain
  <2>1. CountOK /\ ModemOK BY <1>4, PowerType DEF PowerAgain
  <2>2. FlowOK BY <1>4 DEF PowerAgain, FlowOK, TypeOK, Ctx
  <2>3. RestOK BY <1>4 DEF PowerAgain, TypeOK, RestOK, Results
  <2> QED BY <2>1, <2>2, <2>3, TypeParts
<1>5. CASE HardPowerOff
  <2>1. CountOK BY <1>5, PowerType DEF HardPowerOff
  <2>2. ModemOK BY <1>5, ModemType DEF HardPowerOff
  <2>3. FlowOK /\ res' \in Results
    BY <1>5, ReturnType, FailType DEF HardPowerOff, Results
  <2>4. RestOK BY <1>5, <2>3 DEF HardPowerOff, TypeOK, RestOK
  <2> QED BY <2>1, <2>2, <2>3, <2>4, TypeParts
<1>6. CASE SoftPowerOff
  <2>1. CountOK BY <1>6, SentType DEF SoftPowerOff
  <2>2. ModemOK BY <1>6, ModemType DEF SoftPowerOff
  <2>3. FlowOK /\ res' \in Results BY <1>6, ReturnType DEF SoftPowerOff, Results
  <2>4. RestOK BY <1>6, <2>3 DEF SoftPowerOff, TypeOK, RestOK
  <2> QED BY <2>1, <2>2, <2>3, <2>4, TypeParts
<1>7. CASE FactoryReset
  <2>1. CountOK
    BY <1>7, SentType, PowerType, BoundsAssumption DEF FactoryReset, CountOK
  <2>2. ModemOK BY <1>7, ModemType DEF FactoryReset
  <2>3. "api_rst" \in Labels BY LabelFacts DEF ResetLabels
  <2>4. FlowOK /\ res' \in Results
    BY <1>7, <2>3, ReturnType, FailType, IssueType, LabelFacts
       DEF FactoryReset, Results, TypeOK
  <2>5. RestOK BY <1>7, <2>4 DEF FactoryReset, TypeOK, RestOK
  <2> QED BY <2>1, <2>2, <2>4, <2>5, TypeParts
<1>8. CASE PowerState
  <2>1. CountOK /\ ModemOK BY <1>8, PowerType, SameType DEF PowerState
  <2>2. FlowOK /\ res' \in Results
    BY <1>8, ReturnType, FailType DEF PowerState, Results
  <2>3. RestOK BY <1>8, <2>2 DEF PowerState, TypeOK, RestOK
  <2> QED BY <2>1, <2>2, <2>3, TypeParts
<1> QED BY <1>1, <1>2, <1>3, <1>4, <1>5, <1>6, <1>7, <1>8

LEMMA InitStepsType ==
  ASSUME TypeOK,
         Alive \/ Configure1 \/ Configure2 \/ SelectSimCard \/ BringUp
           \/ FullFunctionality \/ EventReporting \/ FinishInit
  PROVE  TypeOK'
<1> USE DEF devVars, regVars, modemVars, histVars
<1> DEFINE Next1 == {"cfg1", "setup_rst", "sim1", "sim2", "sim_cfun0", "sim_cfun1",
                     "cfg2", "tz", "cgerep", "creg"}
<1>a. Next1 \subseteq Labels /\ BringUpLabels \subseteq Labels
  BY LabelFacts DEF InitLabels, SetupLabels, BringUpLabels
<1>b. res \in Results BY DEF TypeOK, Results
<1>c. UpdateRegistration =>
        /\ CountOK /\ registered' \in BOOLEAN /\ UNCHANGED conn_state
  BY SentIgnoredType DEF UpdateRegistration, TypeOK
<1>1. CASE Alive
  <2>1. CountOK BY <1>1, SentUntilType DEF Alive
  <2>2. FlowOK BY <1>1, <1>a, IssueType DEF Alive
  <2>3. RestOK BY <1>1, <1>b DEF Alive, TypeOK, RestOK
  <2>4. ModemOK BY <1>1, SameType DEF Alive
  <2> QED BY <2>1, <2>2, <2>3, <2>4, TypeParts
<1>2. CASE Configure1
  <2>1. CountOK BY <1>2, SentAllType DEF Configure1
  <2>2. FlowOK /\ res' \in Results BY <1>2, <1>a, <1>b, IssueType, FailType DEF Configure1
  <2>3. RestOK BY <1>2, <2>2 DEF Configure1, TypeOK, RestOK
  <2>4. ModemOK BY <1>2, SameType DEF Configure1
  <2> QED BY <2>1, <2>2, <2>3, <2>4, TypeParts
<1>3. CASE Configure2
  <2>1. CountOK BY <1>3, SentAllType DEF Configure2
  <2>2. FlowOK /\ res' \in Results
    BY <1>3, <1>a, <1>b, IssueType, ReturnType, FailType DEF Configure2, Results
  <2>3. RestOK BY <1>3, <2>2 DEF Configure2, TypeOK, RestOK
  <2>4. ModemOK BY <1>3 DEF Configure2, ModemOK, TypeOK
  <2> QED BY <2>1, <2>2, <2>3, <2>4, TypeParts
<1>4. CASE SelectSimCard
  <2>1. CountOK BY <1>4, SentType DEF SelectSimCard
  <2>2. FlowOK /\ res' \in Results
    BY <1>4, <1>a, <1>b, IssueType, RetryType, FailType DEF SelectSimCard
  <2>3. RestOK BY <1>4, <2>2 DEF SelectSimCard, TypeOK, RestOK
  <2>4. ModemOK BY <1>4, ModemType DEF SelectSimCard
  <2> QED BY <2>1, <2>2, <2>3, <2>4, TypeParts
<1>5. CASE BringUp
  <2>1. CountOK BY <1>5, SentType DEF BringUp
  <2>2. BringUpNext(pc) \subseteq BringUpLabels BY DEF BringUpNext, BringUpLabels
  <2>3. FlowOK /\ res' \in Results
    BY <1>5, <1>a, <1>b, <2>2, IssueType, FailType DEF BringUp
  <2>4. RestOK BY <1>5, <2>3 DEF BringUp, TypeOK, RestOK
  <2>5. ModemOK BY <1>5, SameType DEF BringUp
  <2> QED BY <2>1, <2>3, <2>4, <2>5, TypeParts
<1>6. CASE FullFunctionality
  <2>1. CountOK BY <1>6, SentType DEF FullFunctionality
  <2>2. FlowOK /\ res' \in Results
    BY <1>6, <1>a, <1>b, IssueType, FailType DEF FullFunctionality
  <2>3. RestOK BY <1>6, <2>2 DEF FullFunctionality, TypeOK, RestOK
  <2>4. ModemOK BY <1>6, SameType DEF FullFunctionality
  <2> QED BY <2>1, <2>2, <2>3, <2>4, TypeParts
<1>7. CASE EventReporting
  <2>1. CountOK BY <1>7, SentType DEF EventReporting
  <2>2. FlowOK BY <1>7, <1>a, IssueType DEF EventReporting
  <2>3. RestOK BY <1>7, <1>b DEF EventReporting, TypeOK, RestOK
  <2>4. ModemOK BY <1>7, SameType DEF EventReporting
  <2> QED BY <2>1, <2>2, <2>3, <2>4, TypeParts
<1>8. CASE FinishInit
  <2>1. FlowOK /\ res' \in Results BY <1>8, InitReturnsType DEF FinishInit, Results
  <2>2. RestOK BY <1>8, <1>c, <2>1 DEF FinishInit, TypeOK, RestOK
  <2>3. CountOK /\ ModemOK BY <1>8, <1>c, SameType DEF FinishInit
  <2> QED BY <2>1, <2>2, <2>3, TypeParts
<1> QED BY <1>1, <1>2, <1>3, <1>4, <1>5, <1>6, <1>7, <1>8

\* spin's ending and what data_service does next.
LEMMA SpinEndType ==
  ASSUME TypeOK
  PROVE  /\ \A c \in Ctx : Connect(c) => FlowOK
         /\ SpinEnd => FlowOK /\ res' \in Results
<1>1. {"idle", "ingress", "cgatt", "dc_cfun0"} \subseteq Labels
  BY LabelFacts DEF ConnectLabels, DefineLabels
<1>2. \A c \in Ctx : Connect(c) => FlowOK
  BY <1>1, GotoType DEF Connect
<1>3. \A r \in Results, c \in Ctx : AfterSpin(r, c) => FlowOK /\ res' \in Results
  BY <1>1, <1>2, GotoType DEF AfterSpin
<1>4. ASSUME SpinEnd PROVE FlowOK /\ res' \in Results
  <2> DEFINE r == IF IsOnline THEN "Ok" ELSE "WouldBlock"
             c == IF ~IsOnline /\ context_state = "Active" THEN "Activating"
                  ELSE context_state
  <2>1. r \in Results /\ c \in Ctx BY DEF Results, Ctx, TypeOK
  <2>2. CASE res = "Err" BY <1>4, <2>2, ReturnType DEF SpinEnd, Results
  <2>3. CASE res # "Err"
    <3>1. IF call = "data_service" THEN AfterSpin(r, c) ELSE res' = r /\ Goto("idle", c)
      BY <1>4, <2>3 DEF SpinEnd
    <3> QED BY <1>1, <1>3, <2>1, <3>1, GotoType
  <2> QED BY <2>2, <2>3
<1> QED BY <1>2, <1>4

LEMMA EventStepsType ==
  ASSUME TypeOK,
         ProcessEvents \/ Intervene \/ CheckImsi \/ CheckDue \/ CheckNotDue
           \/ PeriodicCheck
  PROVE  TypeOK'
<1> USE DEF devVars, regVars, modemVars, histVars
<1>a. res \in Results /\ context_state \in Ctx BY DEF TypeOK, Results, Ctx
<1>b. "ev_rst" \in Labels BY LabelFacts DEF ResetLabels
<1>c. UpdateRegistration =>
        /\ CountOK /\ registered' \in BOOLEAN /\ UNCHANGED conn_state
  BY SentIgnoredType DEF UpdateRegistration, TypeOK
<1>1. CASE ProcessEvents
  <2>1. CountOK BY <1>1, SameType, BoundsAssumption DEF ProcessEvents, CountOK
  <2>2. ModemOK BY <1>1, SameType DEF ProcessEvents
  <2>3. FlowOK /\ res' \in Results
    <3>1. CASE power_state # "On"
      BY <1>1, <3>1, ReturnType DEF ProcessEvents, Results
    <3>2. CASE power_state = "On" /\ TooManyTimeouts
      <4>1. Issue("ev_rst") /\ UNCHANGED res
        BY <1>1, <3>2 DEF ProcessEvents
      <4> QED BY <4>1, <1>a, <1>b, IssueType
    <3>3. CASE power_state = "On" /\ ~TooManyTimeouts
      <4>1. /\ HandleUrc(context_state) /\ tries' = 0 /\ UNCHANGED res
            /\ pc' \in {"intervene", "imsi", "sched"}
        BY <1>1, <3>3 DEF ProcessEvents
      <4> QED BY <4>1, <1>a, HandleUrcType, LabelFacts DEF FlowOK
    <3> QED BY <3>1, <3>2, <3>3
  <2>4. conn_state' \in {"Disconnected", "Connecting", "Connected"}
    BY <1>1 DEF ProcessEvents, CheckRegistrationState, TypeOK
  <2>5. dev_urcs' \in 0..UrcCapacity
    BY <1>1, BoundsAssumption DEF ProcessEvents, UrcsLeft, TypeOK
  <2>6. RestOK BY <1>1, <2>3, <2>4, <2>5 DEF ProcessEvents, TypeOK, RestOK
  <2> QED BY <2>1, <2>2, <2>3, <2>6, TypeParts
<1>2. CASE Intervene
  <2>1. CountOK BY <1>2, SentType, SentAllType, SameType DEF Intervene
  <2>2. ModemOK BY <1>2, ModemType DEF Intervene
  <2>3. Onward => FlowOK BY IssueType, LabelFacts DEF Onward
  <2>4. FlowOK /\ res' \in Results
    BY <1>2, <1>a, <2>3, IssueType, FailType, LabelFacts DEF Intervene
  <2>5. RestOK BY <1>2, <2>4 DEF Intervene, TypeOK, RestOK
  <2> QED BY <2>1, <2>2, <2>4, <2>5, TypeParts
<1>3. CASE CheckImsi
  <2>1. CountOK BY <1>3, SentUntilType DEF CheckImsi
  <2>2. FlowOK BY <1>3, IssueType, LabelFacts DEF CheckImsi
  <2>3. RestOK /\ ModemOK BY <1>3, <1>a, SameType DEF CheckImsi, TypeOK, RestOK
  <2> QED BY <2>1, <2>2, <2>3, TypeParts
<1>4. CASE CheckDue
  <2>1. FlowOK BY <1>4, IssueType, LabelFacts DEF CheckDue
  <2>2. CountOK /\ ModemOK BY <1>4, SameType DEF CheckDue
  <2>3. RestOK BY <1>4, <1>a DEF CheckDue, TypeOK, RestOK
  <2> QED BY <2>1, <2>2, <2>3, TypeParts
<1>5. CASE CheckNotDue
  <2>1. FlowOK /\ res' \in Results BY <1>5, SpinEndType DEF CheckNotDue
  <2>2. CountOK /\ ModemOK BY <1>5, SameType DEF CheckNotDue
  <2>3. RestOK BY <1>5, <2>1 DEF CheckNotDue, TypeOK, RestOK
  <2> QED BY <2>1, <2>2, <2>3, TypeParts
<1>6. CASE PeriodicCheck
  <2>1. FlowOK /\ res' \in Results
    BY <1>6, <1>a, <1>b, SpinEndType, IssueType DEF PeriodicCheck
  <2>2. CountOK /\ ModemOK BY <1>6, <1>c, SameType DEF PeriodicCheck
  <2>3. RestOK BY <1>6, <1>c, <2>1 DEF PeriodicCheck, TypeOK, RestOK
  <2> QED BY <2>1, <2>2, <2>3, TypeParts
<1> QED BY <1>1, <1>2, <1>3, <1>4, <1>5, <1>6

LEMMA ContextStepsType ==
  ASSUME TypeOK,
         DefineContext \/ AttachNetwork \/ ActivateContextUpsd \/ ActivateContext
           \/ SocketIngressAll \/ ServiceSendAt \/ ServiceHandleUrc \/ DropService
  PROVE  TypeOK'
<1> USE DEF devVars, regVars, modemVars, histVars
<1>a. res \in Results /\ context_state \in Ctx BY DEF TypeOK, Results, Ctx
<1>b. "Activating" \in Ctx /\ "Active" \in Ctx /\ "WouldBlock" \in Results
      /\ "Ok" \in Results
  BY DEF Ctx, Results
<1>c. Activated => FlowOK /\ lost' = FALSE
  BY <1>b, GotoType, LabelFacts DEF Activated
<1>1. CASE DefineContext
  <2>1. CountOK BY <1>1, SentType DEF DefineContext
  <2>2. ModemOK BY <1>1, ModemType DEF DefineContext
  <2>3. FlowOK /\ res' \in Results
    BY <1>1, <1>a, <1>b, SpinEndType, GotoType, IssueType, FailType, LabelFacts
       DEF DefineContext, DefineLabels
  <2>4. RestOK BY <1>1, <2>3 DEF DefineContext, TypeOK, RestOK
  <2> QED BY <2>1, <2>2, <2>3, <2>4, TypeParts
<1>2. CASE AttachNetwork
  <2>1. CountOK BY <1>2, SentType DEF AttachNetwork
  <2>2. FlowOK /\ res' \in Results
    BY <1>2, <1>a, <1>b, RetryType, ReturnType, IssueType, FailType, LabelFacts
       DEF AttachNetwork, ConnectLabels
  <2>3. RestOK /\ ModemOK BY <1>2, <2>2, SameType DEF AttachNetwork, TypeOK, RestOK
  <2> QED BY <2>1, <2>2, <2>3, TypeParts
<1>3. CASE ActivateContextUpsd
  <2>1. CountOK BY <1>3, SentType DEF ActivateContextUpsd
  <2>2. ModemOK BY <1>3, ModemType DEF ActivateContextUpsd
  <2>3. FlowOK /\ res' \in Results /\ lost' \in BOOLEAN
    BY <1>3, <1>a, <1>b, <1>c, RetryType, GotoType, IssueType, FailType, LabelFacts
       DEF ActivateContextUpsd, ConnectLabels, TypeOK
  <2>4. RestOK BY <1>3, <2>3 DEF ActivateContextUpsd, TypeOK, RestOK
  <2> QED BY <2>1, <2>2, <2>3, <2>4, TypeParts
<1>4. CASE ActivateContext
  <2>1. CountOK BY <1>4, SentType DEF ActivateContext
  <2>2. ModemOK BY <1>4, ModemType DEF ActivateContext
  <2>3. ProfileNext(pc) \subseteq ConnectLabels BY DEF ProfileNext, ConnectLabels
  <2>4. FlowOK /\ res' \in Results /\ lost' \in BOOLEAN
    BY <1>4, <1>a, <1>b, <1>c, <2>3, ReturnType, IssueType, FailType, LabelFacts
       DEF ActivateContext, ConnectLabels, TypeOK
  <2>5. RestOK BY <1>4, <2>4 DEF ActivateContext, TypeOK, RestOK
  <2> QED BY <2>1, <2>2, <2>4, <2>5, TypeParts
<1>5. CASE SocketIngressAll
  <2>1. CountOK BY <1>5, SameType, SentIgnoredType DEF SocketIngressAll
  <2>2. FlowOK BY <1>5, IssueType, LabelFacts DEF SocketIngressAll
  <2>3. RestOK /\ ModemOK
    BY <1>5, <1>b, SameType DEF SocketIngressAll, TypeOK, RestOK
  <2> QED BY <2>1, <2>2, <2>3, TypeParts
<1>6. CASE ServiceSendAt
  <2>1. CountOK BY <1>6, SameType, SentType DEF ServiceSendAt
  <2>2. FlowOK BY <1>6, IssueType, LabelFacts DEF ServiceSendAt
  <2>3. RestOK /\ ModemOK BY <1>6, <1>a, SameType DEF ServiceSendAt, TypeOK, RestOK
  <2> QED BY <2>1, <2>2, <2>3, TypeParts
<1>7. CASE ServiceHandleUrc
  <2>1. Tail(net_urcs) \in Seq(Urcs) /\ Len(Tail(net_urcs)) = Len(net_urcs) - 1
    BY <1>7 DEF ServiceHandleUrc, TypeOK
  <2>2. Len(net_urcs) \in Nat BY DEF TypeOK
  <2>3. FlowOK
    BY <1>7, <1>a, <2>1, <2>2, BoundsAssumption DEF ServiceHandleUrc, FlowOK, TypeOK
  <2>4. RestOK BY <1>7, <1>a DEF ServiceHandleUrc, TypeOK, RestOK
  <2>5. CountOK /\ ModemOK BY <1>7, SameType DEF ServiceHandleUrc
  <2> QED BY <2>3, <2>4, <2>5, TypeParts
<1>8. CASE DropService
  <2>1. FlowOK BY <1>8, IssueType, LabelFacts DEF DropService
  <2>2. CountOK /\ ModemOK BY <1>8, SameType DEF DropService
  <2>3. RestOK BY <1>8, <1>a DEF DropService, TypeOK, RestOK
  <2> QED BY <2>1, <2>2, <2>3, TypeParts
<1> QED BY <1>1, <1>2, <1>3, <1>4, <1>5, <1>6, <1>7, <1>8

LEMMA CallsType == ASSUME TypeOK, Call \/ ApiAt PROVE TypeOK'
<1> USE DEF devVars, regVars, modemVars, histVars
<1>a. res \in Results /\ "Setup" \in Ctx /\ "Ok" \in Results /\ "Err" \in Results
  BY DEF TypeOK, Results, Ctx
<1>b. {"init_pon", "setup_pon", "api_rst", "api_pon"} \subseteq Labels
  BY LabelFacts DEF PowerLabels, ResetLabels
<1>c. EnterSetup => FlowOK /\ defined' = FALSE /\ lost' = FALSE
  BY <1>a, <1>b, GotoType DEF EnterSetup
<1>1. ASSUME NEW k \in ApiCalls, CallInitialize(k) PROVE TypeOK'
  <2>1. CountOK /\ ModemOK BY <1>1, SameType DEF CallInitialize
  <2>2. FlowOK /\ res' \in Results
    BY <1>1, <1>a, <1>b, <1>c, IssueType, LabelFacts DEF CallInitialize
  <2>3. RestOK BY <1>1, <1>c, <2>2 DEF CallInitialize, TypeOK, RestOK
  <2> QED BY <2>1, <2>2, <2>3, TypeParts
<1>2. ASSUME NEW k \in ApiCalls, CallPower(k) PROVE TypeOK'
  <2>1. CountOK /\ ModemOK BY <1>2, SameType DEF CallPower
  <2>2. FlowOK BY <1>2, <1>b, IssueType, LabelFacts DEF CallPower
  <2>3. RestOK BY <1>2, <1>a DEF CallPower, TypeOK, RestOK
  <2> QED BY <2>1, <2>2, <2>3, TypeParts
<1>3. ASSUME NEW k \in ApiCalls, CallStorage(k) PROVE TypeOK'
  <2>1. CountOK /\ ModemOK BY <1>3, SameType DEF CallStorage
  <2>2. FlowOK /\ res' \in Results BY <1>3, <1>a, ReturnType DEF CallStorage
  <2>3. RestOK BY <1>3, <2>2 DEF CallStorage, TypeOK, RestOK
  <2> QED BY <2>1, <2>2, <2>3, TypeParts
<1>4. CASE CallSetup
  <2>1. CountOK /\ ModemOK BY <1>4, SameType DEF CallSetup
  <2>2. RestOK BY <1>4, <1>a, <1>c DEF CallSetup, TypeOK, RestOK, ApiCalls
  <2> QED BY <1>4, <1>c, <2>1, <2>2, TypeParts DEF CallSetup
<1>5. CASE CallSendAt
  <2>1. CountOK /\ ModemOK BY <1>5, SameType DEF CallSendAt
  <2>2. FlowOK /\ res' \in Results
    BY <1>5, <1>a, ReturnType, IssueType, LabelFacts DEF CallSendAt
  <2>3. RestOK BY <1>5, <2>2 DEF CallSendAt, TypeOK, RestOK, ApiCalls
  <2> QED BY <2>1, <2>2, <2>3, TypeParts
<1>6. CASE ApiAt
  <2>1. CountOK BY <1>6, SentType DEF ApiAt
  <2>2. FlowOK /\ res' \in Results BY <1>6, <1>a, ReturnType DEF ApiAt
  <2>3. RestOK /\ ModemOK BY <1>6, <2>2, SameType DEF ApiAt, TypeOK, RestOK
  <2> QED BY <2>1, <2>2, <2>3, TypeParts
<1> QED BY <1>1, <1>2, <1>3, <1>4, <1>5, <1>6 DEF Call

LEMMA EnvironmentType == ASSUME TypeOK, Environment PROVE TypeOK'
<1> USE DEF driverVars, devVars, regVars, modemVars, histVars
<1>1. \A u \in Urcs : Publish(u) =>
        /\ net_urcs' \in Seq(Urcs) /\ Len(net_urcs') <= UrcCapacity
        /\ dev_urcs' \in 0..UrcCapacity /\ lost' \in BOOLEAN
  <2> SUFFICES ASSUME NEW u \in Urcs, Publish(u)
               PROVE  /\ net_urcs' \in Seq(Urcs) /\ Len(net_urcs') <= UrcCapacity
                      /\ dev_urcs' \in 0..UrcCapacity /\ lost' \in BOOLEAN
    OBVIOUS
  <2>1. CASE ChannelFull BY <2>1 DEF Publish, TypeOK
  <2>2. CASE ~ChannelFull
    <3>1. net_urcs \in Seq(Urcs) /\ Len(net_urcs) \in Nat BY DEF TypeOK
    <3>2. Append(net_urcs, u) \in Seq(Urcs)
          /\ Len(Append(net_urcs, u)) = Len(net_urcs) + 1
      BY <3>1
    <3> QED BY <2>2, <3>1, <3>2, BoundsAssumption DEF Publish, ChannelFull, TypeOK
  <2> QED BY <2>1, <2>2
<1>2. FlowOK <=> /\ pc' \in Labels /\ tries' \in Nat /\ context_state' \in Ctx
                 /\ net_urcs' \in Seq(Urcs) /\ Len(net_urcs') <= UrcCapacity
  BY DEF FlowOK
<1>3. CASE ModemReports
  <2>1. PICK u \in Urcs : Publish(u) BY <1>3, SetsAssumption DEF ModemReports
  <2>2. FlowOK BY <1>1, <1>2, <1>3, <2>1 DEF ModemReports, TypeOK, Ctx
  <2>3. CountOK /\ ModemOK BY <1>3, SameType DEF ModemReports
  <2>4. RestOK BY <1>1, <1>3, <2>1 DEF ModemReports, TypeOK, RestOK, Results
  <2> QED BY <2>2, <2>3, <2>4, TypeParts
<1>4. CASE NetworkDeactivates
  <2>1. PICK u \in Urcs : Publish(u) BY <1>4 DEF NetworkDeactivates, Urcs
  <2>2. FlowOK BY <1>1, <1>2, <1>4, <2>1 DEF NetworkDeactivates, TypeOK, Ctx
  <2>3. CountOK BY <1>4, SameType DEF NetworkDeactivates
  <2>4. ModemOK BY <1>4 DEF NetworkDeactivates, ModemOK, TypeOK
  <2>5. RestOK BY <1>1, <1>4, <2>1 DEF NetworkDeactivates, TypeOK, RestOK, Results
  <2> QED BY <2>2, <2>3, <2>4, <2>5, TypeParts
<1>5. CASE ModemDies
  <2>1. FlowOK BY <1>2, <1>5 DEF ModemDies, TypeOK, Ctx
  <2>2. CountOK /\ ModemOK BY <1>5, SameType, ModemType DEF ModemDies
  <2>3. RestOK BY <1>5 DEF ModemDies, TypeOK, RestOK, Results
  <2> QED BY <2>1, <2>2, <2>3, TypeParts
<1>6. CASE BecomeCalm
  <2>1. FlowOK BY <1>2, <1>6 DEF BecomeCalm, TypeOK, Ctx
  <2>2. CountOK /\ ModemOK BY <1>6, SameType DEF BecomeCalm
  <2>3. RestOK BY <1>6 DEF BecomeCalm, TypeOK, RestOK, Results
  <2> QED BY <2>1, <2>2, <2>3, TypeParts
<1> QED BY <1>3, <1>4, <1>5, <1>6 DEF Environment

\* Every variable of the driver keeps its type: in particular the timeout counter
\* stays a u8 (saturating_add) and neither subscription's backlog exceeds the
\* channel's capacity.
THEOREM TypeCorrect == Spec => []TypeOK
<1>1. Init => TypeOK
  <2> SUFFICES ASSUME Init PROVE TypeOK
    OBVIOUS
  <2>1. net_urcs \in Seq(Urcs) /\ Len(net_urcs) = 0 BY DEF Init
  <2>2. "idle" \in Labels /\ "data_service" \in ApiCalls BY LabelFacts DEF ApiCalls
  <2>3. /\ sockets \in BOOLEAN /\ registered \in BOOLEAN /\ configured \in BOOLEAN
        /\ pdp \in BOOLEAN /\ psd \in BOOLEAN /\ calm \in BOOLEAN
        /\ defined \in BOOLEAN /\ lost \in BOOLEAN
    BY Zenon DEF Init
  <2>4. consecutive_timeouts \in 0..U8Max /\ dev_urcs \in 0..UrcCapacity
        /\ tries \in Nat /\ 0 <= UrcCapacity
    BY BoundsAssumption DEF Init
  <2> QED BY <2>1, <2>2, <2>3, <2>4 DEF Init, TypeOK
<1>2. TypeOK /\ [Next]_vars => TypeOK'
  <2> SUFFICES ASSUME TypeOK, [Next]_vars PROVE TypeOK'
    OBVIOUS
  <2>1. CASE Next
    BY <2>1, PowerStepsType, InitStepsType, EventStepsType, ContextStepsType,
       CallsType, EnvironmentType DEF Next, Driver, Service
  <2>2. CASE UNCHANGED vars
    BY <2>2 DEF vars, devVars, regVars, modemVars, histVars, TypeOK
  <2> QED BY <2>1, <2>2
<1> QED BY <1>1, <1>2, PTL DEF Spec

-----------------------------------------------------------------------------
(***************************************************************************)
(* A DataService is only made on a ready device.                           *)
(***************************************************************************)
Ready == /\ power_state = "On" /\ state = "FullyInitialized"
         /\ conn_state = "Connected"

\* ServiceReady is not inductive by itself: data_service gets to its labels from
\* the end of process_events, which only runs with the power on, and from
\* define_context, whose res = "Ok" stands for spin's test.
ReadyInv ==
  /\ pc \in EventLabels \ {"events"} => power_state = "On"
  /\ (pc \in DefineLabels /\ res = "Ok") => Ready
  /\ pc \in ConnectLabels \cup ServiceLabels => Ready

\* The labels ReadyInv says nothing about.
Neutral == InitLabels \cup ResetLabels \cup PowerLabels \cup
  {"idle", "events", "api_at", "cpwroff", "hpo", "ufactory", "fr_soft", "probe"}

LEMMA NeutralReady == ASSUME pc' \in Neutral PROVE ReadyInv'
BY DEF Neutral, ReadyInv, InitLabels, SetupLabels, BringUpLabels, ResetLabels,
       PowerLabels, EventLabels, DefineLabels, ConnectLabels, ServiceLabels

\* Where the helpers lead.
LEMMA Flow ==
  /\ \A l, c : Goto(l, c) => pc' = l
  /\ \A l : Issue(l) => pc' = l
  /\ Retry => pc' = pc
  /\ \A r : Return(r) => pc' = "idle" /\ res' = r
  /\ \A r : InitReturns(r) => pc' \in {"idle", "events"} /\ res' = r
  /\ Fail => pc' \in {"idle", "events"}
  /\ EnterSetup => pc' = "setup_pon"
  /\ Activated => pc' = "ingress"
  /\ Onward => pc' \in {"imsi", "sched"}
  /\ \A c : Connect(c) => pc' \in {"ingress", "cgatt"}
<1>1. \A l, c : Goto(l, c) => pc' = l BY DEF Goto
<1>2. \A l : Issue(l) => pc' = l BY <1>1 DEF Issue
<1>3. \A r : Return(r) => pc' = "idle" /\ res' = r BY <1>2 DEF Return
<1>4. \A r : InitReturns(r) => pc' \in {"idle", "events"} /\ res' = r
  BY <1>2 DEF InitReturns
<1> QED BY <1>1, <1>2, <1>3, <1>4 DEF Retry, Fail, EnterSetup, Activated, Onward, Connect

LEMMA SpinEndReady ==
  ASSUME SpinEnd, UNCHANGED <<power_state, state, conn_state>>, power_state = "On"
  PROVE  ReadyInv'
<1> DEFINE r == IF IsOnline THEN "Ok" ELSE "WouldBlock"
           c == IF ~IsOnline /\ context_state = "Active" THEN "Activating"
                ELSE context_state
<1>1. CASE res = "Err" \/ call # "data_service"
  <2>1. pc' = "idle" BY <1>1, Flow DEF SpinEnd
  <2> QED BY <2>1, NeutralReady DEF Neutral
<1>2. CASE res # "Err" /\ call = "data_service"
  <2>1. AfterSpin(r, c) BY <1>2 DEF SpinEnd
  <2>2. CASE IsOnline
    BY <2>1, <2>2, Flow DEF IsOnline, ReadyInv, Ready, EventLabels
  <2>3. CASE ~IsOnline
    <3>1. res' = "WouldBlock" /\ pc' \in {"idle", "dc_cfun0"}
      BY <2>1, <2>3, Flow DEF AfterSpin
    <3> QED BY <3>1 DEF ReadyInv, EventLabels, ConnectLabels, ServiceLabels
  <2> QED BY <2>2, <2>3
<1> QED BY <1>1, <1>2

LEMMA ReadyStep ==
  ASSUME ReadyInv, [Next]_vars PROVE ReadyInv'
<1> USE DEF devVars, regVars
<1>1. ASSUME HardReset \/ PowerIsOn \/ PowerFailed \/ PowerAgain \/ HardPowerOff
             \/ SoftPowerOff \/ FactoryReset \/ PowerState \/ ApiAt
      PROVE  pc' \in Neutral
  BY <1>1, Flow DEF HardReset, PowerIsOn, PowerFailed, PowerAgain, HardPowerOff,
     SoftPowerOff, FactoryReset, PowerState, ApiAt, Neutral, InitLabels,
     SetupLabels, PowerLabels, ResetLabels
<1>2. ASSUME Alive \/ Configure1 \/ Configure2 \/ SelectSimCard \/ BringUp
             \/ FullFunctionality \/ EventReporting \/ FinishInit
      PROVE  pc' \in Neutral
  BY <1>2, Flow DEF Alive, Configure1, Configure2, SelectSimCard, BringUp,
     BringUpNext, FullFunctionality, EventReporting, FinishInit, Neutral,
     InitLabels, SetupLabels, BringUpLabels, ResetLabels
<1>3. ASSUME Call PROVE pc' \in Neutral
  BY <1>3, Flow DEF Call, CallInitialize, CallPower, CallStorage, CallSetup,
     CallSendAt, Neutral, PowerLabels, ResetLabels
<1>4. CASE ProcessEvents
  <2>1. \/ pc' \in {"idle", "ev_rst"}
        \/ pc' \in {"intervene", "imsi", "sched"} /\ power_state' = "On"
    BY <1>4, Flow DEF ProcessEvents
  <2> QED BY <2>1, NeutralReady DEF Neutral, ResetLabels, ReadyInv, DefineLabels,
             ConnectLabels, ServiceLabels
<1>5. CASE Intervene \/ CheckImsi \/ CheckDue
  <2>1. power_state = "On" /\ power_state' = "On"
    BY <1>5 DEF Intervene, CheckImsi, CheckDue, ReadyInv, EventLabels
  <2>2. pc' \in EventLabels \cup {"idle"}
    BY <1>5, Flow DEF Intervene, CheckImsi, CheckDue, EventLabels
  <2> QED BY <2>1, <2>2 DEF ReadyInv, EventLabels, DefineLabels, ConnectLabels,
             ServiceLabels
<1>6. CASE CheckNotDue \/ PeriodicCheck
  <2>1. power_state = "On" /\ UNCHANGED <<power_state, state, conn_state>>
    BY <1>6 DEF CheckNotDue, PeriodicCheck, UpdateRegistration, ReadyInv, EventLabels
  <2>2. SpinEnd \/ pc' = "ev_rst" BY <1>6, Flow DEF CheckNotDue, PeriodicCheck
  <2> QED BY <2>1, <2>2, SpinEndReady, NeutralReady DEF Neutral, ResetLabels
<1>7. CASE DefineContext
  <2>1. UNCHANGED <<power_state, state, conn_state>> BY <1>7 DEF DefineContext
  <2>2. \/ pc' \in {"idle", "events"}
        \/ pc' \in {"dc_cgdcont", "dc_cfun1"} /\ UNCHANGED res
        \/ pc' \in {"ingress", "cgatt"} /\ res = "Ok"
    BY <1>7, Flow DEF DefineContext
  <2>3. res = "Ok" => Ready BY <1>7 DEF DefineContext, ReadyInv
  <2> QED BY <2>1, <2>2, <2>3, NeutralReady
          DEF ReadyInv, Ready, Neutral, EventLabels, ConnectLabels, ServiceLabels
<1>8. CASE AttachNetwork \/ ActivateContextUpsd \/ ActivateContext \/ SocketIngressAll
           \/ Service
  <2>1. UNCHANGED <<power_state, state, conn_state>> /\ Ready
    BY <1>8 DEF AttachNetwork, ActivateContextUpsd, ActivateContext, SocketIngressAll,
       Service, ServiceSendAt, ServiceHandleUrc, DropService, ReadyInv,
       ConnectLabels, ServiceLabels
  <2>2. pc' \in ConnectLabels \cup ServiceLabels \cup {"idle", "events"}
    BY <1>8, Flow DEF AttachNetwork, ActivateContextUpsd, ActivateContext, ProfileNext,
       SocketIngressAll, Service, ServiceSendAt, ServiceHandleUrc, DropService,
       ConnectLabels, ServiceLabels
  <2> QED BY <2>1, <2>2 DEF ReadyInv, Ready, EventLabels, DefineLabels,
             ConnectLabels, ServiceLabels
<1>9. CASE Environment \/ UNCHANGED vars
  <2>1. UNCHANGED <<pc, res, power_state, state, conn_state>>
    BY <1>9 DEF Environment, ModemReports, NetworkDeactivates, ModemDies, BecomeCalm,
       driverVars, vars
  <2> QED BY <2>1 DEF ReadyInv, Ready
<1> QED BY <1>1, <1>2, <1>3, <1>4, <1>5, <1>6, <1>7, <1>8, <1>9, NeutralReady
        DEF Next, Driver

\* Whatever fails and in whatever order URCs arrive, data_service attaches,
\* activates and hands over a DataService only on a device that is on, fully
\* initialised and connected.
THEOREM ServiceIsReady == Spec => []ServiceReady
<1>1. Init => ReadyInv
  BY DEF Init, ReadyInv, EventLabels, DefineLabels, ConnectLabels, ServiceLabels
<1>2. ReadyInv /\ [Next]_vars => ReadyInv' BY ReadyStep
<1>3. ReadyInv => ServiceReady BY DEF ReadyInv, ServiceReady, Ready
<1> QED BY <1>1, <1>2, <1>3, PTL DEF Spec

-----------------------------------------------------------------------------
(***************************************************************************)
(* A FullyInitialized device talks to a configured module.                 *)
(***************************************************************************)
\* The operations that may boot the module behind the state machine's back.
Intrusive == {"power_on", "factory_reset", "setup_at_commands"}

\* ConfiguredWhenReady, strengthened: while initialize runs the state is not
\* FullyInitialized, past setup_at_commands a live module is configured, and
\* the resets outside initialize have noted that the power is off.
ConfInv ==
  /\ ConfiguredWhenReady
  /\ pc \in InitLabels => state # "FullyInitialized"
  /\ (pc \in BringUpLabels /\ modem = "run") => configured
  /\ pc \in {"ev_hr", "api_hr"} => power_state = "Off"
  /\ pc \notin {"api_pon", "ufactory", "fr_soft"}
  /\ call # "setup_at_commands"

LEMMA ConfStep ==
  ASSUME Calls \cap Intrusive = {}, ConfInv, [Next]_vars PROVE ConfInv'
<1> USE DEF devVars, regVars, modemVars, histVars
\* The actions at which none of the six conjuncts is at stake.
<1>a. ASSUME UNCHANGED <<state, power_state, call>>,
             UNCHANGED <<modem, configured>> \/ modem' # "run",
             pc' \in Labels \ (InitLabels \cup {"ev_hr", "api_hr", "api_pon",
                                               "ufactory", "fr_soft"})
      PROVE  ConfInv'
  BY <1>a DEF ConfInv, ConfiguredWhenReady, InitLabels
<1>b. \A r : Obey(r) => UNCHANGED <<modem, configured>>
  BY DEF Obey
<1>c. {"idle", "events", "ev_rst", "api_rst", "api_at", "cpwroff", "hpo", "probe"}
      \cup EventLabels \cup DefineLabels \cup ConnectLabels \cup ServiceLabels
      \subseteq Labels \ (InitLabels \cup {"ev_hr", "api_hr", "api_pon", "ufactory",
                                          "fr_soft"})
  BY DEF Labels, InitLabels, SetupLabels, BringUpLabels, EventLabels, DefineLabels,
         ConnectLabels, ServiceLabels, ResetLabels, PowerLabels
<1>1. CASE HardReset
  <2>1. power_state' = "Off" /\ UNCHANGED <<state, call>> BY <1>1 DEF HardReset
  <2>2. \/ pc' \in {"init_hr", "setup_hr"} /\ pc \in InitLabels
        \/ pc' \in {"ev_hr", "api_hr"}
    BY <1>1, Flow DEF HardReset, ResetLabels, InitLabels, SetupLabels
  <2> QED BY <2>1, <2>2 DEF ConfInv, ConfiguredWhenReady, InitLabels, SetupLabels,
             BringUpLabels
<1>2. CASE PowerIsOn
  <2>1. UNCHANGED <<state, call>> BY <1>2 DEF PowerIsOn
  <2>2. CASE pc \in {"init_pon", "init_hr", "setup_pon", "setup_hr"}
    <3>1. state # "FullyInitialized"
      BY <2>2 DEF ConfInv, InitLabels, SetupLabels
    <3>2. pc' \in {"setup_pon", "alive", "idle", "events"}
      BY <1>2, <2>2, Flow DEF PowerIsOn
    <3> QED BY <2>1, <3>1, <3>2 DEF ConfInv, ConfiguredWhenReady, BringUpLabels
  <2>3. CASE pc \in {"ev_hr", "api_hr"}
    <3>1. power_state = "Off" /\ UNCHANGED power_state /\ pc' = "idle"
      BY <1>2, <2>3, Flow DEF PowerIsOn, ConfInv
    <3> QED BY <2>1, <3>1 DEF ConfInv, ConfiguredWhenReady, InitLabels, SetupLabels,
               BringUpLabels
  <2> QED BY <1>2, <2>2, <2>3 DEF PowerIsOn, PowerLabels, ConfInv
<1>3. CASE PowerFailed
  <2>1. UNCHANGED <<state, power_state, call>> BY <1>3 DEF PowerFailed
  <2>2. CASE pc \in InitLabels
    <3>1. pc' \in {"init_rst", "setup_hpo", "idle", "events"}
      BY <1>3, Flow DEF PowerFailed
    <3> QED BY <2>1, <2>2, <3>1 DEF ConfInv, ConfiguredWhenReady, BringUpLabels
  <2>3. CASE pc \notin InitLabels
    <3>1. pc \in {"ev_hr", "api_hr"} /\ pc' \in {"idle", "events"}
      BY <1>3, <2>3, Flow DEF PowerFailed, PowerLabels, ConfInv, InitLabels, SetupLabels
    <3> QED BY <2>1, <3>1 DEF ConfInv, ConfiguredWhenReady, InitLabels, SetupLabels,
               BringUpLabels
  <2> QED BY <2>2, <2>3
<1>4. CASE PowerAgain
  <2>1. power_state' = "Off" /\ UNCHANGED <<pc, state, call>> /\ pc \in PowerLabels
    BY <1>4 DEF PowerAgain
  <2> QED BY <2>1 DEF ConfInv, ConfiguredWhenReady, PowerLabels, BringUpLabels
<1>5. CASE HardPowerOff
  <2>1. /\ UNCHANGED <<state, call>> /\ pc' \in {"idle", "events"}
        /\ power_state' = "Off" \/ UNCHANGED <<power_state, modem, configured>>
    BY <1>5, Flow DEF HardPowerOff
  <2> QED BY <2>1 DEF ConfInv, ConfiguredWhenReady, InitLabels, SetupLabels, BringUpLabels
<1>6. CASE SoftPowerOff
  <2>1. /\ UNCHANGED <<state, call>> /\ pc' = "idle"
        /\ power_state' = "Off" \/ UNCHANGED power_state
        /\ modem' = "off" \/ UNCHANGED <<modem, configured>>
    BY <1>6, Flow DEF SoftPowerOff, Becomes
  <2> QED BY <2>1 DEF ConfInv, ConfiguredWhenReady, InitLabels, SetupLabels, BringUpLabels
<1>7. CASE FactoryReset
  BY <1>7 DEF FactoryReset, ConfInv
<1>8. CASE PowerState \/ ApiAt
  BY <1>8, <1>a, <1>c, Flow DEF PowerState, ApiAt
<1>9. CASE Alive \/ Configure1 \/ SelectSimCard
  <2>1. UNCHANGED <<state, power_state, call, modem, configured>>
    BY <1>9, <1>b DEF Alive, Configure1, SelectSimCard
  <2>2. /\ pc \in InitLabels
        /\ pc' \in {"cfg1", "setup_rst", "sim1", "sim_cfun0", "sim_cfun1", "cfg2",
                   "idle", "events"} \/ (pc' \in {"sim2", "tz"} /\ pc = "sim2")
    BY <1>9, Flow DEF Alive, Configure1, SelectSimCard, InitLabels, SetupLabels,
                      BringUpLabels
  <2> QED BY <2>1, <2>2 DEF ConfInv, ConfiguredWhenReady, InitLabels, SetupLabels,
             BringUpLabels
<1>10. CASE Configure2
  <2>1. /\ UNCHANGED <<power_state, call, modem>> /\ pc \in InitLabels
        /\ \/ pc' \in {"sim2", "idle"} /\ state' = "AtInitialized" /\ configured' = TRUE
           \/ pc' \in {"idle", "events"} /\ UNCHANGED <<state, configured>>
    BY <1>10, Flow DEF Configure2, InitLabels, SetupLabels
  <2> QED BY <2>1 DEF ConfInv, ConfiguredWhenReady, InitLabels, SetupLabels, BringUpLabels
<1>11. CASE BringUp \/ FullFunctionality \/ EventReporting
  <2>1. UNCHANGED <<state, power_state, call, modem, configured>>
    BY <1>11 DEF BringUp, FullFunctionality, EventReporting
  <2>2. pc \in BringUpLabels /\ pc' \in BringUpLabels \cup {"idle", "events"}
    BY <1>11, Flow DEF BringUp, BringUpNext, FullFunctionality, EventReporting,
                       BringUpLabels
  <2> QED BY <2>1, <2>2 DEF ConfInv, ConfiguredWhenReady, InitLabels, SetupLabels,
             BringUpLabels
<1>12. CASE FinishInit
  <2>1. /\ UNCHANGED <<power_state, call, modem, configured>>
        /\ pc = "upd_init" /\ pc' \in {"idle", "events"}
    BY <1>12, Flow DEF FinishInit
  <2>2. modem = "run" => configured BY <2>1 DEF ConfInv, BringUpLabels
  <2> QED BY <2>1, <2>2 DEF ConfInv, ConfiguredWhenReady, InitLabels, SetupLabels,
             BringUpLabels
<1>13. CASE ProcessEvents \/ Intervene \/ CheckImsi \/ CheckDue
  <2>1. UNCHANGED <<state, power_state, call, modem, configured>>
    BY <1>13, <1>b DEF ProcessEvents, Intervene, CheckImsi, CheckDue
  <2>2. pc' \in EventLabels \cup {"idle", "ev_rst"}
    BY <1>13, Flow DEF ProcessEvents, Intervene, CheckImsi, CheckDue, EventLabels
  <2> QED BY <2>1, <2>2, <1>a, <1>c
<1>14. CASE CheckNotDue \/ PeriodicCheck
  <2>1. UNCHANGED <<state, power_state, call, modem, configured>>
    BY <1>14 DEF CheckNotDue, PeriodicCheck
  <2>2. pc' \in {"idle", "ev_rst", "dc_cfun0", "ingress", "cgatt"}
    BY <1>14, Flow DEF CheckNotDue, PeriodicCheck, SpinEnd, AfterSpin
  <2> QED BY <2>1, <2>2, <1>a, <1>c DEF DefineLabels, ConnectLabels, ServiceLabels
<1>15. CASE DefineContext \/ AttachNetwork \/ ActivateContextUpsd \/ ActivateContext
            \/ SocketIngressAll \/ Service
  <2>1. UNCHANGED <<state, power_state, call, modem, configured>>
    BY <1>15, <1>b DEF DefineContext, AttachNetwork, ActivateContextUpsd,
       ActivateContext, SocketIngressAll, Service, ServiceSendAt, ServiceHandleUrc,
       DropService
  <2>2. pc' \in DefineLabels \cup ConnectLabels \cup ServiceLabels \cup {"idle", "events"}
    BY <1>15, Flow DEF DefineContext, AttachNetwork, ActivateContextUpsd,
       ActivateContext, ProfileNext, SocketIngressAll, Service, ServiceSendAt,
       ServiceHandleUrc, DropService, DefineLabels, ConnectLabels, ServiceLabels
  <2> QED BY <2>1, <2>2, <1>a, <1>c
<1>16. CASE Call
  <2>1. ASSUME NEW k \in ApiCalls, CallInitialize(k) PROVE ConfInv'
    <3>1. /\ UNCHANGED <<power_state, modem, configured>>
          /\ call' \in {"data_service", "spin", "initialize"}
          /\ \/ state' = "Off" /\ pc' = "init_pon"
             \/ state' = state /\ pc' \in {"idle", "events"}
             \/ state # "FullyInitialized" /\ state' = state /\ pc' = "setup_pon"
      BY <2>1, Flow DEF CallInitialize
    <3> QED BY <3>1 DEF ConfInv, ConfiguredWhenReady, InitLabels, SetupLabels,
               BringUpLabels
  <2>2. ASSUME NEW k \in ApiCalls, CallPower(k) PROVE ConfInv'
    <3>1. /\ UNCHANGED <<state, power_state, modem, configured>>
          /\ call' = k /\ k \notin Intrusive
          /\ pc' \in {"api_rst", "cpwroff", "hpo", "probe"}
      BY <2>2, Flow DEF CallPower, Intrusive
    <3> QED BY <3>1 DEF ConfInv, ConfiguredWhenReady, InitLabels, SetupLabels,
               BringUpLabels, Intrusive
  <2>3. ASSUME NEW k \in ApiCalls, CallStorage(k) PROVE ConfInv'
    <3>1. /\ UNCHANGED <<state, power_state, modem, configured>>
          /\ call' = k /\ k # "setup_at_commands" /\ pc' = "idle"
      BY <2>3, Flow DEF CallStorage
    <3> QED BY <3>1 DEF ConfInv, ConfiguredWhenReady, InitLabels, SetupLabels,
               BringUpLabels
  <2>4. CASE CallSetup BY <2>4 DEF CallSetup, Intrusive
  <2>5. CASE CallSendAt
    <3>1. /\ UNCHANGED <<state, power_state, modem, configured>>
          /\ call' = "send_at" /\ pc' \in {"idle", "api_at"}
      BY <2>5, Flow DEF CallSendAt
    <3> QED BY <3>1 DEF ConfInv, ConfiguredWhenReady, InitLabels, SetupLabels,
               BringUpLabels
  <2> QED BY <1>16, <2>1, <2>2, <2>3, <2>4, <2>5 DEF Call
<1>17. CASE Environment \/ UNCHANGED vars
  <2>1. /\ UNCHANGED <<pc, call, power_state, state>>
        /\ modem' # "run" \/ UNCHANGED <<modem, configured>>
    BY <1>17 DEF Environment, ModemReports, NetworkDeactivates, ModemDies, BecomeCalm,
       Becomes, driverVars, vars
  <2> QED BY <2>1 DEF ConfInv, ConfiguredWhenReady
<1> QED BY <1>1, <1>2, <1>3, <1>4, <1>5, <1>6, <1>7, <1>8, <1>9, <1>10, <1>11,
           <1>12, <1>13, <1>14, <1>15, <1>16, <1>17 DEF Next, Driver

\* An application that leaves power_on, factory_reset and setup_at_commands alone
\* never holds a FullyInitialized, powered device whose live module has lost its
\* configuration, however often the modem dies, is reset or is switched off.
THEOREM ConfiguredThroughout ==
  ASSUME Calls \cap Intrusive = {} PROVE Spec => []ConfiguredWhenReady
<1>1. Init => ConfInv
  BY DEF Init, ConfInv, ConfiguredWhenReady, InitLabels, SetupLabels, BringUpLabels
<1>2. ConfInv /\ [Next]_vars => ConfInv' BY ConfStep
<1>3. ConfInv => ConfiguredWhenReady BY DEF ConfInv
<1> QED BY <1>1, <1>2, <1>3, PTL DEF Spec

-----------------------------------------------------------------------------
(***************************************************************************)
(* Refinement of ConnectionFsm.                                            *)
(***************************************************************************)
\* The control loop implements the abstract connection state machine: only
\* AT+CFUN=1 of initialize and check_registration_state move conn_state.
THEOREM DeviceConnects == Spec => ConnectionPromise
<1> USE DEF devVars, regVars, modemVars, histVars, driverVars
<1>1. Init => Fsm!Init BY DEF Init, Fsm!Init
<1>2. ASSUME TypeOK, TypeOK', [Next]_vars PROVE [Fsm!Next]_(Fsm!fsmVars)
  <2> USE DEF Fsm!Next, Fsm!Start, Fsm!Observe, Fsm!Settle, Fsm!fsmVars
  <2>a. UNCHANGED conn_state => Fsm!Observe BY <1>2 DEF TypeOK
  <2>1. CASE HardReset \/ PowerIsOn \/ PowerFailed \/ PowerAgain \/ HardPowerOff
             \/ SoftPowerOff \/ FactoryReset \/ PowerState \/ ApiAt
    BY <2>1, <2>a DEF HardReset, PowerIsOn, PowerFailed, PowerAgain, HardPowerOff,
       SoftPowerOff, FactoryReset, PowerState, ApiAt
  <2>2. CASE Alive \/ Configure1 \/ Configure2 \/ SelectSimCard \/ BringUp
             \/ EventReporting \/ FinishInit
    BY <2>2, <2>a DEF Alive, Configure1, Configure2, SelectSimCard, BringUp,
       EventReporting, FinishInit, UpdateRegistration
  <2>3. CASE FullFunctionality BY <2>3, <2>a DEF FullFunctionality
  <2>4. CASE ProcessEvents
    BY <2>4, <2>a, <1>2 DEF ProcessEvents, CheckRegistrationState, TypeOK
  <2>5. CASE Intervene \/ CheckImsi \/ CheckDue \/ CheckNotDue \/ PeriodicCheck
    BY <2>5, <2>a DEF Intervene, CheckImsi, CheckDue, CheckNotDue, PeriodicCheck,
       UpdateRegistration
  <2>6. CASE DefineContext \/ AttachNetwork \/ ActivateContextUpsd \/ ActivateContext
             \/ SocketIngressAll \/ Service
    BY <2>6, <2>a DEF DefineContext, AttachNetwork, ActivateContextUpsd,
       ActivateContext, SocketIngressAll, Service, ServiceSendAt, ServiceHandleUrc,
       DropService
  <2>7. CASE Call
    BY <2>7, <2>a DEF Call, CallInitialize, CallPower, CallStorage, CallSetup, CallSendAt
  <2>8. CASE Environment \/ UNCHANGED vars
    BY <2>8, <2>a DEF Environment, ModemReports, NetworkDeactivates, ModemDies,
       BecomeCalm, vars
  <2> QED BY <1>2, <2>1, <2>2, <2>3, <2>4, <2>5, <2>6, <2>7, <2>8 DEF Next, Driver
<1> QED BY <1>1, <1>2, TypeCorrect, PTL DEF Spec, ConnectionPromise, Fsm!Spec
=============================================================================
