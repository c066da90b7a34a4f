------------------------ MODULE DeviceContextProofs ------------------------
(***************************************************************************)
(* Theorems about the data context that Device keeps: what context_state   *)
(* says of the modem, and what it says of the context's definition.        *)
(***************************************************************************)
EXTENDS DeviceProofs

-----------------------------------------------------------------------------
(***************************************************************************)
(* The queue of URCs, and what reading one of them does to context_state.  *)
(***************************************************************************)
\* No report of an activation is queued.
NoStaleUp == \A i \in 1..Len(net_urcs) : net_urcs[i] # "activated"

\* The report of a deactivation is queued.
News == \E i \in 1..Len(net_urcs) : net_urcs[i] = "deactivated"

\* The step handled at most one URC after the code had left c in context_state:
\* it did not make the context Active, and took the news of its end off the
\* queue only by acting on it.
Kept(c) == /\ NoStaleUp'
           /\ context_state' = "Active" => c = "Active"
           /\ context_state' = "Active" /\ News => News'

LEMMA HandleUrcKeeps ==
  ASSUME TypeOK, NoStaleUp, NEW c, HandleUrc(c) PROVE Kept(c)
<1>1. net_urcs \in Seq(Urcs) BY DEF TypeOK
<1>2. CASE net_urcs = <<>>
  BY <1>2 DEF HandleUrc, Kept, NoStaleUp, News
<1>3. CASE net_urcs # <<>>
  <2>1. /\ net_urcs' = Tail(net_urcs)
        /\ context_state' = AfterUrc(Head(net_urcs), c)
    BY <1>3 DEF HandleUrc
  <2>2. /\ Len(Tail(net_urcs)) = Len(net_urcs) - 1 /\ Len(net_urcs) \in Nat
        /\ \A i \in 1..Len(Tail(net_urcs)) : Tail(net_urcs)[i] = net_urcs[i + 1]
        /\ Head(net_urcs) = net_urcs[1] /\ Len(net_urcs) >= 1
    BY <1>1, <1>3
  <2>3. NoStaleUp' BY <2>1, <2>2 DEF NoStaleUp
  <2>4. Head(net_urcs) # "activated" BY <2>2 DEF NoStaleUp
  <2>5. context_state' = "Active" => c = "Active" /\ Head(net_urcs) # "deactivated"
    BY <2>1, <2>4 DEF AfterUrc
  <2>6. ASSUME context_state' = "Active", News PROVE News'
    <3>1. PICK i \in 1..Len(net_urcs) : net_urcs[i] = "deactivated"
      BY <2>6 DEF News
    <3>2. i # 1 BY <3>1, <2>2, <2>5, <2>6
    <3>3. i - 1 \in 1..Len(Tail(net_urcs)) /\ (i - 1) + 1 = i
      BY <3>1, <3>2, <2>2
    <3>4. Tail(net_urcs)[i - 1] = "deactivated" BY <3>1, <3>3, <2>2
    <3> QED BY <3>3, <3>4, <2>1 DEF News
  <2> QED BY <2>3, <2>5, <2>6 DEF Kept
<1> QED BY <1>2, <1>3

\* The same for every way a step moves on to the next command.
LEMMA Moves ==
  ASSUME TypeOK, NoStaleUp
  PROVE  /\ \A l, c : Goto(l, c) => Kept(c)
         /\ \A l : Issue(l) => Kept(context_state)
         /\ Retry => Kept(context_state)
         /\ \A r : Return(r) => Kept(context_state)
         /\ \A r : InitReturns(r) => Kept(context_state)
         /\ Fail => Kept(context_state)
         /\ Onward => Kept(context_state)
         /\ EnterSetup => Kept("Setup")
         /\ \A c : Connect(c) => Kept(c)
<1>1. ASSUME NEW l, NEW c, Goto(l, c) PROVE Kept(c)
  <2>1. CASE l \in UrcChecked BY <1>1, <2>1, HandleUrcKeeps DEF Goto
  <2>2. CASE l \notin UrcChecked
    BY <1>1, <2>2 DEF Goto, Kept, NoStaleUp, News
  <2> QED BY <2>1, <2>2
<1>2. \A l : Issue(l) => Kept(context_state) BY <1>1 DEF Issue
<1>3. Retry => Kept(context_state) BY HandleUrcKeeps DEF Retry
<1>4. \A r : Return(r) => Kept(context_state) BY <1>2 DEF Return
<1>5. \A r : InitReturns(r) => Kept(context_state) BY <1>2 DEF InitReturns
<1>6. Fail => Kept(context_state) BY <1>4, <1>5 DEF Fail
<1>7. Onward => Kept(context_state) BY <1>2 DEF Onward
<1>8. EnterSetup => Kept("Setup") BY <1>1 DEF EnterSetup
<1>9. \A c : Connect(c) => Kept(c) BY <1>1 DEF Connect
<1> QED BY <1>1, <1>2, <1>3, <1>4, <1>5, <1>6, <1>7, <1>8, <1>9

\* A URC is queued behind the others, or gone and noted in lost.
LEMMA PublishKeeps ==
  ASSUME TypeOK, NoStaleUp, NEW u, u # "activated", Publish(u)
  PROVE  /\ NoStaleUp'
         /\ News \/ lost => News' \/ lost'
         /\ u = "deactivated" => News' \/ lost'
<1>1. net_urcs \in Seq(Urcs) /\ lost \in BOOLEAN BY DEF TypeOK
<1>2. CASE ChannelFull
  BY <1>1, <1>2 DEF Publish, NoStaleUp, News
<1>3. CASE ~ChannelFull
  <2>1. net_urcs' = Append(net_urcs, u) /\ lost' = lost BY <1>3 DEF Publish
  <2>2. /\ Len(Append(net_urcs, u)) = Len(net_urcs) + 1 /\ Len(net_urcs) \in Nat
        /\ \A i \in 1..Len(net_urcs) : Append(net_urcs, u)[i] = net_urcs[i]
        /\ Append(net_urcs, u)[Len(net_urcs) + 1] = u
    BY <1>1
  <2>3. NoStaleUp' BY <2>1, <2>2 DEF NoStaleUp
  <2>4. News => News' BY <2>1, <2>2 DEF News
  <2>5. u = "deactivated" => News' BY <2>1, <2>2 DEF News
  <2> QED BY <2>1, <2>3, <2>4, <2>5
<1> QED BY <1>2, <1>3

-----------------------------------------------------------------------------
(***************************************************************************)
(* An Active context is up, or the news of its end is on the way.          *)
(***************************************************************************)
\* Between setup_at_commands, which forgets the context, and the end of
\* initialize, and while the context is being defined, it is not Active.
FreshLabels == (InitLabels \ {"init_pon", "init_hr", "init_rst"}) \cup DefineLabels

\* intervene_registration, which may cycle the radio.
DropLabels == {"intervene", "itv_cops0", "itv_cycle", "itv_pdp", "itv_cgact",
               "itv_cops"}

\* The driver will notice that the context is gone before it hands over another
\* service: by the URC, by the reset it has decided on or noted in power_state,
\* or because spin demotes an Active context that is not online.
Noticed == \/ modem # "run" \/ lost \/ News \/ power_state = "Off" \/ pc = "ev_rst"
           \/ conn_state # "Connected" /\ ~registered

Truth == context_state = "Active" => psd \/ Noticed

\* A spin whose initialize failed does not demote the context at its end.
FailedSpin == (pc \in EventLabels /\ res = "Err") =>
                context_state # "Active" \/ power_state = "Off"

TruthInv ==
  /\ NoStaleUp /\ Truth /\ FailedSpin
  /\ pc \in FreshLabels => context_state # "Active"
  /\ pc \in {"init_pon", "init_hr", "init_rst", "ev_hr", "api_hr"} => power_state = "Off"
  /\ pc \in DropLabels => conn_state # "Connected" /\ ~registered
  /\ pc \notin {"api_pon", "ufactory", "fr_soft"}
  /\ pc = "pdp_q" => ~Upsd

\* The labels of which TruthInv says no more than Truth.
PlainLabels == {"idle", "ev_rst", "api_rst", "api_at", "cpwroff", "hpo",
                "probe"} \cup ServiceLabels \cup (ConnectLabels \ {"pdp_q"})

\* What TruthInv needs to know of the label a step leads to.
LEMMA AtLabel ==
  /\ \A l \in PlainLabels :
       /\ l \notin FreshLabels \cup DropLabels \cup EventLabels
       /\ l \notin {"init_pon", "init_hr", "init_rst", "ev_hr", "api_hr",
                    "api_pon", "ufactory", "fr_soft", "pdp_q"}
  /\ \A l \in FreshLabels :
       /\ l \notin DropLabels \cup EventLabels
       /\ l \notin {"init_pon", "init_hr", "init_rst", "ev_hr", "api_hr",
                    "api_pon", "ufactory", "fr_soft", "pdp_q", "ev_rst"}
  /\ \A l \in EventLabels :
       /\ l \notin FreshLabels
       /\ l \notin {"init_pon", "init_hr", "init_rst", "ev_hr", "api_hr",
                    "api_pon", "ufactory", "fr_soft", "pdp_q", "ev_rst"}
BY DEF PlainLabels, FreshLabels, DropLabels, EventLabels, InitLabels, SetupLabels,
       BringUpLabels, DefineLabels, ServiceLabels, ConnectLabels

\* A step that leaves the context not Active, or the power off.
LEMMA Harmless ==
  ASSUME NoStaleUp', context_state' # "Active" \/ power_state' = "Off",
         \/ pc' \in PlainLabels
         \/ pc' \in FreshLabels /\ context_state' # "Active"
         \/ pc' = "events"
         \/ pc' \in {"init_pon", "init_hr", "init_rst", "ev_hr", "api_hr"}
            /\ power_state' = "Off"
  PROVE  TruthInv'
<1>1. Truth' /\ FailedSpin' BY DEF Truth, Noticed, FailedSpin
<1>2. CASE pc' \in PlainLabels BY <1>1, <1>2, AtLabel DEF TruthInv
<1>3. CASE pc' \in FreshLabels /\ context_state' # "Active"
  BY <1>1, <1>3, AtLabel DEF TruthInv
<1>4. CASE pc' = "events"
  BY <1>1, <1>4, AtLabel DEF TruthInv, EventLabels, DropLabels
<1>5. CASE /\ pc' \in {"init_pon", "init_hr", "init_rst", "ev_hr", "api_hr"}
           /\ power_state' = "Off"
  BY <1>1, <1>5 DEF TruthInv, FreshLabels, DropLabels, DefineLabels, InitLabels,
     SetupLabels, BringUpLabels
<1> QED BY <1>2, <1>3, <1>4, <1>5

\* A step after which whatever spoke for an Active context still does.
LEMMA TruthKept ==
  ASSUME TruthInv, Kept(context_state), pc # "ev_rst",
         UNCHANGED <<power_state, conn_state, registered, lost>>,
         UNCHANGED <<modem, psd>> \/ modem' # "run" \/ psd' = TRUE
  PROVE  Truth'
BY DEF TruthInv, Truth, Noticed, Kept

\* The applications the theorem is about: those that do not boot the module
\* behind the state machine's back.
Reboots == {"power_on", "factory_reset"}

LEMMA TruthPower ==
  ASSUME TypeOK, TruthInv,
         HardReset \/ PowerIsOn \/ PowerFailed \/ PowerAgain \/ HardPowerOff
         \/ SoftPowerOff \/ FactoryReset
  PROVE  TruthInv'
<1> USE DEF devVars, regVars, modemVars, histVars
<1>0. NoStaleUp BY DEF TruthInv
<1>1. CASE HardReset
  <2>1. power_state' = "Off" /\ Kept(context_state)
    BY <1>1, <1>0, Moves DEF HardReset
  <2>2. \/ pc' = "setup_hr" /\ pc = "setup_rst"
        \/ pc' \in {"init_hr", "ev_hr", "api_hr"}
    BY <1>1, Flow DEF HardReset, ResetLabels
  <2>3. pc = "setup_rst" => context_state # "Active"
    BY DEF TruthInv, FreshLabels, InitLabels, SetupLabels
  <2>4. "setup_hr" \in FreshLabels BY DEF FreshLabels, InitLabels, SetupLabels
  <2> QED BY <2>1, <2>2, <2>3, <2>4, Harmless DEF Kept
<1>2. CASE PowerIsOn
  <2>1. CASE pc \in {"init_pon", "init_hr"}
    <3>1. EnterSetup /\ pc' = "setup_pon" BY <1>2, <2>1, Flow DEF PowerIsOn
    <3>2. NoStaleUp' /\ context_state' # "Active" BY <3>1, <1>0, Moves DEF Kept
    <3>3. "setup_pon" \in FreshLabels BY DEF FreshLabels, InitLabels, SetupLabels
    <3> QED BY <3>1, <3>2, <3>3, Harmless
  <2>2. CASE pc \in {"setup_pon", "setup_hr"}
    <3>1. context_state # "Active"
      BY <2>2 DEF TruthInv, FreshLabels, InitLabels, SetupLabels
    <3>2. Kept(context_state) /\ pc' \in {"alive", "idle", "events"}
      BY <1>2, <2>2, <1>0, Flow, Moves DEF PowerIsOn
    <3>3. "alive" \in FreshLabels BY DEF FreshLabels, InitLabels, SetupLabels
    <3>4. "idle" \in PlainLabels BY DEF PlainLabels
    <3> QED BY <3>1, <3>2, <3>3, <3>4, Harmless DEF Kept
  <2>3. CASE pc \in {"ev_hr", "api_hr"}
    <3>1. power_state' = "Off" /\ pc' = "idle" /\ Kept(context_state)
      BY <1>2, <2>3, <1>0, Flow, Moves DEF PowerIsOn, TruthInv
    <3> QED BY <3>1, Harmless DEF Kept, PlainLabels
  <2> QED BY <1>2, <2>1, <2>2, <2>3 DEF PowerIsOn, PowerLabels, TruthInv
<1>3. CASE PowerFailed
  <2>1. power_state' = power_state /\ Kept(context_state)
    BY <1>3, <1>0, Moves DEF PowerFailed
  <2>2. CASE pc \in {"setup_pon", "setup_hr"}
    <3>1. context_state # "Active"
      BY <2>2 DEF TruthInv, FreshLabels, InitLabels, SetupLabels
    <3>2. pc' \in {"setup_hpo", "idle", "events"}
      BY <1>3, <2>2, Flow DEF PowerFailed
    <3>3. "setup_hpo" \in FreshLabels BY DEF FreshLabels, InitLabels, SetupLabels
    <3>4. "idle" \in PlainLabels BY DEF PlainLabels
    <3> QED BY <2>1, <3>1, <3>2, <3>3, <3>4, Harmless DEF Kept
  <2>3. CASE pc \in {"init_pon", "init_hr", "ev_hr", "api_hr"}
    <3>1. power_state' = "Off" BY <2>1, <2>3 DEF TruthInv
    <3>2. pc' \in {"init_rst", "idle", "events"} BY <1>3, <2>3, Flow DEF PowerFailed
    <3>3. "idle" \in PlainLabels BY DEF PlainLabels
    <3> QED BY <2>1, <3>1, <3>2, <3>3, Harmless DEF Kept
  <2> QED BY <1>3, <2>2, <2>3 DEF PowerFailed, PowerLabels, TruthInv
<1>4. CASE PowerAgain
  <2>1. power_state' = "Off" /\ UNCHANGED <<pc, context_state, net_urcs>>
    BY <1>4 DEF PowerAgain
  <2>2. pc \in PowerLabels BY <1>4 DEF PowerAgain
  <2>3. NoStaleUp' BY <2>1, <1>0 DEF NoStaleUp
  <2>4. CASE pc \in {"setup_pon", "setup_hr"}
    <3>1. pc \in FreshLabels BY <2>4 DEF FreshLabels, InitLabels, SetupLabels
    <3>2. context_state # "Active" BY <3>1 DEF TruthInv
    <3> QED BY <2>1, <2>3, <3>1, <3>2, Harmless
  <2>5. CASE pc \in {"init_pon", "init_hr", "ev_hr", "api_hr"}
    BY <2>1, <2>3, <2>5, Harmless
  <2> QED BY <2>2, <2>4, <2>5 DEF PowerLabels, TruthInv
<1>5. CASE HardPowerOff
  <2>1. Kept(context_state) BY <1>5, <1>0, Moves DEF HardPowerOff
  <2>2. CASE pc = "setup_hpo"
    <3>1. context_state # "Active"
      BY <2>2 DEF TruthInv, FreshLabels, InitLabels, SetupLabels
    <3>2. pc' \in {"idle", "events"} BY <1>5, Flow DEF HardPowerOff
    <3> QED BY <2>1, <3>1, <3>2, Harmless DEF Kept, PlainLabels
  <2>3. CASE pc = "hpo"
    <3>1. pc \notin InitLabels BY <2>3 DEF InitLabels, SetupLabels, BringUpLabels
    <3>2. pc' = "idle" BY <1>5, <2>3, <3>1, Flow DEF HardPowerOff, Fail
    <3>3. power_state' = "Off" \/ UNCHANGED <<power_state, modem, psd>>
      BY <1>5 DEF HardPowerOff
    <3>4. UNCHANGED <<conn_state, registered, lost>> BY <1>5 DEF HardPowerOff
    <3>5. Truth' BY <2>1, <2>3, <3>3, <3>4, TruthKept DEF Truth, Noticed
    <3> QED BY <2>1, <3>2, <3>5, AtLabel DEF TruthInv, Kept, PlainLabels, FailedSpin
  <2> QED BY <1>5, <2>2, <2>3 DEF HardPowerOff
<1>6. CASE SoftPowerOff
  <2>1. Kept(context_state) /\ pc' = "idle" /\ pc = "cpwroff"
    BY <1>6, <1>0, Moves, Flow DEF SoftPowerOff
  <2>2. /\ UNCHANGED <<conn_state, registered, lost>>
        /\ power_state' = "Off" \/ UNCHANGED power_state
        /\ modem' = "off" \/ UNCHANGED <<modem, psd>>
    BY <1>6 DEF SoftPowerOff, Becomes
  <2>3. Truth' BY <2>1, <2>2, TruthKept DEF Truth, Noticed
  <2> QED BY <2>1, <2>3, AtLabel DEF TruthInv, Kept, PlainLabels, FailedSpin
<1>7. CASE FactoryReset
  BY <1>7 DEF FactoryReset, TruthInv
<1> QED BY <1>1, <1>2, <1>3, <1>4, <1>5, <1>6, <1>7

\* initialize past the reset of the context, and define_context.
LEMMA TruthFresh ==
  ASSUME TypeOK, TruthInv,
         Alive \/ Configure1 \/ Configure2 \/ SelectSimCard \/ BringUp
         \/ FullFunctionality \/ EventReporting \/ FinishInit \/ DefineContext
  PROVE  TruthInv'
<1>0. NoStaleUp BY DEF TruthInv
<1>1. pc \in FreshLabels
  BY DEF Alive, Configure1, Configure2, SelectSimCard, BringUp, FullFunctionality,
     EventReporting, FinishInit, DefineContext, FreshLabels, InitLabels, SetupLabels,
     BringUpLabels
<1>2. context_state # "Active" BY <1>1 DEF TruthInv
<1>3. CASE Alive \/ Configure1 \/ Configure2 \/ SelectSimCard
  <2>1. Kept(context_state)
    BY <1>0, <1>3, Moves DEF Alive, Configure1, Configure2, SelectSimCard
  <2>2. pc' \in {"cfg1", "setup_rst", "sim1", "sim2", "cfg2", "tz", "sim_cfun0",
                 "sim_cfun1", "idle", "events"}
    BY <1>3, Flow DEF Alive, Configure1, Configure2, SelectSimCard
  <2>3. pc' \in FreshLabels \cup {"idle", "events"}
    BY <2>2 DEF FreshLabels, InitLabels, SetupLabels, BringUpLabels
  <2> QED BY <1>2, <2>1, <2>3, Harmless DEF Kept, PlainLabels
<1>4. CASE BringUp \/ FullFunctionality \/ EventReporting \/ FinishInit
  <2>1. Kept(context_state)
    BY <1>0, <1>4, Moves DEF BringUp, FullFunctionality, EventReporting, FinishInit
  <2>2. pc' \in BringUpLabels \cup {"idle", "events"}
    BY <1>4, Flow DEF BringUp, BringUpNext, FullFunctionality, EventReporting,
       FinishInit, BringUpLabels
  <2>3. pc' \in FreshLabels \cup {"idle", "events"}
    BY <2>2 DEF FreshLabels, InitLabels, BringUpLabels
  <2> QED BY <1>2, <2>1, <2>3, Harmless DEF Kept, PlainLabels
<1>5. CASE DefineContext
  <2>1. NoStaleUp' /\ context_state' # "Active"
    BY <1>0, <1>2, <1>5, Moves DEF DefineContext, Kept
  <2>2. pc \notin InitLabels
    BY <1>5 DEF DefineContext, DefineLabels, InitLabels, SetupLabels, BringUpLabels
  <2>3. pc' \in DefineLabels \cup {"idle", "ingress", "cgatt"}
    BY <1>5, <2>2, Flow DEF DefineContext, DefineLabels, Fail
  <2>4. pc' \in FreshLabels \cup PlainLabels
    BY <2>3 DEF FreshLabels, PlainLabels, ServiceLabels, ConnectLabels
  <2> QED BY <2>1, <2>4, Harmless
<1> QED BY <1>3, <1>4, <1>5

\* The end of spin.  Offline it demotes an Active context; online, what spoke for
\* an Active context was not the missing registration, and still speaks for it.
LEMMA TruthSpinEnd ==
  ASSUME TypeOK, TruthInv, SpinEnd, pc \in EventLabels,
         UNCHANGED <<power_state, conn_state, lost, modem, psd>>
  PROVE  TruthInv'
<1>0. NoStaleUp /\ pc # "ev_rst" BY AtLabel DEF TruthInv
<1> DEFINE r == IF IsOnline THEN "Ok" ELSE "WouldBlock"
           c == IF ~IsOnline /\ context_state = "Active" THEN "Activating"
                ELSE context_state
<1>1. CASE res = "Err"
  <2>1. Return("Err") BY <1>1 DEF SpinEnd
  <2>2. Kept(context_state) /\ pc' = "idle" BY <1>0, <2>1, Moves, Flow
  <2>3. context_state # "Active" \/ power_state = "Off"
    BY <1>1 DEF TruthInv, FailedSpin
  <2> QED BY <2>2, <2>3, Harmless DEF Kept, PlainLabels
<1>2. CASE res # "Err"
  <2>1. IF call = "data_service" THEN AfterSpin(r, c) ELSE res' = r /\ Goto("idle", c)
    BY <1>2 DEF SpinEnd
  <2> HIDE DEF r, c
  <2>2. Kept(c) BY <2>1, <1>0, Moves DEF AfterSpin
  <2>3. \/ pc' \in PlainLabels
        \/ pc' \in FreshLabels /\ c = "Setup"
    BY <2>1, Flow DEF AfterSpin, PlainLabels, ServiceLabels, ConnectLabels,
       FreshLabels, DefineLabels
  <2>4. CASE context_state' # "Active"
    BY <2>2, <2>3, <2>4, Harmless DEF Kept
  <2>5. CASE context_state' = "Active"
    <3>1. c = "Active" BY <2>2, <2>5 DEF Kept
    <3>2. IsOnline /\ context_state = "Active" BY <3>1 DEF c
    <3>3. Truth'
      BY <1>0, <2>2, <2>5, <3>2 DEF TruthInv, Truth, Noticed, IsOnline, Kept
    <3>4. pc' \in PlainLabels BY <2>3, <3>1
    <3> QED BY <2>2, <3>3, <3>4, AtLabel DEF TruthInv, Kept, FailedSpin
  <2> QED BY <2>4, <2>5
<1> QED BY <1>1, <1>2

LEMMA TruthEvents ==
  ASSUME TypeOK, TruthInv,
         ProcessEvents \/ Intervene \/ CheckImsi \/ CheckDue \/ CheckNotDue
         \/ PeriodicCheck
  PROVE  TruthInv'
<1> USE DEF devVars, regVars, modemVars, histVars
<1>0. NoStaleUp BY DEF TruthInv
<1>1. CASE ProcessEvents
  <2>1. /\ Kept(context_state) /\ pc = "events"
        /\ UNCHANGED <<power_state, registered, lost, modem, psd>>
    <3>1. HandleUrc(context_state) => Kept(context_state)
      BY <1>0, HandleUrcKeeps
    <3> QED BY <1>0, <1>1, <3>1, Moves DEF ProcessEvents
  <2>2. CASE pc' = "idle"
    <3>1. UNCHANGED conn_state BY <1>1, <2>2, Flow DEF ProcessEvents
    <3>2. Truth' BY <2>1, <3>1, TruthKept
    <3> QED BY <2>1, <2>2, <3>2, AtLabel DEF TruthInv, Kept, FailedSpin, PlainLabels
  <2>3. CASE pc' = "ev_rst"
    <3>1. Truth' BY <2>3 DEF Truth, Noticed
    <3> QED BY <2>1, <2>3, <3>1, AtLabel DEF TruthInv, Kept, FailedSpin, PlainLabels
  <2>4. CASE pc' \notin {"idle", "ev_rst"}
    <3>1. /\ conn_state' = CheckRegistrationState(conn_state, registered)
          /\ UNCHANGED res
          /\ \/ pc' = "intervene" /\ conn_state = "Connecting" /\ ~registered
             \/ pc' \in {"imsi", "sched"}
      BY <1>1, <2>4, Flow DEF ProcessEvents
    <3>2. conn_state # "Connected" /\ ~registered => conn_state' # "Connected"
      BY <3>1 DEF CheckRegistrationState
    <3>3. pc' \in EventLabels /\ pc \in EventLabels
      BY <2>1, <3>1 DEF EventLabels
    <3>4. Truth' BY <2>1, <3>2 DEF TruthInv, Truth, Noticed, Kept
    <3>5. FailedSpin' BY <2>1, <3>1, <3>3 DEF TruthInv, FailedSpin, Kept
    <3>6. pc' \in DropLabels => conn_state' # "Connected" /\ ~registered'
      BY <2>1, <3>1, <3>2 DEF DropLabels
    <3> QED BY <2>1, <3>3, <3>4, <3>5, <3>6, AtLabel DEF TruthInv, Kept
  <2> QED BY <2>2, <2>3, <2>4
<1>2. CASE Intervene
  <2>1. pc \in DropLabels /\ pc \in EventLabels
    BY <1>2 DEF Intervene, DropLabels, EventLabels
  <2>2. UNCHANGED <<power_state, conn_state, registered>> BY <1>2 DEF Intervene
  <2>3. conn_state' # "Connected" /\ ~registered' BY <2>1, <2>2 DEF TruthInv
  <2>4. Truth' BY <2>3 DEF Truth, Noticed
  <2>5. pc \notin InitLabels
    BY <2>1 DEF DropLabels, InitLabels, SetupLabels, BringUpLabels
  <2>6. Kept(context_state) BY <1>0, <1>2, Moves DEF Intervene
  <2>7. pc' = "idle" \/ (pc' \in EventLabels /\ UNCHANGED res)
    BY <1>2, <2>5, Flow DEF Intervene, EventLabels, Fail
  <2>8. FailedSpin'
    BY <2>1, <2>2, <2>6, <2>7, AtLabel DEF TruthInv, FailedSpin, Kept, PlainLabels
  <2> QED BY <2>3, <2>4, <2>6, <2>7, <2>8, AtLabel DEF TruthInv, Kept, PlainLabels
<1>3. CASE CheckImsi \/ CheckDue
  <2>1. /\ Kept(context_state) /\ pc \in {"imsi", "sched"} /\ pc' \in {"sched", "upd"}
        /\ UNCHANGED <<power_state, conn_state, registered, lost, modem, psd, res>>
    BY <1>0, <1>3, Moves, Flow DEF CheckImsi, CheckDue
  <2>2. Truth' BY <2>1, TruthKept
  <2>3. pc \in EventLabels /\ pc' \in EventLabels /\ pc' \notin DropLabels
    BY <2>1 DEF EventLabels, DropLabels
  <2>4. FailedSpin' BY <2>1, <2>3 DEF TruthInv, FailedSpin, Kept
  <2> QED BY <2>1, <2>2, <2>3, <2>4, AtLabel DEF TruthInv, Kept
<1>4. CASE CheckNotDue \/ PeriodicCheck
  <2>1. /\ UNCHANGED <<power_state, conn_state, lost, modem, psd>>
        /\ pc \in EventLabels
    BY <1>4 DEF CheckNotDue, PeriodicCheck, UpdateRegistration, EventLabels
  <2>2. CASE SpinEnd BY <2>1, <2>2, TruthSpinEnd
  <2>3. CASE Issue("ev_rst")
    <3>1. Kept(context_state) /\ pc' = "ev_rst" BY <1>0, <2>3, Moves, Flow
    <3>2. Truth' BY <3>1 DEF Truth, Noticed
    <3> QED BY <3>1, <3>2, AtLabel DEF TruthInv, Kept, FailedSpin, PlainLabels
  <2> QED BY <1>4, <2>2, <2>3 DEF CheckNotDue, PeriodicCheck
<1> QED BY <1>1, <1>2, <1>3, <1>4

\* A step of data_service or of the service that leaves devices, registration and
\* modem alone, or brings the profile up, and goes on to a plain label.
LEMMA TruthOnward ==
  ASSUME TypeOK, TruthInv, Kept(context_state), pc # "ev_rst",
         UNCHANGED <<power_state, conn_state, registered, lost>>,
         UNCHANGED <<modem, psd>> \/ psd' = TRUE,
         pc' \in PlainLabels \/ (pc' = "pdp_q" /\ ~Upsd)
  PROVE  TruthInv'
<1>1. Truth' BY TruthKept
<1>2. CASE pc' \in PlainLabels
  BY <1>1, <1>2, AtLabel DEF TruthInv, Kept, FailedSpin
<1>3. CASE pc' = "pdp_q" /\ ~Upsd
  BY <1>1, <1>3 DEF TruthInv, Kept, FailedSpin, EventLabels, FreshLabels, DropLabels,
     DefineLabels, InitLabels, SetupLabels, BringUpLabels
<1> QED BY <1>2, <1>3

\* The context becomes Active, and the profile is up.
LEMMA TruthActivated ==
  ASSUME TypeOK, TruthInv, Activated, psd' = TRUE PROVE TruthInv'
<1>1. Goto("ingress", "Active") BY DEF Activated
<1>2. Kept("Active") /\ pc' = "ingress" BY <1>1, Moves, Flow DEF TruthInv
<1>3. Truth' BY DEF Truth
<1> QED BY <1>2, <1>3, AtLabel DEF TruthInv, Kept, FailedSpin, PlainLabels, ServiceLabels

LEMMA TruthContext ==
  ASSUME Upsd \/ PsdProfile, TypeOK, TruthInv,
         AttachNetwork \/ ActivateContextUpsd \/ ActivateContext
         \/ SocketIngressAll \/ Service
  PROVE  TruthInv'
<1> USE DEF devVars, regVars, modemVars, histVars
<1>0. NoStaleUp BY DEF TruthInv
<1>a. {"idle", "cgatt", "ingress", "service", "svc_at", "upsd_q", "upsd_set",
       "upsd_act", "cgact", "map_q", "map_set", "map_chk", "psd_q", "psd_act"}
      \subseteq PlainLabels
  BY DEF PlainLabels, ServiceLabels, ConnectLabels
<1>b. \A l \in ConnectLabels : l \notin InitLabels /\ l # "ev_rst" /\ l \notin RadioOff
  BY DEF ConnectLabels, InitLabels, SetupLabels, BringUpLabels, RadioOff
<1>1. CASE AttachNetwork
  <2>1. /\ Kept(context_state)
        /\ UNCHANGED <<power_state, conn_state, registered, lost, modem, psd>>
    BY <1>0, <1>1, Moves DEF AttachNetwork
  <2>2. pc = "cgatt" /\ pc \notin InitLabels
    BY <1>1, <1>b DEF AttachNetwork, ConnectLabels
  <2>3. pc' \in {"ingress", "upsd_q", "cgatt", "idle"} \/ (pc' = "pdp_q" /\ ~Upsd)
    BY <1>1, <2>2, Flow DEF AttachNetwork, Fail
  <2> QED BY <2>1, <2>2, <2>3, <1>a, TruthOnward
<1>2. CASE ActivateContextUpsd
  <2>1. PICK r \in Replies :
          /\ Obey(r)
          /\ \/ r = "ok" /\ pc = "upsd_q" /\ psd /\ Activated
             \/ r = "ok" /\ pc = "upsd_q" /\ Goto("upsd_set", "Activating") /\ UNCHANGED lost
             \/ /\ r = "ok" /\ pc = "upsd_set" /\ UNCHANGED lost
                /\ Retry \/ Issue("upsd_act")
             \/ r = "ok" /\ pc = "upsd_act" /\ Activated
             \/ r # "ok" /\ Fail /\ UNCHANGED lost
    BY <1>2 DEF ActivateContextUpsd
  <2>2. pc \in {"upsd_q", "upsd_set", "upsd_act"}
    BY <1>2 DEF ActivateContextUpsd
  <2>3. UNCHANGED <<power_state, conn_state, registered>>
    BY <1>2 DEF ActivateContextUpsd
  <2>4. pc \in ConnectLabels BY <2>2 DEF ConnectLabels
  <2>5. pc \notin InitLabels /\ pc # "ev_rst" /\ pc \notin RadioOff BY <2>4, <1>b
  <2>6. psd \in BOOLEAN BY DEF TypeOK
  <2>7. /\ UNCHANGED modem /\ (psd' = psd \/ psd' = TRUE)
        /\ (r = "ok" /\ (psd \/ pc = "upsd_act")) => psd' = TRUE
    BY <2>1, <2>5, <2>6 DEF Obey
  <2>8. CASE r = "ok" /\ Activated /\ (psd \/ pc = "upsd_act")
    BY <2>7, <2>8, TruthActivated
  <2>9. CASE r = "ok" /\ Goto("upsd_set", "Activating") /\ UNCHANGED lost
    <3>1. Kept("Activating") /\ pc' = "upsd_set" BY <1>0, <2>9, Moves, Flow
    <3> QED BY <3>1, <1>a, Harmless DEF Kept
  <2>10. CASE (Retry \/ Issue("upsd_act") \/ Fail) /\ UNCHANGED lost
    <3>1. Kept(context_state) BY <1>0, <2>10, Moves
    <3>2. pc' \in {"upsd_q", "upsd_set", "upsd_act", "idle"}
      BY <2>2, <2>5, <2>10, Flow DEF Fail
    <3> QED BY <2>3, <2>5, <2>7, <2>10, <3>1, <3>2, <1>a, TruthOnward
  <2> QED BY <2>1, <2>8, <2>9, <2>10
<1>3. CASE ActivateContext
  <2>1. PICK r \in Replies :
          /\ Obey(r)
          /\ \/ /\ r = "ok" /\ UNCHANGED lost
                /\ \E l \in {"cgact", "map_q", "map_set", "map_chk", "psd_q", "psd_act"} :
                     Issue(l)
             \/ r = "ok" /\ Return("WouldBlock") /\ UNCHANGED lost
             \/ r = "ok" /\ pc = "pdp_q" /\ ~PsdProfile /\ Activated
             \/ r = "ok" /\ (pc = "psd_act" \/ psd) /\ Activated
             \/ r # "ok" /\ Fail /\ UNCHANGED lost
    BY <1>3 DEF ActivateContext, ProfileNext
  <2>2. pc \in ConnectLabels \ {"cgatt", "upsd_q", "upsd_set", "upsd_act"}
    BY <1>3 DEF ActivateContext
  <2>3. UNCHANGED <<power_state, conn_state, registered>>
    BY <1>3 DEF ActivateContext
  <2>4. pc # "pdp_q" \/ PsdProfile BY DEF TruthInv
  <2>5. pc \notin InitLabels /\ pc # "ev_rst" /\ pc \notin RadioOff BY <2>2, <1>b
  <2>6. psd \in BOOLEAN BY DEF TypeOK
  <2>7. /\ UNCHANGED modem /\ (psd' = psd \/ psd' = TRUE)
        /\ (r = "ok" /\ (psd \/ pc = "psd_act")) => psd' = TRUE
    BY <2>1, <2>5, <2>6 DEF Obey
  <2>8. CASE r = "ok" /\ Activated /\ (psd \/ pc = "psd_act")
    BY <2>7, <2>8, TruthActivated
  <2>9. CASE /\ \/ \E l \in {"cgact", "map_q", "map_set", "map_chk", "psd_q", "psd_act"} :
                     Issue(l)
                \/ Return("WouldBlock") \/ Fail
             /\ UNCHANGED lost
    <3>1. Kept(context_state) BY <1>0, <2>9, Moves
    <3>2. pc' \in {"cgact", "map_q", "map_set", "map_chk", "psd_q", "psd_act", "idle"}
      BY <2>5, <2>9, Flow DEF Fail
    <3> QED BY <2>3, <2>5, <2>7, <2>9, <3>1, <3>2, <1>a, TruthOnward
  <2> QED BY <2>1, <2>4, <2>8, <2>9
<1>4. CASE SocketIngressAll \/ ServiceSendAt \/ DropService
  <2>1. /\ Kept(context_state) /\ pc \in {"ingress", "service", "svc_at"}
        /\ UNCHANGED <<power_state, conn_state, registered, lost, modem, psd>>
        /\ pc' \in {"service", "svc_at", "idle"}
    BY <1>0, <1>4, Moves, Flow DEF SocketIngressAll, ServiceSendAt, DropService
  <2> QED BY <2>1, <1>a, TruthOnward
<1>5. CASE ServiceHandleUrc
  <2>1. /\ net_urcs # <<>> /\ net_urcs' = Tail(net_urcs)
        /\ lost' = (lost \/ Head(net_urcs) = "deactivated")
        /\ UNCHANGED <<context_state, power_state, conn_state, registered, modem, psd>>
        /\ pc = "service" /\ pc' = "service"
    BY <1>5 DEF ServiceHandleUrc
  <2>2. net_urcs \in Seq(Urcs) /\ lost \in BOOLEAN BY DEF TypeOK
  <2>3. /\ Len(Tail(net_urcs)) = Len(net_urcs) - 1 /\ Len(net_urcs) \in Nat
        /\ \A i \in 1..Len(Tail(net_urcs)) : Tail(net_urcs)[i] = net_urcs[i + 1]
        /\ Head(net_urcs) = net_urcs[1]
    BY <2>1, <2>2
  <2>4. NoStaleUp' BY <2>1, <2>3, <1>0 DEF NoStaleUp
  <2>5. ASSUME News PROVE News' \/ Head(net_urcs) = "deactivated"
    <3>1. PICK i \in 1..Len(net_urcs) : net_urcs[i] = "deactivated" BY <2>5 DEF News
    <3>2. CASE i = 1 BY <3>1, <3>2, <2>3
    <3>3. CASE i # 1
      <4>1. i - 1 \in 1..Len(Tail(net_urcs)) /\ (i - 1) + 1 = i BY <3>3, <2>3
      <4>2. Tail(net_urcs)[i - 1] = "deactivated" BY <3>1, <4>1, <2>3
      <4> QED BY <2>1, <4>1, <4>2 DEF News
    <3> QED BY <3>2, <3>3
  <2>6. News \/ lost => News' \/ lost' BY <2>1, <2>2, <2>5
  <2>7. Truth' BY <2>1, <2>6 DEF TruthInv, Truth, Noticed
  <2> QED BY <2>1, <2>4, <2>7, <1>a, AtLabel DEF TruthInv, FailedSpin
<1> QED BY <1>1, <1>2, <1>3, <1>4, <1>5 DEF Service

LEMMA TruthCalls ==
  ASSUME Calls \cap Reboots = {}, TypeOK, TruthInv, Call \/ PowerState \/ ApiAt
  PROVE  TruthInv'
<1> USE DEF devVars, regVars, modemVars, histVars
<1>0. NoStaleUp BY DEF TruthInv
<1>a. {"idle", "api_rst", "cpwroff", "hpo", "probe", "api_at"} \subseteq PlainLabels
  BY DEF PlainLabels
<1>b. "setup_pon" \in FreshLabels BY DEF FreshLabels, InitLabels, SetupLabels
<1>c. EnterSetup => TruthInv'
  <2> HAVE EnterSetup
  <2>1. Kept("Setup") /\ pc' = "setup_pon" BY <1>0, Moves, Flow
  <2> QED BY <2>1, <1>b, Harmless DEF Kept
<1>1. ASSUME NEW k \in ApiCalls, CallInitialize(k) PROVE TruthInv'
  <2>1. CASE EnterSetup BY <2>1, <1>c
  <2>2. CASE ~EnterSetup
    <3>1. /\ Kept(context_state) /\ pc = "idle"
          /\ UNCHANGED <<power_state, conn_state, registered, lost, modem, psd>>
          /\ \/ power_state # "On" /\ pc' = "init_pon"
             \/ pc' \in {"idle", "events"} /\ res' = "Ok"
      BY <1>0, <1>1, <2>2, Moves, Flow DEF CallInitialize
    <3>2. CASE power_state # "On" /\ pc' = "init_pon"
      <4>1. power_state' = "Off" BY <3>1, <3>2 DEF TypeOK
      <4> QED BY <3>1, <3>2, <4>1, Harmless DEF Kept
    <3>3. CASE pc' \in {"idle", "events"} /\ res' = "Ok"
      <4>1. Truth' BY <3>1, TruthKept
      <4>2. FailedSpin' BY <3>3 DEF FailedSpin
      <4>3. /\ pc' \in PlainLabels \cup EventLabels /\ pc' \notin DropLabels
        BY <3>3 DEF PlainLabels, EventLabels, DropLabels
      <4> QED BY <3>1, <4>1, <4>2, <4>3, AtLabel DEF TruthInv, Kept
    <3> QED BY <3>1, <3>2, <3>3
  <2> QED BY <2>1, <2>2
<1>2. CASE CallSetup BY <1>2, <1>c DEF CallSetup
<1>3. ASSUME NEW k \in ApiCalls, CallPower(k) PROVE TruthInv'
  <2>1. k \notin Reboots BY <1>3 DEF CallPower
  <2>2. /\ Kept(context_state) /\ pc = "idle"
        /\ UNCHANGED <<power_state, conn_state, registered, lost, modem, psd>>
    BY <1>0, <1>3, Moves DEF CallPower
  <2>3. pc' \in {"api_rst", "cpwroff", "hpo", "probe"}
    BY <1>3, <2>1, Flow DEF CallPower, Reboots
  <2> QED BY <2>2, <2>3, <1>a, TruthOnward
<1>4. ASSUME NEW k \in ApiCalls, CallStorage(k) PROVE TruthInv'
  <2>1. /\ Kept(context_state) /\ pc = "idle" /\ pc' = "idle"
        /\ UNCHANGED <<power_state, conn_state, registered, lost, modem, psd>>
    BY <1>0, <1>4, Moves, Flow DEF CallStorage
  <2> QED BY <2>1, <1>a, TruthOnward
<1>5. CASE CallSendAt \/ PowerState \/ ApiAt
  <2>1. pc \in {"idle", "probe", "api_at"} /\ pc \notin InitLabels
    BY <1>5 DEF CallSendAt, PowerState, ApiAt, InitLabels, SetupLabels, BringUpLabels
  <2>2. /\ Kept(context_state) /\ pc' \in {"idle", "api_at"}
        /\ UNCHANGED <<power_state, conn_state, registered, lost, modem, psd>>
    BY <1>0, <1>5, <2>1, Moves, Flow DEF CallSendAt, PowerState, ApiAt, Fail
  <2> QED BY <2>1, <2>2, <1>a, TruthOnward
<1> QED BY <1>1, <1>2, <1>3, <1>4, <1>5 DEF Call

LEMMA TruthEnvironment ==
  ASSUME "activated" \notin UrcKinds, TypeOK, TruthInv, Environment \/ UNCHANGED vars
  PROVE  TruthInv'
<1> USE DEF devVars, regVars, modemVars, histVars, driverVars
<1>0. NoStaleUp BY DEF TruthInv
<1>a. ASSUME UNCHANGED <<pc, res, context_state, power_state, conn_state, registered>>,
             NoStaleUp', Truth'
      PROVE  TruthInv'
  BY <1>a DEF TruthInv, FailedSpin
<1>1. CASE ModemReports
  <2>1. UNCHANGED <<pc, res, context_state, power_state, conn_state, registered,
                    modem, psd>>
    BY <1>1 DEF ModemReports
  <2>2. PICK u \in UrcKinds \ {"deactivated"} : Publish(u)
    BY <1>1 DEF ModemReports
  <2>3. NoStaleUp' /\ (News \/ lost => News' \/ lost')
    BY <1>0, <2>2, PublishKeeps
  <2>4. Truth' BY <2>1, <2>3 DEF TruthInv, Truth, Noticed
  <2> QED BY <2>1, <2>3, <2>4, <1>a
<1>2. CASE NetworkDeactivates
  <2>1. UNCHANGED <<pc, res, context_state, power_state, conn_state, registered, modem>>
    BY <1>2 DEF NetworkDeactivates
  <2>2. CASE psd
    <3>1. Publish("deactivated") BY <1>2, <2>2 DEF NetworkDeactivates
    <3>2. NoStaleUp' /\ (News' \/ lost') BY <1>0, <3>1, PublishKeeps
    <3>3. Truth' BY <3>2 DEF Truth, Noticed
    <3> QED BY <2>1, <3>2, <3>3, <1>a
  <2>3. CASE ~psd
    <3>1. Publish("other") BY <1>2, <2>3 DEF NetworkDeactivates
    <3>2. NoStaleUp' /\ (News \/ lost => News' \/ lost') BY <1>0, <3>1, PublishKeeps
    <3>3. Truth' BY <2>1, <2>3, <3>2 DEF TruthInv, Truth, Noticed
    <3> QED BY <2>1, <3>2, <3>3, <1>a
  <2> QED BY <2>2, <2>3
<1>3. CASE ModemDies
  <2>1. /\ UNCHANGED <<pc, res, context_state, power_state, conn_state, registered,
                       net_urcs>>
        /\ modem' # "run"
    BY <1>3 DEF ModemDies, Becomes
  <2>2. NoStaleUp' /\ Truth' BY <1>0, <2>1 DEF NoStaleUp, Truth, Noticed
  <2> QED BY <2>1, <2>2, <1>a
<1>4. CASE BecomeCalm \/ UNCHANGED vars
  <2>1. UNCHANGED <<pc, res, context_state, power_state, conn_state, registered,
                    net_urcs, modem, psd, lost>>
    BY <1>4 DEF BecomeCalm, vars
  <2>2. NoStaleUp' /\ (News => News') BY <1>0, <2>1 DEF NoStaleUp, News
  <2>3. Truth' BY <2>1, <2>2 DEF TruthInv, Truth, Noticed
  <2> QED BY <2>1, <2>2, <2>3, <1>a
<1> QED BY <1>1, <1>2, <1>3, <1>4 DEF Environment

\* On modules with a PSD profile that do not report activations themselves, an
\* application that never calls power_on or factory_reset holds a DataService
\* whose context_state is Active only while the profile is up, or else the modem
\* died, or the deactivation URC is queued or was dropped: timeouts whose command
\* took effect all the same, radio cycles, resets and failed initialisations in
\* any order do not leave a context_state that outlives its context.
THEOREM ContextIsTrue ==
  ASSUME "activated" \notin UrcKinds, Upsd \/ PsdProfile, Calls \cap Reboots = {}
  PROVE  Spec => []ContextTruth
<1>1. Init => TruthInv
  BY DEF Init, TruthInv, NoStaleUp, Truth, FailedSpin, EventLabels, FreshLabels,
     DropLabels, DefineLabels, InitLabels, SetupLabels, BringUpLabels
<1>2. TypeOK /\ TruthInv /\ [Next]_vars => TruthInv'
  <2> SUFFICES ASSUME TypeOK, TruthInv, [Next]_vars PROVE TruthInv'
    OBVIOUS
  <2> QED BY TruthPower, TruthFresh, TruthEvents, TruthContext, TruthCalls,
             TruthEnvironment DEF Next, Driver
<1>3. TruthInv /\ ServiceReady => ContextTruth
  <2> SUFFICES ASSUME TruthInv, ServiceReady, pc \in {"ingress", "service"},
                      context_state = "Active"
               PROVE  psd \/ modem # "run" \/ lost \/ News
    BY DEF ContextTruth, Usable, News
  <2>1. power_state = "On" /\ conn_state = "Connected"
    BY DEF ServiceReady, ServiceLabels
  <2> QED BY <2>1 DEF TruthInv, Truth, Noticed
<1> QED BY <1>1, <1>2, <1>3, TypeCorrect, ServiceIsReady, PTL DEF Spec

-----------------------------------------------------------------------------
(***************************************************************************)
(* On modules without a PSD profile, no context is activated that was not  *)
(* defined since the last setup.                                           *)
(***************************************************************************)
ProfileLabels == {"map_q", "map_set", "map_chk", "psd_q", "psd_act", "upsd_q",
                  "upsd_set", "upsd_act"}

\* The URCs of a profile there is not.
NoProfileUrc == \A i \in 1..Len(net_urcs) : net_urcs[i] \notin {"activated", "deactivated"}

\* ContextRedefined, strengthened: what decides whether data_service defines the
\* context is context_state, and so it is about context_state that defined has to
\* be known; a URC of a profile would change it, so there must be none.
RedefinedInv ==
  /\ psd = FALSE /\ NoProfileUrc /\ pc \notin ProfileLabels
  /\ context_state # "Setup" => defined
  /\ pc \in ConnectLabels => defined

\* The step handled at most one URC after the code had left c in context_state:
\* if the context was to be defined again, it still is.
Stays(c) == NoProfileUrc' /\ (context_state' # "Setup" => c # "Setup")

LEMMA HandleUrcStays ==
  ASSUME TypeOK, NoProfileUrc, NEW c, HandleUrc(c) PROVE Stays(c)
<1>1. net_urcs \in Seq(Urcs) BY DEF TypeOK
<1>2. CASE net_urcs = <<>>
  BY <1>2 DEF HandleUrc, Stays, NoProfileUrc
<1>3. CASE net_urcs # <<>>
  <2>1. /\ net_urcs' = Tail(net_urcs)
        /\ context_state' = AfterUrc(Head(net_urcs), c)
    BY <1>3 DEF HandleUrc
  <2>2. /\ Len(Tail(net_urcs)) = Len(net_urcs) - 1 /\ Len(net_urcs) \in Nat
        /\ \A i \in 1..Len(Tail(net_urcs)) : Tail(net_urcs)[i] = net_urcs[i + 1]
        /\ Head(net_urcs) = net_urcs[1] /\ Len(net_urcs) >= 1
    BY <1>1, <1>3
  <2>3. NoProfileUrc' BY <2>1, <2>2 DEF NoProfileUrc
  <2>4. Head(net_urcs) \notin {"activated", "deactivated"} BY <2>2 DEF NoProfileUrc
  <2> QED BY <2>1, <2>3, <2>4 DEF AfterUrc, Stays
<1> QED BY <1>2, <1>3

LEMMA Staying ==
  ASSUME TypeOK, NoProfileUrc
  PROVE  /\ \A l, c : Goto(l, c) => Stays(c)
         /\ \A l : Issue(l) => Stays(context_state)
         /\ Retry => Stays(context_state)
         /\ \A r : Return(r) => Stays(context_state)
         /\ \A r : InitReturns(r) => Stays(context_state)
         /\ Fail => Stays(context_state)
         /\ Onward => Stays(context_state)
         /\ EnterSetup => Stays("Setup")
         /\ \A c : Connect(c) => Stays(c)
<1>1. ASSUME NEW l, NEW c, Goto(l, c) PROVE Stays(c)
  <2>1. CASE l \in UrcChecked BY <1>1, <2>1, HandleUrcStays DEF Goto
  <2>2. CASE l \notin UrcChecked
    BY <1>1, <2>2 DEF Goto, Stays, NoProfileUrc
  <2> QED BY <2>1, <2>2
<1>2. \A l : Issue(l) => Stays(context_state) BY <1>1 DEF Issue
<1>3. Retry => Stays(context_state) BY HandleUrcStays DEF Retry
<1>4. \A r : Return(r) => Stays(context_state) BY <1>2 DEF Return
<1>5. \A r : InitReturns(r) => Stays(context_state) BY <1>2 DEF InitReturns
<1>6. Fail => Stays(context_state) BY <1>4, <1>5 DEF Fail
<1>7. Onward => Stays(context_state) BY <1>2 DEF Onward
<1>8. EnterSetup => Stays("Setup") BY <1>1 DEF EnterSetup
<1>9. \A c : Connect(c) => Stays(c) BY <1>1 DEF Connect
<1> QED BY <1>1, <1>2, <1>3, <1>4, <1>5, <1>6, <1>7, <1>8, <1>9

\* Only the two activations of a profile bring one up.
LEMMA NoProfileUp ==
  ASSUME RedefinedInv PROVE \A r : Obey(r) => psd' = FALSE
BY DEF Obey, RedefinedInv, ProfileLabels, modemVars

LEMMA NoProfilePower ==
  ASSUME RedefinedInv
  PROVE  /\ ResetPulse => psd' = FALSE
         /\ \A o : PowerOn(o) => psd' = FALSE
BY DEF ResetPulse, PowerOn, PowerPulse, Becomes, modemVars, RedefinedInv

\* A step that neither defines the context nor forgets it.
LEMMA RedefinedKept ==
  ASSUME RedefinedInv, Stays(context_state), psd' = FALSE, UNCHANGED defined,
         pc' \notin ProfileLabels, pc' \in ConnectLabels => defined
  PROVE  RedefinedInv'
BY DEF RedefinedInv, Stays

LEMMA RedefinedSetup ==
  ASSUME TypeOK, RedefinedInv, EnterSetup, psd' = FALSE PROVE RedefinedInv'
<1>1. Stays("Setup") /\ pc' = "setup_pon" BY Staying, Flow DEF RedefinedInv
<1> QED BY <1>1 DEF RedefinedInv, Stays, ProfileLabels, ConnectLabels

\* The end of spin: in Setup the context is defined first.
LEMMA RedefinedSpinEnd ==
  ASSUME ~Upsd, TypeOK, RedefinedInv, SpinEnd, UNCHANGED <<psd, defined>>
  PROVE  RedefinedInv'
<1> DEFINE r == IF IsOnline THEN "Ok" ELSE "WouldBlock"
           c == IF ~IsOnline /\ context_state = "Active" THEN "Activating"
                ELSE context_state
<1>1. CASE res = "Err"
  <2>1. Stays(context_state) /\ pc' = "idle"
    BY <1>1, Staying, Flow DEF SpinEnd, RedefinedInv
  <2> QED BY <2>1 DEF RedefinedInv, Stays, ProfileLabels, ConnectLabels
<1>2. CASE res # "Err"
  <2>1. IF call = "data_service" THEN AfterSpin(r, c) ELSE res' = r /\ Goto("idle", c)
    BY <1>2 DEF SpinEnd
  <2>2. c # "Setup" => defined BY DEF RedefinedInv
  <2> HIDE DEF r, c
  <2>3. Stays(c) BY <2>1, Staying DEF AfterSpin, RedefinedInv
  <2>4. \/ pc' \in {"idle", "dc_cfun0", "ingress"}
        \/ pc' = "cgatt" /\ c # "Setup"
    BY <2>1, Flow DEF AfterSpin
  <2>5. pc' \notin ProfileLabels /\ (pc' \in ConnectLabels => defined)
    BY <2>2, <2>4 DEF ProfileLabels, ConnectLabels
  <2> QED BY <2>2, <2>3, <2>5 DEF RedefinedInv, Stays
<1> QED BY <1>1, <1>2

LEMMA RedefinedContext ==
  ASSUME ~Upsd, ~PsdProfile, TypeOK, RedefinedInv,
         DefineContext \/ AttachNetwork \/ ActivateContextUpsd \/ ActivateContext
         \/ SocketIngressAll \/ Service
  PROVE  RedefinedInv'
<1> USE DEF devVars, regVars, modemVars, histVars
<1>0. NoProfileUrc /\ psd = FALSE BY DEF RedefinedInv
<1>a. \A l \in {"idle", "events", "ingress", "service", "svc_at", "dc_cgdcont",
                "dc_cfun1", "cgatt", "pdp_q", "cgact"} : l \notin ProfileLabels
  BY DEF ProfileLabels
<1>b. \A l \in {"idle", "events", "ingress", "service", "svc_at", "dc_cgdcont",
                "dc_cfun1"} : l \notin ConnectLabels
  BY DEF ConnectLabels
<1>1. CASE DefineContext
  <2>1. psd' = FALSE BY <1>1, NoProfileUp DEF DefineContext
  <2>2. \/ defined' = TRUE /\ NoProfileUrc' /\ pc' \in {"ingress", "cgatt", "idle"}
        \/ /\ UNCHANGED defined /\ Stays(context_state)
           /\ pc' \in {"dc_cgdcont", "dc_cfun1", "idle", "events"}
    BY <1>0, <1>1, Flow, Staying DEF DefineContext, Stays
  <2>3. CASE /\ defined' = TRUE /\ NoProfileUrc' /\ pc' \in {"ingress", "cgatt", "idle"}
    BY <2>1, <2>3, <1>a DEF RedefinedInv
  <2>4. CASE /\ UNCHANGED defined /\ Stays(context_state)
             /\ pc' \in {"dc_cgdcont", "dc_cfun1", "idle", "events"}
    BY <2>1, <2>4, <1>a, <1>b, RedefinedKept
  <2> QED BY <2>2, <2>3, <2>4
<1>2. CASE AttachNetwork
  <2>1. /\ pc = "cgatt" /\ UNCHANGED <<psd, defined>> /\ Stays(context_state)
        /\ pc' \in {"ingress", "pdp_q", "cgatt", "idle", "events"}
    BY <1>0, <1>2, Flow, Staying DEF AttachNetwork
  <2>2. defined BY <2>1 DEF RedefinedInv, ConnectLabels
  <2> QED BY <1>0, <2>1, <2>2, <1>a, RedefinedKept
<1>3. CASE ActivateContextUpsd
  BY <1>3 DEF ActivateContextUpsd, RedefinedInv, ProfileLabels
<1>4. CASE ActivateContext
  <2>1. pc \in ConnectLabels /\ pc \notin ProfileLabels /\ pc # "cgatt"
    BY <1>4 DEF ActivateContext, RedefinedInv
  <2>2. pc \in {"pdp_q", "cgact"} BY <2>1 DEF ConnectLabels, ProfileLabels
  <2>3. defined BY <2>1 DEF RedefinedInv
  <2>4. psd' = FALSE /\ UNCHANGED defined BY <1>4, NoProfileUp DEF ActivateContext
  <2>5. NoProfileUrc' /\ pc' \in {"cgact", "idle", "ingress", "events"}
    BY <1>0, <1>4, <2>2, Flow, Staying DEF ActivateContext, Stays, Activated
  <2> QED BY <2>3, <2>4, <2>5, <1>a DEF RedefinedInv
<1>5. CASE SocketIngressAll \/ ServiceSendAt \/ DropService
  <2>1. /\ Stays(context_state) /\ UNCHANGED <<psd, defined>>
        /\ pc' \in {"service", "svc_at", "idle"}
    BY <1>0, <1>5, Staying, Flow DEF SocketIngressAll, ServiceSendAt, DropService
  <2> QED BY <1>0, <2>1, <1>a, <1>b, RedefinedKept
<1>6. CASE ServiceHandleUrc
  <2>1. /\ net_urcs # <<>> /\ net_urcs' = Tail(net_urcs)
        /\ UNCHANGED <<pc, context_state, psd, defined>>
    BY <1>6 DEF ServiceHandleUrc
  <2>2. net_urcs \in Seq(Urcs) BY DEF TypeOK
  <2>3. /\ Len(Tail(net_urcs)) = Len(net_urcs) - 1 /\ Len(net_urcs) \in Nat
        /\ \A i \in 1..Len(Tail(net_urcs)) : Tail(net_urcs)[i] = net_urcs[i + 1]
    BY <2>1, <2>2
  <2>4. NoProfileUrc' BY <1>0, <2>1, <2>3 DEF NoProfileUrc
  <2> QED BY <2>1, <2>4 DEF RedefinedInv
<1> QED BY <1>1, <1>2, <1>3, <1>4, <1>5, <1>6 DEF Service

LEMMA RedefinedDriver ==
  ASSUME ~Upsd, TypeOK, RedefinedInv,
         \/ HardReset \/ PowerIsOn \/ PowerFailed \/ PowerAgain \/ HardPowerOff
         \/ SoftPowerOff \/ FactoryReset \/ PowerState \/ ApiAt
         \/ Alive \/ Configure1 \/ Configure2 \/ SelectSimCard \/ BringUp
         \/ FullFunctionality \/ EventReporting \/ FinishInit
         \/ ProcessEvents \/ Intervene \/ CheckImsi \/ CheckDue \/ CheckNotDue
         \/ PeriodicCheck
  PROVE  RedefinedInv'
<1> USE DEF devVars, regVars, modemVars, histVars
<1>0. NoProfileUrc /\ psd = FALSE BY DEF RedefinedInv
<1>a. ASSUME pc' \in Neutral \cup EventLabels, Stays(context_state), psd' = FALSE,
             UNCHANGED defined
      PROVE  RedefinedInv'
  <2>1. pc' \notin ProfileLabels /\ pc' \notin ConnectLabels
    BY <1>a DEF Neutral, EventLabels, InitLabels, SetupLabels, BringUpLabels, ResetLabels,
       PowerLabels, ProfileLabels, ConnectLabels
  <2> QED BY <1>a, <2>1, RedefinedKept
<1>1. CASE HardReset \/ PowerFailed
  <2>1. psd' = FALSE /\ UNCHANGED defined
    BY <1>1, NoProfilePower DEF HardReset, PowerFailed
  <2>2. Stays(context_state) BY <1>0, <1>1, Staying DEF HardReset, PowerFailed
  <2>3. pc' \in Neutral
    BY <1>1, Flow DEF HardReset, PowerFailed, Neutral, InitLabels, SetupLabels, PowerLabels
  <2> QED BY <2>1, <2>2, <2>3, <1>a
<1>2. CASE PowerIsOn
  <2>1. psd' = FALSE BY <1>2, NoProfilePower DEF PowerIsOn
  <2>2. CASE EnterSetup BY <2>1, <2>2, RedefinedSetup
  <2>3. CASE ~EnterSetup
    <3>1. /\ Stays(context_state) /\ UNCHANGED defined
          /\ pc' \in {"alive", "idle", "events"}
      BY <1>0, <1>2, <2>3, Staying, Flow DEF PowerIsOn
    <3> QED BY <2>1, <3>1, <1>a DEF Neutral, InitLabels, SetupLabels
  <2> QED BY <2>2, <2>3
<1>3. CASE PowerAgain
  <2>1. psd' = FALSE BY <1>3, NoProfilePower DEF PowerAgain
  <2>2. UNCHANGED <<pc, context_state, net_urcs, defined>> BY <1>3 DEF PowerAgain
  <2> QED BY <2>1, <2>2 DEF RedefinedInv, NoProfileUrc
<1>4. CASE HardPowerOff \/ SoftPowerOff \/ FactoryReset \/ PowerState \/ ApiAt
  <2>1. psd' = FALSE /\ UNCHANGED defined
    BY <1>0, <1>4 DEF HardPowerOff, SoftPowerOff, FactoryReset, PowerState, ApiAt, Becomes
  <2>2. Stays(context_state)
    BY <1>0, <1>4, Staying DEF HardPowerOff, SoftPowerOff, FactoryReset, PowerState, ApiAt
  <2>3. pc' \in Neutral
    BY <1>4, Flow DEF HardPowerOff, SoftPowerOff, FactoryReset, PowerState, ApiAt, Neutral,
       ResetLabels
  <2> QED BY <2>1, <2>2, <2>3, <1>a
<1>5. CASE Alive \/ Configure1 \/ Configure2 \/ SelectSimCard \/ BringUp
           \/ FullFunctionality \/ EventReporting \/ FinishInit
  <2>1. psd' = FALSE /\ UNCHANGED defined
    BY <1>0, <1>5, NoProfileUp DEF Alive, Configure1, Configure2, SelectSimCard, BringUp,
       FullFunctionality, EventReporting, FinishInit
  <2>2. Stays(context_state)
    BY <1>0, <1>5, Staying DEF Alive, Configure1, Configure2, SelectSimCard, BringUp,
       FullFunctionality, EventReporting, FinishInit
  <2>3. pc' \in Neutral
    BY <1>5, Flow DEF Alive, Configure1, Configure2, SelectSimCard, BringUp, BringUpNext,
       FullFunctionality, EventReporting, FinishInit, Neutral, InitLabels, SetupLabels,
       BringUpLabels
  <2> QED BY <2>1, <2>2, <2>3, <1>a
<1>6. CASE ProcessEvents \/ Intervene \/ CheckImsi \/ CheckDue
  <2>1. psd' = FALSE /\ UNCHANGED defined
    BY <1>0, <1>6, NoProfileUp DEF ProcessEvents, Intervene, CheckImsi, CheckDue
  <2>2. Stays(context_state)
    <3>1. HandleUrc(context_state) => Stays(context_state) BY <1>0, HandleUrcStays
    <3> QED BY <1>0, <1>6, <3>1, Staying DEF ProcessEvents, Intervene, CheckImsi, CheckDue
  <2>3. pc' \in Neutral \cup EventLabels
    BY <1>6, Flow DEF ProcessEvents, Intervene, CheckImsi, CheckDue, Neutral, EventLabels,
       ResetLabels
  <2> QED BY <2>1, <2>2, <2>3, <1>a
<1>7. CASE CheckNotDue \/ PeriodicCheck
  <2>1. UNCHANGED <<psd, defined>> BY <1>7 DEF CheckNotDue, PeriodicCheck
  <2>2. CASE SpinEnd BY <2>1, <2>2, RedefinedSpinEnd
  <2>3. CASE Issue("ev_rst")
    <3>1. Stays(context_state) /\ pc' = "ev_rst" BY <1>0, <2>3, Staying, Flow
    <3> QED BY <1>0, <2>1, <3>1, <1>a DEF Neutral, ResetLabels
  <2> QED BY <1>7, <2>2, <2>3 DEF CheckNotDue, PeriodicCheck
<1> QED BY <1>1, <1>2, <1>3, <1>4, <1>5, <1>6, <1>7

LEMMA RedefinedOthers ==
  ASSUME TypeOK, RedefinedInv, Call \/ Environment \/ UNCHANGED vars
  PROVE  RedefinedInv'
<1> USE DEF devVars, regVars, modemVars, histVars, driverVars
<1>0. NoProfileUrc /\ psd = FALSE BY DEF RedefinedInv
<1>1. CASE Call
  <2>1. psd' = FALSE
    BY <1>0, <1>1 DEF Call, CallInitialize, CallPower, CallStorage, CallSetup, CallSendAt
  <2>2. CASE EnterSetup BY <2>1, <2>2, RedefinedSetup
  <2>3. CASE ~EnterSetup
    <3>1. UNCHANGED defined /\ Stays(context_state)
      BY <1>0, <1>1, <2>3, Staying DEF Call, CallInitialize, CallPower, CallStorage,
         CallSetup, CallSendAt
    <3>2. pc' \in {"init_pon", "idle", "events", "api_rst", "api_pon", "cpwroff", "hpo",
                   "ufactory", "probe", "api_at"}
      BY <1>1, <2>3, Flow DEF Call, CallInitialize, CallPower, CallStorage, CallSetup,
         CallSendAt
    <3> QED BY <2>1, <3>1, <3>2, RedefinedKept DEF ProfileLabels, ConnectLabels
  <2> QED BY <2>2, <2>3
<1>2. CASE ModemReports \/ NetworkDeactivates
  <2>1. psd' = FALSE /\ UNCHANGED <<pc, context_state, defined>>
    BY <1>0, <1>2 DEF ModemReports, NetworkDeactivates
  <2>2. PICK u : u \notin {"activated", "deactivated"} /\ Publish(u)
    BY <1>0, <1>2 DEF ModemReports, NetworkDeactivates
  <2>3. net_urcs \in Seq(Urcs) BY DEF TypeOK
  <2>4. /\ Len(Append(net_urcs, u)) = Len(net_urcs) + 1 /\ Len(net_urcs) \in Nat
        /\ \A i \in 1..Len(net_urcs) : Append(net_urcs, u)[i] = net_urcs[i]
        /\ Append(net_urcs, u)[Len(net_urcs) + 1] = u
    BY <2>3
  <2>5. net_urcs' \in {net_urcs, Append(net_urcs, u)} BY <2>2 DEF Publish
  <2>6. NoProfileUrc' BY <1>0, <2>2, <2>4, <2>5 DEF NoProfileUrc
  <2> QED BY <2>1, <2>6 DEF RedefinedInv
<1>3. CASE ModemDies \/ BecomeCalm \/ UNCHANGED vars
  <2>1. psd' = FALSE /\ UNCHANGED <<pc, context_state, defined, net_urcs>>
    BY <1>0, <1>3 DEF ModemDies, BecomeCalm, Becomes, vars
  <2> QED BY <2>1 DEF RedefinedInv, NoProfileUrc
<1> QED BY <1>1, <1>2, <1>3 DEF Environment

\* On modules without a PSD profile, data_service activates a PDP context only
\* after defining it anew since setup_at_commands last ran, whatever was reset,
\* switched off or timed out in between, for every application.
THEOREM ContextIsRedefined ==
  ASSUME ~PsdProfile PROVE Spec => []ContextRedefined
<1>1. CASE Upsd
  <2>1. ContextRedefined BY <1>1 DEF ContextRedefined
  <2> QED BY <2>1, PTL
<1>2. CASE ~Upsd
  <2>1. Init => RedefinedInv
    BY DEF Init, RedefinedInv, NoProfileUrc, ProfileLabels, ConnectLabels
  <2>2. TypeOK /\ RedefinedInv /\ [Next]_vars => RedefinedInv'
    <3> SUFFICES ASSUME TypeOK, RedefinedInv, [Next]_vars PROVE RedefinedInv'
      OBVIOUS
    <3> QED BY <1>2, RedefinedContext, RedefinedDriver, RedefinedOthers DEF Next, Driver
  <2>3. RedefinedInv => ContextRedefined
    BY DEF RedefinedInv, ContextRedefined, ConnectLabels
  <2> QED BY <2>1, <2>2, <2>3, TypeCorrect, PTL DEF Spec
<1> QED BY <1>1, <1>2
=============================================================================
