------------------------------- MODULE Device -------------------------------
(***************************************************************************)
(* The driver's control loop: client.rs (initialize, setup_at_commands,    *)
(* spin, process_events), power.rs, the AT transmitter and the URC handler *)
(* of network.rs, and the context activation of services/data/mod.rs,      *)
(* against a modem that may stop answering, lose replies, drop the data    *)
(* context and send unsolicited result codes (URCs) at any moment.         *)
(*                                                                         *)
(* The driver is one thread that blocks on every AT command.  pc names the *)
(* command (or the group of commands sent without looking at URCs) whose   *)
(* reply it waits for; one step takes the reply, runs the code up to the   *)
(* next command and issues that command, handle_urc included when          *)
(* send_internal is called with check_urc = true.  The modem and the       *)
(* ingress thread step in between.                                         *)
(*                                                                         *)
(* Registration is reduced to what the loop sees of it: conn_state, and    *)
(* registered, the test (csd && psd) || eps of check_registration_state    *)
(* on the latest statuses.  Module Registration models the rest.           *)
(***************************************************************************)
EXTENDS Naturals, Sequences

CONSTANTS
  HasPowerPin, HasVintPin, HasResetPin, \* which pins CellularConfig offers
  Upsd,          \* feature "upsd-context-activation"
  PsdProfile,    \* not(any(feature = "sara-r4", feature = "lara-r6"))
  UpsdParams,    \* number of AT+UPSD parameters set before an activation
  TimeoutLimit,  \* consecutive timeouts tolerated (10)
  U8Max,         \* largest value of the u8 counter (255)
  AttachTries,   \* polls of AT+CGATT? in attach_network (10)
  IngressSends,  \* most commands socket_ingress_all sends (one per socket)
  UrcCapacity,   \* URC_CAPACITY (3)
  UrcKinds,      \* the URCs this modem sends
  Calls          \* the public operations this application performs

ASSUME FlagsAssumption ==
  /\ HasPowerPin \in BOOLEAN /\ HasVintPin \in BOOLEAN /\ HasResetPin \in BOOLEAN
  /\ Upsd \in BOOLEAN /\ PsdProfile \in BOOLEAN

ASSUME BoundsAssumption ==
  /\ UpsdParams \in Nat \ {0} /\ AttachTries \in Nat \ {0}
  /\ IngressSends \in Nat /\ UrcCapacity \in Nat \ {0}
  /\ TimeoutLimit \in Nat /\ U8Max \in Nat /\ TimeoutLimit < U8Max

Urcs == {"activated", "activation_failed", "deactivated", "other"}

ApiCalls == {"data_service", "spin", "initialize", "setup_at_commands",
             "send_at", "hard_reset", "power_on", "soft_power_off",
             "hard_power_off", "factory_reset", "set_socket_storage",
             "take_socket_storage", "power_state", "service_send_at",
             "service_handle_urc"}

ASSUME SetsAssumption == UrcKinds \subseteq Urcs /\ Calls \subseteq ApiCalls

VARIABLES
  pc, call, res, tries,  \* where the driver blocks, for which API call
  state,                 \* Device.state
  power_state,           \* Device.power_state
  sockets,               \* is Device.sockets Some?
  context_state,         \* Network.context_state
  conn_state,            \* RegistrationState.conn_state
  registered,            \* (csd && psd) || eps, as last read
  consecutive_timeouts,  \* AtTx.consecutive_timeouts
  net_urcs,              \* URCs the subscription of AtTx has not read
  dev_urcs,              \* number of URCs the subscription of Device has not read
  modem,                 \* "off", "hung" (powered, silent) or "run"
  configured,            \* setup_at_commands completed since the modem's boot
  pdp, psd,              \* the modem's PDP context / PSD profile is active
  calm,                  \* from now on modem and network behave
  defined,               \* history: context defined since the last setup
  lost                   \* history: a deactivation URC never reached handle_urc
                         \*   since the driver last read the profile's status

devVars   == <<state, power_state, sockets>>
regVars   == <<conn_state, registered>>
modemVars == <<modem, configured, pdp, psd>>
histVars  == <<defined, lost>>
vars == <<pc, call, res, tries, devVars, context_state, regVars,
          consecutive_timeouts, net_urcs, dev_urcs, modemVars, calm, histVars>>

(***************************************************************************)
(* The labels.  UrcChecked are the commands sent with check_urc = true.    *)
(***************************************************************************)
ResetLabels == {"init_rst", "setup_rst", "ev_rst", "api_rst"}
PowerLabels == {"init_pon", "init_hr", "setup_pon", "setup_hr", "ev_hr",
                "api_pon", "api_hr"}

SetupLabels == {"init_pon", "init_hr", "init_rst", "setup_pon", "setup_hr",
                "setup_rst", "alive", "setup_hpo", "cfg1", "sim1", "cfg2",
                "sim_cfun0", "sim_cfun1"}
BringUpLabels == {"sim2", "tz", "cfun_full", "cgerep", "creg", "cgreg",
                  "cereg", "cops_q", "cops_set", "upd_init"}
InitLabels == SetupLabels \cup BringUpLabels

EventLabels   == {"events", "intervene", "itv_cops0", "itv_cycle", "itv_pdp",
                  "itv_cgact", "itv_cops", "imsi", "sched", "upd"}
DefineLabels  == {"dc_cfun0", "dc_cgdcont", "dc_cfun1"}
ConnectLabels == {"cgatt", "pdp_q", "cgact", "map_q", "map_set", "map_chk",
                  "psd_q", "psd_act", "upsd_q", "upsd_set", "upsd_act"}
ServiceLabels == {"ingress", "service", "svc_at"}

Labels == InitLabels \cup EventLabels \cup DefineLabels \cup ConnectLabels
  \cup ServiceLabels \cup ResetLabels \cup PowerLabels
  \cup {"idle", "api_at", "cpwroff", "hpo", "ufactory", "fr_soft", "probe"}

UrcChecked ==
  {"sim1", "sim2", "sim_cfun0", "sim_cfun1", "cfun_full", "cgerep", "creg",
   "cgreg", "cereg", "cops_q", "cops_set", "itv_pdp", "itv_cgact", "itv_cops",
   "api_at", "svc_at"} \cup DefineLabels \cup ConnectLabels

TypeOK ==
  /\ pc \in Labels /\ call \in ApiCalls /\ res \in {"Ok", "Err", "WouldBlock"}
  /\ tries \in Nat
  /\ state \in {"Off", "AtInitialized", "FullyInitialized"}
  /\ power_state \in {"Off", "On"} /\ sockets \in BOOLEAN
  /\ context_state \in {"Setup", "Activating", "Active"}
  /\ conn_state \in {"Disconnected", "Connecting", "Connected"}
  /\ registered \in BOOLEAN
  /\ consecutive_timeouts \in 0..U8Max
  /\ net_urcs \in Seq(Urcs) /\ Len(net_urcs) <= UrcCapacity
  /\ dev_urcs \in 0..UrcCapacity
  /\ modem \in {"off", "hung", "run"}
  /\ configured \in BOOLEAN /\ pdp \in BOOLEAN /\ psd \in BOOLEAN
  /\ calm \in BOOLEAN /\ defined \in BOOLEAN /\ lost \in BOOLEAN

\* Device::new, with and without a socket set stored before the first call.
Init ==
  /\ pc = "idle" /\ call = "data_service" /\ res = "Ok" /\ tries = 0
  /\ state = "Off" /\ power_state = "Off" /\ sockets \in BOOLEAN
  /\ context_state = "Setup" /\ conn_state = "Disconnected"
  /\ registered = FALSE /\ consecutive_timeouts = 0
  /\ net_urcs = <<>> /\ dev_urcs = 0
  /\ modem \in {"off", "run"}
  /\ configured = FALSE /\ pdp = FALSE /\ psd = FALSE
  /\ calm = FALSE /\ defined = FALSE /\ lost = FALSE

-----------------------------------------------------------------------------
(***************************************************************************)
(* URC handling (Network::handle_urc) and moving to the next command.      *)
(***************************************************************************)
AfterUrc(u, c) ==
  CASE u = "activated"         -> "Active"
    [] u = "activation_failed" -> "Setup"
    [] u = "deactivated"       -> "Activating"
    [] OTHER                   -> c

\* One URC at most is taken from the subscription of AtTx; c is context_state
\* as the code before the call left it.
HandleUrc(c) ==
  IF net_urcs = <<>>
  THEN context_state' = c /\ UNCHANGED net_urcs
  ELSE context_state' = AfterUrc(Head(net_urcs), c) /\ net_urcs' = Tail(net_urcs)

\* send_internal issues command l; the code before it left c in context_state.
Goto(l, c) ==
  /\ pc' = l /\ tries' = 0
  /\ IF l \in UrcChecked THEN HandleUrc(c)
     ELSE context_state' = c /\ UNCHANGED net_urcs

Issue(l) == Goto(l, context_state)

\* The same command is sent once more.
Retry == pc' = pc /\ tries' = tries + 1 /\ HandleUrc(context_state)

\* initialize or setup_at_commands returns r: to its caller, or to spin.
InitReturns(r) ==
  /\ res' = r
  /\ Issue(IF call \in {"spin", "data_service"} THEN "events" ELSE "idle")

\* The API call returns r.
Return(r) == res' = r /\ Issue("idle")

\* The `?` operator on a command: initialize hands its error to spin, every
\* other function to the application.
Fail == IF pc \in InitLabels THEN InitReturns("Err") ELSE Return("Err")

(***************************************************************************)
(* Replies and the timeout counter of AtTx.                                *)
(***************************************************************************)
\* What send_retry can return now.
Replies == IF modem # "run" THEN {"timeout"}
           ELSE IF calm THEN {"ok"} ELSE {"ok", "timeout", "error"}

\* Mutant: a plain addition.
SatMissing(n) == n

\* u8::saturating_add
Sat(n) == IF n > U8Max THEN U8Max ELSE n

Count(r) == CASE r = "ok"      -> 0
              [] r = "timeout" -> Sat(consecutive_timeouts + 1)
              [] OTHER         -> consecutive_timeouts

\* One command is answered by r (AtTx::send).
Sent(r) == r \in Replies /\ consecutive_timeouts' = Count(r)

\* The counter when n commands in a row have failed.
Failed(n) == IF modem = "run"
             THEN {Sat(consecutive_timeouts + k) : k \in 0..n}
             ELSE {Sat(consecutive_timeouts + n)}

\* Several commands sent in a row, the first failure ends them with result r.
SentAll(r) ==
  /\ r \in Replies
  /\ IF r = "ok" THEN consecutive_timeouts' = 0
     ELSE \/ consecutive_timeouts' = Count(r)
          \/ modem = "run" /\ consecutive_timeouts' = IF r = "timeout" THEN 1 ELSE 0

\* n commands are sent until one succeeds; ok tells whether one did.
SentUntil(n, ok) ==
  IF ok THEN modem = "run" /\ consecutive_timeouts' = 0
  ELSE (modem # "run" \/ ~calm) /\ consecutive_timeouts' \in Failed(n)

\* n commands are sent and all their errors ignored.
SentIgnored(n) ==
  \/ modem = "run" /\ consecutive_timeouts' \in
       (IF calm THEN {0} ELSE {Sat(k) : k \in 0..(n - 1)})
  \/ (modem # "run" \/ ~calm) /\ consecutive_timeouts' \in Failed(n)

(***************************************************************************)
(* The modem (external).  A command it answers "ok" took effect, one it    *)
(* answers "error" did not, and of one that timed out nobody knows.  A     *)
(* radio cycle is two commands, of which the first may have taken effect.  *)
(***************************************************************************)
RadioOff == {"dc_cfun0", "sim_cfun0", "itv_cycle"}

Obey(r) ==
  \/ /\ modem = "run" /\ (r # "error" \/ pc = "itv_cycle")
     /\ pdp' = ((pdp /\ pc \notin RadioOff) \/ pc \in {"cgact", "itv_cgact"})
     /\ psd' = ((psd /\ pc \notin RadioOff) \/ pc \in {"psd_act", "upsd_act"})
     /\ UNCHANGED <<modem, configured>>
  \/ r # "ok" /\ UNCHANGED modemVars

Becomes(m) == modem' = m /\ configured' = FALSE /\ pdp' = FALSE /\ psd' = FALSE

\* RESET_N low for 50 ms.
ResetPulse == IF HasResetPin /\ modem # "off" THEN Becomes("run")
              ELSE UNCHANGED modemVars

\* PWR_ON low: a module that is off boots, one that is on ignores the pulse.
PowerPulse == IF modem = "off" THEN Becomes("run") ELSE UNCHANGED modemVars

-----------------------------------------------------------------------------
(***************************************************************************)
(* power.rs                                                                *)
(***************************************************************************)
\* Device::power_state: the VINT pin, or two tries of AT when there is none.
Probe(on) ==
  IF HasVintPin
  THEN (on <=> modem # "off") /\ UNCHANGED consecutive_timeouts
  ELSE SentUntil(2, on)

\* The VINT pin cannot be read.
ProbeFails == HasVintPin /\ ~calm /\ UNCHANGED consecutive_timeouts

\* wait_power_state(On) after the modem became modem': whether it saw it on.
Waited(on) ==
  IF on
  THEN IF HasVintPin THEN modem' # "off" /\ UNCHANGED consecutive_timeouts
       ELSE modem' = "run" /\ consecutive_timeouts' = 0
  ELSE /\ ~calm \/ (~HasVintPin /\ modem' # "run")
       /\ consecutive_timeouts' \in
            IF HasVintPin THEN {consecutive_timeouts}
            ELSE {n \in 0..U8Max : n >= consecutive_timeouts}

LooksOff == IF HasVintPin THEN modem = "off" ELSE modem # "run" \/ ~calm

\* Mutant: power_on calls itself in place of hard_reset.
PowerOnWithoutReset(o) ==
  \/ o = "ok" /\ Probe(TRUE) /\ UNCHANGED modemVars
  \/ o = "err" /\ ProbeFails /\ UNCHANGED modemVars
  \/ /\ LooksOff /\ ~HasPowerPin /\ o = "ok"
     /\ modem = "run" /\ Becomes("run") /\ Waited(TRUE)
  \/ /\ LooksOff /\ ~HasPowerPin /\ o = "again"
     /\ UNCHANGED modemVars \/ (modem = "run" /\ Becomes("run"))
     /\ consecutive_timeouts' \in {n \in 0..U8Max : n >= consecutive_timeouts}

\* One activation of power_on: it returns "ok" or "err", or its soft reset
\* failed and hard_reset has called it "again".
PowerOn(o) ==
  \/ o = "ok" /\ Probe(TRUE) /\ UNCHANGED modemVars
  \/ o = "err" /\ ProbeFails /\ UNCHANGED modemVars
  \/ /\ LooksOff /\ HasPowerPin
     /\ PowerPulse
     /\ \/ o = "ok" /\ Waited(TRUE)
        \/ o = "err" /\ Waited(FALSE)
  \/ /\ LooksOff /\ ~HasPowerPin /\ o = "ok"     \* soft_reset(false)
     /\ modem = "run" /\ Becomes("run") /\ Waited(TRUE)
  \/ /\ LooksOff /\ ~HasPowerPin /\ o = "again"  \* soft_reset, then hard_reset
     /\ ResetPulse \/ (modem = "run" /\ Becomes("run"))
     /\ consecutive_timeouts' \in {n \in 0..U8Max : n >= consecutive_timeouts}

\* Mutant: power_state is left as it was.
HardResetStaysOn ==
  /\ pc \in ResetLabels
  /\ ResetPulse
  /\ Issue(CASE pc = "init_rst"  -> "init_hr"
             [] pc = "setup_rst" -> "setup_hr"
             [] pc = "ev_rst"    -> "ev_hr"
             [] OTHER            -> "api_hr")
  /\ UNCHANGED <<call, res, devVars, regVars, consecutive_timeouts, dev_urcs,
                 calm, histVars>>

\* hard_reset up to its call of power_on.
HardReset ==
  /\ pc \in ResetLabels
  /\ ResetPulse
  /\ power_state' = "Off"
  /\ Issue(CASE pc = "init_rst"  -> "init_hr"
             [] pc = "setup_rst" -> "setup_hr"
             [] pc = "ev_rst"    -> "ev_hr"
             [] OTHER            -> "api_hr")
  /\ UNCHANGED <<call, res, state, sockets, regVars, consecutive_timeouts,
                 dev_urcs, calm, histVars>>

\* Mutant: the context state survives.
EnterSetupKeepsContext == Issue("setup_pon") /\ defined' = FALSE /\ lost' = FALSE

\* setup_at_commands up to its call of power_on.
EnterSetup == Goto("setup_pon", "Setup") /\ defined' = FALSE /\ lost' = FALSE

\* power_on succeeded: initialize notes it, every caller goes on.
PowerIsOn ==
  /\ pc \in PowerLabels
  /\ PowerOn("ok")
  /\ \/ /\ pc \in {"init_pon", "init_hr"}
        /\ power_state' = "On"
        /\ EnterSetup
        /\ UNCHANGED res
     \/ /\ pc \notin {"init_pon", "init_hr"}
        /\ \/ pc = "setup_pon" /\ Issue("alive") /\ UNCHANGED res
           \/ pc = "setup_hr" /\ InitReturns("Err")     \* BaudDetection
           \/ pc = "ev_hr" /\ Return("Err")             \* Timeout
           \/ pc \in {"api_pon", "api_hr"} /\ Return("Ok")
        /\ UNCHANGED <<power_state, histVars>>
  /\ UNCHANGED <<call, state, sockets, regVars, dev_urcs, calm>>

PowerFailed ==
  /\ pc \in PowerLabels
  /\ PowerOn("err")
  /\ \/ pc = "init_pon" /\ Issue("init_rst") /\ UNCHANGED res
     \/ pc = "setup_hr" /\ Issue("setup_hpo") /\ UNCHANGED res
     \/ pc \notin {"init_pon", "setup_hr"} /\ Fail
  /\ UNCHANGED <<call, devVars, regVars, dev_urcs, calm, histVars>>

\* power_on and hard_reset call each other.
PowerAgain ==
  /\ pc \in PowerLabels
  /\ PowerOn("again")
  /\ power_state' = "Off"
  /\ UNCHANGED <<pc, call, res, tries, state, sockets, context_state, regVars,
                 net_urcs, dev_urcs, calm, histVars>>

\* hard_power_off, from the API or from setup_at_commands.
HardPowerOff ==
  /\ pc \in {"hpo", "setup_hpo"}
  /\ \/ /\ Probe(TRUE) /\ HasPowerPin
        /\ Becomes("off") /\ power_state' = "Off"
        /\ IF pc = "hpo" THEN Return("Ok") ELSE Fail
     \/ /\ (Probe(TRUE) /\ ~HasPowerPin) \/ ProbeFails
        /\ UNCHANGED <<modemVars, power_state>>
        /\ Fail
     \/ /\ Probe(FALSE)
        /\ UNCHANGED <<modemVars, power_state>>
        /\ IF pc = "hpo" THEN Return("Ok") ELSE Fail
  /\ UNCHANGED <<call, state, sockets, regVars, dev_urcs, calm, histVars>>

SoftPowerOff ==
  /\ pc = "cpwroff"
  /\ \E r \in Replies :
       /\ Sent(r)
       /\ \/ modem = "run" /\ r # "error" /\ Becomes("off")
          \/ r # "ok" /\ UNCHANGED modemVars
       /\ power_state' = IF r = "ok" THEN "Off" ELSE power_state
       /\ Return(IF r = "ok" THEN "Ok" ELSE "Err")
  /\ UNCHANGED <<call, state, sockets, regVars, dev_urcs, calm, histVars>>

\* AT+UFACTORY, then soft_reset(true), then hard_reset if that failed.
FactoryReset ==
  /\ \/ /\ pc = "ufactory"
        /\ \E r \in Replies :
             Sent(r) /\ IF r = "ok" THEN Issue("fr_soft") /\ UNCHANGED res ELSE Fail
        /\ UNCHANGED modemVars
     \/ /\ pc = "fr_soft"
        /\ \/ modem = "run" /\ Becomes("run") /\ Waited(TRUE) /\ Return("Ok")
           \/ /\ modem # "run" \/ ~calm
              /\ \/ modem = "run" /\ Becomes("run")
                 \/ UNCHANGED modemVars
              /\ consecutive_timeouts' \in {n \in 0..U8Max : n >= consecutive_timeouts}
              /\ Issue("api_rst") /\ UNCHANGED res
  /\ UNCHANGED <<call, devVars, regVars, dev_urcs, calm, histVars>>

PowerState ==
  /\ pc = "probe"
  /\ \/ \E on \in BOOLEAN : Probe(on) /\ Return("Ok")
     \/ ProbeFails /\ Fail
  /\ UNCHANGED <<call, devVars, regVars, modemVars, dev_urcs, calm, histVars>>

-----------------------------------------------------------------------------
(***************************************************************************)
(* client.rs: the public operations.                                       *)
(***************************************************************************)
\* initialize, alone or as the first thing spin does.
CallInitialize(c) ==
  /\ pc = "idle" /\ c \in Calls \cap {"data_service", "spin", "initialize"}
  /\ call' = c
  /\ \/ /\ power_state # "On"
        /\ state' = "Off" /\ Issue("init_pon")
        /\ UNCHANGED <<res, histVars>>
     \/ /\ power_state = "On" /\ state = "FullyInitialized"
        /\ res' = "Ok" /\ Issue(IF c = "initialize" THEN "idle" ELSE "events")
        /\ UNCHANGED <<state, histVars>>
     \/ /\ power_state = "On" /\ state # "FullyInitialized"
        /\ EnterSetup
        /\ UNCHANGED <<state, res>>
  /\ UNCHANGED <<power_state, sockets, regVars, consecutive_timeouts, dev_urcs,
                 modemVars, calm>>

CallSetup ==
  /\ pc = "idle" /\ "setup_at_commands" \in Calls
  /\ call' = "setup_at_commands"
  /\ EnterSetup
  /\ UNCHANGED <<res, devVars, regVars, consecutive_timeouts, dev_urcs,
                 modemVars, calm>>

CallSendAt ==
  /\ pc = "idle" /\ "send_at" \in Calls
  /\ call' = "send_at"
  /\ IF state = "Off" THEN Return("Err") ELSE Issue("api_at") /\ UNCHANGED res
  /\ UNCHANGED <<devVars, regVars, consecutive_timeouts, dev_urcs, modemVars,
                 calm, histVars>>

\* The operations of power.rs.
CallPower(c) ==
  /\ pc = "idle"
  /\ c \in Calls \cap {"hard_reset", "power_on", "soft_power_off",
                       "hard_power_off", "factory_reset", "power_state"}
  /\ call' = c
  /\ Issue(CASE c = "hard_reset"     -> "api_rst"
             [] c = "power_on"       -> "api_pon"
             [] c = "soft_power_off" -> "cpwroff"
             [] c = "hard_power_off" -> "hpo"
             [] c = "factory_reset"  -> "ufactory"
             [] OTHER                -> "probe")
  /\ UNCHANGED <<res, devVars, regVars, consecutive_timeouts, dev_urcs,
                 modemVars, calm, histVars>>

CallStorage(c) ==
  /\ pc = "idle" /\ c \in Calls \cap {"set_socket_storage", "take_socket_storage"}
  /\ sockets' = (c = "set_socket_storage")
  /\ call' = c /\ Return("Ok")
  /\ UNCHANGED <<state, power_state, regVars, consecutive_timeouts, dev_urcs,
                 modemVars, calm, histVars>>

ApiAt ==
  /\ pc = "api_at"
  /\ \E r \in Replies : Sent(r) /\ Return(IF r = "ok" THEN "Ok" ELSE "Err")
  /\ UNCHANGED <<call, devVars, regVars, dev_urcs, modemVars, calm, histVars>>

(***************************************************************************)
(* client.rs: setup_at_commands and initialize.                            *)
(***************************************************************************)
Alive ==
  /\ pc = "alive"
  /\ \E ok \in BOOLEAN :
       SentUntil(5, ok) /\ Issue(IF ok THEN "cfg1" ELSE "setup_rst")
  /\ UNCHANGED <<call, res, devVars, regVars, dev_urcs, modemVars, calm, histVars>>

\* CMEE, UGPIOC, CGMM, CGMR.
Configure1 ==
  /\ pc = "cfg1"
  /\ \E r \in Replies :
       SentAll(r) /\ IF r = "ok" THEN Issue("sim1") /\ UNCHANGED res ELSE Fail
  /\ UNCHANGED <<call, devVars, regVars, dev_urcs, modemVars, calm, histVars>>

\* CCID, &C, &D, UPSV, UDCONF, &K; the module is then configured.
Configure2 ==
  /\ pc = "cfg2"
  /\ \E r \in Replies :
       /\ SentAll(r)
       /\ \/ /\ r = "ok"
             /\ state' = "AtInitialized" /\ configured' = TRUE
             /\ IF call = "setup_at_commands" THEN Return("Ok")
                ELSE Issue("sim2") /\ UNCHANGED res
          \/ r # "ok" /\ Fail /\ UNCHANGED <<state, configured>>
  /\ UNCHANGED <<call, power_state, sockets, regVars, dev_urcs, modem, pdp, psd,
                 calm, histVars>>

\* What +CPIN? is parsed to: READY, or one of the nine codes that ask for a PIN or PUK.
\* A text that is none of them is an error like any other.
PinStatusCode(r) == IF r = "ok" THEN {"Ready", "Locked"} ELSE {"Unknown"}

\* select_sim_card: two tries, then the radio is cycled and Busy returned.
SelectSimCard ==
  /\ \/ /\ pc \in {"sim1", "sim2"}
        /\ \E r \in Replies : \E code \in PinStatusCode(r) :
             /\ Sent(r) /\ Obey(r)
             /\ (calm /\ r = "ok") => code = "Ready"
             /\ IF code = "Ready" THEN Issue(IF pc = "sim1" THEN "cfg2" ELSE "tz")
                ELSE IF tries = 0 THEN Retry ELSE Issue("sim_cfun0")
        /\ UNCHANGED res
     \/ /\ pc = "sim_cfun0"
        /\ \E r \in Replies :
             /\ Sent(r) /\ Obey(r)
             /\ IF r = "ok" THEN Issue("sim_cfun1") /\ UNCHANGED res ELSE Fail
     \/ /\ pc = "sim_cfun1"
        /\ \E r \in Replies : Sent(r) /\ Obey(r)
        /\ Fail
  /\ UNCHANGED <<call, devVars, regVars, dev_urcs, calm, histVars>>

\* The commands of initialize and enable_registration_urcs that end in `?`.
BringUpNext(l) ==
  CASE l = "tz"     -> {"cfun_full"}
    [] l = "creg"   -> {"cgreg"}
    [] l = "cgreg"  -> {"cereg"}
    [] l = "cereg"  -> {"cops_q"}
    [] l = "cops_q" -> {"cops_set", "upd_init"}
    [] OTHER        -> {"upd_init"}

BringUp ==
  /\ pc \in {"tz", "creg", "cgreg", "cereg", "cops_q", "cops_set"}
  /\ \E r \in Replies :
       /\ Sent(r)
       /\ \/ r = "ok" /\ (\E l \in BringUpNext(pc) : Issue(l)) /\ UNCHANGED res
          \/ r # "ok" /\ Fail
  /\ UNCHANGED <<call, devVars, regVars, dev_urcs, modemVars, calm, histVars>>

\* Mutant: the statuses survive.
FullFunctionalityKeeps ==
  /\ pc = "cfun_full"
  /\ \E r \in Replies :
       /\ Sent(r)
       /\ \/ r = "ok" /\ Issue("cgerep") /\ conn_state' = "Connecting" /\ UNCHANGED res
          \/ r # "ok" /\ Fail /\ UNCHANGED conn_state
  /\ UNCHANGED <<call, devVars, registered, dev_urcs, modemVars, calm, histVars>>

\* AT+CFUN=1; then the registration state starts over, Connecting.
FullFunctionality ==
  /\ pc = "cfun_full"
  /\ \E r \in Replies :
       /\ Sent(r)
       /\ \/ /\ r = "ok" /\ Issue("cgerep") /\ UNCHANGED res
             /\ conn_state' = "Connecting" /\ registered' = FALSE
          \/ r # "ok" /\ Fail /\ UNCHANGED regVars
  /\ UNCHANGED <<call, devVars, dev_urcs, modemVars, calm, histVars>>

\* AT+CGEREP, whose failure is no stopper.
EventReporting ==
  /\ pc = "cgerep"
  /\ \E r \in Replies : Sent(r)
  /\ Issue("creg")
  /\ UNCHANGED <<call, res, devVars, regVars, dev_urcs, modemVars, calm, histVars>>

\* update_registration: four commands, errors ignored; statuses that were
\* not read stay as they were.
UpdateRegistration ==
  /\ SentIgnored(4)
  /\ registered' \in IF modem # "run" THEN {registered}
                     ELSE IF calm THEN {TRUE} ELSE BOOLEAN
  /\ UNCHANGED conn_state

FinishInit ==
  /\ pc = "upd_init"
  /\ UpdateRegistration
  /\ state' = "FullyInitialized"
  /\ InitReturns("Ok")
  /\ UNCHANGED <<call, power_state, sockets, dev_urcs, modemVars, calm, histVars>>

-----------------------------------------------------------------------------
(***************************************************************************)
(* data/mod.rs: data_service after spin, and spin's own ending.            *)
(***************************************************************************)
\* DataService::connect: nothing to do when the context is active.
Connect(c) == Goto(IF c = "Active" THEN "ingress" ELSE "cgatt", c)

\* data_service goes on after spin returned r: define_context if in Setup.
AfterSpin(r, c) ==
  /\ res' = r
  /\ IF ~Upsd /\ c = "Setup" THEN Goto("dc_cfun0", c)
     ELSE IF r = "Ok" THEN Connect(c) ELSE Goto("idle", c)

\* Mutant: is_connected is not asked.
IsOnlineUnasked == state = "FullyInitialized"

\* spin's test.
IsOnline == conn_state = "Connected" /\ state = "FullyInitialized"

\* spin once process_events returned Ok; res holds the result of initialize.
SpinEnd ==
  IF res = "Err" THEN Return("Err")
  ELSE LET r == IF IsOnline THEN "Ok" ELSE "WouldBlock"
           c == IF ~IsOnline /\ context_state = "Active" THEN "Activating"
                ELSE context_state
       IN IF call = "data_service" THEN AfterSpin(r, c)
          ELSE res' = r /\ Goto("idle", c)

(***************************************************************************)
(* client.rs, network.rs: process_events.                                  *)
(***************************************************************************)
\* Mutant: the device is only ever demoted.
CheckDemotesOnly(conn, reg) ==
  IF conn = "Connected" /\ ~reg THEN "Connecting" ELSE conn

CheckRegistrationState(conn, reg) ==
  CASE conn = "Disconnected"      -> "Disconnected"
    [] conn # "Disconnected" /\ reg -> "Connected"
    [] OTHER                      -> "Connecting"

\* Mutants: the limit is one the counter never exceeds; the URC is looked at but
\* not taken.
TooManyTimeoutsNever == consecutive_timeouts > U8Max
UrcsLeftAll == dev_urcs

\* The limit Network::process_events starts with.
TooManyTimeouts == consecutive_timeouts > TimeoutLimit

\* handle_urc_internal reads one URC, if there is a socket set.
UrcsLeft == IF sockets /\ dev_urcs > 0 THEN dev_urcs - 1 ELSE dev_urcs

\* handle_urc_internal, the timeout limit, handle_urc, check_registration_state.
ProcessEvents ==
  /\ pc = "events"
  /\ \/ /\ power_state # "On" /\ Return("Err")
        /\ UNCHANGED <<consecutive_timeouts, regVars, dev_urcs>>
     \/ /\ power_state = "On"
        /\ dev_urcs' = UrcsLeft
        /\ UNCHANGED res
        /\ \/ /\ TooManyTimeouts
              /\ consecutive_timeouts' = 0 /\ Issue("ev_rst")
              /\ UNCHANGED regVars
           \/ /\ ~TooManyTimeouts
              /\ conn_state' = CheckRegistrationState(conn_state, registered)
              /\ HandleUrc(context_state)
              \* a state that was just reset is not sticky
              /\ IF conn_state = "Connecting" /\ ~registered THEN pc' = "intervene"
                 ELSE pc' \in {"imsi", "sched"}
              /\ tries' = 0
              /\ UNCHANGED <<consecutive_timeouts, registered>>
  /\ UNCHANGED <<call, devVars, modemVars, calm, histVars>>

\* After intervene_registration: check_running_imsi if its time has come.
Onward == \E l \in {"imsi", "sched"} : Issue(l)

\* intervene_registration while Connecting; Registration.tla says when.
Intervene ==
  /\ \/ /\ pc = "intervene"
        /\ Onward \/ (\E l \in {"itv_cops0", "itv_cycle", "itv_pdp"} : Issue(l))
        /\ UNCHANGED <<res, consecutive_timeouts, modemVars>>
     \/ /\ pc = "itv_cops0"
        /\ \E r \in Replies : Sent(r)
        /\ Onward
        /\ UNCHANGED <<res, modemVars>>
     \/ /\ pc = "itv_cycle"
        /\ \E r \in Replies :
             /\ SentAll(r) /\ Obey(r)
             /\ IF r = "ok" THEN Onward /\ UNCHANGED res ELSE Fail
     \/ /\ pc \in {"itv_pdp", "itv_cgact", "itv_cops"}
        /\ \E r \in Replies :
             /\ Sent(r) /\ Obey(r)
             /\ IF r = "ok"
                THEN /\ IF pc = "itv_pdp" THEN Issue("itv_cgact") ELSE Onward
                     /\ UNCHANGED res
                ELSE IF pc = "itv_cgact" THEN Issue("itv_cops") /\ UNCHANGED res
                ELSE Fail
  /\ UNCHANGED <<call, devVars, regVars, dev_urcs, calm, histVars>>

\* check_running_imsi: AT+CIMI, and AT if that failed.
CheckImsi ==
  /\ pc = "imsi"
  /\ \E ok \in BOOLEAN : SentUntil(2, ok)
  /\ Issue("sched")
  /\ UNCHANGED <<call, res, devVars, regVars, dev_urcs, modemVars, calm, histVars>>

\* REGISTRATION_CHECK_INTERVAL has passed since the last check, or not yet.
CheckDue ==
  /\ pc = "sched" /\ Issue("upd")
  /\ UNCHANGED <<call, res, devVars, regVars, consecutive_timeouts, dev_urcs,
                 modemVars, calm, histVars>>

CheckNotDue ==
  /\ pc = "sched" /\ SpinEnd
  /\ UNCHANGED <<call, devVars, regVars, consecutive_timeouts, dev_urcs,
                 modemVars, calm, histVars>>

\* The periodic check; the registration timeout may have passed by its end.
PeriodicCheck ==
  /\ pc = "upd"
  /\ UpdateRegistration
  /\ \/ conn_state = "Connecting" /\ Issue("ev_rst") /\ UNCHANGED res
     \/ SpinEnd
  /\ UNCHANGED <<call, devVars, dev_urcs, modemVars, calm, histVars>>

-----------------------------------------------------------------------------
(***************************************************************************)
(* data/mod.rs: defining and activating the data context.                  *)
(***************************************************************************)
\* CFUN=0, CGDCONT when an APN is given, CFUN=1.
DefineContext ==
  /\ pc \in DefineLabels
  /\ \E r \in Replies :
       /\ Sent(r) /\ Obey(r)
       /\ \/ /\ r = "ok" /\ pc = "dc_cfun1"
             /\ defined' = TRUE
             /\ IF res = "Ok" THEN Connect("Activating") ELSE Goto("idle", "Activating")
             /\ UNCHANGED res
          \/ /\ r = "ok" /\ pc # "dc_cfun1"
             /\ \/ pc = "dc_cfun0" /\ Issue("dc_cgdcont")
                \/ Issue("dc_cfun1")
             /\ UNCHANGED <<res, defined>>
          \/ r # "ok" /\ Fail /\ UNCHANGED defined
  /\ UNCHANGED <<call, devVars, regVars, dev_urcs, calm, lost>>

\* attach_network, and the test for Active that activate_context starts with.
AttachNetwork ==
  /\ pc = "cgatt"
  /\ \E r \in Replies, attached \in BOOLEAN :
       /\ Sent(r)
       /\ (calm /\ r = "ok") => attached
       /\ \/ /\ r = "ok" /\ attached
             /\ Issue(IF context_state = "Active" THEN "ingress"
                      ELSE IF Upsd THEN "upsd_q" ELSE "pdp_q")
             /\ UNCHANGED res
          \/ /\ r = "ok" /\ ~attached
             /\ IF tries + 1 < AttachTries THEN Retry /\ UNCHANGED res
                ELSE Return("WouldBlock")
          \/ r # "ok" /\ Fail
  /\ UNCHANGED <<call, devVars, regVars, dev_urcs, modemVars, calm, histVars>>

\* The context is known to be active.
Activated == Goto("ingress", "Active") /\ lost' = FALSE

\* activate_context_upsd
ActivateContextUpsd ==
  /\ pc \in {"upsd_q", "upsd_set", "upsd_act"}
  /\ \E r \in Replies :
       /\ Sent(r) /\ Obey(r)
       /\ \/ r = "ok" /\ pc = "upsd_q" /\ psd /\ Activated /\ UNCHANGED res
          \/ /\ r = "ok" /\ pc = "upsd_q" /\ ~psd
             /\ Goto("upsd_set", "Activating") /\ UNCHANGED <<res, lost>>
          \/ /\ r = "ok" /\ pc = "upsd_set"
             /\ IF tries + 1 < UpsdParams THEN Retry ELSE Issue("upsd_act")
             /\ UNCHANGED <<res, lost>>
          \/ r = "ok" /\ pc = "upsd_act" /\ Activated /\ UNCHANGED res
          \/ r # "ok" /\ Fail /\ UNCHANGED lost
  /\ UNCHANGED <<call, devVars, regVars, dev_urcs, calm, defined>>

\* activate_context: the commands between the query of the PDP context and
\* the activation of the PSD profile.
ProfileNext(l) ==
  CASE l = "map_q"   -> {"map_set", "psd_q"}
    [] l = "map_set" -> {"map_chk"}
    [] OTHER         -> {"psd_q"}

ActivateContext ==
  /\ pc \in ConnectLabels \ {"cgatt", "upsd_q", "upsd_set", "upsd_act"}
  /\ \E r \in Replies :
       /\ Sent(r) /\ Obey(r)
       /\ \/ /\ r = "ok" /\ pc = "pdp_q" /\ ~pdp
             /\ Issue("cgact") /\ UNCHANGED <<res, lost>>
          \/ r = "ok" /\ pc = "cgact" /\ Return("WouldBlock") /\ UNCHANGED lost
          \/ /\ r = "ok" /\ pc = "pdp_q" /\ pdp /\ PsdProfile
             /\ Issue("map_q") /\ UNCHANGED <<res, lost>>
          \/ /\ r = "ok" /\ pc = "pdp_q" /\ pdp /\ ~PsdProfile
             /\ Activated /\ UNCHANGED res
          \/ /\ r = "ok" /\ pc \in {"map_q", "map_set", "map_chk"}
             /\ \E l \in ProfileNext(pc) : Issue(l)
             /\ UNCHANGED <<res, lost>>
          \/ /\ r = "ok" /\ pc = "psd_q" /\ ~psd
             /\ Issue("psd_act") /\ UNCHANGED <<res, lost>>
          \/ /\ r = "ok" /\ (pc = "psd_act" \/ (pc = "psd_q" /\ psd))
             /\ Activated /\ UNCHANGED res
          \/ r # "ok" /\ Fail /\ UNCHANGED lost
  /\ UNCHANGED <<call, devVars, regVars, dev_urcs, calm, defined>>

\* The end of try_new: socket_ingress_all, whose errors are dropped.
SocketIngressAll ==
  /\ pc = "ingress"
  /\ \/ UNCHANGED consecutive_timeouts
     \/ sockets /\ \E n \in 1..IngressSends : SentIgnored(n)
  /\ res' = "Ok" /\ Issue("service")
  /\ UNCHANGED <<call, devVars, regVars, dev_urcs, modemVars, calm, histVars>>

\* The application uses the DataService it was given, and drops it.
ServiceSendAt ==
  /\ \/ /\ pc = "service" /\ "service_send_at" \in Calls
        /\ Issue("svc_at") /\ UNCHANGED consecutive_timeouts
     \/ pc = "svc_at" /\ (\E r \in Replies : Sent(r)) /\ Issue("service")
  /\ UNCHANGED <<call, res, devVars, regVars, dev_urcs, modemVars, calm, histVars>>

\* DataService::handle_urc hands the next URC to the application instead.
ServiceHandleUrc ==
  /\ pc = "service" /\ "service_handle_urc" \in Calls
  /\ net_urcs # <<>>
  /\ net_urcs' = Tail(net_urcs)
  /\ lost' = (lost \/ Head(net_urcs) = "deactivated")
  /\ UNCHANGED <<pc, call, res, tries, devVars, context_state, regVars,
                 consecutive_timeouts, dev_urcs, modemVars, calm, defined>>

DropService ==
  /\ pc = "service" /\ Issue("idle")
  /\ UNCHANGED <<call, res, devVars, regVars, consecutive_timeouts, dev_urcs,
                 modemVars, calm, histVars>>

-----------------------------------------------------------------------------
(***************************************************************************)
(* The modem, the network and the ingress thread (external).               *)
(***************************************************************************)
\* The channel keeps a URC until both subscriptions have read it; try_publish
\* on a full channel fails and the URC is gone.
ChannelFull == Len(net_urcs) >= UrcCapacity \/ dev_urcs >= UrcCapacity

Publish(u) ==
  IF ChannelFull
  THEN lost' = (lost \/ u = "deactivated") /\ UNCHANGED <<net_urcs, dev_urcs>>
  ELSE net_urcs' = Append(net_urcs, u) /\ dev_urcs' = dev_urcs + 1 /\ UNCHANGED lost

driverVars == <<pc, call, res, tries, devVars, context_state, regVars,
                consecutive_timeouts, defined>>

\* +UUPSDA, or a URC the driver has no use for.
ModemReports ==
  /\ modem = "run"
  /\ \E u \in UrcKinds \ {"deactivated"} :
       /\ u = "activated" => psd
       /\ u = "activation_failed" => ~psd /\ ~calm
       /\ Publish(u)
  /\ UNCHANGED <<driverVars, modemVars, calm>>

\* The network takes the context down: +UUPSDD for the profile, +CGEV if only
\* the PDP context was up.
NetworkDeactivates ==
  /\ "deactivated" \in UrcKinds /\ modem = "run" /\ ~calm /\ (pdp \/ psd)
  /\ pdp' = FALSE /\ psd' = FALSE
  /\ Publish(IF psd THEN "deactivated" ELSE "other")
  /\ UNCHANGED <<driverVars, modem, configured, calm>>

\* The modem loses power or stops answering.
ModemDies ==
  /\ modem = "run" /\ ~calm
  /\ \E m \in {"off", "hung"} : Becomes(m)
  /\ UNCHANGED <<driverVars, net_urcs, dev_urcs, calm, lost>>

BecomeCalm ==
  /\ ~calm /\ calm' = TRUE
  /\ UNCHANGED <<driverVars, modemVars, net_urcs, dev_urcs, lost>>

-----------------------------------------------------------------------------
Call ==
  \/ \E c \in ApiCalls : CallInitialize(c) \/ CallPower(c) \/ CallStorage(c)
  \/ CallSetup \/ CallSendAt

Service == ServiceSendAt \/ ServiceHandleUrc \/ DropService

Driver ==
  \/ HardReset \/ PowerIsOn \/ PowerFailed \/ PowerAgain
  \/ HardPowerOff \/ SoftPowerOff \/ FactoryReset \/ PowerState \/ ApiAt
  \/ Alive \/ Configure1 \/ Configure2 \/ SelectSimCard
  \/ BringUp \/ FullFunctionality \/ EventReporting \/ FinishInit
  \/ ProcessEvents \/ Intervene \/ CheckImsi
  \/ CheckDue \/ CheckNotDue \/ PeriodicCheck
  \/ DefineContext \/ AttachNetwork \/ ActivateContextUpsd \/ ActivateContext
  \/ SocketIngressAll

Environment == ModemReports \/ NetworkDeactivates \/ ModemDies \/ BecomeCalm

Next == Call \/ Service \/ Driver \/ Environment

Spec == Init /\ [][Next]_vars

\* The driver thread runs, whatever the application does.
DriverSpec == Spec /\ WF_vars(Driver)

\* The driver thread runs; the application keeps calling data_service (its doc:
\* "must be called periodically in a loop") and drops what it gets; time
\* passes, so that the periodic check is due again and again.
FairSpec ==
  /\ Spec
  /\ WF_vars(Driver)
  /\ SF_vars(CallInitialize("data_service"))
  /\ WF_vars(DropService)
  /\ SF_vars(CheckDue)

-----------------------------------------------------------------------------
(***************************************************************************)
(* Properties                                                              *)
(***************************************************************************)
\* A DataService exists, or is being made, only on a device that is powered,
\* fully initialised and connected to the network: spin returned Ok and nothing
\* between its test and the hand-over undoes it.
ServiceReady ==
  pc \in ConnectLabels \cup ServiceLabels =>
    power_state = "On" /\ state = "FullyInitialized" /\ conn_state = "Connected"

\* Device.state promises a configured module: whatever died, was reset or was
\* retried, a FullyInitialized device believed to be on talks to a module on
\* which setup_at_commands completed since its last boot.
ConfiguredWhenReady ==
  (state = "FullyInitialized" /\ power_state = "On" /\ modem = "run") => configured

Usable == IF Upsd \/ PsdProfile THEN psd ELSE pdp

\* The application holds a DataService whose context_state is Active only if
\* the modem's data context is up, unless the news of its end is still on the
\* way: the modem died, a deactivation URC is queued, or it never got through.
ContextTruth ==
  (pc \in {"ingress", "service"} /\ context_state = "Active") =>
    \/ Usable \/ modem # "run" \/ lost
    \/ \E i \in 1..Len(net_urcs) : net_urcs[i] = "deactivated"

\* data_service never activates a context it did not define after the last
\* reconfiguration of the module (client.rs:202; AT+CGDCONT is lost with it), on
\* modules without a PSD profile: a +UUPSDD of a profile that is read after
\* setup_at_commands replaces Setup by Activating (network.rs:490).
ContextRedefined == (pc \in {"cgact", "map_q", "psd_act"} /\ ~Upsd) => defined

\* The control loop keeps the promise of the registration logic that module
\* Registration makes in detail.
Fsm == INSTANCE ConnectionFsm
ConnectionPromise == Fsm!Spec

\* A modem that stopped answering does not stay so: enough timeouts pile up for
\* process_events, or is_alive fails in setup_at_commands, and RESET_N is pulsed.
DeadModemIsReset == (modem = "hung") ~> (modem # "hung")

\* Once modem and network behave, repeated data_service calls produce a service,
\* whatever state earlier failures left behind.
ServiceEventually == calm ~> (pc = "service")

\* On a device with a socket set, whose subscription process_events then reads,
\* a full URC channel does not stay full once the modem behaves.
UrcsKeepFlowing == (calm /\ sockets /\ ChannelFull) ~> ~ChannelFull

\* On a board without PWR_ON, power_on and hard_reset call each other until the
\* module is seen to be on (power.rs:122, 156).  Once it behaves that ends, from
\* whatever call it began and also with a module that hangs, since hard_reset pulses
\* RESET_N on the way; a module that is off nothing switches on, and it never ends.
PowerOnReturns == (calm /\ pc \in PowerLabels) ~> (pc \notin PowerLabels \/ modem = "off")
=====
