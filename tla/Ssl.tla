-------------------------------- MODULE Ssl --------------------------------
(***************************************************************************)
(* The SSL trait of a DataService (services/data/ssl.rs): certificates and *)
(* keys are imported by three commands, a security profile is set up by    *)
(* four, and every command may be the last one that gets through.          *)
(*                                                                         *)
(* After AT+USECMNG=0 the module prompts for a number of bytes and takes   *)
(* whatever it is sent for them, also the next command when the prompt was *)
(* lost.  Names and contents are atoms; how many bytes a command line has  *)
(* is left open.  handle_urc, which each of these commands calls first, is *)
(* part of module Device and touches nothing here.                         *)
(***************************************************************************)
EXTENDS Naturals

CONSTANTS
  Profiles,   \* SecurityProfileId
  Names,      \* internal names (shorter than 200 bytes, as the code asserts)
  Contents,   \* certificates and keys
  Size,       \* their lengths
  MaxSize,    \* the module's limit on them
  Hosts,      \* server host names
  None,       \* no name, nothing
  Garbage     \* content that no caller passed

ASSUME SizeAssumption ==
  /\ MaxSize \in Nat /\ Size \in [Contents -> 1..MaxSize]
  /\ None \notin Names \cup Hosts \cup Contents /\ Garbage \notin Contents \cup {None}

VARIABLES
  pc,        \* the command to send next, or "idle"
  call,      \* the arguments of the latest call
  result,    \* its result: "none" while it runs
  need,      \* bytes the module waits for; 0: it reads commands
  target,    \* what it will store them as; None: nothing
  dirty,     \* did it take something else for part of them?
  store,     \* the module's certificates and keys
  profiles,  \* its security profiles
  calm,      \* from now on every command is answered
  swallowed  \* history: a command of this call was taken for data

promptVars == <<need, target, dirty>>
vars == <<pc, call, result, promptVars, store, profiles, calm, swallowed>>

\* SecurityDataType, and the references a profile holds, one of each type
Kinds == {"TrustedRootCA", "ClientCertificate", "ClientPrivateKey"}
Slots == Kinds \X Names

Calls == [op : {"import"}, profile : Profiles, kind : Kinds, name : Names, content : Contents]
         \cup [op : {"enable"}, profile : Profiles, host : Hosts, sni : Hosts \cup {None}]

ProfileSettings == [ref : [Kinds -> Names \cup {None}], level : {"unchecked", "validity_date"},
                    cipher : {"automatic", "chosen"}, host : Hosts \cup {None}, sni : Hosts \cup {None}]

\* The factory-programmed profile.
Factory == [ref |-> [k \in Kinds |-> None], level |-> "unchecked", cipher |-> "automatic",
            host |-> None, sni |-> None]

\* A cipher suite set by a command of the application (send_at), now or in an earlier run.
Chosen == [Factory EXCEPT !.cipher = "chosen"]

TypeOK ==
  /\ pc \in {"idle", "prepare", "data", "reference", "level", "cipher", "host", "sni"}
  /\ call \in Calls /\ result \in {"none", "ok", "err"}
  /\ pc \in {"prepare", "data", "reference"} => call.op = "import"
  /\ pc \in {"level", "cipher", "host", "sni"} => call.op = "enable"
  /\ need \in 0..MaxSize /\ dirty \in BOOLEAN
  /\ target \in Slots \cup {None} /\ (need > 0 => target \in Slots)
  /\ store \in [Slots -> Contents \cup {None, Garbage}]
  /\ profiles \in [Profiles -> ProfileSettings]
  /\ calm \in BOOLEAN /\ swallowed \in BOOLEAN

Init ==
  /\ pc = "idle" /\ call \in Calls /\ result = "none"
  /\ need = 0 /\ target = None /\ dirty = FALSE
  /\ store = [s \in Slots |-> None]
  /\ profiles \in [Profiles -> {Factory, Chosen}]
  /\ calm = FALSE /\ swallowed = FALSE

-----------------------------------------------------------------------------
(***************************************************************************)
(* The module and the line (external).  r is the reply the driver sees.    *)
(***************************************************************************)
Unheard == UNCHANGED <<promptVars, store, profiles, swallowed>>

\* The module takes a command, or a payload that is not the awaited one, for data
\* and then still waits for n bytes.  NoResponse accepts any final OK, so the
\* driver cannot tell this OK from one of its own command.
Swallow(n, r) ==
  /\ need > 0 /\ need' = n /\ dirty' = (n > 0) /\ swallowed' = TRUE
  /\ target' = IF n > 0 THEN target ELSE None
  /\ \/ n > 0 /\ r = "timeout" /\ UNCHANGED store
     \/ n = 0 /\ r = "error" /\ UNCHANGED store
     \/ /\ n = 0 /\ (r = "ok" \/ (r = "timeout" /\ ~calm))
        /\ store' = [store EXCEPT ![target] = Garbage]
  /\ UNCHANGED profiles

\* A command line: carried out, lost on the way or refused, or taken for data.
Command(Execute, r) ==
  \/ need = 0 /\ Execute /\ (r = "ok" \/ (r = "timeout" /\ ~calm)) /\ UNCHANGED swallowed
  \/ ~calm /\ r \in {"error", "timeout"} /\ Unheard
  \/ \E n \in 0..MaxSize : n < need /\ Swallow(n, r)

\* The bytes of content c.  A module that reads commands cannot make sense of them.
Payload(c, r) ==
  \/ need = 0 /\ r \in {"error", "timeout"} /\ Unheard
  \/ ~calm /\ r = "timeout" /\ Unheard
  \/ /\ need > 0 /\ ~dirty /\ Size[c] = need
     /\ r = "ok" \/ (r = "timeout" /\ ~calm)
     /\ need' = 0 /\ target' = None /\ store' = [store EXCEPT ![target] = c]
     /\ UNCHANGED <<dirty, profiles, swallowed>>
  \/ /\ need > 0 /\ (dirty \/ Size[c] # need)
     /\ Swallow(IF need > Size[c] THEN need - Size[c] ELSE 0, r)

-----------------------------------------------------------------------------
(***************************************************************************)
(* ssl.rs.                                                                 *)
(***************************************************************************)
Begin(first) ==
  /\ pc = "idle" /\ pc' = first /\ result' = "none" /\ swallowed' = FALSE
  /\ UNCHANGED <<promptVars, store, profiles, calm>>

\* Mutant: the error of a command is dropped (.ok() in place of ?).
ProceedAlways(r, next) ==
  /\ pc' = next
  /\ result' = IF next = "idle" THEN "ok" ELSE "none"

\* The ? after each command.
Proceed(r, next) ==
  /\ pc' = IF r = "ok" THEN next ELSE "idle"
  /\ result' = IF r # "ok" THEN "err" ELSE IF next = "idle" THEN "ok" ELSE "none"

Import(k) ==
  /\ Begin("prepare")
  /\ call' \in {c \in Calls : c.op = "import" /\ c.kind = k}

ImportCertificate == Import("ClientCertificate")
ImportRootCa      == Import("TrustedRootCA")
ImportPrivateKey  == Import("ClientPrivateKey")

\* Mutant: one byte more is announced than is sent.
DataSizeOneMore(c) == Size[c] + 1

\* data_size: certificate.len()
DataSize(c) == Size[c]

PrepareImport ==
  /\ pc = "prepare"
  /\ \E r \in {"ok", "error", "timeout"} :
       /\ Command(/\ need' = DataSize(call.content)
                  /\ target' = <<call.kind, call.name>>
                  /\ dirty' = FALSE /\ UNCHANGED <<store, profiles>>, r)
       /\ Proceed(r, "data")
  /\ UNCHANGED <<call, calm>>

SendImport ==
  /\ pc = "data"
  /\ \E r \in {"ok", "error", "timeout"} : Payload(call.content, r) /\ Proceed(r, "reference")
  /\ UNCHANGED <<call, calm>>

\* AT+USECPRF: one setting of the profile.
SetProfile(at, settings, next) ==
  /\ pc = at
  /\ \E r \in {"ok", "error", "timeout"} :
       /\ Command(/\ profiles' = [profiles EXCEPT ![call.profile] = settings]
                  /\ UNCHANGED <<promptVars, store>>, r)
       /\ Proceed(r, next)
  /\ UNCHANGED <<call, calm>>

Referring(p, k, n) == [p EXCEPT !.ref = [p.ref EXCEPT ![k] = n]]

SetReference ==
  SetProfile("reference", Referring(profiles[call.profile], call.kind, call.name), "idle")

\* use_sni: the host name again, or an empty name
EnableSsl ==
  /\ Begin("level")
  /\ call' \in {c \in Calls : c.op = "enable" /\ c.sni \in {c.host, None}}

SetLevel  == SetProfile("level", [profiles[call.profile] EXCEPT !.level = "validity_date"], "cipher")
SetCipher == SetProfile("cipher", [profiles[call.profile] EXCEPT !.cipher = "automatic"], "host")
SetHost   == SetProfile("host", [profiles[call.profile] EXCEPT !.host = call.host], "sni")
SetSni    == SetProfile("sni", [profiles[call.profile] EXCEPT !.sni = call.sni], "idle")

-----------------------------------------------------------------------------
\* The module restarts between two calls and may forget its profiles.
Restart ==
  /\ pc = "idle" /\ result' = "none"
  /\ need' = 0 /\ target' = None /\ dirty' = FALSE
  /\ profiles' \in {profiles, [p \in Profiles |-> Factory]}
  /\ UNCHANGED <<pc, call, store, calm, swallowed>>

BecomeCalm == ~calm /\ calm' = TRUE
              /\ UNCHANGED <<pc, call, result, promptVars, store, profiles, swallowed>>

Driver == PrepareImport \/ SendImport \/ SetReference \/ SetLevel \/ SetCipher \/ SetHost \/ SetSni

Next == \/ ImportCertificate \/ ImportRootCa \/ ImportPrivateKey \/ EnableSsl
        \/ Driver \/ Restart \/ BecomeCalm

Spec == Init /\ [][Next]_vars

\* A call that began goes on; in the end the line is reliable.
FairSpec == Spec /\ WF_vars(Driver) /\ WF_vars(BecomeCalm)

-----------------------------------------------------------------------------
\* An import that returned Ok stored exactly the caller's content under the caller's
\* name and made the profile refer to it, whatever an earlier import that broke off
\* left the module waiting for (ssl.rs:45-160).
ImportedWhole ==
  (result = "ok" /\ call.op = "import") =>
    /\ store[<<call.kind, call.name>>] = call.content
    /\ profiles[call.profile].ref[call.kind] = call.name
    /\ need = 0

\* A profile refers only to data the module has: the reference is the last command of
\* an import, so breaking off before it leaves no dangling reference (ssl.rs:70, 108, 149).
NoDanglingReference ==
  \A p \in Profiles, k \in Kinds :
    LET n == profiles[p].ref[k] IN n # None => store[<<k, n>>] # None

\* An enable_ssl that returned Ok left no setting of an earlier call or command in the
\* profile, unless the module took one of its commands for the data of an import that
\* broke off (ssl.rs:162-217).
EnabledExactly ==
  (result = "ok" /\ call.op = "enable" /\ ~swallowed) =>
    LET p == profiles[call.profile] IN
    /\ p.level = "validity_date" /\ p.cipher = "automatic"
    /\ p.host = call.host /\ p.sni = call.sni

\* Importing again cures an import that broke off: once the line is reliable, an
\* application that keeps importing keeps succeeding, although its first commands may
\* be taken for data (ssl.rs:53-68: the announced length is the length sent).
RetryCures == []<>(pc = "prepare") => []<>(result = "ok" /\ call.op = "import")
=============================================================================
