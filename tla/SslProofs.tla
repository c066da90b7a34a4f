------------------------------ MODULE SslProofs ------------------------------
(***************************************************************************)
(* Type correctness and the safety properties of Ssl, for every set of     *)
(* profiles, names, contents and hosts, and for every length.              *)
(***************************************************************************)
EXTENDS Ssl, TLAPS

-----------------------------------------------------------------------------
\* What a command of the driver can do to the module: Execute, or nothing, or it is
\* taken for data.  The two lemmas keep the replies out of the invariance proofs.
Taken == /\ need > 0 /\ swallowed' = TRUE /\ profiles' = profiles
         /\ need' \in 0..MaxSize /\ dirty' = (need' > 0)
         /\ target' = IF need' > 0 THEN target ELSE None
         /\ store' = store \/ (need' = 0 /\ store' = [store EXCEPT ![target] = Garbage])

\* A swallowed input changes only what is awaited and the slot it is awaited for, and
\* is answered OK only when nothing is awaited any more.
LEMMA SwallowTakes ==
  ASSUME NEW n \in 0..MaxSize, NEW r, Swallow(n, r)
  PROVE  Taken /\ (r = "ok" => need' = 0)
  BY DEF Swallow, Taken

\* The payload is stored, has no effect, or is swallowed; an OK means that the module
\* waited for data.
LEMMA PayloadStores ==
  ASSUME TypeOK, NEW c \in Contents, NEW r, Payload(c, r)
  PROVE  \/ Unheard /\ r # "ok"
         \/ /\ need > 0 /\ ~dirty /\ Size[c] = need
            /\ need' = 0 /\ target' = None /\ store' = [store EXCEPT ![target] = c]
            /\ UNCHANGED <<dirty, profiles, swallowed>>
         \/ (dirty \/ Size[c] # need) /\ Taken
  <1>1. Size[c] \in 1..MaxSize /\ need \in 0..MaxSize /\ MaxSize \in Nat
    BY SizeAssumption DEF TypeOK
  <1>2. CASE need = 0 /\ r \in {"error", "timeout"} /\ Unheard
    BY <1>2
  <1>3. CASE ~calm /\ r = "timeout" /\ Unheard
    BY <1>3
  <1>4. CASE /\ need > 0 /\ ~dirty /\ Size[c] = need
             /\ r = "ok" \/ (r = "timeout" /\ ~calm)
             /\ need' = 0 /\ target' = None /\ store' = [store EXCEPT ![target] = c]
             /\ UNCHANGED <<dirty, profiles, swallowed>>
    BY <1>4
  <1>5. CASE /\ need > 0 /\ (dirty \/ Size[c] # need)
             /\ Swallow(IF need > Size[c] THEN need - Size[c] ELSE 0, r)
    <2>1. (IF need > Size[c] THEN need - Size[c] ELSE 0) \in 0..MaxSize
      BY <1>1
    <2> QED BY <1>5, <2>1, SwallowTakes
  <1> QED BY <1>2, <1>3, <1>4, <1>5 DEF Payload

-----------------------------------------------------------------------------
(***************************************************************************)
(* The inductive invariant.  Before the payload is sent the module either  *)
(* waits for exactly it, or reads commands and will refuse it; this is why *)
(* an OK to the payload can be trusted and an OK to the first command      *)
(* cannot.                                                                 *)
(***************************************************************************)
AwaitsPayload ==
  pc = "data" => \/ need = 0
                 \/ ~dirty /\ target = <<call.kind, call.name>> /\ need = Size[call.content]

StoredFirst ==
  pc = "reference" => /\ store[<<call.kind, call.name>>] = call.content
                      /\ need = 0

\* What the commands of enable_ssl have set so far.
SetSoFar ==
  (~swallowed /\ call.op = "enable") =>
    LET p == profiles[call.profile] IN
    /\ (pc \in {"cipher", "host", "sni"} \/ result = "ok") => p.level = "validity_date"
    /\ (pc \in {"host", "sni"} \/ result = "ok") => p.cipher = "automatic"
    /\ (pc = "sni" \/ result = "ok") => p.host = call.host
    /\ result = "ok" => p.sni = call.sni

Running == pc # "idle" => result = "none"

IInv == TypeOK /\ AwaitsPayload /\ StoredFirst /\ SetSoFar /\ Running
        /\ ImportedWhole /\ NoDanglingReference

\* The steps of the driver that the invariant allows, apart from what the module does.
Moves ==
  /\ UNCHANGED <<call, calm>>
  /\ pc' \in {"idle", "data", "reference", "cipher", "host", "sni"}
  /\ pc' \in {"data", "reference"} => call.op = "import"
  /\ pc' \in {"cipher", "host", "sni"} => call.op = "enable"
  /\ result' \in {"none", "ok", "err"} /\ (pc' # "idle" => result' = "none")

\* A reference that was good stays good while nothing is erased.
LEMMA ReferencesKept ==
  ASSUME TypeOK, NoDanglingReference, profiles' = profiles,
         \A s \in Slots : store[s] # None => store'[s] # None
  PROVE  NoDanglingReference'
  BY DEF TypeOK, NoDanglingReference, ProfileSettings, Slots

\* A command that had no effect ends the call.
LEMMA UnheardKeeps ==
  ASSUME IInv, Unheard, UNCHANGED <<call, calm>>, pc' = "idle", result' = "err"
  PROVE  IInv'
  <1> USE DEF IInv
  <1>1. TypeOK'
    BY DEF Unheard, promptVars, TypeOK
  <1>2. NoDanglingReference'
    BY ReferencesKept DEF Unheard
  <1> QED BY <1>1, <1>2 DEF AwaitsPayload, StoredFirst, SetSoFar, Running, ImportedWhole

\* A command that was taken for data keeps the invariant, even when the driver believes
\* it was carried out: what follows of the call is refused, or its result is not claimed.
LEMMA TakenKeeps ==
  ASSUME IInv, Taken, Moves, pc' = "data" => need' = 0, pc' # "reference",
         result' = "ok" => call.op = "enable"
  PROVE  IInv'
  <1> USE DEF IInv
  <1>1. target \in Slots
    BY DEF Taken, TypeOK
  <1>2. store' \in [Slots -> Contents \cup {None, Garbage}]
    BY <1>1 DEF Taken, TypeOK
  <1>3. TypeOK'
    <2>1. need' > 0 => target' \in Slots
      BY <1>1 DEF Taken
    <2>2. target' \in Slots \cup {None}
      BY <1>1 DEF Taken
    <2>3. dirty' \in BOOLEAN /\ swallowed' \in BOOLEAN /\ calm' \in BOOLEAN
      BY DEF Taken, Moves, TypeOK
    <2>4. need' \in 0..MaxSize /\ profiles' \in [Profiles -> ProfileSettings]
      BY DEF Taken, TypeOK
    <2>5. call' \in Calls
      BY DEF Moves, TypeOK
    <2> QED BY <1>2, <2>1, <2>2, <2>3, <2>4, <2>5 DEF Moves, TypeOK
  <1>4. NoDanglingReference'
    <2>1. \A s \in Slots : store[s] # None => store'[s] # None
      BY <1>1, SizeAssumption DEF Taken, TypeOK
    <2> QED BY <2>1, ReferencesKept DEF Taken
  <1>5. AwaitsPayload' /\ StoredFirst' /\ Running'
    BY DEF Moves, AwaitsPayload, StoredFirst, Running
  <1>6. SetSoFar'
    BY DEF Taken, SetSoFar
  <1>7. ImportedWhole'
    BY DEF Moves, ImportedWhole, Calls, TypeOK
  <1> QED BY <1>3, <1>4, <1>5, <1>6, <1>7

-----------------------------------------------------------------------------
\* Initially nothing is stored, referred to or awaited.
LEMMA InitInv ==
  ASSUME Init
  PROVE  IInv
  <1>1. /\ Factory \in ProfileSettings /\ Chosen \in ProfileSettings
        /\ \A k \in Kinds : Factory.ref[k] = None /\ Chosen.ref[k] = None
    BY DEF Factory, Chosen, ProfileSettings
  <1>2. TypeOK
    <2>1. profiles \in [Profiles -> ProfileSettings]
      BY <1>1 DEF Init
    <2>2. store \in [Slots -> Contents \cup {None, Garbage}]
      BY DEF Init
    <2>3. dirty \in BOOLEAN /\ calm \in BOOLEAN /\ swallowed \in BOOLEAN
      BY DEF Init
    <2>4. need \in 0..MaxSize /\ ~(need > 0)
      BY SizeAssumption DEF Init
    <2> QED BY <2>1, <2>2, <2>3, <2>4 DEF Init, TypeOK
  <1>3. NoDanglingReference
    BY <1>1 DEF Init, NoDanglingReference
  <1> QED BY <1>2, <1>3 DEF Init, IInv, AwaitsPayload, StoredFirst, SetSoFar, Running,
                            ImportedWhole

\* A call begins: nothing is claimed yet.
LEMMA BeginKeeps ==
  ASSUME IInv, NEW first \in {"prepare", "level"}, Begin(first), call' \in Calls,
         call'.op = IF first = "prepare" THEN "import" ELSE "enable"
  PROVE  IInv'
  <1> USE DEF IInv, Begin, promptVars
  <1>1. TypeOK'
    BY DEF TypeOK
  <1>2. NoDanglingReference'
    BY ReferencesKept
  <1> QED BY <1>1, <1>2 DEF AwaitsPayload, StoredFirst, SetSoFar, Running, ImportedWhole

\* PrepareSecurityDataImport: the module awaits exactly the payload, or nothing.
LEMMA PrepareKeeps ==
  ASSUME IInv, PrepareImport
  PROVE  IInv'
  <1>1. PICK r \in {"ok", "error", "timeout"} :
          /\ Command(/\ need' = DataSize(call.content)
                     /\ target' = <<call.kind, call.name>>
                     /\ dirty' = FALSE /\ UNCHANGED <<store, profiles>>, r)
          /\ Proceed(r, "data")
    BY DEF PrepareImport
  <1>2. /\ pc = "prepare" /\ UNCHANGED <<call, calm>>
        /\ TypeOK /\ call.op = "import" /\ call \in Calls
    BY DEF PrepareImport, IInv, TypeOK
  <1>3. /\ call.kind \in Kinds /\ call.name \in Names /\ call.content \in Contents
        /\ <<call.kind, call.name>> \in Slots
    BY <1>2 DEF Calls, Slots
  <1>4. Moves /\ result' # "ok" /\ pc' \in {"idle", "data"}
    BY <1>1, <1>2 DEF Proceed, Moves
  <1>5. CASE /\ need = 0 /\ need' = DataSize(call.content)
             /\ target' = <<call.kind, call.name>>
             /\ dirty' = FALSE /\ UNCHANGED <<store, profiles>> /\ UNCHANGED swallowed
    <2>1. need' \in 0..MaxSize /\ need' = Size[call.content]
      BY <1>3, <1>5, SizeAssumption DEF DataSize
    <2>2. TypeOK'
      BY <1>2, <1>3, <1>4, <1>5, <2>1 DEF TypeOK, Moves
    <2>3. NoDanglingReference'
      BY <1>2, <1>5, ReferencesKept DEF IInv
    <2>4. AwaitsPayload'
      BY <1>2, <1>5, <2>1 DEF AwaitsPayload
    <2>5. StoredFirst' /\ SetSoFar' /\ Running' /\ ImportedWhole'
      BY <1>2, <1>4 DEF StoredFirst, SetSoFar, Running, ImportedWhole, Moves
    <2> QED BY <2>2, <2>3, <2>4, <2>5 DEF IInv
  <1>6. CASE ~calm /\ r \in {"error", "timeout"} /\ Unheard
    <2>1. pc' = "idle" /\ result' = "err"
      BY <1>1, <1>6 DEF Proceed
    <2> QED BY <1>2, <1>6, <2>1, UnheardKeeps
  <1>7. CASE \E n \in 0..MaxSize : n < need /\ Swallow(n, r)
    <2>1. Taken /\ (r = "ok" => need' = 0)
      BY <1>7, SwallowTakes
    <2>2. pc' = "data" => need' = 0
      BY <1>1, <2>1 DEF Proceed
    <2> QED BY <1>4, <2>1, <2>2, TakenKeeps
  <1> QED BY <1>1, <1>5, <1>6, <1>7 DEF Command

\* SendSecurityDataImport: an OK means that the caller's content is in the caller's slot.
LEMMA SendKeeps ==
  ASSUME IInv, SendImport
  PROVE  IInv'
  <1>1. PICK r \in {"ok", "error", "timeout"} :
          Payload(call.content, r) /\ Proceed(r, "reference")
    BY DEF SendImport
  <1>2. /\ pc = "data" /\ UNCHANGED <<call, calm>>
        /\ TypeOK /\ call.op = "import" /\ call \in Calls
    BY DEF SendImport, IInv, TypeOK
  <1>3. /\ call.kind \in Kinds /\ call.name \in Names /\ call.content \in Contents
        /\ <<call.kind, call.name>> \in Slots
    BY <1>2 DEF Calls, Slots
  <1>4. Moves /\ result' # "ok" /\ pc' \in {"idle", "reference"}
    BY <1>1, <1>2 DEF Proceed, Moves
  <1>5. CASE Unheard /\ r # "ok"
    <2>1. pc' = "idle" /\ result' = "err"
      BY <1>1, <1>5 DEF Proceed
    <2> QED BY <1>2, <1>5, <2>1, UnheardKeeps
  <1>6. CASE /\ need > 0 /\ ~dirty /\ Size[call.content] = need
             /\ need' = 0 /\ target' = None
             /\ store' = [store EXCEPT ![target] = call.content]
             /\ UNCHANGED <<dirty, profiles, swallowed>>
    <2>1. target = <<call.kind, call.name>>
      BY <1>2, <1>6 DEF IInv, AwaitsPayload, TypeOK
    <2>2. /\ store' \in [Slots -> Contents \cup {None, Garbage}]
          /\ store'[<<call.kind, call.name>>] = call.content
      BY <1>2, <1>3, <1>6, <2>1 DEF TypeOK
    <2>3. TypeOK'
      BY <1>2, <1>4, <1>6, <2>2, SizeAssumption DEF TypeOK, Moves
    <2>4. \A s \in Slots : store[s] # None => store'[s] # None
      BY <1>2, <1>3, <1>6, SizeAssumption DEF TypeOK
    <2>5. NoDanglingReference'
      BY <1>2, <1>6, <2>4, ReferencesKept DEF IInv
    <2>6. StoredFirst'
      BY <1>2, <1>6, <2>2 DEF StoredFirst
    <2>7. AwaitsPayload' /\ SetSoFar' /\ Running' /\ ImportedWhole'
      BY <1>2, <1>4 DEF AwaitsPayload, SetSoFar, Running, ImportedWhole, Moves
    <2> QED BY <2>3, <2>5, <2>6, <2>7 DEF IInv
  <1>7. CASE (dirty \/ Size[call.content] # need) /\ Taken
    BY <1>2, <1>7 DEF IInv, AwaitsPayload, Taken, TypeOK
  <1> QED BY <1>1, <1>2, <1>3, <1>5, <1>6, <1>7, PayloadStores

\* SecurityProfileManager at the end of an import: the name it sets has its content.
LEMMA ReferenceKeeps ==
  ASSUME IInv, SetReference
  PROVE  IInv'
  <1> DEFINE P   == Referring(profiles[call.profile], call.kind, call.name)
             Set == [profiles EXCEPT ![call.profile] = P]
  <1>1. PICK r \in {"ok", "error", "timeout"} :
          /\ Command(profiles' = Set /\ UNCHANGED <<promptVars, store>>, r)
          /\ Proceed(r, "idle")
    BY DEF SetReference, SetProfile
  <1>2. /\ pc = "reference" /\ UNCHANGED <<call, calm>>
        /\ TypeOK /\ call.op = "import" /\ call \in Calls
    BY DEF SetReference, SetProfile, IInv, TypeOK
  <1>3. /\ call.kind \in Kinds /\ call.name \in Names /\ call.content \in Contents
        /\ call.profile \in Profiles
    BY <1>2 DEF Calls
  <1>4. need = 0 /\ store[<<call.kind, call.name>>] = call.content
    BY <1>2 DEF IInv, StoredFirst
  <1>5. CASE profiles' = Set /\ UNCHANGED <<promptVars, store>> /\ UNCHANGED swallowed
    <2>1. pc' = "idle" /\ result' \in {"ok", "err"}
      BY <1>1 DEF Proceed
    <2>2. Set \in [Profiles -> ProfileSettings] /\ Set[call.profile].ref[call.kind] = call.name
      <3>1. profiles[call.profile] \in ProfileSettings
        BY <1>2, <1>3 DEF TypeOK
      <3>2. P \in ProfileSettings /\ P.ref[call.kind] = call.name
        BY <1>3, <3>1 DEF Referring, ProfileSettings
      <3> QED BY <1>2, <1>3, <3>2 DEF TypeOK
    <2>3. TypeOK'
      BY <1>2, <1>5, <2>1, <2>2 DEF TypeOK, promptVars
    <2>4. NoDanglingReference'
      <3> SUFFICES ASSUME NEW p \in Profiles, NEW k \in Kinds, Set[p].ref[k] # None
                   PROVE  store[<<k, Set[p].ref[k]>>] # None
        BY <1>5 DEF NoDanglingReference
      <3>1. CASE p = call.profile /\ k = call.kind
        BY <1>3, <1>4, <2>2, <3>1, SizeAssumption
      <3>2. CASE ~(p = call.profile /\ k = call.kind)
        <4>1. Set[p].ref[k] = profiles[p].ref[k]
          <5>1. CASE p # call.profile
            BY <1>2, <1>3, <5>1 DEF TypeOK
          <5>2. CASE p = call.profile /\ k # call.kind
            <6>1. profiles[p] \in ProfileSettings
              BY <1>2 DEF TypeOK
            <6>2. P.ref[k] = profiles[p].ref[k]
              BY <1>3, <5>2, <6>1 DEF Referring, ProfileSettings
            <6> QED BY <1>2, <1>3, <5>2, <6>2 DEF TypeOK
          <5> QED BY <3>2, <5>1, <5>2
        <4> QED BY <4>1 DEF IInv, NoDanglingReference
      <3> QED BY <3>1, <3>2
    <2>5. ImportedWhole'
      BY <1>2, <1>4, <1>5, <2>2 DEF ImportedWhole, promptVars
    <2>6. AwaitsPayload' /\ StoredFirst' /\ SetSoFar' /\ Running'
      BY <1>2, <2>1 DEF AwaitsPayload, StoredFirst, SetSoFar, Running
    <2> QED BY <2>3, <2>4, <2>5, <2>6 DEF IInv
  <1>6. CASE ~calm /\ r \in {"error", "timeout"} /\ Unheard
    <2>1. pc' = "idle" /\ result' = "err"
      BY <1>1, <1>6 DEF Proceed
    <2> QED BY <1>2, <1>6, <2>1, UnheardKeeps
  <1>7. ~ \E n \in 0..MaxSize : n < need /\ Swallow(n, r)
    BY <1>4
  <1> QED BY <1>1, <1>5, <1>6, <1>7 DEF Command

\* One SecurityProfileManager of enable_ssl, given that its settings agree with the call
\* as far as the call has come.
LEMMA SettingKeeps ==
  ASSUME IInv, NEW at \in {"level", "cipher", "host", "sni"},
         NEW next \in {"cipher", "host", "sni", "idle"},
         NEW s \in ProfileSettings, s.ref = profiles[call.profile].ref,
         SetProfile(at, s, next),
         ~swallowed => s.level = "validity_date",
         (~swallowed /\ next # "cipher") => s.cipher = "automatic",
         (~swallowed /\ next \in {"sni", "idle"}) => s.host = call.host,
         (~swallowed /\ next = "idle") => s.sni = call.sni
  PROVE  IInv'
  <1> DEFINE Set == [profiles EXCEPT ![call.profile] = s]
  <1>1. PICK r \in {"ok", "error", "timeout"} :
          /\ Command(profiles' = Set /\ UNCHANGED <<promptVars, store>>, r)
          /\ Proceed(r, next)
    BY DEF SetProfile
  <1>2. /\ pc = at /\ UNCHANGED <<call, calm>>
        /\ TypeOK /\ call.op = "enable" /\ call \in Calls
    BY DEF SetProfile, IInv, TypeOK
  <1>3. call.profile \in Profiles
    BY <1>2 DEF Calls
  <1>4. Moves /\ pc' \in {"idle", next}
    BY <1>1, <1>2 DEF Proceed, Moves
  <1>5. CASE profiles' = Set /\ UNCHANGED <<promptVars, store>> /\ UNCHANGED swallowed
    <2>1. Set \in [Profiles -> ProfileSettings] /\ Set[call.profile] = s
      BY <1>2, <1>3 DEF TypeOK
    <2>2. TypeOK'
      BY <1>2, <1>4, <1>5, <2>1 DEF TypeOK, promptVars, Moves
    <2>3. NoDanglingReference'
      <3>1. \A p \in Profiles : Set[p].ref = profiles[p].ref
        BY <1>2, <1>3, <2>1 DEF TypeOK
      <3> QED BY <1>5, <3>1 DEF IInv, NoDanglingReference
    <2>4. SetSoFar'
      <3>1. (result' = "ok") => next = "idle"
        BY <1>1 DEF Proceed
      <3>2. profiles'[call'.profile] = s /\ call' = call /\ swallowed' = swallowed
        BY <1>2, <1>5, <2>1
      <3>3. ~swallowed => /\ s.level = "validity_date"
                          /\ (pc' \in {"host", "sni"} \/ result' = "ok") => s.cipher = "automatic"
                          /\ (pc' = "sni" \/ result' = "ok") => s.host = call.host
                          /\ result' = "ok" => s.sni = call.sni
        BY <1>4, <3>1
      <3> QED BY <3>2, <3>3 DEF SetSoFar
    <2>5. AwaitsPayload' /\ StoredFirst' /\ Running' /\ ImportedWhole'
      BY <1>2, <1>4 DEF AwaitsPayload, StoredFirst, Running, ImportedWhole, Moves
    <2> QED BY <2>2, <2>3, <2>4, <2>5 DEF IInv
  <1>6. CASE ~calm /\ r \in {"error", "timeout"} /\ Unheard
    <2>1. pc' = "idle" /\ result' = "err"
      BY <1>1, <1>6 DEF Proceed
    <2> QED BY <1>2, <1>6, <2>1, UnheardKeeps
  <1>7. CASE \E n \in 0..MaxSize : n < need /\ Swallow(n, r)
    <2>1. Taken
      BY <1>7, SwallowTakes
    <2> QED BY <1>2, <1>4, <2>1, TakenKeeps
  <1> QED BY <1>1, <1>5, <1>6, <1>7 DEF Command

\* The four commands of enable_ssl, each on what the ones before it have set.
LEMMA EnableKeeps ==
  ASSUME IInv, SetLevel \/ SetCipher \/ SetHost \/ SetSni
  PROVE  IInv'
  <1> DEFINE p == profiles[call.profile]
  <1>1. call \in Calls /\ p \in ProfileSettings /\ result \in {"none", "ok", "err"}
    <2>1. pc \in {"level", "cipher", "host", "sni"}
      BY DEF SetLevel, SetCipher, SetHost, SetSni, SetProfile
    <2> QED BY <2>1 DEF IInv, TypeOK, Calls
  <1>2. pc \in {"level", "cipher", "host", "sni"} =>
          call.op = "enable" /\ call.host \in Hosts /\ call.sni \in Hosts \cup {None}
    BY <1>1 DEF IInv, TypeOK, Calls
  <1>3. CASE SetLevel
    <2> DEFINE s == [p EXCEPT !.level = "validity_date"]
    <2>1. s \in ProfileSettings /\ s.ref = p.ref /\ s.level = "validity_date"
      BY <1>1 DEF ProfileSettings
    <2>2. SetProfile("level", s, "cipher")
      BY <1>3 DEF SetLevel
    <2> HIDE DEF s
    <2> QED BY <2>1, <2>2, SettingKeeps
  <1>4. CASE SetCipher
    <2> DEFINE s == [p EXCEPT !.cipher = "automatic"]
    <2>1. s \in ProfileSettings /\ s.ref = p.ref /\ s.level = p.level /\ s.cipher = "automatic"
      BY <1>1 DEF ProfileSettings
    <2>2. SetProfile("cipher", s, "host")
      BY <1>4 DEF SetCipher
    <2>3. pc = "cipher"
      BY <2>2 DEF SetProfile
    <2>4. ~swallowed => s.level = "validity_date"
      BY <1>2, <2>1, <2>3 DEF IInv, SetSoFar
    <2> HIDE DEF s
    <2> QED BY <2>1, <2>2, <2>4, SettingKeeps
  <1>5. CASE SetHost
    <2> DEFINE s == [p EXCEPT !.host = call.host]
    <2>1. SetProfile("host", s, "sni")
      BY <1>5 DEF SetHost
    <2>2. pc = "host"
      BY <2>1 DEF SetProfile
    <2>3. /\ s \in ProfileSettings /\ s.ref = p.ref /\ s.level = p.level
          /\ s.cipher = p.cipher /\ s.host = call.host
      BY <1>1, <1>2, <2>2 DEF ProfileSettings
    <2>4. ~swallowed => s.level = "validity_date" /\ s.cipher = "automatic"
      BY <1>2, <2>2, <2>3 DEF IInv, SetSoFar
    <2> HIDE DEF s
    <2> QED BY <2>1, <2>3, <2>4, SettingKeeps
  <1>6. CASE SetSni
    <2> DEFINE s == [p EXCEPT !.sni = call.sni]
    <2>1. SetProfile("sni", s, "idle")
      BY <1>6 DEF SetSni
    <2>2. pc = "sni"
      BY <2>1 DEF SetProfile
    <2>3. /\ s \in ProfileSettings /\ s.ref = p.ref /\ s.level = p.level
          /\ s.cipher = p.cipher /\ s.host = p.host /\ s.sni = call.sni
      BY <1>1, <1>2, <2>2 DEF ProfileSettings
    <2>4. ~swallowed => s.level = "validity_date" /\ s.cipher = "automatic" /\ s.host = call.host
      BY <1>2, <2>2, <2>3 DEF IInv, SetSoFar
    <2> HIDE DEF s
    <2> QED BY <2>1, <2>3, <2>4, SettingKeeps
  <1> QED BY <1>3, <1>4, <1>5, <1>6

\* Every step keeps the invariant: one step of the proof per action.
LEMMA NextInv ==
  ASSUME IInv, [Next]_vars
  PROVE  IInv'
  <1>1. CASE ImportCertificate \/ ImportRootCa \/ ImportPrivateKey
    <2>1. Begin("prepare") /\ call' \in Calls /\ call'.op = "import"
      BY <1>1 DEF ImportCertificate, ImportRootCa, ImportPrivateKey, Import
    <2> QED BY <2>1, BeginKeeps
  <1>2. CASE EnableSsl
    <2>1. Begin("level") /\ call' \in Calls /\ call'.op = "enable"
      BY <1>2 DEF EnableSsl
    <2> QED BY <2>1, BeginKeeps
  <1>3. CASE Driver
    BY <1>3, PrepareKeeps, SendKeeps, ReferenceKeeps, EnableKeeps DEF Driver
  <1>4. CASE Restart
    <2>1. profiles' \in [Profiles -> ProfileSettings]
      BY <1>4 DEF Restart, Factory, ProfileSettings, IInv, TypeOK
    <2>2. TypeOK'
      <3>0. need' = 0 /\ dirty' = FALSE
        BY <1>4 DEF Restart
      <3>1. need' \in 0..MaxSize /\ ~(need' > 0) /\ dirty' \in BOOLEAN
        <4>1. need' \in 0..MaxSize /\ ~(need' > 0)
          BY <3>0, SizeAssumption
        <4> QED BY <3>0, <4>1
      <3>2. UNCHANGED <<pc, call, store, calm, swallowed>> /\ result' = "none" /\ target' = None
        BY <1>4 DEF Restart
      <3> QED BY <2>1, <3>1, <3>2 DEF IInv, TypeOK
    <2>3. NoDanglingReference'
      BY <1>4 DEF Restart, Factory, IInv, NoDanglingReference
    <2>4. pc' = "idle" /\ result' = "none"
      BY <1>4 DEF Restart
    <2>5. AwaitsPayload' /\ StoredFirst' /\ SetSoFar' /\ Running' /\ ImportedWhole'
      BY <2>4 DEF AwaitsPayload, StoredFirst, SetSoFar, Running, ImportedWhole
    <2> QED BY <2>2, <2>3, <2>5 DEF IInv
  <1>5. CASE BecomeCalm \/ UNCHANGED vars
    <2>1. UNCHANGED <<pc, call, result, need, target, dirty, store, profiles, swallowed>>
          /\ calm' \in BOOLEAN
      BY <1>5 DEF BecomeCalm, vars, promptVars, IInv, TypeOK
    <2>2. TypeOK'
      BY <2>1 DEF IInv, TypeOK
    <2>3. NoDanglingReference' /\ ImportedWhole'
      BY <2>1 DEF IInv, NoDanglingReference, ImportedWhole
    <2> QED BY <2>1, <2>2, <2>3 DEF IInv, AwaitsPayload, StoredFirst, SetSoFar, Running
  <1> QED BY <1>1, <1>2, <1>3, <1>4, <1>5 DEF Next

-----------------------------------------------------------------------------
\* Spec keeps the inductive invariant.
LEMMA Invariance == Spec => []IInv
  <1>1. Init => IInv
    BY InitInv
  <1>2. IInv /\ [Next]_vars => IInv'
    BY NextInv
  <1> QED BY <1>1, <1>2, PTL DEF Spec

\* Type correctness of ssl.rs and of the module's prompt, for all contents and lengths.
THEOREM TypeCorrect == Spec => []TypeOK
  <1>1. IInv => TypeOK
    BY DEF IInv
  <1> QED BY <1>1, Invariance, PTL

\* An import that returned Ok is complete, whatever broke off before it.
THEOREM ImportIsWhole == Spec => []ImportedWhole
  <1>1. IInv => ImportedWhole
    BY DEF IInv
  <1> QED BY <1>1, Invariance, PTL

\* No profile ever refers to data the module does not have.
THEOREM NothingDangles == Spec => []NoDanglingReference
  <1>1. IInv => NoDanglingReference
    BY DEF IInv
  <1> QED BY <1>1, Invariance, PTL

\* An enable_ssl that returned Ok, none of whose commands was taken for data, set up
\* the whole profile.
THEOREM EnableIsExact == Spec => []EnabledExactly
  <1>1. IInv => EnabledExactly
    BY DEF IInv, SetSoFar, EnabledExactly
  <1> QED BY <1>1, Invariance, PTL
=============================================================================
