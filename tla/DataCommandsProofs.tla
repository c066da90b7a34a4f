------------------------- MODULE DataCommandsProofs -------------------------
(***************************************************************************)
(* Type correctness and the safety properties of DataCommands, for every   *)
(* set of sockets, every chunk size and every length of buffer.            *)
(***************************************************************************)
EXTENDS DataCommands, TLAPS

(***************************************************************************)
(* The inductive invariant.  Before a chunk is sent the module waits for   *)
(* exactly it, or for nothing and will refuse it; this is why the response *)
(* to the chunk can be trusted and the OK of the command before it cannot. *)
(***************************************************************************)
AwaitsChunk ==
  pc = "data" => need = 0 \/ (~dirty /\ target = call.socket /\ need = ChunkLen)

\* What the peer has got while a send runs: what is written, and garbage only when
\* nothing is and the call found a prompt open.  Only before its first chunk can such a
\* prompt still be there.
WrittenSoFar ==
  pc \in {"prepare", "data"} =>
    /\ sent = call.len - left
    /\ spoiled => inherited /\ sent = 0
    /\ pc = "prepare" => ~spoiled /\ (need > 0 => inherited /\ sent = 0)
    /\ (pc = "data" /\ need > 0) => ~spoiled

\* A prompt that nobody is about to answer was left by an import or a failed send.
PromptOwned ==
  need > 0 => \/ target = Import \/ target \in failed
              \/ pc = "data" /\ target = call.socket

Running == pc # "idle" => result = "none"

IInv == TypeOK /\ AwaitsChunk /\ WrittenSoFar /\ PromptOwned /\ Running
        /\ SendIsWhole /\ PrefixOnly /\ GarbledWasReported

-----------------------------------------------------------------------------
\* What happens to a command that is taken for data.
Taken == /\ need > 0 /\ need' \in 0..EgressChunk /\ dirty' \in BOOLEAN /\ sent' = sent
         /\ target' = IF need' > 0 THEN target ELSE None
         /\ \/ UNCHANGED <<spoiled, garbled>>
            \/ /\ need' = 0 /\ target # Import
               /\ spoiled' = TRUE /\ garbled' = garbled \cup {target}

\* A swallowed command is answered OK only when nothing is awaited any more.
LEMMA SwallowTakes ==
  ASSUME TypeOK, NEW n \in 0..EgressChunk, n < need, NEW r, Swallow(n, r)
  PROVE  Taken /\ (r = "ok" => need' = 0)
  <1>1. need > 0 /\ need \in Nat /\ n \in Nat /\ 0 \in 0..EgressChunk
    BY CommandsAssumption DEF TypeOK
  <1>2. CASE n > 0 /\ r = "timeout" /\ need' = n /\ dirty' = TRUE /\ UNCHANGED <<target, peerVars>>
    BY <1>1, <1>2 DEF Taken, peerVars
  <1>3. CASE n = 0 /\ Deliver(FALSE, 0)
    <2>1. need' = 0 /\ target' = None /\ dirty' \in BOOLEAN
      BY <1>3 DEF Deliver, EndPrompt
    <2>2. ~(need' > 0) /\ need' \in 0..EgressChunk
      BY <1>1, <2>1
    <2>3. CASE target = Import
      BY <1>1, <1>3, <2>1, <2>2, <2>3 DEF Taken, Deliver, peerVars
    <2>4. CASE target # Import
      BY <1>1, <1>3, <2>1, <2>2, <2>4, Zenon DEF Taken, Deliver, peerVars
    <2> QED BY <2>3, <2>4
  <1>4. CASE n = 0 /\ r = "error" /\ EndPrompt /\ UNCHANGED peerVars
    <2>1. need' = 0 /\ target' = None /\ dirty' \in BOOLEAN
      BY <1>4 DEF EndPrompt
    <2>2. ~(need' > 0) /\ need' \in 0..EgressChunk
      BY <1>1, <2>1
    <2> QED BY <1>1, <1>4, <2>1, <2>2 DEF Taken, peerVars
  <1> QED BY <1>2, <1>3, <1>4 DEF Swallow

\* The chunk reaches the peer it is meant for, or the reply is not OK and nothing
\* reaches any peer.
LEMMA PayloadReaches ==
  ASSUME TypeOK, AwaitsChunk, WrittenSoFar, pc = "data",
         NEW r \in Replies, NEW m \in Reports, Payload(r, m)
  PROVE  \/ Unheard /\ r # "ok"
         \/ EndPrompt /\ UNCHANGED peerVars /\ r # "ok"
         \/ /\ need > 0 /\ EndPrompt /\ m.length \in 0..ChunkLen
            /\ sent' = sent + m.length /\ UNCHANGED <<spoiled, garbled>>
  <1>1. /\ need \in Nat /\ ChunkLen \in Nat /\ left \in Nat /\ call.op = "send"
        /\ call \in Calls
    BY CommandsAssumption DEF TypeOK, ChunkLen
  <1>2. call.socket \in Handles /\ call.socket # Import
    BY <1>1, CommandsAssumption DEF Calls
  <1>3. CASE need = 0
    BY <1>1, <1>3 DEF Payload
  <1>4. CASE need # 0
    <2>1. ~dirty /\ target = call.socket /\ need = ChunkLen /\ need > 0
      BY <1>1, <1>4 DEF AwaitsChunk
    <2>2. sent = call.len - left
      BY DEF WrittenSoFar
    <2>3. CASE ~calm /\ r = "timeout" /\ Unheard
      BY <2>3
    <2>4. CASE ~calm /\ need > 0 /\ r = "error" /\ EndPrompt /\ UNCHANGED peerVars
      BY <2>4
    <2>5. CASE /\ m.length <= need
               /\ Deliver(/\ ~dirty /\ need = ChunkLen /\ target = call.socket
                          /\ sent = call.len - left, m.length)
      <3>1. m.length \in 0..ChunkLen
        BY <1>1, <2>1, <2>5, CommandsAssumption DEF Reports
      <3>2. EndPrompt /\ sent' = sent + m.length /\ UNCHANGED <<spoiled, garbled>>
        BY <1>2, <2>1, <2>2, <2>5 DEF Deliver
      <3> QED BY <2>1, <3>1, <3>2
    <2>6. ~(need = 0) /\ ~(need > ChunkLen)
      BY <1>1, <2>1
    <2> QED BY <2>3, <2>4, <2>5, <2>6, Zenon DEF Payload
  <1> QED BY <1>3, <1>4

-----------------------------------------------------------------------------
\* A command that was lost or taken for data keeps the invariant, even when the driver
\* believes it was carried out: the chunk that follows is refused.
LEMMA MissedKeeps ==
  ASSUME IInv, Taken \/ Unheard, UNCHANGED <<callVars, left>>,
         pc \in {"prepare", "dns", "other"}, pc' \in {"idle", "data"},
         pc' = "data" => pc = "prepare" /\ need' = 0 /\ result' = "none",
         pc' = "idle" => result' \in {"ok", "err"}, result' = "ok" => pc # "prepare",
         failed' \subseteq Handles, failed \subseteq failed'
  PROVE  IInv'
  <1> USE DEF IInv, callVars
  <1>1. need > 0 => target = Import \/ target \in failed
    BY DEF PromptOwned
  <1>2. need' \in 0..EgressChunk /\ target' \in Handles \cup {Import, None}
        /\ (need' > 0 => target' = target /\ target # None /\ need > 0) /\ sent' = sent
    BY DEF Taken, Unheard, promptVars, peerVars, TypeOK
  <1>3. dirty' \in BOOLEAN /\ spoiled' \in BOOLEAN /\ calm' \in BOOLEAN /\ inherited' \in BOOLEAN
    BY DEF Taken, Unheard, promptVars, peerVars, TypeOK
  <1>4. GarbledWasReported'
    BY <1>1 DEF Taken, Unheard, peerVars, GarbledWasReported
  <1>5. TypeOK'
    <2>1. garbled' \subseteq Handles
      BY <1>4 DEF GarbledWasReported
    <2>2. result' \in {"none", "ok", "err"}
      OBVIOUS
    <2>3. pc' \in {"prepare", "data"} => call'.op = "send" /\ left' \in 1..call'.len
      BY DEF TypeOK
    <2>4. left' \in Nat /\ call' \in Calls /\ sent' \in Nat
      BY <1>2 DEF TypeOK
    <2> QED BY <1>2, <1>3, <2>1, <2>2, <2>3, <2>4 DEF TypeOK
  <1>6. pc = "prepare" => /\ sent = call.len - left /\ ~spoiled
                          /\ need > 0 => inherited /\ sent = 0
                          /\ call.op = "send" /\ left \in 1..call.len /\ call.len \in Nat
    BY CommandsAssumption DEF WrittenSoFar, TypeOK, Calls
  <1>7. pc = "prepare" => sent' <= call.len /\ (spoiled' => inherited' /\ sent' = 0)
    <2>1. pc = "prepare" => sent' <= call.len
      BY <1>2, <1>6
    <2>2. CASE Unheard
      BY <1>6, <2>1, <2>2 DEF Unheard, peerVars
    <2>3. CASE Taken
      BY <1>2, <1>6, <2>1, <2>3 DEF Taken
    <2> QED BY <2>2, <2>3
  <1>8. pc # "prepare" => call.op # "send"
    BY DEF TypeOK
  <1>9. PrefixOnly' /\ SendIsWhole'
    BY <1>7, <1>8 DEF PrefixOnly, SendIsWhole
  <1>10. AwaitsChunk' /\ Running'
    BY DEF AwaitsChunk, Running
  <1>11. WrittenSoFar'
    BY <1>2, <1>6, <1>7 DEF WrittenSoFar
  <1>12. PromptOwned'
    BY <1>1, <1>2 DEF PromptOwned
  <1> QED BY <1>4, <1>5, <1>9, <1>10, <1>11, <1>12

-----------------------------------------------------------------------------
\* Initially nothing is awaited and no peer has got anything.
LEMMA InitInv ==
  ASSUME Init
  PROVE  IInv
  <1>1. TypeOK
    <2>1. need \in 0..EgressChunk /\ ~(need > 0) /\ left \in Nat /\ sent \in Nat
      BY CommandsAssumption DEF Init
    <2>2. dirty \in BOOLEAN /\ calm \in BOOLEAN /\ spoiled \in BOOLEAN /\ inherited \in BOOLEAN
      BY DEF Init
    <2> QED BY <2>1, <2>2 DEF Init, TypeOK
  <1>2. PromptOwned
    BY DEF Init, PromptOwned
  <1>3. PrefixOnly
    <2>1. call.op = "send" => call.len \in Nat
      BY CommandsAssumption DEF Init, Calls
    <2>2. sent = 0 /\ ~spoiled
      BY DEF Init
    <2> QED BY <2>1, <2>2 DEF PrefixOnly
  <1> QED BY <1>1, <1>2, <1>3 DEF Init, IInv, AwaitsChunk, WrittenSoFar, Running, SendIsWhole,
                                  GarbledWasReported

\* A call begins, or ends at once: nothing has been written yet.
LEMMA BeginKeeps ==
  ASSUME IInv, Entry, call' \in Calls, left' \in Nat, pc' \in {"idle", "prepare", "dns", "other"},
         pc' = "prepare" => call'.op = "send" /\ left' = call'.len /\ call'.len > 0,
         pc' = "dns" => call'.op \in {"name", "address"},
         pc' = "other" => call'.op = "other",
         result' \in {"none", "ok", "err"}, pc' # "idle" => result' = "none",
         result' = "ok" => call'.op = "send" /\ call'.len = 0
  PROVE  IInv'
  <1> USE DEF IInv, Entry
  <1>1. call'.op = "send" => call'.len \in Nat
    BY CommandsAssumption DEF Calls
  <1>2. TypeOK'
    <2>1. pc' = "prepare" => left' \in 1..call'.len
      BY <1>1
    <2>2. dirty' \in BOOLEAN /\ calm' \in BOOLEAN /\ spoiled' \in BOOLEAN
      BY DEF TypeOK, promptVars
    <2>4. inherited' \in BOOLEAN
      <3>1. (need > 0) \in BOOLEAN
        BY DEF TypeOK
      <3> QED BY <3>1, Zenon
    <2>3. need' \in 0..EgressChunk /\ target' \in Handles \cup {Import, None}
          /\ (need' > 0 => target' # None) /\ sent' \in Nat
      BY DEF TypeOK, promptVars
    <2> QED BY <2>1, <2>2, <2>3, <2>4 DEF TypeOK
  <1>3. PrefixOnly' /\ SendIsWhole'
    BY <1>1 DEF PrefixOnly, SendIsWhole
  <1>4. WrittenSoFar'
    <2>1. need' > 0 => inherited'
      BY DEF promptVars
    <2> QED BY <1>1, <2>1 DEF WrittenSoFar
  <1>5. PromptOwned'
    BY DEF PromptOwned, promptVars
  <1>6. AwaitsChunk' /\ Running' /\ GarbledWasReported'
    BY DEF AwaitsChunk, Running, GarbledWasReported
  <1> QED BY <1>2, <1>3, <1>4, <1>5, <1>6

\* The first command of a chunk: the module awaits exactly the chunk, or nothing.
LEMMA PrepareKeeps ==
  ASSUME IInv, NEW s \in Handles, Prepare(s)
  PROVE  IInv'
  <1>1. PICK r \in Replies :
          /\ Command(need' = Announced /\ target' = s /\ dirty' = FALSE, r)
          /\ Prepared(r)
    BY DEF Prepare
  <1>2. /\ pc = "prepare" /\ call.socket = s /\ UNCHANGED <<callVars, left>>
        /\ call \in Calls /\ call.op = "send" /\ left \in 1..call.len /\ result = "none"
        /\ UNCHANGED <<call, inherited, calm>>
    BY DEF Prepare, callVars, IInv, TypeOK, Running
  <1>3. /\ failed' \subseteq Handles /\ failed \subseteq failed'
        /\ pc' = "data" => r = "ok" /\ result' = "none"
        /\ pc' \in {"idle", "data"} /\ (pc' = "idle" => result' = "err") /\ result' # "ok"
    BY <1>1, <1>2 DEF Prepared, IInv, TypeOK
  <1>4. CASE /\ need = 0 /\ need' = Announced /\ target' = s /\ dirty' = FALSE
             /\ UNCHANGED peerVars /\ r # "error"
    <2>1. left \in Nat /\ EgressChunk \in Nat \ {0} /\ call.len \in Nat
      BY <1>2, CommandsAssumption DEF Calls, IInv, TypeOK
    <2>2. ChunkLen \in 1..EgressChunk /\ need' = ChunkLen /\ ChunkLen' = ChunkLen
      BY <1>2, <1>4, <2>1 DEF ChunkLen, Announced
    <2>3. s \in Handles /\ s # Import /\ s # None
      BY CommandsAssumption
    <2>4. TypeOK'
      <3>1. /\ dirty' \in BOOLEAN /\ calm' \in BOOLEAN
            /\ spoiled' \in BOOLEAN /\ inherited' \in BOOLEAN
        BY <1>2, <1>4 DEF IInv, TypeOK, peerVars
      <3>2. need' \in 0..EgressChunk /\ target' \in Handles /\ target' # None
        BY <1>4, <2>1, <2>2, <2>3
      <3>3. /\ sent' \in Nat /\ garbled' \subseteq Handles /\ left' \in Nat
            /\ call' \in Calls /\ call'.op = "send" /\ left' \in 1..call'.len
        BY <1>2, <1>4, <2>1 DEF IInv, TypeOK, peerVars
      <3>4. pc' \in {"idle", "data"} /\ result' \in {"none", "ok", "err"}
        BY <1>3
      <3> QED BY <1>3, <3>1, <3>2, <3>3, <3>4 DEF TypeOK
    <2>5. AwaitsChunk' /\ Running'
      BY <1>2, <1>3, <1>4, <2>2 DEF AwaitsChunk, Running
    <2>6. sent = call.len - left /\ ~spoiled /\ UNCHANGED <<sent, spoiled, garbled>>
      BY <1>2, <1>4 DEF IInv, WrittenSoFar, peerVars
    <2>7. WrittenSoFar'
      BY <1>2, <1>3, <2>6 DEF WrittenSoFar
    <2>8. PromptOwned'
      <3>1. pc' = "data" \/ s \in failed'
        BY <1>1, <1>2 DEF Prepared
      <3> QED BY <1>2, <1>4, <3>1 DEF PromptOwned
    <2>9. PrefixOnly' /\ SendIsWhole' /\ GarbledWasReported'
      <3>1. sent' <= call'.len
        BY <1>2, <2>1, <2>6
      <3> QED BY <1>2, <1>3, <2>6, <3>1 DEF PrefixOnly, SendIsWhole, IInv, GarbledWasReported
    <2> QED BY <2>4, <2>5, <2>7, <2>8, <2>9 DEF IInv
  <1>5. CASE ~calm /\ r \in {"error", "timeout"} /\ Unheard
    <2>1. pc' # "data"
      BY <1>3, <1>5
    <2> QED BY <1>2, <1>3, <1>5, <2>1, MissedKeeps
  <1>6. CASE \E n \in 0..EgressChunk : n < need /\ Swallow(n, r)
    <2>1. Taken /\ (r = "ok" => need' = 0)
      BY <1>6, SwallowTakes DEF IInv
    <2> QED BY <1>2, <1>3, <2>1, MissedKeeps
  <1> QED BY <1>1, <1>4, <1>5, <1>6 DEF Command

\* The chunk itself: a response with its length and socket means that the peer got it.
LEMMA WriteKeeps ==
  ASSUME IInv, NEW s \in Handles, WriteData(s)
  PROVE  IInv'
  <1>1. PICK r \in Replies, m \in Reports : Payload(r, m) /\ ChunkDone(r = "ok" /\ Written(m))
    BY DEF WriteData
  <1>2. /\ pc = "data" /\ call.socket = s /\ UNCHANGED <<call, inherited, calm>>
        /\ call \in Calls /\ call.op = "send" /\ left \in 1..call.len /\ result = "none"
    BY DEF WriteData, callVars, IInv, TypeOK, Running
  <1>3. /\ left \in Nat /\ call.len \in Nat /\ ChunkLen \in 1..left /\ s \in Handles
        /\ sent \in Nat
    <2>1. /\ left \in Nat /\ call.len \in Nat /\ left \in 1..call.len /\ sent \in Nat
          /\ EgressChunk \in Nat \ {0}
      BY <1>2, CommandsAssumption DEF Calls, IInv, TypeOK
    <2>2. ChunkLen \in 1..left
      BY <2>1 DEF ChunkLen
    <2> QED BY <2>1, <2>2
  <1>4. sent = call.len - left /\ (spoiled => inherited /\ sent = 0) /\ (need > 0 => ~spoiled)
    BY <1>2 DEF IInv, WrittenSoFar
  <1> DEFINE W == r = "ok" /\ Written(m)
  <1>5. CASE ~W
    <2>1. /\ pc' = "idle" /\ result' = "err" /\ failed' = failed \cup {s} /\ left' = left
      BY <1>1, <1>2, <1>5 DEF ChunkDone
    <2>2. \/ Unheard
          \/ EndPrompt /\ UNCHANGED <<spoiled, garbled>> /\ sent' = sent
          \/ /\ need > 0 /\ EndPrompt /\ m.length \in 0..ChunkLen
             /\ sent' = sent + m.length /\ UNCHANGED <<spoiled, garbled>>
      BY <1>1, <1>2, PayloadReaches DEF IInv, peerVars
    <2>3. sent' \in Nat /\ sent' <= call.len
      <3>1. sent' = sent \/ (m.length \in 0..ChunkLen /\ sent' = sent + m.length)
        BY <2>2 DEF Unheard, peerVars
      <3> QED BY <1>3, <1>4, <3>1
    <2>4. spoiled' => inherited' /\ sent' = 0
      <3>1. UNCHANGED spoiled /\ (sent' = sent \/ need > 0)
        BY <2>2 DEF Unheard, peerVars
      <3> QED BY <1>2, <1>4, <3>1
    <2>5. /\ need' \in 0..EgressChunk /\ target' \in Handles \cup {Import, None}
          /\ (need' > 0 => target' = target /\ target # None /\ need > 0)
      <3>1. CASE Unheard
        BY <3>1 DEF Unheard, promptVars, IInv, TypeOK
      <3>2. CASE EndPrompt
        BY <3>2, CommandsAssumption DEF EndPrompt
      <3> QED BY <2>2, <3>1, <3>2
    <2>6. TypeOK'
      <3>1. /\ dirty' \in BOOLEAN /\ calm' \in BOOLEAN
            /\ spoiled' \in BOOLEAN /\ inherited' \in BOOLEAN
        <4>1. dirty' = dirty \/ dirty' = FALSE
          BY <2>2 DEF Unheard, EndPrompt, promptVars
        <4>2. spoiled' = spoiled
          BY <2>2 DEF Unheard, peerVars
        <4> QED BY <1>2, <4>1, <4>2 DEF IInv, TypeOK
      <3>2. garbled' \subseteq Handles /\ failed' \subseteq Handles
        BY <1>3, <2>1, <2>2 DEF IInv, TypeOK, Unheard, peerVars
      <3> QED BY <1>2, <1>3, <2>1, <2>3, <2>5, <3>1, <3>2 DEF IInv, TypeOK
    <2>7. PromptOwned'
      BY <1>2, <2>1, <2>5 DEF IInv, PromptOwned
    <2>8. GarbledWasReported'
      BY <2>1, <2>2 DEF IInv, GarbledWasReported, Unheard, peerVars
    <2>9. PrefixOnly' /\ SendIsWhole'
      BY <1>2, <2>1, <2>3, <2>4 DEF PrefixOnly, SendIsWhole
    <2>10. AwaitsChunk' /\ WrittenSoFar' /\ Running'
      BY <2>1 DEF AwaitsChunk, WrittenSoFar, Running
    <2> QED BY <2>6, <2>7, <2>8, <2>9, <2>10 DEF IInv
  <1>6. CASE W
    <2>1. /\ need > 0 /\ EndPrompt /\ sent' = sent + ChunkLen
          /\ UNCHANGED <<spoiled, garbled>> /\ m.length = ChunkLen
      BY <1>1, <1>2, <1>6, PayloadReaches DEF IInv, Written
    <2>2. /\ left' = left - ChunkLen /\ UNCHANGED failed
          /\ IF left' > 0 THEN pc' = "prepare" /\ UNCHANGED result
             ELSE pc' = "idle" /\ result' = "ok"
      BY <1>1, <1>6 DEF ChunkDone
    <2>3. /\ left' \in 0..call.len /\ sent' = call.len - left' /\ sent' \in Nat /\ left' \in Nat
      BY <1>3, <1>4, <2>1, <2>2
    <2>4. ~spoiled' /\ need' = 0 /\ target' = None /\ ~dirty' /\ dirty' \in BOOLEAN
      BY <1>4, <2>1 DEF EndPrompt
    <2>5. ~(need' > 0) /\ need' \in 0..EgressChunk
      BY <2>4, CommandsAssumption
    <2>6. \/ pc' = "prepare" /\ result' = "none" /\ left' \in 1..call.len
          \/ pc' = "idle" /\ result' = "ok" /\ left' = 0
      BY <1>2, <2>2, <2>3
    <2>7. TypeOK'
      <3>1. spoiled' \in BOOLEAN /\ calm' \in BOOLEAN /\ inherited' \in BOOLEAN
        BY <1>2, <2>1 DEF IInv, TypeOK
      <3> QED BY <1>2, <2>1, <2>2, <2>3, <2>4, <2>5, <2>6, <3>1 DEF IInv, TypeOK
    <2>8. WrittenSoFar'
      BY <1>2, <2>3, <2>4, <2>6 DEF WrittenSoFar
    <2>9. PromptOwned' /\ AwaitsChunk' /\ Running'
      BY <2>5, <2>6 DEF PromptOwned, AwaitsChunk, Running
    <2>10. PrefixOnly'
      BY <1>2, <1>3, <2>3, <2>4 DEF PrefixOnly
    <2>11. SendIsWhole'
      BY <1>2, <1>3, <2>3, <2>4, <2>6 DEF SendIsWhole
    <2>12. GarbledWasReported'
      BY <2>1, <2>2 DEF IInv, GarbledWasReported
    <2> QED BY <2>7, <2>8, <2>9, <2>10, <2>11, <2>12 DEF IInv
  <1> QED BY <1>5, <1>6

-----------------------------------------------------------------------------
\* A command without a prompt of its own that was carried out, or refused.
LEMMA PlainKeeps ==
  ASSUME IInv, pc \in {"dns", "other"}, Unheard, UNCHANGED <<callVars, left, failed>>,
         pc' = "idle", result' \in {"ok", "err"}
  PROVE  IInv'
  BY MissedKeeps DEF IInv, TypeOK

\* A DNS query, and any other command.
LEMMA QueryKeeps ==
  ASSUME IInv, ResolveNameIp \/ OtherCommand
  PROVE  IInv'
  <1>1. PICK r \in Replies : \/ Command(UNCHANGED promptVars, r)
                             \/ need = 0 /\ r = "error" /\ Unheard
    BY DEF ResolveNameIp, OtherCommand
  <1>2. /\ pc \in {"dns", "other"} /\ pc' = "idle" /\ UNCHANGED <<callVars, left, failed>>
        /\ result' \in {"ok", "err"} /\ failed' \subseteq Handles /\ failed \subseteq failed'
    BY DEF ResolveNameIp, OtherCommand, IInv, TypeOK
  <1>3. CASE Unheard
    BY <1>2, <1>3, PlainKeeps
  <1>4. CASE \E n \in 0..EgressChunk : n < need /\ Swallow(n, r)
    <2>1. Taken
      BY <1>4, SwallowTakes DEF IInv
    <2> QED BY <1>2, <2>1, MissedKeeps
  <1> QED BY <1>1, <1>3, <1>4 DEF Command, Unheard

\* Every step keeps the invariant: one step of the proof per action.
LEMMA NextInv ==
  ASSUME IInv, [Next]_vars
  PROVE  IInv'
  <1>1. CASE TcpSend \/ UdpSend
    <2>1. PICK s \in Handles : SendNothing(s) \/ Send(s)
      BY <1>1 DEF TcpSend, UdpSend, Handles
    <2>2. CASE SendNothing(s)
      <3>1. pc' = "idle"
        BY <2>2 DEF SendNothing, Entry
      <3> QED BY <2>2, <3>1, BeginKeeps DEF SendNothing
    <2>3. CASE Send(s)
      <3>1. call' \in Calls /\ call'.op = "send" /\ call'.len > 0 /\ left' = call'.len
        BY <2>3 DEF Send
      <3>2. left' \in Nat
        BY <3>1, CommandsAssumption DEF Calls
      <3> QED BY <2>3, <3>1, <3>2, BeginKeeps DEF Send, Begin
    <2> QED BY <2>1, <2>2, <2>3
  <1>2. CASE GetHostByAddress \/ GetHostByName \/ SendAt
    <2>1. left' \in Nat
      BY <1>2 DEF GetHostByAddress, GetHostByName, SendAt, IInv, TypeOK
    <2>2. \/ Begin("dns") /\ call' \in Calls /\ call'.op \in {"name", "address"}
          \/ Begin("other") /\ call' \in Calls /\ call'.op = "other"
      BY <1>2 DEF GetHostByAddress, GetHostByName, SendAt
    <2> QED BY <2>1, <2>2, BeginKeeps DEF Begin
  <1>3. CASE RefuseIPv6
    <2>1. left' \in Nat /\ pc' = "idle"
      BY <1>3 DEF RefuseIPv6, Entry, IInv, TypeOK
    <2> QED BY <1>3, <2>1, BeginKeeps DEF RefuseIPv6
  <1>4. CASE Driver
    <2>1. CASE ResolveNameIp \/ OtherCommand
      BY <2>1, QueryKeeps
    <2>2. CASE \E s \in Handles : Prepare(s) \/ WriteData(s)
      BY <2>2, PrepareKeeps, WriteKeeps
    <2> QED BY <1>4, <2>1, <2>2 DEF Driver, PrepareWriteSocketDataBinary, Handles,
               WriteSocketDataBinary, PrepareUDPSendToDataBinary, UDPSendToDataBinary
  <1>5. CASE ImportBreaksOff
    <2>1. /\ pc = "idle" /\ UNCHANGED <<pc, call, inherited, result, left, calm, failed>>
          /\ UNCHANGED <<sent, spoiled, garbled>> /\ target' = Import
      BY <1>5 DEF ImportBreaksOff, peerVars, callVars
    <2>2. need' \in 0..EgressChunk /\ dirty' = FALSE /\ Import # None
      BY <1>5, CommandsAssumption DEF ImportBreaksOff
    <2>3. TypeOK'
      BY <2>1, <2>2 DEF IInv, TypeOK
    <2>4. PromptOwned' /\ AwaitsChunk' /\ WrittenSoFar' /\ Running'
      BY <2>1 DEF PromptOwned, AwaitsChunk, WrittenSoFar, Running
    <2>5. SendIsWhole' /\ PrefixOnly' /\ GarbledWasReported'
      BY <2>1 DEF IInv, SendIsWhole, PrefixOnly, GarbledWasReported
    <2> QED BY <2>3, <2>4, <2>5 DEF IInv
  <1>6. CASE Restart
    <2>1. /\ pc' = "idle" /\ result' = "none" /\ UNCHANGED <<call, left, calm>>
          /\ need' = 0 /\ target' = None
          /\ sent' = 0 /\ garbled' = {} /\ failed' = {}
      BY <1>6 DEF Restart, EndPrompt
    <2>2. dirty' \in BOOLEAN /\ spoiled' = FALSE /\ inherited' \in BOOLEAN
      BY <1>6 DEF Restart, EndPrompt
    <2>3. ~(need' > 0) /\ need' \in 0..EgressChunk /\ sent' \in Nat
      BY <2>1, CommandsAssumption
    <2>4. TypeOK'
      <3>1. spoiled' \in BOOLEAN /\ calm' \in BOOLEAN
        BY <2>1, <2>2 DEF IInv, TypeOK
      <3> QED BY <2>1, <2>2, <2>3, <3>1 DEF IInv, TypeOK
    <2>5. PrefixOnly'
      <3>1. call.op = "send" => call.len \in Nat
        BY CommandsAssumption DEF IInv, TypeOK, Calls
      <3> QED BY <2>1, <2>2, <3>1 DEF PrefixOnly
    <2>6. PromptOwned' /\ AwaitsChunk' /\ WrittenSoFar' /\ Running' /\ SendIsWhole'
          /\ GarbledWasReported'
      BY <2>1, <2>3 DEF PromptOwned, AwaitsChunk, WrittenSoFar, Running, SendIsWhole,
                        GarbledWasReported
    <2> QED BY <2>4, <2>5, <2>6 DEF IInv
  <1>7. CASE BecomeCalm \/ UNCHANGED vars
    <2>1. /\ UNCHANGED <<pc, call, inherited, result, left, need, target, dirty, failed>>
          /\ UNCHANGED <<sent, spoiled, garbled>> /\ calm' \in BOOLEAN
      BY <1>7 DEF BecomeCalm, vars, callVars, promptVars, peerVars, IInv, TypeOK
    <2>2. TypeOK'
      BY <2>1 DEF IInv, TypeOK
    <2>3. PromptOwned' /\ WrittenSoFar' /\ Running' /\ SendIsWhole' /\ PrefixOnly'
      BY <2>1 DEF IInv, PromptOwned, WrittenSoFar, Running, SendIsWhole, PrefixOnly
    <2>4. AwaitsChunk' /\ GarbledWasReported'
      BY <2>1 DEF IInv, AwaitsChunk, ChunkLen, GarbledWasReported
    <2> QED BY <2>2, <2>3, <2>4 DEF IInv
  <1> QED BY <1>1, <1>2, <1>3, <1>4, <1>5, <1>6, <1>7 DEF Next

-----------------------------------------------------------------------------
\* Spec keeps the inductive invariant.
LEMMA Invariance == Spec => []IInv
  <1>1. Init => IInv
    BY InitInv
  <1>2. IInv /\ [Next]_vars => IInv'
    BY NextInv
  <1> QED BY <1>1, <1>2, PTL DEF Spec

\* Type correctness of the two stacks' send and of the DNS calls, for every chunk size.
THEOREM TypeCorrect == Spec => []TypeOK
  <1>1. IInv => TypeOK
    BY DEF IInv
  <1> QED BY <1>1, Invariance, PTL

\* Ok from send means that the peer got the buffer and nothing else.
THEOREM SendWhole == Spec => []SendIsWhole
  <1>1. IInv => SendIsWhole
    BY DEF IInv
  <1> QED BY <1>1, Invariance, PTL

\* A send that runs or has failed gave the peers a beginning of its buffer and nothing
\* else; one that found a prompt open may instead have filled it, and then gave nothing.
THEOREM SendPrefix == Spec => []PrefixOnly
  <1>1. IInv => PrefixOnly
    BY DEF IInv
  <1> QED BY <1>1, Invariance, PTL

\* No peer gets garbage without an error having been returned for its socket.
THEOREM GarbageReported == Spec => []GarbledWasReported
  <1>1. IInv => GarbledWasReported
    BY DEF IInv
  <1> QED BY <1>1, Invariance, PTL
=============================================================================
