---------------------------- MODULE DataCommands ----------------------------
(***************************************************************************)
(* What a DataService sends over the AT line it shares with everyone else: *)
(* send of TCP and UDP sockets, which takes two commands per chunk, and    *)
(* the DNS queries.                                                        *)
(*                                                                         *)
(* After AT+USOWR or AT+USOST the module prompts for the announced number  *)
(* of bytes and takes whatever it is sent for them.  When the driver has   *)
(* not seen that prompt, the next commands, of whatever call, go to the    *)
(* peer of the socket.  A certificate import that broke off (module Ssl)   *)
(* leaves the same kind of prompt.  How many bytes a command line has is   *)
(* left open.  The sockets are connected ones; module Sockets has their    *)
(* life cycle.                                                             *)
(***************************************************************************)
EXTENDS Naturals

CONSTANTS
  TcpSockets, UdpSockets, \* connected sockets, by number
  EgressChunk,            \* EGRESS_CHUNK_SIZE
  SendSizes,              \* lengths of the buffers the application sends
  Import,                 \* the prompt of a certificate import
  None                    \* no prompt

Handles == TcpSockets \cup UdpSockets

ASSUME CommandsAssumption ==
  /\ EgressChunk \in Nat \ {0} /\ SendSizes \subseteq Nat
  /\ Import \notin Handles /\ None \notin Handles \cup {Import}

VARIABLES
  pc,       \* the command to send next, or "idle"
  call,     \* the arguments of the latest call
  result,   \* its result: "none" while it runs
  left,     \* send: the bytes of the buffer that are not yet written
  need,     \* bytes the module waits for; 0: it reads commands
  target,   \* the socket it will write them to, Import, or None
  dirty,    \* did it take something else for part of them?
  calm,     \* from now on every command is answered
  inherited,\* history: was a prompt open when the call began?
  sent,     \* history: bytes of the buffer the peer got during this call, in order
  spoiled,  \* history: a peer got something else during this call
  garbled,  \* history: sockets whose peer ever got something else
  failed    \* history: sockets with a send that returned an error

promptVars == <<need, target, dirty>>
peerVars   == <<sent, spoiled, garbled>>
callVars   == <<call, inherited, calm>>
vars == <<pc, callVars, result, left, promptVars, peerVars, failed>>

Calls == [op : {"send"}, socket : Handles, len : SendSizes]
         \cup [op : {"name"}, type : {"IPv4", "IPv6"}]
         \cup [op : {"address", "other"}]

TypeOK ==
  /\ pc \in {"idle", "prepare", "data", "dns", "other"}
  /\ call \in Calls /\ result \in {"none", "ok", "err"}
  /\ pc \in {"prepare", "data"} => call.op = "send" /\ left \in 1..call.len
  /\ pc = "dns" => call.op \in {"name", "address"}
  /\ pc = "other" => call.op = "other"
  /\ left \in Nat /\ inherited \in BOOLEAN
  /\ need \in 0..EgressChunk /\ dirty \in BOOLEAN
  /\ target \in Handles \cup {Import, None} /\ (need > 0 => target # None)
  /\ calm \in BOOLEAN /\ sent \in Nat /\ spoiled \in BOOLEAN
  /\ garbled \subseteq Handles /\ failed \subseteq Handles

Init ==
  /\ pc = "idle" /\ call \in Calls /\ result = "none" /\ left = 0 /\ inherited = FALSE
  /\ need = 0 /\ target = None /\ dirty = FALSE /\ calm = FALSE
  /\ sent = 0 /\ spoiled = FALSE /\ garbled = {} /\ failed = {}

\* buffer.chunks(EGRESS_CHUNK_SIZE)
ChunkLen == IF left < EgressChunk THEN left ELSE EgressChunk

\* Mutant: a short write is a success.
WrittenShort(m) == m.socket = call.socket

\* response.length and response.socket
Written(m) == m.length = ChunkLen /\ m.socket = call.socket

-----------------------------------------------------------------------------
(***************************************************************************)
(* The module and the line (external).  r is the reply the driver sees.    *)
(***************************************************************************)
Unheard == UNCHANGED <<promptVars, peerVars>>

EndPrompt == need' = 0 /\ target' = None /\ dirty' = FALSE

\* The awaited bytes are complete and go to the peer of target, unless they are a
\* certificate; chunk says whether they are exactly the chunk that comes next.
Deliver(chunk, m) ==
  /\ EndPrompt
  /\ IF target = Import THEN UNCHANGED peerVars
     ELSE IF chunk THEN sent' = sent + m /\ UNCHANGED <<spoiled, garbled>>
     ELSE spoiled' = TRUE /\ garbled' = garbled \cup {target} /\ UNCHANGED sent

\* A command is taken for data, of which n bytes are then still missing.  The final
\* OK of the data may be taken for the command's own, or not be parsed as such.
Swallow(n, r) ==
  \/ /\ n > 0 /\ r = "timeout"
     /\ need' = n /\ dirty' = TRUE /\ UNCHANGED <<target, peerVars>>
  \/ n = 0 /\ (r \in {"ok", "error"} \/ ~calm) /\ Deliver(FALSE, 0)
  \/ n = 0 /\ r = "error" /\ EndPrompt /\ UNCHANGED peerVars

\* A command line: carried out, lost on the way or refused, or taken for data.
Command(Execute, r) ==
  \/ need = 0 /\ Execute /\ (r = "ok" \/ (r = "timeout" /\ ~calm)) /\ UNCHANGED peerVars
  \/ ~calm /\ r \in {"error", "timeout"} /\ Unheard
  \/ \E n \in 0..EgressChunk : n < need /\ Swallow(n, r)

\* The bytes of a chunk.  A module that reads commands cannot make sense of them.  It
\* reports the socket and the length it accepted, m; an import reports neither.
Payload(r, m) ==
  \/ need = 0 /\ r \in {"error", "timeout"} /\ Unheard
  \/ ~calm /\ r = "timeout" /\ Unheard
  \/ /\ need > ChunkLen /\ r = "timeout"
     /\ need' = need - ChunkLen /\ dirty' = TRUE /\ UNCHANGED <<target, peerVars>>
  \/ /\ 0 < need /\ need <= ChunkLen
     /\ m.socket = target /\ m.length <= need /\ (calm => m.length = need)
     /\ r = (IF target = Import THEN "error" ELSE "ok") \/ (r = "timeout" /\ ~calm)
     /\ Deliver(/\ ~dirty /\ need = ChunkLen /\ target = call.socket
                /\ sent = call.len - left, m.length)
  \/ ~calm /\ need > 0 /\ r = "error" /\ EndPrompt /\ UNCHANGED peerVars

Replies == {"ok", "error", "timeout"}
Reports == [socket : Handles \cup {Import}, length : 0..EgressChunk]

-----------------------------------------------------------------------------
(***************************************************************************)
(* tcp_stack.rs and udp_stack.rs: send.                                    *)
(***************************************************************************)
\* A call begins, with the prompt that earlier ones left open.
Entry ==
  /\ pc = "idle" /\ inherited' = (need > 0) /\ sent' = 0 /\ spoiled' = FALSE
  /\ UNCHANGED <<promptVars, calm, garbled, failed>>

Begin(first) == Entry /\ pc' = first /\ result' = "none"

\* An empty buffer has no chunks.
SendNothing(s) ==
  /\ Entry /\ call' \in {c \in Calls : c.op = "send" /\ c.socket = s /\ c.len = 0}
  /\ result' = "ok" /\ left' = 0 /\ UNCHANGED pc

Send(s) ==
  /\ Begin("prepare")
  /\ call' \in {c \in Calls : c.op = "send" /\ c.socket = s /\ c.len > 0}
  /\ left' = call'.len

Prepared(r) ==
  IF r = "ok" THEN pc' = "data" /\ UNCHANGED <<result, failed>>
  ELSE pc' = "idle" /\ result' = "err" /\ failed' = failed \cup {call.socket}

\* Mutant: one byte more is announced than is sent.
AnnouncedOneMore == ChunkLen + 1

\* length: chunk.len()
Announced == ChunkLen

\* AT+USOWR or AT+USOST, for the socket of the call
Prepare(s) ==
  /\ pc = "prepare" /\ call.socket = s
  /\ \E r \in Replies :
       /\ Command(need' = Announced /\ target' = s /\ dirty' = FALSE, r)
       /\ Prepared(r)
  /\ UNCHANGED <<callVars, left>>

\* Mutant: the error of the second command is dropped (.ok() in place of ?).
ChunkDoneAnyway(written) ==
  /\ left' = left - ChunkLen /\ UNCHANGED failed
  /\ IF left' > 0 THEN pc' = "prepare" /\ UNCHANGED result
     ELSE pc' = "idle" /\ result' = "ok"

\* The next chunk, or the end of the call.
ChunkDone(written) ==
  IF ~written THEN /\ pc' = "idle" /\ result' = "err" /\ failed' = failed \cup {call.socket}
                   /\ UNCHANGED left
  ELSE /\ left' = left - ChunkLen /\ UNCHANGED failed
       /\ IF left' > 0 THEN pc' = "prepare" /\ UNCHANGED result
          ELSE pc' = "idle" /\ result' = "ok"

WriteData(s) ==
  /\ pc = "data" /\ call.socket = s
  /\ \E r \in Replies, m \in Reports : Payload(r, m) /\ ChunkDone(r = "ok" /\ Written(m))
  /\ UNCHANGED callVars

TcpSend == \E s \in TcpSockets : SendNothing(s) \/ Send(s)
UdpSend == \E s \in UdpSockets : SendNothing(s) \/ Send(s)

PrepareWriteSocketDataBinary == \E s \in TcpSockets : Prepare(s)
WriteSocketDataBinary        == \E s \in TcpSockets : WriteData(s)
PrepareUDPSendToDataBinary   == \E s \in UdpSockets : Prepare(s)
UDPSendToDataBinary          == \E s \in UdpSockets : WriteData(s)

-----------------------------------------------------------------------------
(***************************************************************************)
(* dns.rs, and the commands of everyone else.                              *)
(***************************************************************************)
GetHostByAddress ==
  /\ Begin("dns") /\ call' \in {c \in Calls : c.op = "address"} /\ UNCHANGED left

GetHostByName ==
  /\ Begin("dns") /\ call' \in {c \in Calls : c.op = "name" /\ c.type # "IPv6"} /\ UNCHANGED left

\* AddrType::IPv6 is refused without a command.
RefuseIPv6 ==
  /\ Entry /\ call' \in {c \in Calls : c.op = "name" /\ c.type = "IPv6"}
  /\ result' = "err" /\ UNCHANGED <<pc, left>>

\* What the driver can tell of the text of a reply that ends in OK: an IP address,
\* some other string, or none at all.  The module may report anything; the reply of a
\* write that the query completed holds no address, that of an import no text.
Texts == IF need = 0 THEN {"address", "string", "none"}
         ELSE IF target = Import THEN {"none"} ELSE {"string", "none"}

\* A host name is any string; an address must parse as one.
Usable(text) == IF call.op = "name" THEN text = "address" ELSE text # "none"

\* The server may not know the answer, and says so.
ResolveNameIp ==
  /\ pc = "dns" /\ pc' = "idle"
  /\ \E r \in Replies, text \in Texts :
       /\ \/ Command(UNCHANGED promptVars, r)
          \/ need = 0 /\ r = "error" /\ Unheard
       /\ result' = IF r = "ok" /\ Usable(text) THEN "ok" ELSE "err"
  /\ UNCHANGED <<callVars, left, failed>>

\* Any other command of the application, of spin or of close.
SendAt == Begin("other") /\ call' \in {c \in Calls : c.op = "other"} /\ UNCHANGED left

OtherCommand ==
  /\ pc = "other" /\ pc' = "idle"
  /\ \E r \in Replies : /\ Command(UNCHANGED promptVars, r)
                        /\ result' = IF r = "ok" THEN "ok" ELSE "err"
  /\ UNCHANGED <<callVars, left, failed>>

-----------------------------------------------------------------------------
\* A certificate import breaks off after its first command.
ImportBreaksOff ==
  /\ pc = "idle" /\ ~calm /\ need = 0
  /\ need' \in 1..EgressChunk /\ target' = Import /\ dirty' = FALSE
  /\ UNCHANGED <<pc, callVars, result, left, peerVars, failed>>

\* The module restarts between two calls; its sockets are new ones.
Restart ==
  /\ pc = "idle" /\ EndPrompt /\ result' = "none" /\ inherited' = FALSE
  /\ sent' = 0 /\ spoiled' = FALSE /\ garbled' = {} /\ failed' = {}
  /\ UNCHANGED <<pc, call, left, calm>>

BecomeCalm ==
  /\ ~calm /\ calm' = TRUE
  /\ UNCHANGED <<pc, call, inherited, result, left, promptVars, peerVars, failed>>

Driver == \/ PrepareWriteSocketDataBinary \/ WriteSocketDataBinary
          \/ PrepareUDPSendToDataBinary \/ UDPSendToDataBinary
          \/ ResolveNameIp \/ OtherCommand

Next == \/ TcpSend \/ UdpSend \/ GetHostByAddress \/ GetHostByName \/ RefuseIPv6 \/ SendAt
        \/ Driver \/ ImportBreaksOff \/ Restart \/ BecomeCalm

Spec == Init /\ [][Next]_vars

\* A call that began goes on; in the end the line is reliable.
FairSpec == Spec /\ WF_vars(Driver) /\ WF_vars(BecomeCalm)

-----------------------------------------------------------------------------
\* A send that returned Ok has given the peer the whole buffer, in order and with
\* nothing between its chunks, whatever broke off before it and although the OK of its
\* first command may be that of swallowed data (tcp_stack.rs:121-151, udp_stack.rs:78-110).
SendIsWhole ==
  (result = "ok" /\ call.op = "send") => sent = call.len /\ ~spoiled

\* While a send runs, and after it failed, the peers have got from it a beginning of
\* its buffer and nothing else, unless the send found a prompt open: its first command
\* may then have gone to the peer of that prompt, and in this case no byte of the buffer
\* has.  A send does not add a prompt of its own to be filled by its own next command:
\* the ? after each command and the checks of the response (tcp_stack.rs:131-148,
\* udp_stack.rs:91-108) end the call first.
PrefixOnly ==
  (call.op = "send" /\ result # "ok") =>
    sent <= call.len /\ (spoiled => inherited /\ sent = 0)

\* A peer gets something that no application sent only on a socket whose send has
\* returned an error, so the application was told (tcp_stack.rs:131, 141; udp_stack.rs:91,
\* 101).
GarbledWasReported == garbled \subseteq failed

\* Sending again cures a send that broke off: once the line is reliable, an application
\* that keeps sending keeps succeeding, although its first commands go to a peer
\* (tcp_stack.rs:127: the announced length is the length sent).
RetrySends == []<>(pc = "prepare") => []<>(result = "ok" /\ call.op = "send" /\ call.len > 0)
=============================================================================
