------------------------------ MODULE Sockets ------------------------------
(***************************************************************************)
(* The TCP and UDP sockets of a DataService: tcp_stack.rs, udp_stack.rs,   *)
(* socket_ingress_all (services/data/mod.rs) and the socket URCs that      *)
(* Device::handle_urc_internal (client.rs) takes one at a time.            *)
(*                                                                         *)
(* The module numbers its sockets itself and gives a number that is free   *)
(* again to the next socket; every socket it ever creates is told apart    *)
(* here by its incarnation.  The bytes of a connection are numbered 1, 2,  *)
(* ...; an AT command is one step, and the modem and the peer step between *)
(* commands.  SocketSet and its sockets belong to crate ublox-sockets: what *)
(* the code relies on is modelled, and what it cannot know (when a polling *)
(* interval or the timeout of a closed socket is over) is left open.       *)
(***************************************************************************)
EXTENDS Naturals, Sequences, FiniteSets

CONSTANTS
  Handles,        \* the module's socket numbers
  Capacity,       \* N, the size of the SocketSet
  RxSize,         \* L, the size of a socket's rx_buffer
  IngressChunk,   \* INGRESS_CHUNK_SIZE
  EgressChunk,    \* EGRESS_CHUNK_SIZE
  UrcCapacity,    \* URC_CAPACITY
  Types,          \* the kinds of sockets this application opens
  HexMode,        \* Config::HEX_MODE
  Lossy,          \* may commands fail or replies be lost (until calm)?
  SendSizes,      \* the lengths of the buffers it sends
  MaxBytes,       \* bound: bytes a peer sends on one connection
  MaxIncarnations \* bound: sockets the module creates

ASSUME SizesAssumption ==
  /\ Capacity \in Nat \ {0} /\ RxSize \in Nat \ {0} /\ IngressChunk \in Nat \ {0}
  /\ EgressChunk \in Nat \ {0} /\ UrcCapacity \in Nat \ {0}
  /\ MaxBytes \in Nat /\ MaxIncarnations \in Nat
  /\ SendSizes \subseteq Nat /\ Types \subseteq {"tcp", "udp"}
  /\ IsFiniteSet(Handles) /\ Lossy \in BOOLEAN /\ HexMode \in BOOLEAN

VARIABLES
  pc,      \* "idle" (no DataService), "ingress", "service" or "write"
  stored,  \* does Device hold a SocketSet?
  todo,    \* the sockets socket_ingress_all has yet to visit
  cur,     \* the socket being written to
  buffer,  \* the length of the buffer being sent
  left,    \* the bytes of it that are not yet written
  socks,   \* the SocketSet, without a used slot while Device holds none
  urcs,    \* socket URCs that Device has not read
  modem,   \* the module's sockets
  created, \* number of sockets the module has created
  calm,    \* from now on every command is answered
  gap,     \* history: handles whose socket lost bytes with a reply
  accepted, \* history: bytes of the current buffer that the module accepted,
  takers   \* history: and the incarnations of the sockets that did

writeVars   == <<cur, buffer, left, accepted, takers>>
modemVars   == <<modem, created>>
vars == <<pc, stored, todo, writeVars, socks, urcs, modemVars, calm, gap>>

\* A slot of the SocketSet; inc is history: the incarnation the slot stands for.
Slots == [type : {"tcp", "udp"}, state : {"none", "Created", "Connected", "Closed"},
          inc : 0..MaxIncarnations, avail : 0..MaxBytes,
          rx : Seq(1..MaxBytes), got : Seq(1..MaxBytes)]

\* +UUSORD, +UUSORF (data) and +UUSOCL (closed).
SocketUrcs == [kind : {"closed", "data"}, h : Handles, len : 0..MaxBytes]

ModemSockets == [up : {"free", "open", "conn"}, type : {"tcp", "udp"}, inc : 0..MaxIncarnations,
                 next : 0..MaxBytes, taken : 0..MaxBytes]

TypeOK ==
  /\ pc \in {"idle", "ingress", "service", "write"}
  /\ todo \subseteq Handles /\ cur \in Handles
  /\ buffer \in Nat /\ left \in Nat
  /\ accepted \in Nat /\ takers \subseteq 0..MaxIncarnations
  /\ socks \in [Handles -> Slots]
  /\ urcs \in Seq(SocketUrcs)
  /\ Len(urcs) <= UrcCapacity
  /\ modem \in [Handles -> ModemSockets] /\ created \in 0..MaxIncarnations
  /\ \A h \in Handles : modem[h].taken <= modem[h].next
  /\ \A h \in Handles : Len(socks[h].rx) <= RxSize
  /\ stored \in BOOLEAN /\ calm \in BOOLEAN /\ gap \subseteq Handles

Vacant == [type |-> "tcp", state |-> "none", inc |-> 0, avail |-> 0,
           rx |-> <<>>, got |-> <<>>]
Free   == [up |-> "free", type |-> "tcp", inc |-> 0, next |-> 0, taken |-> 0]

Init ==
  /\ pc = "idle" /\ stored = FALSE /\ todo = {} /\ cur \in Handles
  /\ buffer = 0 /\ left = 0 /\ accepted = 0 /\ takers = {}
  /\ socks = [h \in Handles |-> Vacant] /\ urcs = <<>>
  /\ modem = [h \in Handles |-> Free] /\ created = 0
  /\ calm = ~Lossy /\ gap = {}

-----------------------------------------------------------------------------
(***************************************************************************)
(* SocketSet and its sockets (ublox-sockets).                              *)
(***************************************************************************)
Used == {h \in Handles : socks[h].state # "none"}

\* The set with slot h, and the module with socket h, changed.
WithSlot(h, s)   == [socks EXCEPT ![h] = s]
WithSocket(h, m) == [modem EXCEPT ![h] = m]

\* closed_by_remote, set_available_data
ClosedByRemote(h)      == WithSlot(h, [socks[h] EXCEPT !.state = "Closed"])
SetAvailableData(h, n) == WithSlot(h, [socks[h] EXCEPT !.avail = n])

\* An unconnected socket, or one whose buffer is full, takes no bytes.
CanRecv(s)  == s.state # "Created" /\ Len(s.rx) < RxSize
RxWindow(s) == RxSize - Len(s.rx)

Min2(a, b) == IF a < b THEN a ELSE b

\* rx_enqueue_slice stores what fits of bytes from+1 .. from+n.  Whether it also
\* lowers available_data is not visible to the driver.
RxEnqueueSlice(h, from, n) ==
  LET m == Min2(n, RxWindow(socks[h]))
  IN  {WithSlot(h, [socks[h] EXCEPT !.rx = @ \o [i \in 1..m |-> from + i], !.avail = a]) :
         a \in {socks[h].avail, IF socks[h].avail > m THEN socks[h].avail - m ELSE 0}}

(***************************************************************************)
(* The module (external).                                                  *)
(***************************************************************************)
Unread(h) == modem[h].next - modem[h].taken

\* A URC that finds the channel full is lost.  URCs of other kinds and those that
\* AtTx has not read fill it too, so that this may be at any moment.
Publish(u) == \/ Len(urcs) < UrcCapacity /\ urcs' = Append(urcs, u)
              \/ UNCHANGED urcs

\* A TCP socket is "conn" once connected, a UDP socket once a peer knows it.
CanRead(h)     == modem[h].up = "conn" \/ (modem[h].up = "open" /\ modem[h].type = "udp")
CanWrite(h, t) == modem[h].type = t /\ modem[h].up \in IF t = "tcp" THEN {"conn"} ELSE {"open", "conn"}

\* The replies to a command that the module can (or cannot) carry out.
Replies(can) == (IF can THEN {"ok"} ELSE {"error"})
                \cup (IF calm THEN {} ELSE {"error", "timeout"})

-----------------------------------------------------------------------------
(***************************************************************************)
(* client.rs: spin reads one URC, if there is a set to apply it to; then   *)
(* try_new ingresses data.                                                 *)
(***************************************************************************)
HandleUrcInternal ==
  IF ~stored \/ urcs = <<>> THEN UNCHANGED <<socks, urcs>>
  ELSE LET u == Head(urcs) IN
    /\ urcs' = Tail(urcs)
    /\ socks' = IF u.h \notin Used THEN socks
                ELSE IF u.kind = "closed" THEN ClosedByRemote(u.h)
                ELSE SetAvailableData(u.h, u.len)

CallDataService ==
  /\ pc = "idle"
  /\ HandleUrcInternal
  /\ \/ stored /\ pc' = "ingress" /\ todo' = Used
     \/ ~stored /\ pc' = "service" /\ UNCHANGED todo
     \/ pc' = "idle" /\ UNCHANGED todo         \* no service this time
  /\ UNCHANGED <<stored, writeVars, modemVars, calm, gap>>

\* SocketSet::prune
Pruned == socks' = [h \in Handles |-> Vacant] /\ gap' = {}

\* Pruning tells the module nothing: its sockets stay open.
SetSocketStorage ==
  /\ pc = "idle" /\ Pruned /\ stored' = TRUE
  /\ UNCHANGED <<pc, todo, writeVars, urcs, modemVars, calm>>

\* What the set holds is out of Device's reach, and pruned before it returns.
TakeSocketStorage ==
  /\ pc = "idle" /\ stored /\ Pruned /\ stored' = FALSE
  /\ UNCHANGED <<pc, todo, writeVars, urcs, modemVars, calm>>

\* setup_at_commands, after a reset of the module or on one that is up.
ClearBuffers ==
  /\ pc = "idle" /\ Pruned
  /\ modem' \in {modem, [h \in Handles |-> Free]}
  /\ UNCHANGED <<pc, stored, todo, writeVars, urcs, created, calm>>

(***************************************************************************)
(* data/mod.rs: socket_ingress_all, one socket at a time.                  *)
(***************************************************************************)
\* Nothing known to read and no poll due, or no room: the socket is left alone.
IngressSkip(h) ==
  /\ pc = "ingress" /\ h \in todo
  /\ socks[h].avail > 0 => ~CanRecv(socks[h])
  /\ todo' = todo \ {h}
  /\ UNCHANGED <<pc, stored, writeVars, socks, urcs, modemVars, calm, gap>>

\* Mutant: the answer of the poll is not used.
IngressPollIgnored(h) ==
  /\ pc = "ingress" /\ h \in todo
  /\ socks[h].avail = 0 /\ socks[h].state = "Connected"
  /\ \E r \in Replies(CanRead(h)) :
       socks' = IF r = "ok" THEN socks ELSE ClosedByRemote(h)
  /\ todo' = todo \ {h}
  /\ UNCHANGED <<pc, stored, writeVars, urcs, modemVars, calm, gap>>

\* The poll for data whose URC was missed; should_update_available_data says when,
\* and never asks for a socket that is not connected.
IngressPoll(h) ==
  /\ pc = "ingress" /\ h \in todo
  /\ socks[h].avail = 0 /\ socks[h].state = "Connected"
  /\ \E r \in Replies(CanRead(h)) :
       socks' = IF r = "ok" THEN SetAvailableData(h, Unread(h)) ELSE ClosedByRemote(h)
  /\ todo' = todo \ {h}
  /\ UNCHANGED <<pc, stored, writeVars, urcs, modemVars, calm, gap>>

\* Mutant: the room in the buffer is ignored.
RequestedLenUnbounded(s) == Min2(s.avail, IngressChunk)

RequestedLen(s) == Min2(Min2(s.avail, IngressChunk), RxWindow(s))

\* The characters in which a read hands over n bytes (AT+UDCONF=1): two for each, or
\* in binary mode the bytes themselves.
ReplyChars(n) == IF HexMode THEN 2 * n ELSE n

\* The code always takes the reply for pairs of hex digits, which from_hex turns back
\* into the bytes (module HexDecode); another number of pairs is BadLength.
Decodes(n) == ReplyChars(n) \div 2 = n

\* A read.  The bytes are gone with a reply that is lost, mangled on the line
\* (InvalidHex, WrongSocketType) or of a length the code does not expect.
IngressRead(h) ==
  /\ pc = "ingress" /\ h \in todo
  /\ socks[h].avail > 0 /\ CanRecv(socks[h])
  /\ LET n    == Min2(RequestedLen(socks[h]), Unread(h))
         take == modem' = WithSocket(h, [modem[h] EXCEPT !.taken = @ + n])
     IN \E r \in Replies(CanRead(h)) :
          \/ /\ r = "ok" /\ n = 0
             /\ socks' = SetAvailableData(h, 0) /\ UNCHANGED <<modem, gap>>
          \/ /\ r = "ok" /\ n > 0 /\ Decodes(n)
             /\ take /\ socks' \in RxEnqueueSlice(h, modem[h].taken, n)
             /\ UNCHANGED gap
          \/ /\ r # "error" /\ (r = "ok" => ~Decodes(n)) /\ CanRead(h) /\ n > 0
             /\ take /\ gap' = gap \cup {h} /\ UNCHANGED socks
          \/ r # "ok" /\ UNCHANGED <<socks, modem, gap>>
  /\ todo' = todo \ {h}
  /\ UNCHANGED <<pc, stored, writeVars, urcs, created, calm>>

EndIngress ==
  /\ pc = "ingress" /\ todo = {} /\ pc' = "service"
  /\ UNCHANGED <<stored, todo, writeVars, socks, urcs, modemVars, calm, gap>>

DropService ==
  /\ pc = "service" /\ pc' = "idle"
  /\ UNCHANGED <<stored, todo, writeVars, socks, urcs, modemVars, calm, gap>>

-----------------------------------------------------------------------------
(***************************************************************************)
(* tcp_stack.rs and udp_stack.rs.                                          *)
(***************************************************************************)
\* The set after making room: recycle drops a socket closed by remote, and fails
\* when no such socket is old enough.
Recycled == IF Cardinality(Used) < Capacity THEN {socks}
            ELSE {WithSlot(h, Vacant) : h \in {k \in Used : socks[k].state = "Closed"}}

\* socket: the module creates one, and add refuses a number the set has already.
Socket(t) ==
  /\ pc = "service" /\ stored /\ t \in Types
  /\ \E s \in Recycled :
       \/ socks' = s /\ ~calm /\ UNCHANGED <<modemVars, gap>>
       \/ \E h \in {k \in Handles : modem[k].up = "free"} :
            /\ created < MaxIncarnations /\ created' = created + 1
            /\ modem' = WithSocket(h,
                 [Free EXCEPT !.up = "open", !.type = t, !.inc = created + 1])
            /\ \/ s[h].state # "none" /\ socks' = s /\ UNCHANGED gap    \* DuplicateSocket
               \/ ~calm /\ socks' = s /\ UNCHANGED gap                  \* the reply is lost
               \/ /\ s[h].state = "none"
                  /\ socks' = [s EXCEPT ![h] = [Vacant EXCEPT !.type = t,
                                !.state = "Created", !.inc = created + 1]]
                  /\ gap' = gap \ {h}
       \/ /\ \A k \in Handles : modem[k].up # "free"
          /\ socks' = s /\ UNCHANGED <<modemVars, gap>>
  /\ UNCHANGED <<pc, stored, todo, writeVars, urcs, calm>>

Connectable(h) == modem[h].up = "open" /\ modem[h].type = "tcp"

\* connect of TCP: two commands; a lost reply may leave the module connected.
Connect(h) ==
  /\ pc = "service" /\ socks[h].state = "Created" /\ socks[h].type = "tcp"
  /\ \E r \in Replies(Connectable(h)) :
       /\ socks' = IF r # "ok" THEN socks
                   ELSE WithSlot(h, [socks[h] EXCEPT !.state = "Connected", !.inc = modem[h].inc])
       /\ \/ r # "error" /\ Connectable(h)
             /\ modem' = WithSocket(h, [modem[h] EXCEPT !.up = "conn"])
          \/ r # "ok" /\ UNCHANGED modem
  /\ UNCHANGED <<pc, stored, todo, writeVars, urcs, created, calm, gap>>

\* connect of UDP: bind remembers the peer, without a command.
Bind(h) ==
  /\ pc = "service" /\ socks[h].state = "Created" /\ socks[h].type = "udp"
  /\ socks' = WithSlot(h, [socks[h] EXCEPT !.state = "Connected"])
  /\ UNCHANGED <<pc, stored, todo, writeVars, urcs, modemVars, calm, gap>>

\* Mutant: the bytes that did not fit the caller's buffer are dropped.
ReceiveDropsRest(h) ==
  /\ pc = "service" /\ socks[h].rx # <<>>
  /\ \E n \in 1..Len(socks[h].rx) :
       socks' = WithSlot(h, [socks[h] EXCEPT !.rx  = <<>>,
                                             !.got = @ \o SubSeq(socks[h].rx, 1, n)])
  /\ UNCHANGED <<pc, stored, todo, writeVars, urcs, modemVars, calm, gap>>

\* receive: recv_slice hands over n of the buffered bytes.
Receive(h) ==
  /\ pc = "service" /\ socks[h].rx # <<>>
  /\ \E n \in 1..Len(socks[h].rx) :
       socks' = WithSlot(h, [socks[h] EXCEPT !.rx  = SubSeq(@, n + 1, Len(@)),
                                             !.got = @ \o SubSeq(socks[h].rx, 1, n)])
  /\ UNCHANGED <<pc, stored, todo, writeVars, urcs, modemVars, calm, gap>>

\* send: the buffer goes out in chunks, each by two commands.
Send(h) ==
  /\ pc = "service" /\ socks[h].state = "Connected"
  /\ \E n \in SendSizes : buffer' = n /\ left' = n
  /\ cur' = h /\ accepted' = 0 /\ takers' = {} /\ pc' = "write"
  /\ UNCHANGED <<stored, todo, socks, urcs, modemVars, calm, gap>>

\* Mutants: the last chunk is taken for a whole one; a short write is a success.
ChunkLenWhole == EgressChunk
ChunkWrittenShort(r, m) == r = "ok"

\* buffer.chunks(EGRESS_CHUNK_SIZE)
ChunkLen == Min2(left, EgressChunk)

\* response.length = chunk.len()
ChunkWritten(r, m) == r = "ok" /\ m = ChunkLen

\* send returns to the caller, who has the buffer.
SendReturns ==
  pc' = "service" /\ buffer' = 0 /\ left' = 0 /\ accepted' = 0 /\ takers' = {}

\* The module reports how much it accepted; less than the chunk ends the send with
\* an error, as does any other failure.
WriteChunk ==
  /\ pc = "write" /\ left > 0
  /\ LET n == ChunkLen IN
     \E r \in Replies(CanWrite(cur, socks[cur].type)), m \in 0..n :
       /\ (calm /\ r = "ok") => m = n
       /\ (r = "error" \/ ~CanWrite(cur, socks[cur].type)) => m = 0
       /\ modem' = IF m = 0 THEN modem ELSE WithSocket(cur, [modem[cur] EXCEPT !.up = "conn"])
       /\ IF ChunkWritten(r, m)
          THEN /\ left' = left - n /\ accepted' = accepted + m
               /\ takers' = IF m = 0 THEN takers ELSE takers \cup {modem[cur].inc}
               /\ UNCHANGED <<pc, buffer>>
          ELSE SendReturns
  /\ UNCHANGED <<stored, todo, cur, socks, urcs, created, calm, gap>>

SendDone ==
  /\ pc = "write" /\ left = 0 /\ SendReturns
  /\ UNCHANGED <<stored, todo, cur, socks, urcs, modemVars, calm, gap>>

\* close: the error of AT+USOCL is ignored, the slot is vacated.
Close(h) ==
  /\ pc = "service" /\ h \in Used
  /\ socks' = WithSlot(h, Vacant) /\ gap' = gap \ {h}
  /\ \/ modem' = WithSocket(h, [modem[h] EXCEPT !.up = "free"])
     \/ ~calm /\ UNCHANGED modem
  /\ UNCHANGED <<pc, stored, todo, writeVars, urcs, created, calm>>

-----------------------------------------------------------------------------
(***************************************************************************)
(* The peers and the network (external).                                   *)
(***************************************************************************)
DataArrives(h) ==
  /\ modem[h].up = "conn" /\ modem[h].next < MaxBytes
  /\ modem' = WithSocket(h, [modem[h] EXCEPT !.next = @ + 1])
  /\ Publish([kind |-> "data", h |-> h, len |-> Unread(h) + 1])
  /\ UNCHANGED <<pc, stored, todo, writeVars, socks, created, calm, gap>>

\* The peer closes a connection, or the network takes the context down.
RemoteCloses(h) ==
  /\ modem[h].up # "free"
  /\ modem' = WithSocket(h, [modem[h] EXCEPT !.up = "free"])
  /\ Publish([kind |-> "closed", h |-> h, len |-> 0])
  /\ UNCHANGED <<pc, stored, todo, writeVars, socks, created, calm, gap>>

BecomeCalm ==
  /\ ~calm /\ calm' = TRUE
  /\ UNCHANGED <<pc, stored, todo, writeVars, socks, urcs, modemVars, gap>>

Driver == \/ EndIngress \/ WriteChunk \/ SendDone
          \/ \E h \in Handles : IngressSkip(h) \/ IngressPoll(h) \/ IngressRead(h)

Application ==
  \/ SetSocketStorage \/ TakeSocketStorage \/ ClearBuffers
  \/ CallDataService \/ DropService
  \/ \E t \in {"tcp", "udp"} : Socket(t)
  \/ \E h \in Handles : Connect(h) \/ Bind(h) \/ Receive(h) \/ Send(h) \/ Close(h)

Environment == BecomeCalm \/ \E h \in Handles : DataArrives(h) \/ RemoteCloses(h)

Next == Driver \/ Application \/ Environment

Spec == Init /\ [][Next]_vars

\* The driver runs; the application keeps asking for a DataService, reads what
\* there is and drops it; a poll that comes due again and again is made.
FairSpec ==
  /\ Spec
  /\ WF_vars(Driver)
  /\ SF_vars(CallDataService /\ pc' = "ingress")
  /\ SF_vars(DropService)
  /\ \A h \in Handles : SF_vars(IngressPoll(h)) /\ SF_vars(Receive(h))

-----------------------------------------------------------------------------
(***************************************************************************)
(* Properties                                                              *)
(***************************************************************************)
Stream(h) == socks[h].got \o socks[h].rx

\* What the application and the rx_buffer of a TCP socket hold are the bytes of
\* one connection, in order and none twice, although the module reuses socket
\* numbers; no byte the module has handed out is missing unless the reply that
\* carried it was lost.
StreamIntact ==
  \A h \in Handles : socks[h].type = "tcp" =>
    /\ \A i \in 1..(Len(Stream(h)) - 1) : Stream(h)[i] < Stream(h)[i + 1]
    /\ h \notin gap => \A i \in 1..Len(Stream(h)) : Stream(h)[i] = i
    /\ (h \notin gap /\ socks[h].inc = modem[h].inc) => Len(Stream(h)) = modem[h].taken

\* What the application has read under each number, as ByteStream speaks of it.
StreamView ==
  [h \in Handles |->
     IF h \in Used /\ socks[h].type = "tcp"
     THEN [socket |-> socks[h].inc, got |-> socks[h].got,
           fate |-> IF h \in gap THEN "holed" ELSE "whole"]
     ELSE [socket |-> 0, got |-> <<>>, fate |-> "whole"]]

Bytes == INSTANCE ByteStream WITH streams <- StreamView

\* The sockets keep the promise of ByteStream: URCs, polls, reads that fail, a close
\* by the peer, recycling and numbers given again never take back, repeat, reorder
\* or mix what an application has read from a TCP socket it still holds.
StreamPromise == Bytes!Spec

\* send on a TCP socket reports success only if the connection this socket made
\* has accepted the whole buffer.
SendComplete ==
  (pc = "write" /\ left = 0 /\ socks[cur].type = "tcp") =>
    accepted = buffer /\ takers \subseteq {socks[cur].inc}

Connected(h) == socks[h].state = "Connected"

Holds(s, k) == \E i \in 1..Len(s) : s[i] = k

\* Byte k of a connection is with the module or in the rx_buffer.
Pending(h, k) == (modem[h].taken < k /\ k <= modem[h].next) \/ Holds(socks[h].rx, k)

\* In HEX mode every byte that is on its way to a connected socket reaches the
\* application, even when its URC is lost or stale or the buffer is full, as long as
\* the connection lasts: none is dropped between AT+USORD and receive.
DataIsDelivered ==
  \A h \in Handles, k \in 1..MaxBytes :
    (calm /\ Connected(h) /\ modem[h].up = "conn" /\ Pending(h, k)) ~>
      (Holds(socks[h].got, k) \/ ~Connected(h) \/ modem[h].up # "conn")

\* "Check for new socket data available at regular intervals, just in case a URC
\* is missed" (data/mod.rs:528): a socket that is gone is noticed without its URC.
LossIsNoticed ==
  \A h \in Handles : (calm /\ Connected(h) /\ modem[h].up = "free") ~>
    (~Connected(h) \/ modem[h].up # "free")
=============================================================================
