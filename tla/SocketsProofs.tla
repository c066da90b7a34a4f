--------------------------- MODULE SocketsProofs ---------------------------
(***************************************************************************)
(* Proofs about module Sockets, for every set of socket numbers, capacity, *)
(* buffer and chunk size.  The invariant is about one number at a time:    *)
(* what its slot in the SocketSet has read, and what the module's socket   *)
(* of that number has handed out.                                          *)
(***************************************************************************)
EXTENDS Sockets, SequenceTheorems, TLAPS

-----------------------------------------------------------------------------
\* A slot that is not in use is empty.
UnusedVacant(h) == socks[h].state = "none" => socks[h] = Vacant

\* A socket number has no bytes before it is connected; incarnations are given once.
NumberUsed(h) ==
  /\ modem[h].inc = 0 \/ modem[h].up = "open" => modem[h].next = 0
  /\ modem[h].up # "free" => modem[h].inc > 0
  /\ socks[h].inc <= created /\ modem[h].inc <= created

\* An unconnected TCP socket has read nothing.
CreatedIsEmpty(h) ==
  socks[h].state = "Created" => Stream(h) = <<>> /\ modem[h].taken = 0 /\ h \notin gap

\* The stream is in order, and without holes where no reply was lost.
Ordered(h) ==
  /\ \A i \in 1..(Len(Stream(h)) - 1) : Stream(h)[i] < Stream(h)[i + 1]
  /\ h \notin gap => \A i \in 1..Len(Stream(h)) : Stream(h)[i] = i

\* The slot's bytes are those the module's socket of that number has handed out ...
Current(h) ==
  /\ \A i \in 1..Len(Stream(h)) : Stream(h)[i] <= modem[h].taken
  /\ h \notin gap => Len(Stream(h)) = modem[h].taken

\* ... or the number now belongs to a socket that this slot can never read from.
Frozen(h) ==
  /\ socks[h].state \in {"Connected", "Closed"}
  /\ modem[h].up # "conn" /\ modem[h].next = 0 /\ socks[h].inc # modem[h].inc

\* A connected slot and a connected socket of the module are one connection.
SameConnection(h) ==
  (socks[h].state = "Connected" /\ modem[h].up = "conn") => socks[h].inc = modem[h].inc

TcpSlot(h) ==
  /\ CreatedIsEmpty(h) /\ Ordered(h) /\ SameConnection(h)
  /\ socks[h].state # "none" => Current(h) \/ Frozen(h)

NumberInv(h) == /\ UnusedVacant(h) /\ NumberUsed(h)
                /\ socks[h].type = "tcp" => TcpSlot(h)

\* A send in progress: what is left and what was accepted make up the buffer.
Sending ==
  pc = "write" =>
    /\ socks[cur].state = "Connected" /\ accepted + left = buffer
    /\ socks[cur].type = "tcp" => takers \subseteq {socks[cur].inc}

IInv == TypeOK /\ (\A h \in Handles : NumberInv(h)) /\ Sending

-----------------------------------------------------------------------------
(***************************************************************************)
(* The parts of TypeOK, and what a changed slot or socket does to them.    *)
(***************************************************************************)
SlotOK(s)   == s \in Slots /\ Len(s.rx) <= RxSize
SocketOK(m) == m \in ModemSockets /\ m.taken <= m.next

SlotsOK   == socks \in [Handles -> Slots] /\ \A h \in Handles : Len(socks[h].rx) <= RxSize
SocketsOK == modem \in [Handles -> ModemSockets] /\ \A h \in Handles : modem[h].taken <= modem[h].next

ControlOK ==
  /\ pc \in {"idle", "ingress", "service", "write"}
  /\ todo \subseteq Handles /\ cur \in Handles
  /\ buffer \in Nat /\ left \in Nat
  /\ accepted \in Nat /\ takers \subseteq 0..MaxIncarnations
  /\ created \in 0..MaxIncarnations /\ gap \subseteq Handles

FlagsOK == stored \in BOOLEAN /\ calm \in BOOLEAN

UrcsOK == urcs \in Seq(SocketUrcs) /\ Len(urcs) <= UrcCapacity

LEMMA TypeParts == TypeOK <=> SlotsOK /\ SocketsOK /\ ControlOK /\ FlagsOK /\ UrcsOK
BY DEF TypeOK, SlotsOK, SocketsOK, ControlOK, FlagsOK, UrcsOK

LEMMA SlotChanged ==
  ASSUME SlotsOK, NEW h \in Handles, NEW s, SlotOK(s), socks' = WithSlot(h, s)
  PROVE  SlotsOK' /\ socks'[h] = s /\ \A k \in Handles \ {h} : socks'[k] = socks[k]
BY DEF SlotsOK, SlotOK, WithSlot

LEMMA SocketChanged ==
  ASSUME SocketsOK, NEW h \in Handles, NEW m, SocketOK(m), modem' = WithSocket(h, m)
  PROVE  SocketsOK' /\ modem'[h] = m /\ \A k \in Handles \ {h} : modem'[k] = modem[k]
BY DEF SocketsOK, SocketOK, WithSocket

LEMMA VacantOK == SlotOK(Vacant)
<1>1. <<>> \in Seq(1..MaxBytes) /\ Len(<<>>) = 0
  OBVIOUS
<1> QED BY <1>1, SizesAssumption DEF SlotOK, Vacant, Slots

LEMMA FreeOK == SocketOK(Free)
BY SizesAssumption DEF SocketOK, Free, ModemSockets

-----------------------------------------------------------------------------
(***************************************************************************)
(* One number: each way in which a step can touch it.                      *)
(***************************************************************************)
\* Nothing changes but, perhaps, the number of sockets created.
LEMMA Untouched ==
  ASSUME ControlOK, ControlOK', SlotsOK, SocketsOK, NEW h \in Handles, NumberInv(h),
         socks'[h] = socks[h], modem'[h] = modem[h],
         h \in gap <=> h \in gap', created <= created'
  PROVE  NumberInv(h)'
<1>1. Stream(h)' = Stream(h)
  BY DEF Stream
<1>2. UnusedVacant(h)' /\ NumberUsed(h)'
  <2>1. created \in Nat /\ created' \in Nat
    BY DEF ControlOK
  <2>2. socks[h].inc \in Nat /\ modem[h].inc \in Nat
    BY DEF SlotsOK, Slots, SocketsOK, ModemSockets
  <2>3. UnusedVacant(h)'
    BY DEF NumberInv, UnusedVacant
  <2>4. NumberUsed(h)'
    BY <2>1, <2>2 DEF NumberInv, NumberUsed
  <2> QED BY <2>3, <2>4
<1>3. ASSUME socks[h].type = "tcp" PROVE TcpSlot(h)'
  <2>1. TcpSlot(h)
    BY <1>3 DEF NumberInv
  <2>2. CreatedIsEmpty(h)' /\ Ordered(h)' /\ SameConnection(h)'
    BY <1>1, <2>1 DEF TcpSlot, CreatedIsEmpty, Ordered, SameConnection
  <2>3. Current(h) => Current(h)'
    BY <1>1 DEF Current
  <2>4. Frozen(h) => Frozen(h)'
    BY DEF Frozen
  <2> QED BY <2>1, <2>2, <2>3, <2>4 DEF TcpSlot
<1> QED BY <1>2, <1>3 DEF NumberInv

\* The slot learns of data, or that its socket is closed.
LEMMA SlotTold ==
  ASSUME SlotsOK, NEW h \in Handles, NumberInv(h), socks[h].state # "none",
         NEW n \in 0..MaxBytes,
         \/ socks'[h] = [socks[h] EXCEPT !.avail = n]
         \/ socks'[h] = [socks[h] EXCEPT !.state = "Closed"],
         modem'[h] = modem[h], h \in gap <=> h \in gap', created' = created
  PROVE  NumberInv(h)'
<1> /\ socks'[h].type = socks[h].type /\ socks'[h].inc = socks[h].inc
    /\ socks'[h].got = socks[h].got /\ socks'[h].rx = socks[h].rx
    /\ socks'[h].state \in {socks[h].state, "Closed"} /\ socks'[h].state # "none"
  BY DEF SlotsOK, Slots
<1> QED
  BY DEF NumberInv, UnusedVacant, NumberUsed, TcpSlot, CreatedIsEmpty, Ordered, Current, Frozen,
         SameConnection, Stream

\* The slot is vacated; the module's socket stays, is freed, or is new.
LEMMA SlotVacated ==
  ASSUME ControlOK, ControlOK', SocketsOK, SocketsOK', NEW h \in Handles,
         NumberUsed(h)', socks'[h] = Vacant
  PROVE  NumberInv(h)'
<1>1. Stream(h)' = <<>>
  BY DEF Stream, Vacant
<1> QED
  BY <1>1 DEF NumberInv, UnusedVacant, TcpSlot, CreatedIsEmpty, Ordered, SameConnection, Vacant

\* A socket of the module is freed.
LEMMA SocketFreed ==
  ASSUME ControlOK, SlotsOK, SocketsOK, NEW h \in Handles, NumberInv(h), socks'[h] = socks[h],
         modem'[h] = [modem[h] EXCEPT !.up = "free"],
         h \in gap <=> h \in gap', created' = created
  PROVE  NumberInv(h)'
<1> /\ modem'[h].up = "free" /\ modem'[h].inc = modem[h].inc
    /\ modem'[h].next = modem[h].next /\ modem'[h].taken = modem[h].taken
  BY DEF SocketsOK, ModemSockets
<1> QED
  BY DEF NumberInv, UnusedVacant, NumberUsed, TcpSlot, CreatedIsEmpty, Ordered, Current, Frozen,
         SameConnection, Stream

\* The module gives the number again, and the set refuses it.
LEMMA NumberGivenAgain ==
  ASSUME ControlOK, ControlOK', SlotsOK, SocketsOK, NEW h \in Handles, NumberInv(h),
         socks'[h] = socks[h], modem[h].up = "free", NEW t,
         modem'[h] = [Free EXCEPT !.up = "open", !.type = t, !.inc = created + 1],
         h \in gap <=> h \in gap', created' = created + 1
  PROVE  NumberInv(h)'
<1> /\ modem'[h].up = "open" /\ modem'[h].inc = created + 1
    /\ modem'[h].next = 0 /\ modem'[h].taken = 0
  BY DEF Free
<1> socks[h].inc \in Nat /\ socks[h].state \in {"none", "Created", "Connected", "Closed"}
  BY DEF SlotsOK, Slots
<1> created \in Nat
  BY DEF ControlOK
<1> socks[h].inc <= created
  BY DEF NumberInv, NumberUsed
<1>1. UnusedVacant(h)' /\ NumberUsed(h)'
  BY DEF NumberInv, UnusedVacant, NumberUsed
<1>2. ASSUME socks[h].type = "tcp" PROVE TcpSlot(h)'
  <2>1. CreatedIsEmpty(h)' /\ Ordered(h)' /\ SameConnection(h)'
    BY <1>2 DEF NumberInv, TcpSlot, CreatedIsEmpty, Ordered, SameConnection, Stream
  <2>2. CASE socks[h].state = "Created"
    <3>0. Stream(h)' = <<>>
      BY <1>2, <2>2 DEF NumberInv, TcpSlot, CreatedIsEmpty, Stream
    <3>1. Current(h)'
      BY <3>0 DEF Current
    <3> QED BY <2>1, <3>1 DEF TcpSlot
  <2>3. CASE socks[h].state \in {"Connected", "Closed"}
    <3>1. Frozen(h)'
      BY <2>3 DEF Frozen
    <3> QED BY <2>1, <3>1 DEF TcpSlot
  <2>4. CASE socks[h].state = "none"
    BY <2>1, <2>4 DEF TcpSlot
  <2> QED BY <2>2, <2>3, <2>4
<1> QED BY <1>1, <1>2 DEF NumberInv

\* A new slot for a new socket of the module.
LEMMA SlotCreated ==
  ASSUME ControlOK, ControlOK', NEW h \in Handles, NEW t \in {"tcp", "udp"},
         socks'[h] = [Vacant EXCEPT !.type = t, !.state = "Created", !.inc = created + 1],
         modem'[h] = [Free EXCEPT !.up = "open", !.type = t, !.inc = created + 1],
         h \notin gap', created' = created + 1
  PROVE  NumberInv(h)'
<1> /\ modem'[h].up = "open" /\ modem'[h].inc = created + 1
    /\ modem'[h].next = 0 /\ modem'[h].taken = 0 /\ created \in Nat
    /\ socks'[h].state = "Created" /\ socks'[h].inc = created + 1
  BY DEF Free, Vacant, ControlOK
<1>1. Stream(h)' = <<>>
  BY DEF Stream, Vacant
<1> QED
  BY <1>1 DEF NumberInv, UnusedVacant, NumberUsed, TcpSlot, CreatedIsEmpty, Ordered, Current,
              SameConnection

\* A TCP socket is connected; the driver may not learn of it.
LEMMA SocketConnected ==
  ASSUME ControlOK, SlotsOK, SocketsOK, NEW h \in Handles, NumberInv(h),
         socks[h].state = "Created", modem[h].up = "open",
         modem'[h] = [modem[h] EXCEPT !.up = "conn"],
         \/ socks'[h] = socks[h]
         \/ socks'[h] = [socks[h] EXCEPT !.state = "Connected", !.inc = modem[h].inc],
         gap' = gap, created' = created
  PROVE  NumberInv(h)'
<1> /\ modem'[h].up = "conn" /\ modem'[h].inc = modem[h].inc
    /\ modem'[h].next = modem[h].next /\ modem'[h].taken = modem[h].taken
    /\ socks'[h].type = socks[h].type
    /\ socks'[h].got = socks[h].got /\ socks'[h].rx = socks[h].rx
    /\ \/ socks'[h].state = "Created" /\ socks'[h].inc = socks[h].inc
       \/ socks'[h].state = "Connected" /\ socks'[h].inc = modem[h].inc
  BY DEF SlotsOK, Slots, SocketsOK, ModemSockets
<1>1. UnusedVacant(h)' /\ NumberUsed(h)'
  BY DEF NumberInv, UnusedVacant, NumberUsed
<1>2. ASSUME socks[h].type = "tcp" PROVE TcpSlot(h)'
  <2>1. Stream(h)' = <<>> /\ modem'[h].taken = 0 /\ h \notin gap'
    BY <1>2 DEF NumberInv, TcpSlot, CreatedIsEmpty, Stream
  <2> QED BY <2>1 DEF TcpSlot, CreatedIsEmpty, Ordered, Current, SameConnection
<1> QED BY <1>1, <1>2 DEF NumberInv

\* A slot or socket that is not a TCP slot's: only the numbers matter.
LEMMA NotTcp ==
  ASSUME NEW h \in Handles, socks'[h].type # "tcp", socks'[h].state # "none", NumberUsed(h)'
  PROVE  NumberInv(h)'
BY DEF NumberInv, UnusedVacant

\* Another byte for a connected socket.
LEMMA ByteArrived ==
  ASSUME ControlOK, SlotsOK, SocketsOK, NEW h \in Handles, NumberInv(h), socks'[h] = socks[h],
         modem[h].up = "conn", modem'[h] = [modem[h] EXCEPT !.next = @ + 1],
         gap' = gap, created' = created
  PROVE  NumberInv(h)'
<1> /\ modem'[h].up = "conn" /\ modem'[h].inc = modem[h].inc /\ modem[h].inc \in Nat
    /\ modem'[h].taken = modem[h].taken
  BY DEF SocketsOK, ModemSockets
<1>1. Stream(h)' = Stream(h)
  BY DEF Stream
<1>2. UnusedVacant(h)' /\ NumberUsed(h)'
  BY DEF NumberInv, UnusedVacant, NumberUsed
<1>3. ASSUME socks[h].type = "tcp" PROVE TcpSlot(h)'
  <2>1. TcpSlot(h) /\ ~Frozen(h)
    BY <1>3 DEF NumberInv, Frozen
  <2>2. CreatedIsEmpty(h)' /\ Ordered(h)' /\ SameConnection(h)'
    BY <1>1, <2>1 DEF TcpSlot, CreatedIsEmpty, Ordered, SameConnection
  <2>3. Current(h) => Current(h)'
    BY <1>1 DEF Current
  <2> QED BY <2>1, <2>2, <2>3 DEF TcpSlot
<1> QED BY <1>2, <1>3 DEF NumberInv

-----------------------------------------------------------------------------
(***************************************************************************)
(* Reading: bytes move from the module to the buffer, and from the buffer  *)
(* to the application.                                                     *)
(***************************************************************************)
\* The buffer is cut into its first n bytes and the others.
LEMMA Parted ==
  ASSUME NEW S, NEW x \in Seq(S), NEW n, n \in 1..Len(x)
  PROVE  /\ SubSeq(x, 1, n) \in Seq(S)
         /\ SubSeq(x, n + 1, Len(x)) \in Seq(S)
         /\ Len(SubSeq(x, n + 1, Len(x))) <= Len(x)
         /\ SubSeq(x, 1, n) \o SubSeq(x, n + 1, Len(x)) = x
<1> DEFINE a == SubSeq(x, 1, n)
           b == SubSeq(x, n + 1, Len(x))
<1>0. Len(x) \in Nat /\ n \in Nat /\ n <= Len(x) /\ 1 <= n
  BY LenProperties
<1>1. \A i \in 1..Len(x) : x[i] \in S
  BY ElementOfSeq
<1>2. a \in Seq(S) /\ Len(a) = n /\ \A i \in 1..n : a[i] = x[i]
  <2>1. \A i \in 1..n : x[i] \in S
    BY <1>0, <1>1
  <2>2. /\ a \in Seq(S) /\ Len(a) = IF 1 <= n THEN n - 1 + 1 ELSE 0
        /\ \A i \in 1..(n - 1 + 1) : a[i] = x[1 + i - 1]
    BY ONLY <1>0, <2>1, SubSeqProperties
  <2> QED BY <1>0, <2>2
<1>3. b \in Seq(S) /\ Len(b) = Len(x) - n /\ \A i \in 1..(Len(x) - n) : b[i] = x[n + i]
  <2>1. \A i \in (n + 1)..Len(x) : x[i] \in S
    BY <1>0, <1>1
  <2>2. /\ b \in Seq(S) /\ Len(b) = IF n + 1 <= Len(x) THEN Len(x) - (n + 1) + 1 ELSE 0
        /\ \A i \in 1..(Len(x) - (n + 1) + 1) : b[i] = x[(n + 1) + i - 1]
    <3> HIDE DEF b
    <3>1. n + 1 \in Int /\ Len(x) \in Int
      BY <1>0
    <3> QED BY ONLY <3>1, <2>1, SubSeqProperties DEF b
  <2> QED BY <1>0, <2>2
<1>4. a \o b = x
  <2>1. 1 \in 1..(Len(x) + 1) /\ n \in (1 - 1)..Len(x) /\ Len(x) \in n..Len(x)
    BY <1>0
  <2>2. a \o b = SubSeq(x, 1, Len(x))
    BY ONLY <2>1, x \in Seq(S), ConcatAdjacentSubSeq
  <2> QED BY <2>2, SubSeqFull
<1> HIDE DEF a, b
<1>5. Len(b) <= Len(x)
  BY <1>0, <1>3
<1> QED BY <1>2, <1>3, <1>4, <1>5, Zenon DEF a, b

\* Handing over the first n bytes of the buffer ...
LEMMA HandOver ==
  ASSUME NEW S, NEW g \in Seq(S), NEW x \in Seq(S), NEW n, n \in 1..Len(x)
  PROVE  /\ g \o SubSeq(x, 1, n) \in Seq(S)
         /\ SubSeq(x, n + 1, Len(x)) \in Seq(S)
         /\ Len(SubSeq(x, n + 1, Len(x))) <= Len(x)
<1>1. PICK a \in Seq(S) : a = SubSeq(x, 1, n)
  BY Parted, Zenon
<1>2. g \o a \in Seq(S)
  BY ONLY g \in Seq(S), a \in Seq(S), ConcatProperties
<1> QED BY <1>1, <1>2, Parted, Zenon

\* ... leaves the stream as it is.
LEMMA StreamKept ==
  ASSUME NEW S, NEW g \in Seq(S), NEW x \in Seq(S), NEW n, n \in 1..Len(x)
  PROVE  (g \o SubSeq(x, 1, n)) \o SubSeq(x, n + 1, Len(x)) = g \o x
<1>1. PICK a \in Seq(S), b \in Seq(S) : a = SubSeq(x, 1, n) /\ b = SubSeq(x, n + 1, Len(x))
  BY Parted, Zenon
<1>2. (g \o a) \o b = g \o (a \o b)
  BY ONLY g \in Seq(S), a \in Seq(S), b \in Seq(S), ConcatAssociative, SMT
<1>3. a \o b = x
  BY <1>1, Parted, Zenon
<1> QED BY ONLY <1>1, <1>2, <1>3, Zenon

\* n more bytes at the end of the stream.
LEMMA Enqueued ==
  ASSUME NEW S \in SUBSET Nat, NEW g \in Seq(S), NEW x \in Seq(S), NEW from \in Nat, NEW n \in Nat,
         \A i \in 1..n : from + i \in S
  PROVE  LET t == [i \in 1..n |-> from + i]
             s == g \o x
         IN  /\ x \o t \in Seq(S) /\ Len(x \o t) = Len(x) + n
             /\ s \in Seq(S) /\ Len(s) \in Nat
             /\ Len(g \o (x \o t)) = Len(s) + n
             /\ \A i \in 1..Len(s) : (g \o (x \o t))[i] = s[i]
             /\ \A i \in (Len(s) + 1)..(Len(s) + n) :
                  (g \o (x \o t))[i] = from + (i - Len(s))
<1> DEFINE t == [i \in 1..n |-> from + i]
           s == g \o x
<1>1. t \in Seq(S) /\ Len(t) = n /\ \A i \in 1..n : t[i] = from + i
  <2>1. \A i \in 1..n : from + i \in S
    OBVIOUS
  <2>2. t \in Seq(S)
    BY <2>1, IsASeq
  <2>3. DOMAIN t = 1..n /\ n \in Nat
    OBVIOUS
  <2>4. Len(t) = n
    BY <2>2, <2>3, LenProperties
  <2> QED BY <2>2, <2>4
<1>2. s \in Seq(S) /\ Len(s) = Len(g) + Len(x) /\ Len(g) \in Nat /\ Len(x) \in Nat
  BY ConcatProperties, LenProperties
<1> HIDE DEF t
<1>3. x \o t \in Seq(S) /\ Len(x \o t) = Len(x) + n
  BY <1>1, ConcatProperties
<1>4. g \o (x \o t) = s \o t
  BY <1>1, ConcatAssociative
<1> HIDE DEF s
<1>5. /\ Len(s \o t) = Len(s) + n
      /\ \A i \in 1..(Len(s) + n) : (s \o t)[i] = IF i <= Len(s) THEN s[i] ELSE t[i - Len(s)]
  <2>1. /\ Len(s \o t) = Len(s) + Len(t)
        /\ \A i \in 1..(Len(s) + Len(t)) : (s \o t)[i] = IF i <= Len(s) THEN s[i] ELSE t[i - Len(s)]
    <3>1. s \in Seq(S) /\ t \in Seq(S)
      BY <1>1, <1>2
    <3> QED BY ONLY <3>1, ConcatProperties, Zenon
  <2> QED BY <1>1, <2>1
<1>6. \A i \in 1..Len(s) : (s \o t)[i] = s[i]
  BY <1>2, <1>5
<1>7. \A i \in (Len(s) + 1)..(Len(s) + n) : (s \o t)[i] = from + (i - Len(s))
  BY <1>1, <1>2, <1>5
<1>8. Len(s) \in Nat
  BY <1>2
<1> QED BY <1>2, <1>3, <1>4, <1>5, <1>6, <1>7, <1>8 DEF s, t
\* The application reads.
LEMMA BytesHanded ==
  ASSUME SlotsOK, NEW h \in Handles, NumberInv(h), socks[h].rx # <<>>,
         NEW n, n \in 1..Len(socks[h].rx),
         socks'[h] = [socks[h] EXCEPT !.rx  = SubSeq(@, n + 1, Len(@)),
                                      !.got = @ \o SubSeq(socks[h].rx, 1, n)],
         modem'[h] = modem[h], gap' = gap, created' = created
  PROVE  NumberInv(h)'
<1>1. /\ socks'[h].type = socks[h].type /\ socks'[h].inc = socks[h].inc
      /\ socks'[h].state = socks[h].state
      /\ socks'[h].rx = SubSeq(socks[h].rx, n + 1, Len(socks[h].rx))
      /\ socks'[h].got = socks[h].got \o SubSeq(socks[h].rx, 1, n)
      /\ socks[h].got \in Seq(1..MaxBytes) /\ socks[h].rx \in Seq(1..MaxBytes)
  BY DEF SlotsOK, Slots
<1>2. Stream(h)' = Stream(h)
  <2>0. PICK S : S = 1..MaxBytes
    OBVIOUS
  <2>1. PICK g \in Seq(S), x \in Seq(S) : g = socks[h].got /\ x = socks[h].rx
    BY <1>1, <2>0, Zenon
  <2>2. n \in 1..Len(x)
    BY <2>1, Zenon
  <2>3. (g \o SubSeq(x, 1, n)) \o SubSeq(x, n + 1, Len(x)) = g \o x
    BY ONLY <2>2, g \in Seq(S), x \in Seq(S), StreamKept, Zenon
  <2> QED BY ONLY <1>1, <2>1, <2>3, Zenon DEF Stream
<1>3. socks[h].state # "none"
  BY DEF NumberInv, UnusedVacant, Vacant
<1>4. UnusedVacant(h)' /\ NumberUsed(h)'
  BY <1>1, <1>3 DEF NumberInv, UnusedVacant, NumberUsed
<1>5. ASSUME socks[h].type = "tcp" PROVE TcpSlot(h)'
  <2>1. TcpSlot(h)
    BY <1>5 DEF NumberInv
  <2>2. CreatedIsEmpty(h)' /\ Ordered(h)' /\ SameConnection(h)'
    BY <1>1, <1>2, <2>1 DEF TcpSlot, CreatedIsEmpty, Ordered, SameConnection
  <2>3. Current(h) => Current(h)'
    BY <1>2 DEF Current
  <2>4. Frozen(h) => Frozen(h)'
    BY <1>1 DEF Frozen
  <2> QED BY <1>1, <2>1, <2>2, <2>3, <2>4 DEF TcpSlot
<1> QED BY <1>1, <1>4, <1>5 DEF NumberInv

\* Bytes 1..n of those the module still has are taken from it.
LEMMA Taken ==
  ASSUME SocketsOK, NEW h \in Handles, NEW n \in 1..Unread(h),
         modem'[h] = [modem[h] EXCEPT !.taken = @ + n]
  PROVE  /\ modem'[h].up = modem[h].up /\ modem'[h].inc = modem[h].inc
         /\ modem'[h].next = modem[h].next /\ modem'[h].taken = modem[h].taken + n
         /\ modem[h].next > 0 /\ modem[h].taken \in Nat /\ n \in Nat \ {0}
         /\ SocketOK(modem'[h])
<1>1. /\ modem[h] \in ModemSockets /\ modem[h].taken \in Nat /\ modem[h].next \in Nat
      /\ modem[h].next \in 0..MaxBytes /\ modem[h].taken <= modem[h].next
  BY DEF SocketsOK, ModemSockets
<1>2. n \in Nat \ {0} /\ modem[h].taken + n <= modem[h].next
  BY <1>1 DEF Unread
<1>3. modem[h].taken + n \in 0..MaxBytes
  BY ONLY <1>1, <1>2, SizesAssumption
<1>4. modem'[h] \in ModemSockets
  BY <1>1, <1>3 DEF ModemSockets
<1>5. /\ modem'[h].up = modem[h].up /\ modem'[h].inc = modem[h].inc
      /\ modem'[h].next = modem[h].next /\ modem'[h].taken = modem[h].taken + n
  BY <1>1 DEF ModemSockets
<1> QED BY <1>1, <1>2, <1>4, <1>5 DEF SocketOK

\* The reply that carried them does not get through.
LEMMA BytesLost ==
  ASSUME SlotsOK, SocketsOK, NEW h \in Handles, NumberInv(h), socks[h].state # "Created",
         NEW n \in 1..Unread(h), modem'[h] = [modem[h] EXCEPT !.taken = @ + n],
         socks'[h] = socks[h], h \in gap', created' = created
  PROVE  NumberInv(h)'
<1>1. /\ modem'[h].up = modem[h].up /\ modem'[h].inc = modem[h].inc
      /\ modem'[h].next = modem[h].next /\ modem'[h].taken = modem[h].taken + n
      /\ modem[h].next > 0 /\ modem[h].taken \in Nat /\ n \in Nat \ {0}
  BY Taken
<1>2. Stream(h)' = Stream(h) /\ Stream(h) \in Seq(1..MaxBytes)
  BY ConcatProperties DEF Stream, SlotsOK, Slots
<1>3. UnusedVacant(h)' /\ NumberUsed(h)'
  BY <1>1 DEF NumberInv, UnusedVacant, NumberUsed
<1>4. ASSUME socks[h].type = "tcp" PROVE TcpSlot(h)'
  <2>1. TcpSlot(h) /\ ~Frozen(h)
    BY <1>1, <1>4 DEF NumberInv, Frozen
  <2>2. CreatedIsEmpty(h)' /\ Ordered(h)' /\ SameConnection(h)'
    BY <1>1, <1>2, <2>1 DEF TcpSlot, CreatedIsEmpty, Ordered, SameConnection
  <2>3. Current(h) => Current(h)'
    <3>1. \A i \in 1..Len(Stream(h)) : Stream(h)[i] \in 1..MaxBytes
      BY <1>2, ElementOfSeq
    <3> QED BY <1>1, <1>2, <3>1 DEF Current
  <2> QED BY <2>1, <2>2, <2>3 DEF TcpSlot
<1> QED BY <1>3, <1>4 DEF NumberInv

\* They get through, and there is room for them.
LEMMA BytesRead ==
  ASSUME SlotsOK, SocketsOK, NEW h \in Handles, NumberInv(h), socks[h].state \notin {"none", "Created"},
         NEW n \in 1..Unread(h), n <= RxWindow(socks[h]), NEW a \in 0..MaxBytes,
         socks'[h] = [socks[h] EXCEPT !.rx = @ \o [i \in 1..n |-> modem[h].taken + i], !.avail = a],
         modem'[h] = [modem[h] EXCEPT !.taken = @ + n],
         gap' = gap, created' = created
  PROVE  NumberInv(h)' /\ SlotOK(socks'[h])
<1> DEFINE t == [i \in 1..n |-> modem[h].taken + i]
<1>1. /\ modem'[h].up = modem[h].up /\ modem'[h].inc = modem[h].inc
      /\ modem'[h].next = modem[h].next /\ modem'[h].taken = modem[h].taken + n
      /\ modem[h].next > 0 /\ modem[h].taken \in Nat /\ n \in Nat \ {0}
      /\ SocketOK(modem'[h])
  BY Taken
<1>2. /\ socks'[h].type = socks[h].type /\ socks'[h].inc = socks[h].inc
      /\ socks'[h].state = socks[h].state /\ socks'[h].got = socks[h].got
      /\ socks'[h].rx = socks[h].rx \o t /\ socks[h] \in Slots
      /\ socks[h].got \in Seq(1..MaxBytes) /\ socks[h].rx \in Seq(1..MaxBytes)
  BY DEF SlotsOK, Slots
<1>3. \A i \in 1..n : modem[h].taken + i \in 1..MaxBytes
  <2>1. modem[h].taken + n \in 0..MaxBytes
    BY <1>1 DEF SocketOK, ModemSockets
  <2> QED BY ONLY <1>1, <2>1, SizesAssumption
<1>4. /\ socks[h].rx \o t \in Seq(1..MaxBytes)
      /\ Len(socks[h].rx \o t) = Len(socks[h].rx) + n
      /\ Stream(h) \in Seq(1..MaxBytes) /\ Len(Stream(h)) \in Nat
      /\ Len(Stream(h)') = Len(Stream(h)) + n
      /\ \A i \in 1..Len(Stream(h)) : Stream(h)'[i] = Stream(h)[i]
      /\ \A i \in (Len(Stream(h)) + 1)..(Len(Stream(h)) + n) :
           Stream(h)'[i] = modem[h].taken + (i - Len(Stream(h)))
  <2> DEFINE S == 1..MaxBytes
             g == socks[h].got
             x == socks[h].rx
             from == modem[h].taken
  <2>1. /\ S \in SUBSET Nat /\ g \in Seq(S) /\ x \in Seq(S) /\ from \in Nat /\ n \in Nat
        /\ \A i \in 1..n : from + i \in S
    BY <1>1, <1>2, <1>3
  <2> HIDE DEF S, g, x, from
  <2>2. /\ x \o [i \in 1..n |-> from + i] \in Seq(S)
        /\ Len(x \o [i \in 1..n |-> from + i]) = Len(x) + n
        /\ g \o x \in Seq(S) /\ Len(g \o x) \in Nat
        /\ Len(g \o (x \o [i \in 1..n |-> from + i])) = Len(g \o x) + n
        /\ \A i \in 1..Len(g \o x) : (g \o (x \o [k \in 1..n |-> from + k]))[i] = (g \o x)[i]
        /\ \A i \in (Len(g \o x) + 1)..(Len(g \o x) + n) :
             (g \o (x \o [k \in 1..n |-> from + k]))[i] = from + (i - Len(g \o x))
    BY ONLY <2>1, Enqueued
  <2>3. t = [i \in 1..n |-> from + i]
    BY DEF from
  <2>4. Stream(h) = g \o x /\ Stream(h)' = g \o (x \o t)
    BY <1>2 DEF Stream, g, x
  <2> HIDE DEF t
  <2> QED BY ONLY <2>2, <2>3, <2>4 DEF S, x, from
<1> HIDE DEF t
<1>5. SlotOK(socks'[h])
  <2>1. Len(socks[h].rx) \in Nat /\ RxSize \in Nat
    BY <1>2, LenProperties, SizesAssumption
  <2>2. Len(socks'[h].rx) <= RxSize
    BY <1>1, <1>2, <1>4, <2>1 DEF RxWindow
  <2>3. socks'[h] = [socks[h] EXCEPT !.rx = socks[h].rx \o t, !.avail = a]
    BY DEF t
  <2>4. socks'[h] \in Slots
    BY <1>2, <1>4, <2>3 DEF Slots
  <2> QED BY <2>2, <2>4 DEF SlotOK
<1>6. UnusedVacant(h)' /\ NumberUsed(h)'
  BY <1>1, <1>2 DEF NumberInv, UnusedVacant, NumberUsed
<1>7. ASSUME socks[h].type = "tcp" PROVE TcpSlot(h)'
  <2>1. TcpSlot(h) /\ ~Frozen(h) /\ Current(h)
    BY <1>1, <1>7 DEF NumberInv, Frozen, TcpSlot
  <2> DEFINE L == Len(Stream(h))
  <2>2. /\ L \in Nat /\ \A i \in 1..L : Stream(h)[i] \in Nat /\ Stream(h)[i] <= modem[h].taken
        /\ h \notin gap => L = modem[h].taken
    <3>1. \A i \in 1..L : Stream(h)[i] \in 1..MaxBytes
      BY <1>4, ElementOfSeq
    <3> QED BY <1>4, <2>1, <3>1 DEF Current
  <2>3. /\ Len(Stream(h)') = L + n
        /\ \A i \in 1..L : Stream(h)'[i] = Stream(h)[i]
        /\ \A i \in (L + 1)..(L + n) : Stream(h)'[i] = modem[h].taken + (i - L)
    BY <1>4
  <2>4. /\ \A i \in 1..(L - 1) : Stream(h)[i] < Stream(h)[i + 1]
        /\ h \notin gap => \A i \in 1..L : Stream(h)[i] = i
    BY <2>1 DEF TcpSlot, Ordered
  <2> HIDE DEF L
  <2>5. CreatedIsEmpty(h)' /\ SameConnection(h)'
    BY <1>1, <1>2, <2>1 DEF TcpSlot, CreatedIsEmpty, SameConnection
  <2>6. \A i \in 1..((L + n) - 1) : Stream(h)'[i] < Stream(h)'[i + 1]
    <3> SUFFICES ASSUME NEW i \in 1..((L + n) - 1) PROVE Stream(h)'[i] < Stream(h)'[i + 1]
      OBVIOUS
    <3>1. CASE i < L
      <4>1. i \in 1..(L - 1) /\ i \in 1..L /\ i + 1 \in 1..L
        BY <1>1, <2>2, <3>1
      <4> QED BY <2>3, <2>4, <4>1
    <3>2. CASE i = L
      <4>1. L \in 1..L /\ L + 1 \in (L + 1)..(L + n) /\ (L + 1) - L = 1
        BY <1>1, <2>2, <3>2
      <4>2. Stream(h)'[L] = Stream(h)[L] /\ Stream(h)'[L + 1] = modem[h].taken + 1
        BY <2>3, <4>1
      <4>3. Stream(h)[L] \in Nat /\ Stream(h)[L] <= modem[h].taken
        BY <2>2, <4>1
      <4> QED BY <1>1, <3>2, <4>2, <4>3
    <3>3. CASE i > L
      <4>1. i \in (L + 1)..(L + n) /\ i + 1 \in (L + 1)..(L + n) /\ i \in Int /\ L \in Int
        BY <1>1, <2>2, <3>3
      <4>2. /\ Stream(h)'[i] = modem[h].taken + (i - L)
            /\ Stream(h)'[i + 1] = modem[h].taken + (i + 1 - L)
        BY <2>3, <4>1
      <4> QED BY <1>1, <4>1, <4>2
    <3>4. i \in Int /\ L \in Int
      BY <1>1, <2>2
    <3> QED BY ONLY <3>1, <3>2, <3>3, <3>4
  <2>7. ASSUME h \notin gap, NEW i \in 1..(L + n) PROVE Stream(h)'[i] = i
    <3>0. i \in Nat /\ n \in Nat /\ L = modem[h].taken /\ L \in Nat
      BY <1>1, <2>2, <2>7
    <3>1. CASE i <= L
      BY <2>3, <2>4, <2>7, <3>0, <3>1
    <3>2. CASE i > L
      <4>1. i \in (L + 1)..(L + n)
        BY <3>0, <3>2
      <4> QED BY <2>3, <3>0, <4>1
    <3> QED BY <3>0, <3>1, <3>2
  <2>8. Ordered(h)'
    <3>1. \A i \in 1..(Len(Stream(h)') - 1) : Stream(h)'[i] < Stream(h)'[i + 1]
      <4>1. Len(Stream(h)') - 1 = (L + n) - 1
        BY <2>3
      <4> QED BY ONLY <2>6, <4>1
    <3>2. h \notin gap' => \A i \in 1..Len(Stream(h)') : Stream(h)'[i] = i
      BY ONLY <2>3, <2>7, gap' = gap
    <3> QED BY ONLY <3>1, <3>2 DEF Ordered
  <2>9. Current(h)'
    <3>1. ASSUME NEW i \in 1..(L + n) PROVE Stream(h)'[i] <= modem'[h].taken
      <4>0. i \in Nat /\ n \in Nat /\ L \in Nat /\ modem[h].taken \in Nat
        BY <1>1, <2>2, <3>1
      <4>1. CASE i <= L
        BY <1>1, <2>2, <2>3, <4>0, <4>1
      <4>2. CASE i > L
        <5>1. i \in (L + 1)..(L + n)
          BY <4>0, <4>2
        <5> QED BY <1>1, <2>3, <4>0, <5>1
      <4> QED BY <4>0, <4>1, <4>2
    <3>2. h \notin gap => L + n = modem'[h].taken
      BY <1>1, <2>2
    <3> QED BY ONLY <2>3, <3>1, <3>2, gap' = gap DEF Current
  <2> QED BY <2>5, <2>8, <2>9 DEF TcpSlot
<1> QED BY <1>2, <1>5, <1>6, <1>7 DEF NumberInv
-----------------------------------------------------------------------------
(***************************************************************************)
(* The invariant, put together and taken apart.                            *)
(***************************************************************************)
Numbers == \A h \in Handles : NumberInv(h)

LEMMA InvParts ==
  ASSUME IInv
  PROVE  SlotsOK /\ SocketsOK /\ ControlOK /\ FlagsOK /\ UrcsOK /\ Numbers /\ Sending
BY TypeParts DEF IInv, Numbers

LEMMA InvAgain ==
  ASSUME SlotsOK', SocketsOK', ControlOK', FlagsOK', UrcsOK', Numbers', Sending'
  PROVE  IInv'
BY DEF IInv, Numbers, TypeOK, SlotsOK, SocketsOK, ControlOK, FlagsOK, UrcsOK

\* A step that touches neither the set nor the module's sockets.
LEMMA NumbersQuiet ==
  ASSUME Numbers, socks' = socks, modem' = modem, created' = created, gap' = gap
  PROVE  Numbers'
<1> SUFFICES ASSUME NEW k \in Handles PROVE NumberInv(k)'
  BY DEF Numbers
<1>1. NumberInv(k) /\ Stream(k)' = Stream(k)
  BY DEF Numbers, Stream
<1>2. UnusedVacant(k)' /\ NumberUsed(k)'
  BY <1>1 DEF NumberInv, UnusedVacant, NumberUsed
<1>3. TcpSlot(k) => TcpSlot(k)'
  BY <1>1 DEF TcpSlot, CreatedIsEmpty, Ordered, Current, Frozen, SameConnection
<1> QED BY <1>1, <1>2, <1>3 DEF NumberInv

\* A step that touches one number.
LEMMA OneNumber ==
  ASSUME ControlOK, ControlOK', SlotsOK, SocketsOK, Numbers,
         NEW h \in Handles, NumberInv(h)', created <= created',
         \A k \in Handles \ {h} : /\ socks'[k] = socks[k] /\ modem'[k] = modem[k]
                                  /\ k \in gap <=> k \in gap'
  PROVE  Numbers'
<1> SUFFICES ASSUME NEW k \in Handles PROVE NumberInv(k)'
  BY DEF Numbers
<1>1. CASE k = h
  BY <1>1
<1>2. CASE k # h
  <2>1. /\ socks'[k] = socks[k] /\ modem'[k] = modem[k] /\ NumberInv(k)
        /\ k \in gap <=> k \in gap'
    BY <1>2 DEF Numbers
  <2> QED BY <2>1, Untouched
<1> QED BY <1>1, <1>2

-----------------------------------------------------------------------------
(***************************************************************************)
(* One lemma per action.                                                   *)
(***************************************************************************)
LEMMA InitInv == ASSUME Init PROVE IInv
<1>1. TypeOK
  <2>1. \A h \in Handles : socks[h] = Vacant /\ modem[h] = Free
    BY DEF Init
  <2>2. SlotsOK /\ SocketsOK
    BY <2>1, VacantOK, FreeOK DEF Init, SlotsOK, SocketsOK, SlotOK, SocketOK
  <2>3. ControlOK
    BY SizesAssumption DEF Init, ControlOK
  <2>4. UrcsOK
    BY SizesAssumption DEF Init, UrcsOK
  <2>5. FlagsOK
    BY SizesAssumption DEF Init, FlagsOK
  <2> QED BY <2>2, <2>3, <2>4, <2>5, TypeParts
<1>2. ASSUME NEW h \in Handles PROVE NumberInv(h)
  <2>1. socks[h] = Vacant /\ modem[h] = Free /\ created = 0
    BY DEF Init
  <2>2. Stream(h) = <<>>
    BY <2>1 DEF Stream, Vacant
  <2>3. UnusedVacant(h) /\ NumberUsed(h)
    BY <2>1 DEF UnusedVacant, NumberUsed, Vacant, Free
  <2>4. TcpSlot(h)
    BY <2>1, <2>2 DEF TcpSlot, CreatedIsEmpty, Ordered, SameConnection, Vacant
  <2> QED BY <2>3, <2>4 DEF NumberInv
<1>3. Sending
  BY DEF Init, Sending
<1> QED BY <1>1, <1>2, <1>3 DEF IInv

\* The steps that only move pc, todo, calm or the write under way.
LEMMA QuietStep ==
  ASSUME IInv,
         \/ \E h \in Handles : IngressSkip(h) \/ Send(h)
         \/ EndIngress \/ DropService \/ SendDone \/ BecomeCalm
  PROVE  IInv'
<1>0. SlotsOK /\ SocketsOK /\ ControlOK /\ FlagsOK /\ UrcsOK /\ Numbers /\ Sending
  BY InvParts
<1>1. socks' = socks /\ modem' = modem /\ created' = created /\ gap' = gap /\ urcs' = urcs
  BY DEF IngressSkip, Send, EndIngress, DropService, SendDone, BecomeCalm, modemVars
<1>2. SlotsOK' /\ SocketsOK' /\ UrcsOK'
  BY <1>0, <1>1 DEF SlotsOK, SocketsOK, UrcsOK
<1>3. ControlOK'
  <2>1. CASE \E h \in Handles : Send(h)
    BY <1>0, <1>1, <2>1, SizesAssumption DEF ControlOK, Send
  <2>2. CASE (\E h \in Handles : IngressSkip(h)) \/ BecomeCalm
    BY <1>0, <1>1, <2>2 DEF ControlOK, IngressSkip, BecomeCalm, writeVars
  <2>3. CASE EndIngress \/ DropService
    BY <1>0, <1>1, <2>3 DEF ControlOK, EndIngress, DropService, writeVars
  <2>4. CASE SendDone
    BY <1>0, <1>1, <2>4 DEF ControlOK, SendDone, SendReturns
  <2> QED BY <2>1, <2>2, <2>3, <2>4
<1>5. FlagsOK'
  BY <1>0 DEF FlagsOK, IngressSkip, Send, EndIngress, DropService, SendDone, BecomeCalm
<1>4. Sending'
  <2>1. CASE \E h \in Handles : Send(h)
    BY <1>1, <2>1, SizesAssumption DEF Send, Sending
  <2>2. CASE BecomeCalm
    BY <1>0, <1>1, <2>2 DEF BecomeCalm, Sending, writeVars
  <2>3. CASE (\E h \in Handles : IngressSkip(h)) \/ EndIngress \/ DropService \/ SendDone
    BY <2>3 DEF IngressSkip, EndIngress, DropService, SendDone, SendReturns, Sending
  <2> QED BY <2>1, <2>2, <2>3
<1> QED BY <1>0, <1>1, <1>2, <1>3, <1>4, <1>5, NumbersQuiet, InvAgain

\* The slots of other numbers stay; the slot of h is told something.
LEMMA ToldStep ==
  ASSUME IInv, ControlOK', NEW h \in Handles, socks[h].state # "none", NEW n \in 0..MaxBytes,
         socks' = ClosedByRemote(h) \/ socks' = SetAvailableData(h, n),
         modem' = modem, created' = created, gap' = gap
  PROVE  SlotsOK' /\ Numbers'
<1>0. SlotsOK /\ SocketsOK /\ ControlOK /\ FlagsOK /\ UrcsOK /\ Numbers /\ Sending
  BY InvParts
<1>1. PICK s : /\ s \in {[socks[h] EXCEPT !.state = "Closed"], [socks[h] EXCEPT !.avail = n]}
               /\ socks' = WithSlot(h, s)
  BY DEF ClosedByRemote, SetAvailableData
<1>2. SlotOK(s)
  BY <1>0, <1>1 DEF SlotsOK, SlotOK, Slots
<1>3. SlotsOK' /\ socks'[h] = s /\ \A k \in Handles \ {h} : socks'[k] = socks[k]
  BY <1>0, <1>1, <1>2, SlotChanged
<1>4. NumberInv(h)'
  BY <1>0, <1>1, <1>3, SlotTold DEF Numbers
<1>5. created <= created'
  BY <1>0 DEF ControlOK
<1> QED BY <1>0, <1>3, <1>4, <1>5, OneNumber
\* Reading one URC, then a DataService or none.
LEMMA CallStep == ASSUME IInv, CallDataService PROVE IInv'
<1>0. SlotsOK /\ SocketsOK /\ ControlOK /\ FlagsOK /\ UrcsOK /\ Numbers /\ Sending
  BY InvParts
<1>1. modem' = modem /\ created' = created /\ gap' = gap /\ pc' # "write"
  BY DEF CallDataService, modemVars
<1>2. ControlOK'
  BY <1>0, <1>1 DEF ControlOK, CallDataService, Used, writeVars
<1>3. FlagsOK' /\ SocketsOK' /\ Sending'
  BY <1>0, <1>1 DEF FlagsOK, SocketsOK, Sending, CallDataService
<1>4. SlotsOK' /\ UrcsOK' /\ Numbers'
  <2>1. CASE socks' = socks /\ urcs' = urcs
    <3>1. SlotsOK' /\ UrcsOK'
      BY <1>0, <2>1 DEF SlotsOK, UrcsOK
    <3> QED BY <1>0, <1>1, <2>1, <3>1, NumbersQuiet
  <2>2. CASE ~(socks' = socks /\ urcs' = urcs)
    <3> DEFINE u == Head(urcs)
    <3>1. /\ urcs # <<>> /\ urcs' = Tail(urcs)
          /\ socks' = IF u.h \notin Used THEN socks
                      ELSE IF u.kind = "closed" THEN ClosedByRemote(u.h)
                      ELSE SetAvailableData(u.h, u.len)
      BY <2>2 DEF CallDataService, HandleUrcInternal
    <3>2. /\ u \in SocketUrcs /\ Tail(urcs) \in Seq(SocketUrcs)
          /\ Len(Tail(urcs)) = Len(urcs) - 1 /\ Len(urcs) \in Nat
      BY <1>0, <3>1, HeadTailProperties, LenProperties DEF UrcsOK
    <3>3. u.h \in Handles /\ u.len \in 0..MaxBytes
      BY <3>2 DEF SocketUrcs
    <3>4. UrcsOK'
      BY <1>0, <3>1, <3>2, SizesAssumption DEF UrcsOK
    <3> HIDE DEF u
    <3>5. CASE u.h \notin Used
      <4>1. socks' = socks
        BY <3>1, <3>5
      <4>2. SlotsOK'
        BY <1>0, <4>1 DEF SlotsOK
      <4> QED BY <1>0, <1>1, <3>4, <4>1, <4>2, NumbersQuiet
    <3>6. CASE u.h \in Used
      <4>1. socks[u.h].state # "none"
        BY <3>6 DEF Used
      <4>2. socks' = ClosedByRemote(u.h) \/ socks' = SetAvailableData(u.h, u.len)
        BY <3>1, <3>6
      <4> QED BY <1>1, <1>2, <3>3, <3>4, <4>1, <4>2, ToldStep
    <3> QED BY <3>5, <3>6
  <2> QED BY <2>1, <2>2
<1> QED BY <1>2, <1>3, <1>4, InvAgain

\* The steps that prune the set.
LEMMA PrunedStep ==
  ASSUME IInv, SetSocketStorage \/ TakeSocketStorage \/ ClearBuffers
  PROVE  IInv'
<1>0. SlotsOK /\ SocketsOK /\ ControlOK /\ FlagsOK /\ UrcsOK /\ Numbers /\ Sending
  BY InvParts
<1>1. /\ socks' = [h \in Handles |-> Vacant] /\ gap' = {} /\ urcs' = urcs
      /\ modem' = modem \/ modem' = [h \in Handles |-> Free]
      /\ created' = created /\ pc' = pc /\ pc = "idle" /\ todo' = todo /\ writeVars' = writeVars
  BY DEF SetSocketStorage, TakeSocketStorage, ClearBuffers, Pruned, modemVars
<1>2. SlotsOK'
  BY <1>1, VacantOK DEF SlotsOK, SlotOK
<1>3. SocketsOK'
  BY <1>0, <1>1, FreeOK DEF SocketsOK, SocketOK
<1>4. ControlOK' /\ UrcsOK' /\ Sending'
  BY <1>0, <1>1 DEF ControlOK, UrcsOK, Sending, writeVars
<1>5. FlagsOK'
  BY <1>0 DEF FlagsOK, SetSocketStorage, TakeSocketStorage, ClearBuffers
<1>6. ASSUME NEW h \in Handles PROVE NumberInv(h)'
  <2>1. socks'[h] = Vacant /\ socks'[h].inc = 0 /\ created \in Nat
    BY <1>0, <1>1 DEF Vacant, ControlOK
  <2>2. CASE modem' = modem
    <3>1. NumberUsed(h)'
      BY <1>0, <1>1, <2>1, <2>2 DEF Numbers, NumberInv, NumberUsed
    <3> QED BY <1>0, <1>3, <1>4, <2>1, <3>1, SlotVacated
  <2>3. CASE modem' = [k \in Handles |-> Free]
    <3>1. NumberUsed(h)'
      BY <1>1, <2>1, <2>3 DEF NumberUsed, Free
    <3> QED BY <1>0, <1>3, <1>4, <2>1, <3>1, SlotVacated
  <2> QED BY <1>1, <2>2, <2>3
<1>7. Numbers'
  BY <1>6 DEF Numbers
<1> QED BY <1>2, <1>3, <1>4, <1>5, <1>7, InvAgain

LEMMA UnreadOK ==
  ASSUME SocketsOK, NEW h \in Handles
  PROVE  Unread(h) \in 0..MaxBytes
BY SizesAssumption DEF SocketsOK, ModemSockets, Unread

LEMMA PollStep ==
  ASSUME IInv, NEW h \in Handles, IngressPoll(h)
  PROVE  IInv'
<1>0. SlotsOK /\ SocketsOK /\ ControlOK /\ FlagsOK /\ UrcsOK /\ Numbers /\ Sending
  BY InvParts
<1>1. /\ socks' = ClosedByRemote(h) \/ socks' = SetAvailableData(h, Unread(h))
      /\ modem' = modem /\ created' = created /\ gap' = gap /\ urcs' = urcs /\ pc' = pc
      /\ pc = "ingress" /\ todo' = todo \ {h} /\ writeVars' = writeVars
      /\ socks[h].state # "none"
  BY DEF IngressPoll, modemVars
<1>2. ControlOK'
  BY <1>0, <1>1 DEF ControlOK, writeVars
<1>3. SocketsOK' /\ UrcsOK' /\ Sending' /\ FlagsOK'
  BY <1>0, <1>1 DEF SocketsOK, UrcsOK, Sending, FlagsOK, IngressPoll
<1>4. SlotsOK' /\ Numbers'
  BY <1>0, <1>1, <1>2, UnreadOK, ToldStep
<1> QED BY <1>2, <1>3, <1>4, InvAgain
\* What is asked for fits the buffer.
LEMMA RequestFits ==
  ASSUME SlotsOK, SocketsOK, NEW h \in Handles, CanRecv(socks[h])
  PROVE  LET n == Min2(RequestedLen(socks[h]), Unread(h))
         IN  n \in 0..Unread(h) /\ n <= RxWindow(socks[h]) /\ Min2(n, RxWindow(socks[h])) = n
<1>1. /\ socks[h].avail \in Nat /\ IngressChunk \in Nat /\ RxSize \in Nat /\ Unread(h) \in Nat
      /\ Len(socks[h].rx) \in Nat /\ Len(socks[h].rx) <= RxSize
  BY UnreadOK, LenProperties, SizesAssumption DEF SlotsOK, Slots
<1>2. RequestedLen(socks[h]) \in Nat /\ RxWindow(socks[h]) \in Nat
      /\ RequestedLen(socks[h]) <= RxWindow(socks[h])
  BY ONLY <1>1 DEF RequestedLen, RxWindow, Min2
<1> DEFINE n == Min2(RequestedLen(socks[h]), Unread(h))
<1>3. n \in Nat /\ n <= Unread(h) /\ n <= RequestedLen(socks[h])
  BY ONLY <1>1, <1>2 DEF Min2
<1> HIDE DEF n
<1>4. n <= RxWindow(socks[h]) /\ n \in 0..Unread(h)
  BY ONLY <1>1, <1>2, <1>3
<1>5. Min2(n, RxWindow(socks[h])) = n
  BY ONLY <1>2, <1>3, <1>4 DEF Min2
<1> QED BY <1>4, <1>5 DEF n

LEMMA ReadStep ==
  ASSUME IInv, NEW h \in Handles, IngressRead(h)
  PROVE  IInv'
<1>0. SlotsOK /\ SocketsOK /\ ControlOK /\ FlagsOK /\ UrcsOK /\ Numbers /\ Sending
  BY InvParts
<1> DEFINE n == Min2(RequestedLen(socks[h]), Unread(h))
<1>1. /\ n \in 0..Unread(h) /\ n <= RxWindow(socks[h]) /\ Min2(n, RxWindow(socks[h])) = n
      /\ Unread(h) \in 0..MaxBytes
  BY <1>0, RequestFits, UnreadOK DEF IngressRead
<1>2. socks[h].state \notin {"none", "Created"}
  BY <1>0 DEF IngressRead, CanRecv, Numbers, NumberInv, UnusedVacant, Vacant
<1>3. /\ created' = created /\ urcs' = urcs /\ pc' = pc /\ pc = "ingress"
      /\ todo' = todo \ {h} /\ writeVars' = writeVars /\ gap' \subseteq gap \cup {h}
      /\ stored' = stored /\ calm' = calm
  BY DEF IngressRead
<1>4. ControlOK'
  BY <1>0, <1>3 DEF ControlOK, writeVars
<1>5. UrcsOK' /\ Sending' /\ FlagsOK'
  BY <1>0, <1>3 DEF UrcsOK, Sending, FlagsOK
<1>6. \/ /\ socks' = SetAvailableData(h, 0) \/ socks' = socks
         /\ modem' = modem /\ gap' = gap
      \/ /\ n > 0 /\ modem' = WithSocket(h, [modem[h] EXCEPT !.taken = @ + n])
         /\ socks' \in RxEnqueueSlice(h, modem[h].taken, n) /\ gap' = gap
      \/ /\ n > 0 /\ modem' = WithSocket(h, [modem[h] EXCEPT !.taken = @ + n])
         /\ socks' = socks /\ gap' = gap \cup {h}
  BY DEF IngressRead
<1> HIDE DEF n
<1>7. CASE /\ socks' = SetAvailableData(h, 0) \/ socks' = socks
           /\ modem' = modem /\ gap' = gap
  <2>1. SocketsOK'
    BY <1>0, <1>7 DEF SocketsOK
  <2>2. CASE socks' = socks
    <3>1. SlotsOK'
      BY <1>0, <2>2 DEF SlotsOK
    <3>2. Numbers'
      BY <1>0, <1>3, <1>7, <2>2, NumbersQuiet
    <3> QED BY <1>4, <1>5, <2>1, <3>1, <3>2, InvAgain
  <2>3. CASE socks' = SetAvailableData(h, 0)
    <3>1. 0 \in 0..MaxBytes /\ socks[h].state # "none"
      BY <1>2, SizesAssumption
    <3>2. SlotsOK' /\ Numbers'
      BY <1>3, <1>4, <1>7, <2>3, <3>1, ToldStep
    <3> QED BY <1>4, <1>5, <2>1, <3>2, InvAgain
  <2> QED BY <1>7, <2>2, <2>3
<1>8. ASSUME n > 0, modem' = WithSocket(h, [modem[h] EXCEPT !.taken = @ + n])
      PROVE  /\ n \in 1..Unread(h) /\ SocketsOK'
             /\ modem'[h] = [modem[h] EXCEPT !.taken = @ + n]
             /\ \A k \in Handles \ {h} : modem'[k] = modem[k]
  <2>1. n \in 1..Unread(h)
    BY ONLY <1>1, <1>8
  <2>2. modem'[h] = [modem[h] EXCEPT !.taken = @ + n]
    BY <1>0, <1>8 DEF SocketsOK, WithSocket
  <2>3. SocketOK(modem'[h])
    BY <1>0, <2>1, <2>2, Taken
  <2> QED BY <1>0, <1>8, <2>1, <2>2, <2>3, SocketChanged
<1>9. CASE /\ n > 0 /\ modem' = WithSocket(h, [modem[h] EXCEPT !.taken = @ + n])
           /\ socks' \in RxEnqueueSlice(h, modem[h].taken, n) /\ gap' = gap
  <2>1. /\ n \in 1..Unread(h) /\ SocketsOK'
        /\ modem'[h] = [modem[h] EXCEPT !.taken = @ + n]
        /\ \A k \in Handles \ {h} : modem'[k] = modem[k]
    BY <1>8, <1>9
  <2>2. PICK a \in {socks[h].avail, IF socks[h].avail > n THEN socks[h].avail - n ELSE 0} :
          socks' = WithSlot(h, [socks[h] EXCEPT !.rx = @ \o [i \in 1..n |-> modem[h].taken + i],
                                                !.avail = a])
    BY <1>1, <1>9 DEF RxEnqueueSlice
  <2>3. a \in 0..MaxBytes
    <3>1. socks[h].avail \in 0..MaxBytes /\ n \in Nat
      BY <1>0, <1>1 DEF SlotsOK, Slots
    <3> QED BY ONLY <3>1, <2>2, SizesAssumption
  <2>4. /\ socks'[h] = [socks[h] EXCEPT !.rx = @ \o [i \in 1..n |-> modem[h].taken + i], !.avail = a]
        /\ \A k \in Handles \ {h} : socks'[k] = socks[k]
    BY <1>0, <2>2 DEF WithSlot, SlotsOK
  <2>5. NumberInv(h)' /\ SlotOK(socks'[h])
    BY <1>0, <1>1, <1>2, <1>3, <1>9, <2>1, <2>3, <2>4, BytesRead DEF Numbers
  <2>6. SlotsOK'
    BY <1>0, <2>2, <2>4, <2>5, SlotChanged
  <2>7. created <= created'
    BY <1>0, <1>3 DEF ControlOK
  <2>8. Numbers'
    BY <1>0, <1>4, <1>9, <2>1, <2>4, <2>5, <2>7, OneNumber
  <2> QED BY <1>4, <1>5, <2>1, <2>6, <2>8, InvAgain
<1>10. CASE /\ n > 0 /\ modem' = WithSocket(h, [modem[h] EXCEPT !.taken = @ + n])
            /\ socks' = socks /\ gap' = gap \cup {h}
  <2>1. /\ n \in 1..Unread(h) /\ SocketsOK'
        /\ modem'[h] = [modem[h] EXCEPT !.taken = @ + n]
        /\ \A k \in Handles \ {h} : modem'[k] = modem[k]
    BY <1>8, <1>10
  <2>2. SlotsOK'
    BY <1>0, <1>10 DEF SlotsOK
  <2>3. NumberInv(h)'
    BY <1>0, <1>2, <1>3, <1>10, <2>1, BytesLost DEF Numbers
  <2>4. created <= created'
    BY <1>0, <1>3 DEF ControlOK
  <2>5. Numbers'
    BY <1>0, <1>4, <1>10, <2>1, <2>3, <2>4, OneNumber
  <2> QED BY <1>4, <1>5, <2>1, <2>2, <2>5, InvAgain
<1> QED BY <1>6, <1>7, <1>9, <1>10

LEMMA ReceiveStep ==
  ASSUME IInv, NEW h \in Handles, Receive(h)
  PROVE  IInv'
<1>0. SlotsOK /\ SocketsOK /\ ControlOK /\ FlagsOK /\ UrcsOK /\ Numbers /\ Sending
  BY InvParts
<1>1. /\ modem' = modem /\ created' = created /\ gap' = gap /\ urcs' = urcs /\ pc' = pc
      /\ pc = "service" /\ todo' = todo /\ writeVars' = writeVars
      /\ stored' = stored /\ calm' = calm /\ socks[h].rx # <<>>
  BY DEF Receive, modemVars
<1>2. ControlOK' /\ UrcsOK' /\ Sending' /\ SocketsOK'
  BY <1>0, <1>1 DEF ControlOK, UrcsOK, Sending, SocketsOK, writeVars
<1>3. FlagsOK'
  BY <1>0, <1>1 DEF FlagsOK
<1>4. PICK n \in 1..Len(socks[h].rx) :
        socks' = WithSlot(h, [socks[h] EXCEPT !.rx  = SubSeq(@, n + 1, Len(@)),
                                              !.got = @ \o SubSeq(socks[h].rx, 1, n)])
  BY DEF Receive
<1>5. /\ socks'[h] = [socks[h] EXCEPT !.rx  = SubSeq(@, n + 1, Len(@)),
                                      !.got = @ \o SubSeq(socks[h].rx, 1, n)]
      /\ \A k \in Handles \ {h} : socks'[k] = socks[k]
  BY <1>0, <1>4 DEF WithSlot, SlotsOK
<1>6. NumberInv(h)'
  BY <1>0, <1>1, <1>5, BytesHanded DEF Numbers
<1>7. SlotOK(socks'[h])
  <2> DEFINE S == 1..MaxBytes
             g == socks[h].got
             x == socks[h].rx
  <2>1. g \in Seq(S) /\ x \in Seq(S) /\ n \in 1..Len(x) /\ Len(x) <= RxSize /\ socks[h] \in Slots
    BY <1>0, <1>4 DEF SlotsOK, Slots
  <2> HIDE DEF S, g, x
  <2>2. /\ g \o SubSeq(x, 1, n) \in Seq(S)
        /\ SubSeq(x, n + 1, Len(x)) \in Seq(S)
        /\ Len(SubSeq(x, n + 1, Len(x))) <= Len(x)
    BY ONLY <2>1, HandOver
  <2>3. Len(SubSeq(x, n + 1, Len(x))) <= RxSize
    <3>1. Len(SubSeq(x, n + 1, Len(x))) \in Nat /\ Len(x) \in Nat /\ RxSize \in Nat
      BY <2>1, <2>2, LenProperties, SizesAssumption
    <3> QED BY ONLY <2>1, <2>2, <3>1
  <2>4. socks'[h] = [socks[h] EXCEPT !.rx = SubSeq(x, n + 1, Len(x)), !.got = g \o SubSeq(x, 1, n)]
    BY <1>5 DEF g, x
  <2>5. socks'[h] \in Slots /\ socks'[h].rx = SubSeq(x, n + 1, Len(x))
    BY ONLY <2>1, <2>2, <2>4 DEF Slots, S
  <2> QED BY <2>3, <2>5 DEF SlotOK
<1>8. SlotsOK'
  BY <1>0, <1>4, <1>5, <1>7, SlotChanged
<1>9. created <= created'
  BY <1>0, <1>1 DEF ControlOK
<1>10. Numbers'
  BY <1>0, <1>1, <1>2, <1>5, <1>6, <1>9, OneNumber
<1> QED BY <1>2, <1>3, <1>8, <1>10, InvAgain
\* Making room drops at most a slot closed by remote.
LEMMA RecycledSlots ==
  ASSUME SlotsOK, NEW s \in Recycled
  PROVE  /\ s \in [Handles -> Slots]
         /\ \A h \in Handles : SlotOK(s[h]) /\ s[h] \in {socks[h], Vacant}
<1>1. CASE s = socks
  BY <1>1 DEF SlotsOK, SlotOK
<1>2. CASE \E h \in Handles : s = WithSlot(h, Vacant)
  BY <1>2, VacantOK DEF SlotsOK, SlotOK, WithSlot
<1> QED BY <1>1, <1>2 DEF Recycled, Used

\* A number the module did not give again: its slot stays, or is dropped.
LEMMA SlotKept ==
  ASSUME ControlOK, ControlOK', SlotsOK, SocketsOK, SocketsOK', NEW k \in Handles, NumberInv(k),
         socks'[k] \in {socks[k], Vacant}, modem'[k] = modem[k],
         k \in gap <=> k \in gap', created <= created'
  PROVE  NumberInv(k)'
<1>1. CASE socks'[k] = socks[k]
  BY <1>1, Untouched
<1>2. CASE socks'[k] = Vacant
  <2>1. created \in Nat /\ created' \in Nat
    BY DEF ControlOK
  <2>2. modem[k].inc \in Nat
    BY DEF SocketsOK, ModemSockets
  <2>3. NumberUsed(k)'
    BY <1>2, <2>1, <2>2 DEF NumberInv, NumberUsed, Vacant
  <2> QED BY <1>2, <2>3, SlotVacated
<1> QED BY <1>1, <1>2

LEMMA SocketStep ==
  ASSUME IInv, NEW t \in {"tcp", "udp"}, Socket(t)
  PROVE  IInv'
<1>0. SlotsOK /\ SocketsOK /\ ControlOK /\ FlagsOK /\ UrcsOK /\ Numbers /\ Sending
  BY InvParts
<1>1. /\ pc' = pc /\ pc = "service" /\ todo' = todo /\ writeVars' = writeVars /\ urcs' = urcs
      /\ stored' = stored /\ calm' = calm
  BY DEF Socket
<1>2. UrcsOK' /\ Sending' /\ FlagsOK'
  BY <1>0, <1>1 DEF UrcsOK, Sending, FlagsOK
<1>3. PICK s \in Recycled :
       \/ socks' = s /\ modem' = modem /\ created' = created /\ gap' = gap
       \/ \E h \in {k \in Handles : modem[k].up = "free"} :
            /\ created < MaxIncarnations /\ created' = created + 1
            /\ modem' = WithSocket(h, [Free EXCEPT !.up = "open", !.type = t, !.inc = created + 1])
            /\ \/ socks' = s /\ gap' = gap
               \/ /\ socks' = [s EXCEPT ![h] = [Vacant EXCEPT !.type = t,
                                !.state = "Created", !.inc = created + 1]]
                  /\ gap' = gap \ {h}
  BY DEF Socket, modemVars
<1>4. /\ s \in [Handles -> Slots]
      /\ \A h \in Handles : SlotOK(s[h]) /\ s[h] \in {socks[h], Vacant}
  BY <1>0, <1>3, RecycledSlots
<1>5. CASE socks' = s /\ modem' = modem /\ created' = created /\ gap' = gap
  <2>1. SlotsOK' /\ SocketsOK'
    BY <1>0, <1>4, <1>5 DEF SlotsOK, SlotOK, SocketsOK
  <2>2. ControlOK'
    BY <1>0, <1>1, <1>5 DEF ControlOK, writeVars
  <2>3. created <= created'
    BY <1>0, <1>5 DEF ControlOK
  <2>4. ASSUME NEW k \in Handles PROVE NumberInv(k)'
    <3>1. /\ socks'[k] \in {socks[k], Vacant} /\ modem'[k] = modem[k] /\ NumberInv(k)
          /\ k \in gap <=> k \in gap'
      BY <1>0, <1>4, <1>5 DEF Numbers
    <3> QED BY <1>0, <2>1, <2>2, <2>3, <3>1, SlotKept
  <2>5. Numbers'
    BY <2>4 DEF Numbers
  <2> QED BY <1>2, <2>1, <2>2, <2>5, InvAgain
<1>6. ASSUME NEW h \in Handles, modem[h].up = "free",
             created < MaxIncarnations, created' = created + 1,
             modem' = WithSocket(h, [Free EXCEPT !.up = "open", !.type = t, !.inc = created + 1]),
             \/ socks' = s /\ gap' = gap
             \/ /\ socks' = [s EXCEPT ![h] = [Vacant EXCEPT !.type = t,
                                !.state = "Created", !.inc = created + 1]]
                /\ gap' = gap \ {h}
      PROVE  IInv'
  <2> DEFINE new  == [Free EXCEPT !.up = "open", !.type = t, !.inc = created + 1]
             slot == [Vacant EXCEPT !.type = t, !.state = "Created", !.inc = created + 1]
  <2>0. created \in Nat /\ created + 1 \in 0..MaxIncarnations
    BY <1>0, <1>6, SizesAssumption DEF ControlOK
  <2>1. SocketOK(new) /\ new.up = "open" /\ new.inc = created + 1 /\ new.next = 0
    BY <2>0, FreeOK DEF SocketOK, ModemSockets, Free
  <2>2. SlotOK(slot)
    BY <2>0, VacantOK DEF SlotOK, Slots, Vacant
  <2>3. SocketsOK' /\ modem'[h] = new /\ \A k \in Handles \ {h} : modem'[k] = modem[k]
    BY <1>0, <1>6, <2>1, SocketChanged
  <2>4. ControlOK'
    BY <1>0, <1>1, <1>6, <2>0 DEF ControlOK, writeVars
  <2>5. created <= created'
    BY <1>6, <2>0
  <2>6. \A k \in Handles \ {h} : socks'[k] \in {socks[k], Vacant} /\ (k \in gap <=> k \in gap')
    BY <1>4, <1>6
  <2>7. \/ socks'[h] \in {socks[h], Vacant} /\ gap' = gap
        \/ socks'[h] = slot /\ h \notin gap'
    BY <1>4, <1>6
  <2>8. SlotsOK'
    <3>1. CASE socks' = s
      BY <1>4, <3>1 DEF SlotsOK, SlotOK
    <3>2. CASE socks' = [s EXCEPT ![h] = slot]
      BY <1>4, <2>2, <3>2 DEF SlotsOK, SlotOK
    <3> QED BY <1>6, <3>1, <3>2
  <2> HIDE DEF new, slot
  <2>9. NumberInv(h)'
    <3>1. CASE socks'[h] = socks[h] /\ gap' = gap
      BY <1>0, <1>6, <2>3, <2>4, <3>1, NumberGivenAgain DEF Numbers, new
    <3>2. CASE socks'[h] = Vacant
      <4>1. NumberUsed(h)'
        BY <1>6, <2>0, <2>1, <2>3, <3>2 DEF NumberUsed, Vacant
      <4> QED BY <1>0, <2>3, <2>4, <3>2, <4>1, SlotVacated
    <3>3. CASE socks'[h] = slot /\ h \notin gap'
      BY <1>0, <1>6, <2>3, <2>4, <3>3, SlotCreated DEF new, slot
    <3> QED BY <2>7, <3>1, <3>2, <3>3
  <2>10. ASSUME NEW k \in Handles, k # h PROVE NumberInv(k)'
    <3>1. /\ socks'[k] \in {socks[k], Vacant} /\ modem'[k] = modem[k] /\ NumberInv(k)
          /\ k \in gap <=> k \in gap'
      BY <1>0, <2>3, <2>6, <2>10 DEF Numbers
    <3> QED BY <1>0, <2>3, <2>4, <2>5, <3>1, SlotKept
  <2>11. Numbers'
    BY <2>9, <2>10 DEF Numbers
  <2> QED BY <1>2, <2>3, <2>4, <2>8, <2>11, InvAgain
<1> QED BY <1>3, <1>5, <1>6
\* Socket h of the module changes, and nothing else that the invariant is about but,
\* perhaps, slot h.
LEMMA OneSocket ==
  ASSUME IInv, NEW h \in Handles, NEW m, SocketOK(m), modem' = WithSocket(h, m),
         NEW s, SlotOK(s), socks' = WithSlot(h, s), created' = created,
         \A k \in Handles \ {h} : k \in gap <=> k \in gap',
         (modem'[h] = m /\ socks'[h] = s) => NumberInv(h)', ControlOK'
  PROVE  SlotsOK' /\ SocketsOK' /\ Numbers'
<1>0. SlotsOK /\ SocketsOK /\ ControlOK /\ FlagsOK /\ UrcsOK /\ Numbers /\ Sending
  BY InvParts
<1>1. SlotsOK' /\ socks'[h] = s /\ \A k \in Handles \ {h} : socks'[k] = socks[k]
  BY <1>0, SlotChanged
<1>2. SocketsOK' /\ modem'[h] = m /\ \A k \in Handles \ {h} : modem'[k] = modem[k]
  BY <1>0, SocketChanged
<1>3. created <= created'
  BY <1>0 DEF ControlOK
<1> QED BY <1>0, <1>1, <1>2, <1>3, OneNumber

\* Nothing changed in slot or socket h.
LEMMA Same ==
  ASSUME SlotsOK, SocketsOK, NEW h \in Handles
  PROVE  /\ socks = WithSlot(h, socks[h]) /\ SlotOK(socks[h])
         /\ modem = WithSocket(h, modem[h]) /\ SocketOK(modem[h])
BY DEF SlotsOK, SocketsOK, WithSlot, WithSocket, SlotOK, SocketOK

LEMMA ConnectStep ==
  ASSUME IInv, NEW h \in Handles, Connect(h)
  PROVE  IInv'
<1>0. SlotsOK /\ SocketsOK /\ ControlOK /\ FlagsOK /\ UrcsOK /\ Numbers /\ Sending
  BY InvParts
<1>1. /\ created' = created /\ gap' = gap /\ urcs' = urcs /\ pc' = pc /\ pc = "service"
      /\ todo' = todo /\ writeVars' = writeVars /\ stored' = stored /\ calm' = calm
      /\ socks[h].state = "Created"
  BY DEF Connect
<1>2. ControlOK'
  BY <1>0, <1>1 DEF ControlOK, writeVars
<1>3. UrcsOK' /\ Sending' /\ FlagsOK'
  BY <1>0, <1>1 DEF UrcsOK, Sending, FlagsOK
<1> DEFINE m == [modem[h] EXCEPT !.up = "conn"]
           s == [socks[h] EXCEPT !.state = "Connected", !.inc = modem[h].inc]
<1>4. \/ socks' = socks /\ modem' = modem
      \/ /\ modem[h].up = "open" /\ modem' = WithSocket(h, m)
         /\ socks' = socks \/ socks' = WithSlot(h, s)
  BY DEF Connect, Connectable
<1>5. CASE socks' = socks /\ modem' = modem
  <2>1. SlotsOK' /\ SocketsOK'
    BY <1>0, <1>5 DEF SlotsOK, SocketsOK
  <2> QED BY <1>0, <1>1, <1>2, <1>3, <1>5, <2>1, NumbersQuiet, InvAgain
<1>6. CASE /\ modem[h].up = "open" /\ modem' = WithSocket(h, m)
           /\ socks' = socks \/ socks' = WithSlot(h, s)
  <2>1. SocketOK(m) /\ SlotOK(s)
    BY <1>0 DEF SlotsOK, SocketsOK, SlotOK, SocketOK, Slots, ModemSockets
  <2>2. PICK r \in {socks[h], s} : SlotOK(r) /\ socks' = WithSlot(h, r)
    BY <1>0, <1>6, <2>1, Same
  <2> HIDE DEF m, s
  <2>3. ASSUME modem'[h] = m, socks'[h] = r PROVE NumberInv(h)'
    BY <1>0, <1>1, <1>6, <2>2, <2>3, SocketConnected DEF Numbers, m, s
  <2>4. SlotsOK' /\ SocketsOK' /\ Numbers'
    BY <1>1, <1>2, <1>6, <2>1, <2>2, <2>3, OneSocket
  <2> QED BY <1>2, <1>3, <2>4, InvAgain
<1> QED BY <1>4, <1>5, <1>6

LEMMA BindStep ==
  ASSUME IInv, NEW h \in Handles, Bind(h)
  PROVE  IInv'
<1>0. SlotsOK /\ SocketsOK /\ ControlOK /\ FlagsOK /\ UrcsOK /\ Numbers /\ Sending
  BY InvParts
<1>1. /\ modem' = modem /\ created' = created /\ gap' = gap /\ urcs' = urcs /\ pc' = pc
      /\ pc = "service" /\ todo' = todo /\ writeVars' = writeVars /\ stored' = stored
      /\ calm' = calm /\ socks[h].type = "udp"
  BY DEF Bind, modemVars
<1>2. ControlOK'
  BY <1>0, <1>1 DEF ControlOK, writeVars
<1>3. UrcsOK' /\ Sending' /\ FlagsOK'
  BY <1>0, <1>1 DEF UrcsOK, Sending, FlagsOK
<1> DEFINE s == [socks[h] EXCEPT !.state = "Connected"]
<1>4. /\ SlotOK(s) /\ socks' = WithSlot(h, s)
      /\ s.type = "udp" /\ s.state = "Connected" /\ s.inc = socks[h].inc
  BY <1>0, <1>1 DEF Bind, SlotsOK, SlotOK, Slots
<1> HIDE DEF s
<1>5. ASSUME modem'[h] = modem[h], socks'[h] = s PROVE NumberInv(h)'
  <2>1. NumberUsed(h)'
    BY <1>0, <1>1, <1>4, <1>5 DEF Numbers, NumberInv, NumberUsed
  <2> QED BY <1>4, <1>5, <2>1, NotTcp
<1>6. SlotsOK' /\ SocketsOK' /\ Numbers'
  <2>1. modem' = WithSocket(h, modem[h]) /\ SocketOK(modem[h])
    BY <1>0, <1>1, Same
  <2> QED BY <1>1, <1>2, <1>4, <1>5, <2>1, OneSocket
<1> QED BY <1>2, <1>3, <1>6, InvAgain

LEMMA CloseStep ==
  ASSUME IInv, NEW h \in Handles, Close(h)
  PROVE  IInv'
<1>0. SlotsOK /\ SocketsOK /\ ControlOK /\ FlagsOK /\ UrcsOK /\ Numbers /\ Sending
  BY InvParts
<1>1. /\ created' = created /\ gap' = gap \ {h} /\ urcs' = urcs /\ pc' = pc /\ pc = "service"
      /\ todo' = todo /\ writeVars' = writeVars /\ stored' = stored /\ calm' = calm
      /\ socks' = WithSlot(h, Vacant)
  BY DEF Close
<1>2. ControlOK'
  BY <1>0, <1>1 DEF ControlOK, writeVars
<1>3. UrcsOK' /\ Sending' /\ FlagsOK'
  BY <1>0, <1>1 DEF UrcsOK, Sending, FlagsOK
<1>4. PICK m \in {modem[h], [modem[h] EXCEPT !.up = "free"]} : modem' = WithSocket(h, m)
  BY <1>0, Same DEF Close
<1>5. /\ SocketOK(m) /\ m.inc = modem[h].inc /\ m.next = modem[h].next
      /\ m.up \in {modem[h].up, "free"}
  BY <1>0, <1>4 DEF SocketsOK, SocketOK, ModemSockets
<1>6. SocketsOK'
  BY <1>0, <1>4, <1>5, SocketChanged
<1>7. ASSUME modem'[h] = m, socks'[h] = Vacant PROVE NumberInv(h)'
  <2>1. created \in Nat
    BY <1>0 DEF ControlOK
  <2>2. NumberUsed(h)'
    BY <1>0, <1>1, <1>5, <1>7, <2>1 DEF Numbers, NumberInv, NumberUsed, Vacant
  <2> QED BY <1>0, <1>2, <1>6, <1>7, <2>2, SlotVacated
<1>8. SlotsOK' /\ SocketsOK' /\ Numbers'
  BY <1>1, <1>2, <1>4, <1>5, <1>7, VacantOK, OneSocket
<1> QED BY <1>2, <1>3, <1>8, InvAgain

\* The module's socket steps by itself; the driver may be sending.
LEMMA ModuleStep ==
  ASSUME IInv, NEW h \in Handles, DataArrives(h) \/ RemoteCloses(h)
  PROVE  IInv'
<1>0. SlotsOK /\ SocketsOK /\ ControlOK /\ FlagsOK /\ UrcsOK /\ Numbers /\ Sending
  BY InvParts
<1>1. /\ created' = created /\ gap' = gap /\ pc' = pc /\ socks' = socks
      /\ todo' = todo /\ writeVars' = writeVars /\ stored' = stored /\ calm' = calm
  BY DEF DataArrives, RemoteCloses
<1>2. ControlOK'
  BY <1>0, <1>1 DEF ControlOK, writeVars
<1>3. Sending' /\ FlagsOK'
  BY <1>0, <1>1 DEF Sending, FlagsOK, writeVars
<1>4. UrcsOK'
  <2>1. PICK u \in SocketUrcs : Publish(u)
    <3>1. CASE DataArrives(h)
      <4>1. Unread(h) + 1 \in 0..MaxBytes
        BY <1>0, <3>1, SizesAssumption DEF DataArrives, Unread, SocketsOK, ModemSockets
      <4> QED BY <3>1, <4>1 DEF DataArrives, SocketUrcs
    <3>2. CASE RemoteCloses(h)
      BY <3>2, SizesAssumption DEF RemoteCloses, SocketUrcs
    <3> QED BY <3>1, <3>2
  <2>2. CASE Len(urcs) < UrcCapacity /\ urcs' = Append(urcs, u)
    <3>1. Append(urcs, u) \in Seq(SocketUrcs) /\ Len(Append(urcs, u)) = Len(urcs) + 1
      BY <1>0, <2>1, AppendProperties DEF UrcsOK
    <3>2. Len(urcs) \in Nat
      BY <1>0, LenProperties DEF UrcsOK
    <3> QED BY <2>2, <3>1, <3>2, SizesAssumption DEF UrcsOK
  <2>3. CASE urcs' = urcs
    BY <1>0, <2>3 DEF UrcsOK
  <2> QED BY <2>1, <2>2, <2>3 DEF Publish
<1>5. socks' = WithSlot(h, socks[h]) /\ SlotOK(socks[h]) /\ socks'[h] = socks[h]
  BY <1>0, <1>1, Same
<1>6. CASE DataArrives(h)
  <2> DEFINE m == [modem[h] EXCEPT !.next = @ + 1]
  <2>1. SocketOK(m) /\ modem' = WithSocket(h, m) /\ modem[h].up = "conn"
    BY <1>0, <1>6, SizesAssumption DEF DataArrives, SocketsOK, SocketOK, ModemSockets
  <2> HIDE DEF m
  <2>2. ASSUME modem'[h] = m PROVE NumberInv(h)'
    BY <1>0, <1>1, <1>5, <2>1, <2>2, ByteArrived DEF Numbers, m
  <2>3. SlotsOK' /\ SocketsOK' /\ Numbers'
    BY <1>1, <1>2, <1>5, <2>1, <2>2, OneSocket
  <2> QED BY <1>2, <1>3, <1>4, <2>3, InvAgain
<1>7. CASE RemoteCloses(h)
  <2> DEFINE m == [modem[h] EXCEPT !.up = "free"]
  <2>1. SocketOK(m) /\ modem' = WithSocket(h, m)
    BY <1>0, <1>7 DEF RemoteCloses, SocketsOK, SocketOK, ModemSockets
  <2> HIDE DEF m
  <2>2. ASSUME modem'[h] = m PROVE NumberInv(h)'
    BY <1>0, <1>1, <1>5, <2>1, <2>2, SocketFreed DEF Numbers, m
  <2>3. SlotsOK' /\ SocketsOK' /\ Numbers'
    BY <1>1, <1>2, <1>5, <2>1, <2>2, OneSocket
  <2> QED BY <1>2, <1>3, <1>4, <2>3, InvAgain
<1> QED BY <1>6, <1>7
LEMMA WriteStep == ASSUME IInv, WriteChunk PROVE IInv'
<1>0. SlotsOK /\ SocketsOK /\ ControlOK /\ FlagsOK /\ UrcsOK /\ Numbers /\ Sending
  BY InvParts
<1>1. /\ created' = created /\ gap' = gap /\ socks' = socks /\ urcs' = urcs
      /\ todo' = todo /\ stored' = stored /\ calm' = calm /\ cur' = cur
      /\ pc = "write" /\ left > 0
  BY DEF WriteChunk
<1>2. ChunkLen \in Nat /\ ChunkLen <= left /\ left \in Nat /\ accepted \in Nat /\ buffer \in Nat
  BY <1>0, SizesAssumption DEF ControlOK, ChunkLen, Min2
<1>3. PICK r \in Replies(CanWrite(cur, socks[cur].type)), m \in 0..ChunkLen :
        /\ ~CanWrite(cur, socks[cur].type) => m = 0
        /\ modem' = IF m = 0 THEN modem ELSE WithSocket(cur, [modem[cur] EXCEPT !.up = "conn"])
        /\ IF ChunkWritten(r, m)
           THEN /\ left' = left - ChunkLen /\ accepted' = accepted + m
                /\ takers' = IF m = 0 THEN takers ELSE takers \cup {modem[cur].inc}
                /\ UNCHANGED <<pc, buffer>>
           ELSE SendReturns
  BY DEF WriteChunk
<1>4. m \in Nat /\ cur \in Handles /\ NumberInv(cur)
  BY <1>0, <1>2, <1>3 DEF ControlOK, Numbers
<1>5. ControlOK'
  <2>1. CASE ~ChunkWritten(r, m)
    BY <1>0, <1>1, <1>3, <2>1 DEF SendReturns, ControlOK
  <2>2. CASE ChunkWritten(r, m)
    <3>1. takers' \subseteq 0..MaxIncarnations
      BY <1>0, <1>3, <1>4, <2>2 DEF ControlOK, SocketsOK, ModemSockets
    <3>2. accepted' \in Nat /\ left' \in Nat /\ pc' = pc /\ buffer' = buffer
      BY <1>2, <1>3, <1>4, <2>2
    <3> QED BY <1>0, <1>1, <3>1, <3>2 DEF ControlOK
  <2> QED BY <2>1, <2>2
<1>6. UrcsOK' /\ FlagsOK'
  BY <1>0, <1>1 DEF UrcsOK, FlagsOK
<1>7. Sending'
  <2>1. CASE ~ChunkWritten(r, m)
    BY <1>3, <2>1 DEF SendReturns, Sending
  <2>2. CASE ChunkWritten(r, m)
    <3>1. /\ m = ChunkLen /\ left' = left - ChunkLen /\ pc' = pc /\ buffer' = buffer
          /\ socks[cur].state = "Connected" /\ accepted + left = buffer
      BY <1>0, <1>1, <1>3, <2>2 DEF ChunkWritten, Sending
    <3>2. accepted' + left' = buffer'
      BY <1>1, <1>2, <1>3, <2>2, <3>1
    <3>3. ASSUME socks[cur].type = "tcp" PROVE takers' \subseteq {socks[cur].inc}
      <4>1. takers \subseteq {socks[cur].inc}
        BY <1>0, <1>1, <3>3 DEF Sending
      <4>2. CASE m = 0
        BY <1>3, <2>2, <4>1, <4>2
      <4>3. CASE m # 0
        <5>1. modem[cur].up = "conn"
          BY <1>3, <3>3, <4>3 DEF CanWrite
        <5>2. modem[cur].inc = socks[cur].inc
          BY <1>4, <3>1, <3>3, <5>1 DEF NumberInv, TcpSlot, SameConnection
        <5> QED BY <1>3, <2>2, <4>1, <4>3, <5>2
      <4> QED BY <4>2, <4>3
    <3> QED BY <1>1, <3>1, <3>2, <3>3 DEF Sending
  <2> QED BY <2>1, <2>2
<1>8. SlotsOK' /\ SocketsOK' /\ Numbers'
  <2>1. CASE m = 0
    <3>1. SlotsOK' /\ SocketsOK'
      BY <1>0, <1>1, <1>3, <2>1 DEF SlotsOK, SocketsOK
    <3> QED BY <1>0, <1>1, <1>3, <2>1, <3>1, NumbersQuiet
  <2>2. CASE m # 0
    <3> DEFINE c == [modem[cur] EXCEPT !.up = "conn"]
    <3>1. /\ SocketOK(c) /\ modem' = WithSocket(cur, c) /\ modem[cur] \in ModemSockets
          /\ c.up = "conn" /\ c.inc = modem[cur].inc /\ c.next = modem[cur].next
          /\ CanWrite(cur, socks[cur].type)
      BY <1>0, <1>3, <1>4, <2>2 DEF SocketsOK, SocketOK, ModemSockets
    <3>2. /\ socks' = WithSlot(cur, socks[cur]) /\ SlotOK(socks[cur])
      BY <1>0, <1>1, <1>4, Same
    <3>3. modem[cur].up = "conn" => c = modem[cur]
      BY <3>1 DEF ModemSockets
    <3> HIDE DEF c
    <3>4. ASSUME NEW h \in Handles, h = cur, modem'[h] = c, socks'[h] = socks[h]
          PROVE  NumberInv(h)'
      <4>0. NumberInv(h) /\ (h \in gap <=> h \in gap') /\ c.up = "conn" /\ c.inc = modem[h].inc
        BY <1>1, <1>4, <3>1, <3>4
      <4>1. CASE modem[h].up = "conn"
        <5>1. created <= created'
          BY <1>0, <1>1 DEF ControlOK
        <5>2. modem'[h] = modem[h]
          BY <3>3, <3>4, <4>1
        <5> QED BY <1>0, <1>5, <3>4, <4>0, <5>1, <5>2, Untouched
      <4>2. CASE modem[h].up # "conn"
        <5>1. socks[h].type # "tcp" /\ modem[h].up = "open"
          BY <3>1, <3>4, <4>2 DEF CanWrite
        <5>2. socks[h].state # "none"
          BY <1>0, <1>1, <3>4 DEF Sending
        <5>3. NumberUsed(h)'
          BY <1>1, <3>4, <4>0, <5>1 DEF NumberInv, NumberUsed
        <5> QED BY <3>4, <5>1, <5>2, <5>3, NotTcp
      <4> QED BY <4>1, <4>2
    <3>5. PICK h \in Handles : h = cur
      BY <1>4
    <3>6. socks' = WithSlot(h, socks[h]) /\ modem' = WithSocket(h, c) /\ SlotOK(socks[h])
      BY <3>1, <3>2, <3>5
    <3> QED BY <1>0, <1>1, <1>4, <1>5, <3>1, <3>4, <3>5, <3>6, OneSocket
  <2> QED BY <2>1, <2>2
<1> QED BY <1>5, <1>6, <1>7, <1>8, InvAgain

-----------------------------------------------------------------------------
LEMMA NextInv == ASSUME IInv, [Next]_vars PROVE IInv'
<1>1. CASE UNCHANGED vars
  <2>0. SlotsOK /\ SocketsOK /\ ControlOK /\ FlagsOK /\ UrcsOK /\ Numbers /\ Sending
    BY InvParts
  <2>1. /\ socks' = socks /\ modem' = modem /\ created' = created /\ gap' = gap /\ urcs' = urcs
        /\ pc' = pc /\ todo' = todo /\ writeVars' = writeVars /\ stored' = stored /\ calm' = calm
    BY <1>1 DEF vars, modemVars
  <2>2. SlotsOK' /\ SocketsOK' /\ UrcsOK' /\ FlagsOK'
    BY <2>0, <2>1 DEF SlotsOK, SocketsOK, UrcsOK, FlagsOK
  <2>3. ControlOK' /\ Sending'
    BY <2>0, <2>1 DEF ControlOK, Sending, writeVars
  <2> QED BY <2>0, <2>1, <2>2, <2>3, NumbersQuiet, InvAgain
<1>2. CASE Driver
  BY <1>2, QuietStep, WriteStep, PollStep, ReadStep DEF Driver
<1>3. CASE Application
  BY <1>3, PrunedStep, CallStep, QuietStep, SocketStep, ConnectStep, BindStep, ReceiveStep, CloseStep
  DEF Application
<1>4. CASE Environment
  BY <1>4, QuietStep, ModuleStep DEF Environment
<1> QED BY <1>1, <1>2, <1>3, <1>4 DEF Next

LEMMA Invariance == Spec => []IInv
<1>1. Init => IInv
  BY InitInv
<1>2. IInv /\ [Next]_vars => IInv'
  BY NextInv
<1> QED BY <1>1, <1>2, PTL DEF Spec

\* Type correctness, for every number of sockets and every size: the URC channel and
\* the receive buffers never overflow, and the module hands out no byte it never got.
THEOREM TypeCorrect == Spec => []TypeOK
<1>1. IInv => TypeOK
  BY DEF IInv
<1> QED BY <1>1, Invariance, PTL

\* No TCP byte is duplicated, reordered or mixed between connections, and none that the
\* module handed out is missing unless its reply was lost, however socket numbers are
\* reused, URCs lost or late, and sets pruned (services/data/mod.rs:519-646).
THEOREM StreamStaysIntact == Spec => []StreamIntact
<1>1. IInv => StreamIntact
  <2> SUFFICES ASSUME IInv, NEW h \in Handles, socks[h].type = "tcp"
               PROVE  /\ Ordered(h)
                      /\ (h \notin gap /\ socks[h].inc = modem[h].inc) =>
                           Len(Stream(h)) = modem[h].taken
    BY DEF StreamIntact, Ordered
  <2>0. SocketsOK /\ NumberInv(h)
    BY InvParts DEF Numbers
  <2>1. TcpSlot(h) /\ NumberUsed(h) /\ UnusedVacant(h)
    BY <2>0 DEF NumberInv
  <2>2. CASE socks[h].state # "none"
    BY <2>1, <2>2 DEF TcpSlot, Current, Frozen
  <2>3. CASE socks[h].state = "none"
    <3>1. socks[h] = Vacant
      BY <2>1, <2>3 DEF UnusedVacant
    <3>2. Len(Stream(h)) = 0 /\ socks[h].inc = 0
      BY <3>1 DEF Stream, Vacant
    <3>3. modem[h].inc = 0 => modem[h].taken = 0
      BY <2>0, <2>1 DEF NumberUsed, SocketsOK, ModemSockets
    <3> QED BY <2>1, <3>2, <3>3 DEF TcpSlot
  <2> QED BY <2>2, <2>3
<1> QED BY <1>1, Invariance, PTL

\* A send on a TCP socket reports success only if this socket's own connection accepted
\* the whole buffer (tcp_stack.rs:121-151).
THEOREM SendIsComplete == Spec => []SendComplete
<1>1. IInv => SendComplete
  <2> SUFFICES ASSUME IInv, pc = "write", left = 0, socks[cur].type = "tcp"
               PROVE  accepted = buffer /\ takers \subseteq {socks[cur].inc}
    BY DEF SendComplete
  <2>1. Sending /\ accepted \in Nat
    BY InvParts DEF ControlOK
  <2> QED BY <2>1 DEF Sending
<1> QED BY <1>1, Invariance, PTL

-----------------------------------------------------------------------------
(***************************************************************************)
(* Refinement of ByteStream.                                               *)
(***************************************************************************)
\* What a step may do to the stream under one number.
StreamStep(h) == \/ StreamView'[h] = StreamView[h]
                 \/ Bytes!Renew(h) \/ Bytes!Read(h) \/ Bytes!Lose(h)

LEMMA SlotSet ==
  ASSUME SlotsOK, NEW h \in Handles, NEW s, socks' = WithSlot(h, s)
  PROVE  socks'[h] = s /\ \A k \in Handles \ {h} : socks'[k] = socks[k]
BY DEF SlotsOK, WithSlot

LEMMA ViewAt ==
  ASSUME NEW h \in Handles
  PROVE  /\ StreamView[h] =
              IF socks[h].state # "none" /\ socks[h].type = "tcp"
              THEN [socket |-> socks[h].inc, got |-> socks[h].got,
                    fate |-> IF h \in gap THEN "holed" ELSE "whole"]
              ELSE Bytes!Nothing
         /\ StreamView'[h] =
              IF socks'[h].state # "none" /\ socks'[h].type = "tcp"
              THEN [socket |-> socks'[h].inc, got |-> socks'[h].got,
                    fate |-> IF h \in gap' THEN "holed" ELSE "whole"]
              ELSE Bytes!Nothing
BY DEF StreamView, Used, Bytes!Nothing

\* The slot keeps its socket and what was read from it.
LEMMA ViewKept ==
  ASSUME NEW h \in Handles, h \in gap <=> h \in gap',
         socks'[h].type = socks[h].type, socks'[h].inc = socks[h].inc,
         socks'[h].got = socks[h].got,
         socks'[h].state = "none" <=> socks[h].state = "none"
  PROVE  StreamStep(h)
<1>1. StreamView'[h] = StreamView[h] BY ViewAt
<1> QED BY <1>1 DEF StreamStep

LEMMA ViewSame ==
  ASSUME NEW h \in Handles, h \in gap <=> h \in gap', socks'[h] = socks[h]
  PROVE  StreamStep(h)
BY ViewKept

LEMMA ViewVacated ==
  ASSUME NEW h \in Handles, socks'[h] = Vacant PROVE StreamStep(h)
<1>1. socks'[h].state = "none" BY DEF Vacant
<1>2. StreamView'[h] = Bytes!Nothing BY <1>1, ViewAt
<1> QED BY <1>2 DEF StreamStep, Bytes!Renew, Bytes!Fresh, Bytes!Nothing

\* Only a TCP socket has a stream.
LEMMA ViewUdp ==
  ASSUME NEW h \in Handles, socks[h].type # "tcp", socks'[h].type # "tcp"
  PROVE  StreamStep(h)
BY ViewAt DEF StreamStep

LEMMA StreamCall == ASSUME IInv, CallDataService, NEW k \in Handles PROVE StreamStep(k)
<1>0. SlotsOK /\ UrcsOK BY InvParts
<1>1. gap' = gap BY DEF CallDataService
<1>2. CASE ~stored \/ urcs = <<>>
  <2>1. socks' = socks BY <1>2 DEF CallDataService, HandleUrcInternal
  <2> QED BY <1>1, <2>1, ViewSame
<1>3. CASE stored /\ urcs # <<>>
  <2> DEFINE u == Head(urcs)
  <2>1. u \in SocketUrcs BY <1>0, <1>3 DEF UrcsOK
  <2>2. u.h \in Handles /\ u.len \in 0..MaxBytes BY <2>1 DEF SocketUrcs
  <2>3. \/ socks' = socks
        \/ u.h \in Used /\ socks' = ClosedByRemote(u.h)
        \/ u.h \in Used /\ socks' = SetAvailableData(u.h, u.len)
    BY <1>3 DEF CallDataService, HandleUrcInternal
  <2> HIDE DEF u
  <2>4. CASE socks' = socks BY <1>1, <2>4, ViewSame
  <2>5. CASE u.h \in Used /\ socks' = ClosedByRemote(u.h)
    <3>1. /\ socks'[u.h] = [socks[u.h] EXCEPT !.state = "Closed"]
          /\ \A j \in Handles \ {u.h} : socks'[j] = socks[j]
      BY <1>0, <2>2, <2>5, SlotSet DEF ClosedByRemote
    <3>2. CASE k = u.h
      <4>1. socks[k] \in Slots /\ socks[k].state # "none"
        BY <1>0, <2>5, <3>2 DEF SlotsOK, Used
      <4> QED BY <1>1, <3>1, <3>2, <4>1, ViewKept DEF Slots
    <3> QED BY <1>1, <3>1, <3>2, ViewSame
  <2>6. CASE u.h \in Used /\ socks' = SetAvailableData(u.h, u.len)
    <3>1. /\ socks'[u.h] = [socks[u.h] EXCEPT !.avail = u.len]
          /\ \A j \in Handles \ {u.h} : socks'[j] = socks[j]
      BY <1>0, <2>2, <2>6, SlotSet DEF SetAvailableData
    <3>2. CASE k = u.h
      <4>1. socks[k] \in Slots BY <1>0 DEF SlotsOK
      <4> QED BY <1>1, <3>1, <3>2, <4>1, ViewKept DEF Slots
    <3> QED BY <1>1, <3>1, <3>2, ViewSame
  <2> QED BY <2>3, <2>4, <2>5, <2>6
<1> QED BY <1>2, <1>3

LEMMA StreamPoll ==
  ASSUME IInv, NEW h \in Handles, IngressPoll(h), NEW k \in Handles PROVE StreamStep(k)
<1>0. SlotsOK BY InvParts
<1>1. gap' = gap /\ socks[h].state = "Connected" BY DEF IngressPoll
<1>2. \/ socks' = WithSlot(h, [socks[h] EXCEPT !.state = "Closed"])
      \/ socks' = WithSlot(h, [socks[h] EXCEPT !.avail = Unread(h)])
  BY DEF IngressPoll, ClosedByRemote, SetAvailableData
<1>3. /\ \/ socks'[h] = [socks[h] EXCEPT !.state = "Closed"]
         \/ socks'[h] = [socks[h] EXCEPT !.avail = Unread(h)]
      /\ \A j \in Handles \ {h} : socks'[j] = socks[j]
  BY <1>0, <1>2, SlotSet
<1>4. CASE k = h
  <2>1. socks[h] \in Slots BY <1>0 DEF SlotsOK
  <2> QED BY <1>1, <1>3, <1>4, <2>1, ViewKept DEF Slots
<1> QED BY <1>1, <1>3, <1>4, ViewSame

LEMMA StreamIngress ==
  ASSUME IInv, NEW h \in Handles, IngressRead(h), NEW k \in Handles PROVE StreamStep(k)
<1>0. SlotsOK BY InvParts
<1>1. \/ socks' = WithSlot(h, [socks[h] EXCEPT !.avail = 0]) /\ gap' = gap
      \/ \E n : socks' \in RxEnqueueSlice(h, modem[h].taken, n) /\ gap' = gap
      \/ gap' = gap \cup {h} /\ socks' = socks
      \/ gap' = gap /\ socks' = socks
  BY DEF IngressRead, SetAvailableData
<1>2. socks[h] \in Slots BY <1>0 DEF SlotsOK
<1>3. CASE socks' = WithSlot(h, [socks[h] EXCEPT !.avail = 0]) /\ gap' = gap
  <2>1. /\ socks'[h] = [socks[h] EXCEPT !.avail = 0]
        /\ \A j \in Handles \ {h} : socks'[j] = socks[j]
    BY <1>0, <1>3, SlotSet
  <2>2. CASE k = h BY <1>2, <1>3, <2>1, <2>2, ViewKept DEF Slots
  <2> QED BY <1>3, <2>1, <2>2, ViewSame
<1>4. ASSUME NEW n, socks' \in RxEnqueueSlice(h, modem[h].taken, n), gap' = gap
      PROVE  StreamStep(k)
  <2>1. PICK x, a : socks' = WithSlot(h, [socks[h] EXCEPT !.rx = x, !.avail = a])
    BY <1>4 DEF RxEnqueueSlice
  <2>2. /\ socks'[h] = [socks[h] EXCEPT !.rx = x, !.avail = a]
        /\ \A j \in Handles \ {h} : socks'[j] = socks[j]
    BY <1>0, <2>1, SlotSet
  <2>3. CASE k = h BY <1>2, <1>4, <2>2, <2>3, ViewKept DEF Slots
  <2> QED BY <1>4, <2>2, <2>3, ViewSame
<1>5. CASE gap' = gap \cup {h} /\ socks' = socks
  <2>1. CASE k = h
    <3>1. CASE socks[h].state # "none" /\ socks[h].type = "tcp"
      <4>1. PICK f : StreamView[h] = [socket |-> socks[h].inc, got |-> socks[h].got, fate |-> f]
        BY <3>1, ViewAt
      <4>2. StreamView'[h] = [socket |-> socks[h].inc, got |-> socks[h].got, fate |-> "holed"]
        BY <1>5, <3>1, ViewAt
      <4>3. StreamView'[h] = [StreamView[h] EXCEPT !.fate = "holed"]
        BY ONLY <4>1, <4>2
      <4> QED BY <2>1, <4>3 DEF StreamStep, Bytes!Lose
    <3>2. CASE ~(socks[h].state # "none" /\ socks[h].type = "tcp")
      BY <1>5, <2>1, <3>2, ViewAt DEF StreamStep
    <3> QED BY <3>1, <3>2
  <2> QED BY <1>5, <2>1, ViewSame
<1>6. CASE gap' = gap /\ socks' = socks BY <1>6, ViewSame
<1> QED BY <1>1, <1>3, <1>4, <1>5, <1>6

\* A socket is created, with an incarnation nobody has had.
LEMMA StreamSocket ==
  ASSUME IInv, NEW t \in {"tcp", "udp"}, Socket(t), NEW k \in Handles PROVE StreamStep(k)
<1>0. SlotsOK /\ ControlOK /\ Numbers BY InvParts
<1>1. PICK s \in Recycled :
        \/ socks' = s /\ gap' = gap
        \/ \E h \in Handles :
             /\ socks' = [s EXCEPT ![h] = [Vacant EXCEPT !.type = t,
                            !.state = "Created", !.inc = created + 1]]
             /\ gap' = gap \ {h}
  BY DEF Socket, modemVars
<1>2. s \in [Handles -> Slots] /\ \A h \in Handles : s[h] \in {socks[h], Vacant}
  BY <1>0, RecycledSlots
<1>3. CASE socks' = s /\ gap' = gap
  BY <1>2, <1>3, ViewSame, ViewVacated
<1>4. ASSUME NEW h \in Handles,
             socks' = [s EXCEPT ![h] = [Vacant EXCEPT !.type = t,
                         !.state = "Created", !.inc = created + 1]],
             gap' = gap \ {h}
      PROVE  StreamStep(k)
  <2>1. CASE k # h
    <3>1. socks'[k] = s[k] BY <1>2, <1>4, <2>1
    <3> QED BY <1>2, <1>4, <2>1, <3>1, ViewSame, ViewVacated
  <2>2. CASE k = h
    <3>1. socks'[h] = [Vacant EXCEPT !.type = t, !.state = "Created", !.inc = created + 1]
      BY <1>2, <1>4
    <3>2. /\ socks'[h].type = t /\ socks'[h].state = "Created"
          /\ socks'[h].inc = created + 1 /\ socks'[h].got = <<>>
      BY <3>1 DEF Vacant
    <3>3. CASE t = "tcp"
      <4>1. StreamView'[h] = [socket |-> created + 1, got |-> <<>>, fate |-> "whole"]
        BY <1>4, <3>2, <3>3, ViewAt
      <4>2. StreamView'[h].socket = created + 1 /\ Bytes!Fresh(StreamView'[h])
        BY ONLY <4>1 DEF Bytes!Fresh
      <4>3. socks[h].inc <= created BY <1>0 DEF Numbers, NumberInv, NumberUsed
      <4>4. created \in Nat /\ socks[h].inc \in Nat
        BY <1>0 DEF ControlOK, SlotsOK, Slots
      <4>5. socks[h].inc # created + 1 /\ 0 # created + 1 BY ONLY <4>3, <4>4
      <4>6. StreamView[h].socket \in {socks[h].inc, 0}
        <5>1. CASE socks[h].state # "none" /\ socks[h].type = "tcp"
          <6>1. PICK f : StreamView[h] = [socket |-> socks[h].inc, got |-> socks[h].got,
                                          fate |-> f]
            BY <5>1, ViewAt
          <6> QED BY ONLY <6>1
        <5>2. CASE ~(socks[h].state # "none" /\ socks[h].type = "tcp")
          <6>1. StreamView[h] = Bytes!Nothing BY <5>2, ViewAt
          <6> QED BY ONLY <6>1 DEF Bytes!Nothing
        <5> QED BY <5>1, <5>2
      <4>7. StreamView'[h].socket # StreamView[h].socket BY <4>2, <4>5, <4>6
      <4> QED BY <2>2, <4>2, <4>7 DEF StreamStep, Bytes!Renew
    <3>4. CASE t # "tcp"
      <4>1. StreamView'[h] = Bytes!Nothing BY <3>2, <3>4, ViewAt
      <4> QED BY <2>2, <4>1 DEF StreamStep, Bytes!Renew, Bytes!Fresh, Bytes!Nothing
    <3> QED BY <3>3, <3>4
  <2> QED BY <2>1, <2>2
<1> QED BY <1>1, <1>3, <1>4

LEMMA EmptyConcat ==
  ASSUME NEW S, NEW g \in Seq(S), NEW x \in Seq(S), g \o x = <<>> PROVE g = <<>>
<1>1. Len(g) \in Nat /\ Len(x) \in Nat BY ONLY g \in Seq(S), x \in Seq(S)
<1>2. Len(g \o x) = Len(g) + Len(x) BY ONLY g \in Seq(S), x \in Seq(S)
<1>3. Len(g \o x) = 0 OBVIOUS
<1>4. Len(g) + Len(x) = 0 BY ONLY <1>2, <1>3, Zenon
<1>5. Len(g) = 0 BY ONLY <1>1, <1>4
<1> QED BY ONLY <1>5, g \in Seq(S)

\* A TCP socket is connected before anything is read from it.
LEMMA StreamConnect ==
  ASSUME IInv, NEW h \in Handles, Connect(h), NEW k \in Handles PROVE StreamStep(k)
<1>0. SlotsOK /\ Numbers BY InvParts
<1>1. gap' = gap /\ socks[h].state = "Created" /\ socks[h].type = "tcp" BY DEF Connect
<1>2. \/ socks' = socks
      \/ socks' = WithSlot(h, [socks[h] EXCEPT !.state = "Connected", !.inc = modem[h].inc])
  BY DEF Connect
<1>3. CASE socks' = socks BY <1>1, <1>3, ViewSame
<1>4. CASE socks' = WithSlot(h, [socks[h] EXCEPT !.state = "Connected", !.inc = modem[h].inc])
  <2>1. /\ socks'[h] = [socks[h] EXCEPT !.state = "Connected", !.inc = modem[h].inc]
        /\ \A j \in Handles \ {h} : socks'[j] = socks[j]
    BY <1>0, <1>4, SlotSet
  <2>2. CASE k = h
    <3>1. socks[h] \in Slots BY <1>0 DEF SlotsOK
    <3>2. /\ socks'[h].type = "tcp" /\ socks'[h].state = "Connected"
          /\ socks'[h].got = socks[h].got
      BY <1>1, <2>1, <3>1 DEF Slots
    <3>3. CreatedIsEmpty(h) BY <1>0, <1>1 DEF Numbers, NumberInv, TcpSlot
    <3>4. socks[h].got \o socks[h].rx = <<>> /\ h \notin gap
      BY <1>1, <3>3 DEF CreatedIsEmpty, Stream
    <3>5. socks[h].got \in Seq(1..MaxBytes) /\ socks[h].rx \in Seq(1..MaxBytes)
      BY <3>1 DEF Slots
    <3>7. socks[h].got = <<>> BY <3>4, <3>5, EmptyConcat
    <3>8. h \notin gap /\ h \notin gap' BY <1>1, <3>4
    <3>9. StreamView[h] = [socket |-> socks[h].inc, got |-> <<>>, fate |-> "whole"]
      BY <1>1, <3>7, <3>8, ViewAt
    <3>10. StreamView'[h] = [socket |-> socks'[h].inc, got |-> <<>>, fate |-> "whole"]
      BY <3>2, <3>7, <3>8, ViewAt
    <3>11. Bytes!Fresh(StreamView[h]) /\ Bytes!Fresh(StreamView'[h])
      BY ONLY <3>9, <3>10 DEF Bytes!Fresh
    <3> QED BY <2>2, <3>11 DEF StreamStep, Bytes!Renew
  <2> QED BY <1>1, <2>1, <2>2, ViewSame
<1> QED BY <1>2, <1>3, <1>4

LEMMA StreamBind ==
  ASSUME IInv, NEW h \in Handles, Bind(h), NEW k \in Handles PROVE StreamStep(k)
<1>0. SlotsOK BY InvParts
<1>1. gap' = gap /\ socks[h].type = "udp" BY DEF Bind
<1>2. /\ socks'[h] = [socks[h] EXCEPT !.state = "Connected"]
      /\ \A j \in Handles \ {h} : socks'[j] = socks[j]
  BY <1>0, SlotSet DEF Bind
<1>3. socks'[h].type = "udp"
  <2>1. socks[h] \in Slots BY <1>0 DEF SlotsOK
  <2> QED BY <1>1, <1>2, <2>1 DEF Slots
<1> QED BY <1>1, <1>2, <1>3, ViewSame, ViewUdp

\* recv_slice: what is handed over comes next in the stream.
LEMMA StreamReceive ==
  ASSUME IInv, IInv', NEW h \in Handles, Receive(h), NEW k \in Handles PROVE StreamStep(k)
<1>0. SlotsOK /\ Numbers BY InvParts
<1>1. gap' = gap /\ socks[h].rx # <<>> BY DEF Receive
<1>2. PICK n \in 1..Len(socks[h].rx) :
        socks' = WithSlot(h, [socks[h] EXCEPT !.rx  = SubSeq(@, n + 1, Len(@)),
                                              !.got = @ \o SubSeq(socks[h].rx, 1, n)])
  BY DEF Receive
<1>3. /\ socks'[h] = [socks[h] EXCEPT !.rx  = SubSeq(@, n + 1, Len(@)),
                                      !.got = @ \o SubSeq(socks[h].rx, 1, n)]
      /\ \A j \in Handles \ {h} : socks'[j] = socks[j]
  BY <1>0, <1>2, SlotSet
<1>4. CASE k # h BY <1>1, <1>3, <1>4, ViewSame
<1>5. CASE k = h
  <2>1. socks[h] \in Slots BY <1>0 DEF SlotsOK
  <2>2. /\ socks'[h].type = socks[h].type /\ socks'[h].state = socks[h].state
        /\ socks'[h].inc = socks[h].inc
        /\ socks'[h].got = socks[h].got \o SubSeq(socks[h].rx, 1, n)
    BY <1>3, <2>1 DEF Slots
  <2>3. CASE socks[h].type # "tcp" BY <1>5, <2>2, <2>3, ViewUdp
  <2>4. CASE socks[h].type = "tcp"
    <3>1. socks[h].state # "none"
      BY <1>0, <1>1 DEF Numbers, NumberInv, UnusedVacant, Vacant
    <3> DEFINE g == socks[h].got
               x == socks[h].rx
               e == socks'[h].got
               y == socks'[h].rx
               S == 1..MaxBytes
    <3>2. g \in Seq(S) /\ x \in Seq(S) /\ n \in 1..Len(x) /\ e = g \o SubSeq(x, 1, n)
      BY <1>2, <2>1, <2>2 DEF Slots
    <3>3. e \in Seq(S) /\ y \in Seq(S)
      <4>1. SlotsOK' BY InvParts DEF IInv, TypeOK, SlotsOK
      <4>2. socks'[h] \in Slots BY <4>1 DEF SlotsOK
      <4> QED BY <4>2 DEF Slots
    <3>4. Ordered(h)'
      <4>1. NumberInv(h)' BY DEF IInv
      <4> QED BY <4>1, <2>2, <2>4 DEF NumberInv, TcpSlot
    <3>5. /\ \A i \in 1..(Len(e \o y) - 1) : (e \o y)[i] < (e \o y)[i + 1]
          /\ h \notin gap => \A i \in 1..Len(e \o y) : (e \o y)[i] = i
      BY <1>1, <3>4 DEF Ordered, Stream
    <3> HIDE DEF g, x, e, y, S
    <3>6. /\ Len(e \o y) = Len(e) + Len(y) /\ Len(e) \in Nat /\ Len(y) \in Nat
          /\ \A i \in 1..Len(e) : (e \o y)[i] = e[i]
      BY ONLY <3>3
    <3>7. Bytes!Ascending(e)
      <4> SUFFICES ASSUME NEW i \in 1..(Len(e) - 1) PROVE e[i] < e[i + 1]
        BY DEF Bytes!Ascending
      <4>1. i \in 1..(Len(e \o y) - 1) /\ i \in 1..Len(e) /\ i + 1 \in 1..Len(e)
        BY <3>6
      <4>2. (e \o y)[i] = e[i] /\ (e \o y)[i + 1] = e[i + 1] BY <3>6, <4>1
      <4>3. (e \o y)[i] < (e \o y)[i + 1] BY <3>5, <4>1
      <4> QED BY <4>2, <4>3
    <3>8. h \notin gap => Bytes!Unbroken(e)
      <4> SUFFICES ASSUME h \notin gap, NEW i \in 1..Len(e) PROVE e[i] = i
        BY DEF Bytes!Unbroken
      <4>1. i \in 1..Len(e \o y) BY <3>6
      <4> QED BY <3>5, <3>6, <4>1
    <3>9. Bytes!Extends(e, g)
      <4>1. SubSeq(x, 1, n) \in Seq(S) BY ONLY <3>2
      <4>2. /\ Len(g \o SubSeq(x, 1, n)) = Len(g) + Len(SubSeq(x, 1, n))
            /\ Len(g) \in Nat /\ Len(SubSeq(x, 1, n)) \in Nat
            /\ \A i \in 1..Len(g) : (g \o SubSeq(x, 1, n))[i] = g[i]
        BY ONLY <3>2, <4>1
      <4> QED BY ONLY <3>2, <4>2 DEF Bytes!Extends
    <3> DEFINE f == IF h \in gap THEN "holed" ELSE "whole"
    <3>10. /\ StreamView[h] = [socket |-> socks[h].inc, got |-> g, fate |-> f]
           /\ StreamView'[h] = [socket |-> socks[h].inc, got |-> e, fate |-> f]
           /\ f = "whole" => h \notin gap
      <4>1. StreamView[h] = [socket |-> socks[h].inc, got |-> g, fate |-> f]
        BY <2>4, <3>1, ViewAt DEF g
      <4>2. /\ socks'[h].state # "none" /\ socks'[h].type = "tcp"
            /\ socks'[h].inc = socks[h].inc
        BY <2>2, <2>4, <3>1
      <4>3. StreamView'[h] = [socket |-> socks[h].inc, got |-> e, fate |-> f]
        BY <1>1, <4>2, ViewAt DEF e
      <4> QED BY <4>1, <4>3
    <3> HIDE DEF f
    <3>11. /\ StreamView[h].got = g /\ StreamView'[h].got = e /\ StreamView[h].fate = f
           /\ StreamView'[h] = [StreamView[h] EXCEPT !.got = e]
      BY ONLY <3>10
    <3>12. Bytes!Read(h) BY <3>7, <3>8, <3>9, <3>10, <3>11 DEF Bytes!Read
    <3> QED BY <1>5, <3>12 DEF StreamStep
  <2> QED BY <2>3, <2>4
<1> QED BY <1>4, <1>5

LEMMA StreamClose ==
  ASSUME IInv, NEW h \in Handles, Close(h), NEW k \in Handles PROVE StreamStep(k)
<1>0. SlotsOK BY InvParts
<1>1. socks' = WithSlot(h, Vacant) /\ gap' = gap \ {h} BY DEF Close
<1>2. socks'[h] = Vacant /\ \A j \in Handles \ {h} : socks'[j] = socks[j]
  BY <1>0, <1>1, SlotSet
<1> QED BY <1>1, <1>2, ViewSame, ViewVacated

\* Whatever the module, the network and the timing do, an application that reads from
\* TCP sockets sees ByteStream: every step of the driver leaves each stream as it is,
\* extends it by the bytes that come next, or ends it together with its socket
\* (tcp_stack.rs:153-170, services/data/mod.rs:519-646).
THEOREM SocketsKeepPromise == Spec => StreamPromise
<1>1. Init => Bytes!Init
  BY DEF Init, Bytes!Init, StreamView, Bytes!Nothing, Vacant, Used
<1>2. ASSUME IInv, IInv', [Next]_vars PROVE [Bytes!Next]_StreamView
  <2> SUFFICES ASSUME NEW k \in Handles PROVE StreamStep(k)
    BY DEF Bytes!Next, StreamStep
  <2>1. socks' = socks /\ gap' = gap => StreamStep(k) BY ViewSame
  <2>2. CASE UNCHANGED vars BY <2>1, <2>2 DEF vars
  <2>3. CASE Driver
    BY <1>2, <2>1, <2>3, StreamPoll, StreamIngress
       DEF Driver, EndIngress, WriteChunk, SendDone, IngressSkip
  <2>4. CASE SetSocketStorage \/ TakeSocketStorage \/ ClearBuffers
    <3>1. socks'[k] = Vacant
      BY <2>4 DEF SetSocketStorage, TakeSocketStorage, ClearBuffers, Pruned
    <3> QED BY <3>1, ViewVacated
  <2>5. CASE DropService \/ \E h \in Handles : Send(h)
    BY <2>1, <2>5 DEF DropService, Send
  <2>6. CASE Application
    BY <1>2, <2>4, <2>5, <2>6, StreamCall, StreamSocket, StreamConnect, StreamBind,
       StreamReceive, StreamClose DEF Application
  <2>7. CASE Environment
    BY <2>1, <2>7 DEF Environment, BecomeCalm, DataArrives, RemoteCloses
  <2> QED BY <1>2, <2>2, <2>3, <2>6, <2>7 DEF Next
<1> QED BY <1>1, <1>2, Invariance, PTL DEF Spec, StreamPromise, Bytes!Spec
=============================================================================
