-------------------------- MODULE HexDecodeProofs --------------------------
(***************************************************************************)
(* The in-place decoder is correct for replies of every length.            *)
(***************************************************************************)
EXTENDS HexDecode, TLAPS

Bytes == 0..255

\* Behind the counter everything is decoded; what is still to be read is intact.
IInv ==
  /\ pc \in {"loop", "Ok", "OddLength", "InvalidHexCharacter"}
  /\ len \in Nat /\ i \in Nat
  /\ arg \in [0..(len - 1) -> Bytes] /\ hex \in [0..(len - 1) -> Bytes]
  /\ pc # "OddLength" => len % 2 = 0 /\ i <= len \div 2
  /\ pc = "Ok" => i = len \div 2
  /\ pc \in {"loop", "Ok"} =>
       /\ \A k \in 0..(i - 1) :
            /\ Val(arg[k * 2]) # Invalid /\ Val(arg[k * 2 + 1]) # Invalid
            /\ hex[k] = Decoded(k)
       /\ \A k \in (i * 2)..(len - 1) : hex[k] = arg[k]
  /\ pc = "InvalidHexCharacter" => \E k \in DOMAIN arg : Val(arg[k]) = Invalid

\* A valid digit is less than 16, so that two of them make a byte.
LEMMA ValRange ==
  ASSUME NEW c \in Bytes
  PROVE  Val(c) \in 0..16
BY DEF Val, Bytes, Invalid

LEMMA InitInv == Init => IInv
<1> SUFFICES ASSUME Init PROVE IInv
  OBVIOUS
<1>1. len \in Nat /\ arg \in [0..(len - 1) -> Bytes] /\ hex = arg /\ i = 0
  BY CharsAssumption DEF Init, Bytes
<1>2. pc = "loop" \/ pc = "OddLength" BY DEF Init
<1>3. pc = "loop" => len % 2 = 0 BY <1>1, CharsAssumption DEF Init
<1>4. 0 <= len \div 2 BY <1>1
<1> QED BY <1>1, <1>2, <1>3, <1>4 DEF IInv

LEMMA NextInv == ASSUME IInv, [Next]_vars PROVE IInv'
<1>1. CASE Iterate
  <2> DEFINE hi == Val(hex[i * 2])
             lo == Val(hex[i * 2 + 1])
  <2>1. /\ pc = "loop" /\ i < len \div 2 /\ len \in Nat /\ i \in Nat /\ len % 2 = 0
        /\ arg \in [0..(len - 1) -> Bytes] /\ hex \in [0..(len - 1) -> Bytes]
    BY <1>1 DEF Iterate, IInv
  <2>2. /\ i * 2 \in 0..(len - 1) /\ i * 2 + 1 \in 0..(len - 1) /\ i \in 0..(len - 1)
        /\ i + 1 <= len \div 2
    BY <2>1
  <2>3. hex[i * 2] = arg[i * 2] /\ hex[i * 2 + 1] = arg[i * 2 + 1]
    BY <2>1, <2>2 DEF IInv
  <2>4. hi \in 0..16 /\ lo \in 0..16
    BY <2>1, <2>2, ValRange
  <2>5. CASE hi = Invalid \/ lo = Invalid
    <3>1. pc' = "InvalidHexCharacter" /\ UNCHANGED <<hex, len, i, arg>>
      BY <1>1, <2>5 DEF Iterate
    <3>2. \E k \in DOMAIN arg : Val(arg[k]) = Invalid
      BY <2>1, <2>2, <2>3, <2>5
    <3> QED BY <2>1, <3>1, <3>2 DEF IInv
  <2>6. CASE hi # Invalid /\ lo # Invalid
    <3>1. /\ hex' = [hex EXCEPT ![i] = (hi * 16 + lo) % 256]
          /\ i' = i + 1 /\ UNCHANGED <<pc, len, arg>>
      BY <1>1, <2>6 DEF Iterate
    <3>2. hi * 16 + lo \in 0..255 /\ (hi * 16 + lo) % 256 = hi * 16 + lo
      <4>1. hi \in 0..15 /\ lo \in 0..15
        BY <2>4, <2>6 DEF Invalid
      <4> HIDE DEF hi, lo
      <4>2. hi * 16 + lo \in 0..255
        BY ONLY <4>1
      <4>3. \A v \in 0..255 : v % 256 = v
        OBVIOUS
      <4>4. PICK v \in 0..255 : v = hi * 16 + lo
        BY ONLY <4>2, Zenon
      <4> QED BY ONLY <4>3, <4>4, v \in 0..255, Zenon
    <3>3. hex' \in [0..(len - 1) -> Bytes]
      <4>1. PICK v \in Bytes : hex' = [hex EXCEPT ![i] = v]
        BY <3>1, <3>2, Zenon DEF Bytes
      <4> QED BY ONLY <2>1, <4>1
    <3>4. hex'[i] = hi * 16 + lo
      BY <2>1, <2>2, <3>1, <3>2
    <3>5. \A k \in 0..(len - 1) : k # i => hex'[k] = hex[k]
      BY <2>1, <3>1
    <3>6. ASSUME NEW k \in 0..(i' - 1)
          PROVE  /\ Val(arg[k * 2]) # Invalid /\ Val(arg[k * 2 + 1]) # Invalid
                 /\ hex'[k] = Decoded(k)
      <4>1. CASE k = i BY <4>1, <2>3, <2>6, <3>4 DEF Decoded
      <4>2. CASE k # i
        <5>1. k \in 0..(i - 1) /\ k \in 0..(len - 1) BY <4>2, <2>1, <2>2, <3>1
        <5> QED BY <4>2, <5>1, <2>1, <3>5 DEF IInv
      <4> QED BY <4>1, <4>2
    <3>7. ASSUME NEW k \in (i' * 2)..(len - 1) PROVE hex'[k] = arg[k]
      <4>1. k \in (i * 2)..(len - 1) /\ k \in 0..(len - 1) /\ k # i BY <2>1, <3>1
      <4> QED BY <4>1, <2>1, <3>5 DEF IInv
    <3>8. \A k \in 0..(i' - 1) : Decoded(k)' = Decoded(k) BY <3>1 DEF Decoded
    <3>9. \A k \in 0..(i' - 1) :
            /\ Val(arg'[k * 2]) # Invalid /\ Val(arg'[k * 2 + 1]) # Invalid
            /\ hex'[k] = Decoded(k)'
      BY <3>1, <3>6, <3>8
    <3>10. \A k \in (i' * 2)..(len' - 1) : hex'[k] = arg'[k]
      BY <3>1, <3>7
    <3>11. /\ pc' = "loop" /\ len' \in Nat /\ i' \in Nat /\ len' % 2 = 0 /\ i' <= len' \div 2
           /\ arg' \in [0..(len' - 1) -> Bytes] /\ hex' \in [0..(len' - 1) -> Bytes]
      BY <2>1, <2>2, <3>1, <3>3
    <3> QED BY <3>9, <3>10, <3>11 DEF IInv
  <2> QED BY <2>5, <2>6
<1>2. CASE Done
  BY <1>2 DEF Done, IInv, Decoded
<1>3. CASE UNCHANGED vars
  BY <1>3 DEF vars, IInv, Decoded
<1> QED BY <1>1, <1>2, <1>3 DEF Next

\* Decoding in place never destroys a digit that is still to be read: for every
\* length and every content of the reply, the result is that of decoding into a
\* buffer of its own.
THEOREM InPlaceIsSafe == Spec => []DecodesArgument
<1>1. IInv /\ [Next]_vars => IInv' BY NextInv
<1>2. IInv => DecodesArgument BY DEF IInv, DecodesArgument
<1> QED BY InitInv, <1>1, <1>2, PTL DEF Spec
=============================================================================
