----------------------------- MODULE HexDecode -----------------------------
(***************************************************************************)
(* hex.rs: from_hex decodes the payload of a socket read in the buffer it  *)
(* arrived in.  Iteration i reads elements 2i and 2i+1 and overwrites      *)
(* element i, which an earlier element may still need.                     *)
(***************************************************************************)
EXTENDS Naturals

CONSTANTS
  Chars,    \* the bytes a reply may contain
  Lengths   \* the lengths a reply may have

ASSUME CharsAssumption == Chars \subseteq 0..255 /\ Lengths \subseteq Nat

VARIABLES
  pc,   \* "loop", or how from_hex returned
  hex,  \* the buffer, indexed from 0
  len,  \* its length
  i,    \* the loop counter
  arg   \* history: the buffer when from_hex was called

vars == <<pc, hex, len, i, arg>>

\* val: the digit c stands for; Invalid is Err(InvalidHexCharacter).
Invalid == 16
Val(c) == CASE c \in 65..70  -> c - 65 + 10
            [] c \in 97..102 -> c - 97 + 10
            [] c \in 48..57  -> c - 48
            [] OTHER         -> Invalid

Init == /\ len \in Lengths /\ arg \in [0..(len - 1) -> Chars] /\ hex = arg /\ i = 0
        /\ pc = IF len % 2 # 0 THEN "OddLength" ELSE "loop"

\* Mutant: the result goes where the low digit of this pair was.
IterateInPair ==
  /\ pc = "loop" /\ i < len \div 2
  /\ LET hi == Val(hex[i * 2])
         lo == Val(hex[i * 2 + 1])
     IN \/ /\ hi = Invalid \/ lo = Invalid
           /\ pc' = "InvalidHexCharacter" /\ UNCHANGED <<hex, i>>
        \/ /\ hi # Invalid /\ lo # Invalid
           /\ hex' = [hex EXCEPT ![i * 2 + 1] = (hi * 16 + lo) % 256]
           /\ i' = i + 1 /\ UNCHANGED pc
  /\ UNCHANGED <<len, arg>>

\* One iteration; on a u8, hi << 4 | lo is hi * 16 + lo.
Iterate ==
  /\ pc = "loop" /\ i < len \div 2
  /\ LET hi == Val(hex[i * 2])
         lo == Val(hex[i * 2 + 1])
     IN \/ /\ hi = Invalid \/ lo = Invalid
           /\ pc' = "InvalidHexCharacter" /\ UNCHANGED <<hex, i>>
        \/ /\ hi # Invalid /\ lo # Invalid
           /\ hex' = [hex EXCEPT ![i] = (hi * 16 + lo) % 256]
           /\ i' = i + 1 /\ UNCHANGED pc
  /\ UNCHANGED <<len, arg>>

Done ==
  /\ pc = "loop" /\ i = len \div 2
  /\ pc' = "Ok" /\ UNCHANGED <<hex, len, i, arg>>

Next == Iterate \/ Done

Spec == Init /\ [][Next]_vars

-----------------------------------------------------------------------------
\* The byte that the pair of digits k of the argument stands for.
Decoded(k) == Val(arg[k * 2]) * 16 + Val(arg[k * 2 + 1])

\* The decoder gives what decoding into a second buffer would: on Ok the first
\* half holds the bytes of all the argument's pairs and each digit was valid; it
\* reports an invalid character only if there is one.
DecodesArgument ==
  /\ pc = "Ok" => \A k \in 0..(len \div 2 - 1) :
       /\ Val(arg[k * 2]) # Invalid /\ Val(arg[k * 2 + 1]) # Invalid
       /\ hex[k] = Decoded(k)
  /\ pc = "InvalidHexCharacter" => \E k \in DOMAIN arg : Val(arg[k]) = Invalid
=============================================================================
