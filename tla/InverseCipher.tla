--------------------------- MODULE InverseCipher ---------------------------
(***************************************************************************)
(* The inverse cipher as the sequence of its operations, the reference for *)
(* the order in which the core applies its units: round 0 only adds a      *)
(* round key, rounds 1 to 9 apply four operations, round 10 leaves out the *)
(* fourth.  AesCore takes the operations for symbols; AesDatapath says     *)
(* what each does to the sixteen bytes of a block.                         *)
(***************************************************************************)
EXTENDS Naturals, Sequences

ISR == [op |-> "InvShiftRows"]
ISB == [op |-> "InvSubBytes"]
IMC == [op |-> "InvMixColumns"]
ARK(k, n) == [op |-> "AddRoundKey", key |-> k, round |-> n]

OpAt(k, i) ==
  IF i = 1 THEN ARK(k, 0)
  ELSE CASE i % 4 = 2 -> ISR
         [] i % 4 = 3 -> ISB
         [] i % 4 = 0 -> ARK(k, i \div 4)
         [] i % 4 = 1 -> IMC

Prefix(k, n) == [i \in 1..n |-> OpAt(k, i)]
=============================================================================
