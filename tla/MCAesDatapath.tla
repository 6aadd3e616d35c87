--------------------------- MODULE MCAesDatapath ---------------------------
(***************************************************************************)
(* AesDatapath for TLC.  Sixteen messages under the key 0 put every byte   *)
(* value before aes_sbox in the first round; then the input of the         *)
(* benchmark, and the example of FIPS 197, Appendix C.1.                   *)
(***************************************************************************)
EXTENDS AesDatapath

MCInputs ==
  {[msg |-> [n \in 0..15 |-> 16 * c + n], key |-> [n \in 0..15 |-> 0]] : c \in 0..15}
  \cup {[msg |-> [n \in 0..15 |-> 170], key |-> [n \in 0..15 |-> 187]],
        [msg |-> ExampleMsg, key |-> ExampleKey]}
=============================================================================
