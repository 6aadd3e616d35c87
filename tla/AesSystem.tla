----------------------------- MODULE AesSystem -----------------------------
(***************************************************************************)
(* avalon_aes_interface.sv with its AES core in it, on one clock: START,   *)
(* the key and the encrypted message in the registers are inputs of the    *)
(* core; DONE and the message register are what the registers take from    *)
(* it.  The register file is that of AvalonAes; the core, which AvalonAes  *)
(* takes by what it promises, is AesCore, every clock of it.               *)
(***************************************************************************)
EXTENDS Naturals, InverseCipher

CONSTANTS
  Word, Zero, AllOnes, Odd,     (* see AvalonAes                           *)
  Unknown                       (* see AesCore                             *)

VARIABLES
  reset, reg_sys, origin,                                (* see AvalonAes  *)
  state, round, cur_msg, isb, imc, sub, run, held        (* see AesCore    *)

core == <<state, round, cur_msg, isb, imc, sub, run, held>>
vars == <<reset, reg_sys, origin, core>>

(***************************************************************************)
(* The wires from the registers to the core.                               *)
(***************************************************************************)
Blocks == [0..3 -> Word]
Block(a) == [i \in 0..3 |-> reg_sys[a + i]]

AES_START == reg_sys[14] \in Odd
\* Mutant: the key wired to the registers of the message.
key_holder_Reg4 == Block(4)
key_holder == Block(0)
msg_enc_holder == Block(4)

Core == INSTANCE AesCore
          WITH start <- AES_START, key <- key_holder, msg <- msg_enc_holder,
               Key <- Blocks, Msg <- Blocks

(***************************************************************************)
(* The wires back.  The registers look at the message register only once   *)
(* the core says DONE: NotShown stands for all it holds before.            *)
(***************************************************************************)
NotShown == Core!Loaded(Unknown)
aes_msg_dec_local == IF Core!AES_DONE THEN cur_msg ELSE NotShown
Decryption(k, m) == Core!Decrypt(k, m)

Bus == INSTANCE AvalonAes
         WITH phase <- Core!Phase, job <- run, result <- aes_msg_dec_local,
              Decrypt <- Decryption, Outcome <- Core!Term, Garbage <- NotShown

ASSUME SystemAssumption == Bus!WordAssumption /\ Core!UnknownAssumption

(***************************************************************************)
(* One clock, with at most one write of the master.                        *)
(***************************************************************************)
Clock(w) ==
  /\ reset' \in BOOLEAN
  /\ Bus!Registers(w)
  /\ Core!Next
  /\ Bus!Origin(w)

Init ==
  /\ reset = FALSE
  /\ reg_sys = [a \in Bus!Addr |-> Zero]
  /\ Core!Init
  /\ origin = [job |-> run, held |-> FALSE]

Next ==
  \/ Clock(Bus!NoWrite)
  \/ \E a \in Bus!Addr, d \in Word : Clock(Bus!Write(a, d))

Spec == Init /\ [][Next]_vars

-----------------------------------------------------------------------------
(***************************************************************************)
(* The clocked system is one of AvalonAes: every clock of the core is one  *)
(* that AesDevice allows, between the registers of the same clock.         *)
(***************************************************************************)
ImplementsRegisters == Bus!Spec

(***************************************************************************)
(* So the promises AvalonAes states are kept by the core that is there     *)
(* (avalon_aes_interface.sv:91-99).  What the bus reads as the result of a *)
(* job is the whole inverse cipher applied to the message the job began    *)
(* with, under the key it began with, all four words of it, unless the     *)
(* master wrote over them while they were needed.                          *)
(***************************************************************************)
PublishedCorrect == Bus!PublishedCorrect

\* A result the core lets go of is in the registers by that clock, whatever the
\* master wrote in it (the order of the blocks of the always_ff).
NoResultLost == Bus!NoResultLost

\* START governs the core: held high, it brings DONE back again and again, and
\* held low, it brings the core to rest, in idle or in done (control.sv:48, 89).
StartGoverns == Bus!KeepsAnswering /\ Bus!ComesToRest

\* The comment on the reset branch (avalon_aes_interface.sv:67): "clear all 16
\* registers on reset".
ResetClearsAll == Bus!ResetClearsAll
=============================================================================
