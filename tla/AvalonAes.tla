----------------------------- MODULE AvalonAes -----------------------------
(***************************************************************************)
(* avalon_aes_interface.sv: the sixteen registers through which the bus    *)
(* drives the AES core and sees its result.  0-3 hold the key, 4-7 the     *)
(* encrypted and 8-11 the decrypted message, bit 0 of 14 is START, and 15  *)
(* reads as all ones once a result is DONE.  The core is taken by what it  *)
(* promises, AesDevice, which AesCore implements.                          *)
(*                                                                         *)
(* One step is one clock.  The master may write one register in it; a read *)
(* changes nothing.  The word a write leaves behind, whichever of its byte *)
(* lanes are enabled, is any Word.                                         *)
(***************************************************************************)
EXTENDS Naturals

CONSTANTS
  Word,       (* The words the master writes.                              *)
  Zero,       (* 32'b0.                                                    *)
  AllOnes,    (* 32'hffffffff.                                             *)
  Odd,        (* The words whose bit 0 is set.                             *)
  Decrypt(_, _),  (* The result due for a key and a message.               *)
  Outcome,    (* What comes of a run whose key or message was changed.     *)
  Garbage     (* The result port before a run is done.                     *)

ASSUME WordAssumption ==
  /\ {Zero, AllOnes} \subseteq Word
  /\ Odd \subseteq Word /\ AllOnes \in Odd /\ Zero \notin Odd

VARIABLES
  reset,                        (* RESET                                   *)
  reg_sys,                      (* the registers                           *)
  phase, job, held, result,     (* the core, see AesDevice                 *)
  origin      (* history: the job registers 8-11 were last loaded for, and *)
              (* whether they hold its due result: inputs held, no write   *)

core == <<phase, job, held, result>>
vars == <<reset, reg_sys, core, origin>>

Addr == 0..15

\* The 128-bit value in four registers, and the wires to the core.
Block(a) == [i \in 0..3 |-> reg_sys[a + i]]
key_holder == Block(0)
msg_enc_holder == Block(4)
AES_START == reg_sys[14] \in Odd
\* Mutant: DONE raised while the core still works.
aes_done_local_Early == phase \in {"busy", "done"}
aes_done_local == phase = "done"

Blocks == [0..3 -> Word]

Core == INSTANCE AesDevice
          WITH start <- AES_START, key <- key_holder, msg <- msg_enc_holder

\* Word i of a 128-bit result.
Part(b, i) == [block |-> b, word |-> i]

\* No write in this clock, or the write of one register.
NoWrite == [addr |-> 16, data |-> Zero]
Write(a, d) == [addr |-> a, data |-> d]

\* Mutants: the words of the result in the other order, a write that wins over
\* DONE, DONE put in the register next to its own.
Registers_Reversed(w) ==
  reg_sys' = [a \in Addr |->
    IF aes_done_local /\ a = 15 THEN AllOnes
    ELSE IF aes_done_local /\ a \in 8..11 THEN Part(result, 11 - a)
    ELSE IF reset THEN Zero
    ELSE IF a = w.addr THEN w.data
    ELSE reg_sys[a]]
Registers_WriteWins(w) ==
  reg_sys' = [a \in Addr |->
    IF reset THEN Zero
    ELSE IF a = w.addr THEN w.data
    ELSE IF aes_done_local /\ a = 15 THEN AllOnes
    ELSE IF aes_done_local /\ a \in 8..11 THEN Part(result, a - 8)
    ELSE reg_sys[a]]
Registers_Done14(w) ==
  reg_sys' = [a \in Addr |->
    IF aes_done_local /\ a = 14 THEN AllOnes
    ELSE IF aes_done_local /\ a \in 8..11 THEN Part(result, a - 8)
    ELSE IF reset THEN Zero
    ELSE IF a = w.addr THEN w.data
    ELSE reg_sys[a]]

(***************************************************************************)
(* The always_ff block, statement order included: the assignments for DONE *)
(* come last and win over a write, and over reset.                         *)
(***************************************************************************)
Registers(w) ==
  reg_sys' = [a \in Addr |->
    IF aes_done_local /\ a = 15 THEN AllOnes
    ELSE IF aes_done_local /\ a \in 8..11 THEN Part(result, a - 8)
    ELSE IF reset THEN Zero
    ELSE IF a = w.addr THEN w.data
    ELSE reg_sys[a]]

Origin(w) ==
  origin' = IF aes_done_local THEN [job |-> job, held |-> held]
            ELSE [origin EXCEPT !.held = @ /\ ~reset /\ w.addr \notin 8..11]

\* One clock: the registers, and the core with the inputs they give it.  What
\* the result port shows before the run is done is of no use to anyone.
Clock(w) ==
  /\ reset' \in BOOLEAN
  /\ Registers(w)
  /\ Core!Next
  /\ IF phase' = "done" THEN TRUE ELSE result' = Garbage
  /\ Origin(w)

Init ==
  /\ reset = FALSE
  /\ reg_sys = [a \in Addr |-> Zero]
  /\ Core!Init
  /\ job = [key |-> key_holder, msg |-> msg_enc_holder]
  /\ result = Garbage
  /\ origin = [job |-> job, held |-> FALSE]

Next ==
  \/ Clock(NoWrite)
  \/ \E a \in Addr, d \in Word : Clock(Write(a, d))

Spec == Init /\ [][Next]_vars

-----------------------------------------------------------------------------
Jobs == [key : Blocks, msg : Blocks]
Results(j) == {Garbage, Decrypt(j.key, j.msg)} \cup Outcome

TypeOK ==
  /\ reset \in BOOLEAN
  /\ DOMAIN reg_sys = Addr
  /\ \A a \in Addr \ (8..11) : reg_sys[a] \in Word
  /\ \A i \in 0..3 : reg_sys[8 + i] \in Word \cup [block : Results(origin.job), word : {i}]
  /\ phase \in {"idle", "loading", "busy", "done"}
  /\ job \in Jobs
  /\ held \in BOOLEAN
  /\ result \in Results(job)
  /\ origin \in [job : Jobs, held : BOOLEAN]

(***************************************************************************)
(* What the bus reads from registers 8-11 as the result of a job is all    *)
(* four words of one decryption, that of the key and message the job was   *)
(* started with -- however the master writes, unless it wrote over the key *)
(* or the message while they were needed.                                  *)
(***************************************************************************)
PublishedCorrect ==
  origin.held =>
    \A i \in 0..3 : reg_sys[8 + i] = Part(Decrypt(origin.job.key, origin.job.msg), i)

(***************************************************************************)
(* A run the core lets go of has been published: by the clock in which it  *)
(* leaves done, its result and DONE are in the registers, whatever the     *)
(* master wrote in that same clock.                                        *)
(***************************************************************************)
ReleasedIsPublished ==
  phase = "done" /\ phase' = "idle" =>
    /\ reg_sys'[15] = AllOnes
    /\ \A i \in 0..3 : reg_sys'[8 + i] = Part(result, i)

NoResultLost == [][ReleasedIsPublished]_vars

(***************************************************************************)
(* START held high keeps the core running the job again and again, so that *)
(* DONE comes back however often the master clears it.                     *)
(***************************************************************************)
KeepsAnswering == <>[](AES_START /\ ~reset) => []<>(reg_sys[15] = AllOnes)

(***************************************************************************)
(* Once START is low the core ends what it is doing and comes to rest.     *)
(***************************************************************************)
ComesToRest ==
  <>[](reg_sys[14] \notin Odd /\ ~reset) => \/ <>[](phase = "done") \/ <>[](phase = "idle")

(***************************************************************************)
(* The comment on the reset branch (avalon_aes_interface.sv:67): "clear    *)
(* all 16 registers on reset".                                             *)
(***************************************************************************)
ResetClearsAll == [][reset => \A a \in Addr : reg_sys'[a] = Zero]_vars
=============================================================================
