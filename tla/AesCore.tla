------------------------------ MODULE AesCore ------------------------------
(***************************************************************************)
(* The AES-128 decryption core of AES.sv, clock by clock: the state        *)
(* machine of control.sv, its four counters, the message register, and the *)
(* three units whose answer arrives later than the register they read --   *)
(* the S-box (falling edge), the key schedule (ten falling edges) and the  *)
(* inverse MixColumns (one 32-bit word per rising edge).                   *)
(*                                                                         *)
(* Data is symbolic.  A 128-bit value is the term [src, ops]: the message  *)
(* it was loaded from and the operations applied to it since.  Unknown     *)
(* stands for any content that is not a term of that kind: a cleared       *)
(* register, a block whose four words are of different terms, the round    *)
(* keys of a schedule that has not settled.                                *)
(***************************************************************************)
EXTENDS Naturals, Sequences, InverseCipher

CONSTANTS
  Key,        (* The values of AES_KEY.                                    *)
  Msg,        (* The values of AES_MSG_ENC.                                *)
  Unknown     (* A value in neither set.                                   *)

ASSUME UnknownAssumption == Unknown \notin Key \cup Msg

VARIABLES
  reset, start, key, msg,   (* inputs: RESET, AES_START, AES_KEY, AES_MSG_ENC *)
  state,      (* curr_state, by its enum encoding                          *)
  round,      (* round[0..3]: rounds, key wait, instruction, mix columns   *)
  cur_msg,    (* key_SR, which is also AES_MSG_DEC                         *)
  isb,        (* the registers of InvSub_16                                *)
  imc,        (* output_imc: for each word, the block it was taken from    *)
  sub,        (* sub[i]: the key whose stage-i subword key_i has latched   *)
  run,        (* history: the key and message the inputs held at the start *)
  held        (* history: have they been held for as long as they must be  *)

inputs == <<reset, start, key, msg>>
machine == <<state, round, cur_msg, isb, imc, sub>>
vars == <<inputs, machine, run, held>>

(***************************************************************************)
(* enum { Halted, key_expansion, finished, mc_inv, r0, r1, ..., r10 }      *)
(***************************************************************************)
Halted == 0
key_expansion == 1
finished == 2
mc_inv == 3
r(k) == 4 + k

\* The key counter value at which the control unit takes the key schedule for
\* done (and, as a mutant, one too low for its ten stages).
KeyWait_TooShort == 5
KeyWait == 24

Computing == state \notin {Halted, finished}
Loading == state = key_expansion /\ round[1] < KeyWait
AES_DONE == state = finished

(***************************************************************************)
(* The terms the operations build (for the operations: InverseCipher).     *)
(***************************************************************************)
Loaded(m) == [src |-> m, ops |-> <<>>]
Apply(v, o) == [src |-> v.src, ops |-> Append(v.ops, o)]

\* The key schedule is right up to stage i once stages 0..i have all latched
\* their subword under the key now present; an unsettled stage is Unknown.
Settled(i) == \A j \in 0..i : sub[j] = key

\* total_key_sched, as addRoundKey selects from it: Cipherkey for round 10,
\* key_{9-n} below it.
RoundKey(n) == IF n = 10 \/ (n < 10 /\ Settled(9 - n)) THEN key ELSE Unknown

\* output_imc is one block only when its four words come from the same one.
MixColumns == IF \A w \in 0..3 : imc[w] = imc[0] THEN Apply(imc[0], IMC)
                                                 ELSE Loaded(Unknown)

\* instr_selector: the two low bits of the instruction counter choose.
cur_instruction ==
  CASE round[2] % 4 = 0 -> Apply(cur_msg, ISR)
    [] round[2] % 4 = 1 -> isb
    [] round[2] % 4 = 2 -> Apply(cur_msg, ARK(RoundKey(round[0]), round[0]))
    [] round[2] % 4 = 3 -> MixColumns

(***************************************************************************)
(* One period of the clock, given what the control unit puts out: the next *)
(* state, the counters it adds to and clears (add wins), and the load of   *)
(* the message register.  At the rising edge everything clocked takes its  *)
(* new value at once, the inputs (registers of the Avalon interface on the *)
(* same clock) included; at the falling edge that follows, the S-boxes     *)
(* latch what the new values and the old subwords put before them.         *)
(***************************************************************************)
\* count_total of the four counters (mutants: a total one too low).
CountTotal_Rounds9 == <<9, KeyWait, 4, 4>>
CountTotal_Columns3 == <<10, KeyWait, 4, 3>>
CountTotal == <<10, KeyWait, 4, 4>>

\* One counter; clearing needs add low (mutant: no wrap at the total).
Count_NoWrap(i, add, clear) ==
  IF i \in add THEN round[i] + 1 ELSE IF i \in clear THEN 0 ELSE round[i]

Count(i, add, clear) ==
  IF i \in add THEN IF round[i] = CountTotal[i + 1] THEN 0 ELSE round[i] + 1
  ELSE IF i \in clear THEN 0
  ELSE round[i]

Edge(next, add, clear, load) ==
  /\ reset' \in BOOLEAN /\ start' \in BOOLEAN /\ key' \in Key /\ msg' \in Msg
  /\ state' = IF reset THEN Halted ELSE next
  /\ round' = [i \in 0..3 |-> Count(i, add, clear)]
  /\ cur_msg' = IF reset THEN Loaded(Unknown)
                ELSE CASE load = "Key"  -> cur_instruction
                       [] load = "R0"   -> Loaded(msg)
                       [] load = "none" -> cur_msg
  /\ imc' = [imc EXCEPT ![round[3] % 4] = cur_msg]
  /\ isb' = Apply(cur_msg', ISB)
  /\ sub' = [i \in 0..9 |->
               IF \A j \in 0..9 : j < i => sub[j] = key' THEN key' ELSE Unknown]

\* What the history variables record of the period: a run begins, or goes on.
Begin ==
  /\ run' = [key |-> key', msg |-> msg']
  /\ held' = TRUE
Continue ==
  /\ run' = run
  /\ held' = (/\ held
              /\ Computing' => key' = run.key
              /\ Loading' => msg' = run.msg)

(***************************************************************************)
(* The control unit, one action per state.  Counters 1, 2 and 3 are        *)
(* cleared unless the state says otherwise; counter 0 is not.              *)
(***************************************************************************)
Wait ==
  /\ state = Halted
  /\ Edge(IF start THEN key_expansion ELSE Halted, {}, {1, 2, 3}, "none")
  /\ IF start /\ ~reset THEN Begin ELSE Continue

ExpandKey ==
  /\ state = key_expansion
  /\ IF round[1] = KeyWait THEN Edge(r(0), {}, {1, 2, 3}, "none")
                      ELSE Edge(key_expansion, {1}, {1, 2, 3}, "R0")
  /\ Continue

\* Mutant: r0 leaves the round counter as an interrupted run left it.
FirstRound_NoClear ==
  /\ state = r(0)
  /\ IF round[2] = 2 THEN Edge(r(1), {0}, {1, 2, 3}, "Key")
                     ELSE Edge(r(0), {2}, {1, 3}, "none")
  /\ Continue

FirstRound ==
  /\ state = r(0)
  /\ IF round[2] = 2 THEN Edge(r(1), {0}, {1, 2, 3}, "Key")
                     ELSE Edge(r(0), {2}, {0, 1, 3}, "none")
  /\ Continue

Round(k) ==
  /\ state = r(k)
  /\ IF round[2] = 3 THEN Edge(IF k = 10 THEN finished ELSE mc_inv, {0}, {1, 3}, "none")
                     ELSE Edge(r(k), {2}, {1, 3}, "Key")
  /\ Continue

\* Mutants: mc_inv loads a word too early; it does not clear the instruction counter.
InvMix_Early ==
  /\ state = mc_inv
  /\ IF round[3] = 3
     THEN Edge(IF round[0] \in 2..10 THEN r(round[0]) ELSE mc_inv, {}, {1, 2, 3}, "Key")
     ELSE Edge(mc_inv, {3}, {1}, "none")
  /\ Continue
InvMix_NoClear ==
  /\ state = mc_inv
  /\ IF round[3] = 4
     THEN Edge(IF round[0] \in 2..10 THEN r(round[0]) ELSE mc_inv, {}, {1, 3}, "Key")
     ELSE Edge(mc_inv, {3}, {1}, "none")
  /\ Continue

InvMix ==
  /\ state = mc_inv
  /\ IF round[3] = 4
     THEN Edge(IF round[0] \in 2..10 THEN r(round[0]) ELSE mc_inv, {}, {1, 2, 3}, "Key")
     ELSE Edge(mc_inv, {3}, {1}, "none")
  /\ Continue

\* Mutant: finished is left without waiting for START.
Finish_NoWait ==
  /\ state = finished
  /\ Edge(Halted, {}, {1, 2, 3}, "none")
  /\ Continue

Finish ==
  /\ state = finished
  /\ Edge(IF start THEN Halted ELSE finished, {}, {1, 2, 3}, "none")
  /\ Continue

(***************************************************************************)
(* Power-up: every register of the FPGA is low, and the inputs are those   *)
(* of registers that are low too.                                          *)
(***************************************************************************)
Init ==
  /\ reset = FALSE /\ start = FALSE /\ key \in Key /\ msg \in Msg
  /\ state = Halted
  /\ round = [i \in 0..3 |-> 0]
  /\ cur_msg = Loaded(Unknown)
  /\ isb = Loaded(Unknown)
  /\ imc = [w \in 0..3 |-> Loaded(Unknown)]
  /\ sub = [i \in 0..9 |-> Unknown]
  /\ run = [key |-> key, msg |-> msg]
  /\ held = FALSE

Next ==
  \/ Wait
  \/ ExpandKey
  \/ FirstRound
  \/ \E k \in 1..10 : Round(k)
  \/ InvMix
  \/ Finish

Spec == Init /\ [][Next]_vars

\* The oscillator does not stop.
FairSpec == Spec /\ WF_vars(Next)

-----------------------------------------------------------------------------
(***************************************************************************)
(* What a run must compute: the whole inverse cipher, on its message.      *)
(***************************************************************************)
Decrypt(k, m) == [src |-> m, ops |-> Prefix(k, 40)]

(***************************************************************************)
(* Type invariant.  The counters stay within their totals (control.sv,     *)
(* counters.sv), so none of them wraps its five bits.                      *)
(***************************************************************************)
Op == {ISR, ISB, IMC} \cup {ARK(k, n) : k \in Key \cup {Unknown}, n \in 0..10}
Term == [src : Msg \cup {Unknown}, ops : Seq(Op)]

TypeOK ==
  /\ reset \in BOOLEAN /\ start \in BOOLEAN /\ key \in Key /\ msg \in Msg
  /\ state \in 0..14
  /\ round \in [0..3 -> 0..24]
  /\ \A i \in 0..3 : round[i] <= CountTotal[i + 1]
  /\ cur_msg \in Term /\ isb \in Term /\ imc \in [0..3 -> Term]
  /\ sub \in [0..9 -> Key \cup {Unknown}]
  /\ run \in [key : Key, msg : Msg]
  /\ held \in BOOLEAN
(***************************************************************************)
(* A run whose inputs were held gives the decryption of what they held:    *)
(* the operations in their order, every round key from the settled         *)
(* schedule of the key, every word and S-box answer in time (AES.sv).      *)
(***************************************************************************)
ResultCorrect == AES_DONE /\ held => cur_msg = Decrypt(run.key, run.msg)

(***************************************************************************)
(* Whatever the inputs do meanwhile -- a key register rewritten, START     *)
(* dropped -- a run that reaches finished has gone through the whole       *)
(* sequence of operations, each AddRoundKey with its own round number.     *)
(***************************************************************************)
Shape(ops) == [i \in DOMAIN ops |-> <<ops[i].op, IF ops[i].op = "AddRoundKey"
                                                 THEN ops[i].round ELSE 0>>]

RunsWholeSchedule ==
  AES_DONE => Shape(cur_msg.ops) = Shape(Prefix(Unknown, 40))

(***************************************************************************)
(* The word-at-a-time inverse MixColumns never hands the message register  *)
(* a block put together from the words of two different ones: once the     *)
(* message is loaded, the register holds a term of it until it is released.*)
(***************************************************************************)
NoTornColumns ==
  state # Halted /\ ~Loading => cur_msg.src \in Msg

(***************************************************************************)
(* mc_inv finds its way back by the round counter alone; the default of    *)
(* its case (control.sv:79), where it would stay for ever, is never taken. *)
(***************************************************************************)
MixColumnsReturns == state = mc_inv => round[0] \in 2..10

(***************************************************************************)
(* How long a run takes, whatever it meets: the clocks from a state and    *)
(* its counters to finished.  A round is four of them, and five more go to *)
(* the inverse MixColumns between two rounds.                              *)
(***************************************************************************)
RunLength == 113
ClocksLeft ==
  CASE state = key_expansion -> RunLength - round[1]
    [] state = r(0) -> 88 - round[2]
    [] state \in r(1)..r(10) -> 9 * (r(10) - state) + 4 - round[2]
    [] state = mc_inv -> 9 * (10 - round[0]) + 9 - round[3]
    [] state \in {Halted, finished} -> 0

(***************************************************************************)
(* A run is never longer or shorter: unless it is reset, it is finished    *)
(* RunLength clocks after it began, whatever an interrupted run left in    *)
(* the counters, and every clock until then brings it one clock nearer,    *)
(* with no help from START: no counter is ever waited for in vain.         *)
(***************************************************************************)
OnTime ==
  ~reset =>
    /\ state = Halted /\ start => ClocksLeft' = RunLength
    /\ Computing => ClocksLeft \in 1..RunLength /\ ClocksLeft' = ClocksLeft - 1
    /\ Computing /\ ClocksLeft = 1 => AES_DONE'
RunsOnTime == [][OnTime]_vars

(***************************************************************************)
(* The core implements AesDevice.                                          *)
(***************************************************************************)
Phase == IF state = Halted THEN "idle"
         ELSE IF AES_DONE THEN "done"
         ELSE IF Loading THEN "loading" ELSE "busy"

Device == INSTANCE AesDevice
            WITH phase <- Phase, job <- run, result <- cur_msg, Outcome <- Term

ImplementsDevice == Device!Spec
-----------------------------------------------------------------------------
(***************************************************************************)
(* The inductive invariant.  Which values the counters can have in which   *)
(* state, and how much of the work each unit has done by then.             *)
(***************************************************************************)
Control ==
  /\ state = key_expansion => round[2] = 0 /\ round[3] = 0
  /\ state = r(0) => /\ round[2] \in 0..2 /\ round[3] = 0
                     /\ round[2] > 0 => round[0] = 0
  /\ \A k \in 1..10 :
       state = r(k) => round[0] = k /\ round[2] \in 0..3 /\ round[3] = 0
  /\ state = mc_inv => round[0] \in 2..10 /\ round[2] = 3

Units ==
  /\ state # Halted => isb = Apply(cur_msg, ISB)
  /\ state = mc_inv => \A w \in 0..3 : w < round[3] => imc[w] = cur_msg
  /\ state # Halted =>
       (state = key_expansion /\ round[1] = 0) \/ cur_msg.src \in Msg

\* How many operations of the inverse cipher the message register has seen.
Position ==
  IF state = mc_inv THEN 4 * (round[0] - 1)
  ELSE IF state \in 5..14 THEN 4 * (state - 4) - 3 + round[2]
  ELSE IF state = finished THEN 40 ELSE 0

\* Stage i of the key schedule settles at the i-th clock of the run.
KeyProgress ==
  held /\ Computing =>
    /\ key = run.key
    /\ \A i \in 0..9 : (state = key_expansion => i <= round[1]) => sub[i] = key

MsgProgress ==
  held /\ state # Halted =>
    /\ Loading => msg = run.msg
    /\ \/ state = key_expansion /\ round[1] = 0
       \/ cur_msg = [src |-> run.msg, ops |-> Prefix(run.key, Position)]

\* The same of a run whose inputs were not held, but for its round keys.
ScheduleProgress ==
  state # Halted =>
    \/ state = key_expansion /\ round[1] = 0
    \/ Shape(cur_msg.ops) = Shape(Prefix(Unknown, Position))

Inv == TypeOK /\ Control /\ Units /\ KeyProgress /\ MsgProgress /\ ScheduleProgress
=============================================================================
