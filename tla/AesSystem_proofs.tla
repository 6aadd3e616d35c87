-------------------------- MODULE AesSystem_proofs --------------------------
(***************************************************************************)
(* The registers with the clocked core in them are registers as AvalonAes  *)
(* describes them, for any set of words and any master; and so what is     *)
(* proved of AvalonAes and of AesCore holds of the two together.           *)
(***************************************************************************)
EXTENDS NiosSystem, TLAPS

CoreProofs == INSTANCE AesCore_proofs
  WITH start <- AES_START, key <- key_holder, msg <- msg_enc_holder,
       Key <- Blocks, Msg <- Blocks
BusProofs == INSTANCE AvalonAes_proofs
  WITH phase <- Core!Phase, job <- run, result <- aes_msg_dec_local,
       Decrypt <- Decryption, Outcome <- Core!Term, Garbage <- NotShown
ProgProofs == INSTANCE NiosAes_proofs
  WITH phase <- Core!Phase, job <- run, result <- aes_msg_dec_local,
       Decrypt <- Decryption, Outcome <- Core!Term, Garbage <- NotShown

(***************************************************************************)
(* The core of the system is the one AesCore_proofs is about: its          *)
(* definitions, instantiated there and here, say the same.                 *)
(***************************************************************************)
LEMMA SameInstruction == Core!cur_instruction = CoreProofs!cur_instruction
BY DEF Core!cur_instruction, CoreProofs!cur_instruction,
       Core!MixColumns, CoreProofs!MixColumns, Core!RoundKey, CoreProofs!RoundKey,
       Core!Settled, CoreProofs!Settled, Core!Apply, CoreProofs!Apply,
       Core!Loaded, CoreProofs!Loaded, Core!ISR, CoreProofs!ISR, Core!ISB, CoreProofs!ISB,
       Core!IMC, CoreProofs!IMC, Core!ARK, CoreProofs!ARK

\* The clock edges.
LEMMA SameEdge ==
  ASSUME NEW STATE next, NEW STATE add, NEW STATE clear, NEW STATE load
  PROVE  Core!Edge(next, add, clear, load) <=> CoreProofs!Edge(next, add, clear, load)
BY SameInstruction
   DEF Core!Edge, CoreProofs!Edge, Core!Count, CoreProofs!Count,
       Core!CountTotal, CoreProofs!CountTotal, Core!KeyWait, CoreProofs!KeyWait,
       Core!Halted, CoreProofs!Halted, Core!Apply, CoreProofs!Apply,
       Core!Loaded, CoreProofs!Loaded, Core!ISB, CoreProofs!ISB

\* The history of which job is run, and whether its inputs stay.
LEMMA SameHistory ==
  (Core!Begin <=> CoreProofs!Begin) /\ (Core!Continue <=> CoreProofs!Continue)
BY DEF Core!Begin, CoreProofs!Begin, Core!Continue, CoreProofs!Continue,
       Core!Computing, CoreProofs!Computing, Core!Loading, CoreProofs!Loading,
       Core!Halted, CoreProofs!Halted, Core!finished, CoreProofs!finished,
       Core!key_expansion, CoreProofs!key_expansion, Core!KeyWait, CoreProofs!KeyWait

\* Initial states, steps and stuttering.
LEMMA SameCore ==
  /\ Init => CoreProofs!Init
  /\ Core!Next => CoreProofs!Next
  /\ UNCHANGED vars => UNCHANGED CoreProofs!vars
<1>1. Init => CoreProofs!Init
  BY DEF Init, Core!Init, CoreProofs!Init, Core!Halted, CoreProofs!Halted,
         Core!Loaded, CoreProofs!Loaded
<1>2. Core!Next => CoreProofs!Next
  BY SameEdge, SameHistory
     DEF Core!Next, CoreProofs!Next, Core!Wait, CoreProofs!Wait,
         Core!ExpandKey, CoreProofs!ExpandKey, Core!FirstRound, CoreProofs!FirstRound,
         Core!Round, CoreProofs!Round, Core!InvMix, CoreProofs!InvMix,
         Core!Finish, CoreProofs!Finish, Core!Halted, CoreProofs!Halted,
         Core!key_expansion, CoreProofs!key_expansion, Core!finished, CoreProofs!finished,
         Core!mc_inv, CoreProofs!mc_inv, Core!r, CoreProofs!r, Core!KeyWait, CoreProofs!KeyWait
<1>3. UNCHANGED vars => UNCHANGED CoreProofs!vars
  BY DEF vars, core, CoreProofs!vars, CoreProofs!inputs, CoreProofs!machine,
         AES_START, key_holder, msg_enc_holder, Block
<1> QED  BY <1>1, <1>2, <1>3

\* Every step of the system clocks the core.
LEMMA NextClocksCore == Next => Core!Next
BY DEF Next, Clock

(***************************************************************************)
(* The invariant of AesCore, of the core driven by the registers.          *)
(***************************************************************************)
LEMMA CoreInvariance == Spec => []CoreProofs!Inv
<1>1. Unknown \notin Blocks \cup Blocks
  BY SystemAssumption DEF Core!UnknownAssumption
<1>2. CoreProofs!Spec => []CoreProofs!Inv
  BY <1>1, CoreProofs!Invariance
<1>3. Init => CoreProofs!Init
  BY SameCore
<1>4. [Next]_vars => [CoreProofs!Next]_CoreProofs!vars
  BY SameCore, NextClocksCore
<1> QED  BY <1>2, <1>3, <1>4, PTL DEF Spec, CoreProofs!Spec

(***************************************************************************)
(* A clock of the core is a step of AesDevice between the wires, what the  *)
(* registers see of the message register in place of the register.         *)
(***************************************************************************)
LEMMA SamePhase ==
  /\ CoreProofs!Phase = Core!Phase /\ CoreProofs!Phase' = Core!Phase'
  /\ Core!AES_DONE <=> Core!Phase = "done"
  /\ Core!AES_DONE' <=> Core!Phase' = "done"
BY DEF Core!Phase, CoreProofs!Phase, Core!AES_DONE, CoreProofs!AES_DONE,
       Core!Loading, CoreProofs!Loading, Core!Halted, CoreProofs!Halted,
       Core!finished, CoreProofs!finished, Core!key_expansion, CoreProofs!key_expansion,
       Core!KeyWait, CoreProofs!KeyWait

\* The inputs of the core.
LEMMA SameWires ==
  /\ Bus!AES_START <=> AES_START
  /\ Bus!key_holder = key_holder /\ Bus!key_holder' = key_holder'
  /\ Bus!msg_enc_holder = msg_enc_holder /\ Bus!msg_enc_holder' = msg_enc_holder'
BY DEF Bus!AES_START, AES_START, Bus!key_holder, key_holder,
       Bus!msg_enc_holder, msg_enc_holder, Bus!Block, Block

\* What a run may end in, and what it should.
LEMMA SameResults ==
  /\ CoreProofs!Term = Core!Term
  /\ \A k, m : CoreProofs!Decrypt(k, m) = Decryption(k, m)
<1>1. CoreProofs!Term = Core!Term
  BY DEF Core!Term, CoreProofs!Term, Core!Op, CoreProofs!Op, Core!ISR, CoreProofs!ISR,
         Core!ISB, CoreProofs!ISB, Core!IMC, CoreProofs!IMC, Core!ARK, CoreProofs!ARK
<1>2. \A k, m : CoreProofs!Decrypt(k, m) = Decryption(k, m)
  BY DEF Decryption, Core!Decrypt, CoreProofs!Decrypt, Core!Prefix, CoreProofs!Prefix,
         Core!OpAt, CoreProofs!OpAt, Core!ISR, CoreProofs!ISR, Core!ISB, CoreProofs!ISB,
         Core!IMC, CoreProofs!IMC, Core!ARK, CoreProofs!ARK
<1> QED  BY <1>1, <1>2

\* Complete alone shows a result; the other clocks show what they showed.
LEMMA DeviceClock ==
  ASSUME CoreProofs!Inv, CoreProofs!Inv', Core!Next
  PROVE  Bus!Core!Next
<1>1. CoreProofs!Device!Next
  <2>1. Unknown \notin Blocks \cup Blocks
    BY SystemAssumption DEF Core!UnknownAssumption
  <2> QED  BY <2>1, SameCore, CoreProofs!DeviceStep
<1>2. CoreProofs!Device!Hold <=> Bus!Core!Hold
  BY SamePhase, SameWires DEF CoreProofs!Device!Hold, Bus!Core!Hold
<1>3. CASE CoreProofs!Device!Complete
  <2>1. aes_msg_dec_local' = cur_msg'
    BY <1>3, SamePhase DEF CoreProofs!Device!Complete, aes_msg_dec_local
  <2> QED
    BY <1>2, <1>3, <2>1, SamePhase, SameResults
       DEF CoreProofs!Device!Complete, Bus!Core!Next, Bus!Core!Complete
<1>4. CASE CoreProofs!Device!Rest
  BY <1>2, <1>4, SamePhase, SameWires
     DEF CoreProofs!Device!Rest, Bus!Core!Next, Bus!Core!Rest, aes_msg_dec_local
<1>5. CASE CoreProofs!Device!Take
  BY <1>5, SamePhase, SameWires DEF CoreProofs!Device!Take, Bus!Core!Next, Bus!Core!Take
<1> QED
  BY <1>1, <1>2, <1>3, <1>4, <1>5, SamePhase, SameWires
     DEF CoreProofs!Device!Next, CoreProofs!Device!Work, CoreProofs!Device!Release,
         CoreProofs!Device!Abandon,
         Bus!Core!Next, Bus!Core!Work, Bus!Core!Release, Bus!Core!Abandon

(***************************************************************************)
(* Every clock of the registers with the core in them is one of AvalonAes. *)
(***************************************************************************)
LEMMA BusClock ==
  ASSUME CoreProofs!Inv, CoreProofs!Inv', NEW w, Clock(w)
  PROVE  Bus!Clock(w)
<1>1. Bus!Core!Next
  BY DeviceClock DEF Clock
<1>2. Core!Phase' # "done" => aes_msg_dec_local' = NotShown
  BY SamePhase DEF aes_msg_dec_local, NotShown, Core!Loaded
<1> QED  BY <1>1, <1>2 DEF Clock, Bus!Clock

\* With the write it came with, or none.
LEMMA BusNext ==
  ASSUME CoreProofs!Inv, CoreProofs!Inv', Next
  PROVE  Bus!Next
<1>1. CASE Clock(Bus!NoWrite)
  BY <1>1, BusClock DEF Bus!Next
<1>2. CASE \E a \in Bus!Addr, d \in Word : Clock(Bus!Write(a, d))
  <2>1. PICK a \in Bus!Addr, d \in Word : Clock(Bus!Write(a, d))
    BY <1>2
  <2>2. Bus!Clock(Bus!Write(a, d))
    BY <2>1, BusClock
  <2> QED  BY <2>2 DEF Bus!Next
<1> QED  BY <1>1, <1>2 DEF Next

\* At power-up nothing is started and nothing published.
LEMMA BusInit == Init => Bus!Init
<1> SUFFICES ASSUME Init PROVE Bus!Init
  OBVIOUS
<1>1. Core!Phase = "idle" /\ ~Core!AES_DONE
  BY DEF Init, Core!Init, Core!Phase, Core!AES_DONE, Core!Halted, Core!finished
<1>2. run = [key |-> Bus!key_holder, msg |-> Bus!msg_enc_holder] /\ held = FALSE
  BY SameWires DEF Init, Core!Init
<1> QED
  BY <1>1, <1>2 DEF Init, Bus!Init, Bus!Core!Init, aes_msg_dec_local

(***************************************************************************)
(* The clocked registers and core implement AvalonAes.                     *)
(***************************************************************************)
THEOREM SystemRefinement == Spec => ImplementsRegisters
<1>1. CoreProofs!Inv /\ CoreProofs!Inv' /\ [Next]_vars => [Bus!Next]_Bus!vars
  <2>1. ASSUME CoreProofs!Inv, CoreProofs!Inv', Next PROVE Bus!Next
    BY <2>1, BusNext
  <2>2. UNCHANGED vars => UNCHANGED Bus!vars
    BY DEF vars, core, Bus!vars, Bus!core, aes_msg_dec_local, NotShown, Core!Loaded,
           Core!AES_DONE, Core!Phase, Core!Loading
  <2> QED  BY <2>1, <2>2
<1> QED
  BY <1>1, BusInit, CoreInvariance, PTL DEF Spec, ImplementsRegisters, Bus!Spec

(***************************************************************************)
(* The registers of the system are those AvalonAes_proofs is about.        *)
(***************************************************************************)
LEMMA SameDevice == Bus!Core!Next <=> BusProofs!Core!Next
BY DEF Bus!AES_START, BusProofs!AES_START, Bus!key_holder, BusProofs!key_holder,
       Bus!msg_enc_holder, BusProofs!msg_enc_holder, Bus!Block, BusProofs!Block,
       Bus!Core!Next, BusProofs!Core!Next, Bus!Core!Take, BusProofs!Core!Take,
       Bus!Core!Work, BusProofs!Core!Work, Bus!Core!Complete,
       BusProofs!Core!Complete, Bus!Core!Rest, BusProofs!Core!Rest,
       Bus!Core!Release, BusProofs!Core!Release, Bus!Core!Abandon,
       BusProofs!Core!Abandon, Bus!Core!Hold, BusProofs!Core!Hold

\* Initial states, steps, stuttering, and the properties proved.
LEMMA SameBus ==
  /\ Bus!Init => BusProofs!Init
  /\ Bus!Next => BusProofs!Next
  /\ UNCHANGED Bus!vars => UNCHANGED BusProofs!vars
  /\ BusProofs!PublishedCorrect => PublishedCorrect
  /\ [BusProofs!ReleasedIsPublished]_BusProofs!vars => [Bus!ReleasedIsPublished]_Bus!vars
<1>1. Bus!Init => BusProofs!Init
  BY DEF Bus!Init, BusProofs!Init, Bus!Core!Init, BusProofs!Core!Init, Bus!Addr,
         BusProofs!Addr, Bus!key_holder, BusProofs!key_holder, Bus!msg_enc_holder,
         BusProofs!msg_enc_holder, Bus!Block, BusProofs!Block
<1>2. ASSUME NEW w PROVE Bus!Clock(w) => BusProofs!Clock(w)
  BY SameDevice DEF Bus!Clock, BusProofs!Clock, Bus!Registers, BusProofs!Registers,
         Bus!Origin, BusProofs!Origin, Bus!aes_done_local,
         BusProofs!aes_done_local, Bus!Part, BusProofs!Part, Bus!Addr,
         BusProofs!Addr
<1>3. Bus!Next => BusProofs!Next
  BY <1>2 DEF Bus!Next, BusProofs!Next, Bus!NoWrite, BusProofs!NoWrite, Bus!Write,
         BusProofs!Write, Bus!Addr, BusProofs!Addr
<1>4. UNCHANGED Bus!vars <=> UNCHANGED BusProofs!vars
  BY DEF Bus!vars, BusProofs!vars, Bus!core, BusProofs!core
<1>5. BusProofs!PublishedCorrect => PublishedCorrect
  BY DEF PublishedCorrect, Bus!PublishedCorrect, BusProofs!PublishedCorrect, Bus!Part,
         BusProofs!Part
<1>6. BusProofs!ReleasedIsPublished => Bus!ReleasedIsPublished
  BY DEF Bus!ReleasedIsPublished, BusProofs!ReleasedIsPublished, Bus!Part,
         BusProofs!Part
<1> QED  BY <1>1, <1>3, <1>4, <1>5, <1>6

\* A behaviour of the system is one of the registers proved about.
LEMMA BusRuns == Spec => BusProofs!Spec
<1>1. Bus!Spec => BusProofs!Spec
  BY SameBus, PTL DEF Bus!Spec, BusProofs!Spec
<1> QED  BY <1>1, SystemRefinement DEF ImplementsRegisters

(***************************************************************************)
(* What the bus reads from registers 8-11 as the result of a job is what   *)
(* the forty operations of the inverse cipher make of the message the job  *)
(* began with, under its key, whatever the master does (PublishedCorrect). *)
(***************************************************************************)
THEOREM SystemPublished == Spec => []PublishedCorrect
<1>1. {Zero, AllOnes} \subseteq Word /\ Odd \subseteq Word /\ AllOnes \in Odd /\ Zero \notin Odd
  BY SystemAssumption DEF Bus!WordAssumption
<1>2. BusProofs!Spec => []BusProofs!PublishedCorrect
  BY <1>1, BusProofs!Published
<1> QED  BY <1>2, BusRuns, SameBus, PTL

(***************************************************************************)
(* No result the core lets go of is missing from the registers, whatever   *)
(* the master writes in that clock (NoResultLost).                         *)
(***************************************************************************)
THEOREM SystemNothingLost == Spec => NoResultLost
<1>1. {Zero, AllOnes} \subseteq Word /\ Odd \subseteq Word /\ AllOnes \in Odd /\ Zero \notin Odd
  BY SystemAssumption DEF Bus!WordAssumption
<1>2. BusProofs!Spec => BusProofs!NoResultLost
  BY <1>1, BusProofs!NothingLost
<1> QED
  BY <1>2, BusRuns, SameBus, PTL DEF NoResultLost, Bus!NoResultLost, BusProofs!NoResultLost

-----------------------------------------------------------------------------
(***************************************************************************)
(* The program over this hardware (NiosSystem).  Its clocks are clocks of  *)
(* the core, and so the core is in AesCore's invariant here too.           *)
(***************************************************************************)
LEMMA WholeCoreInvariance == WholeSpec => []CoreProofs!Inv
<1>1. Unknown \notin Blocks \cup Blocks
  BY SystemAssumption DEF Core!UnknownAssumption
<1>2. CoreProofs!Spec => []CoreProofs!Inv
  BY <1>1, CoreProofs!Invariance
<1>3. WholeInit => CoreProofs!Init
  BY SameCore DEF WholeInit
<1>4. [WholeNext]_wholevars => [CoreProofs!Next]_CoreProofs!vars
  BY SameCore DEF WholeNext, ProgramClock, Clock, wholevars
<1> QED  BY <1>2, <1>3, <1>4, PTL DEF WholeSpec, CoreProofs!Spec

(***************************************************************************)
(* How long a console call can wait.  Need: the clocks before the core has *)
(* run what was promised, from where it is; with START low, before it      *)
(* rests.                                                                  *)
(***************************************************************************)
Need ==
  IF ~AES_START THEN CoreProofs!ClocksLeft
  ELSE IF console = "rerun" THEN CoreProofs!ClocksLeft + 1
  ELSE IF state = CoreProofs!Halted THEN 115 ELSE CoreProofs!ClocksLeft + 116

Waited ==
  /\ ~reset /\ since \in 0..CallTime
  /\ console \in {"begun", "rerun", "answered"}
  /\ Prog!ConsoleCall /\ console # "answered" => since + Need <= CallTime
  /\ Prog!ConsoleCall /\ AES_START /\ console = "rerun" => state # CoreProofs!Halted

\* A clock enters a console call, or is one of a call that goes on.
Enters == pc' # pc /\ pc' \in {"scan", "print"}

LEMMA ConsoleClock ==
  ASSUME WholeNext, ~reset
  PROVE  /\ Core!Next /\ ~reset'
         /\ since' = IF Enters THEN 0 ELSE IF since < CallTime THEN since + 1 ELSE since
         /\ console' = IF Enters THEN "begun"
                       ELSE IF console = "begun" /\ Core!Phase = "idle" /\ Core!Phase' = "loading"
                            THEN "rerun"
                       ELSE IF console = "rerun" /\ Core!Phase = "done" THEN "answered"
                       ELSE console
         /\ Prog!ConsoleCall' /\ ~Enters => Prog!ConsoleCall /\ (AES_START' <=> AES_START)
<1>1. CASE ProgramClock
  <2>1. /\ Core!Next /\ Since /\ Prog!Program /\ reset' = FALSE
        /\ Prog!Console(Enters)
    BY <1>1 DEF ProgramClock, Clock, Prog!Moves, Prog!Watch, Enters
  <2>2. pc' \in {"scan", "print"} => pc' # pc
    BY <2>1 DEF Prog!Program, Prog!SelectMode, Prog!Scan, Prog!Store, Prog!Start, Prog!PrintEnc,
                Prog!Poll, Prog!Load, Prog!Stop, Prog!Show
  <2> QED  BY <2>1, <2>2 DEF Since, Enters, Prog!Console, Prog!ConsoleCall
<1>2. CASE Clock(Bus!NoWrite) /\ Prog!Rests /\ Since
  <2>1. /\ Core!Next /\ Since /\ reset' = FALSE /\ Prog!Console(FALSE) /\ ~Enters
        /\ pc' = pc \/ pc' = "select"
    BY <1>2 DEF Clock, Prog!Rests, Prog!Watch, Prog!Compute, Prog!program, Prog!Restart, Enters
  <2>2. reg_sys'[14] = reg_sys[14]
    BY <1>2 DEF Clock, Bus!Registers, Bus!NoWrite, Bus!Addr
  <2> QED  BY <2>1, <2>2 DEF Since, Enters, Prog!Console, Prog!ConsoleCall, AES_START
<1> QED  BY <1>1, <1>2 DEF WholeNext

\* A call that goes on has one clock less to wait.
LEMMA WaitedStep ==
  ASSUME CoreProofs!Inv, Waited, WholeNext
  PROVE  Waited'
<1>1. Unknown \notin Blocks \cup Blocks
  BY SystemAssumption DEF Core!UnknownAssumption
<1>2. /\ CoreProofs!Computing =>
           /\ CoreProofs!ClocksLeft \in 1..113
           /\ CoreProofs!ClocksLeft' = CoreProofs!ClocksLeft - 1
           /\ IF CoreProofs!ClocksLeft = 1 THEN state' = CoreProofs!finished
                                           ELSE CoreProofs!Computing'
      /\ state = CoreProofs!Halted /\ AES_START => CoreProofs!Loading' /\ CoreProofs!ClocksLeft' = 113
      /\ state = CoreProofs!Halted /\ ~AES_START => state' = CoreProofs!Halted
      /\ state = CoreProofs!finished =>
           state' = IF AES_START THEN CoreProofs!Halted ELSE CoreProofs!finished
  <2>1. CoreProofs!TypeOK /\ CoreProofs!Control /\ CoreProofs!Next /\ ~reset
    BY ConsoleClock, SameCore DEF CoreProofs!Inv, Waited
  <2> QED  BY <1>1, <2>1, CoreProofs!ClockByClock DEF CoreProofs!RunLength
<1>3. /\ state \in {CoreProofs!Halted, CoreProofs!finished} <=> ~CoreProofs!Computing
      /\ state' \in {CoreProofs!Halted, CoreProofs!finished} <=> ~CoreProofs!Computing'
      /\ ~CoreProofs!Computing => CoreProofs!ClocksLeft = 0
      /\ ~CoreProofs!Computing' => CoreProofs!ClocksLeft' = 0
  BY DEF CoreProofs!Computing, CoreProofs!ClocksLeft, CoreProofs!Halted, CoreProofs!finished,
         CoreProofs!key_expansion, CoreProofs!mc_inv, CoreProofs!r
<1>4. /\ Core!Phase = "idle" <=> state = CoreProofs!Halted
      /\ Core!Phase = "done" <=> state = CoreProofs!finished
      /\ CoreProofs!Loading' => Core!Phase' = "loading" /\ state' # CoreProofs!Halted
      /\ CoreProofs!Halted # CoreProofs!finished
  BY SamePhase DEF CoreProofs!Phase, CoreProofs!AES_DONE, CoreProofs!Loading, CoreProofs!Halted,
                   CoreProofs!finished, CoreProofs!key_expansion
<1>5. /\ ~reset' /\ since' \in 0..CallTime /\ console' \in {"begun", "rerun", "answered"}
      /\ CallTime = 229
  BY ConsoleClock DEF Waited, CallTime, Core!RunLength
<1>6. CASE Enters
  <2>1. since' = 0 /\ console' = "begun"
    BY <1>6, ConsoleClock DEF Waited
  <2>2. CoreProofs!ClocksLeft' \in 0..113
    BY <1>2, <1>3
  <2>3. /\ Need' \in {CoreProofs!ClocksLeft', 115, CoreProofs!ClocksLeft' + 116}
        /\ console' # "rerun"
    BY <2>1 DEF Need
  <2>4. since' + Need' <= 229
    <3>1. \A cl \in 0..113 : \A n \in {cl, 115, cl + 116} : 0 + n <= 229
      OBVIOUS
    <3> QED  BY <2>1, <2>2, <2>3, <3>1
  <2> QED  BY <1>5, <2>3, <2>4 DEF Waited
<1>7. CASE ~Enters /\ Prog!ConsoleCall'
  <2>1. /\ Prog!ConsoleCall /\ (AES_START' <=> AES_START)
        /\ since' = IF since < CallTime THEN since + 1 ELSE since
        /\ console' = IF console = "begun" /\ Core!Phase = "idle" /\ Core!Phase' = "loading"
                         THEN "rerun"
                      ELSE IF console = "rerun" /\ Core!Phase = "done" THEN "answered"
                      ELSE console
    BY <1>7, ConsoleClock DEF Waited
  <2>2. CASE console = "answered"
    BY <1>5, <2>1, <2>2 DEF Waited
  <2>3. CASE console # "answered" /\ ~AES_START
    BY <1>2, <1>3, <1>5, <2>1, <2>3 DEF Waited, Need
  <2>4. CASE console = "begun" /\ AES_START
    BY <1>2, <1>3, <1>4, <1>5, <2>1, <2>4 DEF Waited, Need
  <2>5. CASE console = "rerun" /\ AES_START
    BY <1>2, <1>3, <1>4, <1>5, <2>1, <2>5 DEF Waited, Need
  <2> QED  BY <2>2, <2>3, <2>4, <2>5 DEF Waited
<1>8. CASE ~Prog!ConsoleCall'
  BY <1>5, <1>8 DEF Waited
<1> QED  BY <1>6, <1>7, <1>8

LEMMA WaitedInit == WholeInit => Waited
BY DEF WholeInit, Init, Prog!ProgramInit, Waited, Prog!ConsoleCall, CallTime, Core!RunLength

LEMMA WaitedInvariance == WholeSpec => []Waited
<1>1. CoreProofs!Inv /\ Waited /\ [WholeNext]_wholevars => Waited'
  <2>1. ASSUME Waited, UNCHANGED wholevars PROVE Waited'
    <3>1. /\ UNCHANGED <<reset, since, console, pc, state, round>> /\ (AES_START' <=> AES_START)
      BY <2>1 DEF wholevars, vars, core, programVars, AES_START
    <3>2. CoreProofs!ClocksLeft' = CoreProofs!ClocksLeft
      BY <3>1 DEF CoreProofs!ClocksLeft
    <3>3. Need' = Need
      BY <3>1, <3>2 DEF Need
    <3> QED  BY <2>1, <3>1, <3>3 DEF Waited, Prog!ConsoleCall, CallTime, Core!RunLength
  <2> QED  BY <2>1, WaitedStep
<1> QED  BY <1>1, WaitedInit, WholeCoreInvariance, PTL DEF WholeSpec

(***************************************************************************)
(* At the end of CallTime clocks there is nothing left to wait for: a slow *)
(* console, in clocks, is one that NiosAes calls slow, whatever the core   *)
(* was at when the call began.                                             *)
(***************************************************************************)
LEMMA WaitedEnough ==
  ASSUME CoreProofs!Inv, Waited
  PROVE  CallsOutlastRuns
<1> SUFFICES ASSUME Prog!ConsoleCall, since >= CallTime, console # "answered"
             PROVE  Prog!Resting
  BY DEF CallsOutlastRuns, Prog!ConsoleReturns
<1>1. Unknown \notin Blocks \cup Blocks
  BY SystemAssumption DEF Core!UnknownAssumption
<1>2. CoreProofs!ClocksLeft \in Nat /\ (CoreProofs!ClocksLeft = 0 => ~CoreProofs!Computing)
  <2>1. CoreProofs!TypeOK /\ CoreProofs!Control
    BY DEF CoreProofs!Inv
  <2> QED  BY <1>1, <2>1, CoreProofs!ClocksRange
<1>3. since \in 0..229 /\ CallTime = 229 /\ since + Need <= 229
  BY DEF Waited, CallTime, Core!RunLength
<1>4. ~AES_START /\ CoreProofs!ClocksLeft = 0
  BY <1>2, <1>3 DEF Need
<1>5. Core!Phase \in {"idle", "done"}
  BY <1>2, <1>4, SamePhase DEF CoreProofs!Phase, CoreProofs!AES_DONE, CoreProofs!Computing
<1> QED  BY <1>4, <1>5 DEF Prog!Resting, Prog!AES_START, AES_START

(***************************************************************************)
(* In every behaviour of the program on its subsystem a console call of    *)
(* CallTime clocks has seen the core come to rest before it returns        *)
(* (CallsOutlastRuns).                                                     *)
(***************************************************************************)
THEOREM CallsLongEnough == WholeSpec => []CallsOutlastRuns
BY WaitedEnough, WaitedInvariance, WholeCoreInvariance, PTL

(***************************************************************************)
(* The registers NiosAes writes to are these.                              *)
(***************************************************************************)
LEMMA SameRegisters ==
  ASSUME NEW w PROVE Bus!Clock(w) => Prog!Clock(w)
BY DEF Bus!Clock, Prog!Clock, Bus!Registers, Prog!Registers, Bus!Origin, Prog!Origin,
       Bus!aes_done_local, Prog!aes_done_local, Bus!Part, Prog!Part, Bus!Addr, Prog!Addr,
       Bus!AES_START, Prog!AES_START, Bus!key_holder, Prog!key_holder,
       Bus!msg_enc_holder, Prog!msg_enc_holder, Bus!Block, Prog!Block,
       Bus!Core!Next, Prog!Core!Next, Bus!Core!Take, Prog!Core!Take,
       Bus!Core!Work, Prog!Core!Work, Bus!Core!Complete,
       Prog!Core!Complete, Bus!Core!Rest, Prog!Core!Rest,
       Bus!Core!Release, Prog!Core!Release, Bus!Core!Abandon,
       Prog!Core!Abandon, Bus!Core!Hold, Prog!Core!Hold

\* Every clock of the whole is one of NiosAes.
LEMMA ProgStep ==
  ASSUME CoreProofs!Inv, CoreProofs!Inv', Waited, WholeNext
  PROVE  Prog!SysNext
<1>1. CASE ProgramClock
  <2>1. Prog!Clock(Prog!BusWrite)
    BY <1>1, BusClock, SameRegisters DEF ProgramClock
  <2>2. Prog!ConsoleCall => Prog!ConsoleReturns
    BY <1>1, WaitedEnough DEF ProgramClock, CallsOutlastRuns, Prog!ConsoleReturns
  <2> QED  BY <1>1, <2>1, <2>2 DEF ProgramClock, Prog!SysNext, Prog!ProgramClock
<1>2. CASE Clock(Bus!NoWrite) /\ Prog!Rests /\ Since
  <2>1. Prog!Clock(Bus!NoWrite)
    BY <1>2, BusClock, SameRegisters
  <2> QED  BY <1>2, <2>1 DEF Prog!SysNext, Bus!NoWrite, Prog!NoWrite
<1> QED  BY <1>1, <1>2 DEF WholeNext

LEMMA ProgInit == WholeInit => Prog!SysInit
<1>1. Bus!Init => Prog!Init
  BY DEF Bus!Init, Prog!Init, Bus!Core!Init, Prog!Core!Init, Bus!Addr, Prog!Addr,
         Bus!key_holder, Prog!key_holder, Bus!msg_enc_holder, Prog!msg_enc_holder,
         Bus!Block, Prog!Block
<1> QED  BY <1>1, BusInit DEF WholeInit, Prog!SysInit

(***************************************************************************)
(* The program over the clocked registers and core, its console calls      *)
(* measured in clocks, implements NiosAes (ImplementsProgram).             *)
(***************************************************************************)
THEOREM WholeRefinement == WholeSpec => ImplementsProgram
<1>1. CoreProofs!Inv /\ CoreProofs!Inv' /\ Waited /\ [WholeNext]_wholevars
        => [Prog!SysNext]_Prog!sysvars
  <2>1. UNCHANGED wholevars => UNCHANGED Prog!sysvars
    BY DEF wholevars, vars, core, programVars, Prog!sysvars, Prog!vars, Prog!core, Prog!program,
           aes_msg_dec_local, NotShown, Core!Loaded, Core!AES_DONE, Core!Phase, Core!Loading
  <2> QED  BY <2>1, ProgStep
<1> QED
  BY <1>1, ProgInit, WaitedInvariance, WholeCoreInvariance, PTL
     DEF WholeSpec, ImplementsProgram, Prog!SysSpec

(***************************************************************************)
(* The program is the one NiosAes_proofs is about.                         *)
(***************************************************************************)
LEMMA SameSlave ==
  ASSUME NEW w PROVE Prog!Clock(w) => ProgProofs!Clock(w)
BY DEF ProgProofs!Clock, Prog!Clock, ProgProofs!Registers, Prog!Registers, ProgProofs!Origin,
       Prog!Origin, ProgProofs!aes_done_local, Prog!aes_done_local, ProgProofs!Part, Prog!Part,
       ProgProofs!Addr, Prog!Addr, ProgProofs!AES_START, Prog!AES_START,
       ProgProofs!key_holder, Prog!key_holder,
       ProgProofs!msg_enc_holder, Prog!msg_enc_holder, ProgProofs!Block, Prog!Block,
       ProgProofs!Core!Next, Prog!Core!Next, ProgProofs!Core!Take, Prog!Core!Take,
       ProgProofs!Core!Work, Prog!Core!Work, ProgProofs!Core!Complete, Prog!Core!Complete,
       ProgProofs!Core!Rest, Prog!Core!Rest, ProgProofs!Core!Release, Prog!Core!Release,
       ProgProofs!Core!Abandon, Prog!Core!Abandon, ProgProofs!Core!Hold, Prog!Core!Hold

\* Its steps, and what is watched of them.
LEMMA SameSteps ==
  /\ Prog!Program => ProgProofs!Program
  /\ Prog!Compute => ProgProofs!Compute
  /\ Prog!Restart => ProgProofs!Restart
  /\ \A b, q : Prog!Watch(b, q) => ProgProofs!Watch(b, q)
  /\ Prog!ConsoleCall <=> ProgProofs!ConsoleCall
  /\ Prog!ConsoleReturns <=> ProgProofs!ConsoleReturns
  /\ Prog!BusWrite = ProgProofs!BusWrite /\ Prog!NoWrite = ProgProofs!NoWrite
<1>1. Prog!Program => ProgProofs!Program
  BY DEF Prog!Program, ProgProofs!Program, Prog!SelectMode, ProgProofs!SelectMode,
         Prog!Scan, ProgProofs!Scan, Prog!Store, ProgProofs!Store, Prog!Start, ProgProofs!Start,
         Prog!PrintEnc, ProgProofs!PrintEnc, Prog!Poll, ProgProofs!Poll, Prog!Load, ProgProofs!Load,
         Prog!Stop, ProgProofs!Stop, Prog!Show, ProgProofs!Show
<1>2. (Prog!Compute => ProgProofs!Compute) /\ (Prog!Restart => ProgProofs!Restart)
  BY DEF Prog!Compute, ProgProofs!Compute, Prog!program, ProgProofs!program,
         Prog!Restart, ProgProofs!Restart
<1>3. \A b, q : Prog!Watch(b, q) => ProgProofs!Watch(b, q)
  BY DEF Prog!Watch, ProgProofs!Watch, Prog!Console, ProgProofs!Console
<1>4. /\ Prog!ConsoleCall <=> ProgProofs!ConsoleCall
      /\ Prog!ConsoleReturns <=> ProgProofs!ConsoleReturns
  BY DEF Prog!ConsoleCall, ProgProofs!ConsoleCall, Prog!ConsoleReturns, ProgProofs!ConsoleReturns,
         Prog!Resting, ProgProofs!Resting, Prog!AES_START, ProgProofs!AES_START
<1>5. Prog!BusWrite = ProgProofs!BusWrite /\ Prog!NoWrite = ProgProofs!NoWrite
  BY DEF Prog!BusWrite, ProgProofs!BusWrite, Prog!Write, ProgProofs!Write,
         Prog!NoWrite, ProgProofs!NoWrite
<1> QED  BY <1>1, <1>2, <1>3, <1>4, <1>5

LEMMA SameProgram ==
  /\ Prog!SysInit => ProgProofs!SysInit
  /\ Prog!SysNext => ProgProofs!SysNext
  /\ UNCHANGED Prog!sysvars => UNCHANGED ProgProofs!sysvars
  /\ ProgProofs!AnswerCorrect => AnswerCorrect
<1>1. Prog!SysInit => ProgProofs!SysInit
  BY DEF Prog!SysInit, ProgProofs!SysInit, Prog!ProgramInit, ProgProofs!ProgramInit,
         Prog!Init, ProgProofs!Init, Prog!Core!Init, ProgProofs!Core!Init, Prog!Addr,
         ProgProofs!Addr, Prog!key_holder, ProgProofs!key_holder, Prog!msg_enc_holder,
         ProgProofs!msg_enc_holder, Prog!Block, ProgProofs!Block
<1>2. Prog!SysNext => ProgProofs!SysNext
  BY SameSlave, SameSteps
     DEF Prog!SysNext, ProgProofs!SysNext, Prog!ProgramClock, ProgProofs!ProgramClock,
         Prog!Moves, ProgProofs!Moves, Prog!Rests, ProgProofs!Rests
<1>3. UNCHANGED Prog!sysvars => UNCHANGED ProgProofs!sysvars
  BY DEF Prog!sysvars, ProgProofs!sysvars, Prog!vars, ProgProofs!vars, Prog!core,
         ProgProofs!core, Prog!program, ProgProofs!program
<1>4. ProgProofs!AnswerCorrect => AnswerCorrect
  BY DEF AnswerCorrect, Prog!AnswerCorrect, ProgProofs!AnswerCorrect, Prog!Answer,
         ProgProofs!Answer, Prog!Part, ProgProofs!Part
<1> QED  BY <1>1, <1>2, <1>3, <1>4

(***************************************************************************)
(* What the test loop prints, its console calls lasting CallTime clocks at *)
(* least, is the forty operations of the inverse cipher on the message it  *)
(* was given; so is, over any console, what decrypt reads for the first    *)
(* job (AnswerCorrect): of the core, nothing is assumed but its circuit.   *)
(***************************************************************************)
THEOREM WholeAnswers == WholeSpec => []AnswerCorrect
<1>1. /\ {Zero, AllOnes} \subseteq Word /\ Odd \subseteq Word /\ AllOnes \in Odd /\ Zero \notin Odd
  BY SystemAssumption DEF Bus!WordAssumption
<1>2. /\ One \in Odd
      /\ \A x \in Inputs : x.key \in ProgProofs!Blocks /\ x.enc \in ProgProofs!Blocks
      /\ Modes \subseteq {"test", "bench"}
      /\ BenchCalls \in Nat \ {0} /\ Consoles \subseteq BOOLEAN
      /\ MaxJobs \in Nat /\ MaxRestarts \in Nat
  BY NiosSystemAssumption DEF Prog!InputsAssumption, Prog!Blocks, ProgProofs!Blocks
<1>3. ProgProofs!SysSpec => []ProgProofs!AnswerCorrect
  BY <1>1, <1>2, ProgProofs!AnswersRight
<1>4. Prog!SysSpec => ProgProofs!SysSpec
  BY SameProgram, PTL DEF Prog!SysSpec, ProgProofs!SysSpec
<1> QED  BY <1>3, <1>4, WholeRefinement, SameProgram, PTL DEF ImplementsProgram
=============================================================================
