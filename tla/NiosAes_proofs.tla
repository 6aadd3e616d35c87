--------------------------- MODULE NiosAes_proofs ---------------------------
(***************************************************************************)
(* The program of Nios II A: for any inputs, any number of jobs, calls and *)
(* resets of the board, what decrypt returns is the answer.                *)
(***************************************************************************)
EXTENDS NiosAes, AvalonAes_proofs

USE WordAssumption, InputsAssumption

(***************************************************************************)
(* The inductive invariant.  Calling: from the START write to the return   *)
(* of decrypt.  Certain: the answer is promised, either because this is    *)
(* the first job, or because the console is slow and the program is in     *)
(* the test loop.                                                          *)
(***************************************************************************)
Calling == pc \in {"print", "poll", "load", "stop"}
Certain == jobs = 1 \/ (slow_console /\ run_mode = "test")

\* What the locals are at each place of the program.
Flow ==
  /\ pc = "select" => calls = 0
  /\ pc = "store" => i \in 0..7
  /\ pc = "load" => i \in 0..3
  /\ DOMAIN msg_dec = 0..3
  /\ pc \in {"scan", "print", "show"} => run_mode = "test"
  /\ pc = "exit" => run_mode = "bench"
  /\ run_mode = "bench" /\ pc \notin {"select", "exit"} => calls < BenchCalls

\* The registers that the program has stored hold the input.
Stored ==
  /\ pc = "store" =>
       \A n \in 0..7 : n < i =>
         reg_sys[n] = IF n < 4 THEN input.key[n] ELSE input.enc[n - 4]
  /\ pc = "start" \/ Calling => key_holder = input.key /\ msg_enc_holder = input.enc

\* The slave is not reset; before the first START it has done nothing; START
\* is high while the test loop waits.
Handshake ==
  /\ ~reset
  /\ jobs = 0 => phase = "idle" /\ ~AES_START /\ reg_sys[15] = Zero
  /\ Calling /\ run_mode = "test" => AES_START

\* A run there is or was is one of the input, undisturbed.
OwnRun == phase # "idle" => job = [key |-> input.key, msg |-> input.enc] /\ held

\* The registers show the answer.
Shown == \A n \in 0..3 : reg_sys[8 + n] = Part(Decrypt(input.key, input.enc), n)

\* The first job: DONE is that of its own run.
FirstJob ==
  jobs = 1 /\ Calling =>
    /\ OwnRun
    /\ reg_sys[15] # Zero => Shown
    /\ pc \in {"load", "stop"} => reg_sys[15] # Zero

\* A slow console: by the end of the call after START the core has begun a run
\* and published it, with the input of this job.
SlowJob ==
  slow_console /\ run_mode = "test" /\ Calling =>
    /\ console # "begun" => OwnRun
    /\ console = "rerun" => phase # "idle" /\ (phase = "done" => ran)
    /\ console = "answered" => Shown /\ ran
    /\ pc # "print" => console = "answered"

\* What decrypt has read is the answer so far.
Reading ==
  Certain =>
    /\ pc = "load" =>
         \A n \in 0..3 : n < i => msg_dec[n] = Part(Decrypt(input.key, input.enc), n)
    /\ pc \in {"stop", "show", "exit"} => Answer

SysInv ==
  SysTypeOK /\ DueResult /\ Flow /\ Stored /\ Handshake /\ FirstJob /\ SlowJob /\ Reading

-----------------------------------------------------------------------------
(***************************************************************************)
(* A step of the system is a clock of the registers, and the write it      *)
(* makes is that of the place the program is at.                           *)
(***************************************************************************)
Access(w) ==
  /\ Clock(w) /\ reset' = FALSE
  /\ w.addr \in 0..7 =>
       /\ pc = "store" /\ w.addr = i
       /\ w.data = IF i < 4 THEN input.key[i] ELSE input.enc[i - 4]
  /\ w.addr \notin 8..13 /\ w.addr # 15
  /\ w.addr = 14 => \/ pc = "start" /\ w.data = One /\ jobs < MaxJobs
                    \/ pc = "stop" /\ pc' # "stop" /\ w.data = Zero
  /\ pc = "store" /\ i' # i => w.addr = i
  /\ pc = "start" /\ pc' \in {"print", "poll"} => w.addr = 14
  /\ jobs' = IF w.addr = 14 /\ w.data \in Odd THEN jobs + 1 ELSE jobs
  /\ slow_console' = slow_console
  /\ Console(pc # pc' /\ pc' \in {"scan", "print"})
  /\ ran' = \/ phase = "busy" /\ phase' = "done"
            \/ ran /\ ~(pc = "stop" /\ pc' \in {"poll", "show", "exit"})

LEMMA StepIsAccess ==
  ASSUME SysTypeOK, Flow, SysNext
  PROVE  \E w \in Transfer : Access(w)
<1>1. NoWrite \in Transfer /\ NoWrite.addr = 16
  BY DEF NoWrite, Transfer
<1>2. CASE ProgramClock
  <2>1. /\ Clock(BusWrite) /\ Program /\ reset' = FALSE /\ slow_console' = slow_console
        /\ Console(pc' # pc /\ pc' \in {"scan", "print"})
        /\ ran' = \/ phase = "busy" /\ phase' = "done"
                  \/ ran /\ ~(pc = "stop")
    BY <1>2 DEF ProgramClock, Moves, Watch
  <2>2. CASE Store
    <3> DEFINE d == IF i < 4 THEN input.key[i] ELSE input.enc[i - 4]
    <3>1. i \in 0..7 /\ d \in Word
      <4>1. i \in 0..7  BY <2>2 DEF Store, Flow
      <4>2. input.key \in [0..3 -> Word] /\ input.enc \in [0..3 -> Word]
        BY DEF SysTypeOK, Blocks
      <4>3. CASE i < 4
        <5>1. i \in 0..3  BY <4>1, <4>3
        <5> QED  BY <4>1, <4>2, <4>3, <5>1
      <4>4. CASE ~(i < 4)
        <5>1. i - 4 \in 0..3  BY <4>1, <4>4
        <5> QED  BY <4>1, <4>2, <4>4, <5>1
      <4> QED  BY <4>3, <4>4
    <3>2. BusWrite = Write(i, d)
      BY <2>2 DEF Store, BusWrite
    <3>3. Write(i, d) \in Transfer /\ Write(i, d).addr = i /\ Write(i, d).data = d
      BY <3>1 DEF Write, Transfer
    <3>4. pc = "store" /\ pc' \in {"store", "start"} /\ jobs' = jobs
      BY <2>2 DEF Store
    <3>5. Access(Write(i, d))  BY <2>1, <3>1, <3>2, <3>3, <3>4 DEF Console, Access
    <3> QED  BY <3>3, <3>5
  <2>3. CASE Start
    <3>1. /\ pc = "start" /\ jobs < MaxJobs /\ jobs' = jobs + 1
          /\ pc' \in {"print", "poll"} /\ BusWrite = Write(14, One)
      BY <2>3 DEF Start, BusWrite
    <3>2. Write(14, One) \in Transfer /\ Write(14, One).addr = 14 /\ Write(14, One).data = One
      BY DEF Write, Transfer
    <3>3. Access(Write(14, One))  BY <2>1, <3>1, <3>2 DEF Console, Access
    <3> QED  BY <3>2, <3>3
  <2>4. CASE Stop
    <3>1. /\ pc = "stop" /\ jobs' = jobs
          /\ pc' \in {"poll", "show", "exit"} /\ BusWrite = Write(14, Zero)
      BY <2>4 DEF Stop, BusWrite
    <3>2. Write(14, Zero) \in Transfer /\ Write(14, Zero).addr = 14 /\ Write(14, Zero).data = Zero
      BY DEF Write, Transfer
    <3>3. Access(Write(14, Zero))  BY <2>1, <3>1, <3>2 DEF Console, Access
    <3> QED  BY <3>2, <3>3
  <2>5. CASE ~Store /\ ~Start /\ ~Stop
    <3>1. pc \notin {"store", "start", "stop"} /\ jobs' = jobs
      BY <2>1, <2>5 DEF Program, SelectMode, Scan, PrintEnc, Poll, Load, Show
    <3>2. BusWrite = NoWrite  BY <3>1 DEF BusWrite
    <3>3. Access(NoWrite)  BY <1>1, <2>1, <3>1, <3>2 DEF Console, Access
    <3> QED  BY <1>1, <3>3
  <2> QED  BY <2>2, <2>3, <2>4, <2>5
<1>3. CASE Clock(NoWrite) /\ Rests
  <2>1. pc' \in {pc, "select"} /\ (pc' = pc => i' = i) /\ jobs' = jobs /\ i' = i
    BY <1>3 DEF Rests, Compute, Restart, program
  <2>2. Access(NoWrite)
    BY <1>1, <1>3, <2>1 DEF Rests, Watch, Console, Access
  <2> QED  BY <1>1, <2>2
<1> QED  BY <1>2, <1>3 DEF SysNext

\* It is a step of AvalonAes.
LEMMA AccessIsNext ==
  ASSUME NEW w \in Transfer, Access(w)
  PROVE  Next /\ Clock(w)
<1>1. Clock(w)  BY DEF Access
<1>2. w = Write(w.addr, w.data) /\ w.data \in Word  BY DEF Write, Transfer
<1>3. CASE w.addr \in Addr  BY <1>1, <1>2, <1>3 DEF Next
<1>4. CASE w.addr = 16
  <2>1. \A a \in Addr : a # 16  BY DEF Addr
  <2>2. Registers(w) => Registers(NoWrite)
    BY <1>4, <2>1 DEF Registers, NoWrite
  <2>3. Origin(w) => Origin(NoWrite)  BY <1>4 DEF Origin, NoWrite
  <2>4. Clock(NoWrite)  BY <1>1, <2>2, <2>3 DEF Clock
  <2> QED  BY <1>1, <2>4 DEF Next
<1> QED  BY <1>1, <1>3, <1>4 DEF Transfer, Addr

(***************************************************************************)
(* Types, and the control of the program.                                  *)
(***************************************************************************)
LEMMA FlowStep ==
  ASSUME SysTypeOK, Flow, SysNext PROVE Flow'
<1>1. CASE SelectMode  BY <1>1 DEF SelectMode, Flow, SysTypeOK
<1>2. CASE Scan  BY <1>2 DEF Scan, Flow, SysTypeOK
<1>3. CASE Store  BY <1>3 DEF Store, Flow, SysTypeOK
<1>4. CASE Start  BY <1>4 DEF Start, Flow, SysTypeOK
<1>5. CASE PrintEnc  BY <1>5 DEF PrintEnc, Flow, SysTypeOK
<1>6. CASE Poll  BY <1>6 DEF Poll, Flow, SysTypeOK
<1>7. CASE Load  BY <1>7 DEF Load, Flow, SysTypeOK
<1>8. CASE Stop  BY <1>8 DEF Stop, Flow, SysTypeOK
<1>9. CASE Show  BY <1>9 DEF Show, Flow, SysTypeOK
<1>10. CASE Compute  BY <1>10 DEF Compute, program, Flow
<1>11. CASE Restart  BY <1>11 DEF Restart, Flow
<1> QED
  BY <1>1, <1>2, <1>3, <1>4, <1>5, <1>6, <1>7, <1>8, <1>9, <1>10, <1>11
     DEF SysNext, ProgramClock, Moves, Rests, Program

\* The variables of the program; those of the registers are AvalonAes's.
LEMMA ProgramTypes ==
  ASSUME SysTypeOK, Flow, SysNext
  PROVE  /\ pc' \in {"select", "scan", "store", "start", "print", "poll", "load", "stop",
                     "show", "exit"}
         /\ run_mode' \in Modes /\ i' \in 0..8 /\ input' \in Inputs
         /\ calls' \in 0..(IF run_mode' = "bench" THEN BenchCalls ELSE 0)
         /\ restarts' \in 0..MaxRestarts
<1>1. CASE SelectMode /\ UNCHANGED restarts  BY <1>1 DEF SelectMode, Flow, SysTypeOK
<1>2. CASE Scan /\ UNCHANGED restarts  BY <1>2 DEF Scan, Flow, SysTypeOK
<1>3. CASE Store /\ UNCHANGED restarts  BY <1>3 DEF Store, Flow, SysTypeOK
<1>4. CASE Start /\ UNCHANGED restarts  BY <1>4 DEF Start, Flow, SysTypeOK
<1>5. CASE PrintEnc /\ UNCHANGED restarts  BY <1>5 DEF PrintEnc, Flow, SysTypeOK
<1>6. CASE Poll /\ UNCHANGED restarts  BY <1>6 DEF Poll, Flow, SysTypeOK
<1>7. CASE Load /\ UNCHANGED restarts  BY <1>7 DEF Load, Flow, SysTypeOK
<1>8. CASE Stop /\ UNCHANGED restarts
  <2>1. CASE run_mode = "test"  BY <1>8, <2>1 DEF Stop, Flow, SysTypeOK
  <2>2. CASE run_mode # "test"
    <3>1. run_mode = "bench" /\ calls < BenchCalls /\ calls \in 0..BenchCalls
      BY <1>8, <2>2 DEF Stop, Flow, SysTypeOK
    <3>2. calls' = calls + 1 /\ run_mode' = run_mode /\ i' = i /\ input' = input
          /\ pc' \in {"poll", "exit"}
      BY <1>8, <2>2 DEF Stop
    <3> QED  BY <1>8, <3>1, <3>2 DEF SysTypeOK
  <2> QED  BY <2>1, <2>2
<1>9. CASE Show /\ UNCHANGED restarts  BY <1>9 DEF Show, Flow, SysTypeOK
<1>10. CASE Compute  BY <1>10 DEF Compute, program, SysTypeOK
<1>11. CASE Restart  BY <1>11 DEF Restart, SysTypeOK
<1> QED
  BY <1>1, <1>2, <1>3, <1>4, <1>5, <1>6, <1>7, <1>8, <1>9, <1>10, <1>11
     DEF SysNext, ProgramClock, Moves, Rests, Program

LEMMA SysTypeStep ==
  ASSUME SysTypeOK, Flow, SysNext PROVE SysTypeOK'
<1>1. PICK w \in Transfer : Access(w)
  BY StepIsAccess
<1>2. TypeOK'
  BY <1>1, AccessIsNext, TypeStep DEF SysTypeOK
<1>3. slow_console' \in Consoles /\ console' \in {"begun", "rerun", "answered"} /\ ran' \in BOOLEAN
  BY <1>1 DEF Access, Console, SysTypeOK
<1>4. jobs' \in 0..MaxJobs
  <2>1. CASE w.addr = 14 /\ w.data \in Odd
    <3>1. pc = "start" /\ jobs < MaxJobs
      BY <1>1, <2>1 DEF Access
    <3> QED  BY <1>1, <2>1, <3>1 DEF Access, SysTypeOK
  <2>2. CASE ~(w.addr = 14 /\ w.data \in Odd)
    BY <1>1, <2>2 DEF Access, SysTypeOK
  <2> QED  BY <2>1, <2>2
<1> QED  BY <1>2, <1>3, <1>4, ProgramTypes DEF SysTypeOK

(***************************************************************************)
(* What a clock leaves in the registers.                                   *)
(***************************************************************************)
LEMMA RegistersAfter ==
  ASSUME ~reset, NEW w \in Transfer, Access(w)
  PROVE  /\ \A n \in 0..7 : reg_sys'[n] = IF n = w.addr THEN w.data ELSE reg_sys[n]
         /\ reg_sys'[14] = IF w.addr = 14 THEN w.data ELSE reg_sys[14]
         /\ reg_sys'[15] = IF phase = "done" THEN AllOnes ELSE reg_sys[15]
         /\ \A n \in 0..3 : reg_sys'[8 + n] = IF phase = "done" THEN Part(result, n)
                                               ELSE reg_sys[8 + n]
<1>1. \A n \in Addr : reg_sys'[n] = IF aes_done_local /\ n = 15 THEN AllOnes
                                   ELSE IF aes_done_local /\ n \in 8..11
                                        THEN Part(result, n - 8)
                                   ELSE IF reset THEN Zero
                                   ELSE IF n = w.addr THEN w.data
                                   ELSE reg_sys[n]
  BY DEF Access, Clock, Registers
<1>2. \A n \in 0..7 : n \in Addr /\ n # 15 /\ n \notin 8..11
  BY DEF Addr
<1>3. \A n \in 0..3 : 8 + n \in Addr /\ 8 + n \in 8..11 /\ (8 + n) - 8 = n /\ 8 + n # 15
                    /\ 8 + n # w.addr
  BY DEF Addr, Access
<1>4. 14 \in Addr /\ 15 \in Addr /\ w.addr # 15
  BY DEF Addr, Access
<1> QED  BY <1>1, <1>2, <1>3, <1>4 DEF aes_done_local

(***************************************************************************)
(* Where the program comes from when it stores, starts and calls.          *)
(***************************************************************************)
Storing ==
  pc' = "store" =>
    \/ pc \in {"select", "scan"} /\ i' = 0
    \/ pc = "store" /\ i' \in {i, i + 1} /\ input' = input
Starting ==
  pc' = "start" =>
    /\ pc = "start" \/ (pc = "store" /\ i = 7 /\ i' = i + 1)
    /\ input' = input
Continuing ==
  Calling' =>
    /\ \/ pc = "start" /\ pc' = (IF run_mode = "test" THEN "print" ELSE "poll")
       \/ Calling
    /\ input' = input /\ run_mode' = run_mode
    /\ run_mode = "test" /\ pc = "stop" => pc' = "stop"
    /\ pc = "print" /\ pc' # "print" => ConsoleReturns
    /\ pc' = "print" => pc \in {"start", "print"}
    /\ pc' \in {"load", "stop"} => pc \in {"load", "stop"} \/ reg_sys[15] # Zero

LEMMA ProgramSteps ==
  ASSUME SysNext PROVE Storing /\ Starting /\ Continuing
<1> USE DEF Storing, Starting, Continuing, Calling
<1>1. CASE SelectMode  BY <1>1 DEF SelectMode
<1>2. CASE Scan  BY <1>2 DEF Scan
<1>3. CASE Store  BY <1>3 DEF Store
<1>4. CASE Start  BY <1>4 DEF Start
<1>5. CASE ProgramClock /\ PrintEnc  BY <1>5 DEF PrintEnc, ProgramClock, ConsoleCall
<1>6. CASE Poll  BY <1>6 DEF Poll
<1>7. CASE Load  BY <1>7 DEF Load
<1>8. CASE Stop  BY <1>8 DEF Stop
<1>9. CASE Show  BY <1>9 DEF Show
<1>10. CASE Compute  BY <1>10 DEF Compute, program
<1>11. CASE Restart  BY <1>11 DEF Restart
<1> HIDE DEF Storing, Starting, Continuing, Calling
<1> QED
  BY <1>1, <1>2, <1>3, <1>4, <1>5, <1>6, <1>7, <1>8, <1>9, <1>10, <1>11
     DEF SysNext, ProgramClock, Moves, Rests, Program

(***************************************************************************)
(* The stores fill the registers with the input, and nothing else touches  *)
(* them.                                                                   *)
(***************************************************************************)
LEMMA StoredStep ==
  ASSUME SysTypeOK, Flow, Stored, ~reset, SysNext PROVE Stored'
<1> DEFINE word(x, n) == IF n < 4 THEN x.key[n] ELSE x.enc[n - 4]
<1>1. PICK w \in Transfer : Access(w)
  BY StepIsAccess
<1>2. \A n \in 0..7 : reg_sys'[n] = IF n = w.addr THEN w.data ELSE reg_sys[n]
  BY <1>1, RegistersAfter
<1>3. w.addr \in 0..7 => pc = "store" /\ w.addr = i /\ w.data = word(input, i)
  BY <1>1 DEF Access
<1>4. ASSUME pc = "store", NEW n \in 0..7, n < i \/ (n = i /\ i' # i)
      PROVE  reg_sys'[n] = word(input, n)
  <2>1. n < i => reg_sys[n] = word(input, n)  BY <1>4 DEF Stored
  <2>2. n = i /\ i' # i => n = w.addr  BY <1>1, <1>4 DEF Access
  <2>3. n = w.addr => w.data = word(input, n)  BY <1>3
  <2> QED  BY <1>2, <1>4, <2>1, <2>2, <2>3
<1>5. ASSUME pc' = "store", NEW n \in 0..7, n < i' PROVE reg_sys'[n] = word(input', n)
  <2>1. i' # 0  BY <1>5
  <2>2. CASE pc = "store" /\ i' = i + 1 /\ input' = input
    <3>1. i \in 0..7  BY <2>2 DEF Flow
    <3>2. n < i \/ (n = i /\ i' # i)  BY <1>5, <2>2, <3>1
    <3> QED  BY <1>4, <2>2, <3>2
  <2>3. CASE pc = "store" /\ i' = i /\ input' = input
    <3>1. n < i \/ (n = i /\ i' # i)  BY <1>5, <2>3
    <3>2. reg_sys'[n] = word(input, n)  BY <1>4, <2>3, <3>1
    <3> QED  BY <2>3, <3>2
  <2>4. pc = "store" /\ i' \in {i, i + 1} /\ input' = input
    BY <1>5, <2>1, ProgramSteps DEF Storing
  <2> QED  BY <2>2, <2>3, <2>4
<1>6. ASSUME pc' = "start" \/ Calling'
      PROVE  key_holder' = input'.key /\ msg_enc_holder' = input'.enc
  <2>1. /\ input' = input
        /\ pc = "start" \/ Calling \/ (pc = "store" /\ i = 7 /\ i' = i + 1)
    BY <1>6, ProgramSteps DEF Starting, Continuing
  <2>2. CASE pc = "start" \/ Calling
    <3>1. key_holder = input.key /\ msg_enc_holder = input.enc  BY <2>2 DEF Stored
    <3>2. \A n \in 0..7 : reg_sys'[n] = reg_sys[n]
      BY <1>2, <1>3, <2>2 DEF Calling
    <3>3. \A n \in 0..3 : reg_sys'[0 + n] = reg_sys[0 + n] /\ reg_sys'[4 + n] = reg_sys[4 + n]
      BY <3>2
    <3> QED  BY <2>1, <3>1, <3>3 DEF key_holder, msg_enc_holder, Block
  <2>3. CASE pc = "store" /\ i = 7 /\ i' = i + 1
    <3>1. \A n \in 0..7 : n < i \/ (n = i /\ i' # i)  BY <2>3
    <3>2. \A n \in 0..7 : reg_sys'[n] = word(input, n)  BY <1>4, <2>3, <3>1
    <3>3. \A n \in 0..3 : reg_sys'[0 + n] = input.key[n] /\ reg_sys'[4 + n] = input.enc[n]
      <4> TAKE n \in 0..3
      <4>1. 0 + n \in 0..7 /\ 4 + n \in 0..7 /\ 0 + n < 4 /\ ~(4 + n < 4)
            /\ 0 + n = n /\ (4 + n) - 4 = n
        OBVIOUS
      <4> QED  BY <3>2, <4>1
    <3>4. input.key \in [0..3 -> Word] /\ input.enc \in [0..3 -> Word]
      BY DEF SysTypeOK, Blocks
    <3> QED  BY <2>1, <3>3, <3>4 DEF key_holder, msg_enc_holder, Block
  <2> QED  BY <2>1, <2>2, <2>3
<1> QED  BY <1>5, <1>6 DEF Stored

(***************************************************************************)
(* The handshake.                                                          *)
(***************************************************************************)
LEMMA HandshakeStep ==
  ASSUME SysTypeOK, Flow, Handshake, SysNext PROVE Handshake'
<1>1. PICK w \in Transfer : Access(w)
  BY StepIsAccess
<1>2. /\ reg_sys'[14] = IF w.addr = 14 THEN w.data ELSE reg_sys[14]
      /\ reg_sys'[15] = IF phase = "done" THEN AllOnes ELSE reg_sys[15]
  BY <1>1, RegistersAfter DEF Handshake
<1>3. ~reset'  BY <1>1 DEF Access
<1>4. ASSUME jobs' = 0 PROVE phase' = "idle" /\ ~AES_START' /\ reg_sys'[15] = Zero
  <2>1. jobs = 0 /\ ~(w.addr = 14 /\ w.data \in Odd)
    BY <1>1, <1>4 DEF Access, SysTypeOK
  <2>2. phase' = "idle"
    BY <1>1, <2>1
       DEF Handshake, Access, Clock, Core!Next, Core!Take, Core!Work, Core!Complete, Core!Rest,
           Core!Release, Core!Abandon
  <2> QED  BY <1>2, <2>1, <2>2 DEF Handshake, AES_START
<1>5. ASSUME Calling', run_mode' = "test" PROVE AES_START'
  <2>1. CASE pc = "start"
    <3>1. pc' \in {"print", "poll"}
      BY <1>5, <2>1, ProgramSteps DEF Continuing, Calling
    <3>2. w.addr = 14 /\ w.data = One  BY <1>1, <2>1, <3>1 DEF Access
    <3> QED  BY <1>2, <3>2 DEF AES_START
  <2>2. CASE Calling
    <3>1. run_mode = "test" /\ (pc = "stop" => pc' = "stop")
      BY <1>5, ProgramSteps DEF Continuing
    <3>2. w.addr # 14
      <4>1. pc # "start"  BY <2>2 DEF Calling
      <4> QED  BY <1>1, <3>1, <4>1 DEF Access
    <3> QED  BY <1>2, <2>2, <3>1, <3>2 DEF AES_START, Handshake
  <2> QED  BY <1>5, <2>1, <2>2, ProgramSteps DEF Continuing
<1> QED  BY <1>3, <1>4, <1>5 DEF Handshake

(***************************************************************************)
(* While the program calls, the inputs of the core stay what they are: a   *)
(* run begun meanwhile, or one of this input already, is undisturbed.      *)
(***************************************************************************)
LEMMA OwnRunStep ==
  ASSUME Stored, Stored', ~reset, Calling, Calling', input' = input, Core!Next,
         phase = "idle" \/ OwnRun
  PROVE  OwnRun'
<1>1. key_holder' = input.key /\ msg_enc_holder' = input.enc
  BY DEF Stored
<1>2. CASE Core!Take  BY <1>1, <1>2 DEF Core!Take, OwnRun
<1>3. CASE Core!Hold /\ phase # "idle"
  BY <1>1, <1>3 DEF Core!Hold, OwnRun
<1>4. CASE phase' = "idle"  BY <1>4 DEF OwnRun
<1> QED
  BY <1>2, <1>3, <1>4
     DEF Core!Next, Core!Work, Core!Complete, Core!Rest, Core!Release, Core!Abandon

\* What such a run publishes is the answer, and it stays.
LEMMA ShownStep ==
  ASSUME ~reset, DueResult, NEW w \in Transfer, Access(w), input' = input,
         phase = "done" => OwnRun, phase = "done" \/ Shown
  PROVE  Shown'
<1>1. \A n \in 0..3 : reg_sys'[8 + n] = IF phase = "done" THEN Part(result, n)
                                       ELSE reg_sys[8 + n]
  BY RegistersAfter
<1>2. CASE phase = "done"
  <2>1. result = Decrypt(input.key, input.enc)  BY <1>2 DEF DueResult, OwnRun
  <2> QED  BY <1>1, <1>2, <2>1 DEF Shown
<1>3. CASE phase # "done"  BY <1>1, <1>3 DEF Shown
<1> QED  BY <1>2, <1>3

(***************************************************************************)
(* The first job: the core was idle at its START and DONE low.             *)
(***************************************************************************)
LEMMA FirstJobStep ==
  ASSUME SysTypeOK, DueResult, Flow, Stored, Stored', Handshake, FirstJob, SysNext
  PROVE  FirstJob'
<1> SUFFICES ASSUME jobs' = 1, Calling'
             PROVE  /\ OwnRun'
                    /\ reg_sys'[15] # Zero => Shown'
                    /\ pc' \in {"load", "stop"} => reg_sys'[15] # Zero
  BY DEF FirstJob
<1>1. PICK w \in Transfer : Access(w)
  BY StepIsAccess
<1>2. reg_sys'[15] = IF phase = "done" THEN AllOnes ELSE reg_sys[15]
  BY <1>1, RegistersAfter DEF Handshake
<1>3. Core!Next /\ ~reset
  BY <1>1 DEF Access, Clock, Handshake
<1>4. input' = input
  BY ProgramSteps DEF Continuing
<1>5. CASE pc = "start"
  <2>1. pc' \in {"print", "poll"}
    BY <1>5, ProgramSteps DEF Continuing, Calling
  <2>2. jobs = 0
    <3>1. w.addr = 14 /\ w.data \in Odd  BY <1>1, <1>5, <2>1 DEF Access
    <3> QED  BY <1>1, <3>1 DEF Access, SysTypeOK
  <2>3. phase' = "idle" /\ reg_sys'[15] = Zero
    BY <1>2, <1>3, <2>2
       DEF Handshake, Core!Next, Core!Take, Core!Work, Core!Complete, Core!Rest,
           Core!Release, Core!Abandon
  <2> QED  BY <2>1, <2>3 DEF OwnRun
<1>6. CASE Calling
  <2>1. jobs = 1
    <3>1. ~(w.addr = 14 /\ w.data \in Odd)  BY <1>1, <1>6 DEF Access, Calling
    <3> QED  BY <1>1, <3>1 DEF Access
  <2>2. OwnRun /\ (reg_sys[15] # Zero => Shown)
    BY <1>6, <2>1 DEF FirstJob
  <2>3. OwnRun'
    BY <1>3, <1>4, <1>6, <2>2, OwnRunStep
  <2>4. ASSUME reg_sys'[15] # Zero PROVE Shown'
    BY <1>1, <1>2, <1>3, <1>4, <2>2, <2>4, ShownStep
  <2>5. ASSUME pc' \in {"load", "stop"} PROVE reg_sys'[15] # Zero
    <3>1. reg_sys[15] # Zero
      BY <1>6, <2>1, <2>5, ProgramSteps DEF FirstJob, Continuing
    <3> QED  BY <1>2, <3>1
  <2> QED  BY <2>3, <2>4, <2>5
<1> QED  BY <1>5, <1>6, ProgramSteps DEF Continuing

(***************************************************************************)
(* A slow console: since its call began, the core has taken the input, and *)
(* published a run of it before the call returns.                          *)
(***************************************************************************)
LEMMA SlowJobStep ==
  ASSUME SysTypeOK, DueResult, Flow, Stored, Stored', Handshake, SlowJob, SysNext
  PROVE  SlowJob'
<1> SUFFICES ASSUME slow_console', run_mode' = "test", Calling'
             PROVE  /\ console' # "begun" => OwnRun'
                    /\ console' = "rerun" => phase' # "idle" /\ (phase' = "done" => ran')
                    /\ console' = "answered" => Shown' /\ ran'
                    /\ pc' # "print" => console' = "answered"
  BY DEF SlowJob
<1>1. PICK w \in Transfer : Access(w)
  BY StepIsAccess
<1>2. Core!Next /\ ~reset /\ slow_console
  BY <1>1 DEF Access, Clock, Handshake
<1>3. input' = input /\ run_mode = "test"
  BY ProgramSteps DEF Continuing
<1>4. CASE pc = "start"
  <2>1. pc' = "print" /\ console' = "begun"
    BY <1>1, <1>3, <1>4, ProgramSteps DEF Continuing, Calling, Access, Console
  <2> QED  BY <2>1
<1>5. CASE Calling
  <2>1. AES_START
    BY <1>3, <1>5 DEF Handshake
  <2>2. console' = IF console = "begun" /\ phase = "idle" /\ phase' = "loading" THEN "rerun"
                   ELSE IF console = "rerun" /\ phase = "done" THEN "answered"
                   ELSE console
    <3>1. ~(pc # pc' /\ pc' \in {"scan", "print"})
      BY <1>5, ProgramSteps DEF Continuing, Calling
    <3> QED  BY <1>1, <3>1 DEF Access, Console
  <2>3. ran' = ((phase = "busy" /\ phase' = "done") \/ ran)
    BY <1>1, <1>3, ProgramSteps DEF Access, Continuing
  <2>4. /\ console # "begun" => OwnRun
        /\ console = "rerun" => phase # "idle" /\ (phase = "done" => ran)
        /\ console = "answered" => Shown /\ ran
        /\ pc # "print" => console = "answered"
    BY <1>2, <1>3, <1>5 DEF SlowJob
  <2>5. ASSUME console' # "begun" PROVE OwnRun'
    <3>1. phase = "idle" \/ OwnRun  BY <2>2, <2>4, <2>5
    <3> QED  BY <1>2, <1>3, <1>5, <3>1, OwnRunStep
  <2>6. ASSUME console' = "rerun" PROVE phase' # "idle" /\ (phase' = "done" => ran')
    <3>1. CASE console = "begun"  BY <2>2, <2>6, <3>1
    <3>2. CASE console = "rerun" /\ phase \in {"loading", "busy"}
      BY <1>2, <2>3, <3>2
         DEF Core!Next, Core!Take, Core!Work, Core!Complete, Core!Rest, Core!Release,
             Core!Abandon
    <3> QED  BY <2>2, <2>4, <2>6, <3>1, <3>2 DEF SysTypeOK, TypeOK
  <2>7. ASSUME console' = "answered" PROVE Shown' /\ ran'
    <3>1. console \in {"rerun", "answered"}  BY <2>2, <2>7
    <3>2. OwnRun /\ (phase = "done" \/ Shown)  BY <2>2, <2>4, <2>7, <3>1
    <3>3. Shown'  BY <1>1, <1>2, <1>3, <3>2, ShownStep
    <3>4. ran'  BY <2>2, <2>3, <2>4, <2>7, <3>1
    <3> QED  BY <3>3, <3>4
  <2>8. ASSUME pc' # "print" PROVE console' = "answered"
    <3>1. console = "answered"
      <4>1. CASE pc = "print"
        <5>1. ConsoleReturns  BY <2>8, <4>1, ProgramSteps DEF Continuing
        <5> QED  BY <1>2, <2>1, <5>1 DEF ConsoleReturns, Resting
      <4> QED  BY <2>4, <4>1
    <3> QED  BY <2>2, <3>1
  <2> QED  BY <2>5, <2>6, <2>7, <2>8
<1> QED  BY <1>4, <1>5, ProgramSteps DEF Continuing

(***************************************************************************)
(* What decrypt reads, while the registers show the answer.                *)
(***************************************************************************)
LEMMA ReadingStep ==
  ASSUME SysTypeOK, Flow, FirstJob, SlowJob, Reading, SysNext
  PROVE  Reading'
<1>1. pc = "load" /\ Certain => Shown
  BY DEF Certain, FirstJob, SlowJob, Calling
<1>2. CASE SelectMode  BY <1>2 DEF SelectMode, Reading
<1>3. CASE Scan  BY <1>3 DEF Scan, Reading
<1>4. CASE Store  BY <1>4 DEF Store, Reading
<1>5. CASE Start  BY <1>5 DEF Start, Reading
<1>6. CASE PrintEnc  BY <1>6 DEF PrintEnc, Reading
<1>7. CASE Poll  BY <1>7 DEF Poll, Reading
<1>8. (pc # "start" => jobs' = jobs) /\ slow_console' = slow_console
  <2>1. PICK w \in Transfer : Access(w)  BY StepIsAccess
  <2> QED  BY <2>1 DEF Access
<1>9. CASE Load
  <2>1. i \in 0..3 /\ pc = "load" /\ pc' = (IF i = 3 THEN "stop" ELSE "load") /\ i' = i + 1
    BY <1>9 DEF Load, Flow
  <2>2. /\ msg_dec' = [msg_dec EXCEPT ![i] = reg_sys[8 + i]]
        /\ input' = input /\ run_mode' = run_mode
    BY <1>9 DEF Load
  <2>3. Certain' => Certain
    BY <1>8, <2>1, <2>2 DEF Certain
  <2>4. ASSUME Certain, NEW n \in 0..3, n < i + 1
        PROVE  msg_dec'[n] = Part(Decrypt(input.key, input.enc), n)
    <3>1. DOMAIN msg_dec = 0..3 /\ Shown  BY <1>1, <2>1, <2>4 DEF Flow
    <3>2. n = i => msg_dec'[n] = reg_sys[8 + n]  BY <2>1, <2>2, <3>1
    <3>3. n < i => msg_dec'[n] = msg_dec[n]  BY <2>1, <2>2, <3>1
    <3>4. n < i \/ n = i  BY <2>1, <2>4
    <3> QED  BY <2>1, <2>4, <3>1, <3>2, <3>3, <3>4 DEF Reading, Shown
  <2> QED  BY <2>1, <2>2, <2>3, <2>4 DEF Reading, Answer
<1>10. CASE Stop  BY <1>8, <1>10 DEF Stop, Reading, Answer, Certain
<1>11. CASE Show  BY <1>11 DEF Show, Reading
<1>12. CASE Compute
  <2>1. pc' = pc /\ i' = i /\ input' = input /\ msg_dec' = msg_dec /\ run_mode' = run_mode
    BY <1>12 DEF Compute, program
  <2>2. pc # "start" => (Certain' <=> Certain)
    BY <1>8, <2>1 DEF Certain
  <2> QED  BY <2>1, <2>2 DEF Reading, Answer
<1>13. CASE Restart  BY <1>13 DEF Restart, Reading
<1> QED
  BY <1>2, <1>3, <1>4, <1>5, <1>6, <1>7, <1>9, <1>10, <1>11, <1>12, <1>13
     DEF SysNext, ProgramClock, Moves, Rests, Program

(***************************************************************************)
(* SysInv is inductive, whatever the fairness.                             *)
(***************************************************************************)
LEMMA SysInvInit == SysInit => SysInv
<1> SUFFICES ASSUME SysInit PROVE SysInv
  OBVIOUS
<1>1. Init /\ pc = "select" /\ jobs = 0 /\ calls = 0 /\ i = 0
  BY DEF SysInit, ProgramInit
<1>2. TypeOK
  <2>1. \A n \in Addr : reg_sys[n] = Zero  BY <1>1 DEF Init
  <2>2. key_holder \in Blocks /\ msg_enc_holder \in Blocks
    BY <2>1 DEF key_holder, msg_enc_holder, Block, Blocks, Addr
  <2>3. \A n \in 0..3 : reg_sys[8 + n] \in Word  BY <2>1 DEF Addr
  <2>4. job \in Jobs  BY <1>1, <2>2 DEF Init, Jobs
  <2> QED  BY <1>1, <2>1, <2>3, <2>4 DEF Init, TypeOK, Core!Init, Results
<1>3. SysTypeOK
  <2>1. calls \in 0..(IF run_mode = "bench" THEN BenchCalls ELSE 0)
    <3>1. 0 \in 0..BenchCalls /\ 0 \in 0..0  OBVIOUS
    <3> QED  BY <1>1, <3>1
  <2>2. i \in 0..8 /\ jobs \in 0..MaxJobs
    BY <1>1
  <2>3. restarts \in 0..MaxRestarts
    BY DEF SysInit, ProgramInit
  <2> QED  BY <1>1, <1>2, <2>1, <2>2, <2>3 DEF SysInit, ProgramInit, SysTypeOK
<1>4. DueResult
  BY <1>1 DEF Init, Core!Init, DueResult
<1>5. Handshake
  BY <1>1 DEF Init, Core!Init, Handshake, AES_START, Calling, Addr
<1>6. Flow /\ Stored
  BY <1>1 DEF SysInit, ProgramInit, Flow, Stored, Calling
<1>7. FirstJob /\ SlowJob /\ Reading
  BY <1>1 DEF FirstJob, SlowJob, Reading, Calling
<1> QED  BY <1>3, <1>4, <1>5, <1>6, <1>7 DEF SysInv

LEMMA SysInvStep ==
  ASSUME SysInv, [SysNext]_sysvars PROVE SysInv'
<1> USE DEF SysInv
<1>1. CASE SysNext
  <2>1. SysTypeOK'  BY <1>1, SysTypeStep
  <2>2. DueResult'
    <3>1. PICK w \in Transfer : Access(w)  BY <1>1, StepIsAccess
    <3> QED  BY <3>1, DueStep DEF Access, SysTypeOK
  <2>3. Flow'  BY <1>1, FlowStep
  <2>4. Stored'  BY <1>1, StoredStep DEF Handshake
  <2>5. Handshake'  BY <1>1, HandshakeStep
  <2>6. FirstJob'  BY <1>1, <2>4, FirstJobStep
  <2>7. SlowJob'  BY <1>1, <2>4, SlowJobStep
  <2>8. Reading'  BY <1>1, ReadingStep
  <2> QED  BY <2>1, <2>2, <2>3, <2>4, <2>5, <2>6, <2>7, <2>8
<1>2. CASE UNCHANGED sysvars
  <2> USE <1>2 DEF sysvars, vars, core, program
  <2>1. SysTypeOK'
    <3>1. TypeOK'  BY DEF SysTypeOK, TypeOK
    <3> QED  BY <3>1 DEF SysTypeOK
  <2>2. DueResult' /\ Flow'  BY DEF DueResult, Flow
  <2>3. Stored'
    BY DEF Stored, Calling, key_holder, msg_enc_holder, Block
  <2>4. Handshake'  BY DEF Handshake, Calling, AES_START
  <2>5. FirstJob' /\ SlowJob'
    BY DEF FirstJob, SlowJob, Calling, OwnRun, Shown, Part
  <2>6. Reading'  BY DEF Reading, Certain, Answer, Part
  <2> QED  BY <2>1, <2>2, <2>3, <2>4, <2>5, <2>6
<1> QED  BY <1>1, <1>2

LEMMA SysInvariance == SysSpec => []SysInv
BY SysInvInit, SysInvStep, PTL DEF SysSpec

(***************************************************************************)
(* The types of the program's variables, loop variable and counters within *)
(* their arrays and bounds, over those of the registers (SysTypeOK).       *)
(***************************************************************************)
THEOREM SystemTypes == SysSpec => []SysTypeOK
<1>1. SysInv => SysTypeOK  BY DEF SysInv
<1> QED  BY <1>1, SysInvariance, PTL

(***************************************************************************)
(* What the test loop prints, over a console slower than the core, is the  *)
(* decryption of what was typed, and so is, over any console and in either *)
(* mode, what decrypt reads for the first job (AnswerCorrect): for any     *)
(* inputs, any number of jobs, and a reset of the board at any time.       *)
(***************************************************************************)
THEOREM AnswersRight == SysSpec => []AnswerCorrect
<1>1. SysInv => AnswerCorrect
  BY DEF SysInv, Flow, Reading, Certain, AnswerCorrect
<1> QED  BY <1>1, SysInvariance, PTL

(***************************************************************************)
(* Without the benchmark, and over such a console, every decrypt waits for *)
(* a run of the hardware (DecryptRunsHardware): the benchmark alone breaks *)
(* what the comment on decrypt says.                                       *)
(***************************************************************************)
THEOREM TestLoopRunsHardware ==
  ASSUME Modes = {"test"} PROVE SysSpec => DecryptRunsHardware
<1>1. SysInv => (slow_console /\ pc = "stop" /\ pc' \in {"poll", "show", "exit"} => ran)
  BY DEF SysInv, SysTypeOK, SlowJob, Calling
<1> QED  BY <1>1, SysInvariance, PTL DEF DecryptRunsHardware
=============================================================================
