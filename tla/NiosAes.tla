------------------------------ MODULE NiosAes ------------------------------
(***************************************************************************)
(* The program of Nios II A (hello_world.c) driving the AES registers: the *)
(* test loop of main, the benchmark, and decrypt, which both call.  Every  *)
(* access of AES_PTR is one bus transfer, in a clock of the program's own  *)
(* choosing; the registers and the core go on at every clock.              *)
(*                                                                         *)
(* encrypt is external here: what matters is the key and encrypted message *)
(* it leaves, one of Inputs.  RESET of the AES slave comes from the        *)
(* debugger alone and stays low; a reset of the board restarts the program *)
(* and leaves the AES slave as it is.                                      *)
(***************************************************************************)
EXTENDS AvalonAes

CONSTANTS
  Inputs,        (* [key, enc]: the pairs encrypt may leave                *)
  One,           (* 0x00000001                                             *)
  Modes,         (* the run modes considered: "test", "bench"              *)
  BenchCalls,    (* decrypt calls of the benchmark, 128 in the code        *)
  Consoles,      (* whether printf and scanf may, or may not, be slow      *)
  MaxJobs,       (* bound: START writes in a behaviour                     *)
  MaxRestarts    (* bound: resets of the board in a behaviour              *)

ASSUME InputsAssumption ==
  /\ One \in Odd
  /\ \A x \in Inputs : x.key \in Blocks /\ x.enc \in Blocks
  /\ Modes \subseteq {"test", "bench"}
  /\ BenchCalls \in Nat \ {0} /\ Consoles \subseteq BOOLEAN
  /\ MaxJobs \in Nat /\ MaxRestarts \in Nat

VARIABLES
  pc,         (* where the program is                                      *)
  run_mode,
  i,          (* the loop variable of the register accesses                *)
  input,      (* the local arrays key and msg_enc                          *)
  msg_dec,
  calls,      (* decrypt calls of the benchmark that have returned         *)
  slow_console, (* do printf and scanf outlast the core's runs             *)
  console,    (* "begun": a console call is on; "rerun", "answered": since *)
              (* it began the core has taken, has published, a whole run   *)
  ran,        (* history: a run was completed since decrypt returned       *)
  jobs,       (* history: START writes since power-up                      *)
  restarts    (* history: resets of the board                              *)

program == <<pc, run_mode, i, input, msg_dec, calls>>
sysvars == <<vars, program, slow_console, console, ran, jobs, restarts>>

(***************************************************************************)
(* The console.  When it is slow, a call of printf or scanf takes so long  *)
(* that the core completes a run begun after the call, unless it rests.    *)
(***************************************************************************)
Resting == ~AES_START /\ phase \in {"idle", "done"}
\* Mutant: no console call between START and decrypt.
ConsoleCall_Scan == pc = "scan"
ConsoleCall == pc \in {"scan", "print"}
ConsoleReturns == slow_console => console = "answered" \/ Resting

Console(begins) ==
  console' = IF begins THEN "begun"
             ELSE IF console = "begun" /\ phase = "idle" /\ phase' = "loading" THEN "rerun"
             ELSE IF console = "rerun" /\ phase = "done" THEN "answered"
             ELSE console

\* What the history and the console make of a clock: begins says that the
\* program enters a console call in it, returns that it leaves decrypt.
Watch(begins, returns) ==
  /\ reset' = FALSE
  /\ Console(begins) /\ UNCHANGED slow_console
  /\ ran' = \/ phase = "busy" /\ phase' = "done"
            \/ ran /\ ~returns

(***************************************************************************)
(* The write the program makes from where it is: the two loops that set    *)
(* registers 0-3 and 4-7, START high, START low.                           *)
(***************************************************************************)
\* Mutant: the START write forgotten.
BusWrite_NoStart ==
  CASE pc = "store" -> Write(i, IF i < 4 THEN input.key[i] ELSE input.enc[i - 4])
    [] pc = "stop"  -> Write(14, Zero)
    [] OTHER        -> NoWrite

BusWrite ==
  CASE pc = "store" -> Write(i, IF i < 4 THEN input.key[i] ELSE input.enc[i - 4])
    [] pc = "start" -> Write(14, One)
    [] pc = "stop"  -> Write(14, Zero)
    [] OTHER        -> NoWrite

SelectMode ==
  /\ pc = "select"
  /\ run_mode' \in Modes
  /\ IF run_mode' = "test"
     THEN pc' = "scan" /\ input' = input
     ELSE pc' = "store" /\ input' \in Inputs
  /\ i' = 0
  /\ UNCHANGED <<msg_dec, calls, jobs>>

Scan ==
  /\ pc = "scan"
  /\ input' \in Inputs
  /\ pc' = "store" /\ i' = 0
  /\ UNCHANGED <<run_mode, msg_dec, calls, jobs>>

Store ==
  /\ pc = "store"
  /\ i' = i + 1
  /\ pc' = IF i = 7 THEN "start" ELSE "store"
  /\ UNCHANGED <<run_mode, input, msg_dec, calls, jobs>>

Start ==
  /\ pc = "start" /\ jobs < MaxJobs
  /\ pc' = IF run_mode = "test" THEN "print" ELSE "poll"
  /\ jobs' = jobs + 1
  /\ UNCHANGED <<run_mode, i, input, msg_dec, calls>>

PrintEnc ==
  /\ pc = "print"
  /\ pc' = "poll"
  /\ UNCHANGED <<run_mode, i, input, msg_dec, calls, jobs>>

(***************************************************************************)
(* decrypt: wait for DONE, read the four words, write START low.           *)
(***************************************************************************)
\* Mutant: decrypt does not wait.
Poll_None ==
  /\ pc = "poll"
  /\ pc' = "load"
  /\ i' = 0
  /\ UNCHANGED <<run_mode, input, msg_dec, calls, jobs>>

Poll ==
  /\ pc = "poll"
  /\ pc' = IF reg_sys[15] = Zero THEN "poll" ELSE "load"
  /\ i' = 0
  /\ UNCHANGED <<run_mode, input, msg_dec, calls, jobs>>

Load ==
  /\ pc = "load"
  /\ msg_dec' = [msg_dec EXCEPT ![i] = reg_sys[8 + i]]
  /\ i' = i + 1
  /\ pc' = IF i = 3 THEN "stop" ELSE "load"
  /\ UNCHANGED <<run_mode, input, calls, jobs>>

\* Mutant: test jobs counted as calls of the benchmark.
Stop_CountsAll ==
  /\ pc = "stop"
  /\ calls' = calls + 1
  /\ pc' = IF run_mode = "test" THEN "show"
           ELSE IF calls' < BenchCalls THEN "poll" ELSE "exit"
  /\ UNCHANGED <<run_mode, i, input, msg_dec, jobs>>

Stop ==
  /\ pc = "stop"
  /\ IF run_mode = "test"
     THEN pc' = "show" /\ calls' = calls
     ELSE /\ calls' = calls + 1
          /\ pc' = IF calls' < BenchCalls THEN "poll" ELSE "exit"
  /\ UNCHANGED <<run_mode, i, input, msg_dec, jobs>>

\* The answer is printed, and the loop begins again.
Show ==
  /\ pc = "show"
  /\ pc' = "scan"
  /\ UNCHANGED <<run_mode, i, input, msg_dec, calls, jobs>>

Program ==
  SelectMode \/ Scan \/ Store \/ Start \/ PrintEnc \/ Poll \/ Load \/ Stop \/ Show

\* The program computes, or main has returned, and the hardware goes on.
Compute == UNCHANGED <<program, jobs, restarts>>

\* A reset of the board: the program starts again, the AES slave does not.
Restart ==
  /\ restarts < MaxRestarts /\ restarts' = restarts + 1
  /\ pc' = "select" /\ calls' = 0
  /\ UNCHANGED <<run_mode, i, input, msg_dec, jobs>>

(***************************************************************************)
(* The program's part of a clock, without saying what the slave does in it *)
(* nor how long the console takes; and the whole, where the slave is that  *)
(* of AvalonAes.                                                           *)
(***************************************************************************)
Moves ==
  /\ Program /\ UNCHANGED restarts
  /\ Watch(pc' # pc /\ pc' \in {"scan", "print"}, pc = "stop")
Rests == (Compute \/ Restart) /\ Watch(FALSE, FALSE)

ProgramClock == Clock(BusWrite) /\ Moves /\ (ConsoleCall => ConsoleReturns)
SysNext == ProgramClock \/ (Clock(NoWrite) /\ Rests)

ProgramInit ==
  /\ pc = "select" /\ run_mode \in Modes /\ i = 0 /\ calls = 0
  /\ input \in Inputs
  /\ msg_dec = [n \in 0..3 |-> Zero]
  /\ slow_console \in Consoles /\ console = "answered"
  /\ ran = FALSE /\ jobs = 0 /\ restarts = 0
SysInit == Init /\ ProgramInit

SysSpec == SysInit /\ [][SysNext]_sysvars

\* The processor executes, the core's runs end, and it sees START.
FairSysSpec ==
  /\ SysSpec
  /\ WF_sysvars(ProgramClock)
  /\ WF_sysvars(SysNext /\ phase = "idle" /\ AES_START)
  /\ WF_sysvars(SysNext /\ phase = "loading" /\ phase' = "busy")
  /\ WF_sysvars(SysNext /\ phase = "busy" /\ phase' = "done")
  /\ WF_sysvars(SysNext /\ phase = "done")

-----------------------------------------------------------------------------
SysTypeOK ==
  /\ TypeOK
  /\ pc \in {"select", "scan", "store", "start", "print", "poll", "load", "stop",
             "show", "exit"}
  /\ run_mode \in Modes /\ i \in 0..8 /\ input \in Inputs
  /\ calls \in 0..(IF run_mode = "bench" THEN BenchCalls ELSE 0)
  /\ slow_console \in Consoles
  /\ console \in {"begun", "rerun", "answered"} /\ ran \in BOOLEAN /\ jobs \in 0..MaxJobs
  /\ restarts \in 0..MaxRestarts

Answer == \A n \in 0..3 : msg_dec[n] = Part(Decrypt(input.key, input.enc), n)

(***************************************************************************)
(* With a console slower than the core, the test loop prints the           *)
(* decryption of the message and key it was just given -- every time, and  *)
(* after a restart that found the core running or DONE already set.        *)
(* Polling is enough, whatever the speed of the console, for the first job *)
(* after power-up, in either mode: DONE is low until its run has ended.    *)
(***************************************************************************)
AnswerCorrect ==
  /\ slow_console /\ pc = "show" => Answer
  /\ jobs = 1 /\ pc \in {"stop", "show", "exit"} => Answer

(***************************************************************************)
(* decrypt: "Perform AES decryption in hardware" (hello_world.c:377),      *)
(* "wait for DONE to be indicated in hardware" (line 388).  Between one    *)
(* return of decrypt and the next the hardware has completed a run, given  *)
(* a console slower than that.                                             *)
(***************************************************************************)
DecryptRunsHardware ==
  [][slow_console /\ pc = "stop" /\ pc' \in {"poll", "show", "exit"} => ran]_sysvars

(***************************************************************************)
(* decrypt does not poll for ever.                                         *)
(***************************************************************************)
DecryptReturns == pc = "poll" ~> pc # "poll"
=============================================================================
