---------------------------- MODULE NiosSystem ----------------------------
(***************************************************************************)
(* The program of Nios II A over the clocked hardware: hello_world.c as    *)
(* NiosAes has it, making its transfers to the registers and the core of   *)
(* AesSystem.  Nothing is assumed of the core but its clock.               *)
(*                                                                         *)
(* What NiosAes says of the console in terms of the runs of the core is a  *)
(* number of clocks here: a slow console is one whose calls last CallTime  *)
(* clocks at least.                                                        *)
(***************************************************************************)
EXTENDS AesSystem

CONSTANTS Inputs, One, Modes, BenchCalls, Consoles, MaxJobs, MaxRestarts  \* see NiosAes

VARIABLES
  pc, run_mode, i, input, msg_dec, calls,                  (* see NiosAes  *)
  slow_console, console, ran, jobs, restarts,
  since       (* clocks since the console call began, CallTime at most     *)

programVars == <<pc, run_mode, i, input, msg_dec, calls, slow_console, console, ran, jobs,
                 restarts>>
wholevars == <<vars, programVars, since>>

Prog == INSTANCE NiosAes
          WITH phase <- Core!Phase, job <- run, result <- aes_msg_dec_local,
               Decrypt <- Decryption, Outcome <- Core!Term, Garbage <- NotShown

ASSUME NiosSystemAssumption == Prog!InputsAssumption

(***************************************************************************)
(* The longest the console may have to wait for the core: for the end of   *)
(* one run, through finished and Halted, for the whole of the next, and    *)
(* for the clock in which its result is in the registers.                  *)
(***************************************************************************)
CallTime == 2 * Core!RunLength + 3

Since ==
  since' = IF pc' # pc /\ pc' \in {"scan", "print"} THEN 0
           ELSE IF since < CallTime THEN since + 1 ELSE since

ProgramClock ==
  /\ Clock(Prog!BusWrite)
  /\ Prog!Moves /\ (Prog!ConsoleCall /\ slow_console => since >= CallTime)
  /\ Since

WholeInit == Init /\ Prog!ProgramInit /\ since = 0
WholeNext == ProgramClock \/ (Clock(Bus!NoWrite) /\ Prog!Rests /\ Since)

\* The oscillator does not stop, and the processor executes.
WholeSpec ==
  /\ WholeInit /\ [][WholeNext]_wholevars
  /\ WF_wholevars(WholeNext) /\ WF_wholevars(ProgramClock)

-----------------------------------------------------------------------------
(***************************************************************************)
(* A console call of CallTime clocks is slow in the sense of NiosAes, and  *)
(* with that every clock of the whole is one that NiosAes allows.          *)
(***************************************************************************)
CallsOutlastRuns == Prog!ConsoleCall /\ since >= CallTime => Prog!ConsoleReturns

ImplementsProgram == Prog!SysSpec

\* So the test loop prints what it was given decrypted, by the core that is
\* there, and decrypt returns, with no promise of the core's but its clock.
AnswerCorrect == Prog!AnswerCorrect
DecryptReturns == Prog!DecryptReturns
=============================================================================
