----------------------------- MODULE MCNiosAes -----------------------------
(***************************************************************************)
(* NiosAes for TLC: two inputs that differ in every word of the key and of *)
(* the message, so that any mixture of the two is neither.  With a slow    *)
(* console the program runs the test loop; with one that may be fast it    *)
(* runs in either mode, but for its first job only.                        *)
(***************************************************************************)
EXTENDS NiosAes

CONSTANTS a, b, c, d

Uniform(x) == [n \in 0..3 |-> x]
MCInputs == {[key |-> Uniform(a), enc |-> Uniform(c)],
             [key |-> Uniform(b), enc |-> Uniform(d)]}

\* A result is the job it is due for, or, of one not held, nothing of use.
MCDecrypt(k, m) == [key |-> k, msg |-> m]
MCOutcome == {Garbage}

InScenario == (slow_console' => run_mode' = "test") /\ (~slow_console' => jobs' <= 1)
MCInit == SysInit /\ (slow_console => run_mode = "test")
MCNext == SysNext /\ InScenario
MCSpec ==
  /\ MCInit /\ [][MCNext]_sysvars
  /\ WF_sysvars(ProgramClock /\ InScenario)
  /\ WF_sysvars(MCNext /\ phase = "idle" /\ AES_START)
  /\ WF_sysvars(MCNext /\ phase = "loading" /\ phase' = "busy")
  /\ WF_sysvars(MCNext /\ phase = "busy" /\ phase' = "done")
  /\ WF_sysvars(MCNext /\ phase = "done")
=============================================================================
