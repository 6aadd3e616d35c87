--------------------------- MODULE MCNiosSystem ---------------------------
(***************************************************************************)
(* NiosSystem for TLC: two inputs that differ in a word of the message,    *)
(* one of them typed first, then either.  The board is reset, if at all,   *)
(* while decrypt waits, and so the second job finds the core anywhere in a *)
(* run: what takes the console longest.  The program asks for no line      *)
(* after the last job.                                                     *)
(***************************************************************************)
EXTENDS NiosSystem

CONSTANTS x, y

Typed(v) == [key |-> [n \in 0..3 |-> x], enc |-> [n \in 0..3 |-> IF n = 1 THEN v ELSE x]]
MCInputs == {Typed(x), Typed(y)}

InScenario ==
  /\ jobs = 0 => input' = Typed(x)
  /\ restarts' # restarts => pc = "poll"
  /\ pc' = "scan" => jobs < MaxJobs

MCInit == WholeInit /\ input = Typed(x)
MCNext == WholeNext /\ InScenario
MCSpec ==
  /\ MCInit /\ [][MCNext]_wholevars
  /\ WF_wholevars(MCNext) /\ WF_wholevars(ProgramClock /\ InScenario)
=============================================================================
