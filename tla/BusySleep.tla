----------------------------- MODULE BusySleep -----------------------------
(***************************************************************************)
(* alt_busy_sleep, behind usleep: the processor counts down loops of known *)
(* length.  A delay too long for one count takes several of INT_MAX loops  *)
(* before the rest.  A count is decremented first; the counts of a long    *)
(* delay go on until it is zero, that of a short one while it is positive. *)
(* A microsecond is counted as a whole number of loops, rounded down.      *)
(***************************************************************************)
EXTENDS Naturals

CONSTANTS
  U32,             (* An unsigned int counts modulo U32.                   *)
  CyclesPerUs,     (* ALT_CPU_FREQ in MHz                                  *)
  cycles_per_loop

INT_MAX == U32 \div 2 - 1
\* The loops that are counted for a microsecond.
PerUs == CyclesPerUs \div cycles_per_loop

SleepAssumption ==
  /\ U32 \in Nat /\ U32 % 2 = 0
  /\ CyclesPerUs \in Nat /\ cycles_per_loop \in Nat \ {0}
  /\ PerUs > 0 /\ PerUs <= INT_MAX

VARIABLES
  asked,           (* the argument                                         *)
  us,              (* what is left of it                                   *)
  big_loops,       (* the counts of INT_MAX still to go                    *)
  at, spent        (* where it is, and the loops gone through              *)
vars == <<asked, us, big_loops, at, spent>>

\* The microseconds that one long count is for.
UsPerBig == INT_MAX \div PerUs

\* The loops gone through, by the branch at the end: bne, or bgt.
LoopsUntilZero(count) == IF count = 0 THEN U32 ELSE count
LoopsWhilePositive(count) == IF count = 0 THEN 1 ELSE count
Product == (us * PerUs) % U32
isLong == asked \div UsPerBig > 0

Init ==
  /\ asked \in 0..(U32 - 1) /\ us = asked
  /\ big_loops = us \div UsPerBig
  /\ at = "big" /\ spent = 0

\* Mutant: what the loop took is counted one too many.
Big_OneMore ==
  /\ at = "big" /\ big_loops > 0
  /\ spent' = spent + LoopsUntilZero(INT_MAX)
  /\ us' = us - (UsPerBig + 1) /\ big_loops' = big_loops - 1
  /\ UNCHANGED <<asked, at>>
Big ==
  /\ at = "big" /\ big_loops > 0
  /\ spent' = spent + LoopsUntilZero(INT_MAX)
  /\ us' = us - UsPerBig /\ big_loops' = big_loops - 1
  /\ UNCHANGED <<asked, at>>

Rest ==
  /\ at = "big" /\ big_loops = 0
  /\ spent' = spent + (IF isLong THEN LoopsUntilZero(Product) ELSE LoopsWhilePositive(Product))
  /\ at' = "done"
  /\ UNCHANGED <<asked, us, big_loops>>

Next == Big \/ Rest
Spec == Init /\ [][Next]_vars /\ WF_vars(Next)

-----------------------------------------------------------------------------
TypeOK == us \in 0..asked /\ big_loops \in 0..(asked \div UsPerBig) /\ at \in {"big", "done"}

\* The cycles that the loops took.
Cycles == spent * cycles_per_loop

\* The delay is shorter than was asked by less than a loop for each microsecond,
\* for arguments of any size: the product that overflows an unsigned int is
\* never formed, and no count stands for more than is taken off us.
NotMuchShorter ==
  at = "done" => Cycles + asked * (cycles_per_loop - 1) >= asked * CyclesPerUs

\* "Microsecond delay routine" (alt_busy_sleep.c:28): the delay is no shorter
\* than the microseconds asked for.
LongEnough == at = "done" => Cycles >= asked * CyclesPerUs

\* alt_busy_sleep.c:36-40: the instructions "are equivalent to" a loop that
\* goes round in proportion to us.  The loops exceed what is counted for us by
\* no more than the rounding of the long counts, and one loop.
NotMuchLonger ==
  at = "done" => spent <= asked * PerUs + (asked \div UsPerBig) * (INT_MAX - UsPerBig * PerUs) + 1
=============================================================================
