--------------------------- MODULE RingOscillator ---------------------------
(***************************************************************************)
(* ring_osc_top.v: ring oscillators run while enable is high, each clocks  *)
(* a ripple counter, and the fall of enable loads monitor_count and,       *)
(* through reset | ~enable, clears the counters.  A counter's stages       *)
(* change one after the other: the fall of a stage is what clocks the      *)
(* next, so between two steps of this module a count may be on its way.    *)
(*                                                                         *)
(* The counts do not reach monitor_count.  The adder tree between them     *)
(* does not drive its output: one copy of its source assigns the sum to a  *)
(* name that is not the output's, the other ends within a comment.  So the *)
(* counters are modelled for themselves, and the sample is what a net that *)
(* nothing drives is read as.                                              *)
(***************************************************************************)
EXTENDS Integers, FiniteSets, FiniteSetsExt, Functions

CONSTANTS
  OSC_CNT, CNT_WIDTH,
  Undriven,        (* the words a net without a driver may be read as      *)
  MaxFalls         (* bound: falls of an oscillator that are counted       *)

OscillatorAssumption ==
  /\ OSC_CNT \in Nat \ {0} /\ CNT_WIDTH \in Nat \ {0} /\ MaxFalls \in Nat
  /\ Undriven \subseteq Nat /\ Undriven # {}

VARIABLES
  enable, reset,
  osc_out,         (* the level of each ring                               *)
  count,           (* the stages of each counter that are set              *)
  clocked,         (* the stages whose clock has fallen, not yet toggled   *)
  monitor_count,
  falls            (* history: falls of each ring since its counter was    *)
                   (* last cleared                                         *)
vars == <<enable, reset, osc_out, count, clocked, monitor_count, falls>>

Osc == 0..(OSC_CNT - 1)
Stage == 0..(CNT_WIDTH - 1)
Weight[k \in Stage] == IF k = 0 THEN 1 ELSE 2 * Weight[k - 1]
Value(stages) == MapThenSumSet(LAMBDA k : Weight[k], stages)
\* The falls after which a counter is where it was.
Turn == 2 * Weight[CNT_WIDTH - 1]

\* The output of the adder tree.
final_sum == Undriven

\* A ring toggles while it is enabled; stage 0, unless it is held in reset, is
\* clocked by its fall.  A stage is faster than the clock it gets.
ring_osc(o) ==
  /\ enable /\ 0 \notin clocked[o] /\ falls[o] < MaxFalls
  /\ osc_out' = [osc_out EXCEPT ![o] = ~@]
  /\ IF osc_out[o] /\ ~reset
     THEN /\ falls' = [falls EXCEPT ![o] = @ + 1]
          /\ clocked' = [clocked EXCEPT ![o] = @ \cup {0}]
     ELSE UNCHANGED <<falls, clocked>>
  /\ UNCHANGED <<enable, reset, count, monitor_count>>

\* Mutant: the next stage is clocked by the rise of this one.
ClocksNext_OnRise(o, k) == k \notin count[o]
ClocksNext(o, k) == k \in count[o]

TFF(o, k) ==
  /\ k \in clocked[o] /\ k + 1 \notin clocked[o]
  /\ count' = [count EXCEPT ![o] = IF k \in @ THEN @ \ {k} ELSE @ \cup {k}]
  /\ clocked' = [clocked EXCEPT ![o] =
       (@ \ {k}) \cup (IF ClocksNext(o, k) /\ k + 1 \in Stage THEN {k + 1} ELSE {})]
  /\ UNCHANGED <<enable, reset, osc_out, monitor_count, falls>>

\* Mutant: the counters are cleared by reset alone.
ClearOn_Reset(r, e) == r
ClearOn(r, e) == r \/ ~e

\* The counters when reset and enable become r and e.
async_reset(r, e) ==
  IF ClearOn(r, e)
  THEN count' = [o \in Osc |-> {}] /\ clocked' = [o \in Osc |-> {}]
  ELSE UNCHANGED <<count, clocked>>

Enable ==
  /\ ~enable /\ enable' = TRUE /\ async_reset(reset, TRUE)
  /\ UNCHANGED <<reset, osc_out, monitor_count, falls>>

Disable ==
  /\ enable /\ enable' = FALSE /\ async_reset(reset, FALSE)
  /\ monitor_count' \in IF reset THEN {0} ELSE final_sum
  /\ osc_out' = [o \in Osc |-> TRUE] /\ falls' = [o \in Osc |-> 0]
  /\ UNCHANGED reset

\* Counting begins anew after a reset while the rings run.
Reset ==
  /\ reset' = ~reset /\ async_reset(reset', enable)
  /\ monitor_count' = IF reset' THEN 0 ELSE monitor_count
  /\ falls' = IF reset' THEN [o \in Osc |-> 0] ELSE falls
  /\ UNCHANGED <<enable, osc_out>>

Init ==
  /\ enable = FALSE /\ reset = TRUE /\ monitor_count = 0
  /\ osc_out = [o \in Osc |-> TRUE] /\ falls = [o \in Osc |-> 0]
  /\ count = [o \in Osc |-> {}] /\ clocked = [o \in Osc |-> {}]

Next ==
  \/ \E o \in Osc : ring_osc(o) \/ \E k \in Stage : TFF(o, k)
  \/ Enable \/ Disable \/ Reset
Spec == Init /\ [][Next]_vars

-----------------------------------------------------------------------------
\* Only a counter that is not held in reset holds a count, or has one on its way.
TypeOK ==
  /\ enable \in BOOLEAN /\ reset \in BOOLEAN /\ osc_out \in [Osc -> BOOLEAN]
  /\ count \in [Osc -> SUBSET Stage] /\ clocked \in [Osc -> SUBSET Stage]
  /\ (reset \/ ~enable) => \A o \in Osc : count[o] = {} /\ clocked[o] = {}
  /\ monitor_count \in Undriven \cup {0} /\ falls \in [Osc -> 0..MaxFalls]

\* What has arrived in a ripple counter and the carries on their way in it are,
\* turns of the counter apart, the falls of its ring since it was last cleared:
\* no carry is lost or doubled, and no clear, whenever it comes, leaves a count
\* or a carry of an earlier window behind.
CountsExact ==
  \A o \in Osc : \E turns \in 0..falls[o] :
    falls[o] = turns * Turn + Value(count[o]) + Value(clocked[o])

\* "when enabled, counts the number of oscillations" (RO_counter.v:34-35), "adds
\* together 16 numbers of width 32 bits" (adder_tree.v:2): what the fall of enable
\* samples is the number of oscillations since the last clear.
CountsOscillations ==
  [][enable /\ ~enable' /\ ~reset => monitor_count' = FoldFunction(+, 0, falls)]_vars
=============================================================================
