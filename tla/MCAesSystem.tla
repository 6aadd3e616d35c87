---------------------------- MODULE MCAesSystem ----------------------------
(***************************************************************************)
(* AesSystem for TLC: at any clock the master writes to a register of one  *)
(* of the roles or RESET goes high, at most MaxEvents times in all, where  *)
(* a RESET, of which there are at most MaxResets, counts for two.          *)
(***************************************************************************)
EXTENDS AesSystem

CONSTANTS
  Other,        (* A word beside Zero and AllOnes.                         *)
  MaxEvents, MaxResets
ASSUME BoundsAssumption ==
  Other \in Word \ {Zero, AllOnes} /\ MaxEvents \in Nat /\ MaxResets \in Nat

VARIABLES events, resets
mcvars == <<vars, events, resets>>

\* A word of the key, of the message, of the result; START; DONE cleared.
Writes ==
  {Bus!Write(a, Other) : a \in {0, 4, 9}} \cup
  {Bus!Write(14, AllOnes), Bus!Write(14, Zero), Bus!Write(15, Zero)}

MCInit == Init /\ events = 0 /\ resets = 0

Rises == IF ~reset /\ reset' THEN 1 ELSE 0
Bounded(w) ==
  /\ resets' = resets + Rises /\ resets' <= MaxResets
  /\ events' = events + Rises + IF w = Bus!NoWrite THEN 0 ELSE 1
  /\ events' + resets' <= MaxEvents

MCNext ==
  \E w \in {Bus!NoWrite} \cup Writes :
    reset' \in BOOLEAN /\ Bounded(w) /\ Clock(w)

\* The oscillator does not stop; nothing else is assumed of the core.
MCSpec == MCInit /\ [][MCNext]_mcvars /\ WF_mcvars(MCNext)
=============================================================================
