----------------------------- MODULE MCAesCore -----------------------------
(***************************************************************************)
(* AesCore for TLC: the inputs change at any clock, one or several at      *)
(* once, but at most MaxChanges times in a behaviour, or MaxControls as    *)
(* long as key and message are SomeKey and SomeMsg from the beginning:     *)
(* enough for RESET to cut a run short and START to begin another.         *)
(***************************************************************************)
EXTENDS AesCore

CONSTANTS MaxChanges, MaxControls, SomeKey, SomeMsg
ASSUME BoundsAssumption ==
  MaxChanges \in Nat /\ MaxControls \in Nat /\ SomeKey \in Key /\ SomeMsg \in Msg

VARIABLES changes, same
Same == key = SomeKey /\ msg = SomeMsg

MCInit == Init /\ changes = 0 /\ same = Same

MCNext ==
  /\ Next
  /\ changes' = IF inputs' = inputs THEN changes ELSE changes + 1
  /\ same' = (same /\ Same')
  /\ changes' <= IF same' THEN MaxControls ELSE MaxChanges

MCSpec == MCInit /\ [][MCNext]_<<vars, changes, same>>
=============================================================================
