-------------------------------- MODULE Sbrk --------------------------------
(***************************************************************************)
(* sbrk of the HAL, under malloc: the heap is extended by moving heap_end. *)
(* It "must be safe if called from an interrupt context"                   *)
(* (alt_sbrk.c:52-53): the program and an interrupt routine call it, the   *)
(* routine at any time that interrupts are on.                             *)
(***************************************************************************)
EXTENDS Integers

CONSTANTS
  HeapStart, HeapLimit,   (* __alt_heap_start, __alt_heap_limit            *)
  Increments              (* the sizes asked for                           *)

ASSUME HeapAssumption ==
  /\ HeapStart \in Nat /\ HeapLimit \in Nat /\ HeapStart <= HeapLimit
  /\ Increments \subseteq Nat

VARIABLES
  heap_end,
  PIE,             (* interrupts on                                        *)
  call,            (* the call of the program, and that of the routine     *)
  blocks           (* history: what callers were given                     *)
vars == <<heap_end, PIE, call, blocks>>

Caller == {"program", "routine"}
Idle == [at |-> "idle", incr |-> 0, context |-> FALSE, prev |-> 0]

\* The program stands still while the routine runs.
Runs(c) == c = "routine" \/ call["routine"].at = "idle"
At(c, place) == Runs(c) /\ call[c].at = place
Goto(c, place) == call' = [call EXCEPT ![c].at = place]

\* A routine runs with interrupts off, having broken in while they were on.
Call(c, incr) ==
  /\ At(c, "idle") /\ (c = "routine" => PIE)
  /\ PIE' = IF c = "routine" THEN FALSE ELSE PIE
  /\ call' = [call EXCEPT ![c] = [Idle EXCEPT !.at = "lock", !.incr = incr]]
  /\ UNCHANGED <<heap_end, blocks>>

\* Mutant: interrupts stay on.
Lock_None(c) ==
  /\ At(c, "lock")
  /\ call' = [call EXCEPT ![c].at = "align", ![c].context = PIE]
  /\ UNCHANGED <<heap_end, PIE, blocks>>
Lock(c) ==
  /\ At(c, "lock") /\ PIE' = FALSE
  /\ call' = [call EXCEPT ![c].at = "align", ![c].context = PIE]
  /\ UNCHANGED <<heap_end, blocks>>

\* Mutant: the end is left where it is.
WordAligned_Not(a) == a
WordAligned(a) == ((a + 3) \div 4) * 4
Align(c) ==
  /\ At(c, "align") /\ Goto(c, "check")
  /\ heap_end' = WordAligned(heap_end)
  /\ UNCHANGED <<PIE, blocks>>

\* Mutant: the end is looked at before the increment.
Fits_Before(incr) == heap_end <= HeapLimit
Fits(incr) == heap_end + incr <= HeapLimit

Check(c) ==
  /\ At(c, "check") /\ Goto(c, IF Fits(call[c].incr) THEN "take" ELSE "unlock")
  /\ UNCHANGED <<heap_end, PIE, blocks>>

Take(c) ==
  /\ At(c, "take")
  /\ call' = [call EXCEPT ![c].at = "extend", ![c].prev = heap_end]
  /\ UNCHANGED <<heap_end, PIE, blocks>>

Extend(c) ==
  /\ At(c, "extend") /\ Goto(c, "unlock")
  /\ heap_end' = heap_end + call[c].incr
  /\ blocks' = blocks \cup {[from |-> call[c].prev, to |-> call[c].prev + call[c].incr, of |-> c]}
  /\ UNCHANGED PIE

\* The routine's exception return turns interrupts on again.
Unlock(c) ==
  /\ At(c, "unlock")
  /\ PIE' = IF c = "routine" THEN TRUE ELSE call[c].context
  /\ call' = [call EXCEPT ![c] = Idle]
  /\ UNCHANGED <<heap_end, blocks>>

Init ==
  /\ heap_end = HeapStart /\ PIE = TRUE
  /\ call = [c \in Caller |-> Idle] /\ blocks = {}

Next == \E c \in Caller :
  \/ \E incr \in Increments : Call(c, incr)
  \/ Lock(c) \/ Align(c) \/ Check(c) \/ Take(c) \/ Extend(c) \/ Unlock(c)
Spec == Init /\ [][Next]_vars

-----------------------------------------------------------------------------
TypeOK ==
  /\ heap_end \in HeapStart..(HeapLimit + 3) /\ PIE \in BOOLEAN
  /\ call \in [Caller -> [at : {"idle", "lock", "align", "check", "take", "extend", "unlock"},
                          incr : Increments \cup {0}, context : BOOLEAN, prev : Nat]]
  /\ blocks \subseteq [from : Nat, to : Nat, of : Caller]

\* What two callers have been given does not overlap, whichever broke into
\* whose call: every block lies below heap_end, and the next above it.
Disjoint == \A b, d \in blocks : b = d \/ b.to <= d.from \/ d.to <= b.from

\* What a caller has been given lies in the heap and begins at a word, for the
\* code compares the new end with the limit, whatever the comment above it says.
InHeap == \A b \in blocks : HeapStart <= b.from /\ b.to <= HeapLimit /\ b.from % 4 = 0

\* alt_sbrk.c:46-48: sbrk "does not perform any bounds checking. Memory will be
\* allocated, even if the request [...] overflows the available physical memory."
NoBoundsCheck ==
  [][\A c \in Caller : At(c, "check") /\ call'[c].at # "check" => call'[c].at = "take"]_vars
=============================================================================
