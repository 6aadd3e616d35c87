------------------------------ MODULE Profiling ------------------------------
(***************************************************************************)
(* The call-graph profiler: mcount, called at the start of every function  *)
(* of a program compiled for profiling, looks for the arc from its         *)
(* caller's caller, counts it, or has __mcount_record add it.  Functions   *)
(* of interrupt routines are compiled so too: mcount of a routine breaks   *)
(* into that of the program wherever interrupts are on.                    *)
(*                                                                         *)
(* One bucket of the hash table is modelled, where all the contention is.  *)
(* An entry or arc is known by the order in which it was allocated; null   *)
(* pointers are 0.                                                         *)
(***************************************************************************)
EXTENDS Naturals, Sequences, FiniteSets, FiniteSetsExt

CONSTANTS
  Function, Site,      (* functions of the bucket, and who calls them      *)
  MaxCalls             (* bound: calls of each caller                      *)

ProfilingAssumption == MaxCalls \in Nat

VARIABLES
  fn_head,         (* the bucket: its first entry                          *)
  entry,           (* [next, self_pc, arc_head], in order of allocation    *)
  arc,             (* [next, from_pc, count], in order of allocation       *)
  PIE,             (* interrupts on                                        *)
  call,            (* the mcount under way in each caller                  *)
  made             (* history: calls returned, by function and site        *)
vars == <<fn_head, entry, arc, PIE, call, made>>

NULL == 0
Caller == {"program", "routine"}
Idle == [at |-> "idle", self |-> NULL, from |-> NULL, fn |-> NULL, arc |-> NULL,
         count |-> 0, context |-> FALSE, calls |-> 0]

\* The program stands still while the routine runs.
At(c, place) == call[c].at = place /\ (c = "routine" \/ call["routine"].at = "idle")
Step(c, new) == call' = [call EXCEPT ![c] = new]
Goto(c, place) == Step(c, [call[c] EXCEPT !.at = place])

mcount(c, self, from) ==
  /\ At(c, "idle") /\ (c = "routine" => PIE) /\ call[c].calls < MaxCalls
  /\ PIE' = IF c = "routine" THEN FALSE ELSE PIE
  /\ Step(c, [Idle EXCEPT !.at = "functions", !.self = self, !.from = from, !.fn = fn_head,
                          !.calls = call[c].calls + 1])
  /\ UNCHANGED <<fn_head, entry, arc, made>>

\* Along the entries of the bucket, and the arcs of the one that is found.
FindFunction(c) ==
  LET f == call[c].fn IN
  /\ At(c, "functions")
  /\ IF f = NULL THEN Goto(c, "record")
     ELSE IF entry[f].self_pc = call[c].self
     THEN Step(c, [call[c] EXCEPT !.at = "arcs", !.arc = entry[f].arc_head])
     ELSE Step(c, [call[c] EXCEPT !.fn = entry[f].next])
  /\ UNCHANGED <<fn_head, entry, arc, PIE, made>>

FindArc(c) ==
  LET a == call[c].arc IN
  /\ At(c, "arcs") /\ a # NULL
  /\ IF arc[a].from_pc = call[c].from THEN Goto(c, "load")
     ELSE IF arc[a].next = NULL THEN Goto(c, "record")
     ELSE Step(c, [call[c] EXCEPT !.arc = arc[a].next])
  /\ UNCHANGED <<fn_head, entry, arc, PIE, made>>

\* ldw, addi, stw: interrupts are not disabled.
LoadCount(c) ==
  /\ At(c, "load")
  /\ Step(c, [call[c] EXCEPT !.at = "store", !.count = arc[call[c].arc].count])
  /\ UNCHANGED <<fn_head, entry, arc, PIE, made>>
StoreCount(c) ==
  /\ At(c, "store") /\ Goto(c, "return")
  /\ arc' = [arc EXCEPT ![call[c].arc].count = call[c].count + 1]
  /\ UNCHANGED <<fn_head, entry, PIE, made>>

-----------------------------------------------------------------------------
(* __mcount_record, with what mcount found: the function's entry, or none.   *)

\* Mutant: interrupts stay on while the lists are changed.
Record_InterruptsOn(c) ==
  /\ At(c, "record")
  /\ Step(c, [call[c] EXCEPT !.at = IF call[c].fn = NULL THEN "newfn" ELSE "newarc",
                             !.context = PIE])
  /\ UNCHANGED <<fn_head, entry, arc, PIE, made>>
Record(c) ==
  /\ At(c, "record") /\ PIE' = FALSE
  /\ Step(c, [call[c] EXCEPT !.at = IF call[c].fn = NULL THEN "newfn" ELSE "newarc",
                             !.context = PIE])
  /\ UNCHANGED <<fn_head, entry, arc, made>>

NewFunction(c) ==
  /\ At(c, "newfn")
  /\ entry' = Append(entry, [next |-> fn_head, self_pc |-> call[c].self, arc_head |-> NULL])
  /\ Step(c, [call[c] EXCEPT !.at = "linkfn", !.fn = Len(entry')])
  /\ UNCHANGED <<fn_head, arc, PIE, made>>
\* Mutant: the first entry of the bucket stays the first.
LinkFunction_OnlyFirst(c) ==
  /\ At(c, "linkfn") /\ Goto(c, "newarc")
  /\ fn_head' = IF fn_head = NULL THEN call[c].fn ELSE fn_head
  /\ UNCHANGED <<entry, arc, PIE, made>>
LinkFunction(c) ==
  /\ At(c, "linkfn") /\ Goto(c, "newarc")
  /\ fn_head' = call[c].fn
  /\ UNCHANGED <<entry, arc, PIE, made>>

NewArc(c) ==
  /\ At(c, "newarc")
  /\ arc' = Append(arc, [next |-> entry[call[c].fn].arc_head, from_pc |-> call[c].from,
                         count |-> 1])
  /\ Step(c, [call[c] EXCEPT !.at = "linkarc", !.arc = Len(arc')])
  /\ UNCHANGED <<fn_head, entry, PIE, made>>
LinkArc(c) ==
  /\ At(c, "linkarc") /\ Goto(c, "return")
  /\ entry' = [entry EXCEPT ![call[c].fn].arc_head = call[c].arc]
  /\ PIE' = call[c].context
  /\ UNCHANGED <<fn_head, arc, made>>

\* The end of the routine's interrupt turns interrupts on again.
Return(c) ==
  /\ At(c, "return")
  /\ PIE' = IF c = "routine" THEN TRUE ELSE PIE
  /\ Step(c, [Idle EXCEPT !.calls = call[c].calls])
  /\ made' = [made EXCEPT ![<<call[c].self, call[c].from>>] = @ + 1]
  /\ UNCHANGED <<fn_head, entry, arc>>

Init ==
  /\ fn_head = NULL /\ entry = <<>> /\ arc = <<>> /\ PIE = TRUE
  /\ call = [c \in Caller |-> Idle] /\ made = [p \in Function \X Site |-> 0]

Next == \E c \in Caller :
  \/ \E self \in Function, from \in Site : mcount(c, self, from)
  \/ FindFunction(c) \/ FindArc(c) \/ LoadCount(c) \/ StoreCount(c)
  \/ Record(c) \/ NewFunction(c) \/ LinkFunction(c) \/ NewArc(c) \/ LinkArc(c) \/ Return(c)

Spec == Init /\ [][Next]_vars /\ WF_vars(Next)

-----------------------------------------------------------------------------
\* The entries from e on, and the arcs from a on, as the host reads them.
Entries[e \in 0..Len(entry)] == IF e = NULL THEN {} ELSE {e} \cup Entries[entry[e].next]
Arcs[a \in 0..Len(arc)] == IF a = NULL THEN {} ELSE {a} \cup Arcs[arc[a].next]
Copies(self, from) ==
  UNION {{a \in Arcs[entry[e].arc_head] : arc[a].from_pc = from} :
         e \in {f \in Entries[fn_head] : entry[f].self_pc = self}}
Counted(self, from) == MapThenSumSet(LAMBDA a : arc[a].count, Copies(self, from))

\* Lists lead to older blocks only, so that they end, and mcount may follow the
\* first arc of an entry without a look: "There will always be at least one arc"
\* (alt_mcount.S:78).
TypeOK ==
  /\ fn_head \in 0..Len(entry) /\ PIE \in BOOLEAN
  /\ \A e \in DOMAIN entry : entry[e].next < e /\ entry[e].arc_head \in 0..Len(arc)
  /\ \A a \in DOMAIN arc : arc[a].next < a /\ arc[a].count \in 1..(2 * MaxCalls)
  /\ \A c \in Caller : call[c].at = "arcs" => call[c].arc # NULL

\* No call goes unrecorded, whatever broke into it, and none is recorded that
\* was not made.
Recorded ==
  \A self \in Function, from \in Site :
    /\ made[self, from] > 0 => Copies(self, from) # {}
    /\ (\A c \in Caller : call[c].at = "idle") => Counted(self, from) <= made[self, from]

\* Every call of mcount returns.
McountReturns == \A c \in Caller : call[c].at # "idle" ~> call[c].at = "idle"

\* "The number of times this arc is executed is recorded in the field count"
\* (alt_gmon.c:52-53).
CountsCalls ==
  (\A c \in Caller : call[c].at = "idle") =>
    \A self \in Function, from \in Site : Counted(self, from) = made[self, from]

\* "there is an edge case which will leave two copies of the same arc on the
\* list (both with count=1)" (alt_gmon.c:178-179): two, and no more.
TwoCopies == \A self \in Function, from \in Site : Cardinality(Copies(self, from)) <= 2
=============================================================================
