------------------------------- MODULE Alarms -------------------------------
(***************************************************************************)
(* The alarms of the HAL: alt_alarm_start and alt_alarm_stop, called by    *)
(* the program and by callbacks, and alt_tick, which the timer interrupt   *)
(* runs.  They share a doubly linked list, a tick counter that wraps, and  *)
(* for each alarm a time with a flag for "only after the wrap".            *)
(*                                                                         *)
(* Start, stop and alt_tick run with interrupts off.  A step of alt_tick   *)
(* is the visit of one alarm, its callback with the calls that makes       *)
(* included.                                                               *)
(***************************************************************************)
EXTENDS Naturals, FiniteSets

CONSTANTS
  Alarm,           (* The alarm structures of the program.                 *)
  Wrap,            (* alt_u32 counts modulo Wrap.                          *)
  MaxDelay,        (* The longest delay alt_alarm_start is given.          *)
  StopsOthers,     (* Whether a callback may stop another's alarm.         *)
  Head, Null       (* The list head, and a pointer not set yet.            *)

AlarmAssumption ==
  /\ Wrap \in Nat /\ Wrap > 1 /\ MaxDelay \in 0..(Wrap - 1)
  /\ StopsOthers \in BOOLEAN
  /\ Head \notin Alarm /\ Null \notin Alarm \cup {Head} /\ Null \notin Nat

VARIABLES
  tick_rate,       (* whether the system clock has been set up             *)
  nticks,          (* _alt_nticks                                          *)
  list,            (* the list: next and previous of each entry            *)
  time, rollover,
  alarm,           (* where alt_tick is; Head when it is not running       *)
  left             (* history: ticks until the callback is due, or Null    *)

vars == <<tick_rate, nticks, list, time, rollover, alarm, left>>

Entry == Alarm \cup {Head}
registered == {a \in Alarm : left[a] # Null}

\* Mutant: the entry's neighbours are joined, but it keeps its own links.
Remove_KeepsLinks(l, e) ==
  [next |-> [l.next EXCEPT ![l.previous[e]] = l.next[e]],
   previous |-> [l.previous EXCEPT ![l.next[e]] = l.previous[e]]]
Remove(l, e) ==
  [next |-> [[l.next EXCEPT ![l.previous[e]] = l.next[e]] EXCEPT ![e] = e],
   previous |-> [[l.previous EXCEPT ![l.next[e]] = l.previous[e]] EXCEPT ![e] = e]]

\* Mutant: the old first entry is not told.
Insert_OneWay(l, e) ==
  [next |-> [l.next EXCEPT ![e] = l.next[Head], ![Head] = e],
   previous |-> [l.previous EXCEPT ![e] = Head]]
Insert(l, e) ==
  [next |-> [l.next EXCEPT ![e] = l.next[Head], ![Head] = e],
   previous |-> [l.previous EXCEPT ![e] = Head, ![l.next[Head]] = e]]

(***************************************************************************)
(* The calls, as what they make of the list, the times and the flags.      *)
(***************************************************************************)
State == [list |-> list, time |-> time, rollover |-> rollover, left |-> left]

\* Mutant: the sum is not cut to the width of the counter.
Started_Wide(s, a, n) ==
  LET t == n + nticks + 1
  IN  [s EXCEPT !.list = Insert(@, a), !.time[a] = t, !.rollover[a] = t < nticks,
                !.left[a] = n + 1]
Started(s, a, n) ==
  LET t == (n + nticks + 1) % Wrap
  IN  [s EXCEPT !.list = Insert(@, a), !.time[a] = t, !.rollover[a] = t < nticks,
                !.left[a] = n + 1]

Stopped(s, a) == [s EXCEPT !.list = Remove(@, a), !.left[a] = Null]

\* What alt_tick does with what the callback returned.
\* Mutant: the flag is left as it was.
Returned_NoFlag(s, a, period) ==
  IF period = 0 THEN Stopped(s, a)
  ELSE [s EXCEPT !.time[a] = (time[a] + period) % Wrap, !.left[a] = period]
Returned(s, a, period) ==
  IF period = 0 THEN Stopped(s, a)
  ELSE LET t == (time[a] + period) % Wrap
       IN  [s EXCEPT !.time[a] = t, !.rollover[a] = @ \/ t < nticks, !.left[a] = period]

Becomes(s) ==
  /\ list' = s.list /\ time' = s.time /\ rollover' = s.rollover /\ left' = s.left
  /\ UNCHANGED <<tick_rate, nticks>>

\* An alarm is not started twice, nor stopped before it was ever started:
\* its links would be lost, or are not there.
CanStart == Alarm \ registered
CanStop == {a \in Alarm : list.next[a] # Null}

SysClkInit ==
  /\ ~tick_rate /\ tick_rate' = TRUE
  /\ UNCHANGED <<nticks, list, time, rollover, alarm, left>>

Start(a, n) ==
  /\ alarm = Head
  /\ tick_rate /\ Becomes(Started(State, a, n))
  /\ UNCHANGED alarm

Stop(a) == alarm = Head /\ Becomes(Stopped(State, a)) /\ UNCHANGED alarm

(***************************************************************************)
(* alt_tick.                                                               *)
(***************************************************************************)
Tick ==
  /\ tick_rate /\ alarm = Head
  /\ nticks' = (nticks + 1) % Wrap
  /\ alarm' = list.next[Head]
  /\ left' = [a \in Alarm |-> IF left[a] \in Nat \ {0} THEN left[a] - 1 ELSE left[a]]
  /\ UNCHANGED <<tick_rate, list, time, rollover>>

Rollover(a) == rollover[a] /\ nticks # 0
\* Mutant: due only when the counter shows the very time.
Due_Exactly(a) == time[a] = nticks /\ ~Rollover(a) /\ nticks # 0
Due(a) == time[a] <= nticks /\ ~Rollover(a)

\* The state once rollover has been cleared, if it is to be.
Visited(a) == [State EXCEPT !.rollover[a] = Rollover(a)]

Pass ==
  /\ alarm \in Alarm /\ ~Due(alarm)
  /\ Becomes(Visited(alarm))
  /\ alarm' = list.next[alarm]

\* The calls a callback may make: none, stop its own alarm and say so by
\* returning 0, stop another, start another.
Callback ==
  /\ alarm \in Alarm /\ Due(alarm)
  /\ \/ \E period \in 0..(Wrap - 1) : Becomes(Returned(Visited(alarm), alarm, period))
     \/ Becomes(Returned(Stopped(Visited(alarm), alarm), alarm, 0))
     \/ \E a \in CanStop \ {alarm} :
          StopsOthers /\ Becomes(Returned(Stopped(Visited(alarm), a), alarm, 0))
     \/ \E a \in CanStart \ {alarm}, n \in 0..MaxDelay, period \in 0..1 :
          Becomes(Returned(Started(Visited(alarm), a, n), alarm, period))
  /\ alarm' = list.next[alarm]

Init ==
  /\ tick_rate = FALSE
  /\ nticks = 0
  /\ list = [next     |-> [e \in Entry |-> IF e = Head THEN Head ELSE Null],
             previous |-> [e \in Entry |-> IF e = Head THEN Head ELSE Null]]
  /\ time = [a \in Alarm |-> 0] /\ rollover = [a \in Alarm |-> FALSE]
  /\ alarm = Head
  /\ left = [a \in Alarm |-> Null]

Next == \/ SysClkInit \/ Tick \/ Pass \/ Callback
        \/ \E a \in CanStart, n \in 0..MaxDelay : Start(a, n)
        \/ \E a \in CanStop : Stop(a)
Spec == Init /\ [][Next]_vars

\* The timer keeps ticking, and alt_tick runs on.
FairSpec == Spec /\ WF_vars(Tick) /\ WF_vars(Pass \/ Callback)

-----------------------------------------------------------------------------
TypeOK ==
  /\ tick_rate \in BOOLEAN
  /\ nticks \in 0..(Wrap - 1)
  /\ list \in [next : [Entry -> Entry \cup {Null}], previous : [Entry -> Entry \cup {Null}]]
  /\ time \in [Alarm -> 0..(Wrap - 1)] /\ rollover \in [Alarm -> BOOLEAN]
  /\ alarm \in Entry
  /\ left \in [Alarm -> (0..Wrap) \cup {Null}]

\* The list holds the registered alarms, each once: following next from the
\* head meets all of them and comes back, and previous leads the same way
\* back.  Removing twice, which a callback that stops its own alarm and
\* returns 0 does, changes nothing.
Reach[n \in Nat] == IF n = 0 THEN Head ELSE list.next[Reach[n - 1]]
ListIntact ==
  /\ {Reach[n] : n \in 0..Cardinality(registered)} = registered \cup {Head}
  /\ Reach[Cardinality(registered) + 1] = Head
  /\ \A e \in registered \cup {Head} : list.previous[list.next[e]] = e

\* alt_alarm_start.c:84-88: when "the desired alarm time causes a roll-over",
\* the flag "will prevent the subsequent tick event from causing an alarm too
\* early".  No alarm is called before its time.
NeverEarly == alarm \in registered /\ Due(alarm) => left[alarm] = 0

\* A callback is made in the tick it is due and in no other, across the wrap
\* of the counter: never early, and none left over when alt_tick returns.
OnTime == NeverEarly /\ (alarm = Head => \A a \in registered : left[a] > 0)

\* alt_tick comes to the end of the list, in interrupt context, though callbacks
\* stop their own alarms, twice even, and start others.  A callback that stops the
\* next alarm has that one's links, which lead to itself, followed for ever.
TickReturns == []<>(alarm = Head)

\* An alarm that stays registered is called again and again: none is passed
\* over for a turn of the counter.
CalledAgain == \A a \in Alarm :
  (a \in registered) ~> (a \notin registered \/ (alarm = a /\ Due(a)))

\* sys/alt_alarm.h:73, "alt_alarm_stop() is used to unregister a callback".
NotCalledOnceStopped == alarm \in Alarm /\ Due(alarm) => alarm \in registered
=============================================================================
