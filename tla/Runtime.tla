------------------------------ MODULE Runtime ------------------------------
(***************************************************************************)
(* The support code in which routines, callbacks, a host or a cache come   *)
(* between the program's steps.  These parts do not talk to one another: a *)
(* behaviour runs one of them, part, from its start, and the others keep   *)
(* still.  Each has its own variables, constants and module.               *)
(***************************************************************************)
EXTENDS Naturals

Parts == {"console", "alarms", "interrupts", "polling", "profiler"}
CONSTANT Null      \* no pointer
VARIABLE part      \* the part that runs

\* The small JTAG UART driver.
CONSTANTS FIFO_DEPTH, THRESHOLD, Period, HostSends, MaxCount
VARIABLES wfifo, rfifo, ien, pause_irq, ac, connected, got, sent, polled_call, wrote, reads
consoleVars == <<wfifo, rfifo, ien, pause_irq, ac, connected, got, sent, polled_call, wrote, reads>>
Console == INSTANCE JtagUartPolled WITH call <- polled_call

CONSTANTS UserAlarm, Wrap, MaxDelay, StopsOthers, ListHead
VARIABLES tick_rate, nticks, list, time, rollover, alarm, left
alarmVars == <<tick_rate, nticks, list, time, rollover, alarm, left>>
Alarm == INSTANCE Alarms WITH Alarm <- UserAlarm, Head <- ListHead

CONSTANTS Source, Isr, clock_irq
VARIABLES line, posted, due, ienable, alt_irq_active, asked, status_PIE, alt_irq, stack
interruptVars == <<line, posted, due, ienable, alt_irq_active, asked, status_PIE, alt_irq, stack>>
Irq == INSTANCE Interrupts WITH PIE <- status_PIE

VARIABLES START, DONE, phase, aes_line, aes_dirty, pc
pollingVars == <<START, DONE, phase, aes_line, aes_dirty, pc>>
Polling == INSTANCE CachedAes WITH line <- aes_line, dirty <- aes_dirty

CONSTANTS Function, Site, MaxCalls
VARIABLES fn_head, entry, arc, mcount_PIE, mcount_call, made
profilerVars == <<fn_head, entry, arc, mcount_PIE, mcount_call, made>>
Profiler == INSTANCE Profiling WITH PIE <- mcount_PIE, call <- mcount_call

ASSUME RuntimeAssumption ==
  /\ Console!PolledAssumption /\ Console!DeviceAssumption /\ Alarm!AlarmAssumption
  /\ Irq!InterruptAssumption /\ Profiler!ProfilingAssumption

-----------------------------------------------------------------------------
vars == <<part, consoleVars, alarmVars, interruptVars, pollingVars, profilerVars>>

\* A step of part p.
In(p) ==
  /\ part = p /\ UNCHANGED part
  /\ p # "console" => UNCHANGED consoleVars
  /\ p # "alarms" => UNCHANGED alarmVars
  /\ p # "interrupts" => UNCHANGED interruptVars
  /\ p # "polling" => UNCHANGED pollingVars
  /\ p # "profiler" => UNCHANGED profilerVars

\* Of the several starts of a part one will do when another part runs.
Init ==
  /\ part \in Parts
  /\ Console!Init /\ Alarm!Init /\ Irq!Init /\ Polling!Init /\ Profiler!Init
  /\ part # "console" => connected

Next ==
  \/ In("console") /\ Console!Next
  \/ In("alarms") /\ Alarm!Next
  \/ In("interrupts") /\ Irq!Next
  \/ In("polling") /\ Polling!Next
  \/ In("profiler") /\ Profiler!Next

\* The fairness of the parts' own specifications.
Fairness ==
  /\ WF_vars(In("console") /\ Console!Working)
  /\ WF_vars(In("console") /\ Console!Take /\ Console!Host)
  /\ WF_vars(In("console") /\ Console!Send /\ Console!Host)
  /\ WF_vars(In("alarms") /\ Alarm!Tick)
  /\ WF_vars(In("alarms") /\ (Alarm!Pass \/ Alarm!Callback))
  /\ WF_vars(In("interrupts") /\ Irq!Deliver)
  /\ WF_vars(In("interrupts") /\ (Irq!Dispatching \/ Irq!Routine \/ Irq!Call))
  /\ WF_vars(In("polling") /\ Polling!Start)
  /\ WF_vars(In("polling") /\ Polling!Poll)
  /\ WF_vars(In("polling") /\ Polling!Stop)
  /\ WF_vars(In("polling") /\ Polling!Take)
  /\ WF_vars(In("polling") /\ Polling!Complete)
  /\ WF_vars(In("polling") /\ Polling!Release)
  /\ WF_vars(In("profiler") /\ Profiler!Next)
Spec == Init /\ [][Next]_vars /\ Fairness

-----------------------------------------------------------------------------
(***************************************************************************)
(* Properties: those of the parts, where their modules explain them.       *)
(***************************************************************************)

\* No part leaves its types: no alarm time past the width of the counter, no
\* third frame of exceptions, no list of arcs that leads back.
RuntimeTypeOK == Console!TypeOK /\ Alarm!TypeOK /\ Irq!TypeOK /\ Profiler!TypeOK

\* Console of processor B: polling neither drops, repeats nor reorders a byte
\* that is written, nor one that is read.
Streams == Console!OutputIsStream /\ Console!InputIsStream

\* Alarms: starts, stops and callbacks keep the list whole, and callbacks are
\* made in their tick and in no other.
AlarmsOnTime == Alarm!ListIntact /\ Alarm!OnTime

\* Interrupts: no exception in an exception; no search for a source that is
\* gone; no half-registered routine; no lost enable; each expiration of the
\* timer one tick.
InterruptsSafe ==
  /\ Irq!NotNested /\ Irq!AlwaysFound
  /\ Irq!RoutineWhole /\ Irq!EnabledAsAsked /\ Irq!CountedOnce

\* Profiler: no call without its arc, none counted twice.
Recorded == Profiler!Recorded

\* What runs on behalf of others comes back: alt_tick with callbacks that stop
\* their own alarms and start others, mcount with whatever is inserted before it,
\* and the calls of processor B if the host stays.
CallsReturn == Alarm!TickReturns /\ Profiler!McountReturns /\ Console!CallsReturn

\* Nobody who waits is forgotten: an alarm across the wraps of the counter, a
\* source behind one of higher priority, the poll of DONE behind a cache line
\* that is evicted again and again.
NothingForgotten == Alarm!CalledAgain /\ Irq!Served /\ Polling!PollEndsIfEvicted
=============================================================================
