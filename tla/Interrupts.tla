----------------------------- MODULE Interrupts -----------------------------
(***************************************************************************)
(* The interrupt layer of the HAL under processor A's drivers: the         *)
(* dispatcher that the exception entry calls, the calls that register,     *)
(* enable and disable a source, the locks they take, and the interrupt     *)
(* routine of the system clock, whose write to the timer is still on its   *)
(* way when the routine goes on.                                           *)
(*                                                                         *)
(* Processor code runs in frames: the program's at the bottom, one more    *)
(* for each exception.  The devices of this system hold their lines up     *)
(* until they are told: a line is lowered by the processor alone.          *)
(***************************************************************************)
EXTENDS Naturals, Sequences

CONSTANTS
  Source,          (* Interrupt numbers; 0 is the system clock's.          *)
  Isr,             (* Interrupt routines a program may register.           *)
  clock_irq,       (* alt_avalon_timer_sc_irq, the routine of source 0     *)
  Null

InterruptAssumption ==
  /\ Source \subseteq Nat /\ 0 \in Source
  /\ Null \notin Isr /\ clock_irq \notin Isr \cup {Null}

VARIABLES
  line,            (* the sources asking for an interrupt                  *)
  posted,          (* the clear of the timer's TO bit is on its way        *)
  PIE,             (* interrupts on, bit PIE of the status register        *)
  ienable,         (* the control register of that name                    *)
  alt_irq_active,  (* what it should be, in memory                         *)
  alt_irq,         (* the table of routines and their contexts             *)
  stack,           (* the frames of processor code                         *)
  asked,           (* history: the sources last asked to be enabled        *)
  due              (* history: timer expirations not counted by a tick     *)

devices == <<line, posted, due>>
control == <<ienable, alt_irq_active, asked>>
vars == <<devices, control, PIE, alt_irq, stack>>

alt_irq_pending == line \cap ienable

Places == {"main", "pending", "dispatch", "again", "ack", "dummy", "tick_lock", "tick",
           "tick_unlock", "body", "reg_lock", "handler", "context", "reg_unlock",
           "lock", "load", "store", "ienable", "unlock"}
Frame ==
  [at : Places, active : SUBSET Source, i : Source, id : Source, isr : Isr \cup {Null, clock_irq},
   register : BOOLEAN, on : BOOLEAN, outer : BOOLEAN, inner : BOOLEAN, reg : SUBSET Source]
NewFrame(place) ==
  [at |-> place, active |-> {}, i |-> 0, id |-> 0, isr |-> Null, register |-> FALSE,
   on |-> FALSE, outer |-> FALSE, inner |-> FALSE, reg |-> {}]

Top == stack[Len(stack)]
SetTop(f) == stack' = [stack EXCEPT ![Len(stack)] = f]
Goto(place) == SetTop([Top EXCEPT !.at = place])

\* An instruction of the running frame, when no interrupt is taken instead.
At(place) == Top.at = place /\ ~(PIE /\ alt_irq_pending # {})

(***************************************************************************)
(* The devices.  A timer that runs out again before the last time was      *)
(* cleared leaves no trace of it.                                          *)
(***************************************************************************)
Raise ==
  /\ \E s \in Source : /\ line' = line \cup {s}
                       /\ due' = IF s = 0 /\ 0 \notin line THEN due + 1 ELSE due
  /\ UNCHANGED <<posted, control, PIE, alt_irq, stack>>

Deliver ==
  /\ posted /\ posted' = FALSE /\ line' = line \ {0}
  /\ UNCHANGED <<due, control, PIE, alt_irq, stack>>

(***************************************************************************)
(* Locks.                                                                  *)
(***************************************************************************)
\* Mutant: interrupts stay on.
disable_all_Not == PIE' = PIE
disable_all == PIE' = FALSE
\* Mutant: interrupts come on whatever the context.
enable_all_Always(context) == PIE' = TRUE
enable_all(context) == PIE' = context

(***************************************************************************)
(* The exception entry and alt_irq_handler.                                *)
(***************************************************************************)
Interrupt ==
  /\ PIE /\ alt_irq_pending # {}
  /\ PIE' = FALSE
  /\ stack' = Append(stack, NewFrame("pending"))
  /\ UNCHANGED <<devices, control, alt_irq>>

ReadPending ==
  /\ At("pending")
  /\ SetTop([Top EXCEPT !.at = "dispatch", !.active = alt_irq_pending])
  /\ UNCHANGED <<devices, control, PIE, alt_irq>>

\* Mutant: the last source that is pending comes first.
Lowest_Last(S) == CHOOSE s \in S : \A t \in S : t <= s
Lowest(S) == CHOOSE s \in S : \A t \in S : s <= t

\* The search for a bit does not end when there is none.
Dispatch ==
  /\ At("dispatch") /\ Top.active # {}
  /\ SetTop([Top EXCEPT !.at = "ack", !.i = Lowest(Top.active)])
  /\ UNCHANGED <<devices, control, PIE, alt_irq>>

Again ==
  /\ At("again")
  /\ IF alt_irq_pending # {}
     THEN /\ SetTop([Top EXCEPT !.at = "dispatch", !.active = alt_irq_pending])
          /\ UNCHANGED PIE
     ELSE stack' = SubSeq(stack, 1, Len(stack) - 1) /\ PIE' = TRUE
  /\ UNCHANGED <<devices, control, alt_irq>>

(***************************************************************************)
(* The routines.  That of the clock counts a tick; another quiets its      *)
(* device, and may enable or disable a source.                             *)
(***************************************************************************)
Ack ==
  /\ At("ack")
  /\ IF Top.i = 0 THEN posted' = TRUE /\ Goto("dummy") /\ UNCHANGED line
                  ELSE line' = line \ {Top.i} /\ Goto("body") /\ UNCHANGED posted
  /\ UNCHANGED <<due, control, PIE, alt_irq>>

\* A read overtakes no write.
\* Mutant: no read, the routine goes straight on.
DummyRead_None ==
  /\ At("dummy") /\ Goto("tick_lock")
  /\ UNCHANGED <<devices, control, PIE, alt_irq>>
DummyRead ==
  /\ At("dummy") /\ ~posted /\ Goto("tick_lock")
  /\ UNCHANGED <<devices, control, PIE, alt_irq>>

TickLock ==
  /\ At("tick_lock") /\ disable_all
  /\ SetTop([Top EXCEPT !.at = "tick", !.inner = PIE])
  /\ UNCHANGED <<devices, control, alt_irq>>

alt_tick ==
  /\ At("tick") /\ due' = due - 1 /\ Goto("tick_unlock")
  /\ UNCHANGED <<line, posted, control, PIE, alt_irq>>

TickUnlock ==
  /\ At("tick_unlock") /\ enable_all(Top.inner) /\ Goto("again")
  /\ UNCHANGED <<devices, control, alt_irq>>

BodyEnds == At("body") /\ Goto("again") /\ UNCHANGED <<devices, control, PIE, alt_irq>>

(***************************************************************************)
(* The calls.  Registering a routine enables its source, registering NULL  *)
(* disables it; a source is enabled only once it has a routine.            *)
(***************************************************************************)
CallEnable(id, on) ==
  /\ At("main") \/ At("body")
  /\ on => alt_irq[id].handler # Null
  /\ SetTop([Top EXCEPT !.at = "lock", !.id = id, !.on = on, !.register = FALSE])
  /\ UNCHANGED <<devices, control, PIE, alt_irq>>

CallRegister(id, isr) ==
  /\ At("main")
  /\ SetTop([Top EXCEPT !.at = "reg_lock", !.id = id, !.isr = isr, !.on = isr # Null,
                        !.register = TRUE])
  /\ UNCHANGED <<devices, control, PIE, alt_irq>>

\* Mutant: the table is written with interrupts on.
RegisterLock_None ==
  /\ At("reg_lock")
  /\ SetTop([Top EXCEPT !.at = "handler", !.outer = PIE])
  /\ UNCHANGED <<devices, control, PIE, alt_irq>>
RegisterLock ==
  /\ At("reg_lock") /\ disable_all
  /\ SetTop([Top EXCEPT !.at = "handler", !.outer = PIE])
  /\ UNCHANGED <<devices, control, alt_irq>>

WriteHandler ==
  /\ At("handler") /\ Goto("context")
  /\ alt_irq' = [alt_irq EXCEPT ![Top.id].handler = Top.isr]
  /\ UNCHANGED <<devices, control, PIE>>

WriteContext ==
  /\ At("context") /\ Goto("lock")
  /\ alt_irq' = [alt_irq EXCEPT ![Top.id].context = Top.isr]
  /\ UNCHANGED <<devices, control, PIE>>

\* alt_irq_enable and alt_irq_disable: alt_irq_active is read, changed,
\* written back, and copied to the register.
Lock ==
  /\ At("lock") /\ disable_all
  /\ SetTop([Top EXCEPT !.at = "load", !.inner = PIE])
  /\ asked' = IF Top.on THEN asked \cup {Top.id} ELSE asked \ {Top.id}
  /\ UNCHANGED <<devices, ienable, alt_irq_active, alt_irq>>

Load ==
  /\ At("load")
  /\ SetTop([Top EXCEPT !.at = "store", !.reg = IF Top.on THEN alt_irq_active \cup {Top.id}
                                                ELSE alt_irq_active \ {Top.id}])
  /\ UNCHANGED <<devices, control, PIE, alt_irq>>

Store ==
  /\ At("store") /\ Goto("ienable") /\ alt_irq_active' = Top.reg
  /\ UNCHANGED <<devices, ienable, asked, PIE, alt_irq>>

WriteIenable ==
  /\ At("ienable") /\ Goto("unlock") /\ ienable' = alt_irq_active
  /\ UNCHANGED <<devices, alt_irq_active, asked, PIE, alt_irq>>

\* A routine makes one call at most.
Return == Goto(IF Len(stack) = 1 THEN "main" ELSE "again")
Unlock ==
  /\ At("unlock") /\ enable_all(Top.inner)
  /\ IF Top.register THEN Goto("reg_unlock") ELSE Return
  /\ UNCHANGED <<devices, control, alt_irq>>

RegisterUnlock ==
  /\ At("reg_unlock") /\ enable_all(Top.outer) /\ Return
  /\ UNCHANGED <<devices, control, alt_irq>>

\* alt_irq_init has turned interrupts on; the first call comes from
\* alt_avalon_timer_sc_init.
Init ==
  /\ line = {} /\ posted = FALSE /\ due = 0
  /\ PIE = TRUE /\ ienable = {} /\ alt_irq_active = {} /\ asked = {}
  /\ alt_irq = [s \in Source |-> [handler |-> Null, context |-> Null]]
  /\ stack = <<[NewFrame("reg_lock") EXCEPT !.isr = clock_irq, !.on = TRUE, !.register = TRUE]>>

Dispatching == Interrupt \/ ReadPending \/ Dispatch \/ Again
Routine == Ack \/ DummyRead \/ TickLock \/ alt_tick \/ TickUnlock \/ BodyEnds
Call == \/ RegisterLock \/ WriteHandler \/ WriteContext \/ Lock \/ Load \/ Store
        \/ WriteIenable \/ Unlock \/ RegisterUnlock

Next == \/ Raise \/ Deliver \/ Dispatching \/ Routine \/ Call
        \/ \E id \in Source, on \in BOOLEAN : CallEnable(id, on)
        \/ \E id \in Source \ {0}, isr \in Isr \cup {Null} : CallRegister(id, isr)
Spec == Init /\ [][Next]_vars
FairSpec == Spec /\ WF_vars(Deliver) /\ WF_vars(Dispatching \/ Routine \/ Call)

-----------------------------------------------------------------------------
TypeOK ==
  /\ line \subseteq Source /\ ienable \subseteq Source /\ alt_irq_active \subseteq Source
  /\ asked \subseteq Source /\ {PIE, posted} \subseteq BOOLEAN /\ due \in 0..2
  /\ alt_irq \in [Source -> [handler : Isr \cup {Null, clock_irq},
                             context : Isr \cup {Null, clock_irq}]]
  /\ Len(stack) \in 1..2 /\ stack \in Seq(Frame)

\* No exception within an exception: the locks that a routine takes put back
\* what they found, and the routine of a lower source is not broken into.
NotNested == Len(stack) <= 2 /\ (Len(stack) = 2 => ~PIE)

\* The dispatcher finds a source pending whenever it looks for one; with none
\* its search would go on for ever, and with interrupts off.
AlwaysFound == Top.at = "dispatch" => Top.active # {}

\* The routine it calls is there, and is called with its own context, however
\* often the source has been given another.
RoutineWhole ==
  Top.at = "dispatch" /\ Top.active # {} =>
    LET entry == alt_irq[Lowest(Top.active)]
    IN  entry.handler # Null /\ entry.context = entry.handler

\* Outside the locks a source is enabled if and only if the last call about it
\* said so: none is lost between the program and the routines.
Changing == {"load", "store", "ienable"}
EnabledAsAsked ==
  (\A k \in DOMAIN stack : stack[k].at \notin Changing)
    => ienable = asked /\ alt_irq_active = asked

\* Each expiration of the timer that left its trace is counted by one tick,
\* and no tick is counted twice: one is due while the TO bit is up, or has
\* been cleared by the routine on its way to alt_tick.
Counting == \E k \in DOMAIN stack :
  stack[k].at \in {"dummy", "tick_lock", "tick"} /\ (stack[k].at = "dummy" => ~posted)
CountedOnce ==
  due = (IF 0 \in line /\ ~posted THEN 1 ELSE 0)
        + (IF posted THEN 1 ELSE 0) + (IF Counting THEN 1 ELSE 0)

\* A source that is enabled and stays so is served, once those before it have
\* gone quiet, whatever calls the program makes in the meantime.
Served ==
  \A s \in Source :
    <>[](s \in ienable /\ line \cap 0..(s - 1) = {}) => []<>(s \notin line)
=============================================================================
