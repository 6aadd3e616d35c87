--------------------------- MODULE Runtime_proofs ---------------------------
(***************************************************************************)
(* The support code in which something comes between the program's steps,  *)
(* for any number of sources, routines, alarms, bytes and calls.           *)
(***************************************************************************)
EXTENDS Runtime, SetSums_proofs, SequenceTheorems

-----------------------------------------------------------------------------
(***************************************************************************)
(* Interrupts.  The invariant: what a frame may be at and has in its       *)
(* locals, and when interrupts are on.  The routine is only ever above a   *)
(* program that is outside the locks, so that at most one frame, the top,  *)
(* is within them.                                                         *)
(***************************************************************************)
Open(f) == f.at \in {"main", "reg_lock"} \/ (f.at = "lock" /\ ~f.register)
Locked == {"load", "store", "ienable", "unlock"}
Registering == {"handler", "context", "reg_unlock"}
Serving == {"pending", "dispatch", "again", "ack", "dummy", "tick_lock", "tick", "tick_unlock",
            "body"}

ProgramFrame(f) ==
  /\ f.at \notin Serving
  /\ f.at \in Registering \cup {"reg_lock"} => f.register
  /\ f.register /\ f.at \in Registering \cup Locked \cup {"lock"} => f.outer
  /\ f.at \in Locked => (f.inner <=> ~f.register)
  /\ f.register => (f.on <=> f.isr # Null)

RoutineFrame(f) ==
  /\ f.at \in Serving \cup Locked \cup {"lock"} /\ ~f.register
  /\ f.at \in Locked \cup {"tick", "tick_unlock"} => ~f.inner

InRoutine == Len(stack) = 2
Frames ==
  /\ ProgramFrame(stack[1])
  /\ Open(stack[1]) <=> InRoutine \/ status_PIE
  /\ InRoutine => RoutineFrame(stack[2]) /\ ~status_PIE

\* From the lock on, what is to be enabled is on its way to the register.
Enabling(f) ==
  /\ f.at \notin Irq!Changing => ienable = asked /\ alt_irq_active = asked
  /\ f.at = "load" => asked = IF f.on THEN alt_irq_active \cup {f.id} ELSE alt_irq_active \ {f.id}
  /\ f.at = "store" => asked = f.reg
  /\ f.at = "ienable" => asked = alt_irq_active

\* The table: only a source that is being registered may be half written, or be
\* enabled without a routine.
Removing(f, s) == f.register /\ f.at \in {"context", "lock"} /\ f.id = s /\ f.isr = Null
Entering(f) ==
  /\ f.at = "context" \/ (f.at = "lock" /\ f.register) => alt_irq[f.id].handler = f.isr
  /\ f.at = "lock" /\ f.on => alt_irq[f.id].handler # Null
Table ==
  /\ \A s \in Source :
       /\ alt_irq[s].context = alt_irq[s].handler \/ (stack[1].at = "context" /\ stack[1].id = s)
       /\ s \in asked => alt_irq[s].handler # Null \/ Removing(stack[1], s)
  /\ Entering(stack[1]) /\ (InRoutine => Entering(stack[2]))

\* The sources the dispatcher has in mind are still asking.
Found(f) ==
  /\ f.at = "pending" => line \cap ienable # {}
  /\ f.at = "dispatch" => f.active # {} /\ f.active \subseteq line \cap ienable
  /\ f.at = "ack" => f.i \in line

\* A clear on its way has its routine waiting for it.
Posted == posted => InRoutine /\ stack[2].at = "dummy" /\ 0 \in line

IrqInv ==
  /\ Irq!TypeOK /\ Frames /\ Table /\ Enabling(Irq!Top) /\ Found(Irq!Top)
  /\ Posted /\ Irq!CountedOnce

-----------------------------------------------------------------------------
LEMMA FrameFields ==
  ASSUME NEW f \in Irq!Frame
  PROVE  /\ f.at \in Irq!Places /\ f.active \subseteq Source /\ f.i \in Source /\ f.id \in Source
         /\ f.isr \in Isr \cup {Null, clock_irq} /\ f.reg \subseteq Source
         /\ f.register \in BOOLEAN /\ f.on \in BOOLEAN /\ f.outer \in BOOLEAN
         /\ f.inner \in BOOLEAN
BY DEF Irq!Frame

LEMMA TopFrame ==
  ASSUME Irq!TypeOK
  PROVE  /\ Len(stack) \in {1, 2} /\ stack \in Seq(Irq!Frame)
         /\ stack[1] \in Irq!Frame /\ Irq!Top \in Irq!Frame
         /\ InRoutine => stack[2] \in Irq!Frame /\ Irq!Top = stack[2]
         /\ ~InRoutine => Irq!Top = stack[1]
BY DEF Irq!TypeOK, Irq!Top, InRoutine

\* An instruction changes its own frame.
LEMMA SetTopFrame ==
  ASSUME Irq!TypeOK, NEW f \in Irq!Frame, Irq!SetTop(f)
  PROVE  /\ stack' \in Seq(Irq!Frame) /\ Len(stack') = Len(stack) /\ (InRoutine' <=> InRoutine)
         /\ Irq!Top' = f
         /\ InRoutine => stack'[1] = stack[1] /\ stack'[2] = f
         /\ ~InRoutine => stack'[1] = f
BY TopFrame DEF Irq!SetTop, InRoutine, Irq!Top

\* Whether a tick is being counted is seen from the running frame.
Ticking(f) == f.at \in {"dummy", "tick_lock", "tick"} /\ (f.at = "dummy" => ~posted)
LEMMA CountingTop ==
  ASSUME Irq!TypeOK, Frames PROVE Irq!Counting <=> InRoutine /\ Ticking(Irq!Top)
<1>1. DOMAIN stack = 1..Len(stack)
  BY TopFrame
<1>2. stack[1].at \notin {"dummy", "tick_lock", "tick"}
  BY DEF Frames, ProgramFrame, Serving
<1> QED
  BY <1>1, <1>2, TopFrame DEF Irq!Counting, Ticking, InRoutine

(***************************************************************************)
(* What an instruction that makes its frame f has to show.                 *)
(***************************************************************************)
Due(f) ==
  due = (IF 0 \in line /\ ~posted THEN 1 ELSE 0) + (IF posted THEN 1 ELSE 0)
        + (IF InRoutine /\ Ticking(f) THEN 1 ELSE 0)

LEMMA InstructionInv ==
  ASSUME IrqInv, NEW f \in Irq!Frame, Irq!SetTop(f),
         line' \in SUBSET Source, ienable' \in SUBSET Source, alt_irq_active' \in SUBSET Source,
         asked' \in SUBSET Source, status_PIE' \in BOOLEAN, posted' \in BOOLEAN,
         alt_irq' \in [Source -> [handler : Isr \cup {Null, clock_irq},
                                  context : Isr \cup {Null, clock_irq}]],
         InRoutine => RoutineFrame(f) /\ ~status_PIE',
         ~InRoutine => ProgramFrame(f) /\ (Open(f) <=> status_PIE'),
         Enabling(f)', Found(f)', Table', posted' => InRoutine /\ f.at = "dummy" /\ 0 \in line',
         Due(f)'
  PROVE  IrqInv'
<1>1. /\ stack' \in Seq(Irq!Frame) /\ Len(stack') = Len(stack) /\ (InRoutine' <=> InRoutine)
      /\ Irq!Top' = f
      /\ InRoutine => stack'[1] = stack[1] /\ stack'[2] = f
      /\ ~InRoutine => stack'[1] = f
  BY SetTopFrame DEF IrqInv
<1>2. Irq!TypeOK'
  BY <1>1, TopFrame DEF IrqInv, Irq!TypeOK, Due
<1>3. Frames'
  BY <1>1 DEF Frames, IrqInv
<1>4. Posted'
  BY <1>1 DEF Posted
<1>5. Irq!CountedOnce'
  <2>1. Irq!Counting' <=> InRoutine' /\ Ticking(Irq!Top)'
    BY <1>2, <1>3, CountingTop, PTL
  <2> QED  BY <1>1, <2>1 DEF Irq!CountedOnce, Due, Ticking
<1> QED  BY <1>1, <1>2, <1>3, <1>4, <1>5 DEF IrqInv

LEMMA IrqFacts ==
  ASSUME IrqInv
  PROVE  /\ Irq!Top \in Irq!Frame
         /\ InRoutine => RoutineFrame(Irq!Top) /\ ~status_PIE /\ Irq!Top = stack[2]
         /\ InRoutine => Open(stack[1])
         /\ ~InRoutine => ProgramFrame(Irq!Top) /\ (Open(Irq!Top) <=> status_PIE)
                         /\ Irq!Top = stack[1]
         /\ Enabling(Irq!Top) /\ Found(Irq!Top) /\ Due(Irq!Top) /\ Table
         /\ posted => InRoutine /\ Irq!Top.at = "dummy" /\ 0 \in line
         /\ line \in SUBSET Source /\ ienable \in SUBSET Source
         /\ alt_irq_active \in SUBSET Source /\ asked \in SUBSET Source
         /\ status_PIE \in BOOLEAN /\ posted \in BOOLEAN
         /\ alt_irq \in [Source -> [handler : Isr \cup {Null, clock_irq},
                                    context : Isr \cup {Null, clock_irq}]]
<1>1. Irq!Counting <=> InRoutine /\ Ticking(Irq!Top)
  BY CountingTop DEF IrqInv
<1> QED
  BY <1>1, TopFrame DEF IrqInv, Frames, Posted, Irq!TypeOK, Irq!CountedOnce, Due

LEMMA IrqReadPending == ASSUME IrqInv, Irq!ReadPending PROVE IrqInv'
<1>1. PICK f \in Irq!Frame :
        f = [Irq!Top EXCEPT !.at = "dispatch", !.active = Irq!alt_irq_pending]
  BY IrqFacts DEF Irq!Frame, Irq!alt_irq_pending, Irq!Places
<1>2. /\ Irq!SetTop(f) /\ Irq!Top.at = "pending"
      /\ UNCHANGED <<line, posted, due, ienable, alt_irq_active, asked, status_PIE, alt_irq>>
  BY <1>1 DEF Irq!ReadPending, Irq!At, Irq!devices, Irq!control
<1>3. /\ f.at = "dispatch" /\ f.active = line \cap ienable
      /\ f.register = Irq!Top.register /\ f.inner = Irq!Top.inner
  BY <1>1, IrqFacts DEF Irq!Frame, Irq!alt_irq_pending
<1>4. InRoutine
  BY <1>2, IrqFacts DEF ProgramFrame, Serving
<1>5. RoutineFrame(f)
  BY <1>3, <1>4, IrqFacts DEF RoutineFrame, Serving, Locked
<1>6. Enabling(f)' /\ Found(f)' /\ Due(f)'
  BY <1>2, <1>3, <1>4, IrqFacts DEF Enabling, Found, Due, Ticking, Irq!Changing, InRoutine
<1>7. Table'
  BY <1>2, <1>3, <1>4, IrqFacts, SetTopFrame DEF Table, Entering, IrqInv, Removing
<1> QED
  BY <1>2, <1>3, <1>4, <1>5, <1>6, <1>7, IrqFacts, InstructionInv

LEMMA LowestIs ==
  ASSUME NEW S \in SUBSET Source, S # {} PROVE Irq!Lowest(S) \in S
<1>1. S \in SUBSET Nat
  BY RuntimeAssumption DEF Irq!InterruptAssumption
<1> QED  BY <1>1, SmallestOf DEF Irq!Lowest

\* An instruction of the routine that leaves the table alone.
LEMMA RoutineTable ==
  ASSUME IrqInv, InRoutine, NEW f \in Irq!Frame, Irq!SetTop(f), UNCHANGED <<alt_irq, asked>>,
         Entering(f)
  PROVE  Table'
BY IrqFacts, SetTopFrame DEF Table, Entering, IrqInv, Removing

LEMMA IrqDispatch == ASSUME IrqInv, Irq!Dispatch PROVE IrqInv'
<1>1. Irq!Top.at = "dispatch" /\ Irq!Lowest(Irq!Top.active) \in line
  BY IrqFacts, FrameFields, LowestIs DEF Irq!Dispatch, Irq!At, Found
<1>2. PICK f \in Irq!Frame : f = [Irq!Top EXCEPT !.at = "ack", !.i = Irq!Lowest(Irq!Top.active)]
  BY <1>1, IrqFacts DEF Irq!Frame, Irq!Places
<1>3. /\ Irq!SetTop(f)
      /\ UNCHANGED <<line, posted, due, ienable, alt_irq_active, asked, status_PIE, alt_irq>>
  BY <1>2 DEF Irq!Dispatch, Irq!devices, Irq!control
<1>4. /\ f.at = "ack" /\ f.i \in line
      /\ f.register = Irq!Top.register /\ f.inner = Irq!Top.inner
  BY <1>1, <1>2, IrqFacts DEF Irq!Frame
<1>5. InRoutine
  BY <1>1, IrqFacts DEF ProgramFrame, Serving
<1>6. RoutineFrame(f) /\ Entering(f)
  BY <1>4, <1>5, IrqFacts DEF RoutineFrame, Serving, Locked, Entering
<1>7. Enabling(f)' /\ Found(f)' /\ Due(f)'
  BY <1>1, <1>3, <1>4, IrqFacts DEF Enabling, Found, Due, Ticking, Irq!Changing
<1>8. Table'
  BY <1>3, <1>5, <1>6, RoutineTable
<1> QED
  BY <1>1, <1>3, <1>4, <1>5, <1>6, <1>7, <1>8, IrqFacts, InstructionInv

\* An exception puts a frame on that of the program.
LEMMA Pushed ==
  ASSUME NEW S, NEW s \in Seq(S), Len(s) = 1, NEW e \in S
  PROVE  /\ Append(s, e) \in Seq(S) /\ Len(Append(s, e)) = 2
         /\ Append(s, e)[1] = s[1] /\ Append(s, e)[2] = e
<1>1. Append(s, e) \in Seq(S) /\ Len(Append(s, e)) = 2
  OBVIOUS
<1>2. Append(s, e)[1] = s[1]
  OBVIOUS
<1>3. Append(s, e)[2] = e
  <2>1. Append(s, e)[Len(s) + 1] = e
    BY AppendProperties
  <2>2. Len(s) + 1 = 2
    OBVIOUS
  <2> QED  BY <2>1, <2>2, Zenon
<1> QED  BY <1>1, <1>2, <1>3

\* Interrupts are taken outside the locks, and end there.
LEMMA IrqInterrupt == ASSUME IrqInv, Irq!Interrupt PROVE IrqInv'
<1>1. /\ status_PIE /\ line \cap ienable # {} /\ status_PIE' = FALSE
      /\ stack' = Append(stack, Irq!NewFrame("pending"))
      /\ UNCHANGED <<line, posted, due, ienable, alt_irq_active, asked, alt_irq>>
  BY DEF Irq!Interrupt, Irq!devices, Irq!control, Irq!alt_irq_pending
<1>2. PICK f \in Irq!Frame : f = Irq!NewFrame("pending")
  BY RuntimeAssumption DEF Irq!NewFrame, Irq!Frame, Irq!Places, Irq!InterruptAssumption
<1>3. f.at = "pending" /\ f.register = FALSE
  BY <1>2 DEF Irq!NewFrame
<1>4. ~InRoutine /\ Irq!Top = stack[1] /\ Open(stack[1]) /\ Len(stack) = 1
  <2>1. ~InRoutine
    BY <1>1, IrqFacts
  <2> QED  BY <1>1, <2>1, IrqFacts, TopFrame DEF IrqInv, InRoutine
<1>5. /\ stack' \in Seq(Irq!Frame) /\ Len(stack') = 2 /\ InRoutine' /\ Irq!Top' = f
      /\ stack'[1] = stack[1] /\ stack'[2] = f
  <2>1. stack \in Seq(Irq!Frame)
    BY TopFrame DEF IrqInv
  <2>2. f \in Irq!Frame /\ stack' = Append(stack, f)
    BY <1>1, <1>2
  <2>3. /\ stack' \in Seq(Irq!Frame) /\ Len(stack') = 2
        /\ stack'[1] = stack[1] /\ stack'[2] = f
    BY <1>4, <2>1, <2>2, Pushed
  <2> QED  BY <2>3 DEF InRoutine, Irq!Top
<1>6. Irq!TypeOK'
  <2>1. Len(stack') \in 1..2 /\ stack' \in Seq(Irq!Frame)
    BY <1>5
  <2> QED  BY <1>1, <2>1 DEF IrqInv, Irq!TypeOK
<1>7. Frames'
  <2>1. RoutineFrame(f)
    BY <1>3 DEF RoutineFrame, Serving, Locked
  <2> QED  BY <1>1, <1>4, <1>5, <2>1, IrqFacts DEF Frames
<1>8. Table'
  BY <1>1, <1>3, <1>4, <1>5, IrqFacts DEF Table, Entering, Removing
<1>9. Enabling(f)' /\ Found(f)'
  BY <1>1, <1>3, <1>4, IrqFacts DEF Enabling, Found, Irq!Changing, Open
<1>10. Posted'
  BY <1>1, <1>4, IrqFacts DEF Posted
<1>11. Irq!CountedOnce'
  <2>1. Irq!Counting' <=> InRoutine' /\ Ticking(Irq!Top)'
    BY <1>6, <1>7, CountingTop, PTL
  <2>2. ~Ticking(f)'
    BY <1>3 DEF Ticking
  <2> QED  BY <1>1, <1>4, <1>5, <2>1, <2>2, IrqFacts DEF Irq!CountedOnce, Due
<1> QED  BY <1>5, <1>6, <1>7, <1>8, <1>9, <1>10, <1>11 DEF IrqInv

LEMMA IrqAgain == ASSUME IrqInv, Irq!Again PROVE IrqInv'
<1>1. Irq!Top.at = "again" /\ UNCHANGED <<line, posted, due, ienable, alt_irq_active, asked, alt_irq>>
  BY DEF Irq!Again, Irq!At, Irq!devices, Irq!control
<1>2. InRoutine /\ Len(stack) = 2
  BY <1>1, IrqFacts DEF ProgramFrame, Serving, InRoutine
<1>3. CASE line \cap ienable # {}
  <2>1. PICK f \in Irq!Frame :
          f = [Irq!Top EXCEPT !.at = "dispatch", !.active = Irq!alt_irq_pending]
    BY IrqFacts DEF Irq!Frame, Irq!alt_irq_pending, Irq!Places
  <2>2. Irq!SetTop(f) /\ UNCHANGED status_PIE
    BY <1>3, <2>1 DEF Irq!Again, Irq!alt_irq_pending
  <2>3. /\ f.at = "dispatch" /\ f.active = line \cap ienable
        /\ f.register = Irq!Top.register /\ f.inner = Irq!Top.inner
    BY <2>1, IrqFacts DEF Irq!Frame, Irq!alt_irq_pending
  <2>4. RoutineFrame(f) /\ Entering(f)
    BY <2>3, <1>2, IrqFacts DEF RoutineFrame, Serving, Locked, Entering
  <2>5. Enabling(f)' /\ Found(f)' /\ Due(f)'
    BY <1>1, <1>3, <2>3, IrqFacts DEF Enabling, Found, Due, Ticking, Irq!Changing
  <2>6. Table'
    BY <1>1, <1>2, <2>2, <2>4, RoutineTable
  <2> QED
    BY <1>1, <1>2, <2>2, <2>3, <2>4, <2>5, <2>6, IrqFacts, InstructionInv
<1>4. CASE line \cap ienable = {}
  <2>1. stack' = SubSeq(stack, 1, 1) /\ status_PIE' = TRUE
    BY <1>2, <1>4 DEF Irq!Again, Irq!alt_irq_pending
  <2>2. /\ stack' \in Seq(Irq!Frame) /\ Len(stack') = 1 /\ ~InRoutine'
        /\ stack'[1] = stack[1] /\ Irq!Top' = stack[1]
    BY <1>2, <2>1, TopFrame DEF IrqInv, InRoutine, Irq!Top
  <2>3. Open(stack[1]) /\ ProgramFrame(stack[1])
    BY <1>2, IrqFacts DEF IrqInv, Frames
  <2>4. Irq!TypeOK'
    BY <1>1, <2>1, <2>2 DEF IrqInv, Irq!TypeOK
  <2>5. Frames'
    BY <2>1, <2>2, <2>3 DEF Frames
  <2>6. Table'
    BY <1>1, <2>2, IrqFacts DEF Table, Entering, Removing
  <2>7. Enabling(stack[1])' /\ Found(stack[1])'
    BY <1>1, <2>2, <2>3, IrqFacts DEF Enabling, Found, Irq!Changing, Open
  <2>8. Posted'
    BY <1>1, IrqFacts DEF Posted
  <2>9. Irq!CountedOnce'
    <3>1. Irq!Counting' <=> InRoutine' /\ Ticking(Irq!Top)'
      BY <2>4, <2>5, CountingTop, PTL
    <3> QED  BY <1>1, <2>2, <3>1, IrqFacts DEF Irq!CountedOnce, Due, Ticking
  <2> QED  BY <2>2, <2>4, <2>5, <2>6, <2>7, <2>8, <2>9 DEF IrqInv
<1> QED  BY <1>3, <1>4

(***************************************************************************)
(* Instructions that leave the frame's locals alone, and what they keep.   *)
(***************************************************************************)
LEMMA GotoFrame ==
  ASSUME IrqInv, NEW place \in Irq!Places, Irq!Goto(place)
  PROVE  \E f \in Irq!Frame :
           /\ Irq!SetTop(f) /\ f.at = place /\ f.active = Irq!Top.active /\ f.i = Irq!Top.i
           /\ f.id = Irq!Top.id /\ f.isr = Irq!Top.isr /\ f.register = Irq!Top.register
           /\ f.on = Irq!Top.on /\ f.outer = Irq!Top.outer /\ f.inner = Irq!Top.inner
           /\ f.reg = Irq!Top.reg
<1> DEFINE f == [Irq!Top EXCEPT !.at = place]
<1>1. f \in Irq!Frame
  BY IrqFacts DEF Irq!Frame
<1>2. /\ f.at = place /\ f.active = Irq!Top.active /\ f.i = Irq!Top.i
      /\ f.id = Irq!Top.id /\ f.isr = Irq!Top.isr /\ f.register = Irq!Top.register
      /\ f.on = Irq!Top.on /\ f.outer = Irq!Top.outer /\ f.inner = Irq!Top.inner
      /\ f.reg = Irq!Top.reg
  BY IrqFacts DEF Irq!Frame
<1>3. Irq!SetTop(f)
  BY DEF Irq!Goto
<1> HIDE DEF f
<1> QED  BY <1>1, <1>2, <1>3

\* The table stays right when it is not written and no source is newly asked
\* for without a routine.
LEMMA TableKept ==
  ASSUME IrqInv, NEW f \in Irq!Frame, Irq!SetTop(f), alt_irq' = alt_irq,
         Irq!Top.at # "context", Entering(f),
         \A s \in asked' : (s \in asked /\ ~Removing(Irq!Top, s)) \/ alt_irq[s].handler # Null
  PROVE  Table'
<1>1. Entering(f)'
  BY DEF Entering
<1>2. CASE InRoutine
  <2>1. stack'[1] = stack[1] /\ stack'[2] = f /\ Open(stack[1]) /\ Table
    BY <1>2, IrqFacts, SetTopFrame DEF IrqInv
  <2> QED  BY <1>1, <1>2, <2>1 DEF Table, Entering, Removing, Open
<1>3. CASE ~InRoutine
  <2>1. stack'[1] = f /\ stack[1] = Irq!Top /\ ~InRoutine' /\ Table
    BY <1>3, IrqFacts, SetTopFrame DEF IrqInv
  <2> QED  BY <1>1, <1>3, <2>1 DEF Table
<1> QED  BY <1>2, <1>3

\* An instruction of a call has nothing to do with the devices.
LEMMA CallInv ==
  ASSUME IrqInv, NEW f \in Irq!Frame, Irq!SetTop(f), UNCHANGED <<line, posted, due>>,
         Irq!Top.at \notin Serving \ {"body"}, f.at \notin Serving \ {"body", "again"},
         ienable' \in SUBSET Source, alt_irq_active' \in SUBSET Source,
         asked' \in SUBSET Source, status_PIE' \in BOOLEAN,
         alt_irq' \in [Source -> [handler : Isr \cup {Null, clock_irq},
                                  context : Isr \cup {Null, clock_irq}]],
         InRoutine => RoutineFrame(f) /\ ~status_PIE',
         ~InRoutine => ProgramFrame(f) /\ (Open(f) <=> status_PIE'),
         Enabling(f)', Table'
  PROVE  IrqInv'
<1>1. Found(f)' /\ Due(f)'
  BY IrqFacts DEF Found, Due, Ticking, Serving
<1>2. ~posted' /\ line' \in SUBSET Source /\ posted' \in BOOLEAN
  BY IrqFacts DEF Serving
<1> QED  BY <1>1, <1>2, InstructionInv

-----------------------------------------------------------------------------
(***************************************************************************)
(* The calls, instruction by instruction.                                  *)
(***************************************************************************)
LEMMA IrqCallEnable ==
  ASSUME IrqInv, NEW id \in Source, NEW on \in BOOLEAN, Irq!CallEnable(id, on) PROVE IrqInv'
<1>1. /\ Irq!Top.at \in {"main", "body"} /\ (on => alt_irq[id].handler # Null)
      /\ UNCHANGED <<line, posted, due, ienable, alt_irq_active, asked, status_PIE, alt_irq>>
  BY DEF Irq!CallEnable, Irq!At, Irq!devices, Irq!control
<1>2. PICK f \in Irq!Frame :
        f = [Irq!Top EXCEPT !.at = "lock", !.id = id, !.on = on, !.register = FALSE]
  BY IrqFacts DEF Irq!Frame, Irq!Places
<1>3. f \in Irq!Frame /\ Irq!SetTop(f)
  BY <1>2 DEF Irq!CallEnable
<1>4. f.at = "lock" /\ f.id = id /\ f.on = on /\ f.register = FALSE
  BY <1>2, IrqFacts DEF Irq!Frame
<1>5. InRoutine => RoutineFrame(f) /\ ~status_PIE'
  BY <1>1, <1>4, IrqFacts DEF RoutineFrame, Locked
<1>6. ~InRoutine => ProgramFrame(f) /\ (Open(f) <=> status_PIE')
  BY <1>1, <1>4, IrqFacts DEF ProgramFrame, Open, Serving, Locked, Registering
<1>7. Enabling(f)' /\ Entering(f)
  BY <1>1, <1>4, IrqFacts DEF Enabling, Irq!Changing, Entering
<1>8. Table'
  <2>1. \A s \in asked' : (s \in asked /\ ~Removing(Irq!Top, s)) \/ alt_irq[s].handler # Null
    BY <1>1 DEF Removing
  <2> QED  BY <1>1, <1>3, <1>7, <2>1, TableKept
<1> QED
  <2>1. Irq!Top.at \notin Serving \ {"body"} /\ f.at \notin Serving \ {"body", "again"}
    BY <1>1, <1>4 DEF Serving
  <2> QED  BY <1>1, <1>3, <1>5, <1>6, <1>7, <1>8, <2>1, IrqFacts, CallInv

LEMMA IrqCallRegister ==
  ASSUME IrqInv, NEW id \in Source, NEW isr \in Isr \cup {Null}, Irq!CallRegister(id, isr)
  PROVE  IrqInv'
<1>1. /\ Irq!Top.at = "main"
      /\ UNCHANGED <<line, posted, due, ienable, alt_irq_active, asked, status_PIE, alt_irq>>
  BY DEF Irq!CallRegister, Irq!At, Irq!devices, Irq!control
<1>2. PICK f \in Irq!Frame :
        f = [Irq!Top EXCEPT !.at = "reg_lock", !.id = id, !.isr = isr, !.on = isr # Null,
                            !.register = TRUE]
  BY IrqFacts DEF Irq!Frame, Irq!Places
<1>3. f \in Irq!Frame /\ Irq!SetTop(f)
  BY <1>2 DEF Irq!CallRegister
<1>4. f.at = "reg_lock" /\ f.isr = isr /\ f.on = (isr # Null) /\ f.register = TRUE
  BY <1>2, IrqFacts DEF Irq!Frame
<1>5. ~InRoutine /\ status_PIE
  BY <1>1, IrqFacts DEF RoutineFrame, Serving, Locked, Open
<1>6. ProgramFrame(f) /\ Open(f) /\ Enabling(f)' /\ Entering(f)
  BY <1>1, <1>4, IrqFacts
  DEF ProgramFrame, Open, Serving, Locked, Registering, Enabling, Irq!Changing, Entering
<1>7. Table'
  <2>1. \A s \in asked' : (s \in asked /\ ~Removing(Irq!Top, s)) \/ alt_irq[s].handler # Null
    BY <1>1 DEF Removing
  <2> QED  BY <1>1, <1>3, <1>6, <2>1, TableKept
<1> QED
  <2>1. Irq!Top.at \notin Serving \ {"body"} /\ f.at \notin Serving \ {"body", "again"}
    BY <1>1, <1>4 DEF Serving
  <2> QED  BY <1>1, <1>3, <1>5, <1>6, <1>7, <2>1, IrqFacts, CallInv

LEMMA IrqRegisterLock == ASSUME IrqInv, Irq!RegisterLock PROVE IrqInv'
<1>1. /\ Irq!Top.at = "reg_lock" /\ status_PIE' = FALSE
      /\ UNCHANGED <<line, posted, due, ienable, alt_irq_active, asked, alt_irq>>
  BY DEF Irq!RegisterLock, Irq!At, Irq!devices, Irq!control, Irq!disable_all
<1>2. ~InRoutine /\ status_PIE = TRUE
  BY <1>1, IrqFacts DEF RoutineFrame, Serving, Locked, Open
<1>3. PICK f \in Irq!Frame : f = [Irq!Top EXCEPT !.at = "handler", !.outer = status_PIE]
  BY IrqFacts DEF Irq!Frame, Irq!Places
<1>4. f \in Irq!Frame /\ Irq!SetTop(f)
  BY <1>3 DEF Irq!RegisterLock
<1>5. /\ f.at = "handler" /\ f.outer = status_PIE /\ f.isr = Irq!Top.isr /\ f.on = Irq!Top.on
      /\ f.register = Irq!Top.register
  BY <1>3, IrqFacts DEF Irq!Frame
<1>6. ProgramFrame(f)
  BY <1>1, <1>2, <1>5, IrqFacts DEF ProgramFrame, Serving, Locked, Registering
<1>7. ~Open(f) /\ Enabling(f)' /\ Entering(f)
  BY <1>1, <1>5, IrqFacts DEF Open, Enabling, Irq!Changing, Entering
<1>8. Table'
  <2>1. \A s \in asked' : (s \in asked /\ ~Removing(Irq!Top, s)) \/ alt_irq[s].handler # Null
    BY <1>1 DEF Removing
  <2> QED  BY <1>1, <1>4, <1>7, <2>1, TableKept
<1> QED
  <2>1. Irq!Top.at \notin Serving \ {"body"} /\ f.at \notin Serving \ {"body", "again"}
    BY <1>1, <1>5 DEF Serving
  <2> QED  BY <1>1, <1>2, <1>4, <1>6, <1>7, <1>8, <2>1, IrqFacts, CallInv

LEMMA IrqWriteHandler == ASSUME IrqInv, Irq!WriteHandler PROVE IrqInv'
<1>1. /\ Irq!Top.at = "handler" /\ alt_irq' = [alt_irq EXCEPT ![Irq!Top.id].handler = Irq!Top.isr]
      /\ UNCHANGED <<line, posted, due, ienable, alt_irq_active, asked, status_PIE>>
  BY DEF Irq!WriteHandler, Irq!At, Irq!devices, Irq!control
<1>2. PICK f \in Irq!Frame :
      /\ f.at = "context" /\ f.id = Irq!Top.id /\ f.isr = Irq!Top.isr
      /\ f.register = Irq!Top.register /\ f.on = Irq!Top.on /\ f.outer = Irq!Top.outer
      /\ f.inner = Irq!Top.inner /\ f.reg = Irq!Top.reg /\ Irq!SetTop(f)
  BY GotoFrame DEF Irq!WriteHandler, Irq!Places
<1>3. ~InRoutine /\ ~status_PIE /\ Irq!Top.register
  BY <1>1, IrqFacts DEF RoutineFrame, ProgramFrame, Serving, Locked, Registering, Open
<1>4. ProgramFrame(f) /\ ~Open(f)
  BY <1>1, <1>2, <1>3, IrqFacts DEF ProgramFrame, Serving, Locked, Registering, Open
<1>5. alt_irq' \in [Source -> [handler : Isr \cup {Null, clock_irq},
                              context : Isr \cup {Null, clock_irq}]]
  BY <1>1, IrqFacts, FrameFields
<1>6. /\ alt_irq'[f.id].handler = f.isr
      /\ \A s \in Source \ {f.id} : alt_irq'[s] = alt_irq[s]
  BY <1>1, <1>2, IrqFacts, FrameFields
<1>7. Enabling(f)'
  BY <1>1, <1>2, IrqFacts DEF Enabling, Irq!Changing
<1>8. Table'
  <2>1. ~InRoutine' /\ stack'[1] = f /\ Irq!Top = stack[1]
    BY <1>2, <1>3, IrqFacts, SetTopFrame DEF IrqInv
  <2>2. Entering(f)'
    BY <1>2, <1>6 DEF Entering
  <2>3. ASSUME NEW s \in Source
        PROVE  /\ alt_irq'[s].context = alt_irq'[s].handler \/ (f.at = "context" /\ f.id = s)
               /\ s \in asked' => alt_irq'[s].handler # Null \/ Removing(f, s)
    BY <1>1, <1>2, <1>3, <1>6, <2>1, IrqFacts DEF Table, Removing
  <2> QED  BY <2>1, <2>2, <2>3 DEF Table, Removing
<1> QED
  <2>1. Irq!Top.at \notin Serving \ {"body"} /\ f.at \notin Serving \ {"body", "again"}
    BY <1>1, <1>2 DEF Serving
  <2> QED  BY <1>1, <1>2, <1>3, <1>4, <1>5, <1>7, <1>8, <2>1, IrqFacts, CallInv

LEMMA IrqWriteContext == ASSUME IrqInv, Irq!WriteContext PROVE IrqInv'
<1>1. /\ Irq!Top.at = "context" /\ alt_irq' = [alt_irq EXCEPT ![Irq!Top.id].context = Irq!Top.isr]
      /\ UNCHANGED <<line, posted, due, ienable, alt_irq_active, asked, status_PIE>>
  BY DEF Irq!WriteContext, Irq!At, Irq!devices, Irq!control
<1>2. PICK f \in Irq!Frame :
      /\ f.at = "lock" /\ f.id = Irq!Top.id /\ f.isr = Irq!Top.isr
      /\ f.register = Irq!Top.register /\ f.on = Irq!Top.on /\ f.outer = Irq!Top.outer
      /\ f.inner = Irq!Top.inner /\ f.reg = Irq!Top.reg /\ Irq!SetTop(f)
  BY GotoFrame DEF Irq!WriteContext, Irq!Places
<1>3. ~InRoutine /\ ~status_PIE /\ Irq!Top.register
  BY <1>1, IrqFacts DEF RoutineFrame, ProgramFrame, Serving, Locked, Registering, Open
<1>4. ProgramFrame(f) /\ ~Open(f)
  BY <1>1, <1>2, <1>3, IrqFacts DEF ProgramFrame, Serving, Locked, Registering, Open
<1>5. alt_irq' \in [Source -> [handler : Isr \cup {Null, clock_irq},
                              context : Isr \cup {Null, clock_irq}]]
  BY <1>1, IrqFacts, FrameFields
<1>6. /\ alt_irq'[f.id].context = f.isr
      /\ \A s \in Source : alt_irq'[s].handler = alt_irq[s].handler
      /\ \A s \in Source \ {f.id} : alt_irq'[s] = alt_irq[s]
  BY <1>1, <1>2, IrqFacts, FrameFields
<1>7. Enabling(f)'
  BY <1>1, <1>2, IrqFacts DEF Enabling, Irq!Changing
<1>8. Table'
  <2>1. ~InRoutine' /\ stack'[1] = f /\ Irq!Top = stack[1]
    BY <1>2, <1>3, IrqFacts, SetTopFrame DEF IrqInv
  <2>2. alt_irq[f.id].handler = f.isr /\ f.id \in Source
    BY <1>1, <1>2, <2>1, IrqFacts, FrameFields DEF Table, Entering
  <2>3. Entering(f)'
    BY <1>2, <1>4, <1>3, <1>6, <2>2 DEF Entering, ProgramFrame
  <2>4. ASSUME NEW s \in Source
        PROVE  /\ alt_irq'[s].context = alt_irq'[s].handler
               /\ s \in asked' => alt_irq'[s].handler # Null \/ Removing(f, s)
    BY <1>1, <1>2, <1>3, <1>6, <2>1, <2>2, IrqFacts DEF Table, Removing
  <2> QED  BY <2>1, <2>3, <2>4 DEF Table, Removing
<1> QED
  <2>1. Irq!Top.at \notin Serving \ {"body"} /\ f.at \notin Serving \ {"body", "again"}
    BY <1>1, <1>2 DEF Serving
  <2> QED  BY <1>1, <1>2, <1>3, <1>4, <1>5, <1>7, <1>8, <2>1, IrqFacts, CallInv

LEMMA IrqLock == ASSUME IrqInv, Irq!Lock PROVE IrqInv'
<1>1. /\ Irq!Top.at = "lock" /\ status_PIE' = FALSE
      /\ asked' = IF Irq!Top.on THEN asked \cup {Irq!Top.id} ELSE asked \ {Irq!Top.id}
      /\ UNCHANGED <<line, posted, due, ienable, alt_irq_active, alt_irq>>
  BY DEF Irq!Lock, Irq!At, Irq!devices, Irq!disable_all
<1>2. PICK f \in Irq!Frame : f = [Irq!Top EXCEPT !.at = "load", !.inner = status_PIE]
  BY IrqFacts DEF Irq!Frame, Irq!Places
<1>3. f \in Irq!Frame /\ Irq!SetTop(f)
  BY <1>2 DEF Irq!Lock
<1>4. /\ f.at = "load" /\ f.inner = status_PIE /\ f.isr = Irq!Top.isr /\ f.on = Irq!Top.on
      /\ f.register = Irq!Top.register /\ f.outer = Irq!Top.outer /\ f.id = Irq!Top.id
  BY <1>2, IrqFacts DEF Irq!Frame
<1>5. InRoutine => RoutineFrame(f)
  BY <1>1, <1>4, IrqFacts DEF RoutineFrame, Locked
<1>6. ~InRoutine => ProgramFrame(f)
  <2>1. ~InRoutine => (status_PIE <=> ~f.register)
    BY <1>1, <1>4, IrqFacts DEF Open
  <2> QED  BY <1>1, <1>4, <2>1, IrqFacts DEF ProgramFrame, Serving, Locked, Registering
<1>7. ~Open(f) /\ Enabling(f)' /\ Entering(f)
  BY <1>1, <1>4, IrqFacts DEF Open, Enabling, Irq!Changing, Entering
<1>8. Table'
  <2>1. Entering(Irq!Top)
    BY IrqFacts DEF Table
  <2>2. Removing(Irq!Top, Irq!Top.id) => ~Irq!Top.on
    BY IrqFacts DEF Removing, RoutineFrame, ProgramFrame
  <2>3. \A s \in asked' : (s \in asked /\ ~Removing(Irq!Top, s)) \/ alt_irq[s].handler # Null
    BY <1>1, <2>1, <2>2 DEF Removing, Entering
  <2> QED  BY <1>1, <1>3, <1>7, <2>3, TableKept
<1>9. asked' \in SUBSET Source
  BY <1>1, IrqFacts, FrameFields
<1> QED
  <2>1. Irq!Top.at \notin Serving \ {"body"} /\ f.at \notin Serving \ {"body", "again"}
    BY <1>1, <1>4 DEF Serving
  <2> QED  BY <1>1, <1>3, <1>5, <1>6, <1>7, <1>8, <1>9, <2>1, IrqFacts, CallInv

LEMMA IrqLoad == ASSUME IrqInv, Irq!Load PROVE IrqInv'
<1>1. /\ Irq!Top.at = "load"
      /\ UNCHANGED <<line, posted, due, ienable, alt_irq_active, asked, status_PIE, alt_irq>>
  BY DEF Irq!Load, Irq!At, Irq!devices, Irq!control
<1>2. PICK f \in Irq!Frame :
        f = [Irq!Top EXCEPT !.at = "store",
                            !.reg = IF Irq!Top.on THEN alt_irq_active \cup {Irq!Top.id}
                                    ELSE alt_irq_active \ {Irq!Top.id}]
  <2>1. (IF Irq!Top.on THEN alt_irq_active \cup {Irq!Top.id} ELSE alt_irq_active \ {Irq!Top.id})
          \in SUBSET Source
    BY IrqFacts, FrameFields
  <2> QED  BY <2>1, IrqFacts DEF Irq!Frame, Irq!Places
<1>3. f \in Irq!Frame /\ Irq!SetTop(f)
  BY <1>2 DEF Irq!Load
<1>4. /\ f.at = "store" /\ f.inner = Irq!Top.inner /\ f.isr = Irq!Top.isr /\ f.on = Irq!Top.on
      /\ f.register = Irq!Top.register /\ f.outer = Irq!Top.outer /\ f.id = Irq!Top.id
      /\ f.reg = IF Irq!Top.on THEN alt_irq_active \cup {Irq!Top.id}
                 ELSE alt_irq_active \ {Irq!Top.id}
  BY <1>2, IrqFacts DEF Irq!Frame
<1>5. InRoutine => RoutineFrame(f)
  BY <1>1, <1>4, IrqFacts DEF RoutineFrame, Locked
<1>6. ~InRoutine => ProgramFrame(f) /\ ~status_PIE
  BY <1>1, <1>4, IrqFacts DEF ProgramFrame, Serving, Locked, Registering, Open
<1>7. ~Open(f) /\ Enabling(f)' /\ Entering(f)
  BY <1>1, <1>4, IrqFacts DEF Open, Enabling, Irq!Changing, Entering
<1>8. Table'
  <2>1. \A s \in asked' : (s \in asked /\ ~Removing(Irq!Top, s)) \/ alt_irq[s].handler # Null
    BY <1>1 DEF Removing
  <2> QED  BY <1>1, <1>3, <1>7, <2>1, TableKept
<1> QED
  <2>1. Irq!Top.at \notin Serving \ {"body"} /\ f.at \notin Serving \ {"body", "again"}
    BY <1>1, <1>4 DEF Serving
  <2> QED  BY <1>1, <1>3, <1>5, <1>6, <1>7, <1>8, <2>1, IrqFacts, CallInv

LEMMA IrqStore == ASSUME IrqInv, Irq!Store PROVE IrqInv'
<1>1. /\ Irq!Top.at = "store" /\ alt_irq_active' = Irq!Top.reg
      /\ UNCHANGED <<line, posted, due, ienable, asked, status_PIE, alt_irq>>
  BY DEF Irq!Store, Irq!At, Irq!devices
<1>2. PICK f \in Irq!Frame :
      /\ f.at = "ienable" /\ f.id = Irq!Top.id /\ f.isr = Irq!Top.isr
      /\ f.register = Irq!Top.register /\ f.on = Irq!Top.on /\ f.outer = Irq!Top.outer
      /\ f.inner = Irq!Top.inner /\ f.reg = Irq!Top.reg /\ Irq!SetTop(f)
  BY GotoFrame DEF Irq!Store, Irq!Places
<1>3. InRoutine => RoutineFrame(f)
  BY <1>1, <1>2, IrqFacts DEF RoutineFrame, Locked
<1>4. ~InRoutine => ProgramFrame(f) /\ ~status_PIE
  BY <1>1, <1>2, IrqFacts DEF ProgramFrame, Serving, Locked, Registering, Open
<1>5. ~Open(f) /\ Enabling(f)' /\ Entering(f)
  BY <1>1, <1>2, IrqFacts DEF Open, Enabling, Irq!Changing, Entering
<1>6. Table'
  <2>1. \A s \in asked' : (s \in asked /\ ~Removing(Irq!Top, s)) \/ alt_irq[s].handler # Null
    BY <1>1 DEF Removing
  <2> QED  BY <1>1, <1>2, <1>5, <2>1, TableKept
<1> QED
  <2>1. Irq!Top.at \notin Serving \ {"body"} /\ f.at \notin Serving \ {"body", "again"}
    BY <1>1, <1>2 DEF Serving
  <2> QED  BY <1>1, <1>2, <1>3, <1>4, <1>5, <1>6, FrameFields, <2>1, IrqFacts, CallInv

LEMMA IrqWriteIenable == ASSUME IrqInv, Irq!WriteIenable PROVE IrqInv'
<1>1. /\ Irq!Top.at = "ienable" /\ ienable' = alt_irq_active
      /\ UNCHANGED <<line, posted, due, alt_irq_active, asked, status_PIE, alt_irq>>
  BY DEF Irq!WriteIenable, Irq!At, Irq!devices
<1>2. PICK f \in Irq!Frame :
      /\ f.at = "unlock" /\ f.id = Irq!Top.id /\ f.isr = Irq!Top.isr
      /\ f.register = Irq!Top.register /\ f.on = Irq!Top.on /\ f.outer = Irq!Top.outer
      /\ f.inner = Irq!Top.inner /\ f.reg = Irq!Top.reg /\ Irq!SetTop(f)
  BY GotoFrame DEF Irq!WriteIenable, Irq!Places
<1>3. InRoutine => RoutineFrame(f)
  BY <1>1, <1>2, IrqFacts DEF RoutineFrame, Locked
<1>4. ~InRoutine => ProgramFrame(f) /\ ~status_PIE
  BY <1>1, <1>2, IrqFacts DEF ProgramFrame, Serving, Locked, Registering, Open
<1>5. ~Open(f) /\ Enabling(f)' /\ Entering(f)
  BY <1>1, <1>2, IrqFacts DEF Open, Enabling, Irq!Changing, Entering
<1>6. Table'
  <2>1. \A s \in asked' : (s \in asked /\ ~Removing(Irq!Top, s)) \/ alt_irq[s].handler # Null
    BY <1>1 DEF Removing
  <2> QED  BY <1>1, <1>2, <1>5, <2>1, TableKept
<1> QED
  <2>1. Irq!Top.at \notin Serving \ {"body"} /\ f.at \notin Serving \ {"body", "again"}
    BY <1>1, <1>2 DEF Serving
  <2> QED  BY <1>1, <1>2, <1>3, <1>4, <1>5, <1>6, <2>1, IrqFacts, CallInv

\* A call ends in the program's code or at the end of the routine.
Back == IF InRoutine THEN "again" ELSE "main"
LEMMA Returned == ASSUME IrqInv PROVE Irq!Return <=> Irq!Goto(Back)
BY TopFrame DEF IrqInv, Irq!Return, Back, InRoutine

LEMMA IrqUnlock == ASSUME IrqInv, Irq!Unlock PROVE IrqInv'
<1> DEFINE place == IF Irq!Top.register THEN "reg_unlock" ELSE Back
<1>1. /\ Irq!Top.at = "unlock" /\ status_PIE' = Irq!Top.inner /\ Irq!Goto(place)
      /\ UNCHANGED <<line, posted, due, ienable, alt_irq_active, asked, alt_irq>>
  BY Returned DEF Irq!Unlock, Irq!At, Irq!devices, Irq!control, Irq!enable_all
<1>2. place \in Irq!Places
  BY DEF Irq!Places, Back
<1>3. PICK f \in Irq!Frame :
      /\ f.at = place /\ f.isr = Irq!Top.isr /\ f.register = Irq!Top.register
      /\ f.on = Irq!Top.on /\ f.outer = Irq!Top.outer /\ f.inner = Irq!Top.inner
      /\ Irq!SetTop(f)
  <2> HIDE DEF place
  <2> QED  BY <1>1, <1>2, GotoFrame
<1>4. InRoutine => RoutineFrame(f) /\ ~status_PIE'
  BY <1>1, <1>3, IrqFacts DEF RoutineFrame, Locked, Serving, Back
<1>5. ~InRoutine => ProgramFrame(f) /\ (Open(f) <=> status_PIE')
  BY <1>1, <1>3, IrqFacts DEF ProgramFrame, Serving, Locked, Registering, Open, Back
<1>6. Enabling(f)' /\ Entering(f)
  BY <1>1, <1>3, IrqFacts DEF Open, Enabling, Irq!Changing, Entering, Back
<1>7. Table'
  <2>1. \A s \in asked' : (s \in asked /\ ~Removing(Irq!Top, s)) \/ alt_irq[s].handler # Null
    BY <1>1 DEF Removing
  <2> QED  BY <1>1, <1>3, <1>6, <2>1, TableKept
<1> QED
  <2>1. Irq!Top.at \notin Serving \ {"body"} /\ f.at \notin Serving \ {"body", "again"}
    BY <1>1, <1>3 DEF Serving, Back
  <2>2. status_PIE' \in BOOLEAN
    BY <1>1, IrqFacts, FrameFields
  <2> QED  BY <1>1, <1>3, <1>4, <1>5, <1>6, <1>7, <2>1, <2>2, IrqFacts, CallInv

LEMMA IrqRegisterUnlock == ASSUME IrqInv, Irq!RegisterUnlock PROVE IrqInv'
<1>1. /\ Irq!Top.at = "reg_unlock" /\ status_PIE' = Irq!Top.outer /\ Irq!Goto(Back)
      /\ UNCHANGED <<line, posted, due, ienable, alt_irq_active, asked, alt_irq>>
  BY Returned DEF Irq!RegisterUnlock, Irq!At, Irq!devices, Irq!control, Irq!enable_all
<1>2. ~InRoutine /\ Irq!Top.outer /\ Back = "main"
  BY <1>1, IrqFacts DEF RoutineFrame, ProgramFrame, Serving, Locked, Registering, Back
<1>3. PICK f \in Irq!Frame :
      /\ f.at = "main" /\ f.isr = Irq!Top.isr /\ f.register = Irq!Top.register
      /\ f.on = Irq!Top.on /\ f.outer = Irq!Top.outer /\ f.inner = Irq!Top.inner
      /\ Irq!SetTop(f)
  BY <1>1, <1>2, GotoFrame, ZenonT(60) DEF Irq!Places
<1>4. ProgramFrame(f) /\ Open(f) /\ status_PIE'
  BY <1>1, <1>2, <1>3, IrqFacts DEF ProgramFrame, Locked, Serving, Registering, Open
<1>5. Enabling(f)' /\ Entering(f)
  BY <1>1, <1>3, IrqFacts DEF Enabling, Irq!Changing, Entering
<1>6. Table'
  <2>1. \A s \in asked' : (s \in asked /\ ~Removing(Irq!Top, s)) \/ alt_irq[s].handler # Null
    BY <1>1 DEF Removing
  <2> QED  BY <1>1, <1>3, <1>5, <2>1, TableKept
<1> QED
  <2>1. Irq!Top.at \notin Serving \ {"body"} /\ f.at \notin Serving \ {"body", "again"}
    BY <1>1, <1>3 DEF Serving
  <2>2. status_PIE' \in BOOLEAN
    BY <1>1, IrqFacts, FrameFields
  <2> QED  BY <1>1, <1>2, <1>3, <1>4, <1>5, <1>6, <2>1, <2>2, IrqFacts, CallInv

-----------------------------------------------------------------------------
(***************************************************************************)
(* The routines, instruction by instruction.                               *)
(***************************************************************************)
LEMMA IrqAck == ASSUME IrqInv, Irq!Ack PROVE IrqInv'
<1>1. /\ Irq!Top.at = "ack" /\ Irq!Top.i \in line /\ ~posted
      /\ UNCHANGED <<due, ienable, alt_irq_active, asked, status_PIE, alt_irq>>
  BY IrqFacts DEF Irq!Ack, Irq!At, Irq!control, Found
<1>2. InRoutine
  BY <1>1, IrqFacts DEF ProgramFrame, Serving
<1>3. CASE Irq!Top.i = 0
  <2>1. posted' = TRUE /\ Irq!Goto("dummy") /\ UNCHANGED line
    BY <1>3 DEF Irq!Ack
  <2>2. PICK f \in Irq!Frame :
          /\ f.at = "dummy" /\ f.register = Irq!Top.register /\ f.inner = Irq!Top.inner /\ Irq!SetTop(f)
    BY <2>1, GotoFrame DEF Irq!Places
  <2>3. RoutineFrame(f) /\ Entering(f)
    BY <1>2, <2>2, IrqFacts DEF RoutineFrame, Serving, Locked, Entering
  <2>4. Enabling(f)' /\ Found(f)' /\ Due(f)'
    BY <1>1, <1>3, <2>1, <2>2, IrqFacts DEF Enabling, Found, Due, Ticking, Irq!Changing
  <2>5. Table'
    BY <1>1, <1>2, <2>2, <2>3, RoutineTable
  <2> QED  BY <1>1, <1>2, <1>3, <2>1, <2>2, <2>3, <2>4, <2>5, IrqFacts, InstructionInv
<1>4. CASE Irq!Top.i # 0
  <2>1. line' = line \ {Irq!Top.i} /\ Irq!Goto("body") /\ UNCHANGED posted
    BY <1>4 DEF Irq!Ack
  <2>2. PICK f \in Irq!Frame :
          /\ f.at = "body" /\ f.register = Irq!Top.register /\ f.inner = Irq!Top.inner /\ Irq!SetTop(f)
    BY <2>1, GotoFrame DEF Irq!Places
  <2>3. RoutineFrame(f) /\ Entering(f)
    BY <1>2, <2>2, IrqFacts DEF RoutineFrame, Serving, Locked, Entering
  <2>4. Enabling(f)' /\ Found(f)' /\ Due(f)'
    BY <1>1, <1>4, <2>1, <2>2, IrqFacts DEF Enabling, Found, Due, Ticking, Irq!Changing
  <2>5. Table'
    BY <1>1, <1>2, <2>2, <2>3, RoutineTable
  <2> QED  BY <1>1, <1>2, <2>1, <2>2, <2>3, <2>4, <2>5, IrqFacts, InstructionInv
<1> QED  BY <1>3, <1>4

LEMMA IrqDummyRead == ASSUME IrqInv, Irq!DummyRead PROVE IrqInv'
<1>1. /\ Irq!Top.at = "dummy" /\ ~posted
      /\ UNCHANGED <<line, posted, due, ienable, alt_irq_active, asked, status_PIE, alt_irq>>
  BY DEF Irq!DummyRead, Irq!At, Irq!devices, Irq!control
<1>2. InRoutine /\ ~status_PIE'
  BY <1>1, IrqFacts DEF ProgramFrame, Serving, RoutineFrame
<1>3. PICK f \in Irq!Frame :
        /\ f.at = "tick_lock" /\ f.register = Irq!Top.register /\ f.inner = Irq!Top.inner /\ Irq!SetTop(f)
  BY GotoFrame DEF Irq!DummyRead, Irq!Places
<1>4. RoutineFrame(f) /\ Entering(f)
  BY <1>1, <1>2, <1>3, IrqFacts DEF RoutineFrame, Serving, Locked, Entering
<1>5. Enabling(f)' /\ Found(f)' /\ Due(f)'
  <2>1. InRoutine'
    BY <1>2, <1>3, SetTopFrame DEF IrqInv
  <2> QED  BY <1>1, <1>2, <1>3, <2>1, IrqFacts DEF Enabling, Found, Due, Ticking, Irq!Changing
<1>6. Table'
  BY <1>1, <1>2, <1>3, <1>4, RoutineTable
<1> QED  BY <1>1, <1>2, <1>3, <1>4, <1>5, <1>6, IrqFacts, InstructionInv

LEMMA IrqTickLock == ASSUME IrqInv, Irq!TickLock PROVE IrqInv'
<1>1. /\ Irq!Top.at = "tick_lock" /\ status_PIE' = FALSE
      /\ UNCHANGED <<line, posted, due, ienable, alt_irq_active, asked, alt_irq>>
  BY DEF Irq!TickLock, Irq!At, Irq!devices, Irq!control, Irq!disable_all
<1>2. InRoutine
  BY <1>1, IrqFacts DEF ProgramFrame, Serving
<1>3. PICK f \in Irq!Frame : f = [Irq!Top EXCEPT !.at = "tick", !.inner = status_PIE]
  BY IrqFacts DEF Irq!Frame, Irq!Places
<1>4. /\ f \in Irq!Frame /\ Irq!SetTop(f)
      /\ f.at = "tick" /\ f.register = Irq!Top.register /\ f.inner = status_PIE
  BY <1>3, IrqFacts DEF Irq!TickLock, Irq!Frame
<1>5. RoutineFrame(f) /\ Entering(f)
  BY <1>2, <1>4, IrqFacts DEF RoutineFrame, Serving, Locked, Entering
<1>6. Enabling(f)' /\ Found(f)' /\ Due(f)'
  <2>1. InRoutine'
    BY <1>2, <1>4, SetTopFrame DEF IrqInv
  <2> QED  BY <1>1, <1>2, <1>4, <2>1, IrqFacts DEF Enabling, Found, Due, Ticking, Irq!Changing
<1>7. Table'
  BY <1>1, <1>2, <1>4, <1>5, RoutineTable
<1> QED  BY <1>1, <1>2, <1>4, <1>5, <1>6, <1>7, IrqFacts, InstructionInv

LEMMA IrqTickCounts == ASSUME IrqInv, Irq!alt_tick PROVE IrqInv'
<1>1. /\ Irq!Top.at = "tick" /\ due' = due - 1
      /\ UNCHANGED <<line, posted, ienable, alt_irq_active, asked, status_PIE, alt_irq>>
  BY DEF Irq!alt_tick, Irq!At, Irq!devices, Irq!control
<1>2. InRoutine /\ ~status_PIE'
  BY <1>1, IrqFacts DEF ProgramFrame, Serving, RoutineFrame
<1>3. PICK f \in Irq!Frame :
        /\ f.at = "tick_unlock" /\ f.register = Irq!Top.register /\ f.inner = Irq!Top.inner /\ Irq!SetTop(f)
  BY GotoFrame DEF Irq!alt_tick, Irq!Places
<1>4. RoutineFrame(f) /\ Entering(f)
  BY <1>1, <1>2, <1>3, IrqFacts DEF RoutineFrame, Serving, Locked, Entering
<1>5. Enabling(f)' /\ Found(f)' /\ Due(f)'
  BY <1>1, <1>2, <1>3, IrqFacts DEF Enabling, Found, Due, Ticking, Irq!Changing
<1>6. Table'
  BY <1>1, <1>2, <1>3, <1>4, RoutineTable
<1> QED  BY <1>1, <1>2, <1>3, <1>4, <1>5, <1>6, IrqFacts, InstructionInv

LEMMA IrqTickUnlock == ASSUME IrqInv, Irq!TickUnlock PROVE IrqInv'
<1>1. /\ Irq!Top.at = "tick_unlock" /\ status_PIE' = Irq!Top.inner
      /\ UNCHANGED <<line, posted, due, ienable, alt_irq_active, asked, alt_irq>>
  BY DEF Irq!TickUnlock, Irq!At, Irq!devices, Irq!control, Irq!enable_all
<1>2. InRoutine /\ ~status_PIE'
  BY <1>1, IrqFacts DEF ProgramFrame, Serving, RoutineFrame
<1>3. PICK f \in Irq!Frame :
        /\ f.at = "again" /\ f.register = Irq!Top.register /\ f.inner = Irq!Top.inner /\ Irq!SetTop(f)
  BY GotoFrame DEF Irq!TickUnlock, Irq!Places
<1>4. RoutineFrame(f) /\ Entering(f)
  BY <1>1, <1>2, <1>3, IrqFacts DEF RoutineFrame, Serving, Locked, Entering
<1>5. Enabling(f)' /\ Found(f)' /\ Due(f)'
  BY <1>1, <1>2, <1>3, IrqFacts DEF Enabling, Found, Due, Ticking, Irq!Changing
<1>6. Table'
  BY <1>1, <1>2, <1>3, <1>4, RoutineTable
<1> QED  BY <1>1, <1>2, <1>3, <1>4, <1>5, <1>6, IrqFacts, FrameFields, InstructionInv

LEMMA IrqBodyEnds == ASSUME IrqInv, Irq!BodyEnds PROVE IrqInv'
<1>1. /\ Irq!Top.at = "body"
      /\ UNCHANGED <<line, posted, due, ienable, alt_irq_active, asked, status_PIE, alt_irq>>
  BY DEF Irq!BodyEnds, Irq!At, Irq!devices, Irq!control
<1>2. InRoutine /\ ~status_PIE'
  BY <1>1, IrqFacts DEF ProgramFrame, Serving, RoutineFrame
<1>3. PICK f \in Irq!Frame :
        /\ f.at = "again" /\ f.register = Irq!Top.register /\ f.inner = Irq!Top.inner /\ Irq!SetTop(f)
  BY GotoFrame DEF Irq!BodyEnds, Irq!Places
<1>4. RoutineFrame(f) /\ Entering(f)
  BY <1>1, <1>2, <1>3, IrqFacts DEF RoutineFrame, Serving, Locked, Entering
<1>5. Enabling(f)' /\ Found(f)' /\ Due(f)'
  BY <1>1, <1>2, <1>3, IrqFacts DEF Enabling, Found, Due, Ticking, Irq!Changing
<1>6. Table'
  BY <1>1, <1>2, <1>3, <1>4, RoutineTable
<1> QED  BY <1>1, <1>2, <1>3, <1>4, <1>5, <1>6, IrqFacts, InstructionInv

-----------------------------------------------------------------------------
(***************************************************************************)
(* The devices, the start, and the steps of the interrupt layer.           *)
(***************************************************************************)
LEMMA SameFrame == ASSUME IrqInv, UNCHANGED stack PROVE Irq!SetTop(Irq!Top)
BY TopFrame DEF IrqInv, Irq!SetTop, Irq!Top

LEMMA IrqRaise == ASSUME IrqInv, Irq!Raise PROVE IrqInv'
<1>1. PICK s \in Source : /\ line' = line \cup {s}
                          /\ due' = IF s = 0 /\ 0 \notin line THEN due + 1 ELSE due
  BY DEF Irq!Raise
<1>2. UNCHANGED <<posted, ienable, alt_irq_active, asked, status_PIE, alt_irq, stack>>
  BY DEF Irq!Raise, Irq!control
<1>3. PICK f \in Irq!Frame : f = Irq!Top
  BY IrqFacts
<1>4. f \in Irq!Frame /\ Irq!SetTop(f)
  BY <1>2, <1>3, SameFrame
<1>5. Enabling(f)' /\ Found(f)'
  BY <1>1, <1>2, <1>3, IrqFacts DEF Enabling, Found
<1>6. Due(f)'
  BY <1>1, <1>2, <1>3, IrqFacts DEF Due, Ticking, InRoutine
<1>7. Table'
  BY <1>2, IrqFacts DEF Table, Entering, Removing, InRoutine
<1>8. line' \in SUBSET Source
  BY <1>1, IrqFacts
<1> QED
  <2>1. posted' => InRoutine /\ f.at = "dummy" /\ 0 \in line'
    BY <1>1, <1>2, <1>3, IrqFacts
  <2>2. /\ InRoutine => RoutineFrame(f) /\ ~status_PIE'
        /\ ~InRoutine => ProgramFrame(f) /\ (Open(f) <=> status_PIE')
    BY <1>2, <1>3, IrqFacts
  <2> QED  BY <1>2, <1>4, <1>5, <1>6, <1>7, <1>8, <2>1, <2>2, IrqFacts, InstructionInv

LEMMA IrqDeliver == ASSUME IrqInv, Irq!Deliver PROVE IrqInv'
<1>1. /\ posted /\ posted' = FALSE /\ line' = line \ {0}
      /\ UNCHANGED <<due, ienable, alt_irq_active, asked, status_PIE, alt_irq, stack>>
  BY DEF Irq!Deliver, Irq!control
<1>2. InRoutine /\ Irq!Top.at = "dummy" /\ 0 \in line
  BY <1>1, IrqFacts
<1>3. PICK f \in Irq!Frame : f = Irq!Top
  BY IrqFacts
<1>4. f \in Irq!Frame /\ Irq!SetTop(f)
  BY <1>1, <1>3, SameFrame
<1>5. Enabling(f)' /\ Found(f)'
  BY <1>1, <1>2, <1>3, IrqFacts DEF Enabling, Found
<1>6. Due(f)'
  BY <1>1, <1>2, <1>3, IrqFacts DEF Due, Ticking, InRoutine
<1>7. Table'
  BY <1>1, IrqFacts DEF Table, Entering, Removing, InRoutine
<1>8. InRoutine => RoutineFrame(f) /\ ~status_PIE'
  BY <1>1, <1>3, IrqFacts
<1> QED  BY <1>1, <1>2, <1>4, <1>5, <1>6, <1>7, <1>8, IrqFacts, InstructionInv

LEMMA IrqNext == ASSUME IrqInv, Irq!Next PROVE IrqInv'
<1>1. CASE Irq!Raise \/ Irq!Deliver
  BY <1>1, IrqRaise, IrqDeliver
<1>2. CASE Irq!Dispatching
  BY <1>2, IrqInterrupt, IrqReadPending, IrqDispatch, IrqAgain DEF Irq!Dispatching
<1>3. CASE Irq!Routine
  BY <1>3, IrqAck, IrqDummyRead, IrqTickLock, IrqTickCounts, IrqTickUnlock, IrqBodyEnds
  DEF Irq!Routine
<1>4. CASE Irq!Call
  BY <1>4, IrqRegisterLock, IrqWriteHandler, IrqWriteContext, IrqLock, IrqLoad, IrqStore,
     IrqWriteIenable, IrqUnlock, IrqRegisterUnlock
  DEF Irq!Call
<1>5. CASE \E id \in Source, on \in BOOLEAN : Irq!CallEnable(id, on)
  BY <1>5, IrqCallEnable
<1>6. CASE \E id \in Source \ {0}, isr \in Isr \cup {Null} : Irq!CallRegister(id, isr)
  BY <1>6, IrqCallRegister
<1> QED
  BY <1>1, <1>2, <1>3, <1>4, <1>5, <1>6 DEF Irq!Next

LEMMA IrqStill == ASSUME IrqInv, UNCHANGED interruptVars PROVE IrqInv'
BY DEF interruptVars, IrqInv, Irq!TypeOK, Frames, Table, Enabling, Found, Posted, Irq!CountedOnce,
       Irq!Counting, Irq!Top, InRoutine, Entering

LEMMA IrqInit == ASSUME Irq!Init PROVE IrqInv
<1>1. /\ line = {} /\ posted = FALSE /\ due = 0 /\ status_PIE = TRUE /\ ienable = {}
      /\ alt_irq_active = {} /\ asked = {}
      /\ alt_irq = [s \in Source |-> [handler |-> Null, context |-> Null]]
  BY DEF Irq!Init
<1>2. PICK f \in Irq!Frame :
        f = [Irq!NewFrame("reg_lock") EXCEPT !.isr = clock_irq, !.on = TRUE, !.register = TRUE]
  BY RuntimeAssumption DEF Irq!NewFrame, Irq!Frame, Irq!Places, Irq!InterruptAssumption
<1>3. /\ stack \in Seq(Irq!Frame) /\ Len(stack) = 1 /\ stack[1] = f /\ Irq!Top = f /\ ~InRoutine
  BY <1>2 DEF Irq!Init, Irq!Top, InRoutine
<1>4. f.at = "reg_lock" /\ f.isr = clock_irq /\ f.on = TRUE /\ f.register = TRUE
  BY <1>2 DEF Irq!NewFrame
<1>5. Irq!TypeOK
  <2>1. alt_irq \in [Source -> [handler : Isr \cup {Null, clock_irq},
                                context : Isr \cup {Null, clock_irq}]]
    BY <1>1
  <2>2. Len(stack) \in 1..2 /\ due \in 0..2 /\ {status_PIE, posted} \subseteq BOOLEAN
    <3>1. Len(stack) \in 1..2
      BY <1>3
    <3>2. due \in 0..2
      BY <1>1
    <3>3. {status_PIE, posted} \subseteq BOOLEAN
      BY <1>1
    <3> QED  BY <3>1, <3>2, <3>3
  <2>3. /\ line \subseteq Source /\ ienable \subseteq Source /\ alt_irq_active \subseteq Source
        /\ asked \subseteq Source
    BY <1>1
  <2>4. stack \in Seq(Irq!Frame)
    BY <1>3
  <2> QED  BY <2>1, <2>2, <2>3, <2>4 DEF Irq!TypeOK
<1>6. Frames
  BY <1>1, <1>3, <1>4, RuntimeAssumption
  DEF Frames, ProgramFrame, Open, Serving, Locked, Registering, Irq!InterruptAssumption
<1>7. Table /\ Enabling(f) /\ Found(f) /\ Posted
  BY <1>1, <1>3, <1>4 DEF Table, Entering, Enabling, Irq!Changing, Found, Posted
<1>8. Irq!CountedOnce
  BY <1>1, <1>3, <1>5, <1>6, CountingTop DEF Irq!CountedOnce
<1> QED  BY <1>3, <1>5, <1>6, <1>7, <1>8 DEF IrqInv

\* What the invariant says of the five properties.
LEMMA IrqSafe == ASSUME IrqInv PROVE InterruptsSafe
<1>1. Irq!NotNested
  <2>1. Len(stack) \in {1, 2}
    BY TopFrame DEF IrqInv
  <2>2. Len(stack) = 2 => ~status_PIE
    BY IrqFacts DEF InRoutine
  <2>3. Len(stack) <= 2
    BY <2>1
  <2> QED  BY <2>2, <2>3 DEF Irq!NotNested
<1>2. Irq!AlwaysFound
  BY IrqFacts DEF Irq!AlwaysFound, Found
<1>3. Irq!RoutineWhole
  <2> SUFFICES ASSUME Irq!Top.at = "dispatch"
               PROVE  /\ alt_irq[Irq!Lowest(Irq!Top.active)].handler # Null
                      /\ alt_irq[Irq!Lowest(Irq!Top.active)].context
                           = alt_irq[Irq!Lowest(Irq!Top.active)].handler
    BY DEF Irq!RoutineWhole
  <2>1. InRoutine /\ Open(stack[1])
    BY IrqFacts DEF ProgramFrame, Serving
  <2>2. ienable = asked
    BY IrqFacts DEF Enabling, Irq!Changing
  <2>3. Irq!Lowest(Irq!Top.active) \in Source /\ Irq!Lowest(Irq!Top.active) \in asked
    BY <2>2, IrqFacts, FrameFields, LowestIs DEF Found
  <2> QED  BY <2>1, <2>3, IrqFacts DEF Table, Removing, Open
<1>4. Irq!EnabledAsAsked
  BY TopFrame, IrqFacts DEF IrqInv, Irq!EnabledAsAsked, Enabling, Irq!Top
<1> QED  BY <1>1, <1>2, <1>3, <1>4 DEF InterruptsSafe, IrqInv

-----------------------------------------------------------------------------
(***************************************************************************)
(* Every behaviour of the support code leaves the interrupt layer still or *)
(* takes one of its steps.                                                 *)
(***************************************************************************)
LEMMA PartsStart == Init => Irq!Init /\ Console!Init /\ Alarm!Init /\ Profiler!Init
BY DEF Init

LEMMA PartsStep ==
  [Next]_vars => /\ Irq!Next \/ UNCHANGED interruptVars
                 /\ Console!Next \/ UNCHANGED consoleVars
                 /\ Alarm!Next \/ UNCHANGED alarmVars
                 /\ Profiler!Next \/ UNCHANGED profilerVars
BY DEF Next, In, vars

\* The interrupt layer, for any sources, routines and requests: an exception is
\* taken in no exception, its handler always finds a source to serve, a routine
\* is called with its own context, no enable or disable is lost, and each
\* expiration of the timer is counted once.
THEOREM InterruptLayer == Spec => []InterruptsSafe
<1>1. Init => IrqInv
  BY PartsStart, IrqInit
<1>2. IrqInv /\ [Next]_vars => IrqInv'
  BY PartsStep, IrqNext, IrqStill
<1>3. IrqInv => InterruptsSafe
  BY IrqSafe
<1> QED  BY <1>1, <1>2, <1>3, PTL DEF Spec

-----------------------------------------------------------------------------
(***************************************************************************)
(* The console of processor B.  Places in a stream are remainders.         *)
(***************************************************************************)
Byte == Console!Byte
Plus(b, n) == Console!Plus(b, n)
From(b, n) == Console!From(b, n)

LEMMA Depths ==
  /\ FIFO_DEPTH \in Nat /\ FIFO_DEPTH > 0 /\ Period \in Nat /\ Period > FIFO_DEPTH /\ Period > 0
  /\ MaxCount \in Nat /\ MaxCount > 0
BY RuntimeAssumption DEF Console!PolledAssumption, Console!DeviceAssumption

\* A remainder is determined, and may be taken before a sum.
LEMMA RemainderUnique ==
  ASSUME NEW N \in Nat, N > 0, NEW p \in Int, NEW q \in Int,
         NEW r \in 0..(N - 1), NEW s \in 0..(N - 1), N * p + r = N * q + s
  PROVE  r = s
OBVIOUS

LEMMA RemainderSum ==
  ASSUME NEW N \in Nat, N > 0, NEW a \in Nat, NEW b \in Nat
  PROVE  ((a % N) + b) % N = (a + b) % N
<1> DEFINE p == a \div N
           q == ((a % N) + b) \div N
           r == (a + b) \div N
<1>1. a = N * p + (a % N) /\ p \in Int /\ a % N \in 0..(N - 1)
  OBVIOUS
<1>2. /\ (a % N) + b = N * q + (((a % N) + b) % N) /\ q \in Int
      /\ ((a % N) + b) % N \in 0..(N - 1)
  <2>1. (a % N) + b \in Nat
    OBVIOUS
  <2> QED  BY <2>1
<1>3. a + b = N * r + ((a + b) % N) /\ r \in Int /\ (a + b) % N \in 0..(N - 1)
  <2>1. a + b \in Nat
    OBVIOUS
  <2> QED  BY <2>1
<1> HIDE DEF p, q, r
<1>4. N * (p + q) + (((a % N) + b) % N) = N * r + ((a + b) % N)
  <2>1. N * (p + q) = N * p + N * q
    BY <1>1, <1>2
  <2> QED  BY <1>1, <1>2, <1>3, <2>1
<1>5. p + q \in Int
  BY <1>1, <1>2
<1> QED  BY <1>2, <1>3, <1>4, <1>5, RemainderUnique

LEMMA PlusIs ==
  /\ \A b, n \in Nat : Plus(b, n) \in Byte
  /\ \A b \in Byte : Plus(b, 0) = b /\ b \in Nat
BY Depths DEF Plus, Byte, Console!Plus, Console!Byte

LEMMA PlusPlus ==
  ASSUME NEW b \in Nat, NEW m \in Nat, NEW n \in Nat
  PROVE  Plus(Plus(b, m), n) = Plus(b, m + n)
<1>1. PICK c \in Nat : c = b + m
  OBVIOUS
<1>2. ((c % Period) + n) % Period = (c + n) % Period
  BY Depths, RemainderSum
<1>3. c + n = b + (m + n)
  BY <1>1
<1> QED  BY <1>1, <1>2, <1>3 DEF Plus, Console!Plus

LEMMA FromIs ==
  ASSUME NEW b \in Nat, NEW m \in Nat
  PROVE  /\ From(b, m) \in Seq(Byte) /\ Len(From(b, m)) = m
         /\ \A k \in 1..m : From(b, m)[k] = Plus(b, k - 1)
<1>1. \A k \in 1..m : Plus(b, k - 1) \in Byte
  <2> TAKE k \in 1..m
  <2>1. k - 1 \in Nat
    OBVIOUS
  <2> QED  BY <2>1, PlusIs
<1> QED  BY <1>1 DEF From, Console!From, Plus

(***************************************************************************)
(* A FIFO p of the bytes from o up to i: what enters, and what leaves.     *)
(***************************************************************************)
Stream(p, i, o) ==
  /\ p \in Seq(Byte) /\ Len(p) <= FIFO_DEPTH /\ o \in Byte /\ i \in Byte
  /\ p = From(o, Len(p)) /\ i = Plus(o, Len(p))

LEMMA StreamEnters ==
  ASSUME NEW p, NEW i, NEW o, Stream(p, i, o), Len(p) < FIFO_DEPTH
  PROVE  Stream(Append(p, i), Plus(i, 1), o)
<1> DEFINE n == Len(p)
           q == Append(p, i)
           new == From(o, n + 1)
<1>1. n \in Nat /\ n + 1 \in Nat /\ p \in Seq(Byte) /\ i \in Byte /\ o \in Nat /\ o \in Byte
  <2>1. p \in Seq(Byte) /\ i \in Byte /\ o \in Byte
    BY DEF Stream
  <2>2. n \in Nat
    BY <2>1
  <2> HIDE DEF n
  <2>3. o \in Nat /\ n + 1 \in Nat
    BY <2>1, <2>2, PlusIs
  <2> QED  BY <2>1, <2>2, <2>3
<1>2. q \in Seq(Byte) /\ Len(q) = n + 1 /\ (\A k \in 1..n : q[k] = p[k]) /\ q[n + 1] = i
  <2> HIDE DEF n
  <2>1. n = Len(p)
    BY DEF n
  <2> QED  BY <1>1, <2>1, AppendProperties
<1>3. /\ new \in Seq(Byte) /\ Len(new) = n + 1
      /\ \A k \in 1..(n + 1) : new[k] = Plus(o, k - 1)
  BY <1>1, FromIs
<1>4. i = Plus(o, n) /\ \A k \in 1..n : p[k] = Plus(o, k - 1)
  BY <1>1, FromIs DEF Stream
<1> HIDE DEF n, q, new
<1>5. \A k \in 1..(n + 1) : q[k] = new[k]
  <2> TAKE k \in 1..(n + 1)
  <2>1. CASE k \in 1..n
    BY <1>2, <1>3, <1>4, <2>1
  <2>2. CASE k = n + 1
    <3>1. k - 1 = n
      BY <1>1, <2>2
    <3> QED  BY <1>2, <1>3, <1>4, <2>2, <3>1
  <2> QED  BY <1>1, <2>1, <2>2
<1>6. q = new
  BY <1>1, <1>2, <1>3, <1>5, SeqEqual
<1>7. Plus(i, 1) = Plus(o, n + 1) /\ Plus(i, 1) \in Byte
  <2>1. Plus(o, n + 1) \in Byte
    BY <1>1, PlusIs
  <2> QED  BY <1>1, <1>4, <2>1, PlusPlus
<1>8. Len(q) <= FIFO_DEPTH
  BY <1>1, <1>2, Depths DEF n
<1>9. q = From(o, Len(q)) /\ Plus(i, 1) = Plus(o, Len(q))
  BY <1>2, <1>6, <1>7 DEF new
<1> QED  BY <1>1, <1>2, <1>7, <1>8, <1>9 DEF Stream, q

LEMMA StreamLeaves ==
  ASSUME NEW p, NEW i, NEW o, Stream(p, i, o), p # <<>>
  PROVE  Head(p) = o /\ Stream(Tail(p), i, Plus(o, 1))
<1> DEFINE n == Len(p)
           q == Tail(p)
           new == From(Plus(o, 1), n - 1)
<1>1. /\ n \in Nat /\ n > 0 /\ n - 1 \in Nat /\ p \in Seq(Byte) /\ i \in Byte /\ o \in Nat
      /\ o \in Byte /\ Plus(o, 1) \in Byte /\ Plus(o, 1) \in Nat
  <2>1. p \in Seq(Byte) /\ i \in Byte /\ o \in Byte
    BY DEF Stream
  <2>2. n \in Nat /\ n > 0
    BY <2>1
  <2> HIDE DEF n
  <2>3. o \in Nat /\ n - 1 \in Nat
    BY <2>1, <2>2, PlusIs
  <2>4. Plus(o, 1) \in Byte /\ Plus(o, 1) \in Nat
    BY <2>3, PlusIs
  <2> QED  BY <2>1, <2>2, <2>3, <2>4
<1>2. i = Plus(o, n) /\ \A k \in 1..n : p[k] = Plus(o, k - 1)
  BY <1>1, FromIs DEF Stream
<1>3. q \in Seq(Byte) /\ Len(q) = n - 1 /\ \A k \in 1..(n - 1) : q[k] = p[k + 1]
  BY <1>1
<1>4. Head(p) = o
  <2>1. Head(p) = p[1] /\ 1 \in 1..n /\ 1 - 1 = 0
    BY <1>1
  <2> QED  BY <1>1, <1>2, <2>1, PlusIs
<1>5. /\ new \in Seq(Byte) /\ Len(new) = n - 1
      /\ \A k \in 1..(n - 1) : new[k] = Plus(Plus(o, 1), k - 1)
  BY <1>1, FromIs
<1>6. i = Plus(Plus(o, 1), n - 1)
  <2>1. 1 + (n - 1) = n
    BY <1>1
  <2> HIDE DEF n
  <2> QED  BY <1>1, <1>2, <2>1, PlusPlus
<1> HIDE DEF n, q, new
<1>7. \A k \in 1..(n - 1) : q[k] = new[k]
  <2> TAKE k \in 1..(n - 1)
  <2>1. k + 1 \in 1..n /\ k - 1 \in Nat /\ 1 + (k - 1) = (k + 1) - 1
    BY <1>1
  <2>2. Plus(Plus(o, 1), k - 1) = Plus(o, (k + 1) - 1)
    BY <1>1, <2>1, PlusPlus
  <2> QED  BY <1>2, <1>3, <1>5, <2>1, <2>2
<1>8. q = new
  BY <1>3, <1>5, <1>7, SeqEqual
<1>9. Len(q) <= FIFO_DEPTH
  BY <1>1, <1>3, Depths DEF n, Stream
<1>10. q = From(Plus(o, 1), Len(q)) /\ i = Plus(Plus(o, 1), Len(q))
  BY <1>3, <1>6, <1>8 DEF new
<1> QED  BY <1>1, <1>3, <1>4, <1>9, <1>10 DEF Stream, q

(***************************************************************************)
(* The invariant: either FIFO is a stream, and the byte that write has     *)
(* found space for will find it, for nobody else writes.                   *)
(***************************************************************************)
PolledCalls ==
  [at : {"idle", "w_space", "w_data", "r_data"}, left : 0..MaxCount,
   moved : BOOLEAN, nonblock : BOOLEAN, result : {"done", "EWOULDBLOCK"}]
PolledInv ==
  /\ Stream(wfifo, wrote, got) /\ Stream(rfifo, sent, reads)
  /\ ien \subseteq Console!Interrupts /\ pause_irq \in BOOLEAN /\ ac \in BOOLEAN
  /\ connected \in BOOLEAN
  /\ polled_call \in PolledCalls /\ (polled_call.at = "idle" <=> polled_call.left = 0)
  /\ polled_call.at = "w_data" => Len(wfifo) < FIFO_DEPTH

LEMMA PolledTypes == PolledInv => Console!TypeOK
<1> SUFFICES ASSUME PolledInv PROVE Console!TypeOK
  OBVIOUS
<1>1. /\ wfifo \in Seq(Byte) /\ Len(wfifo) <= FIFO_DEPTH /\ wrote \in Byte /\ got \in Byte
      /\ rfifo \in Seq(Byte) /\ Len(rfifo) <= FIFO_DEPTH /\ sent \in Byte /\ reads \in Byte
  BY DEF PolledInv, Stream
<1>2. Console!DeviceTypeOK
  BY <1>1 DEF Console!DeviceTypeOK, PolledInv, Byte
<1> QED  BY <1>1, <1>2 DEF Console!TypeOK, PolledInv, PolledCalls, Byte

\* What either direction may do in a step, and what becomes of the stream.
Enters(p, i, o) ==
  Len(p) < FIFO_DEPTH /\ p' = Append(p, i) /\ i' = Plus(i, 1) /\ UNCHANGED o
Leaves(p, i, o) == p # <<>> /\ p' = Tail(p) /\ o' = Plus(Head(p), 1) /\ UNCHANGED i
Moves(p, i, o) == Enters(p, i, o) \/ Leaves(p, i, o) \/ UNCHANGED <<p, i, o>>

LEMMA StreamMoves ==
  /\ Stream(wfifo, wrote, got) /\ Moves(wfifo, wrote, got) => Stream(wfifo, wrote, got)'
  /\ Stream(rfifo, sent, reads) /\ Moves(rfifo, sent, reads) => Stream(rfifo, sent, reads)'
<1>1. ASSUME Stream(wfifo, wrote, got), Moves(wfifo, wrote, got) PROVE Stream(wfifo', wrote', got')
  <2>1. CASE Enters(wfifo, wrote, got)
    BY <1>1, <2>1, StreamEnters DEF Enters
  <2>2. CASE Leaves(wfifo, wrote, got)
    BY <1>1, <2>2, StreamLeaves DEF Leaves
  <2> QED  BY <1>1, <2>1, <2>2 DEF Moves
<1>2. ASSUME Stream(rfifo, sent, reads), Moves(rfifo, sent, reads)
      PROVE  Stream(rfifo', sent', reads')
  <2>1. CASE Enters(rfifo, sent, reads)
    BY <1>2, <2>1, StreamEnters DEF Enters
  <2>2. CASE Leaves(rfifo, sent, reads)
    BY <1>2, <2>2, StreamLeaves DEF Leaves
  <2> QED  BY <1>2, <2>1, <2>2 DEF Moves
<1> QED  BY <1>1, <1>2 DEF Stream, From, Console!From, Console!Plus, Plus, Byte, Console!Byte

\* The steps of the console and its host.
PolledMoves ==
  /\ Moves(wfifo, wrote, got) /\ Moves(rfifo, sent, reads)
  /\ ien' = ien /\ pause_irq' \in BOOLEAN /\ ac' \in BOOLEAN /\ connected' \in BOOLEAN

\* A call that goes on with a byte less.
LEMMA PolledLess ==
  ASSUME NEW c \in PolledCalls, c.left # 0, c.left # 1
  PROVE  /\ [c EXCEPT !.at = "w_space", !.left = @ - 1] \in PolledCalls
         /\ [c EXCEPT !.at = "w_space", !.left = @ - 1].at = "w_space"
         /\ [c EXCEPT !.at = "w_space", !.left = @ - 1].left # 0
         /\ [c EXCEPT !.left = @ - 1, !.moved = TRUE] \in PolledCalls
         /\ [c EXCEPT !.left = @ - 1, !.moved = TRUE].at = c.at
         /\ [c EXCEPT !.left = @ - 1, !.moved = TRUE].left # 0
<1>1. c.left - 1 \in 0..MaxCount /\ c.left - 1 # 0
  BY Depths DEF PolledCalls
<1> QED  BY <1>1 DEF PolledCalls

LEMMA PolledCallStep ==
  ASSUME PolledInv, Console!Working \/ Console!Calling
  PROVE  /\ PolledMoves /\ UNCHANGED <<ac, connected, got, sent>>
         /\ polled_call' \in PolledCalls /\ (polled_call'.at = "idle" <=> polled_call'.left = 0)
         /\ polled_call'.at = "w_data" => Len(wfifo') < FIFO_DEPTH
<1>0. /\ polled_call \in PolledCalls /\ (polled_call.at = "idle" <=> polled_call.left = 0)
      /\ pause_irq \in BOOLEAN /\ ac \in BOOLEAN /\ connected \in BOOLEAN
      /\ Len(wfifo) \in Nat /\ (polled_call.at = "w_data" => Len(wfifo) < FIFO_DEPTH)
  BY DEF PolledInv, Stream
<1>1. \A c \in {Console!Rest("done"), Console!Rest("EWOULDBLOCK")} :
        c \in PolledCalls /\ c.at = "idle" /\ c.left = 0
  <2>1. 0 \in 0..MaxCount
    BY Depths
  <2>2. ASSUME NEW r \in {"done", "EWOULDBLOCK"}
        PROVE  /\ Console!Rest(r) \in PolledCalls
               /\ Console!Rest(r).at = "idle" /\ Console!Rest(r).left = 0
    BY <2>1 DEF Console!Rest, PolledCalls
  <2> QED  BY <2>2
<1>2. CASE Console!Calling
  <2>1. PICK place \in {"w_space", "r_data"}, count \in 1..MaxCount, nonblock \in BOOLEAN :
          Console!Invoke(place, count, nonblock)
    BY <1>2 DEF Console!Calling
  <2>2. polled_call' = [at |-> place, left |-> count, moved |-> FALSE, nonblock |-> nonblock,
                        result |-> "done"]
        /\ UNCHANGED <<wfifo, rfifo, ien, pause_irq, ac, connected, got, sent, wrote, reads>>
    BY <2>1 DEF Console!Invoke, Console!device, Console!host
  <2>3. polled_call' \in PolledCalls /\ polled_call'.at # "w_data"
        /\ (polled_call'.at = "idle" <=> polled_call'.left = 0)
    BY <2>1, <2>2, Depths DEF PolledCalls
  <2> QED  BY <1>0, <2>2, <2>3 DEF PolledMoves, Moves
<1>3. CASE Console!PollSpace
  <2>1. polled_call.at = "w_space" /\ polled_call' = [polled_call EXCEPT !.at = "w_data"]
        /\ FIFO_DEPTH - Len(wfifo) > 0
        /\ UNCHANGED <<wfifo, rfifo, ien, pause_irq, ac, connected, got, sent, wrote, reads>>
    BY <1>3 DEF Console!PollSpace, Console!device, Console!host, Console!WSPACE
  <2>2. polled_call' \in PolledCalls /\ (polled_call'.at = "idle" <=> polled_call'.left = 0)
    BY <1>0, <2>1 DEF PolledCalls
  <2>3. Len(wfifo') < FIFO_DEPTH
    BY <1>0, <2>1, Depths
  <2> QED  BY <1>0, <2>1, <2>2, <2>3 DEF PolledMoves, Moves
<1>4. CASE Console!WriteByte
  <2>1. /\ polled_call.at = "w_data" /\ wrote' = Plus(wrote, 1) /\ UNCHANGED reads
        /\ polled_call' = IF polled_call.left = 1 THEN Console!Rest("done")
                          ELSE [polled_call EXCEPT !.at = "w_space", !.left = @ - 1]
    BY <1>4 DEF Console!WriteByte, Plus
  <2>2. UNCHANGED <<rfifo, ien, pause_irq, ac, connected, got, sent>>
    BY <1>4 DEF Console!WriteByte, Console!IOWR_DATA, Console!host
  <2>3. Len(wfifo) < FIFO_DEPTH /\ wfifo' = Append(wfifo, wrote)
    BY <1>0, <1>4, <2>1, Depths DEF Console!WriteByte, Console!IOWR_DATA, Console!WSPACE
  <2>4. polled_call' \in PolledCalls /\ (polled_call'.at = "idle" <=> polled_call'.left = 0)
        /\ polled_call'.at # "w_data"
    <3>1. CASE polled_call.left = 1
      BY <1>1, <2>1, <3>1
    <3>2. CASE polled_call.left # 1
      BY <1>0, <2>1, <3>2, PolledLess
    <3> QED  BY <3>1, <3>2
  <2> QED  BY <1>0, <2>1, <2>2, <2>3, <2>4 DEF PolledMoves, Moves, Enters
<1>5. CASE Console!ReadByte
  <2>1. polled_call.at = "r_data" /\ pause_irq' = FALSE
        /\ UNCHANGED <<wfifo, ien, ac, connected, got, sent, wrote>>
    BY <1>5 DEF Console!ReadByte, Console!IORD_DATA, Console!host
  <2>2. CASE rfifo # <<>>
    <3>1. /\ rfifo' = Tail(rfifo) /\ reads' = Plus(Head(rfifo), 1)
          /\ polled_call' = IF polled_call.left = 1 THEN Console!Rest("done")
                            ELSE [polled_call EXCEPT !.left = @ - 1, !.moved = TRUE]
      BY <1>5, <2>2 DEF Console!ReadByte, Console!IORD_DATA, Console!RVALID, Plus
    <3>2. polled_call' \in PolledCalls /\ (polled_call'.at = "idle" <=> polled_call'.left = 0)
          /\ polled_call'.at # "w_data"
      <4>1. CASE polled_call.left = 1
        BY <1>1, <3>1, <4>1
      <4>2. CASE polled_call.left # 1
        BY <1>0, <2>1, <3>1, <4>2, PolledLess
      <4> QED  BY <4>1, <4>2
    <3> QED  BY <1>0, <2>1, <2>2, <3>1, <3>2 DEF PolledMoves, Moves, Leaves
  <2>3. CASE rfifo = <<>>
    <3>1. /\ UNCHANGED <<rfifo, reads>>
          /\ polled_call' \in {Console!Rest("done"), Console!Rest("EWOULDBLOCK"), polled_call}
      BY <1>5, <2>3 DEF Console!ReadByte, Console!IORD_DATA, Console!RVALID
    <3>2. polled_call' \in PolledCalls /\ (polled_call'.at = "idle" <=> polled_call'.left = 0)
          /\ polled_call'.at # "w_data"
      BY <1>0, <1>1, <2>1, <3>1
    <3> QED  BY <1>0, <2>1, <3>1, <3>2 DEF PolledMoves, Moves
  <2> QED  BY <2>2, <2>3
<1> QED  BY <1>2, <1>3, <1>4, <1>5 DEF Console!Working

LEMMA PolledHostStep ==
  ASSUME PolledInv, Console!Host
  PROVE  PolledMoves /\ UNCHANGED <<polled_call, wrote, reads>> /\ Len(wfifo') <= Len(wfifo)
<1>0. /\ pause_irq \in BOOLEAN /\ ac \in BOOLEAN /\ connected \in BOOLEAN
      /\ wfifo \in Seq(Byte) /\ Len(wfifo) \in Nat
  BY DEF PolledInv, Stream
<1>1. UNCHANGED <<polled_call, wrote, reads>>
  BY DEF Console!Host
<1>2. CASE Console!Plug
  BY <1>0, <1>1, <1>2 DEF Console!Plug, PolledMoves, Moves
<1>3. CASE Console!Pause
  BY <1>0, <1>1, <1>3 DEF Console!Pause, Console!host, Console!RVALID, PolledMoves, Moves
<1>4. CASE Console!Take
  <2>1. /\ wfifo # <<>> /\ wfifo' = Tail(wfifo) /\ got' = Plus(Head(wfifo), 1)
        /\ ac' \in {ac, TRUE} /\ UNCHANGED <<rfifo, ien, pause_irq, connected, sent>>
    BY <1>4 DEF Console!Take, Plus
  <2>2. Len(wfifo') <= Len(wfifo)
    BY <1>0, <2>1
  <2> QED  BY <1>0, <1>1, <2>1, <2>2 DEF PolledMoves, Moves, Leaves
<1>5. CASE Console!Send
  BY <1>0, <1>1, <1>5 DEF Console!Send, Plus, PolledMoves, Moves, Enters
<1> QED  BY <1>2, <1>3, <1>4, <1>5 DEF Console!Host, Console!HostNext

LEMMA PolledStep ==
  ASSUME PolledInv, Console!Next \/ UNCHANGED consoleVars PROVE PolledMoves /\ PolledInv'
<1>0. Len(wfifo) \in Nat /\ (polled_call.at = "w_data" => Len(wfifo) < FIFO_DEPTH)
      /\ ien \subseteq Console!Interrupts
  BY DEF PolledInv, Stream
<1>1. CASE Console!Working \/ Console!Calling
  BY <1>0, <1>1, PolledCallStep, StreamMoves DEF PolledInv, PolledMoves, Console!Interrupts
<1>2. CASE Console!Host
  <2>1. PolledMoves /\ UNCHANGED <<polled_call, wrote, reads>> /\ Len(wfifo') <= Len(wfifo)
    BY <1>2, PolledHostStep
  <2>2. Stream(wfifo, wrote, got)' /\ Stream(rfifo, sent, reads)'
    BY <2>1, StreamMoves DEF PolledInv, PolledMoves
  <2>3. Len(wfifo') \in Nat
    BY <2>2 DEF Stream
  <2>4. polled_call'.at = "w_data" => Len(wfifo') < FIFO_DEPTH
    BY <1>0, <2>1, <2>3, Depths
  <2>5. polled_call' \in PolledCalls /\ (polled_call'.at = "idle" <=> polled_call'.left = 0)
    BY <2>1 DEF PolledInv
  <2> QED  BY <1>0, <2>1, <2>2, <2>4, <2>5 DEF PolledInv, PolledMoves, Console!Interrupts
<1>3. CASE UNCHANGED consoleVars
  <2>1. UNCHANGED <<wfifo, rfifo, ien, pause_irq, ac, connected, got, sent, polled_call, wrote, reads>>
    BY <1>3 DEF consoleVars
  <2>2. PolledMoves
    BY <2>1 DEF PolledMoves, Moves, PolledInv
  <2>3. Stream(wfifo, wrote, got)' /\ Stream(rfifo, sent, reads)'
    BY <2>2, StreamMoves DEF PolledInv, PolledMoves
  <2> QED  BY <2>1, <2>2, <2>3 DEF PolledInv, PolledCalls, Console!Interrupts
<1> QED  BY <1>1, <1>2, <1>3 DEF Console!Next

LEMMA PolledInit == ASSUME Console!Init PROVE PolledInv
<1>1. 0 \in 0..MaxCount /\ 0 \in Byte
  BY Depths DEF Byte, Console!Byte
<1>2. polled_call \in PolledCalls /\ polled_call.at = "idle" /\ polled_call.left = 0
  BY <1>1 DEF Console!Init, Console!Rest, PolledCalls
<1>3. Stream(<<>>, 0, 0)
  <2>1. From(0, 0) = <<>> /\ Len(From(0, 0)) = 0
    BY FromIs
  <2> QED  BY <1>1, <2>1, PlusIs, Depths DEF Stream
<1> QED  BY <1>2, <1>3 DEF Console!Init, PolledInv

\* In the words of ByteStream, the pipes are the FIFOs.
LEMMA StreamStep ==
  ASSUME NEW p, NEW i, NEW o, Stream(p, i, o)
  PROVE  /\ Len(p) < FIFO_DEPTH =>
              /\ 1 \in 1..(FIFO_DEPTH - Len(p))
              /\ Append(p, i) = p \o [k \in 1..1 |-> Plus(i, k - 1)]
         /\ p # <<>> =>
              /\ 1 \in 1..Len(p) /\ (\A k \in 1..1 : p[k] = Plus(o, k - 1))
              /\ Tail(p) = SubSeq(p, 1 + 1, Len(p)) /\ Head(p) = o
<1>1. p \in Seq(Byte) /\ i \in Byte /\ o \in Byte
  BY DEF Stream
<1>2. Len(p) \in Nat /\ i \in Nat /\ Plus(i, 0) = i /\ Plus(o, 0) = o
  BY <1>1, PlusIs
<1>3. ASSUME Len(p) < FIFO_DEPTH
      PROVE  /\ 1 \in 1..(FIFO_DEPTH - Len(p))
             /\ Append(p, i) = p \o [k \in 1..1 |-> Plus(i, k - 1)]
  <2>1. [k \in 1..1 |-> Plus(i, k - 1)] = <<i>>
    <3>1. \A k \in 1..1 : Plus(i, k - 1) = i
      BY <1>2
    <3> QED  BY <3>1
  <2>2. Append(p, i) = p \o <<i>>
    BY <1>1, AppendIsConcat
  <2> QED  BY <1>2, <1>3, <2>1, <2>2, Depths
<1>4. ASSUME p # <<>>
      PROVE  /\ 1 \in 1..Len(p) /\ (\A k \in 1..1 : p[k] = Plus(o, k - 1))
             /\ Tail(p) = SubSeq(p, 1 + 1, Len(p)) /\ Head(p) = o
  <2>1. Head(p) = o
    BY <1>4, StreamLeaves
  <2>2. 1 \in 1..Len(p) /\ p[1] = Head(p) /\ Tail(p) = SubSeq(p, 1 + 1, Len(p))
    BY <1>1, <1>2, <1>4
  <2>3. \A k \in 1..1 : k = 1 /\ k - 1 = 0
    OBVIOUS
  <2> QED  BY <1>2, <2>1, <2>2, <2>3
<1> QED  BY <1>3, <1>4

LEMMA OutputStep ==
  ASSUME Stream(wfifo, wrote, got), Moves(wfifo, wrote, got)
  PROVE  [Console!Output!Enter \/ Console!Output!Leave]_<<wfifo, wrote, got>>
<1>1. \A b, n : Console!Output!ByteAt(b, n) = Plus(b, n)
  BY DEF Console!Output!ByteAt, Plus, Console!Plus
<1>2. CASE Enters(wfifo, wrote, got)
  <2>1. \E n \in 1..(FIFO_DEPTH - Len(wfifo)) :
          /\ wfifo' = wfifo \o [k \in 1..n |-> Plus(wrote, k - 1)]
          /\ wrote' = Plus(wrote, n)
    BY <1>2, StreamStep DEF Enters
  <2> QED  BY <1>1, <1>2, <2>1 DEF Console!Output!Enter, Enters
<1>3. CASE Leaves(wfifo, wrote, got)
  <2>1. \E n \in 1..Len(wfifo) :
          /\ \A k \in 1..n : wfifo[k] = Plus(got, k - 1)
          /\ wfifo' = SubSeq(wfifo, n + 1, Len(wfifo))
          /\ got' = Plus(got, n)
    BY <1>3, StreamStep DEF Leaves
  <2> QED  BY <1>1, <1>3, <2>1 DEF Console!Output!Leave, Leaves
<1> QED  BY <1>2, <1>3 DEF Moves

LEMMA InputStep ==
  ASSUME Stream(rfifo, sent, reads), Moves(rfifo, sent, reads)
  PROVE  [Console!Input!Enter \/ Console!Input!Leave]_<<rfifo, sent, reads>>
<1>1. \A b, n : Console!Input!ByteAt(b, n) = Plus(b, n)
  BY DEF Console!Input!ByteAt, Plus, Console!Plus
<1>2. CASE Enters(rfifo, sent, reads)
  <2>1. \E n \in 1..(FIFO_DEPTH - Len(rfifo)) :
          /\ rfifo' = rfifo \o [k \in 1..n |-> Plus(sent, k - 1)]
          /\ sent' = Plus(sent, n)
    BY <1>2, StreamStep DEF Enters
  <2> QED  BY <1>1, <1>2, <2>1 DEF Console!Input!Enter, Enters
<1>3. CASE Leaves(rfifo, sent, reads)
  <2>1. \E n \in 1..Len(rfifo) :
          /\ \A k \in 1..n : rfifo[k] = Plus(reads, k - 1)
          /\ rfifo' = SubSeq(rfifo, n + 1, Len(rfifo))
          /\ reads' = Plus(reads, n)
    BY <1>3, StreamStep DEF Leaves
  <2> QED  BY <1>1, <1>3, <2>1 DEF Console!Input!Leave, Leaves
<1> QED  BY <1>2, <1>3 DEF Moves

LEMMA PolledAlways == Spec => []PolledInv
<1>1. Init => PolledInv
  BY PartsStart, PolledInit
<1>2. PolledInv /\ [Next]_vars => PolledInv'
  BY PartsStep, PolledStep
<1> QED  BY <1>1, <1>2, PTL DEF Spec

(***************************************************************************)
(* For a FIFO of any depth and calls of any length, and whatever the host  *)
(* does between two accesses of the device: what processor B writes comes  *)
(* out at the host, and what the host sends is read, each byte once, in    *)
(* order.  Nothing of this rests on the fairness of Spec.                  *)
(***************************************************************************)
THEOREM PolledStreams == Spec => Streams
<1>1. PolledInv /\ [Next]_vars =>
        /\ [Console!Output!Enter \/ Console!Output!Leave]_<<wfifo, wrote, got>>
        /\ [Console!Input!Enter \/ Console!Input!Leave]_<<rfifo, sent, reads>>
  BY PartsStep, PolledStep, OutputStep, InputStep DEF PolledInv, PolledMoves
<1>2. Init => Console!Output!StreamInit /\ Console!Input!StreamInit
  BY PartsStart DEF Console!Init, Console!Output!StreamInit, Console!Input!StreamInit
<1>3. Spec => Console!OutputIsStream
  BY <1>1, <1>2, PolledAlways, PTL DEF Spec, Console!OutputIsStream, Console!Output!StreamSpec
<1>4. Spec => Console!InputIsStream
  BY <1>1, <1>2, PolledAlways, PTL DEF Spec, Console!InputIsStream, Console!Input!StreamSpec
<1> QED  BY <1>3, <1>4 DEF Streams

-----------------------------------------------------------------------------
(***************************************************************************)
(* Alarms.  The invariant: the list is a ring, entry after entry from the  *)
(* head round to the head, with alt_tick at one place of it.  Alarms that  *)
(* alt_tick has passed in this tick, or all when it is not running, are    *)
(* not due and have the right flag; those it still comes to may be due,    *)
(* and at a count of zero have the flag of the turn that is over.          *)
(***************************************************************************)
Ring(l, R, k, q) ==
  /\ q \in [0..(k + 1) -> Alarm!Entry] /\ q[0] = ListHead /\ q[k + 1] = ListHead
  /\ \A i \in 0..k : l.next[q[i]] = q[i + 1] /\ l.previous[q[i + 1]] = q[i]
  /\ \A i, m \in 1..k : q[i] = q[m] => i = m
  /\ \A a \in R : \E i \in 1..k : q[i] = a
  /\ \A i \in 1..k : q[i] \in R

\* The links of an alarm that is not in the list: its own, or none yet.
Loose(l, a) ==
  \/ l.next[a] = Null /\ l.previous[a] = Null
  \/ l.next[a] = a /\ l.previous[a] = a

Links == [next : [Alarm!Entry -> Alarm!Entry \cup {Null}],
          previous : [Alarm!Entry -> Alarm!Entry \cup {Null}]]
Lists == [list : Links, time : [UserAlarm -> 0..(Wrap - 1)], rollover : [UserAlarm -> BOOLEAN],
          left : [UserAlarm -> (0..Wrap) \cup {Null}]]
In_list(s) == {a \in UserAlarm : s.left[a] # Null}

\* The time of an alarm that is due in n ticks.
Time(n) == IF nticks + n < Wrap THEN nticks + n ELSE nticks + n - Wrap
Timed(s, a) == s.left[a] \in 0..(Wrap - 1) /\ s.time[a] = Time(s.left[a])
Flagged(s, a) == s.rollover[a] <=> nticks + s.left[a] >= Wrap
Passed(s, a) == s.left[a] > 0 /\ Flagged(s, a)
Ahead(s, a) == nticks # 0 => Flagged(s, a)

\* alt_tick is at place j of the ring q of k alarms.
Order(s, k, q, j) ==
  /\ s \in Lists /\ k \in Nat /\ j \in 1..(k + 1)
  /\ Ring(s.list, In_list(s), k, q)
  /\ \A a \in UserAlarm \ In_list(s) : Loose(s.list, a)
  /\ \A a \in In_list(s) : Timed(s, a)
  /\ \A i \in 1..k : IF i < j THEN Passed(s, q[i]) ELSE Ahead(s, q[i])

\* Such a place is at entry e.
InOrder(s, e) ==
  \E k \in Nat : \E q \in [0..(k + 1) -> Alarm!Entry] : \E j \in 1..(k + 1) :
    Order(s, k, q, j) /\ e = q[j]

AlarmInv ==
  /\ tick_rate \in BOOLEAN /\ nticks \in 0..(Wrap - 1)
  /\ alarm \in Alarm!Entry /\ InOrder(Alarm!State, alarm)

\* What the calls are made of.
Gentle == ~StopsOthers /\ MaxDelay + 1 < Wrap

LEMMA AlarmConstants ==
  /\ Wrap \in Nat /\ Wrap > 1 /\ MaxDelay \in 0..(Wrap - 1) /\ MaxDelay \in Nat
  /\ ListHead \notin UserAlarm /\ Null \notin UserAlarm /\ Null # ListHead
  /\ Null \notin Nat /\ Null \notin 0..Wrap
BY RuntimeAssumption DEF Alarm!AlarmAssumption

\* No entry comes twice, the head's place at both ends apart.
LEMMA RingDistinct ==
  ASSUME NEW l, NEW R \in SUBSET UserAlarm, NEW k \in Nat, NEW q, Ring(l, R, k, q)
  PROVE  /\ \A i, m \in 0..k : q[i] = q[m] => i = m
         /\ \A i, m \in 1..(k + 1) : q[i] = q[m] => i = m
         /\ \A i \in 1..k : q[i] # ListHead /\ q[i] \in UserAlarm
         /\ \A i \in 0..(k + 1) : q[i] \in Alarm!Entry
<1>1. \A i \in 1..k : q[i] # ListHead /\ q[i] \in UserAlarm
  BY AlarmConstants DEF Ring
<1>2. \A i \in 0..(k + 1) : q[i] \in Alarm!Entry
  BY DEF Ring
<1>3. \A i, m \in 0..k : q[i] = q[m] => i = m
  BY <1>1 DEF Ring
<1>4. \A i, m \in 1..(k + 1) : q[i] = q[m] => i = m
  BY <1>1 DEF Ring
<1> QED  BY <1>1, <1>2, <1>3, <1>4

Inserted(q, k, a) ==
  [i \in 0..((k + 1) + 1) |-> IF i = 0 THEN ListHead ELSE IF i = 1 THEN a ELSE q[i - 1]]
Removed(q, k, m) == [i \in 0..((k - 1) + 1) |-> IF i < m THEN q[i] ELSE q[i + 1]]

LEMMA InsertLinks ==
  ASSUME NEW l \in Links, NEW a \in UserAlarm, NEW b \in Alarm!Entry, l.next[ListHead] = b
  PROVE  /\ Alarm!Insert(l, a) \in Links
         /\ \A x \in Alarm!Entry :
              /\ Alarm!Insert(l, a).next[x] =
                   IF x = ListHead THEN a ELSE IF x = a THEN b ELSE l.next[x]
              /\ Alarm!Insert(l, a).previous[x] =
                   IF x = b THEN a ELSE IF x = a THEN ListHead ELSE l.previous[x]
<1> DEFINE N == [[l.next EXCEPT ![a] = b] EXCEPT ![ListHead] = a]
           P == [[l.previous EXCEPT ![a] = ListHead] EXCEPT ![b] = a]
<1>1. Alarm!Insert(l, a) = [next |-> N, previous |-> P]
  BY Zenon DEF Alarm!Insert
<1>2. /\ l.next \in [Alarm!Entry -> Alarm!Entry \cup {Null}]
      /\ l.previous \in [Alarm!Entry -> Alarm!Entry \cup {Null}]
      /\ a \in Alarm!Entry /\ ListHead \in Alarm!Entry
  BY DEF Links, Alarm!Entry
<1>3. /\ N \in [Alarm!Entry -> Alarm!Entry \cup {Null}]
      /\ \A x \in Alarm!Entry :
           N[x] = IF x = ListHead THEN a ELSE IF x = a THEN b ELSE l.next[x]
  BY <1>2
<1>4. /\ P \in [Alarm!Entry -> Alarm!Entry \cup {Null}]
      /\ \A x \in Alarm!Entry :
           P[x] = IF x = b THEN a ELSE IF x = a THEN ListHead ELSE l.previous[x]
  BY <1>2
<1> HIDE DEF N, P
<1> QED  BY <1>1, <1>3, <1>4 DEF Links

LEMMA RemoveLinks ==
  ASSUME NEW l \in Links, NEW a \in UserAlarm, NEW b \in Alarm!Entry, NEW c \in Alarm!Entry,
         l.previous[a] = b, l.next[a] = c
  PROVE  /\ Alarm!Remove(l, a) \in Links
         /\ \A x \in Alarm!Entry :
              /\ Alarm!Remove(l, a).next[x] =
                   IF x = a THEN a ELSE IF x = b THEN c ELSE l.next[x]
              /\ Alarm!Remove(l, a).previous[x] =
                   IF x = a THEN a ELSE IF x = c THEN b ELSE l.previous[x]
<1> DEFINE N == [[l.next EXCEPT ![b] = c] EXCEPT ![a] = a]
           P == [[l.previous EXCEPT ![c] = b] EXCEPT ![a] = a]
<1>1. Alarm!Remove(l, a) = [next |-> N, previous |-> P]
  BY DEF Alarm!Remove
<1>2. /\ l.next \in [Alarm!Entry -> Alarm!Entry \cup {Null}]
      /\ l.previous \in [Alarm!Entry -> Alarm!Entry \cup {Null}]
      /\ a \in Alarm!Entry
  BY DEF Links, Alarm!Entry
<1>3. /\ N \in [Alarm!Entry -> Alarm!Entry \cup {Null}]
      /\ \A x \in Alarm!Entry : N[x] = IF x = a THEN a ELSE IF x = b THEN c ELSE l.next[x]
  BY <1>2
<1>4. /\ P \in [Alarm!Entry -> Alarm!Entry \cup {Null}]
      /\ \A x \in Alarm!Entry : P[x] = IF x = a THEN a ELSE IF x = c THEN b ELSE l.previous[x]
  BY <1>2
<1> HIDE DEF N, P
<1> QED  BY <1>1, <1>3, <1>4 DEF Links

LEMMA InsertRing ==
  ASSUME NEW l \in Links, NEW R \in SUBSET UserAlarm, NEW k \in Nat, NEW q, Ring(l, R, k, q),
         NEW a \in UserAlarm \ R
  PROVE  Ring(Alarm!Insert(l, a), R \cup {a}, k + 1, Inserted(q, k, a))
<1> DEFINE L == Alarm!Insert(l, a)
           p == Inserted(q, k, a)
<1>0. /\ \A i, m \in 0..k : q[i] = q[m] => i = m
      /\ \A i, m \in 1..(k + 1) : q[i] = q[m] => i = m
      /\ \A i \in 1..k : q[i] # ListHead /\ q[i] \in UserAlarm
      /\ \A i \in 0..(k + 1) : q[i] \in Alarm!Entry
  BY RingDistinct
<1>1. /\ q[0] = ListHead /\ q[k + 1] = ListHead /\ l.next[ListHead] = q[1] /\ q[1] \in Alarm!Entry
      /\ \A i \in 1..k : q[i] # a
  BY <1>0 DEF Ring
<1>2. \A x \in Alarm!Entry :
        /\ L.next[x] = IF x = ListHead THEN a ELSE IF x = a THEN q[1] ELSE l.next[x]
        /\ L.previous[x] = IF x = q[1] THEN a ELSE IF x = a THEN ListHead ELSE l.previous[x]
  BY <1>1, InsertLinks
<1>3. /\ p \in [0..((k + 1) + 1) -> Alarm!Entry] /\ p[0] = ListHead /\ p[1] = a
      /\ \A i \in 2..(k + 2) : p[i] = q[i - 1]
      /\ \A i \in 1..(k + 1) : p[i + 1] = q[i]
  <2>1. \A i \in 0..((k + 1) + 1) : i # 0 /\ i # 1 => i - 1 \in 0..(k + 1)
    OBVIOUS
  <2>2. a \in Alarm!Entry /\ ListHead \in Alarm!Entry
    BY DEF Alarm!Entry
  <2>3. p \in [0..((k + 1) + 1) -> Alarm!Entry]
    BY <2>1, <2>2, <1>0 DEF Inserted
  <2>4. p[0] = ListHead /\ p[1] = a
    BY DEF Inserted
  <2>5. \A i \in 2..(k + 2) : p[i] = q[i - 1]
    BY DEF Inserted
  <2>6. \A i \in 1..(k + 1) : p[i + 1] = q[i]
    <3>1. \A i \in 1..(k + 1) : i + 1 \in 2..(k + 2) /\ (i + 1) - 1 = i
      OBVIOUS
    <3> QED  BY <2>5, <3>1
  <2> QED  BY <2>3, <2>4, <2>5, <2>6
<1> HIDE DEF L, p
<1>4. ASSUME NEW i \in 0..(k + 1)
      PROVE  L.next[p[i]] = p[i + 1] /\ L.previous[p[i + 1]] = p[i]
  <2>0. a # ListHead /\ a \in Alarm!Entry /\ ListHead \in Alarm!Entry /\ q[1] # a
    <3>1. q[1] # a
      BY <1>1, AlarmConstants DEF Ring
    <3> QED  BY <3>1, AlarmConstants DEF Alarm!Entry
  <2>1. CASE i = 0
    BY <2>0, <2>1, <1>2, <1>3
  <2>2. CASE i = 1
    BY <2>0, <2>2, <1>1, <1>2, <1>3
  <2>3. CASE i > 1
    <3>1. i - 1 \in 1..k /\ i \in 2..(k + 1) /\ p[i] = q[i - 1] /\ p[i + 1] = q[i]
      BY <2>3, <1>3
    <3>2. /\ q[i - 1] # ListHead /\ q[i - 1] # a /\ q[i] # q[1]
          /\ q[i - 1] \in Alarm!Entry /\ q[i] \in Alarm!Entry /\ q[i] # a
      <4>1. q[i] # q[1]
        BY <1>0, <3>1
      <4>2. q[i] # a
        BY <3>1, <1>1, <2>0
      <4> QED  BY <3>1, <4>1, <4>2, <1>0, <1>1
    <3>3. l.next[q[i - 1]] = q[i] /\ l.previous[q[i]] = q[i - 1]
      <4>1. (i - 1) \in 0..k /\ (i - 1) + 1 = i
        BY <3>1
      <4> QED  BY <4>1 DEF Ring
    <3> QED  BY <3>1, <3>2, <3>3, <1>2
  <2> QED  BY <2>1, <2>2, <2>3
<1>5. ASSUME NEW i \in 1..(k + 1), NEW m \in 1..(k + 1), p[i] = p[m] PROVE i = m
  <2>1. \A n \in 1..(k + 1) : n > 1 => n - 1 \in 1..k /\ p[n] = q[n - 1]
    BY <1>3
  <2>2. \A n, o \in 1..k : q[n] = q[o] => n = o
    BY DEF Ring
  <2> QED  BY <1>5, <2>1, <2>2, <1>1, <1>3
<1>6. \A i \in 1..(k + 1) : p[i] \in R \cup {a}
  <2> SUFFICES ASSUME NEW i \in 1..(k + 1) PROVE p[i] \in R \cup {a}
    OBVIOUS
  <2>1. i = 1 \/ (i - 1 \in 1..k /\ p[i] = q[i - 1])
    BY <1>3
  <2> QED  BY <2>1, <1>3 DEF Ring
<1>7. ASSUME NEW b \in R \cup {a} PROVE \E i \in 1..(k + 1) : p[i] = b
  <2>1. CASE b = a
    BY <2>1, <1>3
  <2>2. CASE b \in R
    <3>1. PICK i \in 1..k : q[i] = b
      BY <2>2 DEF Ring
    <3>2. i + 1 \in 1..(k + 1) /\ p[i + 1] = b
      BY <3>1, <1>3
    <3> QED  BY <3>2
  <2> QED  BY <2>1, <2>2
<1>8. p[(k + 1) + 1] = ListHead
  BY <1>1, <1>3
<1> QED  BY <1>3, <1>4, <1>5, <1>6, <1>7, <1>8 DEF Ring, L, p

LEMMA RemoveRing ==
  ASSUME NEW l \in Links, NEW R \in SUBSET UserAlarm, NEW k \in Nat, NEW q, Ring(l, R, k, q),
         NEW m \in 1..k
  PROVE  /\ Ring(Alarm!Remove(l, q[m]), R \ {q[m]}, k - 1, Removed(q, k, m))
         /\ Loose(Alarm!Remove(l, q[m]), q[m])
<1> DEFINE a == q[m]
           L == Alarm!Remove(l, a)
           p == Removed(q, k, m)
<1>0. /\ \A i, n \in 0..k : q[i] = q[n] => i = n
      /\ \A i, n \in 1..(k + 1) : q[i] = q[n] => i = n
      /\ \A i \in 1..k : q[i] # ListHead /\ q[i] \in UserAlarm
      /\ \A i \in 0..(k + 1) : q[i] \in Alarm!Entry
  BY RingDistinct
<1>1. /\ q[0] = ListHead /\ q[k + 1] = ListHead /\ l.next[a] = q[m + 1] /\ a \in UserAlarm
      /\ a # ListHead /\ q[m - 1] \in Alarm!Entry /\ q[m + 1] \in Alarm!Entry
      /\ a \in Alarm!Entry
  BY <1>0 DEF Ring
<1>2. l.previous[a] = q[m - 1]
  <2>1. m - 1 \in 0..k /\ (m - 1) + 1 = m
    OBVIOUS
  <2> QED  BY <2>1 DEF Ring
<1>3. \A x \in Alarm!Entry :
        /\ L.next[x] = IF x = a THEN a ELSE IF x = q[m - 1] THEN q[m + 1] ELSE l.next[x]
        /\ L.previous[x] = IF x = a THEN a ELSE IF x = q[m + 1] THEN q[m - 1] ELSE l.previous[x]
  BY <1>1, <1>2, RemoveLinks
<1>4. /\ p \in [0..((k - 1) + 1) -> Alarm!Entry]
      /\ \A i \in 0..k : p[i] = IF i < m THEN q[i] ELSE q[i + 1]
  <2>1. k \in Nat /\ (k - 1) + 1 = k
    OBVIOUS
  <2>2. \A i \in 0..k : i \in 0..(k + 1) /\ i + 1 \in 0..(k + 1)
    OBVIOUS
  <2> QED  BY <2>1, <2>2, <1>0 DEF Removed
<1> HIDE DEF L, p
<1>5. ASSUME NEW i \in 0..(k - 1)
      PROVE  L.next[p[i]] = p[i + 1] /\ L.previous[p[i + 1]] = p[i]
  <2>0. i \in 0..k /\ i + 1 \in 0..k
    OBVIOUS
  <2>1. CASE i < m - 1
    <3>1. p[i] = q[i] /\ p[i + 1] = q[i + 1]
      BY <2>0, <2>1, <1>4
    <3>2. q[i] # q[m - 1] /\ q[i] # a
      BY <2>0, <2>1, <1>0
    <3>3. q[i + 1] # q[m + 1] /\ q[i + 1] # a
      <4>1. i + 1 \in 1..(k + 1) /\ m + 1 \in 1..(k + 1) /\ m \in 1..(k + 1) /\ i + 1 # m + 1
              /\ i + 1 # m
        BY <2>1
      <4> QED  BY <4>1, <1>0
    <3>4. l.next[q[i]] = q[i + 1] /\ l.previous[q[i + 1]] = q[i]
      BY <2>0 DEF Ring
    <3>5. q[i] \in Alarm!Entry /\ q[i + 1] \in Alarm!Entry
      BY <2>0, <1>0
    <3> QED  BY <3>1, <3>2, <3>3, <3>4, <3>5, <1>3
  <2>2. CASE i = m - 1
    <3>1. p[i] = q[m - 1] /\ p[i + 1] = q[m + 1]
      BY <2>0, <2>2, <1>4
    <3>2. q[m - 1] # a /\ q[m + 1] # a
      <4>1. m - 1 \in 0..k /\ m \in 0..k /\ m \in 1..(k + 1) /\ m + 1 \in 1..(k + 1)
        OBVIOUS
      <4> QED  BY <4>1, <1>0
    <3> QED  BY <3>1, <3>2, <1>1, <1>3
  <2>3. CASE i >= m
    <3>1. p[i] = q[i + 1] /\ p[i + 1] = q[(i + 1) + 1]
      BY <2>0, <2>3, <1>4
    <3>2. q[i + 1] # q[m - 1] /\ q[i + 1] # a
      <4>1. i + 1 \in 0..k /\ m - 1 \in 0..k /\ m \in 0..k /\ i + 1 # m - 1 /\ i + 1 # m
        BY <2>3
      <4> QED  BY <4>1, <1>0
    <3>3. q[(i + 1) + 1] # q[m + 1] /\ q[(i + 1) + 1] # a
      <4>1. /\ (i + 1) + 1 \in 1..(k + 1) /\ m + 1 \in 1..(k + 1) /\ m \in 1..(k + 1)
            /\ (i + 1) + 1 # m + 1 /\ (i + 1) + 1 # m
        BY <2>3
      <4> QED  BY <4>1, <1>0
    <3>4. l.next[q[i + 1]] = q[(i + 1) + 1] /\ l.previous[q[(i + 1) + 1]] = q[i + 1]
      BY <2>0 DEF Ring
    <3>5. q[i + 1] \in Alarm!Entry /\ q[(i + 1) + 1] \in Alarm!Entry
      BY <2>0, <1>0
    <3> QED  BY <3>1, <3>2, <3>3, <3>4, <3>5, <1>3
  <2> QED  BY <2>1, <2>2, <2>3
<1>6. ASSUME NEW i \in 1..(k - 1)
      PROVE  \E n \in 1..k : p[i] = q[n] /\ n # m /\ n = (IF i < m THEN i ELSE i + 1)
  BY <1>4
<1>7. ASSUME NEW i \in 1..(k - 1), NEW n \in 1..(k - 1), p[i] = p[n] PROVE i = n
  <2>1. \A c, d \in 1..k : q[c] = q[d] => c = d
    BY DEF Ring
  <2>2. PICK c \in 1..k : p[i] = q[c] /\ c = (IF i < m THEN i ELSE i + 1)
    BY <1>6
  <2>3. PICK d \in 1..k : p[n] = q[d] /\ d = (IF n < m THEN n ELSE n + 1)
    BY <1>6
  <2>4. c = d
    BY <2>1, <2>2, <2>3, <1>7
  <2> QED  BY <2>2, <2>3, <2>4
<1>8. \A i \in 1..(k - 1) : p[i] \in R \ {a}
  BY <1>0, <1>6, SMTT(40) DEF Ring
<1>9. ASSUME NEW b \in R \ {a} PROVE \E i \in 1..(k - 1) : p[i] = b
  <2>1. PICK n \in 1..k : q[n] = b
    BY <1>9 DEF Ring
  <2>2. n # m
    BY <1>9, <2>1
  <2>3. CASE n < m
    BY <2>1, <2>3, <1>4
  <2>4. CASE n > m
    <3>1. n - 1 \in 1..(k - 1) /\ p[n - 1] = q[(n - 1) + 1] /\ (n - 1) + 1 = n
      BY <2>4, <1>4
    <3> QED  BY <2>1, <3>1
  <2> QED  BY <2>2, <2>3, <2>4
<1>10. p[0] = ListHead /\ p[(k - 1) + 1] = ListHead
  BY <1>1, <1>4
<1>11. Loose(L, a)
  BY <1>1, <1>3 DEF Loose
<1>12. k - 1 \in Nat
  OBVIOUS
<1>13. Ring(L, R \ {a}, k - 1, p)
  BY <1>4, <1>5, <1>7, <1>8, <1>9, <1>10 DEF Ring
<1> QED  BY <1>11, <1>13 DEF L, p

\* Joining the neighbours of an entry that is not in the list changes nothing.
LEMMA RemoveLoose ==
  ASSUME NEW l \in Links, NEW a \in UserAlarm, Loose(l, a), l.next[a] # Null
  PROVE  Alarm!Remove(l, a) = l
<1>1. l.next[a] = a /\ l.previous[a] = a
  BY DEF Loose
<1>2. /\ l = [next |-> l.next, previous |-> l.previous]
      /\ l.next \in [Alarm!Entry -> Alarm!Entry \cup {Null}]
      /\ l.previous \in [Alarm!Entry -> Alarm!Entry \cup {Null}]
      /\ a \in Alarm!Entry
  BY DEF Links, Alarm!Entry
<1>3. [[l.next EXCEPT ![a] = a] EXCEPT ![a] = a] = l.next
  BY <1>1, <1>2
<1>4. [[l.previous EXCEPT ![a] = a] EXCEPT ![a] = a] = l.previous
  BY <1>1, <1>2
<1> QED  BY <1>1, <1>2, <1>3, <1>4 DEF Alarm!Remove

LEMMA StateFields ==
  ASSUME NEW s \in Lists
  PROVE  /\ s.list \in Links /\ s.time \in [UserAlarm -> 0..(Wrap - 1)]
         /\ s.rollover \in [UserAlarm -> BOOLEAN]
         /\ s.left \in [UserAlarm -> (0..Wrap) \cup {Null}]
BY DEF Lists

LEMMA StartedIs ==
  ASSUME NEW s \in Lists, NEW a \in UserAlarm, NEW n \in 0..MaxDelay, MaxDelay + 1 < Wrap,
         nticks \in 0..(Wrap - 1)
  PROVE  LET z == Alarm!Started(s, a, n)
         IN  /\ z.list = Alarm!Insert(s.list, a)
             /\ z.time = [s.time EXCEPT ![a] = Time(n + 1)]
             /\ z.rollover = [s.rollover EXCEPT ![a] = nticks + (n + 1) >= Wrap]
             /\ z.left = [s.left EXCEPT ![a] = n + 1]
             /\ z = [list |-> z.list, time |-> z.time, rollover |-> z.rollover, left |-> z.left]
<1> DEFINE t == (n + nticks + 1) % Wrap
<1>1. t = Time(n + 1) /\ (t < nticks <=> nticks + (n + 1) >= Wrap)
  <2>1. n \in Nat /\ nticks \in Nat /\ n + 1 < Wrap /\ nticks < Wrap /\ Wrap \in Nat
    BY AlarmConstants
  <2>2. CASE n + nticks + 1 < Wrap
    BY <2>1, <2>2 DEF Time
  <2>3. CASE n + nticks + 1 >= Wrap
    <3>1. (n + nticks + 1) % Wrap = n + nticks + 1 - Wrap
      BY <2>1, <2>3
    <3> QED  BY <2>1, <2>3, <3>1 DEF Time
  <2> QED  BY <2>1, <2>2, <2>3
<1> HIDE DEF t
<1> DEFINE L == Alarm!Insert(s.list, a)
           A == [s EXCEPT !.list = L]
           B == [A EXCEPT !.time = [A.time EXCEPT ![a] = t]]
           C == [B EXCEPT !.rollover = [B.rollover EXCEPT ![a] = t < nticks]]
           D == [C EXCEPT !.left = [C.left EXCEPT ![a] = n + 1]]
<1>2. Alarm!Started(s, a, n) = D
  BY Zenon DEF Alarm!Started, t
<1> HIDE DEF L
<1>3. s = [list |-> s.list, time |-> s.time, rollover |-> s.rollover, left |-> s.left]
  BY DEF Lists
<1>4. A = [list |-> L, time |-> s.time, rollover |-> s.rollover, left |-> s.left]
  BY <1>3
<1> HIDE DEF A
<1>5. B = [list |-> L, time |-> [s.time EXCEPT ![a] = t], rollover |-> s.rollover, left |-> s.left]
  BY <1>4
<1> HIDE DEF B
<1>6. C = [list |-> L, time |-> [s.time EXCEPT ![a] = t],
           rollover |-> [s.rollover EXCEPT ![a] = t < nticks], left |-> s.left]
  BY <1>5
<1> HIDE DEF C
<1>7. D = [list |-> L, time |-> [s.time EXCEPT ![a] = t],
           rollover |-> [s.rollover EXCEPT ![a] = t < nticks],
           left |-> [s.left EXCEPT ![a] = n + 1]]
  BY <1>6
<1> HIDE DEF D
<1> QED  BY <1>1, <1>2, <1>7 DEF L

LEMMA StoppedIs ==
  ASSUME NEW s \in Lists, NEW a \in UserAlarm
  PROVE  LET z == Alarm!Stopped(s, a)
         IN  /\ z.list = Alarm!Remove(s.list, a) /\ z.time = s.time /\ z.rollover = s.rollover
             /\ z.left = [s.left EXCEPT ![a] = Null]
             /\ z = [list |-> z.list, time |-> z.time, rollover |-> z.rollover, left |-> z.left]
<1> DEFINE L == Alarm!Remove(s.list, a)
           A == [s EXCEPT !.list = L]
           D == [A EXCEPT !.left = [A.left EXCEPT ![a] = Null]]
<1>2. Alarm!Stopped(s, a) = D
  BY Zenon DEF Alarm!Stopped
<1> HIDE DEF L
<1>3. s = [list |-> s.list, time |-> s.time, rollover |-> s.rollover, left |-> s.left]
  BY DEF Lists
<1>4. A = [list |-> L, time |-> s.time, rollover |-> s.rollover, left |-> s.left]
  BY <1>3
<1> HIDE DEF A
<1>7. D = [list |-> L, time |-> s.time, rollover |-> s.rollover,
           left |-> [s.left EXCEPT ![a] = Null]]
  BY <1>4
<1> HIDE DEF D
<1> QED  BY <1>2, <1>7 DEF L

LEMMA VisitedIs ==
  ASSUME NEW a \in UserAlarm
  PROVE  LET z == Alarm!Visited(a)
         IN  /\ z.list = list /\ z.time = time /\ z.left = left
             /\ z.rollover = [rollover EXCEPT ![a] = Alarm!Rollover(a)]
             /\ z = [list |-> z.list, time |-> z.time, rollover |-> z.rollover, left |-> z.left]
<1> HIDE DEF Alarm!Rollover
<1> QED  BY DEF Alarm!Visited, Alarm!State

LEMMA ReturnedIs ==
  ASSUME NEW s \in Lists, NEW a \in UserAlarm, NEW period \in 1..(Wrap - 1),
         NEW t, t = (time[a] + period) % Wrap, NEW r, r = (s.rollover[a] \/ t < nticks)
  PROVE  Alarm!Returned(s, a, period) =
           [list |-> s.list, time |-> [s.time EXCEPT ![a] = t],
            rollover |-> [s.rollover EXCEPT ![a] = r], left |-> [s.left EXCEPT ![a] = period]]
<1> DEFINE A == [s EXCEPT !.time = [s.time EXCEPT ![a] = t]]
           B == [A EXCEPT !.rollover = [A.rollover EXCEPT ![a] = A.rollover[a] \/ t < nticks]]
           D == [B EXCEPT !.left = [B.left EXCEPT ![a] = period]]
<1>1. period # 0
  OBVIOUS
<1>2. Alarm!Returned(s, a, period) = D
  BY <1>1, Zenon DEF Alarm!Returned
<1>3. s = [list |-> s.list, time |-> s.time, rollover |-> s.rollover, left |-> s.left]
  BY DEF Lists
<1>4. A = [list |-> s.list, time |-> [s.time EXCEPT ![a] = t], rollover |-> s.rollover,
           left |-> s.left]
  BY <1>3
<1> HIDE DEF A
<1>5. B = [list |-> s.list, time |-> [s.time EXCEPT ![a] = t],
           rollover |-> [s.rollover EXCEPT ![a] = r], left |-> s.left]
  <2>1. A.rollover = s.rollover
    BY <1>4
  <2>2. B = [A EXCEPT !.rollover = [s.rollover EXCEPT ![a] = r]]
    BY <2>1, Zenon
  <2> HIDE DEF B
  <2> QED  BY <1>4, <2>2
<1> HIDE DEF B
<1>7. D = [list |-> s.list, time |-> [s.time EXCEPT ![a] = t],
           rollover |-> [s.rollover EXCEPT ![a] = r],
           left |-> [s.left EXCEPT ![a] = period]]
  BY <1>5
<1> QED  BY <1>2, <1>7

LEMMA ChangedType ==
  ASSUME NEW S, NEW T, NEW f \in [S -> T], NEW a \in S, NEW v \in T
  PROVE  [f EXCEPT ![a] = v] \in [S -> T]
OBVIOUS

LEMMA OrderFields ==
  ASSUME NEW s, NEW k, NEW q, NEW j, Order(s, k, q, j)
  PROVE  /\ s \in Lists /\ k \in Nat /\ j \in 1..(k + 1) /\ In_list(s) \in SUBSET UserAlarm
         /\ Ring(s.list, In_list(s), k, q)
         /\ \A a \in UserAlarm \ In_list(s) : Loose(s.list, a)
         /\ \A a \in In_list(s) : Timed(s, a)
         /\ \A i \in 1..k : IF i < j THEN Passed(s, q[i]) ELSE Ahead(s, q[i])
         /\ s.list \in Links /\ s.time \in [UserAlarm -> 0..(Wrap - 1)]
         /\ s.rollover \in [UserAlarm -> BOOLEAN]
         /\ s.left \in [UserAlarm -> (0..Wrap) \cup {Null}]
BY StateFields DEF Order, In_list

\* What is said of an alarm depends on its own fields.
LEMMA SameFields ==
  ASSUME NEW s, NEW z, NEW a, z.time[a] = s.time[a], z.rollover[a] = s.rollover[a],
         z.left[a] = s.left[a]
  PROVE  /\ Timed(s, a) <=> Timed(z, a)
         /\ Ahead(s, a) <=> Ahead(z, a)
         /\ Passed(s, a) <=> Passed(z, a)
BY Zenon DEF Timed, Passed, Ahead, Flagged

LEMMA StartOrder ==
  ASSUME NEW s, NEW k, NEW q, NEW j, Order(s, k, q, j),
         NEW a \in UserAlarm, s.left[a] = Null, NEW n \in 0..MaxDelay, MaxDelay + 1 < Wrap,
         nticks \in 0..(Wrap - 1)
  PROVE  /\ Order(Alarm!Started(s, a, n), k + 1, Inserted(q, k, a), j + 1)
         /\ \A i \in 1..(k + 1) : Inserted(q, k, a)[i + 1] = q[i]
<1> DEFINE z == Alarm!Started(s, a, n)
           p == Inserted(q, k, a)
           R == In_list(s)
<1>1. /\ s \in Lists /\ k \in Nat /\ j \in 1..(k + 1) /\ R \in SUBSET UserAlarm
      /\ Ring(s.list, R, k, q)
      /\ \A b \in UserAlarm \ R : Loose(s.list, b)
      /\ \A b \in R : Timed(s, b)
      /\ \A i \in 1..k : IF i < j THEN Passed(s, q[i]) ELSE Ahead(s, q[i])
      /\ s.list \in Links /\ s.time \in [UserAlarm -> 0..(Wrap - 1)]
      /\ s.rollover \in [UserAlarm -> BOOLEAN]
      /\ s.left \in [UserAlarm -> (0..Wrap) \cup {Null}]
  BY OrderFields
<1>2. /\ z.list = Alarm!Insert(s.list, a)
      /\ z.time = [s.time EXCEPT ![a] = Time(n + 1)]
      /\ z.rollover = [s.rollover EXCEPT ![a] = nticks + (n + 1) >= Wrap]
      /\ z.left = [s.left EXCEPT ![a] = n + 1]
      /\ z = [list |-> z.list, time |-> z.time, rollover |-> z.rollover, left |-> z.left]
  BY <1>1, StartedIs
<1> HIDE DEF z
<1>3. a \notin R
  BY DEF In_list
<1>4. n + 1 \in 1..(Wrap - 1) /\ Time(n + 1) \in 0..(Wrap - 1) /\ n + 1 # Null
  BY AlarmConstants DEF Time
<1>5. Ring(s.list, R, k, q) /\ \A i \in 0..(k + 1) : q[i] \in Alarm!Entry
  BY <1>1 DEF Ring
<1>6. z.list \in Links /\ \A b \in UserAlarm : b # a /\ b # q[1] =>
        z.list.next[b] = s.list.next[b] /\ z.list.previous[b] = s.list.previous[b]
  <2>1. s.list.next[ListHead] = q[1] /\ q[1] \in Alarm!Entry
    BY <1>1, <1>5 DEF Ring
  <2>2. /\ Alarm!Insert(s.list, a) \in Links
        /\ \A x \in Alarm!Entry :
              /\ Alarm!Insert(s.list, a).next[x] =
                   IF x = ListHead THEN a ELSE IF x = a THEN q[1] ELSE s.list.next[x]
              /\ Alarm!Insert(s.list, a).previous[x] =
                   IF x = q[1] THEN a ELSE IF x = a THEN ListHead ELSE s.list.previous[x]
    BY <2>1, <1>1, InsertLinks
  <2> QED  BY <2>2, <1>2, AlarmConstants DEF Alarm!Entry
<1>7. z \in Lists
  <2>1. z.time \in [UserAlarm -> 0..(Wrap - 1)]
    BY <1>1, <1>2, <1>4
  <2>2. z.rollover \in [UserAlarm -> BOOLEAN]
    <3> DEFINE v == nticks + (n + 1) >= Wrap
    <3>1. v \in BOOLEAN
      OBVIOUS
    <3>2. s.rollover \in [UserAlarm -> BOOLEAN] /\ z.rollover = [s.rollover EXCEPT ![a] = v]
      BY <1>1, <1>2
    <3> HIDE DEF v
    <3> QED  BY <3>1, <3>2, ChangedType
  <2>3. z.left \in [UserAlarm -> (0..Wrap) \cup {Null}]
    <3>1. n + 1 \in 0..Wrap
      BY <1>4, AlarmConstants
    <3> QED  BY <1>1, <1>2, <3>1
  <2> QED  BY <1>2, <1>6, <2>1, <2>2, <2>3 DEF Lists
<1>8. In_list(z) = R \cup {a}
  BY <1>1, <1>2, <1>4 DEF In_list
<1>9. Ring(z.list, In_list(z), k + 1, p)
  BY <1>1, <1>2, <1>3, <1>8, InsertRing
<1>10. ASSUME NEW b \in UserAlarm \ In_list(z) PROVE Loose(z.list, b)
  <2>1. b \notin R /\ b # a
    BY <1>8
  <2>2. b # q[1]
    <3>1. q[1] \in R \/ q[1] = ListHead
      BY <1>1 DEF Ring
    <3> QED  BY <2>1, <3>1, AlarmConstants
  <2> QED  BY <2>1, <2>2, <1>1, <1>6 DEF Loose
<1>11. ASSUME NEW b \in UserAlarm, b # a
       PROVE  z.time[b] = s.time[b] /\ z.rollover[b] = s.rollover[b] /\ z.left[b] = s.left[b]
  BY <1>1, <1>2, <1>11, Zenon
<1>12. z.time[a] = Time(n + 1) /\ z.left[a] = n + 1
  BY <1>1, <1>2
<1>13. z.rollover[a] = (nticks + (n + 1) >= Wrap)
  BY <1>1, <1>2, Zenon
<1>14. Timed(z, a) /\ Passed(z, a)
  <2>1. Flagged(z, a)
    BY <1>12, <1>13, Zenon DEF Flagged
  <2> QED  BY <2>1, <1>4, <1>12 DEF Timed, Passed
<1>15. \A b \in In_list(z) : Timed(z, b)
  BY <1>1, <1>8, <1>11, <1>14, SameFields
<1>16. \A i \in 1..(k + 1) : p[i + 1] = q[i]
  <2>1. \A i \in 1..(k + 1) : i + 1 \in 0..((k + 1) + 1) /\ i + 1 # 0 /\ i + 1 # 1 /\ (i + 1) - 1 = i
    BY <1>1
  <2> QED  BY <2>1 DEF Inserted
<1>17. ASSUME NEW i \in 1..(k + 1)
       PROVE  IF i < j + 1 THEN Passed(z, p[i]) ELSE Ahead(z, p[i])
  <2>1. CASE i = 1
    <3>1. p[i] = a /\ i < j + 1
      BY <1>1, <2>1 DEF Inserted
    <3> QED  BY <3>1, <1>14
  <2>2. CASE i # 1
    <3>1. i - 1 \in 1..k /\ p[i] = q[i - 1] /\ (i < j + 1 <=> i - 1 < j)
      <4>1. i - 1 \in 1..(k + 1) /\ (i - 1) + 1 = i /\ i - 1 \in 1..k
        BY <1>1, <2>2
      <4> QED  BY <4>1, <1>1, <1>16
    <3>2. q[i - 1] \in UserAlarm /\ q[i - 1] # a
      BY <3>1, <1>1, <1>3 DEF Ring
    <3>3. Passed(s, q[i - 1]) => Passed(z, q[i - 1])
      BY <3>2, <1>11, SameFields
    <3>4. Ahead(s, q[i - 1]) => Ahead(z, q[i - 1])
      BY <3>2, <1>11, SameFields
    <3> QED  BY <3>1, <3>3, <3>4, <1>1
  <2> QED  BY <2>1, <2>2
<1>18. k + 1 \in Nat /\ j + 1 \in 1..((k + 1) + 1)
  BY <1>1
<1> QED  BY <1>7, <1>9, <1>10, <1>15, <1>16, <1>17, <1>18 DEF Order, z

LEMMA StopOrder ==
  ASSUME NEW s, NEW k, NEW q, NEW j, Order(s, k, q, j), NEW m \in 1..k,
         nticks \in 0..(Wrap - 1)
  PROVE  /\ m < j => Order(Alarm!Stopped(s, q[m]), k - 1, Removed(q, k, m), j - 1)
         /\ ~(m < j) => Order(Alarm!Stopped(s, q[m]), k - 1, Removed(q, k, m), j)
         /\ \A i \in 0..k : Removed(q, k, m)[i] = IF i < m THEN q[i] ELSE q[i + 1]
         /\ Alarm!Stopped(s, q[m]).left[q[m]] = Null
         /\ Alarm!Stopped(s, q[m]).list.next[q[m]] # Null
<1> DEFINE a == q[m]
           z == Alarm!Stopped(s, a)
           p == Removed(q, k, m)
           R == In_list(s)
           jj == IF m < j THEN j - 1 ELSE j
<1>1. /\ s \in Lists /\ k \in Nat /\ j \in 1..(k + 1) /\ R \in SUBSET UserAlarm
      /\ Ring(s.list, R, k, q)
      /\ \A b \in UserAlarm \ R : Loose(s.list, b)
      /\ \A b \in R : Timed(s, b)
      /\ \A i \in 1..k : IF i < j THEN Passed(s, q[i]) ELSE Ahead(s, q[i])
      /\ s.list \in Links /\ s.time \in [UserAlarm -> 0..(Wrap - 1)]
      /\ s.rollover \in [UserAlarm -> BOOLEAN]
      /\ s.left \in [UserAlarm -> (0..Wrap) \cup {Null}]
  BY OrderFields
<1>2. /\ a \in R /\ a \in UserAlarm /\ \A i \in 1..k : q[i] = a => i = m
      /\ \A i \in 1..k : q[i] \in R
      /\ \A i \in 0..(k + 1) : q[i] \in Alarm!Entry
  BY <1>1 DEF Ring
<1>3. /\ z.list = Alarm!Remove(s.list, a) /\ z.time = s.time /\ z.rollover = s.rollover
      /\ z.left = [s.left EXCEPT ![a] = Null]
      /\ z = [list |-> z.list, time |-> z.time, rollover |-> z.rollover, left |-> z.left]
  BY <1>1, <1>2, StoppedIs
<1> HIDE DEF z
<1>4. In_list(z) = R \ {a}
  BY <1>1, <1>2, <1>3 DEF In_list
<1>5. Ring(z.list, In_list(z), k - 1, p) /\ Loose(z.list, a)
  <2>1. /\ Ring(Alarm!Remove(s.list, q[m]), R \ {q[m]}, k - 1, Removed(q, k, m))
        /\ Loose(Alarm!Remove(s.list, q[m]), q[m])
    <3> HIDE DEF R
    <3> QED  BY <1>1, RemoveRing
  <2> QED  BY <2>1, <1>3, <1>4
<1>6. z.list \in Links /\ z.list.next[a] # Null /\ \A b \in UserAlarm : b \notin R =>
        z.list.next[b] = s.list.next[b] /\ z.list.previous[b] = s.list.previous[b]
  <2>1. (m - 1) + 1 = m /\ m - 1 \in 0..k /\ m + 1 \in 0..(k + 1) /\ m - 1 \in 0..(k + 1) /\ m \in 0..k
    BY <1>1
  <2>2. /\ s.list.previous[a] = q[m - 1] /\ s.list.next[a] = q[m + 1]
        /\ q[m - 1] \in Alarm!Entry /\ q[m + 1] \in Alarm!Entry
    BY <1>1, <1>2, <2>1 DEF Ring
  <2>3. /\ Alarm!Remove(s.list, a) \in Links
        /\ \A x \in Alarm!Entry :
              /\ Alarm!Remove(s.list, a).next[x] =
                   IF x = a THEN a ELSE IF x = q[m - 1] THEN q[m + 1] ELSE s.list.next[x]
              /\ Alarm!Remove(s.list, a).previous[x] =
                   IF x = a THEN a ELSE IF x = q[m + 1] THEN q[m - 1] ELSE s.list.previous[x]
    BY <2>2, <1>1, <1>2, RemoveLinks
  <2>4. (q[m - 1] = ListHead \/ q[m - 1] \in R) /\ (q[m + 1] = ListHead \/ q[m + 1] \in R)
    <3>1. m - 1 = 0 \/ m - 1 \in 1..k
      BY <1>1
    <3>2. m + 1 = k + 1 \/ m + 1 \in 1..k
      BY <1>1
    <3> QED  BY <3>1, <3>2, <1>1, <1>2 DEF Ring
  <2> QED  BY <2>3, <2>4, <1>2, <1>3, AlarmConstants DEF Alarm!Entry
<1>7. z \in Lists
  <2>1. z.left \in [UserAlarm -> (0..Wrap) \cup {Null}]
    BY <1>1, <1>3
  <2> QED  BY <1>1, <1>3, <1>6, <2>1 DEF Lists
<1>8. ASSUME NEW b \in UserAlarm \ In_list(z) PROVE Loose(z.list, b)
  <2>1. CASE b = a
    BY <2>1, <1>5
  <2>2. CASE b # a
    BY <2>2, <1>1, <1>4, <1>6 DEF Loose
  <2> QED  BY <2>1, <2>2
<1>9. ASSUME NEW b \in UserAlarm, b # a
      PROVE  z.time[b] = s.time[b] /\ z.rollover[b] = s.rollover[b] /\ z.left[b] = s.left[b]
  BY <1>1, <1>3, <1>9, Zenon
<1>10. \A b \in In_list(z) : Timed(z, b)
  BY <1>1, <1>4, <1>9, SameFields
<1>11. \A i \in 0..k : p[i] = IF i < m THEN q[i] ELSE q[i + 1]
  BY <1>1 DEF Removed
<1>12. ASSUME NEW i \in 1..(k - 1)
       PROVE  IF i < jj THEN Passed(z, p[i]) ELSE Ahead(z, p[i])
  <2>1. PICK n \in 1..k : n # m /\ p[i] = q[n] /\ n = (IF i < m THEN i ELSE i + 1)
    BY <1>1, <1>11
  <2>2. i < jj <=> n < j
    BY <2>1, <1>1
  <2>3. q[n] \in UserAlarm /\ q[n] # a
    BY <2>1, <1>1, <1>2
  <2>4. Passed(s, q[n]) => Passed(z, q[n])
    BY <2>3, <1>9, SameFields
  <2>5. Ahead(s, q[n]) => Ahead(z, q[n])
    BY <2>3, <1>9, SameFields
  <2> QED  BY <2>1, <2>2, <2>4, <2>5, <1>1
<1>13. k - 1 \in Nat /\ jj \in 1..((k - 1) + 1)
  BY <1>1
<1>14. z.left[a] = Null
  BY <1>1, <1>2, <1>3
<1>15. Order(z, k - 1, p, jj)
  BY <1>5, <1>7, <1>8, <1>10, <1>12, <1>13 DEF Order
<1> QED  BY <1>6, <1>11, <1>14, <1>15, Zenon DEF z

LEMMA StopLoose ==
  ASSUME NEW s, NEW k, NEW q, NEW j, Order(s, k, q, j), NEW a \in UserAlarm,
         s.left[a] = Null, s.list.next[a] # Null
  PROVE  Alarm!Stopped(s, a) = s
<1>1. s \in Lists /\ s.list \in Links /\ s.left \in [UserAlarm -> (0..Wrap) \cup {Null}]
  BY OrderFields
<1>2. Loose(s.list, a)
  BY OrderFields DEF In_list
<1>3. Alarm!Remove(s.list, a) = s.list
  BY <1>1, <1>2, RemoveLoose
<1>4. [s.left EXCEPT ![a] = Null] = s.left
  BY <1>1
<1>5. s = [list |-> s.list, time |-> s.time, rollover |-> s.rollover, left |-> s.left]
  BY <1>1 DEF Lists
<1> DEFINE z == Alarm!Stopped(s, a)
<1>6. /\ z.list = Alarm!Remove(s.list, a) /\ z.time = s.time /\ z.rollover = s.rollover
      /\ z.left = [s.left EXCEPT ![a] = Null]
      /\ z = [list |-> z.list, time |-> z.time, rollover |-> z.rollover, left |-> z.left]
  BY <1>1, StoppedIs
<1> HIDE DEF z
<1>7. z = s
  BY <1>3, <1>4, <1>5, <1>6
<1> QED  BY <1>7 DEF z

\* A visit brings the flag up to date; the alarm is due when its count is zero.
LEMMA VisitOrder ==
  ASSUME NEW k, NEW q, NEW j \in 1..k, Order(Alarm!State, k, q, j), nticks \in 0..(Wrap - 1)
  PROVE  LET a == q[j]
         IN  /\ a \in UserAlarm /\ Order(Alarm!Visited(a), k, q, j)
             /\ Alarm!Visited(a).left[a] = left[a] /\ Alarm!Visited(a).time[a] = time[a]
             /\ left[a] \in 0..(Wrap - 1) /\ time[a] = Time(left[a])
             /\ Alarm!Due(a) => left[a] = 0 /\ ~Alarm!Visited(a).rollover[a]
             /\ ~Alarm!Due(a) => left[a] # 0 /\ Order(Alarm!Visited(a), k, q, j + 1)
<1> DEFINE a == q[j]
           s == Alarm!State
           z == Alarm!Visited(a)
           R == In_list(s)
<1>1. /\ s \in Lists /\ k \in Nat /\ j \in 1..(k + 1) /\ R \in SUBSET UserAlarm
      /\ Ring(s.list, R, k, q)
      /\ \A b \in UserAlarm \ R : Loose(s.list, b)
      /\ \A b \in R : Timed(s, b)
      /\ \A i \in 1..k : IF i < j THEN Passed(s, q[i]) ELSE Ahead(s, q[i])
      /\ s.list \in Links /\ s.time \in [UserAlarm -> 0..(Wrap - 1)]
      /\ s.rollover \in [UserAlarm -> BOOLEAN]
      /\ s.left \in [UserAlarm -> (0..Wrap) \cup {Null}]
  BY OrderFields
<1>2. s.list = list /\ s.time = time /\ s.rollover = rollover /\ s.left = left
  BY DEF Alarm!State
<1> HIDE DEF s
<1>3. /\ a \in R /\ a \in UserAlarm /\ \A i \in 1..k : q[i] = a => i = j
      /\ \A i \in 1..k : q[i] \in UserAlarm
  BY <1>1 DEF Ring
<1> DEFINE r == Alarm!Rollover(a)
<1>4. /\ z.list = s.list /\ z.time = s.time /\ z.left = s.left
      /\ z.rollover = [s.rollover EXCEPT ![a] = r]
      /\ z = [list |-> z.list, time |-> z.time, rollover |-> z.rollover, left |-> z.left]
  BY <1>2, <1>3, VisitedIs
<1>5. r \in BOOLEAN /\ (r <=> s.rollover[a] /\ nticks # 0)
  BY <1>2, Zenon DEF Alarm!Rollover
<1>6. Timed(s, a) /\ Ahead(s, a)
  BY <1>1, <1>3
<1>7. s.left[a] \in 0..(Wrap - 1) /\ s.time[a] = Time(s.left[a])
  BY <1>6 DEF Timed
<1>8. r <=> nticks + s.left[a] >= Wrap
  BY <1>5, <1>6, <1>7, AlarmConstants DEF Ahead, Flagged
<1>9. Alarm!Due(a) <=> s.time[a] <= nticks /\ ~r
  BY <1>2, Zenon DEF Alarm!Due
<1>10. Alarm!Due(a) <=> s.left[a] = 0
  BY <1>7, <1>8, <1>9, AlarmConstants DEF Time
<1> HIDE DEF z, r
<1>11. z \in Lists
  <2>1. z.rollover \in [UserAlarm -> BOOLEAN]
    BY <1>1, <1>3, <1>4, <1>5, ChangedType
  <2> QED  BY <1>1, <1>4, <2>1 DEF Lists
<1>12. In_list(z) = R
  BY <1>4 DEF In_list
<1>13. ASSUME NEW b \in UserAlarm, b # a
       PROVE  z.time[b] = s.time[b] /\ z.rollover[b] = s.rollover[b] /\ z.left[b] = s.left[b]
  BY <1>1, <1>4, <1>13, Zenon
<1>14. z.rollover[a] = r
  BY <1>1, <1>3, <1>4, Zenon
<1>15. Flagged(z, a)
  BY <1>4, <1>8, <1>14, Zenon DEF Flagged
<1>16. \A b \in In_list(z) : Timed(z, b)
  BY <1>1, <1>4, <1>12, Zenon DEF Timed
<1>17. \A i \in 1..k : i # j =>
         (Passed(s, q[i]) <=> Passed(z, q[i])) /\ (Ahead(s, q[i]) <=> Ahead(z, q[i]))
  <2> TAKE i \in 1..k
  <2> HAVE i # j
  <2>1. q[i] \in UserAlarm /\ q[i] # a
    BY <1>3
  <2> QED  BY <2>1, <1>13, SameFields
<1>18. Order(z, k, q, j)
  <2>1. Ahead(z, a)
    BY <1>15 DEF Ahead
  <2>2. \A i \in 1..k : IF i < j THEN Passed(z, q[i]) ELSE Ahead(z, q[i])
    BY <2>1, <1>1, <1>17
  <2>3. Ring(z.list, In_list(z), k, q) /\ \A b \in UserAlarm \ In_list(z) : Loose(z.list, b)
    BY <1>1, <1>4, <1>12
  <2> QED  BY <2>2, <2>3, <1>1, <1>11, <1>16 DEF Order
<1>19. ASSUME s.left[a] # 0 PROVE Order(z, k, q, j + 1)
  <2>1. Passed(z, a)
    BY <1>4, <1>7, <1>15, <1>19 DEF Passed
  <2>2. \A i \in 1..k : IF i < j + 1 THEN Passed(z, q[i]) ELSE Ahead(z, q[i])
    <3> TAKE i \in 1..k
    <3>1. i < j + 1 <=> i < j \/ i = j
      BY <1>1
    <3>2. i > j => ~(i < j)
      BY <1>1
    <3> QED  BY <2>1, <3>1, <3>2, <1>1, <1>17
  <2>3. Ring(z.list, In_list(z), k, q) /\ \A b \in UserAlarm \ In_list(z) : Loose(z.list, b)
    BY <1>1, <1>4, <1>12
  <2>4. j + 1 \in 1..(k + 1)
    BY <1>1
  <2> QED  BY <2>2, <2>3, <2>4, <1>1, <1>11, <1>16 DEF Order
<1>20. Alarm!Due(a) => s.left[a] = 0 /\ ~z.rollover[a]
  BY <1>9, <1>10, <1>14
<1> QED  BY <1>2, <1>3, <1>4, <1>7, <1>10, <1>18, <1>19, <1>20 DEF z

\* A callback that asks to be called again.
LEMMA ReturnOrder ==
  ASSUME NEW s, NEW k, NEW q, NEW j \in 1..k, Order(s, k, q, j), NEW period \in 1..(Wrap - 1),
         nticks \in 0..(Wrap - 1), s.left[q[j]] = 0, ~s.rollover[q[j]], s.time[q[j]] = time[q[j]]
  PROVE  Order(Alarm!Returned(s, q[j], period), k, q, j + 1)
<1> DEFINE a == q[j]
           z == Alarm!Returned(s, a, period)
           R == In_list(s)
           t == (time[a] + period) % Wrap
           r == s.rollover[a] \/ t < nticks
<1>1. /\ s \in Lists /\ k \in Nat /\ j \in 1..(k + 1) /\ R \in SUBSET UserAlarm
      /\ Ring(s.list, R, k, q)
      /\ \A b \in UserAlarm \ R : Loose(s.list, b)
      /\ \A b \in R : Timed(s, b)
      /\ \A i \in 1..k : IF i < j THEN Passed(s, q[i]) ELSE Ahead(s, q[i])
      /\ s.list \in Links /\ s.time \in [UserAlarm -> 0..(Wrap - 1)]
      /\ s.rollover \in [UserAlarm -> BOOLEAN]
      /\ s.left \in [UserAlarm -> (0..Wrap) \cup {Null}]
  BY OrderFields
<1>2. /\ a \in R /\ a \in UserAlarm /\ \A i \in 1..k : q[i] = a => i = j
      /\ \A i \in 1..k : q[i] \in UserAlarm
  BY <1>1 DEF Ring
<1>3. /\ z.list = s.list /\ z.time = [s.time EXCEPT ![a] = t]
      /\ z.rollover = [s.rollover EXCEPT ![a] = r]
      /\ z.left = [s.left EXCEPT ![a] = period]
      /\ z = [list |-> z.list, time |-> z.time, rollover |-> z.rollover, left |-> z.left]
  <2>1. s \in Lists /\ a \in UserAlarm /\ t = (time[a] + period) % Wrap
    BY <1>1, <1>2
  <2>2. r = (s.rollover[a] \/ t < nticks)
    BY Zenon
  <2> HIDE DEF a, t, r
  <2>3. z = [list |-> s.list, time |-> [s.time EXCEPT ![a] = t],
             rollover |-> [s.rollover EXCEPT ![a] = r], left |-> [s.left EXCEPT ![a] = period]]
    BY <2>1, <2>2, ReturnedIs
  <2> HIDE DEF z
  <2> QED  BY <2>3
<1>4. time[a] = nticks
  <2>1. s.time[a] = Time(0)
    BY <1>1, <1>2 DEF Timed
  <2> QED  BY <2>1, AlarmConstants DEF Time
<1>5. t = Time(period) /\ t \in 0..(Wrap - 1) /\ (t < nticks <=> nticks + period >= Wrap)
  <2>1. nticks \in Nat /\ nticks < Wrap /\ period < Wrap /\ period \in Nat /\ Wrap \in Nat
    BY AlarmConstants
  <2>2. CASE nticks + period < Wrap
    BY <1>4, <2>1, <2>2 DEF Time
  <2>3. CASE nticks + period >= Wrap
    <3>1. (nticks + period) % Wrap = nticks + period - Wrap
      BY <2>1, <2>3
    <3> QED  BY <1>4, <2>1, <2>3, <3>1 DEF Time
  <2> QED  BY <2>1, <2>2, <2>3
<1>6. r \in BOOLEAN /\ (r <=> nticks + period >= Wrap)
  BY <1>5
<1> HIDE DEF z, t, r
<1>7. period \in 0..Wrap /\ period # Null /\ period > 0
  BY AlarmConstants
<1>8. z \in Lists
  <2>1. z.rollover \in [UserAlarm -> BOOLEAN]
    BY <1>1, <1>2, <1>3, <1>6, ChangedType
  <2>2. z.time \in [UserAlarm -> 0..(Wrap - 1)]
    BY <1>1, <1>2, <1>3, <1>5, ChangedType
  <2>3. z.left \in [UserAlarm -> (0..Wrap) \cup {Null}]
    BY <1>1, <1>3, <1>7, ZenonT(60)
  <2> QED  BY <1>1, <1>3, <2>1, <2>2, <2>3, ZenonT(60) DEF Lists
<1>9. In_list(z) = R
  BY <1>1, <1>2, <1>3, <1>7 DEF In_list
<1>10. ASSUME NEW b \in UserAlarm, b # a
       PROVE  z.time[b] = s.time[b] /\ z.rollover[b] = s.rollover[b] /\ z.left[b] = s.left[b]
  BY <1>1, <1>3, <1>10, Zenon
<1>11. z.time[a] = Time(period) /\ z.left[a] = period
  BY <1>1, <1>2, <1>3, <1>5
<1>12. z.rollover[a] = r
  BY <1>1, <1>2, <1>3, ZenonT(60)
<1>13. Flagged(z, a)
  BY <1>6, <1>11, <1>12, Zenon DEF Flagged
<1>14. Timed(z, a) /\ Passed(z, a)
  BY <1>7, <1>11, <1>13 DEF Timed, Passed
<1>15. \A b \in In_list(z) : Timed(z, b)
  BY <1>1, <1>9, <1>10, <1>14, SameFields
<1>16. ASSUME NEW i \in 1..k PROVE IF i < j + 1 THEN Passed(z, q[i]) ELSE Ahead(z, q[i])
  <2>1. i < j + 1 <=> i < j \/ i = j
    BY <1>1
  <2>2. CASE i = j
    BY <2>1, <2>2, <1>14
  <2>3. CASE i # j
    <3>1. q[i] \in UserAlarm /\ q[i] # a
      BY <2>3, <1>2
    <3>2. (Passed(s, q[i]) => Passed(z, q[i])) /\ (Ahead(s, q[i]) => Ahead(z, q[i]))
      BY <3>1, <1>10, SameFields
    <3> QED  BY <2>1, <2>3, <3>2, <1>1
  <2> QED  BY <2>2, <2>3
<1>17. Ring(z.list, In_list(z), k, q) /\ \A b \in UserAlarm \ In_list(z) : Loose(z.list, b)
  BY <1>1, <1>3, <1>9
<1>18. j + 1 \in 1..(k + 1)
  BY <1>1
<1> QED  BY <1>1, <1>8, <1>15, <1>16, <1>17, <1>18 DEF Order, z

-----------------------------------------------------------------------------
LEMMA InOrderFrom ==
  ASSUME NEW s, NEW k, NEW q, NEW j, Order(s, k, q, j)
  PROVE  InOrder(s, q[j])
BY DEF InOrder, Order, Ring

\* Between the ticks alt_tick is at the end of the ring.
LEMMA AtHead ==
  ASSUME NEW s, NEW k, NEW q, NEW j, Order(s, k, q, j)
  PROVE  /\ q[j] = ListHead => j = k + 1
         /\ q[j] \in UserAlarm => j \in 1..k /\ s.list.next[q[j]] = q[j + 1]
<1>1. /\ k \in Nat /\ j \in 1..(k + 1) /\ In_list(s) \in SUBSET UserAlarm
      /\ Ring(s.list, In_list(s), k, q)
  BY OrderFields
<1>2. q[k + 1] = ListHead /\ \A i \in 1..k : q[i] \in UserAlarm
  BY <1>1 DEF Ring
<1>3. q[j] = ListHead => j = k + 1
  BY <1>1, <1>2, AlarmConstants
<1>4. ASSUME q[j] \in UserAlarm PROVE j \in 1..k /\ s.list.next[q[j]] = q[j + 1]
  <2>1. j \in 1..k
    BY <1>1, <1>2, <1>4, AlarmConstants
  <2> QED  BY <2>1, <1>1 DEF Ring
<1> QED  BY <1>3, <1>4

LEMMA StartInOrder ==
  ASSUME NEW a \in UserAlarm, left[a] = Null, NEW n \in 0..MaxDelay, Gentle,
         nticks \in 0..(Wrap - 1), InOrder(Alarm!State, alarm)
  PROVE  InOrder(Alarm!Started(Alarm!State, a, n), alarm)
<1> DEFINE s == Alarm!State
<1>1. \E k, q, j : Order(s, k, q, j) /\ alarm = q[j]
  BY DEF InOrder
<1>2. PICK k, q, j : Order(s, k, q, j) /\ alarm = q[j]
  BY <1>1
<1>0. k \in Nat /\ j \in 1..(k + 1)
  BY <1>2 DEF Order
<1>3. s.left[a] = Null
  BY DEF Alarm!State
<1> HIDE DEF s
<1>4. /\ Order(Alarm!Started(s, a, n), k + 1, Inserted(q, k, a), j + 1)
      /\ \A i \in 1..(k + 1) : Inserted(q, k, a)[i + 1] = q[i]
  BY <1>2, <1>3, StartOrder DEF Gentle
<1>5. Inserted(q, k, a)[j + 1] = alarm
  BY <1>0, <1>2, <1>4
<1>6. InOrder(Alarm!Started(s, a, n), Inserted(q, k, a)[j + 1])
  BY <1>4, InOrderFrom
<1> QED  BY <1>5, <1>6 DEF s

LEMMA StopInOrder ==
  ASSUME NEW a \in UserAlarm, list.next[a] # Null, alarm = ListHead,
         nticks \in 0..(Wrap - 1), InOrder(Alarm!State, alarm)
  PROVE  InOrder(Alarm!Stopped(Alarm!State, a), alarm)
<1> DEFINE s == Alarm!State
<1>1. \E k, q, j : Order(s, k, q, j) /\ alarm = q[j]
  BY DEF InOrder
<1>2. PICK k, q, j : Order(s, k, q, j) /\ alarm = q[j]
  BY <1>1
<1>0. k \in Nat /\ j \in 1..(k + 1)
  BY <1>2 DEF Order
<1>3. s.list.next[a] # Null
  BY DEF Alarm!State
<1> HIDE DEF s
<1>4. j = k + 1
  BY <1>2, AtHead
<1>5. CASE a \notin In_list(s)
  <2>1. Alarm!Stopped(s, a) = s
    BY <1>2, <1>3, <1>5, StopLoose DEF In_list
  <2> QED  BY <2>1 DEF s
<1>6. CASE a \in In_list(s)
  <2>1. PICK m \in 1..k : q[m] = a
    <3>1. Ring(s.list, In_list(s), k, q)
      BY <1>2, OrderFields
    <3> QED  BY <3>1, <1>6 DEF Ring
  <2>2. /\ m < j => Order(Alarm!Stopped(s, q[m]), k - 1, Removed(q, k, m), j - 1)
        /\ \A i \in 0..k : Removed(q, k, m)[i] = IF i < m THEN q[i] ELSE q[i + 1]
    <3>1. Order(s, k, q, j)
      BY <1>2
    <3> QED  BY <3>1, StopOrder
  <2>3. m < j /\ j - 1 = k /\ Removed(q, k, m)[k] = q[k + 1]
    BY <1>0, <1>4, <2>2
  <2>4. InOrder(Alarm!Stopped(s, a), Removed(q, k, m)[k])
    BY <2>1, <2>2, <2>3, InOrderFrom
  <2>5. Removed(q, k, m)[k] = alarm
    BY <1>2, <1>4, <2>3
  <2> QED  BY <2>4, <2>5 DEF s
<1> QED  BY <1>5, <1>6

LEMMA CallbackInOrder ==
  ASSUME NEW z, alarm \in UserAlarm, Alarm!Due(alarm), Gentle, nticks \in 0..(Wrap - 1),
         InOrder(Alarm!State, alarm),
         \/ \E period \in 0..(Wrap - 1) :
              z = Alarm!Returned(Alarm!Visited(alarm), alarm, period)
         \/ z = Alarm!Returned(Alarm!Stopped(Alarm!Visited(alarm), alarm), alarm, 0)
         \/ \E a \in Alarm!CanStart \ {alarm}, n \in 0..MaxDelay, period \in 0..1 :
              z = Alarm!Returned(Alarm!Started(Alarm!Visited(alarm), a, n), alarm, period)
  PROVE  InOrder(z, list.next[alarm])
<1>1. \E k, q, j : Order(Alarm!State, k, q, j) /\ alarm = q[j]
  BY DEF InOrder
<1>2. PICK k, q, j : Order(Alarm!State, k, q, j) /\ alarm = q[j]
  BY <1>1
<1>0. k \in Nat /\ j \in 1..(k + 1)
  BY <1>2 DEF Order
<1> DEFINE v == Alarm!Visited(alarm)
<1>3. j \in 1..k /\ list.next[alarm] = q[j + 1]
  <2>1. j \in 1..k /\ Alarm!State.list.next[q[j]] = q[j + 1]
    BY <1>2, AtHead
  <2> QED  BY <1>2, <2>1 DEF Alarm!State
<1>4. /\ Order(v, k, q, j)
      /\ v.left[alarm] = 0 /\ ~v.rollover[alarm] /\ v.time[alarm] = time[alarm]
  BY <1>2, <1>3, VisitOrder
<1>5. v.left = left
  BY VisitedIs
<1> HIDE DEF v
<1>6. \A x : Alarm!Returned(x, alarm, 0) = Alarm!Stopped(x, alarm)
  BY DEF Alarm!Returned
<1>7. /\ InOrder(Alarm!Stopped(v, alarm), q[j + 1])
      /\ Alarm!Stopped(Alarm!Stopped(v, alarm), alarm) = Alarm!Stopped(v, alarm)
  <2>1. /\ ~(j < j) => Order(Alarm!Stopped(v, q[j]), k - 1, Removed(q, k, j), j)
        /\ \A i \in 0..k : Removed(q, k, j)[i] = IF i < j THEN q[i] ELSE q[i + 1]
        /\ Alarm!Stopped(v, q[j]).left[q[j]] = Null
        /\ Alarm!Stopped(v, q[j]).list.next[q[j]] # Null
    <3>1. Order(v, k, q, j) /\ j \in 1..k
      BY <1>3, <1>4
    <3> QED  BY <3>1, StopOrder
  <2>2. ~(j < j) /\ Removed(q, k, j)[j] = q[j + 1]
    BY <1>3, <2>1
  <2>3. Order(Alarm!Stopped(v, alarm), k - 1, Removed(q, k, j), j)
    BY <1>2, <2>1, <2>2
  <2>4. InOrder(Alarm!Stopped(v, alarm), Removed(q, k, j)[j])
    BY <2>3, InOrderFrom
  <2> QED  BY <2>1, <2>2, <2>3, <2>4, <1>2, StopLoose
<1>8. ASSUME NEW period \in 0..(Wrap - 1), z = Alarm!Returned(v, alarm, period)
      PROVE  InOrder(z, q[j + 1])
  <2>1. CASE period = 0
    BY <2>1, <1>6, <1>7, <1>8
  <2>2. CASE period # 0
    <3>1. period \in 1..(Wrap - 1)
      BY <2>2
    <3>2. Order(Alarm!Returned(v, q[j], period), k, q, j + 1)
      BY <3>1, <1>2, <1>3, <1>4, ReturnOrder
    <3> QED  BY <3>2, <1>2, <1>8, InOrderFrom
  <2> QED  BY <2>1, <2>2
<1>9. CASE z = Alarm!Returned(Alarm!Stopped(v, alarm), alarm, 0)
  BY <1>3, <1>6, <1>7, <1>9
<1>10. ASSUME NEW a \in Alarm!CanStart \ {alarm}, NEW n \in 0..MaxDelay, NEW period \in 0..1,
              z = Alarm!Returned(Alarm!Started(v, a, n), alarm, period)
       PROVE  InOrder(z, q[j + 1])
  <2> DEFINE s == Alarm!Started(v, a, n)
             p == Inserted(q, k, a)
  <2>1. a \in UserAlarm /\ v.left[a] = Null /\ a # alarm
    BY <1>5 DEF Alarm!CanStart, Alarm!registered
  <2>2. /\ Order(s, k + 1, p, j + 1)
        /\ \A i \in 1..(k + 1) : p[i + 1] = q[i]
    BY <1>4, <2>1, StartOrder DEF Gentle
  <2>3. /\ p[j + 1] = alarm /\ p[(j + 1) + 1] = q[j + 1]
        /\ k + 1 \in Nat /\ j + 1 \in 1..(k + 1)
    BY <1>0, <1>2, <1>3, <2>2
  <2>4. s.left[alarm] = 0 /\ ~s.rollover[alarm] /\ s.time[alarm] = time[alarm]
    <3>1. v \in Lists /\ v.left \in [UserAlarm -> (0..Wrap) \cup {Null}]
            /\ v.time \in [UserAlarm -> 0..(Wrap - 1)] /\ v.rollover \in [UserAlarm -> BOOLEAN]
      BY <1>4, OrderFields
    <3>2. /\ s.time = [v.time EXCEPT ![a] = Time(n + 1)]
          /\ s.rollover = [v.rollover EXCEPT ![a] = nticks + (n + 1) >= Wrap]
          /\ s.left = [v.left EXCEPT ![a] = n + 1]
      BY <3>1, <2>1, StartedIs DEF Gentle
    <3>3. s.left[alarm] = v.left[alarm] /\ s.time[alarm] = v.time[alarm]
      BY <3>1, <3>2, <2>1, Zenon
    <3>4. s.rollover[alarm] = v.rollover[alarm]
      BY <3>1, <3>2, <2>1, Zenon
    <3> QED  BY <3>3, <3>4, <1>4
  <2> HIDE DEF s, p
  <2>5. CASE period = 0
    <3>1. /\ ~(j + 1 < j + 1) =>
               Order(Alarm!Stopped(s, p[j + 1]), (k + 1) - 1, Removed(p, k + 1, j + 1), j + 1)
          /\ \A i \in 0..(k + 1) :
               Removed(p, k + 1, j + 1)[i] = IF i < j + 1 THEN p[i] ELSE p[i + 1]
      BY <2>2, <2>3, StopOrder
    <3>2. ~(j + 1 < j + 1) /\ Removed(p, k + 1, j + 1)[j + 1] = p[(j + 1) + 1]
      BY <2>3, <3>1
    <3>3. Order(Alarm!Stopped(s, alarm), (k + 1) - 1, Removed(p, k + 1, j + 1), j + 1)
      BY <2>3, <3>1, <3>2
    <3>4. InOrder(Alarm!Stopped(s, alarm), q[j + 1])
      BY <2>3, <3>2, <3>3, InOrderFrom
    <3> QED  BY <3>4, <1>6, <1>10, <2>5 DEF s
  <2>6. CASE period = 1
    <3>1. period \in 1..(Wrap - 1)
      BY <2>6, AlarmConstants
    <3>2. Order(Alarm!Returned(s, p[j + 1], period), k + 1, p, (j + 1) + 1)
      BY <3>1, <2>2, <2>3, <2>4, ReturnOrder
    <3>3. InOrder(Alarm!Returned(s, p[j + 1], period), p[(j + 1) + 1])
      BY <3>2, InOrderFrom
    <3> QED  BY <3>3, <1>10, <2>3 DEF s
  <2> QED  BY <2>5, <2>6
<1> QED  BY <1>3, <1>8, <1>9, <1>10 DEF v

\* A step that leaves the ticks alone and makes s of the list and the times.
LEMMA AlarmBecomes ==
  ASSUME NEW s, InOrder(s, alarm'), Alarm!Becomes(s), tick_rate \in BOOLEAN,
         nticks \in 0..(Wrap - 1)
  PROVE  AlarmInv'
<1>1. \E k, q, j : Order(s, k, q, j) /\ alarm' = q[j]
  BY DEF InOrder
<1>2. PICK k, q, j : Order(s, k, q, j) /\ alarm' = q[j]
  BY <1>1
<1>3. s \in Lists /\ k \in Nat /\ j \in 1..(k + 1) /\ q \in [0..(k + 1) -> Alarm!Entry]
  BY <1>2 DEF Order, Ring
<1>4. (Alarm!State)' = s
  <2>1. s = [list |-> s.list, time |-> s.time, rollover |-> s.rollover, left |-> s.left]
    BY <1>3 DEF Lists
  <2> QED  BY <2>1 DEF Alarm!State, Alarm!Becomes
<1>5. nticks' = nticks /\ tick_rate' = tick_rate
  BY DEF Alarm!Becomes
<1>6. Order(Alarm!State, k, q, j)'
  <2>1. Order(s, k, q, j)'
    BY <1>2, <1>5 DEF Order, Timed, Time, Passed, Ahead, Flagged
  <2> QED  BY <2>1, <1>4 DEF Order, Timed, Time, Passed, Ahead, Flagged
<1>7. InOrder(Alarm!State, alarm)'
  BY <1>2, <1>3, <1>6 DEF InOrder
<1>8. alarm' \in Alarm!Entry
  BY <1>2, <1>3
<1> QED  BY <1>5, <1>7, <1>8 DEF AlarmInv

LEMMA AlarmTick == AlarmInv /\ Alarm!Tick => AlarmInv'
<1> SUFFICES ASSUME AlarmInv, Alarm!Tick PROVE AlarmInv'
  OBVIOUS
<1>1. \E k, q, j, s : Order(s, k, q, j) /\ alarm = q[j] /\ s = Alarm!State
  BY DEF InOrder, AlarmInv
<1>2. PICK k, q, j, s : Order(s, k, q, j) /\ alarm = q[j] /\ s = Alarm!State
  BY <1>1
<1> DEFINE R == In_list(s)
<1>3. /\ s \in Lists /\ k \in Nat /\ j \in 1..(k + 1) /\ R \in SUBSET UserAlarm
      /\ Ring(s.list, R, k, q)
      /\ \A b \in UserAlarm \ R : Loose(s.list, b)
      /\ \A b \in R : Timed(s, b)
      /\ \A i \in 1..k : IF i < j THEN Passed(s, q[i]) ELSE Ahead(s, q[i])
      /\ s.list \in Links /\ s.time \in [UserAlarm -> 0..(Wrap - 1)]
      /\ s.rollover \in [UserAlarm -> BOOLEAN]
      /\ s.left \in [UserAlarm -> (0..Wrap) \cup {Null}]
  BY <1>2, OrderFields
<1>4. j = k + 1
  BY <1>2, AtHead DEF Alarm!Tick
<1>5. \A b \in R : Timed(s, b) /\ Passed(s, b)
  <2>1. \A b \in R : \E i \in 1..k : q[i] = b
    BY <1>3 DEF Ring
  <2>2. \A i \in 1..k : i < j
    BY <1>3, <1>4
  <2> QED  BY <2>1, <2>2, <1>3
<1>6. PICK z : z = (Alarm!State)'
  OBVIOUS
<1>7. /\ list = s.list /\ time = s.time /\ rollover = s.rollover /\ left = s.left
      /\ z.list = s.list /\ z.time = s.time /\ z.rollover = s.rollover
      /\ z = [list |-> z.list, time |-> z.time, rollover |-> z.rollover, left |-> z.left]
      /\ z.left = [a \in UserAlarm |->
                     IF s.left[a] \in Nat \ {0} THEN s.left[a] - 1 ELSE s.left[a]]
  BY <1>2, <1>6 DEF Alarm!State, Alarm!Tick
<1>8. PICK o, n : o = nticks /\ n = nticks'
  OBVIOUS
<1>9. o \in 0..(Wrap - 1) /\ n \in 0..(Wrap - 1) /\ n = (IF o = Wrap - 1 THEN 0 ELSE o + 1)
  <2>1. o \in 0..(Wrap - 1) /\ n = (o + 1) % Wrap
    BY <1>8 DEF AlarmInv, Alarm!Tick
  <2>2. CASE o = Wrap - 1
    BY <2>1, <2>2, AlarmConstants
  <2>3. CASE o # Wrap - 1
    <3>1. o + 1 \in 0..(Wrap - 1)
      BY <2>1, <2>3, AlarmConstants
    <3> QED  BY <2>1, <2>3, <3>1, AlarmConstants
  <2> QED  BY <2>1, <2>2, <2>3
<1>10. \A a \in R : /\ s.left[a] \in 1..(Wrap - 1) /\ z.left[a] = s.left[a] - 1
                    /\ z.left[a] \in 0..(Wrap - 1)
                    /\ s.time[a] = (IF o + s.left[a] < Wrap THEN o + s.left[a]
                                    ELSE o + s.left[a] - Wrap)
                    /\ s.rollover[a] <=> o + s.left[a] >= Wrap
  <2> TAKE a \in R
  <2>1. a \in UserAlarm
    BY <1>3
  <2>2. Timed(s, a) /\ Passed(s, a)
    BY <1>5
  <2>3. s.left[a] \in 1..(Wrap - 1)
    BY <2>2 DEF Timed, Passed
  <2>4. s.left[a] \in Nat \ {0}
    BY <2>3
  <2>5. z.left[a] = s.left[a] - 1
    BY <2>1, <2>4, <1>7
  <2>6. z.left[a] \in 0..(Wrap - 1)
    BY <2>3, <2>5, AlarmConstants
  <2>7. s.time[a] = (IF o + s.left[a] < Wrap THEN o + s.left[a] ELSE o + s.left[a] - Wrap)
    BY <2>2, <1>8 DEF Timed, Time
  <2>8. s.rollover[a] <=> o + s.left[a] >= Wrap
    BY <2>2, <1>8, Zenon DEF Passed, Flagged
  <2> QED  BY <2>3, <2>5, <2>6, <2>7, <2>8
<1>11. /\ z.left \in [UserAlarm -> (0..Wrap) \cup {Null}]
       /\ In_list(z) = R
  <2>1. \A a \in UserAlarm \ R : s.left[a] = Null /\ z.left[a] \in (0..Wrap) \cup {Null}
                                 /\ z.left[a] = Null
    <3> TAKE a \in UserAlarm \ R
    <3>1. s.left[a] = Null
      BY DEF In_list
    <3> QED  BY <3>1, <1>7, AlarmConstants
  <2>2. \A a \in R : z.left[a] # Null /\ z.left[a] \in 0..Wrap
    BY <1>10, AlarmConstants
  <2> QED  BY <2>1, <2>2, <1>3, <1>7 DEF In_list
<1>12. /\ z \in Lists /\ Ring(z.list, In_list(z), k, q)
       /\ \A a \in UserAlarm \ In_list(z) : Loose(z.list, a)
  BY <1>3, <1>7, <1>11 DEF Lists
<1>13. \A a \in R : z.time[a] = IF n + z.left[a] < Wrap THEN n + z.left[a]
                                ELSE n + z.left[a] - Wrap
  BY <1>7, <1>9, <1>10, AlarmConstants
<1>14. \A a \in R : n # 0 => (z.rollover[a] <=> n + z.left[a] >= Wrap)
  <2> TAKE a \in R
  <2> HAVE n # 0
  <2>1. n + z.left[a] = o + s.left[a]
    BY <1>9, <1>10
  <2> QED  BY <2>1, <1>7, <1>10
<1>15. \A a \in In_list(z) : Timed(z, a)'
  <2>1. \A a \in R : z.left[a] \in 0..(Wrap - 1)
    BY <1>10
  <2> QED  BY <2>1, <1>8, <1>11, <1>13 DEF Timed, Time
<1>16. \A i \in 1..k : IF i < 1 THEN Passed(z, q[i])' ELSE Ahead(z, q[i])'
  <2>1. \A a \in R : Ahead(z, a)'
    BY <1>8, <1>14, Zenon DEF Ahead, Flagged
  <2>2. \A i \in 1..k : ~(i < 1) /\ q[i] \in R
    BY <1>3 DEF Ring
  <2> QED  BY <2>1, <2>2
<1>17. Order(z, k, q, 1)'
  <2>1. 1 \in 1..(k + 1)
    BY <1>3
  <2>2. \A i \in 1..k : IF i < 1 THEN Passed(z, q[i])' ELSE Ahead(z, q[i])'
    BY <1>16
  <2> QED  BY <2>1, <2>2, <1>3, <1>12, <1>15 DEF Order
<1>18. alarm' = q[1] /\ q[1] \in Alarm!Entry /\ q \in [0..(k + 1) -> Alarm!Entry]
  <2>1. alarm' = s.list.next[ListHead]
    BY <1>7 DEF Alarm!Tick
  <2> QED  BY <2>1, <1>3 DEF Ring
<1>19. InOrder(Alarm!State, alarm)'
  <2>1. 1 \in 1..(k + 1)
    BY <1>3
  <2>2. Order(Alarm!State, k, q, 1)'
    BY <1>6, <1>17
  <2> QED  BY <2>1, <2>2, <1>3, <1>18 DEF InOrder
<1>20. tick_rate' = tick_rate
  BY DEF Alarm!Tick
<1> QED  BY <1>8, <1>9, <1>18, <1>19, <1>20 DEF AlarmInv

LEMMA AlarmInit == Alarm!Init => AlarmInv
<1> SUFFICES ASSUME Alarm!Init PROVE AlarmInv
  OBVIOUS
<1>1. \E q : q = [i \in 0..1 |-> ListHead]
  OBVIOUS
<1>2. PICK q : q = [i \in 0..1 |-> ListHead]
  BY <1>1
<1>3. /\ tick_rate = FALSE /\ nticks = 0 /\ alarm = ListHead /\ ListHead \in Alarm!Entry
      /\ list.next = [e \in Alarm!Entry |-> IF e = ListHead THEN ListHead ELSE Null]
      /\ list.previous = [e \in Alarm!Entry |-> IF e = ListHead THEN ListHead ELSE Null]
      /\ list = [next |-> list.next, previous |-> list.previous]
      /\ time = [a \in UserAlarm |-> 0] /\ rollover = [a \in UserAlarm |-> FALSE]
      /\ left = [a \in UserAlarm |-> Null]
  BY DEF Alarm!Init, Alarm!Entry
<1>4. list \in Links
  BY <1>3 DEF Links
<1>5. Alarm!State \in Lists
  <2>1. 0 \in 0..(Wrap - 1)
    BY AlarmConstants
  <2>2. rollover \in [UserAlarm -> BOOLEAN]
    BY <1>3
  <2>3. time \in [UserAlarm -> 0..(Wrap - 1)] /\ left \in [UserAlarm -> (0..Wrap) \cup {Null}]
    BY <1>3, <2>1
  <2> QED  BY <1>4, <2>2, <2>3 DEF Alarm!State, Lists
<1>6. In_list(Alarm!State) = {}
  BY <1>3 DEF In_list, Alarm!State
<1>7. Ring(list, {}, 0, q)
  <2>1. q \in [0..(0 + 1) -> Alarm!Entry] /\ q[0] = ListHead /\ q[1] = ListHead
    BY <1>2, <1>3
  <2>2. \A i \in 0..0 : i = 0
    OBVIOUS
  <2>3. list.next[ListHead] = ListHead /\ list.previous[ListHead] = ListHead
    BY <1>3
  <2> QED  BY <2>1, <2>2, <2>3 DEF Ring
<1>8. \A a \in UserAlarm : Loose(list, a)
  BY <1>3, AlarmConstants DEF Loose, Alarm!Entry
<1>9. Order(Alarm!State, 0, q, 1)
  <2>1. Alarm!State.list = list
    BY DEF Alarm!State
  <2> QED  BY <2>1, <1>5, <1>6, <1>7, <1>8 DEF Order
<1>10. q[1] = alarm
  BY <1>2, <1>3
<1>11. InOrder(Alarm!State, alarm)
  BY <1>9, <1>10, InOrderFrom
<1>12. nticks \in 0..(Wrap - 1) /\ alarm \in Alarm!Entry
  BY <1>3, AlarmConstants
<1>13. tick_rate \in BOOLEAN
  BY <1>3
<1> QED  BY <1>11, <1>12, <1>13 DEF AlarmInv

LEMMA AlarmStill == AlarmInv /\ UNCHANGED alarmVars => AlarmInv'
<1> SUFFICES ASSUME AlarmInv, UNCHANGED alarmVars PROVE AlarmInv'
  OBVIOUS
<1>1. PICK s : s = Alarm!State
  OBVIOUS
<1>2. InOrder(s, alarm') /\ Alarm!Becomes(s)
  BY <1>1 DEF AlarmInv, alarmVars, Alarm!Becomes, Alarm!State
<1> QED  BY <1>2, AlarmBecomes DEF AlarmInv

LEMMA AlarmStep == Gentle /\ AlarmInv /\ Alarm!Next => AlarmInv'
<1> SUFFICES ASSUME Gentle, AlarmInv, Alarm!Next PROVE AlarmInv'
  OBVIOUS
<1>0. /\ tick_rate \in BOOLEAN /\ nticks \in 0..(Wrap - 1)
      /\ alarm \in Alarm!Entry /\ InOrder(Alarm!State, alarm)
  BY DEF AlarmInv
<1>1. ASSUME Alarm!SysClkInit PROVE AlarmInv'
  <2>1. PICK s : s = Alarm!State
    OBVIOUS
  <2>2. s = (Alarm!State)' /\ nticks' = nticks /\ alarm' = alarm /\ tick_rate' = TRUE
    BY <1>1, <2>1 DEF Alarm!SysClkInit, Alarm!State
  <2>3. InOrder(s, alarm)'
    <3>1. InOrder(s, alarm)
      BY <1>0, <2>1
    <3> QED  BY <3>1, <2>2 DEF InOrder, Order, Timed, Time, Passed, Ahead, Flagged
  <2>4. InOrder(Alarm!State, alarm)'
    BY <2>2, <2>3
  <2> QED  BY <1>0, <2>2, <2>4 DEF AlarmInv
<1>2. ASSUME Alarm!Tick PROVE AlarmInv'
  BY <1>2, AlarmTick
<1>3. ASSUME Alarm!Pass PROVE AlarmInv'
  <2>1. PICK s : s = Alarm!Visited(alarm)
    OBVIOUS
  <2>2. \E k, q, j : Order(Alarm!State, k, q, j) /\ alarm = q[j]
    BY <1>0 DEF InOrder
  <2>3. PICK k, q, j : Order(Alarm!State, k, q, j) /\ alarm = q[j]
    BY <2>2
  <2>4. q[j] \in UserAlarm /\ alarm' = list.next[q[j]] /\ Alarm!Becomes(s) /\ ~Alarm!Due(q[j])
    BY <1>3, <2>1, <2>3 DEF Alarm!Pass
  <2>5. j \in 1..k /\ list.next[q[j]] = q[j + 1]
    <3>1. j \in 1..k /\ Alarm!State.list.next[q[j]] = q[j + 1]
      BY <2>3, <2>4, AtHead
    <3> QED  BY <3>1 DEF Alarm!State
  <2>6. Order(Alarm!Visited(q[j]), k, q, j + 1)
    BY <1>0, <2>3, <2>4, <2>5, VisitOrder
  <2>7. InOrder(s, alarm')
    BY <2>1, <2>3, <2>4, <2>5, <2>6, InOrderFrom
  <2> QED  BY <1>0, <2>4, <2>7, AlarmBecomes
<1>4. ASSUME Alarm!Callback PROVE AlarmInv'
  <2>1. /\ alarm \in UserAlarm /\ Alarm!Due(alarm) /\ alarm' = list.next[alarm]
        /\ \E z : /\ Alarm!Becomes(z)
                  /\ \/ \E period \in 0..(Wrap - 1) :
                          z = Alarm!Returned(Alarm!Visited(alarm), alarm, period)
                     \/ z = Alarm!Returned(Alarm!Stopped(Alarm!Visited(alarm), alarm), alarm, 0)
                     \/ \E a \in Alarm!CanStart \ {alarm}, n \in 0..MaxDelay, period \in 0..1 :
                          z = Alarm!Returned(Alarm!Started(Alarm!Visited(alarm), a, n), alarm,
                                             period)
    <3>1. ~StopsOthers
      BY DEF Gentle
    <3> QED  BY <1>4, <3>1, Zenon DEF Alarm!Callback
  <2>2. PICK z : /\ Alarm!Becomes(z)
                 /\ \/ \E period \in 0..(Wrap - 1) :
                         z = Alarm!Returned(Alarm!Visited(alarm), alarm, period)
                    \/ z = Alarm!Returned(Alarm!Stopped(Alarm!Visited(alarm), alarm), alarm, 0)
                    \/ \E a \in Alarm!CanStart \ {alarm}, n \in 0..MaxDelay, period \in 0..1 :
                         z = Alarm!Returned(Alarm!Started(Alarm!Visited(alarm), a, n), alarm,
                                            period)
    BY <2>1
  <2>3. InOrder(z, list.next[alarm])
    BY <1>0, <2>1, <2>2, CallbackInOrder, Zenon
  <2> QED  BY <1>0, <2>1, <2>2, <2>3, AlarmBecomes
<1>5. ASSUME NEW a \in Alarm!CanStart, NEW n \in 0..MaxDelay, Alarm!Start(a, n) PROVE AlarmInv'
  <2>1. a \in UserAlarm /\ left[a] = Null
    BY DEF Alarm!CanStart, Alarm!registered
  <2>2. PICK s : s = Alarm!Started(Alarm!State, a, n)
    OBVIOUS
  <2>3. Alarm!Becomes(s) /\ alarm' = alarm
    BY <1>5, <2>2 DEF Alarm!Start
  <2>4. InOrder(s, alarm')
    BY <1>0, <2>1, <2>2, <2>3, StartInOrder
  <2> QED  BY <1>0, <2>3, <2>4, AlarmBecomes
<1>6. ASSUME NEW a \in Alarm!CanStop, Alarm!Stop(a) PROVE AlarmInv'
  <2>1. a \in UserAlarm /\ list.next[a] # Null
    BY DEF Alarm!CanStop
  <2>2. PICK s : s = Alarm!Stopped(Alarm!State, a)
    OBVIOUS
  <2>3. Alarm!Becomes(s) /\ alarm' = alarm /\ alarm = ListHead
    BY <1>6, <2>2 DEF Alarm!Stop
  <2>4. InOrder(s, alarm')
    BY <1>0, <2>1, <2>2, <2>3, StopInOrder
  <2> QED  BY <1>0, <2>3, <2>4, AlarmBecomes
<1> QED  BY <1>1, <1>2, <1>3, <1>4, <1>5, <1>6 DEF Alarm!Next

-----------------------------------------------------------------------------
\* The entry n steps from the head: the ring, round and round.
LEMMA Around ==
  ASSUME NEW k \in Nat, NEW n \in Nat \ {0}
  PROVE  /\ n % (k + 1) \in 0..k /\ (n - 1) % (k + 1) \in 0..k
         /\ n % (k + 1) = IF (n - 1) % (k + 1) = k THEN 0 ELSE ((n - 1) % (k + 1)) + 1
OBVIOUS

LEMMA ReachIs ==
  ASSUME NEW l, l = list, NEW k \in Nat, NEW q, q[0] = ListHead, q[k + 1] = ListHead,
         \A i \in 0..k : l.next[q[i]] = q[i + 1]
  PROVE  /\ Alarm!Reach[0] = ListHead
         /\ \A n \in Nat : Alarm!Reach[n + 1] = list.next[Alarm!Reach[n]]
<1> DEFINE f == [n \in Nat |-> q[n % (k + 1)]]
<1>1. ASSUME NEW n \in Nat
      PROVE  f[n] = IF n = 0 THEN ListHead ELSE list.next[f[n - 1]]
  <2>1. CASE n = 0
    <3>1. 0 % (k + 1) = 0
      OBVIOUS
    <3> QED  BY <2>1, <3>1
  <2>2. CASE n # 0
    <3> DEFINE c == (n - 1) % (k + 1)
               d == n % (k + 1)
    <3>1. c \in 0..k /\ d \in 0..k /\ d = (IF c = k THEN 0 ELSE c + 1)
      BY <2>2, Around
    <3>2. n - 1 \in Nat /\ f[n] = q[d] /\ f[n - 1] = q[c]
      BY <2>2
    <3> HIDE DEF c, d, f
    <3>3. q[d] = q[c + 1]
      BY <3>1
    <3>4. list.next[q[c]] = q[c + 1]
      BY <3>1
    <3> QED  BY <2>2, <3>2, <3>3, <3>4
  <2> QED  BY <2>1, <2>2
<1>2. f = [n \in Nat |-> IF n = 0 THEN ListHead ELSE list.next[f[n - 1]]]
  <2>1. f = [n \in Nat |-> f[n]]
    OBVIOUS
  <2> HIDE DEF f
  <2> QED  BY <1>1, <2>1
<1> HIDE DEF f
<1>3. \E g : g = [n \in Nat |-> IF n = 0 THEN ListHead ELSE list.next[g[n - 1]]]
  BY <1>2
<1>4. Alarm!Reach = [n \in Nat |-> IF n = 0 THEN ListHead ELSE list.next[Alarm!Reach[n - 1]]]
  BY <1>3, Zenon DEF Alarm!Reach
<1>5. Alarm!Reach[0] = ListHead
  BY <1>4
<1>6. ASSUME NEW n \in Nat PROVE Alarm!Reach[n + 1] = list.next[Alarm!Reach[n]]
  <2>1. n + 1 \in Nat /\ n + 1 # 0 /\ (n + 1) - 1 = n
    OBVIOUS
  <2> QED  BY <1>4, <2>1
<1> QED  BY <1>5, <1>6

LEMMA ListWhole == AlarmInv => Alarm!ListIntact
<1> SUFFICES ASSUME AlarmInv PROVE Alarm!ListIntact
  OBVIOUS
<1>1. \E k, q, j : Order(Alarm!State, k, q, j)
  BY DEF InOrder, AlarmInv
<1>2. PICK k, q, j : Order(Alarm!State, k, q, j)
  BY <1>1
<1> DEFINE R == Alarm!registered
<1>3. R = In_list(Alarm!State) /\ R \in SUBSET UserAlarm
  BY DEF Alarm!registered, In_list, Alarm!State
<1>4. k \in Nat /\ Ring(list, R, k, q)
  BY <1>2, <1>3 DEF Order, Alarm!State
<1> HIDE DEF R
<1>5. /\ q[0] = ListHead /\ q[k + 1] = ListHead
      /\ \A i \in 0..k : list.next[q[i]] = q[i + 1] /\ list.previous[q[i + 1]] = q[i]
      /\ \A i, m \in 1..k : q[i] = q[m] => i = m
      /\ \A a \in R : \E i \in 1..k : q[i] = a
      /\ \A i \in 1..k : q[i] \in R
  BY <1>4 DEF Ring
<1>6. Cardinality(R) = k
  <2> DEFINE g == [i \in 1..k |-> q[i]]
  <2>1. g \in Bijection(1..k, R)
    <3>1. g \in [1..k -> R] /\ \A t \in R : \E i \in 1..k : g[i] = t
      BY <1>5
    <3>2. \A i, m \in 1..k : g[i] = g[m] => i = m
      BY <1>5
    <3> HIDE DEF g
    <3>3. g \in Injection(1..k, R)
      BY <3>1, <3>2 DEF Injection, IsInjective
    <3> QED  BY <3>1, <3>3 DEF Bijection, Surjection
  <2>2. IsFiniteSet(1..k) /\ Cardinality(1..k) = k
    <3>1. IsFiniteSet(1..k) /\ Cardinality(1..k) = IF 1 > k THEN 0 ELSE k - 1 + 1
      BY <1>4, FS_Interval
    <3> QED  BY <3>1, <1>4
  <2>3. ExistsBijection(1..k, R)
    BY <2>1 DEF ExistsBijection
  <2> QED  BY <2>2, <2>3, FS_Bijection
<1>7. /\ Alarm!Reach[0] = ListHead
      /\ \A n \in Nat : Alarm!Reach[n + 1] = list.next[Alarm!Reach[n]]
  <2>1. PICK l : l = list
    OBVIOUS
  <2>2. \A i \in 0..k : l.next[q[i]] = q[i + 1]
    BY <1>5, <2>1
  <2> QED  BY <2>1, <2>2, <1>4, <1>5, ReachIs
<1>8. \A n \in 0..(k + 1) : Alarm!Reach[n] = q[n]
  <2> DEFINE S == {n \in Nat : n \in 0..(k + 1) => Alarm!Reach[n] = q[n]}
  <2>1. 0 \in S
    BY <1>5, <1>7
  <2>2. ASSUME NEW n \in Nat, n \in S PROVE n + 1 \in S
    <3>1. CASE n \in 0..k
      <4>1. Alarm!Reach[n] = q[n]
        BY <2>2, <3>1, <1>4
      <4>2. Alarm!Reach[n + 1] = q[n + 1]
        BY <4>1, <3>1, <1>5, <1>7
      <4> QED  BY <4>2
    <3>2. CASE n \notin 0..k
      BY <3>2, <1>4
    <3> QED  BY <3>1, <3>2
  <2> HIDE DEF S
  <2>3. Nat \subseteq S
    BY <2>1, <2>2, SetInduction
  <2> QED  BY <2>3, <1>4 DEF S
<1>9. {Alarm!Reach[n] : n \in 0..Cardinality(R)} = R \cup {ListHead}
  <2>1. \A n \in 0..k : Alarm!Reach[n] = q[n] /\ q[n] \in R \cup {ListHead}
    <3>1. \A n \in 0..k : n = 0 \/ n \in 1..k
      BY <1>4
    <3> QED  BY <3>1, <1>4, <1>5, <1>8
  <2>2. \A a \in R \cup {ListHead} : \E n \in 0..k : Alarm!Reach[n] = a
    <3>1. 0 \in 0..k /\ \A n \in 1..k : n \in 0..k
      BY <1>4
    <3> QED  BY <3>1, <2>1, <1>5
  <2> QED  BY <2>1, <2>2, <1>6
<1>10. Alarm!Reach[Cardinality(R) + 1] = ListHead
  BY <1>4, <1>5, <1>6, <1>8
<1>11. \A e \in R \cup {ListHead} : list.previous[list.next[e]] = e
  <2>1. \A e \in R \cup {ListHead} : \E i \in 0..k : q[i] = e
    <3>1. 0 \in 0..k /\ \A n \in 1..k : n \in 0..k
      BY <1>4
    <3> QED  BY <3>1, <1>5
  <2> QED  BY <2>1, <1>5
<1>12. R = Alarm!registered
  BY DEF R
<1>13. \A S : Alarm!Cardinality(S) = Cardinality(S)
  BY Zenon DEF Alarm!Cardinality, Cardinality
<1> QED  BY <1>9, <1>10, <1>11, <1>12, <1>13, Zenon DEF Alarm!ListIntact

LEMMA CalledOnTime == AlarmInv => Alarm!OnTime
<1> SUFFICES ASSUME AlarmInv PROVE Alarm!OnTime
  OBVIOUS
<1>1. \E k, q, j : Order(Alarm!State, k, q, j) /\ alarm = q[j]
  BY DEF InOrder, AlarmInv
<1>2. PICK k, q, j : Order(Alarm!State, k, q, j) /\ alarm = q[j]
  BY <1>1
<1>3. ASSUME alarm \in Alarm!registered, Alarm!Due(alarm) PROVE left[alarm] = 0
  <2>1. q[j] \in UserAlarm /\ Alarm!Due(q[j])
    BY <1>2, <1>3 DEF Alarm!registered
  <2>2. j \in 1..k
    BY <2>1, <1>2, AtHead
  <2>3. left[q[j]] = 0
    BY <2>1, <2>2, <1>2, VisitOrder DEF AlarmInv
  <2> QED  BY <2>3, <1>2
<1>4. ASSUME alarm = ListHead, NEW a \in Alarm!registered PROVE left[a] > 0
  <2>0. k \in Nat
    BY <1>2 DEF Order
  <2>1. j = k + 1
    <3>1. Order(Alarm!State, k, q, j) /\ q[j] = ListHead
      BY <1>2, <1>4
    <3> QED  BY <3>1, AtHead
  <2>2. a \in In_list(Alarm!State)
    BY DEF Alarm!registered, In_list, Alarm!State
  <2>3. PICK i \in 1..k : q[i] = a
    BY <2>2, <1>2 DEF Order, Ring
  <2>4. Passed(Alarm!State, a)
    BY <2>0, <2>1, <2>3, <1>2 DEF Order
  <2> QED  BY <2>4 DEF Passed, Alarm!State
<1> QED  BY <1>3, <1>4 DEF Alarm!OnTime, Alarm!NeverEarly

(***************************************************************************)
(* For any number of alarms, a counter of any width and any sequence of    *)
(* starts, stops, ticks and callbacks: the list stays whole, and an alarm  *)
(* is called in the tick it is due and in no other, across the wraps of    *)
(* the counter.  That holds where no callback stops another's alarm and    *)
(* the longest delay leaves room for the tick that is added to it; where   *)
(* one does or it does not, the property fails (README, section 4).        *)
(***************************************************************************)
THEOREM AlarmsKeepTime == ASSUME ~StopsOthers, MaxDelay + 1 < Wrap PROVE Spec => []AlarmsOnTime
<1>1. Init => AlarmInv
  BY PartsStart, AlarmInit
<1>2. AlarmInv /\ [Next]_vars => AlarmInv'
  BY PartsStep, AlarmStep, AlarmStill DEF Gentle
<1>3. AlarmInv => AlarmsOnTime
  BY ListWhole, CalledOnTime DEF AlarmsOnTime
<1> QED  BY <1>1, <1>2, <1>3, PTL DEF Spec

\* No alarm leaves its types either.
LEMMA AlarmTypes == AlarmInv => Alarm!TypeOK
<1> SUFFICES ASSUME AlarmInv PROVE Alarm!TypeOK
  OBVIOUS
<1>1. Alarm!State \in Lists
  BY DEF AlarmInv, InOrder, Order
<1>2. /\ list \in Links /\ time \in [UserAlarm -> 0..(Wrap - 1)]
      /\ rollover \in [UserAlarm -> BOOLEAN] /\ left \in [UserAlarm -> (0..Wrap) \cup {Null}]
  BY <1>1, StateFields DEF Alarm!State
<1> QED  BY <1>2 DEF AlarmInv, Alarm!TypeOK, Links

-----------------------------------------------------------------------------
(***************************************************************************)
(* The profiler.  The invariant: lists lead to older blocks, an entry      *)
(* without arcs is one that a caller is about to link its first arc to,    *)
(* with interrupts off, so that the other one does not come by; and no     *)
(* count is above the number of the calls that have counted themselves.    *)
(***************************************************************************)
Alone == {"newfn", "linkfn", "newarc", "linkarc"}
Linking == {"linkfn", "newarc", "linkarc"}
Counting == {"arcs", "load", "store"}
Places == {"idle", "functions", "record", "return"} \cup Alone \cup Counting

Blocks == [next : Nat, self_pc : Function, arc_head : Nat]
ArcBlocks == [next : Nat, from_pc : Site, count : Nat]
Frame == [at : Places, self : Function \cup {0}, from : Site \cup {0}, fn : Nat, arc : Nat,
          count : Nat, context : BOOLEAN, calls : Nat]

\* The calls of f that have counted themselves.
Done(f) == IF f.at \in {"idle", "linkarc", "return"} THEN f.calls ELSE f.calls - 1

\* A frame, where the bucket has m entries and n arcs and total calls are counted.
Sound(f, m, n, total) ==
  /\ f \in Frame /\ f.fn <= m /\ f.arc <= n /\ f.calls <= MaxCalls
  /\ f.at # "idle" => f.calls > 0 /\ f.self \in Function /\ f.from \in Site
  /\ f.at \in Counting \cup {"linkarc"} => f.arc # 0
  /\ f.at \in Counting \cup Linking => f.fn # 0
  /\ f.at = "store" => f.count <= total

Older(h, E, A, total) ==
  /\ E \in Seq(Blocks) /\ A \in Seq(ArcBlocks) /\ h \in 0..Len(E)
  /\ \A e \in 1..Len(E) : E[e].next < e /\ E[e].arc_head <= Len(A)
  /\ \A a \in 1..Len(A) : A[a].next < a /\ A[a].count \in 1..total

Masked(on, p, r) ==
  /\ on \in BOOLEAN
  /\ p.at \in Alone \/ r.at # "idle" => ~on
  /\ r.at # "idle" => p.at \notin Alone
  /\ r.at \in Alone => ~r.context

\* The bucket h, E, A, and the frames of the two callers in either order.
Bucket(h, E, A, f, g) ==
  /\ Older(h, E, A, Done(f) + Done(g))
  /\ Sound(f, Len(E), Len(A), Done(f) + Done(g))
  /\ Sound(g, Len(E), Len(A), Done(f) + Done(g))
  /\ \A e \in 1..Len(E) : E[e].arc_head = 0 =>
       (f.at \in Linking /\ f.fn = e) \/ (g.at \in Linking /\ g.fn = e)

ProfilerInv ==
  /\ mcount_call \in [{"program", "routine"} -> Frame]
  /\ Bucket(fn_head, entry, arc, mcount_call["program"], mcount_call["routine"])
  /\ Masked(mcount_PIE, mcount_call["program"], mcount_call["routine"])

LEMMA CallsBound == MaxCalls \in Nat
BY RuntimeAssumption DEF Profiler!ProfilingAssumption

LEMMA FrameIs ==
  ASSUME NEW f \in Frame
  PROVE  /\ f = [at |-> f.at, self |-> f.self, from |-> f.from, fn |-> f.fn, arc |-> f.arc,
                 count |-> f.count, context |-> f.context, calls |-> f.calls]
         /\ f.at \in Places /\ f.self \in Function \cup {0} /\ f.from \in Site \cup {0}
         /\ f.fn \in Nat /\ f.arc \in Nat /\ f.count \in Nat /\ f.context \in BOOLEAN
         /\ f.calls \in Nat
BY DEF Frame

\* f with another place; the same elsewhere.
Same(w, f) ==
  /\ w.self = f.self /\ w.from = f.from /\ w.calls = f.calls

LEMMA Goes ==
  ASSUME NEW f \in Frame, NEW x \in Places
  PROVE  LET w == [f EXCEPT !.at = x]
         IN  /\ w \in Frame /\ Same(w, f) /\ w.at = x /\ w.fn = f.fn /\ w.arc = f.arc
             /\ w.count = f.count /\ w.context = f.context
BY DEF Frame, Same

\* A frame that goes to a place with a function, an arc, a count.
ToFn(f, x, n) == [f EXCEPT !.at = x, !.fn = n]
ToArc(f, x, n) == [f EXCEPT !.at = x, !.arc = n]
ToCount(f, x, n) == [f EXCEPT !.at = x, !.count = n]
ToContext(f, x, b) == [f EXCEPT !.at = x, !.context = b]

LEMMA GoesToArc ==
  ASSUME NEW f \in Frame, NEW x \in Places, NEW n \in Nat
  PROVE  LET w == ToArc(f, x, n)
         IN  /\ w \in Frame /\ Same(w, f) /\ w.at = x /\ w.fn = f.fn /\ w.arc = n
             /\ w.count = f.count /\ w.context = f.context
BY DEF Frame, Same, ToArc

LEMMA GoesToFn ==
  ASSUME NEW f \in Frame, NEW x \in Places, NEW n \in Nat
  PROVE  LET w == ToFn(f, x, n)
         IN  /\ w \in Frame /\ Same(w, f) /\ w.at = x /\ w.fn = n /\ w.arc = f.arc
             /\ w.count = f.count /\ w.context = f.context
BY DEF Frame, Same, ToFn

LEMMA GoesOn ==
  ASSUME NEW f \in Frame, NEW n \in Nat
  PROVE  /\ LET w == [f EXCEPT !.fn = n]
            IN  /\ w \in Frame /\ Same(w, f) /\ w.at = f.at /\ w.fn = n /\ w.arc = f.arc
                /\ w.count = f.count /\ w.context = f.context
         /\ LET w == [f EXCEPT !.arc = n]
            IN  /\ w \in Frame /\ Same(w, f) /\ w.at = f.at /\ w.fn = f.fn /\ w.arc = n
                /\ w.count = f.count /\ w.context = f.context
BY DEF Frame, Same

LEMMA GoesToCount ==
  ASSUME NEW f \in Frame, NEW x \in Places, NEW n \in Nat
  PROVE  LET w == ToCount(f, x, n)
         IN  /\ w \in Frame /\ Same(w, f) /\ w.at = x /\ w.fn = f.fn /\ w.arc = f.arc
             /\ w.count = n /\ w.context = f.context
BY DEF Frame, Same, ToCount

LEMMA ContextIs ==
  ASSUME NEW f \in Frame, NEW x, NEW b
  PROVE  [f EXCEPT !.at = x, !.context = b] =
           [at |-> x, self |-> f.self, from |-> f.from, fn |-> f.fn, arc |-> f.arc,
            count |-> f.count, context |-> b, calls |-> f.calls]
<1> DEFINE A == [f EXCEPT !.at = x]
<1>1. [f EXCEPT !.at = x, !.context = b] = [A EXCEPT !.context = b]
  BY Zenon
<1>2. A = [at |-> x, self |-> f.self, from |-> f.from, fn |-> f.fn, arc |-> f.arc,
           count |-> f.count, context |-> f.context, calls |-> f.calls]
  BY FrameIs
<1> HIDE DEF A
<1>3. [A EXCEPT !.context = b] =
        [at |-> x, self |-> f.self, from |-> f.from, fn |-> f.fn, arc |-> f.arc,
         count |-> f.count, context |-> b, calls |-> f.calls]
  BY <1>2
<1> QED  BY <1>1, <1>3

LEMMA GoesToContext ==
  ASSUME NEW f \in Frame, NEW x \in Places, NEW b \in BOOLEAN
  PROVE  LET w == ToContext(f, x, b)
         IN  /\ w \in Frame /\ Same(w, f) /\ w.at = x /\ w.fn = f.fn /\ w.arc = f.arc
             /\ w.count = f.count /\ w.context = b
<1> DEFINE w == ToContext(f, x, b)
<1>1. w = [at |-> x, self |-> f.self, from |-> f.from, fn |-> f.fn, arc |-> f.arc,
           count |-> f.count, context |-> b, calls |-> f.calls]
  BY ContextIs DEF ToContext
<1> HIDE DEF w
<1>2. w \in Frame
  BY <1>1, FrameIs DEF Frame
<1>3. w.context = b
  BY <1>1, Zenon
<1>4. /\ Same(w, f) /\ w.at = x /\ w.fn = f.fn /\ w.arc = f.arc /\ w.count = f.count
  BY <1>1 DEF Same
<1> QED  BY <1>2, <1>3, <1>4 DEF w

LEMMA IdleIs ==
  \E b : /\ b = FALSE
         /\ Profiler!Idle = [at |-> "idle", self |-> 0, from |-> 0, fn |-> 0, arc |-> 0,
                             count |-> 0, context |-> b, calls |-> 0]
BY Zenon DEF Profiler!Idle, Profiler!NULL

\* The frame of a call that begins.
Begun(s, t, n, m) ==
  [Profiler!Idle EXCEPT !.at = "functions", !.self = s, !.from = t, !.fn = n, !.calls = m]

LEMMA Begins ==
  ASSUME NEW s \in Function, NEW t \in Site, NEW n \in Nat, NEW m \in Nat
  PROVE  LET z == Begun(s, t, n, m)
         IN  /\ z \in Frame /\ z.at = "functions" /\ z.self = s /\ z.from = t /\ z.fn = n
             /\ z.arc = 0 /\ z.count = 0 /\ z.calls = m
<1>1. PICK b : /\ b = FALSE
               /\ Profiler!Idle = [at |-> "idle", self |-> 0, from |-> 0, fn |-> 0, arc |-> 0,
                                   count |-> 0, context |-> b, calls |-> 0]
  BY IdleIs
<1> DEFINE I == [at |-> "idle", self |-> 0, from |-> 0, fn |-> 0, arc |-> 0,
                 count |-> 0, context |-> b, calls |-> 0]
           w == [at |-> "functions", self |-> s, from |-> t, fn |-> n, arc |-> 0,
                 count |-> 0, context |-> b, calls |-> m]
<1> DEFINE z == Begun(s, t, n, m)
<1>2. z = [[[[[I EXCEPT !.at = "functions"] EXCEPT !.self = s] EXCEPT !.from = t]
             EXCEPT !.fn = n] EXCEPT !.calls = m]
  BY <1>1, Zenon DEF Begun
<1> HIDE DEF z
<1>3. z = w
  <2>1. b \in BOOLEAN
    BY <1>1
  <2> QED  BY <1>2
<1>4. w \in Frame
  <2>1. b \in BOOLEAN
    BY <1>1
  <2> QED  BY <2>1 DEF Frame, Places
<1>6. /\ z.at = "functions" /\ z.self = s /\ z.from = t /\ z.fn = n /\ z.arc = 0
      /\ z.count = 0 /\ z.calls = m
  BY <1>3
<1> QED  BY <1>3, <1>4, <1>6 DEF z

LEMMA Ends ==
  ASSUME NEW m \in Nat
  PROVE  LET w == [Profiler!Idle EXCEPT !.calls = m]
         IN  /\ w \in Frame /\ w.at = "idle" /\ w.fn = 0 /\ w.arc = 0 /\ w.calls = m
             /\ w.context = FALSE
<1>1. PICK b : /\ b = FALSE
               /\ Profiler!Idle = [at |-> "idle", self |-> 0, from |-> 0, fn |-> 0, arc |-> 0,
                                   count |-> 0, context |-> b, calls |-> 0]
  BY IdleIs
<1> DEFINE I == [at |-> "idle", self |-> 0, from |-> 0, fn |-> 0, arc |-> 0,
                 count |-> 0, context |-> b, calls |-> 0]
           w == [at |-> "idle", self |-> 0, from |-> 0, fn |-> 0, arc |-> 0,
                 count |-> 0, context |-> b, calls |-> m]
           z == [Profiler!Idle EXCEPT !.calls = m]
<1>2. z = [I EXCEPT !.calls = m]
  BY <1>1, Zenon
<1>3. z = w
  <2> HIDE DEF z
  <2> QED  BY <1>2
<1>4. w \in Frame
  <2>1. b \in BOOLEAN
    BY <1>1
  <2> QED  BY <2>1 DEF Frame, Places
<1>5. z.context = FALSE
  BY <1>1, <1>3, Zenon
<1> HIDE DEF z
<1>6. z.at = "idle" /\ z.fn = 0 /\ z.arc = 0 /\ z.calls = m
  BY <1>3
<1> QED  BY <1>3, <1>4, <1>5, <1>6 DEF z

LEMMA DoneIs ==
  ASSUME NEW f, NEW m, NEW n, NEW t, Sound(f, m, n, t)
  PROVE  Done(f) \in Nat /\ Done(f) <= MaxCalls /\ f \in Frame /\ f.calls <= MaxCalls
BY CallsBound, FrameIs DEF Sound, Done

LEMMA BucketIs ==
  ASSUME NEW h, NEW E, NEW A, NEW f, NEW g, Bucket(h, E, A, f, g)
  PROVE  /\ E \in Seq(Blocks) /\ A \in Seq(ArcBlocks) /\ Len(E) \in Nat /\ Len(A) \in Nat
         /\ h \in 0..Len(E)
         /\ \A e \in 1..Len(E) : /\ E[e] \in Blocks /\ E[e].next \in Nat /\ E[e].next < e
                                 /\ E[e].arc_head \in Nat /\ E[e].arc_head <= Len(A)
                                 /\ E[e].self_pc \in Function
         /\ \A a \in 1..Len(A) : /\ A[a] \in ArcBlocks /\ A[a].next \in Nat /\ A[a].next < a
                                 /\ A[a].count \in 1..(Done(f) + Done(g))
                                 /\ A[a].from_pc \in Site
         /\ Done(f) \in Nat /\ Done(g) \in Nat /\ f \in Frame /\ g \in Frame
         /\ Sound(f, Len(E), Len(A), Done(f) + Done(g))
         /\ Sound(g, Len(E), Len(A), Done(f) + Done(g))
<1>1. E \in Seq(Blocks) /\ A \in Seq(ArcBlocks) /\ Len(E) \in Nat /\ Len(A) \in Nat
  BY DEF Bucket, Older
<1>2. /\ \A e \in 1..Len(E) : E[e] \in Blocks
      /\ \A a \in 1..Len(A) : A[a] \in ArcBlocks
  BY <1>1
<1>3. /\ \A x \in Blocks : x.next \in Nat /\ x.arc_head \in Nat /\ x.self_pc \in Function
      /\ \A x \in ArcBlocks : x.next \in Nat /\ x.from_pc \in Site
  BY DEF Blocks, ArcBlocks
<1>4. Done(f) \in Nat /\ Done(g) \in Nat /\ f \in Frame /\ g \in Frame
  BY DoneIs DEF Bucket
<1> QED  BY <1>1, <1>2, <1>3, <1>4 DEF Bucket, Older

\* A longer bucket and more calls leave a frame sound.
LEMMA StillSound ==
  ASSUME NEW f, NEW m \in Nat, NEW n \in Nat, NEW t \in Nat, Sound(f, m, n, t),
         NEW m2 \in Nat, NEW n2 \in Nat, NEW t2 \in Nat, m <= m2, n <= n2, t <= t2
  PROVE  Sound(f, m2, n2, t2)
BY FrameIs DEF Sound

\* A step of f that changes its frame alone.
LEMMA FrameStep ==
  ASSUME NEW h, NEW E, NEW A, NEW f, NEW g, Bucket(h, E, A, f, g), NEW w,
         Done(w) = Done(f), f.at \notin Linking,
         Sound(w, Len(E), Len(A), Done(f) + Done(g))
  PROVE  Bucket(h, E, A, w, g)
BY DEF Bucket

LEMMA BeginStep ==
  ASSUME NEW h, NEW E, NEW A, NEW f, NEW g, Bucket(h, E, A, f, g), f.at = "idle",
         f.calls < MaxCalls, NEW s \in Function, NEW t \in Site
  PROVE  Bucket(h, E, A, Begun(s, t, h, f.calls + 1), g)
<1>0. PICK m : m = f.calls + 1
  OBVIOUS
<1> DEFINE w == Begun(s, t, h, m)
<1>1. /\ h \in 0..Len(E) /\ Len(E) \in Nat /\ Len(A) \in Nat /\ f \in Frame
      /\ Done(f) \in Nat /\ Done(g) \in Nat
  BY BucketIs
<1>2. f.calls \in Nat /\ m \in Nat /\ m = f.calls + 1 /\ h \in Nat
  BY <1>0, <1>1, FrameIs
<1>3. /\ w \in Frame /\ w.at = "functions" /\ w.self = s /\ w.from = t /\ w.fn = h
      /\ w.arc = 0 /\ w.count = 0 /\ w.calls = m
  BY <1>2, Begins
<1> HIDE DEF w
<1>4. Done(w) = Done(f)
  BY <1>2, <1>3 DEF Done
<1>5. Sound(w, Len(E), Len(A), Done(f) + Done(g))
  BY <1>1, <1>2, <1>3, CallsBound DEF Sound, Counting, Linking
<1>6. f.at \notin Linking
  BY DEF Linking
<1> QED  BY <1>0, <1>4, <1>5, <1>6, FrameStep DEF w

LEMMA EndStep ==
  ASSUME NEW h, NEW E, NEW A, NEW f, NEW g, Bucket(h, E, A, f, g), f.at = "return"
  PROVE  Bucket(h, E, A, [Profiler!Idle EXCEPT !.calls = f.calls], g)
<1> DEFINE w == [Profiler!Idle EXCEPT !.calls = f.calls]
<1>1. /\ Len(E) \in Nat /\ Len(A) \in Nat /\ f \in Frame /\ f.calls <= MaxCalls
      /\ Done(f) \in Nat /\ Done(g) \in Nat
  BY BucketIs, DoneIs
<1>2. f.calls \in Nat
  BY <1>1, FrameIs
<1>3. w \in Frame /\ w.at = "idle" /\ w.fn = 0 /\ w.arc = 0 /\ w.calls = f.calls
  BY <1>2, Ends
<1> HIDE DEF w
<1>4. Done(w) = Done(f)
  BY <1>3 DEF Done
<1>5. Sound(w, Len(E), Len(A), Done(f) + Done(g))
  BY <1>1, <1>2, <1>3, CallsBound DEF Sound, Counting, Linking
<1>6. f.at \notin Linking
  BY DEF Linking
<1> QED  BY <1>4, <1>5, <1>6, FrameStep DEF w

\* A search goes from place to place of the lists.
LEMMA WalkStep ==
  ASSUME NEW h, NEW E, NEW A, NEW f, NEW g, Bucket(h, E, A, f, g), NEW w \in Frame,
         f.at \in {"functions", "arcs", "load", "record"}, Same(w, f),
         w.at \in {"functions", "arcs", "load", "record", "store", "newfn"}
                  \/ (w.at = "newarc" /\ w.fn # 0),
         w.fn <= Len(E), w.arc <= Len(A), w.at \in Counting => w.fn # 0 /\ w.arc # 0,
         w.at = "store" => w.count <= Done(f) + Done(g)
  PROVE  Bucket(h, E, A, w, g)
<1>1. /\ Len(E) \in Nat /\ Len(A) \in Nat /\ f \in Frame /\ f.calls <= MaxCalls
      /\ Done(f) \in Nat /\ Done(g) \in Nat /\ Sound(f, Len(E), Len(A), Done(f) + Done(g))
  BY BucketIs, DoneIs
<1>2. f.calls \in Nat /\ w.calls = f.calls /\ w.self = f.self /\ w.from = f.from
  BY <1>1, FrameIs DEF Same
<1>3. Done(w) = Done(f)
  BY <1>2 DEF Done
<1>4. Sound(w, Len(E), Len(A), Done(f) + Done(g))
  BY <1>1, <1>2 DEF Sound, Counting, Linking
<1>5. f.at \notin Linking
  BY DEF Linking
<1> QED  BY <1>3, <1>4, <1>5, FrameStep

LEMMA CountBecomes ==
  ASSUME NEW x \in ArcBlocks, NEW n \in Nat
  PROVE  LET b == [x EXCEPT !.count = n]
         IN  b \in ArcBlocks /\ b.next = x.next /\ b.from_pc = x.from_pc /\ b.count = n
BY DEF ArcBlocks

LEMMA HeadBecomes ==
  ASSUME NEW x \in Blocks, NEW n \in Nat
  PROVE  LET b == [x EXCEPT !.arc_head = n]
         IN  b \in Blocks /\ b.next = x.next /\ b.self_pc = x.self_pc /\ b.arc_head = n
BY DEF Blocks


LEMMA StoreStep ==
  ASSUME NEW h, NEW E, NEW A, NEW f, NEW g, Bucket(h, E, A, f, g), f.at = "store"
  PROVE  Bucket(h, E, [A EXCEPT ![f.arc].count = f.count + 1], g, [f EXCEPT !.at = "return"])
<1> DEFINE w == [f EXCEPT !.at = "return"]
           B == [A EXCEPT ![f.arc].count = f.count + 1]
<1>1. /\ E \in Seq(Blocks) /\ A \in Seq(ArcBlocks) /\ Len(E) \in Nat /\ Len(A) \in Nat
      /\ h \in 0..Len(E)
      /\ \A a \in 1..Len(A) : /\ A[a] \in ArcBlocks /\ A[a].next \in Nat /\ A[a].next < a
                              /\ A[a].count \in 1..(Done(f) + Done(g))
      /\ Done(f) \in Nat /\ Done(g) \in Nat /\ f \in Frame /\ g \in Frame
      /\ Sound(f, Len(E), Len(A), Done(f) + Done(g))
      /\ Sound(g, Len(E), Len(A), Done(f) + Done(g))
  BY BucketIs
<1>2. w \in Frame /\ Same(w, f) /\ w.at = "return" /\ w.fn = f.fn /\ w.arc = f.arc
  BY <1>1, Goes DEF Places
<1>3. /\ f.arc \in 1..Len(A) /\ f.count \in Nat /\ f.count <= Done(f) + Done(g)
      /\ f.calls \in Nat /\ f.calls > 0 /\ f.fn \in Nat /\ f.fn <= Len(E)
  BY <1>1, FrameIs DEF Sound, Counting
<1>4. Done(w) = Done(f) + 1
  BY <1>2, <1>3 DEF Done, Same
<1> HIDE DEF w
<1>5. /\ B \in Seq(ArcBlocks) /\ Len(B) = Len(A)
      /\ \A a \in 1..Len(A) : B[a].next = A[a].next
      /\ \A a \in 1..Len(A) : B[a].count = IF a = f.arc THEN f.count + 1 ELSE A[a].count
  <2> DEFINE b == [A[f.arc] EXCEPT !.count = f.count + 1]
  <2>1. B = [A EXCEPT ![f.arc] = b]
    BY Zenon
  <2>2. b \in ArcBlocks /\ b.next = A[f.arc].next /\ b.count = f.count + 1
    <3>1. A[f.arc] \in ArcBlocks /\ f.count + 1 \in Nat
      BY <1>1, <1>3
    <3> HIDE DEF b
    <3> QED  BY <3>1, CountBecomes DEF b
  <2> HIDE DEF b, B
  <2>3. B \in Seq(ArcBlocks) /\ Len(B) = Len(A)
    BY <2>1, <2>2, <1>1, <1>3
  <2>4. \A a \in 1..Len(A) : B[a] = IF a = f.arc THEN b ELSE A[a]
    BY <2>1, <1>1
  <2> QED  BY <2>2, <2>3, <2>4
<1> HIDE DEF B
<1>6. Older(h, E, B, Done(g) + Done(w))
  <2>1. \A a \in 1..Len(B) : B[a].next < a /\ B[a].count \in 1..(Done(g) + Done(w))
    <3> TAKE a \in 1..Len(B)
    <3>1. a \in 1..Len(A) /\ B[a].next = A[a].next
      BY <1>5
    <3>2. CASE a = f.arc
      <4>1. B[a].count = f.count + 1
        BY <3>1, <3>2, <1>5
      <4>2. A[a].next < a /\ f.count \in Nat /\ f.count + 1 <= Done(g) + Done(w)
        BY <3>1, <1>1, <1>3, <1>4, SMTT(40)
      <4>3. Done(g) + Done(w) \in Nat
        BY <1>1, <1>4
      <4>4. f.count + 1 \in 1..(Done(g) + Done(w))
        BY <4>2, <4>3
      <4> QED  BY <4>1, <4>2, <4>4, <3>1
    <3>3. CASE a # f.arc
      <4>1. B[a].count = A[a].count
        BY <3>1, <3>3, <1>5
      <4>2. A[a].next < a /\ A[a].count \in 1..(Done(f) + Done(g))
        BY <3>1, <1>1
      <4>3. A[a].count \in 1..(Done(g) + Done(w))
        BY <4>2, <1>1, <1>4
      <4> QED  BY <4>1, <4>2, <4>3, <3>1
    <3> QED  BY <3>2, <3>3
  <2> QED  BY <2>1, <1>1, <1>5 DEF Bucket, Older
<1>7. Sound(g, Len(E), Len(B), Done(g) + Done(w))
  BY <1>1, <1>4, <1>5, StillSound
<1>8. Sound(w, Len(E), Len(B), Done(g) + Done(w))
  BY <1>1, <1>2, <1>3, <1>5 DEF Sound, Same, Counting, Linking
<1>9. \A e \in 1..Len(E) : E[e].arc_head = 0 => g.at \in Linking /\ g.fn = e
  BY DEF Bucket, Linking
<1> QED  BY <1>6, <1>7, <1>8, <1>9 DEF Bucket, w, B

LEMMA NewFunctionStep ==
  ASSUME NEW h, NEW E, NEW A, NEW f, NEW g, Bucket(h, E, A, f, g), f.at = "newfn",
         NEW F, F = Append(E, [next |-> h, self_pc |-> f.self, arc_head |-> 0])
  PROVE  Bucket(h, F, A, g, ToFn(f, "linkfn", Len(F)))
<1> DEFINE n == Len(F)
           w == ToFn(f, "linkfn", n)
           b == [next |-> h, self_pc |-> f.self, arc_head |-> 0]
<1>1. /\ E \in Seq(Blocks) /\ A \in Seq(ArcBlocks) /\ Len(E) \in Nat /\ Len(A) \in Nat
      /\ h \in 0..Len(E)
      /\ \A e \in 1..Len(E) : E[e].next < e /\ E[e].arc_head <= Len(A)
      /\ \A a \in 1..Len(A) : A[a].next < a /\ A[a].count \in 1..(Done(f) + Done(g))
      /\ Done(f) \in Nat /\ Done(g) \in Nat /\ f \in Frame /\ g \in Frame
      /\ Sound(f, Len(E), Len(A), Done(f) + Done(g))
      /\ Sound(g, Len(E), Len(A), Done(f) + Done(g))
  BY BucketIs
<1>2. f.self \in Function /\ b \in Blocks
  BY <1>1 DEF Sound, Blocks
<1>3. /\ F \in Seq(Blocks) /\ n = Len(E) + 1 /\ F[n] = b
      /\ \A e \in 1..Len(E) : F[e] = E[e]
  <2> HIDE DEF b
  <2>1. F = Append(E, b)
    BY DEF b
  <2> QED  BY <2>1, <1>1, <1>2
<1>4. F[n].next = h /\ F[n].arc_head = 0
  BY <1>3
<1>5. n \in Nat
  BY <1>1, <1>3
<1> HIDE DEF n, b
<1>6. w \in Frame /\ Same(w, f) /\ w.at = "linkfn" /\ w.fn = n /\ w.arc = f.arc
  <2>1. f \in Frame /\ "linkfn" \in Places
    BY <1>1 DEF Places, Alone
  <2> QED  BY <2>1, <1>5, GoesToFn
<1> HIDE DEF w
<1>7. f.arc \in Nat /\ f.arc <= Len(A) /\ f.calls \in Nat /\ f.calls > 0
  BY <1>1, FrameIs DEF Sound
<1>8. Done(w) = Done(f)
  BY <1>6, <1>7 DEF Done, Same
<1>9. Older(h, F, A, Done(g) + Done(w))
  <2>1. \A e \in 1..n : F[e].next < e /\ F[e].arc_head <= Len(A)
    <3> TAKE e \in 1..n
    <3>1. e = n \/ e \in 1..Len(E)
      BY <1>1, <1>3
    <3> QED  BY <3>1, <1>1, <1>3, <1>4
  <2>2. n = Len(F) /\ h \in 0..n
    BY <1>1, <1>3 DEF n
  <2>3. Done(g) + Done(w) = Done(f) + Done(g)
    BY <1>1, <1>8
  <2> QED  BY <2>1, <2>2, <2>3, <1>1, <1>3 DEF Older
<1>10. Sound(g, n, Len(A), Done(g) + Done(w))
  BY <1>1, <1>3, <1>5, <1>8, StillSound
<1>11. Sound(w, n, Len(A), Done(g) + Done(w))
  BY <1>1, <1>3, <1>5, <1>6, <1>7 DEF Sound, Same, Counting, Linking
<1>12. \A e \in 1..n : F[e].arc_head = 0 =>
         (g.at \in Linking /\ g.fn = e) \/ (w.at \in Linking /\ w.fn = e)
  <2> TAKE e \in 1..n
  <2>1. e = n \/ e \in 1..Len(E)
    BY <1>1, <1>3
  <2>2. f.at \notin Linking /\ w.at \in Linking
    BY <1>6 DEF Linking
  <2> QED  BY <2>1, <2>2, <1>3, <1>6 DEF Bucket
<1> QED  BY <1>9, <1>10, <1>11, <1>12 DEF Bucket, n, w

LEMMA LinkFunctionStep ==
  ASSUME NEW h, NEW E, NEW A, NEW f, NEW g, Bucket(h, E, A, f, g), f.at = "linkfn"
  PROVE  Bucket(f.fn, E, A, g, [f EXCEPT !.at = "newarc"])
<1> DEFINE w == [f EXCEPT !.at = "newarc"]
<1>1. /\ Len(E) \in Nat /\ Len(A) \in Nat
      /\ Done(f) \in Nat /\ Done(g) \in Nat /\ f \in Frame /\ g \in Frame
      /\ Sound(f, Len(E), Len(A), Done(f) + Done(g))
      /\ Sound(g, Len(E), Len(A), Done(f) + Done(g))
      /\ Older(h, E, A, Done(f) + Done(g))
  BY BucketIs DEF Bucket
<1>2. w \in Frame /\ Same(w, f) /\ w.at = "newarc" /\ w.fn = f.fn /\ w.arc = f.arc
  BY <1>1, Goes DEF Places, Alone
<1> HIDE DEF w
<1>3. /\ f.arc \in Nat /\ f.arc <= Len(A) /\ f.calls \in Nat /\ f.calls > 0
      /\ f.fn \in 0..Len(E) /\ f.fn # 0
  BY <1>1, FrameIs DEF Sound, Linking
<1>4. Done(w) = Done(f) /\ Done(g) + Done(w) = Done(f) + Done(g)
  BY <1>1, <1>2, <1>3 DEF Done, Same
<1>5. Older(f.fn, E, A, Done(g) + Done(w))
  BY <1>1, <1>3, <1>4 DEF Older
<1>6. Sound(w, Len(E), Len(A), Done(g) + Done(w))
  BY <1>1, <1>2, <1>3 DEF Sound, Same, Counting, Linking
<1>7. w.at \in Linking /\ w.fn = f.fn
  BY <1>2 DEF Linking
<1> QED  BY <1>1, <1>4, <1>5, <1>6, <1>7 DEF Bucket, w

LEMMA NewArcStep ==
  ASSUME NEW h, NEW E, NEW A, NEW f, NEW g, Bucket(h, E, A, f, g), f.at = "newarc",
         NEW B, B = Append(A, [next |-> E[f.fn].arc_head, from_pc |-> f.from, count |-> 1])
  PROVE  Bucket(h, E, B, g, ToArc(f, "linkarc", Len(B)))
<1> DEFINE n == Len(B)
           w == ToArc(f, "linkarc", n)
           b == [next |-> E[f.fn].arc_head, from_pc |-> f.from, count |-> 1]
<1>1. /\ E \in Seq(Blocks) /\ A \in Seq(ArcBlocks) /\ Len(E) \in Nat /\ Len(A) \in Nat
      /\ h \in 0..Len(E)
      /\ \A e \in 1..Len(E) : E[e].next < e /\ E[e].arc_head <= Len(A) /\ E[e].arc_head \in Nat
      /\ \A a \in 1..Len(A) : A[a].next < a /\ A[a].count \in 1..(Done(f) + Done(g))
      /\ Done(f) \in Nat /\ Done(g) \in Nat /\ f \in Frame /\ g \in Frame
      /\ Sound(f, Len(E), Len(A), Done(f) + Done(g))
      /\ Sound(g, Len(E), Len(A), Done(f) + Done(g))
  BY BucketIs
<1>2. /\ f.from \in Site /\ f.fn \in 1..Len(E) /\ f.calls \in Nat /\ f.calls > 0
  BY <1>1, FrameIs DEF Sound, Linking
<1>3. b \in ArcBlocks /\ b.next <= Len(A) /\ b.next \in Nat /\ b.count = 1
  BY <1>1, <1>2 DEF ArcBlocks
<1>4. /\ B \in Seq(ArcBlocks) /\ n = Len(A) + 1 /\ B[n] = b
      /\ \A a \in 1..Len(A) : B[a] = A[a]
  <2> HIDE DEF b
  <2>1. B = Append(A, b)
    BY DEF b
  <2> QED  BY <2>1, <1>1, <1>3
<1>5. n \in Nat
  BY <1>1, <1>4
<1> HIDE DEF n, b
<1>6. w \in Frame /\ Same(w, f) /\ w.at = "linkarc" /\ w.fn = f.fn /\ w.arc = n
  <2>1. f \in Frame /\ "linkarc" \in Places
    BY <1>1 DEF Places, Alone
  <2> QED  BY <2>1, <1>5, GoesToArc
<1> HIDE DEF w
<1>7. Done(w) = Done(f) + 1
  BY <1>2, <1>6 DEF Done, Same
<1>8. Older(h, E, B, Done(g) + Done(w))
  <2>1. \A a \in 1..n : B[a].next < a /\ B[a].count \in 1..(Done(g) + Done(w))
    <3> TAKE a \in 1..n
    <3>1. a = n \/ a \in 1..Len(A)
      BY <1>1, <1>4
    <3>2. CASE a = n
      BY <3>2, <1>1, <1>3, <1>4, <1>7
    <3>3. CASE a \in 1..Len(A)
      BY <3>3, <1>1, <1>4, <1>7
    <3> QED  BY <3>1, <3>2, <3>3
  <2>2. \A e \in 1..Len(E) : E[e].arc_head <= n
    BY <1>1, <1>4
  <2>3. n = Len(B)
    BY DEF n
  <2> QED  BY <2>1, <2>2, <2>3, <1>1, <1>4 DEF Older
<1>9. Sound(g, Len(E), n, Done(g) + Done(w))
  BY <1>1, <1>4, <1>5, <1>7, StillSound
<1>10. Sound(w, Len(E), n, Done(g) + Done(w))
  BY <1>1, <1>2, <1>4, <1>5, <1>6, FrameIs DEF Sound, Same, Counting, Linking
<1>11. w.at \in Linking /\ w.fn = f.fn
  BY <1>6 DEF Linking
<1> QED  BY <1>8, <1>9, <1>10, <1>11 DEF Bucket, n, w

LEMMA LinkArcStep ==
  ASSUME NEW h, NEW E, NEW A, NEW f, NEW g, Bucket(h, E, A, f, g), f.at = "linkarc"
  PROVE  Bucket(h, [E EXCEPT ![f.fn].arc_head = f.arc], A, g, [f EXCEPT !.at = "return"])
<1> DEFINE w == [f EXCEPT !.at = "return"]
           F == [E EXCEPT ![f.fn].arc_head = f.arc]
<1>1. /\ E \in Seq(Blocks) /\ A \in Seq(ArcBlocks) /\ Len(E) \in Nat /\ Len(A) \in Nat
      /\ h \in 0..Len(E)
      /\ \A e \in 1..Len(E) : E[e] \in Blocks /\ E[e].next < e /\ E[e].arc_head <= Len(A)
      /\ \A a \in 1..Len(A) : A[a].next < a /\ A[a].count \in 1..(Done(f) + Done(g))
      /\ Done(f) \in Nat /\ Done(g) \in Nat /\ f \in Frame /\ g \in Frame
      /\ Sound(f, Len(E), Len(A), Done(f) + Done(g))
      /\ Sound(g, Len(E), Len(A), Done(f) + Done(g))
  BY BucketIs
<1>2. w \in Frame /\ Same(w, f) /\ w.at = "return" /\ w.fn = f.fn /\ w.arc = f.arc
  BY <1>1, Goes DEF Places
<1>3. /\ f.arc \in 1..Len(A) /\ f.calls \in Nat /\ f.calls > 0 /\ f.fn \in 1..Len(E)
  BY <1>1, FrameIs DEF Sound, Linking
<1>4. Done(w) = Done(f) /\ Done(g) + Done(w) = Done(f) + Done(g)
  BY <1>1, <1>2, <1>3 DEF Done, Same
<1> HIDE DEF w
<1>5. /\ F \in Seq(Blocks) /\ Len(F) = Len(E)
      /\ \A e \in 1..Len(E) : F[e].next = E[e].next
      /\ \A e \in 1..Len(E) : F[e].arc_head = IF e = f.fn THEN f.arc ELSE E[e].arc_head
  <2> DEFINE b == [E[f.fn] EXCEPT !.arc_head = f.arc]
  <2>1. F = [E EXCEPT ![f.fn] = b]
    BY Zenon
  <2>2. b \in Blocks /\ b.next = E[f.fn].next /\ b.arc_head = f.arc
    <3>1. E[f.fn] \in Blocks /\ f.arc \in Nat
      BY <1>1, <1>3
    <3> HIDE DEF b
    <3> QED  BY <3>1, HeadBecomes DEF b
  <2> HIDE DEF b, F
  <2>3. F \in Seq(Blocks) /\ Len(F) = Len(E)
    BY <2>1, <2>2, <1>1, <1>3
  <2>4. \A e \in 1..Len(E) : F[e] = IF e = f.fn THEN b ELSE E[e]
    BY <2>1, <1>1
  <2> QED  BY <2>2, <2>3, <2>4
<1> HIDE DEF F
<1>6. Older(h, F, A, Done(g) + Done(w))
  <2>1. \A e \in 1..Len(F) : F[e].next < e /\ F[e].arc_head <= Len(A)
    BY <1>1, <1>3, <1>5
  <2> QED  BY <2>1, <1>1, <1>4, <1>5 DEF Older
<1>7. Sound(g, Len(F), Len(A), Done(g) + Done(w))
  BY <1>1, <1>4, <1>5
<1>8. Sound(w, Len(F), Len(A), Done(g) + Done(w))
  BY <1>1, <1>2, <1>3, <1>5 DEF Sound, Same, Counting, Linking
<1>9. \A e \in 1..Len(F) : F[e].arc_head = 0 => g.at \in Linking /\ g.fn = e
  BY <1>3, <1>5 DEF Bucket
<1> QED  BY <1>6, <1>7, <1>8, <1>9 DEF Bucket, w, F

-----------------------------------------------------------------------------
(***************************************************************************)
(* A step of caller c.  Where it is within mcount, no other one is about   *)
(* to link.                                                                *)
(***************************************************************************)
Other(c) == IF c = "program" THEN "routine" ELSE "program"
Call(c) == mcount_call[c]

LEMMA EitherOrder ==
  ASSUME NEW h, NEW E, NEW A, NEW f, NEW g, Bucket(h, E, A, f, g)
  PROVE  Bucket(h, E, A, g, f)
<1>1. Done(f) \in Nat /\ Done(g) \in Nat
  BY BucketIs
<1>2. Done(f) + Done(g) = Done(g) + Done(f)
  BY <1>1
<1> QED  BY <1>2 DEF Bucket

LEMMA CallerFacts ==
  ASSUME ProfilerInv, NEW c \in Profiler!Caller, NEW x, Profiler!At(c, x)
  PROVE  /\ Bucket(fn_head, entry, arc, Call(c), Call(Other(c)))
         /\ Call(c) \in Frame /\ Call(c).at = x /\ mcount_PIE \in BOOLEAN
         /\ x \in Alone => ~mcount_PIE /\ (c = "routine" => ~Call(c).context)
         /\ c = "routine" /\ x # "idle" => ~mcount_PIE
         /\ x # "idle" => Call(Other(c)).at \notin Linking
<1>1. /\ c = "program" \/ c = "routine"
      /\ Call(c).at = x /\ (c = "routine" \/ Call("routine").at = "idle")
      /\ mcount_PIE \in BOOLEAN
      /\ Call("program") \in Frame /\ Call("routine") \in Frame
      /\ Bucket(fn_head, entry, arc, Call("program"), Call("routine"))
      /\ Call("program").at \in Alone \/ Call("routine").at # "idle" => ~mcount_PIE
      /\ Call("routine").at # "idle" => Call("program").at \notin Alone
      /\ Call("routine").at \in Alone => ~Call("routine").context
  BY DEF ProfilerInv, Masked, Profiler!Caller, Profiler!At, Call
<1>2. "program" # "routine" /\ "idle" \notin Alone /\ \A y : y \in Linking => y \in Alone
  BY DEF Alone, Linking
<1>3. CASE c = "program"
  <2>1. Other(c) = "routine"
    BY <1>3 DEF Other
  <2> QED  BY <2>1, <1>1, <1>2, <1>3, Zenon
<1>4. CASE c = "routine"
  <2>1. Other(c) = "program"
    BY <1>2, <1>4 DEF Other
  <2>2. Bucket(fn_head, entry, arc, Call("routine"), Call("program"))
    BY <1>1, EitherOrder
  <2> QED  BY <2>1, <2>2, <1>1, <1>2, <1>4, Zenon
<1> QED  BY <1>1, <1>3, <1>4

LEMMA CallerStep ==
  ASSUME ProfilerInv, NEW c \in Profiler!Caller, NEW x, Profiler!At(c, x),
         c = "routine" /\ x = "idle" => mcount_PIE,
         NEW w, Profiler!Step(c, w), w \in Frame,
         Bucket(fn_head', entry', arc', w, Call(Other(c))),
         mcount_PIE' \in BOOLEAN,
         w.at \in Alone => ~mcount_PIE' /\ (c = "routine" => ~w.context),
         c = "routine" /\ w.at # "idle" => ~mcount_PIE'
  PROVE  ProfilerInv'
<1> DEFINE p == mcount_call'["program"]
           r == mcount_call'["routine"]
<1>1. /\ c = "program" \/ c = "routine"
      /\ Call(c).at = x /\ (c = "routine" \/ Call("routine").at = "idle")
      /\ Call("program").at \in Alone \/ Call("routine").at # "idle" => ~mcount_PIE
      /\ Call("routine").at # "idle" => Call("program").at \notin Alone
  BY DEF ProfilerInv, Masked, Profiler!Caller, Profiler!At, Call
<1>2. /\ mcount_call' \in [{"program", "routine"} -> Frame]
      /\ mcount_call'[c] = w
      /\ mcount_call'[Other(c)] = Call(Other(c))
  BY DEF ProfilerInv, Profiler!Step, Profiler!Caller, Call, Other
<1>3. "program" # "routine" /\ "idle" \notin Alone
  BY DEF Alone
<1>4. CASE c = "program"
  <2>1. Other(c) = "routine" /\ p = w /\ r = Call("routine")
    BY <1>2, <1>4 DEF Other
  <2>2. Call("routine").at = "idle"
    BY <1>1, <1>3, <1>4, Zenon
  <2>3. Masked(mcount_PIE', p, r)
    BY <2>1, <2>2, <1>3, Zenon DEF Masked
  <2>4. Bucket(fn_head', entry', arc', p, r)
    BY <2>1
  <2> QED  BY <2>3, <2>4, <1>2 DEF ProfilerInv
<1>5. CASE c = "routine"
  <2>1. Other(c) = "program" /\ r = w /\ p = Call("program")
    BY <1>2, <1>3, <1>5 DEF Other
  <2>2. Call("program").at \notin Alone
    BY <1>1, <1>5, Zenon
  <2>3. Masked(mcount_PIE', p, r)
    BY <2>1, <2>2, <1>5, Zenon DEF Masked
  <2>4. Bucket(fn_head', entry', arc', p, r)
    BY <2>1, EitherOrder
  <2> QED  BY <2>3, <2>4, <1>2 DEF ProfilerInv
<1> QED  BY <1>1, <1>4, <1>5

LEMMA ProfilerMcount ==
  ASSUME ProfilerInv, NEW c \in Profiler!Caller, NEW self \in Function, NEW from \in Site,
         Profiler!mcount(c, self, from)
  PROVE  ProfilerInv'
<1> DEFINE w == Begun(self, from, fn_head, Call(c).calls + 1)
<1>1. /\ Profiler!At(c, "idle") /\ Profiler!Step(c, w) /\ Call(c).calls < MaxCalls
      /\ c = "routine" => mcount_PIE
      /\ mcount_PIE' = IF c = "routine" THEN FALSE ELSE mcount_PIE
      /\ UNCHANGED <<fn_head, entry, arc>>
  BY Zenon DEF Profiler!mcount, Begun, Call
<1>2. /\ Bucket(fn_head, entry, arc, Call(c), Call(Other(c))) /\ Call(c).at = "idle"
      /\ Call(c) \in Frame /\ mcount_PIE \in BOOLEAN
  BY <1>1, CallerFacts
<1>3. fn_head \in Nat /\ Call(c).calls + 1 \in Nat
  BY <1>2, BucketIs, FrameIs
<1>4. w \in Frame /\ w.at = "functions"
  BY <1>3, Begins
<1>5. Bucket(fn_head, entry, arc, w, Call(Other(c)))
  BY <1>1, <1>2, BeginStep
<1> HIDE DEF w
<1>6. "functions" \notin Alone
  BY DEF Alone
<1>7. /\ mcount_PIE' \in BOOLEAN
      /\ c = "routine" => ~mcount_PIE'
  BY <1>1, <1>2, Zenon
<1>8. Bucket(fn_head', entry', arc', w, Call(Other(c)))
  BY <1>1, <1>5
<1> QED  BY <1>1, <1>4, <1>6, <1>7, <1>8, CallerStep

\* A step that only moves the frame, at a place without the lock.
LEMMA Walks ==
  ASSUME ProfilerInv, NEW c \in Profiler!Caller,
         NEW x \in {"functions", "arcs", "load"}, Profiler!At(c, x),
         UNCHANGED <<fn_head, entry, arc, mcount_PIE>>,
         NEW w \in Frame, Profiler!Step(c, w), Same(w, Call(c)),
         w.at \in {"functions", "arcs", "load", "record", "store"},
         w.fn <= Len(entry), w.arc <= Len(arc), w.at \in Counting => w.fn # 0 /\ w.arc # 0,
         w.at = "store" => w.count <= Done(Call(c)) + Done(Call(Other(c)))
  PROVE  ProfilerInv'
<1>1. /\ Bucket(fn_head, entry, arc, Call(c), Call(Other(c))) /\ Call(c).at = x
      /\ Call(c) \in Frame /\ mcount_PIE \in BOOLEAN /\ x # "idle"
      /\ c = "routine" /\ x # "idle" => ~mcount_PIE
  BY CallerFacts
<1>2. Bucket(fn_head, entry, arc, w, Call(Other(c)))
  BY <1>1, WalkStep
<1>3. w.at \notin Alone
  BY DEF Alone
<1>4. Bucket(fn_head', entry', arc', w, Call(Other(c)))
  BY <1>2
<1>5. mcount_PIE' \in BOOLEAN /\ (c = "routine" => ~mcount_PIE')
  BY <1>1, Zenon
<1> QED  BY <1>1, <1>3, <1>4, <1>5, CallerStep

LEMMA ProfilerFindFunction ==
  ASSUME ProfilerInv, NEW c \in Profiler!Caller, Profiler!FindFunction(c)
  PROVE  ProfilerInv'
<1> DEFINE f == Call(c)
           g == Call(Other(c))
<1>1. Profiler!At(c, "functions") /\ UNCHANGED <<fn_head, entry, arc, mcount_PIE>>
  BY DEF Profiler!FindFunction
<1>2. \/ f.fn = 0 /\ Profiler!Step(c, [f EXCEPT !.at = "record"])
      \/ f.fn # 0 /\ Profiler!Step(c, ToArc(f, "arcs", entry[f.fn].arc_head))
      \/ f.fn # 0 /\ Profiler!Step(c, [f EXCEPT !.fn = entry[f.fn].next])
  BY Zenon DEF Profiler!FindFunction, Profiler!NULL, Profiler!Goto, Call, ToArc
<1>3. /\ Bucket(fn_head, entry, arc, f, g) /\ f \in Frame /\ f.at = "functions"
      /\ g.at \notin Linking
  BY <1>1, CallerFacts
<1>4. /\ f.fn \in Nat /\ f.fn <= Len(entry) /\ f.arc \in Nat /\ f.arc <= Len(arc)
      /\ Len(entry) \in Nat /\ Len(arc) \in Nat
      /\ \A e \in 1..Len(entry) : /\ entry[e].next \in Nat /\ entry[e].next < e
                                  /\ entry[e].arc_head \in Nat /\ entry[e].arc_head <= Len(arc)
  BY <1>3, BucketIs, FrameIs DEF Sound
<1>5. CASE f.fn = 0 /\ Profiler!Step(c, [f EXCEPT !.at = "record"])
  <2>1. PICK w : w = [f EXCEPT !.at = "record"]
    OBVIOUS
  <2>2. w \in Frame /\ Same(w, f) /\ w.at = "record" /\ w.fn = f.fn /\ w.arc = f.arc
    BY <2>1, <1>3, Goes DEF Places
  <2>3. Profiler!Step(c, w)
    BY <2>1, <1>5
  <2> QED  BY <2>2, <2>3, <1>1, <1>4, Walks DEF Counting
<1>6. CASE f.fn # 0 /\ Profiler!Step(c, ToArc(f, "arcs", entry[f.fn].arc_head))
  <2>1. PICK w : w = ToArc(f, "arcs", entry[f.fn].arc_head)
    OBVIOUS
  <2>2. f.fn \in 1..Len(entry)
    BY <1>4, <1>6
  <2>3. entry[f.fn].arc_head \in Nat /\ entry[f.fn].arc_head <= Len(arc)
    BY <2>2, <1>4
  <2>4. entry[f.fn].arc_head # 0
    BY <2>2, <1>3 DEF Bucket, Linking
  <2>5. /\ w \in Frame /\ Same(w, f) /\ w.at = "arcs" /\ w.fn = f.fn
        /\ w.arc = entry[f.fn].arc_head
    <3>1. "arcs" \in Places
      BY DEF Places, Counting
    <3> QED  BY <3>1, <2>1, <2>3, <1>3, GoesToArc
  <2>6. Profiler!Step(c, w)
    BY <2>1, <1>6
  <2>7. w.fn <= Len(entry) /\ w.arc <= Len(arc) /\ w.fn # 0 /\ w.arc # 0
    BY <2>3, <2>4, <2>5, <1>4, <1>6
  <2>8. /\ w.at \in {"functions", "arcs", "load", "record", "store"} /\ w.at # "store"
        /\ "functions" \in {"functions", "arcs", "load"}
    BY <2>5
  <2> QED  BY <2>5, <2>6, <2>7, <2>8, <1>1, Walks
<1>7. CASE f.fn # 0 /\ Profiler!Step(c, [f EXCEPT !.fn = entry[f.fn].next])
  <2>1. PICK w : w = [f EXCEPT !.fn = entry[f.fn].next]
    OBVIOUS
  <2>2. f.fn \in 1..Len(entry)
    BY <1>4, <1>7
  <2>3. entry[f.fn].next \in Nat /\ entry[f.fn].next < f.fn
    BY <2>2, <1>4
  <2>4. /\ w \in Frame /\ Same(w, f) /\ w.at = "functions" /\ w.arc = f.arc
        /\ w.fn = entry[f.fn].next
    BY <2>1, <2>3, <1>3, GoesOn
  <2>5. Profiler!Step(c, w)
    BY <2>1, <1>7
  <2>6. w.fn <= Len(entry) /\ w.arc <= Len(arc)
    BY <2>3, <2>4, <1>4
  <2>7. /\ w.at \in {"functions", "arcs", "load", "record", "store"} /\ w.at # "store"
        /\ w.at \notin Counting /\ "functions" \in {"functions", "arcs", "load"}
    BY <2>4 DEF Counting
  <2> QED  BY <2>4, <2>5, <2>6, <2>7, <1>1, Walks
<1> QED  BY <1>2, <1>5, <1>6, <1>7

LEMMA ProfilerFindArc ==
  ASSUME ProfilerInv, NEW c \in Profiler!Caller, Profiler!FindArc(c)
  PROVE  ProfilerInv'
<1> DEFINE f == Call(c)
<1>1. /\ Profiler!At(c, "arcs") /\ UNCHANGED <<fn_head, entry, arc, mcount_PIE>>
      /\ "arcs" \in {"functions", "arcs", "load"}
  BY DEF Profiler!FindArc
<1>2. \/ \E x \in {"load", "record"} : Profiler!Step(c, [f EXCEPT !.at = x])
      \/ arc[f.arc].next # 0 /\ Profiler!Step(c, [f EXCEPT !.arc = arc[f.arc].next])
  BY Zenon DEF Profiler!FindArc, Profiler!NULL, Profiler!Goto, Call
<1>3. Bucket(fn_head, entry, arc, f, Call(Other(c))) /\ f \in Frame /\ f.at = "arcs"
  BY <1>1, CallerFacts
<1>4. /\ f.fn \in Nat /\ f.fn <= Len(entry) /\ f.arc \in Nat /\ f.arc <= Len(arc)
      /\ f.fn # 0 /\ f.arc # 0 /\ Len(entry) \in Nat /\ Len(arc) \in Nat
      /\ \A a \in 1..Len(arc) : arc[a].next \in Nat /\ arc[a].next < a
  BY <1>3, BucketIs, FrameIs DEF Sound, Counting
<1>5. ASSUME NEW x \in {"load", "record"}, Profiler!Step(c, [f EXCEPT !.at = x])
      PROVE  ProfilerInv'
  <2>1. PICK w : w = [f EXCEPT !.at = x]
    OBVIOUS
  <2>2. x \in Places
    BY DEF Places, Counting
  <2>3. w \in Frame /\ Same(w, f) /\ w.at = x /\ w.fn = f.fn /\ w.arc = f.arc
    BY <2>1, <2>2, <1>3, Goes
  <2>4. Profiler!Step(c, w)
    BY <2>1, <1>5
  <2>5. w.at \in {"functions", "arcs", "load", "record", "store"} /\ w.at # "store"
    BY <2>3
  <2> QED  BY <2>3, <2>4, <2>5, <1>1, <1>4, Walks
<1>6. CASE arc[f.arc].next # 0 /\ Profiler!Step(c, [f EXCEPT !.arc = arc[f.arc].next])
  <2>1. PICK w : w = [f EXCEPT !.arc = arc[f.arc].next]
    OBVIOUS
  <2>2. arc[f.arc].next \in Nat /\ arc[f.arc].next < f.arc
    BY <1>4
  <2>3. /\ w \in Frame /\ Same(w, f) /\ w.at = "arcs" /\ w.fn = f.fn
        /\ w.arc = arc[f.arc].next
    BY <2>1, <2>2, <1>3, GoesOn
  <2>4. Profiler!Step(c, w)
    BY <2>1, <1>6
  <2>5. w.arc <= Len(arc) /\ w.arc # 0 /\ w.fn <= Len(entry) /\ w.fn # 0
    BY <2>2, <2>3, <1>4, <1>6
  <2>6. w.at \in {"functions", "arcs", "load", "record", "store"} /\ w.at # "store"
    BY <2>3
  <2> QED  BY <2>3, <2>4, <2>5, <2>6, <1>1, Walks
<1> QED  BY <1>2, <1>5, <1>6

LEMMA ProfilerLoadCount ==
  ASSUME ProfilerInv, NEW c \in Profiler!Caller, Profiler!LoadCount(c)
  PROVE  ProfilerInv'
<1> DEFINE f == Call(c)
<1>1. /\ Profiler!At(c, "load") /\ UNCHANGED <<fn_head, entry, arc, mcount_PIE>>
      /\ Profiler!Step(c, ToCount(f, "store", arc[f.arc].count))
      /\ "load" \in {"functions", "arcs", "load"}
  BY DEF Profiler!LoadCount, Call, ToCount
<1>2. Bucket(fn_head, entry, arc, f, Call(Other(c))) /\ f \in Frame /\ f.at = "load"
  BY <1>1, CallerFacts
<1>3. /\ f.fn \in Nat /\ f.fn <= Len(entry) /\ f.arc \in 1..Len(arc) /\ f.fn # 0
      /\ arc[f.arc].count \in 1..(Done(f) + Done(Call(Other(c))))
      /\ Done(f) \in Nat /\ Done(Call(Other(c))) \in Nat
  BY <1>2, BucketIs, FrameIs DEF Sound, Counting
<1>4. PICK w : w = ToCount(f, "store", arc[f.arc].count)
  OBVIOUS
<1>5. /\ w \in Frame /\ Same(w, f) /\ w.at = "store" /\ w.fn = f.fn /\ w.arc = f.arc
      /\ w.count = arc[f.arc].count
  <2>1. "store" \in Places /\ arc[f.arc].count \in Nat
    BY <1>3 DEF Places, Counting
  <2> QED  BY <2>1, <1>2, <1>4, GoesToCount
<1>6. /\ w.arc <= Len(arc) /\ w.arc # 0 /\ w.fn <= Len(entry) /\ w.fn # 0
      /\ w.count <= Done(f) + Done(Call(Other(c)))
      /\ w.at \in {"functions", "arcs", "load", "record", "store"}
  BY <1>3, <1>5
<1>7. Profiler!Step(c, w)
  BY <1>1, <1>4
<1> QED  BY <1>1, <1>5, <1>6, <1>7, Walks

LEMMA ProfilerStoreCount ==
  ASSUME ProfilerInv, NEW c \in Profiler!Caller, Profiler!StoreCount(c)
  PROVE  ProfilerInv'
<1> DEFINE f == Call(c)
           g == Call(Other(c))
<1>0. PICK B : B = [arc EXCEPT ![f.arc].count = f.count + 1]
  OBVIOUS
<1>1. PICK w : w = [f EXCEPT !.at = "return"]
  OBVIOUS
<1>2. /\ Profiler!At(c, "store") /\ Profiler!Step(c, w)
      /\ arc' = B /\ UNCHANGED <<fn_head, entry, mcount_PIE>>
  BY <1>0, <1>1, Zenon DEF Profiler!StoreCount, Profiler!Goto, Call
<1>3. /\ Bucket(fn_head, entry, arc, f, g) /\ f \in Frame /\ f.at = "store"
      /\ mcount_PIE \in BOOLEAN /\ (c = "routine" => ~mcount_PIE)
  BY <1>2, CallerFacts
<1>4. w \in Frame /\ w.at = "return"
  BY <1>1, <1>3, Goes DEF Places
<1>5. Bucket(fn_head, entry, B, w, g)
  BY <1>0, <1>1, <1>3, StoreStep, EitherOrder
<1>6. Bucket(fn_head', entry', arc', w, g)
  BY <1>2, <1>5
<1>7. w.at \notin Alone /\ "store" # "idle"
  BY <1>4 DEF Alone
<1>8. mcount_PIE' \in BOOLEAN /\ (c = "routine" => ~mcount_PIE')
  BY <1>2, <1>3, Zenon
<1> QED  BY <1>2, <1>4, <1>6, <1>7, <1>8, CallerStep

LEMMA ProfilerRecord ==
  ASSUME ProfilerInv, NEW c \in Profiler!Caller, Profiler!Record(c)
  PROVE  ProfilerInv'
<1> DEFINE f == Call(c)
           g == Call(Other(c))
<1>0. PICK x : x = IF f.fn = 0 THEN "newfn" ELSE "newarc"
  OBVIOUS
<1>1. PICK w : w = ToContext(f, x, mcount_PIE)
  OBVIOUS
<1>2. /\ Profiler!At(c, "record") /\ Profiler!Step(c, w)
      /\ mcount_PIE' = FALSE /\ UNCHANGED <<fn_head, entry, arc>>
  BY <1>0, <1>1, Zenon DEF Profiler!Record, Profiler!NULL, ToContext, Call
<1>3. /\ Bucket(fn_head, entry, arc, f, g) /\ f \in Frame /\ f.at = "record"
      /\ mcount_PIE \in BOOLEAN /\ (c = "routine" => ~mcount_PIE)
  BY <1>2, CallerFacts
<1>4. x \in {"newfn", "newarc"} /\ (x = "newarc" => f.fn # 0)
  BY <1>0
<1>5. x \in Places
  BY <1>4 DEF Places, Alone
<1>6. /\ w \in Frame /\ Same(w, f) /\ w.at = x /\ w.fn = f.fn /\ w.arc = f.arc
      /\ w.context = mcount_PIE
  BY <1>1, <1>3, <1>5, GoesToContext
<1>7. f.fn <= Len(entry) /\ f.arc <= Len(arc)
  BY <1>3 DEF Bucket, Sound
<1>8. Bucket(fn_head, entry, arc, w, g)
  <2>1. w.at \notin Counting /\ w.at # "store"
    BY <1>4, <1>6 DEF Counting
  <2> QED  BY <2>1, <1>3, <1>4, <1>6, <1>7, WalkStep
<1>9. Bucket(fn_head', entry', arc', w, g)
  BY <1>2, <1>8
<1>10. mcount_PIE' \in BOOLEAN /\ ~mcount_PIE' /\ (c = "routine" => ~w.context)
  BY <1>2, <1>3, <1>6, Zenon
<1> QED  BY <1>2, <1>6, <1>9, <1>10, CallerStep

LEMMA ProfilerNewFunction ==
  ASSUME ProfilerInv, NEW c \in Profiler!Caller, Profiler!NewFunction(c)
  PROVE  ProfilerInv'
<1> DEFINE f == Call(c)
           g == Call(Other(c))
<1>0. PICK F : F = Append(entry, [next |-> fn_head, self_pc |-> f.self, arc_head |-> 0])
  OBVIOUS
<1>1. PICK w : w = ToFn(f, "linkfn", Len(F))
  OBVIOUS
<1>2. /\ Profiler!At(c, "newfn") /\ Profiler!Step(c, w)
      /\ entry' = F /\ UNCHANGED <<fn_head, arc, mcount_PIE>>
  BY <1>0, <1>1, Zenon DEF Profiler!NewFunction, Profiler!NULL, ToFn, Call
<1>3. /\ Bucket(fn_head, entry, arc, f, g) /\ f \in Frame /\ f.at = "newfn"
      /\ mcount_PIE \in BOOLEAN /\ ("newfn" \in Alone => ~mcount_PIE)
      /\ ("newfn" \in Alone /\ c = "routine" => ~f.context)
  BY <1>2, CallerFacts
<1>4. Bucket(fn_head, F, arc, w, g)
  BY <1>0, <1>1, <1>3, NewFunctionStep, EitherOrder
<1>5. w \in Frame /\ w.at = "linkfn" /\ w.context = f.context
  <2>1. Len(F) \in Nat /\ "linkfn" \in Places
    BY <1>4, BucketIs DEF Places, Alone
  <2> QED  BY <2>1, <1>1, <1>3, GoesToFn
<1>6. Bucket(fn_head', entry', arc', w, g)
  BY <1>2, <1>4
<1>7. "newfn" \in Alone /\ "newfn" # "idle"
  BY DEF Alone
<1>8. mcount_PIE' \in BOOLEAN /\ ~mcount_PIE' /\ (c = "routine" => ~w.context)
  BY <1>2, <1>3, <1>5, <1>7, Zenon
<1> QED  BY <1>2, <1>5, <1>6, <1>7, <1>8, CallerStep

LEMMA ProfilerLinkFunction ==
  ASSUME ProfilerInv, NEW c \in Profiler!Caller, Profiler!LinkFunction(c)
  PROVE  ProfilerInv'
<1> DEFINE f == Call(c)
           g == Call(Other(c))
<1>1. PICK w : w = [f EXCEPT !.at = "newarc"]
  OBVIOUS
<1>2. /\ Profiler!At(c, "linkfn") /\ Profiler!Step(c, w)
      /\ fn_head' = f.fn /\ UNCHANGED <<entry, arc, mcount_PIE>>
  BY <1>1, Zenon DEF Profiler!LinkFunction, Profiler!Goto, Call
<1>3. /\ Bucket(fn_head, entry, arc, f, g) /\ f \in Frame /\ f.at = "linkfn"
      /\ mcount_PIE \in BOOLEAN /\ ("linkfn" \in Alone => ~mcount_PIE)
      /\ ("linkfn" \in Alone /\ c = "routine" => ~f.context)
  BY <1>2, CallerFacts
<1>4. Bucket(f.fn, entry, arc, w, g)
  BY <1>1, <1>3, LinkFunctionStep, EitherOrder
<1>5. w \in Frame /\ w.at = "newarc" /\ w.context = f.context
  BY <1>1, <1>3, Goes DEF Places, Alone
<1>6. Bucket(fn_head', entry', arc', w, g)
  BY <1>2, <1>4
<1>7. "linkfn" \in Alone /\ "linkfn" # "idle"
  BY DEF Alone
<1>8. mcount_PIE' \in BOOLEAN /\ ~mcount_PIE' /\ (c = "routine" => ~w.context)
  BY <1>2, <1>3, <1>5, <1>7, Zenon
<1> QED  BY <1>2, <1>5, <1>6, <1>7, <1>8, CallerStep

LEMMA ProfilerNewArc ==
  ASSUME ProfilerInv, NEW c \in Profiler!Caller, Profiler!NewArc(c)
  PROVE  ProfilerInv'
<1> DEFINE f == Call(c)
           g == Call(Other(c))
<1>0. PICK B : B = Append(arc, [next |-> entry[f.fn].arc_head, from_pc |-> f.from,
                                count |-> 1])
  OBVIOUS
<1>1. PICK w : w = ToArc(f, "linkarc", Len(B))
  OBVIOUS
<1>2. /\ Profiler!At(c, "newarc") /\ Profiler!Step(c, w)
      /\ arc' = B /\ UNCHANGED <<fn_head, entry, mcount_PIE>>
  BY <1>0, <1>1, Zenon DEF Profiler!NewArc, ToArc, Call
<1>3. /\ Bucket(fn_head, entry, arc, f, g) /\ f \in Frame /\ f.at = "newarc"
      /\ mcount_PIE \in BOOLEAN /\ ("newarc" \in Alone => ~mcount_PIE)
      /\ ("newarc" \in Alone /\ c = "routine" => ~f.context)
  BY <1>2, CallerFacts
<1>4. Bucket(fn_head, entry, B, w, g)
  BY <1>0, <1>1, <1>3, NewArcStep, EitherOrder
<1>5. w \in Frame /\ w.at = "linkarc" /\ w.context = f.context
  <2>1. Len(B) \in Nat /\ "linkarc" \in Places
    BY <1>4, BucketIs DEF Places, Alone
  <2> QED  BY <2>1, <1>1, <1>3, GoesToArc
<1>6. Bucket(fn_head', entry', arc', w, g)
  BY <1>2, <1>4
<1>7. "newarc" \in Alone /\ "newarc" # "idle"
  BY DEF Alone
<1>8. mcount_PIE' \in BOOLEAN /\ ~mcount_PIE' /\ (c = "routine" => ~w.context)
  BY <1>2, <1>3, <1>5, <1>7, Zenon
<1> QED  BY <1>2, <1>5, <1>6, <1>7, <1>8, CallerStep

LEMMA ProfilerLinkArc ==
  ASSUME ProfilerInv, NEW c \in Profiler!Caller, Profiler!LinkArc(c)
  PROVE  ProfilerInv'
<1> DEFINE f == Call(c)
           g == Call(Other(c))
<1>0. PICK F : F = [entry EXCEPT ![f.fn].arc_head = f.arc]
  OBVIOUS
<1>1. PICK w : w = [f EXCEPT !.at = "return"]
  OBVIOUS
<1>2. /\ Profiler!At(c, "linkarc") /\ Profiler!Step(c, w)
      /\ entry' = F /\ mcount_PIE' = f.context /\ UNCHANGED <<fn_head, arc>>
  BY <1>0, <1>1, Zenon DEF Profiler!LinkArc, Profiler!Goto, Call
<1>3. /\ Bucket(fn_head, entry, arc, f, g) /\ f \in Frame /\ f.at = "linkarc"
      /\ ("linkarc" \in Alone /\ c = "routine" => ~f.context)
  BY <1>2, CallerFacts
<1>4. Bucket(fn_head, F, arc, w, g)
  BY <1>0, <1>1, <1>3, LinkArcStep, EitherOrder
<1>5. w \in Frame /\ w.at = "return"
  BY <1>1, <1>3, Goes DEF Places
<1>6. Bucket(fn_head', entry', arc', w, g)
  BY <1>2, <1>4
<1>7. "linkarc" \in Alone /\ "linkarc" # "idle" /\ w.at \notin Alone
  BY <1>5 DEF Alone
<1>8. f.context \in BOOLEAN
  BY <1>3, FrameIs
<1>9. mcount_PIE' \in BOOLEAN /\ (c = "routine" => ~mcount_PIE')
  BY <1>2, <1>3, <1>7, <1>8, Zenon
<1> QED  BY <1>2, <1>5, <1>6, <1>7, <1>9, CallerStep

LEMMA ProfilerReturn ==
  ASSUME ProfilerInv, NEW c \in Profiler!Caller, Profiler!Return(c)
  PROVE  ProfilerInv'
<1> DEFINE f == Call(c)
           g == Call(Other(c))
<1>1. PICK w : w = [Profiler!Idle EXCEPT !.calls = f.calls]
  OBVIOUS
<1>2. /\ Profiler!At(c, "return") /\ Profiler!Step(c, w)
      /\ mcount_PIE' = (IF c = "routine" THEN TRUE ELSE mcount_PIE)
      /\ UNCHANGED <<fn_head, entry, arc>>
  BY <1>1, Zenon DEF Profiler!Return, Call
<1>3. /\ Bucket(fn_head, entry, arc, f, g) /\ f \in Frame /\ f.at = "return"
      /\ mcount_PIE \in BOOLEAN
  BY <1>2, CallerFacts
<1>4. w \in Frame /\ w.at = "idle"
  BY <1>1, <1>3, FrameIs, Ends
<1>5. Bucket(fn_head, entry, arc, w, g)
  BY <1>1, <1>3, EndStep
<1>6. Bucket(fn_head', entry', arc', w, g)
  BY <1>2, <1>5
<1>7. w.at \notin Alone /\ "return" # "idle"
  BY <1>4 DEF Alone
<1>8. mcount_PIE' \in BOOLEAN
  BY <1>2, <1>3, Zenon
<1> QED  BY <1>2, <1>4, <1>6, <1>7, <1>8, CallerStep

LEMMA ProfilerNext ==
  ASSUME ProfilerInv, Profiler!Next
  PROVE  ProfilerInv'
BY Zenon, ProfilerMcount, ProfilerFindFunction, ProfilerFindArc, ProfilerLoadCount, ProfilerStoreCount,
   ProfilerRecord, ProfilerNewFunction, ProfilerLinkFunction, ProfilerNewArc,
   ProfilerLinkArc, ProfilerReturn
   DEF Profiler!Next

LEMMA ProfilerStill == ASSUME ProfilerInv, UNCHANGED profilerVars PROVE ProfilerInv'
BY DEF ProfilerInv, profilerVars

LEMMA ProfilerInit == ASSUME Profiler!Init PROVE ProfilerInv
<1>1. PICK b : /\ b = FALSE
               /\ Profiler!Idle = [at |-> "idle", self |-> 0, from |-> 0, fn |-> 0, arc |-> 0,
                                   count |-> 0, context |-> b, calls |-> 0]
  BY IdleIs
<1>2. PICK z : z = Profiler!Idle
  OBVIOUS
<1>3. z.context = FALSE /\ b \in BOOLEAN
  BY <1>1, <1>2, Zenon
<1>4. z \in Frame /\ z.at = "idle" /\ z.fn = 0 /\ z.arc = 0 /\ z.calls = 0
  BY <1>1, <1>2, <1>3 DEF Frame, Places
<1>5. Done(z) = 0 /\ Sound(z, 0, 0, 0)
  BY <1>4, CallsBound DEF Done, Sound, Counting, Linking
<1>6. fn_head = 0 /\ entry = <<>> /\ arc = <<>> /\ mcount_PIE = TRUE
  BY DEF Profiler!Init, Profiler!NULL
<1>7. /\ mcount_call \in [{"program", "routine"} -> Frame]
      /\ mcount_call["program"] = z /\ mcount_call["routine"] = z
  BY <1>2, <1>4 DEF Profiler!Init, Profiler!Caller
<1>8. Bucket(0, <<>>, <<>>, z, z)
  BY <1>5 DEF Bucket, Older
<1>9. Masked(TRUE, z, z)
  <2>1. "idle" \notin Alone
    BY DEF Alone
  <2> QED  BY <2>1, <1>4, Zenon DEF Masked
<1> QED  BY <1>6, <1>7, <1>8, <1>9, Zenon DEF ProfilerInv

LEMMA ProfilerTypes == ASSUME ProfilerInv PROVE Profiler!TypeOK
<1> DEFINE p == mcount_call["program"]
           r == mcount_call["routine"]
<1>1. Bucket(fn_head, entry, arc, p, r) /\ mcount_PIE \in BOOLEAN
  BY DEF ProfilerInv, Masked
<1>2. /\ fn_head \in 0..Len(entry) /\ Len(entry) \in Nat /\ Len(arc) \in Nat
      /\ DOMAIN entry = 1..Len(entry) /\ DOMAIN arc = 1..Len(arc)
      /\ \A e \in 1..Len(entry) : entry[e].next < e /\ entry[e].arc_head \in 0..Len(arc)
      /\ \A a \in 1..Len(arc) : arc[a].next < a /\ arc[a].count \in 1..(Done(p) + Done(r))
      /\ Done(p) \in Nat /\ Done(r) \in Nat
      /\ Sound(p, Len(entry), Len(arc), Done(p) + Done(r))
      /\ Sound(r, Len(entry), Len(arc), Done(p) + Done(r))
  BY <1>1, BucketIs
<1>3. Done(p) <= MaxCalls /\ Done(r) <= MaxCalls /\ MaxCalls \in Nat
  BY <1>2, DoneIs, CallsBound
<1>4. \A a \in 1..Len(arc) : arc[a].count \in 1..(2 * MaxCalls)
  BY <1>2, <1>3
<1>5. \A c \in Profiler!Caller : mcount_call[c].at = "arcs" => mcount_call[c].arc # 0
  BY <1>2 DEF Sound, Counting, Profiler!Caller
<1> QED  BY <1>1, <1>2, <1>4, <1>5 DEF Profiler!TypeOK, Profiler!NULL

-----------------------------------------------------------------------------
(***************************************************************************)
(* No part leaves its types, however many sources, alarms, bytes, callers  *)
(* and calls there are: no third frame of exceptions, no ring of alarms    *)
(* with a dangling link, no list of arcs that leads back, and no function  *)
(* found by mcount without an arc to start from.                           *)
(***************************************************************************)
THEOREM RuntimeTypes ==
  ASSUME ~StopsOthers, MaxDelay + 1 < Wrap PROVE Spec => []RuntimeTypeOK
<1> DEFINE Types == IrqInv /\ PolledInv /\ AlarmInv /\ ProfilerInv
<1>1. Init => Types
  BY PartsStart, IrqInit, PolledInit, AlarmInit, ProfilerInit
<1>2. Types /\ [Next]_vars => Types'
  <2> SUFFICES ASSUME Types, [Next]_vars PROVE Types'
    OBVIOUS
  <2>1. IrqInv'
    BY PartsStep, IrqNext, IrqStill
  <2>2. PolledInv'
    BY PartsStep, PolledStep
  <2>3. AlarmInv'
    BY PartsStep, AlarmStep, AlarmStill DEF Gentle
  <2>4. ProfilerInv'
    BY PartsStep, ProfilerNext, ProfilerStill
  <2> QED  BY <2>1, <2>2, <2>3, <2>4
<1>3. Types => RuntimeTypeOK
  BY PolledTypes, AlarmTypes, ProfilerTypes DEF IrqInv, RuntimeTypeOK
<1> QED  BY <1>1, <1>2, <1>3, PTL DEF Spec

-----------------------------------------------------------------------------
(***************************************************************************)
(* What the host reads.  Lists of blocks that lead to older ones are       *)
(* defined by recursion: such a function exists, and has the value that    *)
(* its definition says.                                                    *)
(***************************************************************************)
ChainBody(X, n, F) ==
  [x \in 0..n |-> IF x = 0 THEN {} ELSE {x} \cup F[X[x].next]]
ChainOf(X, n) == CHOOSE F : F = ChainBody(X, n, F)

LEMMA ChainExists ==
  ASSUME NEW n \in Nat, NEW X, \A x \in 1..n : X[x].next \in Nat /\ X[x].next < x
  PROVE  \E F : F = ChainBody(X, n, F)
<1> DEFINE S == {m \in Nat : m <= n => \E F : F = ChainBody(X, m, F)}
<1>1. 0 \in S
  <2> DEFINE F == [x \in 0..0 |-> {}]
  <2>1. F = ChainBody(X, 0, F)
    BY DEF ChainBody
  <2> QED  BY <2>1
<1>2. ASSUME NEW m \in Nat, m \in S PROVE m + 1 \in S
  <2> SUFFICES ASSUME m + 1 <= n PROVE \E G : G = ChainBody(X, m + 1, G)
    OBVIOUS
  <2>1. PICK F : F = ChainBody(X, m, F)
    BY <1>2
  <2> DEFINE G == [x \in 0..(m + 1) |-> IF x = m + 1 THEN {x} \cup F[X[x].next] ELSE F[x]]
  <2>2. ASSUME NEW x \in 0..(m + 1), x # 0
        PROVE  G[X[x].next] = F[X[x].next]
    <3>1. X[x].next \in 0..(m + 1) /\ X[x].next # m + 1
      BY <2>2
    <3> QED  BY <3>1
  <2>3. ASSUME NEW x \in 0..m PROVE F[x] = IF x = 0 THEN {} ELSE {x} \cup F[X[x].next]
    BY <2>1 DEF ChainBody
  <2>4. ASSUME NEW x \in 0..(m + 1)
        PROVE  G[x] = IF x = 0 THEN {} ELSE {x} \cup G[X[x].next]
    <3>1. CASE x = m + 1
      <4>1. G[x] = {x} \cup F[X[x].next]
        BY <3>1
      <4>2. x # 0
        BY <3>1
      <4> HIDE DEF G
      <4> QED  BY <4>1, <4>2, <2>2
    <3>2. CASE x # m + 1
      <4>1. G[x] = F[x] /\ x \in 0..m
        BY <3>2
      <4> HIDE DEF G
      <4> QED  BY <4>1, <2>2, <2>3
    <3> QED  BY <3>1, <3>2
  <2>5. G = [x \in 0..(m + 1) |-> G[x]]
    OBVIOUS
  <2> HIDE DEF G
  <2>6. G = ChainBody(X, m + 1, G)
    BY <2>4, <2>5 DEF ChainBody
  <2> QED  BY <2>6
<1> HIDE DEF S
<1>3. Nat \subseteq S
  BY <1>1, <1>2, SetInduction
<1> QED  BY <1>3 DEF S

\* What a list that starts at x holds: x itself and what follows.
LEMMA ChainIs ==
  ASSUME NEW n \in Nat, NEW X, \A x \in 1..n : X[x].next \in Nat /\ X[x].next < x,
         NEW C, C = ChainOf(X, n)
  PROVE  /\ C[0] = {}
         /\ \A x \in 1..n : C[x] = {x} \cup C[X[x].next]
<1>1. C = ChainBody(X, n, C)
  <2>1. \E F : F = ChainBody(X, n, F)
    BY ChainExists
  <2>2. PICK D : D = ChainOf(X, n)
    OBVIOUS
  <2>3. D = ChainBody(X, n, D)
    BY <2>1, <2>2, Zenon DEF ChainOf
  <2> QED  BY <2>2, <2>3, Zenon
<1>2. \A x \in 0..n : C[x] = IF x = 0 THEN {} ELSE {x} \cup C[X[x].next]
  BY <1>1 DEF ChainBody
<1>3. 0 \in 0..n
  OBVIOUS
<1>4. ASSUME NEW x \in 1..n PROVE C[x] = {x} \cup C[X[x].next]
  <2>1. x \in 0..n /\ x # 0
    OBVIOUS
  <2> QED  BY <1>2, <2>1, Zenon
<1> QED  BY <1>2, <1>3, <1>4, Zenon

\* Strong induction, along such lists.
LEMMA ChainInduction ==
  ASSUME NEW n \in Nat, NEW S,
         \A x \in 0..n : (\A y \in 0..n : y < x => y \in S) => x \in S
  PROVE  0..n \subseteq S
<1> DEFINE T == {m \in Nat : \A y \in 0..n : y <= m => y \in S}
<1>1. 0 \in T
  OBVIOUS
<1>2. ASSUME NEW m \in Nat, m \in T PROVE m + 1 \in T
  <2> SUFFICES ASSUME NEW y \in 0..n, y <= m + 1 PROVE y \in S
    OBVIOUS
  <2>1. \A z \in 0..n : z < y => z \in S
    BY <1>2
  <2> QED  BY <2>1
<1> HIDE DEF T
<1>3. n \in T
  BY <1>1, <1>2, SetInduction
<1> QED  BY <1>3 DEF T

\* A list is made of its blocks, with each the one after it.
LEMMA ChainFollows ==
  ASSUME NEW n \in Nat, NEW X, \A x \in 1..n : X[x].next \in Nat /\ X[x].next < x,
         NEW C, C = ChainOf(X, n),
         NEW h \in 0..n
  PROVE  /\ C[h] \subseteq 1..h
         /\ \A a \in C[h] : X[a].next # 0 => X[a].next \in C[h]
<1> DEFINE S == {x \in 0..n : /\ C[x] \subseteq 1..x
                              /\ \A a \in C[x] : X[a].next # 0 => X[a].next \in C[x]}
<1>1. C[0] = {} /\ \A x \in 1..n : C[x] = {x} \cup C[X[x].next]
  BY ChainIs
<1>2. ASSUME NEW x \in 0..n, \A y \in 0..n : y < x => y \in S PROVE x \in S
  <2>1. CASE x = 0
    BY <2>1, <1>1
  <2>2. CASE x # 0
    <3>1. PICK y : y = X[x].next
      OBVIOUS
    <3>2. y \in 0..n /\ y < x /\ C[x] = {x} \cup C[y]
      BY <2>2, <3>1, <1>1
    <3>3. C[y] \subseteq 1..y /\ \A a \in C[y] : X[a].next # 0 => X[a].next \in C[y]
      BY <3>2, <1>2
    <3>4. y # 0 => y \in C[y]
      BY <3>2, <1>1
    <3>5. C[x] \subseteq 1..x
      BY <3>2, <3>3
    <3>6. \A a \in C[x] : X[a].next # 0 => X[a].next \in C[x]
      BY <3>1, <3>2, <3>3, <3>4
    <3> QED  BY <3>5, <3>6
  <2> QED  BY <2>1, <2>2
<1> HIDE DEF S
<1>3. 0..n \subseteq S
  BY <1>2, ChainInduction
<1> QED  BY <1>3 DEF S

-----------------------------------------------------------------------------
(***************************************************************************)
(* What the profiler records.  Entries are linked in the order of their    *)
(* allocation, and so are arcs: the first h entries and the first n arcs   *)
(* are on the lists.  Each arc belongs to one entry, own, to whose list    *)
(* its own leads.  The counts of an arc's copies, summed up in steps t,    *)
(* are those of the calls that have returned or are about to.              *)
(***************************************************************************)
Tied(h, n, E, A, own) ==
  /\ own \in [1..Len(A) -> 1..h]
  /\ \A e \in 1..Len(E) : /\ E[e].next = e - 1 /\ E[e].arc_head \in 0..n
                          /\ E[e].arc_head # 0 => own[E[e].arc_head] = e
  /\ \A a \in 1..Len(A) : A[a].next # 0 => A[a].next \in 1..n /\ own[A[a].next] = own[a]
  /\ \A a \in 1..n : E[own[a]].arc_head = a \/ \E b \in 1..n : A[b].next = a

\* What a frame has found.
Known(h, n, E, A, own, f) ==
  /\ f.at = "linkfn" => f.fn = h + 1
  /\ f.at # "linkfn" => f.fn <= h
  /\ f.at \in Counting \cup Linking \/ (f.at = "record" /\ f.fn # 0) => E[f.fn].self_pc = f.self
  /\ f.at \in Counting \cup {"linkarc"} => own[f.arc] = f.fn
  /\ f.at \in Counting => f.arc <= n
  /\ f.at \in {"load", "store", "linkarc"} => A[f.arc].from_pc = f.from
  /\ f.at = "store" => f.count <= A[f.arc].count
  /\ f.at = "linkarc" => f.arc = n + 1 /\ A[f.arc].next = E[f.fn].arc_head

Sizes(h, n, E, A, f, g) ==
  /\ Len(E) = IF f.at = "linkfn" \/ g.at = "linkfn" THEN h + 1 ELSE h
  /\ Len(A) = IF f.at = "linkarc" \/ g.at = "linkarc" THEN n + 1 ELSE n

\* Arc a is one from site t to function s.
Of(s, t, E, A, own, a) == E[own[a]].self_pc = s /\ A[a].from_pc = t
Calls(f, s, t) == f.self = s /\ f.from = t
Flying(f, s, t) == IF f.at \in {"linkarc", "return"} /\ Calls(f, s, t) THEN 1 ELSE 0
Returning(f, s, t) == f.at = "return" /\ Calls(f, s, t)

Copied(s, t, n, E, A, own) == \E a \in 1..n : Of(s, t, E, A, own, a)
Summed(s, t, E, A, own, m) ==
  \E S \in [0..Len(A) -> Nat] :
    /\ \A a \in 1..Len(A) : S[a] >= S[a - 1] + (IF Of(s, t, E, A, own, a) THEN A[a].count ELSE 0)
    /\ S[Len(A)] <= m

\* The calls of s from t, m of them returned.
Kept(s, t, n, E, A, own, f, g, m) ==
  /\ m > 0 \/ Returning(f, s, t) \/ Returning(g, s, t) => Copied(s, t, n, E, A, own)
  /\ Summed(s, t, E, A, own, m + Flying(f, s, t) + Flying(g, s, t))

Story(h, n, E, A, own, f, g, M) ==
  /\ Tied(h, n, E, A, own) /\ Sizes(h, n, E, A, f, g)
  /\ Known(h, n, E, A, own, f) /\ Known(h, n, E, A, own, g)
  /\ \A s \in Function, t \in Site : Kept(s, t, n, E, A, own, f, g, M[<<s, t>>])

\* Who stores a count that another has loaded stores no smaller one.
Behind(p, r) == p.at = "store" /\ r.at = "store" /\ p.arc = r.arc => p.count <= r.count

RecordInv ==
  /\ ProfilerInv /\ made \in [Function \X Site -> Nat]
  /\ Behind(Call("program"), Call("routine"))
  /\ \E n \in Nat : \E own :
        Story(fn_head, n, entry, arc, own, Call("program"), Call("routine"), made)

LEMMA EitherStory ==
  ASSUME NEW h, NEW n \in Nat, NEW E, NEW A, NEW own, NEW f, NEW g, NEW M,
         Story(h, n, E, A, own, f, g, M), M \in [Function \X Site -> Nat]
  PROVE  Story(h, n, E, A, own, g, f, M)
<1>1. Sizes(h, n, E, A, g, f)
  BY Zenon DEF Story, Sizes
<1>2. ASSUME NEW s \in Function, NEW t \in Site PROVE Kept(s, t, n, E, A, own, g, f, M[<<s, t>>])
  <2>1. /\ M[<<s, t>>] \in Nat /\ Flying(f, s, t) \in Nat /\ Flying(g, s, t) \in Nat
        /\ Kept(s, t, n, E, A, own, f, g, M[<<s, t>>])
    BY DEF Flying, Story
  <2>2. M[<<s, t>>] + Flying(f, s, t) + Flying(g, s, t) = M[<<s, t>>] + Flying(g, s, t) + Flying(f, s, t)
    BY <2>1
  <2> QED  BY <2>1, <2>2, Zenon DEF Kept
<1> QED  BY <1>1, <1>2, Zenon DEF Story

\* A step of f alone, between places where no block is new and no call ends.
Plain(f) == f.at \notin {"linkfn", "linkarc", "return"}
LEMMA PlainStory ==
  ASSUME NEW h, NEW n, NEW E, NEW A, NEW own, NEW f, NEW g, NEW M,
         Story(h, n, E, A, own, f, g, M), Plain(f),
         NEW w, Plain(w), Known(h, n, E, A, own, w)
  PROVE  Story(h, n, E, A, own, w, g, M)
<1>1. \A s, t : /\ Flying(w, s, t) = Flying(f, s, t)
                /\ Returning(w, s, t) <=> Returning(f, s, t)
  BY DEF Flying, Returning, Plain
<1>2. \A s, t, m : Kept(s, t, n, E, A, own, f, g, m) => Kept(s, t, n, E, A, own, w, g, m)
  BY <1>1, Zenon DEF Kept
<1>3. Sizes(h, n, E, A, w, g)
  BY DEF Story, Sizes, Plain
<1> QED  BY <1>2, <1>3, Zenon DEF Story

\* What the two invariants say of the bucket and of f.
LEMMA StoryIs ==
  ASSUME NEW h, NEW n \in Nat, NEW E, NEW A, NEW own, NEW f, NEW g, NEW M,
         Bucket(h, E, A, f, g), Story(h, n, E, A, own, f, g, M)
  PROVE  /\ h \in Nat /\ own \in [1..Len(A) -> 1..h]
         /\ \A a \in 1..Len(A) : own[a] \in 1..h /\ own[a] \in 1..Len(E)
         /\ h <= Len(E) /\ n <= Len(A) /\ Len(E) \in Nat /\ Len(A) \in Nat
         /\ f.fn \in Nat /\ f.arc \in Nat /\ f.count \in Nat /\ f.calls \in Nat
         /\ f.fn <= Len(E) /\ f.arc <= Len(A)
         /\ f.at \in Counting \cup Linking => f.fn \in 1..Len(E)
         /\ f.at \in Counting \cup {"linkarc"} => f.arc \in 1..Len(A)
         /\ \A a \in 1..Len(A) : A[a].count \in Nat
<1>1. /\ h \in 0..Len(E) /\ Len(E) \in Nat /\ Len(A) \in Nat /\ f \in Frame
      /\ Sound(f, Len(E), Len(A), Done(f) + Done(g))
      /\ \A a \in 1..Len(A) : A[a].count \in 1..(Done(f) + Done(g))
      /\ Done(f) \in Nat /\ Done(g) \in Nat
  BY BucketIs
<1>2. f.fn \in Nat /\ f.arc \in Nat /\ f.count \in Nat /\ f.calls \in Nat
  BY <1>1, FrameIs
<1>3. /\ f.fn <= Len(E) /\ f.arc <= Len(A)
      /\ f.at \in Counting \cup Linking => f.fn # 0
      /\ f.at \in Counting \cup {"linkarc"} => f.arc # 0
  BY <1>1 DEF Sound
<1>4. own \in [1..Len(A) -> 1..h] /\ n <= Len(A)
  BY <1>1 DEF Story, Tied, Sizes
<1>5. \A a \in 1..Len(A) : own[a] \in 1..h /\ own[a] \in 1..Len(E)
  BY <1>1, <1>4
<1>6. \A a \in 1..Len(A) : A[a].count \in Nat
  BY <1>1
<1> QED  BY <1>1, <1>2, <1>3, <1>4, <1>5, <1>6

\* Nothing but the lists changes.
LEMMA SummedSame ==
  ASSUME NEW s, NEW t, NEW E, NEW A, NEW own, NEW m, Summed(s, t, E, A, own, m),
         NEW F, NEW o, \A a \in 1..Len(A) : Of(s, t, F, A, o, a) <=> Of(s, t, E, A, own, a)
  PROVE  Summed(s, t, F, A, o, m)
<1>1. PICK S \in [0..Len(A) -> Nat] :
        /\ \A a \in 1..Len(A) : S[a] >= S[a - 1] + (IF Of(s, t, E, A, own, a) THEN A[a].count ELSE 0)
        /\ S[Len(A)] <= m
  BY Zenon DEF Summed
<1>2. \A a \in 1..Len(A) : S[a] >= S[a - 1] + (IF Of(s, t, F, A, o, a) THEN A[a].count ELSE 0)
  BY <1>1, Zenon
<1> QED  BY <1>1, <1>2, Zenon DEF Summed

\* A new arc with the count 1.
LEMMA SummedNew ==
  ASSUME NEW s, NEW t, NEW E, NEW A, NEW own, NEW m \in Nat, Summed(s, t, E, A, own, m),
         NEW B, NEW o, Len(A) \in Nat, Len(B) = Len(A) + 1,
         \A a \in 1..Len(A) : B[a].count \in Nat /\ B[a].count = A[a].count,
         \A a \in 1..Len(A) : Of(s, t, E, B, o, a) <=> Of(s, t, E, A, own, a),
         B[Len(B)].count = 1,
         NEW k \in Nat, k >= m, Of(s, t, E, B, o, Len(B)) => k >= m + 1
  PROVE  Summed(s, t, E, B, o, k)
<1>1. PICK S \in [0..Len(A) -> Nat] :
        /\ \A a \in 1..Len(A) : S[a] >= S[a - 1] + (IF Of(s, t, E, A, own, a) THEN A[a].count ELSE 0)
        /\ S[Len(A)] <= m
  BY Zenon DEF Summed
<1> DEFINE N == Len(A)
           T == [i \in 0..(N + 1) |-> IF i = N + 1 THEN k ELSE S[i]]
<1>2. T \in [0..Len(B) -> Nat] /\ T[Len(B)] = k
  OBVIOUS
<1>3. ASSUME NEW a \in 1..Len(B)
      PROVE  T[a] >= T[a - 1] + (IF Of(s, t, E, B, o, a) THEN B[a].count ELSE 0)
  <2>1. CASE a = N + 1
    <3>1. T[a] = k /\ T[a - 1] = S[N] /\ S[N] \in Nat /\ S[N] <= m
      BY <2>1, <1>1
    <3>2. a = Len(B) /\ B[a].count = 1
      BY <2>1
    <3> HIDE DEF T
    <3>3. CASE Of(s, t, E, B, o, a)
      <4>1. k >= m + 1
        BY <3>2, <3>3
      <4>2. k >= S[N] + 1
        BY <4>1, <3>1
      <4> QED  BY <3>1, <3>2, <3>3, <4>2
    <3>4. CASE ~Of(s, t, E, B, o, a)
      BY <3>1, <3>4
    <3> QED  BY <3>3, <3>4
  <2>2. CASE a # N + 1
    <3>1. a \in 1..N /\ a - 1 \in 0..N
      BY <2>2
    <3>2. T[a] = S[a] /\ T[a - 1] = S[a - 1]
      BY <3>1
    <3> HIDE DEF T
    <3>3. (IF Of(s, t, E, B, o, a) THEN B[a].count ELSE 0) =
            (IF Of(s, t, E, A, own, a) THEN A[a].count ELSE 0)
      BY <3>1, Zenon
    <3>4. S[a] >= S[a - 1] + (IF Of(s, t, E, A, own, a) THEN A[a].count ELSE 0)
      BY <1>1, <3>1
    <3> QED  BY <3>2, <3>3, <3>4, Zenon
  <2> QED  BY <2>1, <2>2
<1> HIDE DEF T
<1>4. k <= k
  OBVIOUS
<1> QED  BY <1>2, <1>3, <1>4, Zenon DEF Summed

\* A count that grows by one at most.
LEMMA SummedStore ==
  ASSUME NEW s, NEW t, NEW E, NEW A, NEW own, NEW m \in Nat, Summed(s, t, E, A, own, m),
         NEW B, Len(A) \in Nat, Len(B) = Len(A), NEW i \in 1..Len(A),
         \A a \in 1..Len(A) : A[a].count \in Nat /\ B[a].count \in Nat,
         \A a \in 1..Len(A) : a # i => B[a].count = A[a].count,
         B[i].count <= A[i].count + 1,
         \A a \in 1..Len(A) : Of(s, t, E, B, own, a) <=> Of(s, t, E, A, own, a),
         NEW k \in Nat, k >= m, Of(s, t, E, A, own, i) => k >= m + 1
  PROVE  Summed(s, t, E, B, own, k)
<1>1. PICK S \in [0..Len(A) -> Nat] :
        /\ \A a \in 1..Len(A) : S[a] >= S[a - 1] + (IF Of(s, t, E, A, own, a) THEN A[a].count ELSE 0)
        /\ S[Len(A)] <= m
  BY Zenon DEF Summed
<1>2. CASE ~Of(s, t, E, A, own, i)
  <2>1. ASSUME NEW a \in 1..Len(B)
        PROVE  S[a] >= S[a - 1] + (IF Of(s, t, E, B, own, a) THEN B[a].count ELSE 0)
    <3>1. (IF Of(s, t, E, B, own, a) THEN B[a].count ELSE 0) =
            (IF Of(s, t, E, A, own, a) THEN A[a].count ELSE 0)
      BY <1>2, Zenon
    <3> QED  BY <3>1, <1>1, Zenon
  <2>2. S[Len(B)] <= k
    <3>1. S[Len(A)] \in Nat
      OBVIOUS
    <3> QED  BY <3>1, <1>1
  <2> QED  BY <2>1, <2>2, Zenon DEF Summed
<1>3. CASE Of(s, t, E, A, own, i)
  <2> DEFINE T == [j \in 0..Len(A) |-> IF j < i THEN S[j] ELSE S[j] + 1]
  <2>1. T \in [0..Len(B) -> Nat] /\ T[Len(B)] = S[Len(A)] + 1 /\ S[Len(A)] \in Nat
    OBVIOUS
  <2>2. ASSUME NEW a \in 1..Len(B)
        PROVE  T[a] >= T[a - 1] + (IF Of(s, t, E, B, own, a) THEN B[a].count ELSE 0)
    <3>1. PICK x, y : /\ x = (IF Of(s, t, E, A, own, a) THEN A[a].count ELSE 0)
                      /\ y = (IF Of(s, t, E, B, own, a) THEN B[a].count ELSE 0)
      OBVIOUS
    <3>2. S[a] \in Nat /\ S[a - 1] \in Nat /\ a \in 0..Len(A) /\ a - 1 \in 0..Len(A)
      OBVIOUS
    <3>3. S[a] >= S[a - 1] + x
      BY <3>1, <1>1, Zenon
    <3>4. x \in Nat /\ y \in Nat
      <4>1. A[a].count \in Nat /\ B[a].count \in Nat
        OBVIOUS
      <4> QED  BY <3>1, <4>1
    <3>5. CASE a = i
      <4>1. x = A[i].count /\ y = B[i].count
        BY <3>1, <3>5, <1>3, Zenon
      <4>2. T[a] = S[a] + 1 /\ T[a - 1] = S[a - 1]
        BY <3>2, <3>5
      <4> HIDE DEF T
      <4>3. y <= x + 1
        BY <4>1
      <4>4. T[a] >= T[a - 1] + y
        BY <4>2, <4>3, <3>2, <3>3, <3>4
      <4> QED  BY <3>1, <4>4, Zenon
    <3>6. CASE a # i
      <4>1. x = y
        BY <3>1, <3>6, Zenon
      <4>2. (T[a] = S[a] /\ T[a - 1] = S[a - 1]) \/ (T[a] = S[a] + 1 /\ T[a - 1] = S[a - 1] + 1)
        BY <3>2, <3>6
      <4> HIDE DEF T
      <4>3. T[a] >= T[a - 1] + y
        BY <4>1, <4>2, <3>2, <3>3, <3>4
      <4> QED  BY <3>1, <4>3, Zenon
    <3> QED  BY <3>5, <3>6
  <2>3. S[Len(A)] + 1 <= k
    BY <1>1, <1>3, <2>1
  <2> HIDE DEF T
  <2>4. T[Len(B)] <= k
    BY <2>1, <2>3
  <2> QED  BY <2>1, <2>2, <2>4, Zenon DEF Summed
<1> QED  BY <1>2, <1>3

\* What changes for the calls of s from t when that of f is counted.
LEMMA FlyingIs ==
  ASSUME NEW s, NEW t, NEW f, NEW w, Same(w, f)
  PROVE  /\ Flying(f, s, t) \in Nat
         /\ Calls(w, s, t) <=> Calls(f, s, t)
         /\ f.at \notin {"linkarc", "return"} => Flying(f, s, t) = 0 /\ ~Returning(f, s, t)
         /\ f.at \in {"linkarc", "return"} /\ ~Calls(f, s, t) => Flying(f, s, t) = 0
         /\ f.at \in {"linkarc", "return"} /\ Calls(f, s, t) => Flying(f, s, t) = 1
         /\ w.at \in {"linkarc", "return"} /\ Calls(f, s, t) => Flying(w, s, t) = 1
         /\ w.at \in {"linkarc", "return"} /\ ~Calls(f, s, t) => Flying(w, s, t) = 0
         /\ w.at = "return" => (Returning(w, s, t) <=> Calls(f, s, t))
         /\ w.at # "return" => ~Returning(w, s, t)
BY DEF Flying, Returning, Calls, Same

LEMMA StoreStory ==
  ASSUME NEW h, NEW n \in Nat, NEW E, NEW A, NEW own, NEW f, NEW g, NEW M,
         Bucket(h, E, A, f, g), Story(h, n, E, A, own, f, g, M),
         M \in [Function \X Site -> Nat], f.at = "store",
         g.at = "store" /\ g.arc = f.arc => g.count <= f.count,
         NEW w, Same(w, f), w.at = "return", w.fn = f.fn,
         NEW B, Len(B) = Len(A),
         \A a \in 1..Len(A) : B[a].next = A[a].next /\ B[a].from_pc = A[a].from_pc,
         \A a \in 1..Len(A) : B[a].count = IF a = f.arc THEN f.count + 1 ELSE A[a].count
  PROVE  Story(h, n, E, B, own, w, g, M)
<1>1. /\ f.arc \in 1..Len(A) /\ f.arc \in Nat /\ f.count \in Nat /\ Len(A) \in Nat
      /\ n <= Len(A) /\ h \in Nat
      /\ \A a \in 1..Len(A) : A[a].count \in Nat
  BY StoryIs DEF Counting
<1>2. /\ f.fn <= h /\ E[f.fn].self_pc = f.self /\ own[f.arc] = f.fn /\ f.arc <= n
      /\ A[f.arc].from_pc = f.from /\ f.count <= A[f.arc].count
  BY DEF Story, Known, Counting
<1>3. Tied(h, n, E, B, own)
  <2>1. /\ own \in [1..Len(B) -> 1..h]
        /\ \A e \in 1..Len(E) : /\ E[e].next = e - 1 /\ E[e].arc_head \in 0..n
                                /\ E[e].arc_head # 0 => own[E[e].arc_head] = e
        /\ \A a \in 1..Len(A) : A[a].next # 0 => A[a].next \in 1..n /\ own[A[a].next] = own[a]
        /\ \A a \in 1..n : E[own[a]].arc_head = a \/ \E b \in 1..n : A[b].next = a
    BY DEF Story, Tied
  <2>2. \A b \in 1..n : b \in 1..Len(A)
    BY <1>1
  <2>3. \A a \in 1..n : E[own[a]].arc_head = a \/ \E b \in 1..n : B[b].next = a
    <3> TAKE a \in 1..n
    <3>1. CASE E[own[a]].arc_head = a
      BY <3>1
    <3>2. ASSUME NEW b \in 1..n, A[b].next = a
          PROVE  \E c \in 1..n : B[c].next = a
      BY <2>2, <3>2
    <3> QED  BY <2>1, <3>1, <3>2
  <2>4. \A a \in 1..Len(B) : B[a].next # 0 => B[a].next \in 1..n /\ own[B[a].next] = own[a]
    BY <2>1
  <2> QED  BY <2>1, <2>3, <2>4, Zenon DEF Tied
<1>4. Sizes(h, n, E, B, w, g)
  BY DEF Story, Sizes
<1>5. Known(h, n, E, B, own, w)
  BY <1>2 DEF Known, Counting, Linking
<1>6. Known(h, n, E, B, own, g)
  <2>1. Bucket(h, E, A, g, f) /\ Story(h, n, E, A, own, g, f, M)
    BY EitherOrder, EitherStory, ZenonT(60)
  <2>2. /\ g.at \in Counting \cup {"linkarc"} => g.arc \in 1..Len(A)
        /\ g.count \in Nat
    BY <2>1, StoryIs
  <2>3. Known(h, n, E, A, own, g)
    BY DEF Story
  <2>4. g.at \in {"load", "store", "linkarc"} => g.arc \in 1..Len(A)
    BY <2>2 DEF Counting
  <2>5. g.at \in {"load", "store", "linkarc"} => B[g.arc].from_pc = g.from
    BY <2>3, <2>4 DEF Known
  <2>6. g.at = "store" => g.count <= B[g.arc].count
    <3> SUFFICES ASSUME g.at = "store" PROVE g.count <= B[g.arc].count
      OBVIOUS
    <3>1. g.arc \in 1..Len(A) /\ g.count <= A[g.arc].count
      BY <2>3, <2>4 DEF Known
    <3>2. CASE g.arc = f.arc
      <4>1. B[g.arc].count = f.count + 1 /\ g.count <= f.count
        BY <3>1, <3>2
      <4> QED  BY <4>1, <1>1, <2>2
    <3>3. CASE g.arc # f.arc
      <4>1. B[g.arc].count = A[g.arc].count
        BY <3>1, <3>3
      <4> QED  BY <4>1, <3>1
    <3> QED  BY <3>2, <3>3
  <2>7. g.at = "linkarc" => g.arc = n + 1 /\ B[g.arc].next = E[g.fn].arc_head
    BY <2>3, <2>4 DEF Known
  <2> QED  BY <2>3, <2>5, <2>6, <2>7, Zenon DEF Known
<1>7. ASSUME NEW s \in Function, NEW t \in Site PROVE Kept(s, t, n, E, B, own, w, g, M[<<s, t>>])
  <2>1. PICK m : m = M[<<s, t>>]
    OBVIOUS
  <2>2. m \in Nat
    BY <2>1
  <2>3. Kept(s, t, n, E, A, own, f, g, m)
    BY <2>1 DEF Story
  <2>4. \A a \in 1..Len(A) : Of(s, t, E, B, own, a) <=> Of(s, t, E, A, own, a)
    BY DEF Of
  <2>5. Of(s, t, E, A, own, f.arc) <=> Calls(f, s, t)
    BY <1>2 DEF Of, Calls
  <2>6. /\ Flying(f, s, t) = 0 /\ Flying(g, s, t) \in Nat /\ ~Returning(f, s, t)
        /\ Calls(f, s, t) => Flying(w, s, t) = 1
        /\ ~Calls(f, s, t) => Flying(w, s, t) = 0
        /\ Returning(w, s, t) <=> Calls(f, s, t)
    <3>1. Same(g, g)
      BY DEF Same
    <3>2. f.at \notin {"linkarc", "return"} /\ w.at \in {"linkarc", "return"}
      OBVIOUS
    <3>3. Flying(g, s, t) \in Nat
      BY <3>1, FlyingIs
    <3>4. Flying(f, s, t) = 0 /\ ~Returning(f, s, t)
      BY <3>2, FlyingIs
    <3>5. /\ Calls(f, s, t) => Flying(w, s, t) = 1
          /\ ~Calls(f, s, t) => Flying(w, s, t) = 0
      BY <3>2 DEF Flying, Calls, Same
    <3>6. Returning(w, s, t) <=> Calls(f, s, t)
      BY FlyingIs
    <3> QED  BY <3>3, <3>4, <3>5, <3>6
  <2>7. m > 0 \/ Returning(w, s, t) \/ Returning(g, s, t) => Copied(s, t, n, E, B, own)
    <3>1. Copied(s, t, n, E, A, own) => Copied(s, t, n, E, B, own)
      BY <1>1, <2>4 DEF Copied
    <3>2. Calls(f, s, t) => Copied(s, t, n, E, A, own)
      <4>1. f.arc \in 1..n
        BY <1>1, <1>2
      <4> QED  BY <4>1, <2>5, Zenon DEF Copied
    <3> QED  BY <3>1, <3>2, <2>3, <2>6, Zenon DEF Kept
  <2>8. PICK k, q : /\ q = m + Flying(f, s, t) + Flying(g, s, t)
                    /\ k = m + Flying(w, s, t) + Flying(g, s, t)
    OBVIOUS
  <2>9. q \in Nat /\ k \in Nat /\ k >= q /\ (Calls(f, s, t) => k >= q + 1)
    BY <2>2, <2>6, <2>8
  <2>10. Summed(s, t, E, A, own, q)
    BY <2>3, <2>8 DEF Kept
  <2>11. PICK i : i = f.arc
    OBVIOUS
  <2>12. /\ i \in 1..Len(A) /\ B[i].count <= A[i].count + 1
         /\ \A a \in 1..Len(A) : a # i => B[a].count = A[a].count
         /\ \A a \in 1..Len(A) : A[a].count \in Nat /\ B[a].count \in Nat
    <3>1. i \in 1..Len(A) /\ B[i].count = f.count + 1 /\ f.count <= A[i].count
      BY <1>1, <1>2, <2>11
    <3>2. \A a \in 1..Len(A) : a # i => B[a].count = A[a].count
      BY <2>11
    <3>3. ASSUME NEW a \in 1..Len(A) PROVE A[a].count \in Nat /\ B[a].count \in Nat
      <4>1. CASE a = i
        BY <4>1, <3>1, <1>1
      <4>2. CASE a # i
        BY <4>2, <3>2, <1>1
      <4> QED  BY <4>1, <4>2
    <3>4. A[i].count \in Nat
      BY <3>1, <3>3
    <3>5. B[i].count <= A[i].count + 1
      BY <3>1, <3>4, <1>1
    <3> QED  BY <3>1, <3>2, <3>3, <3>5
  <2>13. Of(s, t, E, A, own, i) => k >= q + 1
    BY <2>5, <2>9, <2>11
  <2>14. Summed(s, t, E, B, own, k)
    BY <2>4, <2>9, <2>10, <2>12, <2>13, <1>1, SummedStore
  <2>15. Kept(s, t, n, E, B, own, w, g, m)
    BY <2>7, <2>8, <2>14, Zenon DEF Kept
  <2> QED  BY <2>1, <2>15
<1> QED  BY <1>3, <1>4, <1>5, <1>6, <1>7, Zenon DEF Story

LEMMA NewFunctionStory ==
  ASSUME NEW h, NEW n \in Nat, NEW E, NEW A, NEW own, NEW f, NEW g, NEW M,
         Bucket(h, E, A, f, g), Story(h, n, E, A, own, f, g, M),
         M \in [Function \X Site -> Nat], f.at = "newfn", g.at \notin Linking,
         NEW w, Same(w, f), w.at = "linkfn",
         NEW F, Len(F) = Len(E) + 1, w.fn = Len(F),
         \A e \in 1..Len(E) : F[e] = E[e],
         F[Len(F)].next = h, F[Len(F)].self_pc = f.self, F[Len(F)].arc_head = 0
  PROVE  Story(h, n, F, A, own, w, g, M)
<1>1. /\ h \in Nat /\ Len(E) \in Nat /\ Len(A) \in Nat /\ n <= Len(A)
      /\ \A a \in 1..Len(A) : own[a] \in 1..h /\ own[a] \in 1..Len(E)
  BY StoryIs, ZenonT(60)
<1>2. Len(E) = h /\ Len(A) = n /\ Len(F) = h + 1
  BY DEF Story, Sizes, Linking
<1>3. Tied(h, n, F, A, own)
  <2>1. /\ own \in [1..Len(A) -> 1..h]
        /\ \A e \in 1..Len(E) : /\ E[e].next = e - 1 /\ E[e].arc_head \in 0..n
                                /\ E[e].arc_head # 0 => own[E[e].arc_head] = e
        /\ \A a \in 1..Len(A) : A[a].next # 0 => A[a].next \in 1..n /\ own[A[a].next] = own[a]
        /\ \A a \in 1..n : E[own[a]].arc_head = a \/ \E b \in 1..n : A[b].next = a
    BY DEF Story, Tied
  <2>2. ASSUME NEW e \in 1..Len(F)
        PROVE  /\ F[e].next = e - 1 /\ F[e].arc_head \in 0..n
               /\ F[e].arc_head # 0 => own[F[e].arc_head] = e
    <3>1. e = Len(F) \/ e \in 1..Len(E)
      BY <1>1
    <3>2. CASE e = Len(F)
      BY <3>2, <1>1, <1>2
    <3>3. CASE e \in 1..Len(E)
      BY <3>3, <2>1
    <3> QED  BY <3>1, <3>2, <3>3
  <2>3. \A a \in 1..n : F[own[a]] = E[own[a]]
    BY <1>1, <1>2
  <2>4. \A a \in 1..n : F[own[a]].arc_head = a \/ \E b \in 1..n : A[b].next = a
    BY <2>1, <2>3
  <2> QED  BY <2>1, <2>2, <2>4, Zenon DEF Tied
<1>4. Sizes(h, n, F, A, w, g)
  <2>1. g.at # "linkarc"
    BY DEF Linking
  <2> QED  BY <1>2, <2>1 DEF Sizes
<1>5. Known(h, n, F, A, own, w)
  BY <1>2 DEF Known, Counting, Linking, Same
<1>6. Known(h, n, F, A, own, g)
  <2>1. Bucket(h, E, A, g, f) /\ Story(h, n, E, A, own, g, f, M)
    BY EitherOrder, EitherStory, ZenonT(60)
  <2>2. g.at \in Counting \cup Linking => g.fn \in 1..Len(E)
    BY <2>1, StoryIs, ZenonT(60)
  <2>3. g.fn \in Nat /\ g.fn <= Len(E)
    BY <2>1, StoryIs
  <2>4. g.at = "record" /\ g.fn # 0 => g.fn \in 1..Len(E)
    BY <2>3, <1>1
  <2>5. /\ g.at \in Counting \cup Linking \/ (g.at = "record" /\ g.fn # 0)
             => F[g.fn] = E[g.fn]
    BY <2>2, <2>4
  <2>6. Known(h, n, E, A, own, g) /\ g.at # "linkarc"
    BY DEF Story, Linking
  <2>7. g.at \in Counting \cup Linking \/ (g.at = "record" /\ g.fn # 0) => F[g.fn].self_pc = g.self
    BY <2>5, <2>6 DEF Known
  <2> QED  BY <2>6, <2>7 DEF Known
<1>7. ASSUME NEW s \in Function, NEW t \in Site, NEW m, Kept(s, t, n, E, A, own, f, g, m)
      PROVE  Kept(s, t, n, F, A, own, w, g, m)
  <2>1. \A a \in 1..Len(A) : Of(s, t, F, A, own, a) <=> Of(s, t, E, A, own, a)
    BY <1>1 DEF Of
  <2>2. Flying(w, s, t) = Flying(f, s, t) /\ (Returning(w, s, t) <=> Returning(f, s, t))
    BY DEF Flying, Returning
  <2>3. Copied(s, t, n, E, A, own) => Copied(s, t, n, F, A, own)
    BY <1>2, <2>1 DEF Copied
  <2>4. Summed(s, t, F, A, own, m + Flying(f, s, t) + Flying(g, s, t))
    BY <1>7, <2>1, SummedSame DEF Kept
  <2> QED  BY <1>7, <2>2, <2>3, <2>4, Zenon DEF Kept
<1> QED  BY <1>3, <1>4, <1>5, <1>6, <1>7, Zenon DEF Story

LEMMA LinkFunctionStory ==
  ASSUME NEW h, NEW n \in Nat, NEW E, NEW A, NEW own, NEW f, NEW g, NEW M,
         Bucket(h, E, A, f, g), Story(h, n, E, A, own, f, g, M),
         M \in [Function \X Site -> Nat], f.at = "linkfn", g.at \notin Linking,
         NEW w, Same(w, f), w.at = "newarc", w.fn = f.fn
  PROVE  Story(f.fn, n, E, A, own, w, g, M)
<1>1. /\ h \in Nat /\ Len(E) \in Nat /\ Len(A) \in Nat
      /\ own \in [1..Len(A) -> 1..h]
      /\ \A a \in 1..Len(A) : own[a] \in 1..h
  BY StoryIs
<1>2. f.fn = h + 1 /\ Len(E) = h + 1 /\ Len(A) = n /\ E[f.fn].self_pc = f.self
  BY DEF Story, Sizes, Linking, Known
<1>3. Tied(f.fn, n, E, A, own)
  <2>1. own \in [1..Len(A) -> 1..f.fn]
    BY <1>1, <1>2
  <2> QED  BY <2>1, Zenon DEF Story, Tied
<1>4. Sizes(f.fn, n, E, A, w, g)
  <2>1. g.at # "linkarc" /\ g.at # "linkfn"
    BY DEF Linking
  <2> QED  BY <1>2, <2>1 DEF Sizes
<1>5. Known(f.fn, n, E, A, own, w)
  BY <1>1, <1>2 DEF Known, Counting, Linking, Same
<1>6. Known(f.fn, n, E, A, own, g)
  <2>1. Bucket(h, E, A, g, f) /\ Story(h, n, E, A, own, g, f, M)
    BY EitherOrder, EitherStory, ZenonT(60)
  <2>2. g.fn \in Nat /\ g.fn <= Len(E)
    BY <2>1, StoryIs
  <2>3. g.at # "linkfn" /\ Known(h, n, E, A, own, g)
    BY DEF Linking, Story
  <2> QED  BY <1>2, <2>2, <2>3 DEF Known
<1>7. ASSUME NEW s \in Function, NEW t \in Site, NEW m, Kept(s, t, n, E, A, own, f, g, m)
      PROVE  Kept(s, t, n, E, A, own, w, g, m)
  <2>1. Flying(w, s, t) = Flying(f, s, t) /\ (Returning(w, s, t) <=> Returning(f, s, t))
    BY DEF Flying, Returning
  <2> QED  BY <1>7, <2>1, Zenon DEF Kept
<1> QED  BY <1>3, <1>4, <1>5, <1>6, <1>7, Zenon DEF Story

LEMMA NewArcStory ==
  ASSUME NEW h, NEW n \in Nat, NEW E, NEW A, NEW own, NEW f, NEW g, NEW M,
         Bucket(h, E, A, f, g), Story(h, n, E, A, own, f, g, M),
         M \in [Function \X Site -> Nat], f.at = "newarc", g.at \notin Linking,
         NEW w, Same(w, f), w.at = "linkarc", w.fn = f.fn,
         NEW B, Len(B) = Len(A) + 1, w.arc = Len(B),
         \A a \in 1..Len(A) : B[a] = A[a],
         B[Len(B)].next = E[f.fn].arc_head, B[Len(B)].from_pc = f.from, B[Len(B)].count = 1
  PROVE  \E z : Story(h, n, E, B, z, w, g, M)
<1> DEFINE z == [a \in 1..Len(B) |-> IF a = Len(B) THEN f.fn ELSE own[a]]
<1>1. /\ h \in Nat /\ Len(E) \in Nat /\ Len(A) \in Nat /\ n <= Len(A)
      /\ \A a \in 1..Len(A) : own[a] \in 1..h /\ own[a] \in 1..Len(E)
      /\ f.fn \in 1..Len(E)
      /\ \A a \in 1..Len(A) : A[a].count \in Nat
  BY StoryIs DEF Linking
<1>2. /\ Len(E) = h /\ Len(A) = n /\ Len(B) = n + 1
      /\ f.fn \in 1..h /\ E[f.fn].self_pc = f.self
  BY <1>1 DEF Story, Sizes, Linking, Known
<1>3. /\ z \in [1..Len(B) -> 1..h] /\ z[Len(B)] = f.fn
      /\ \A a \in 1..Len(A) : z[a] = own[a]
      /\ \A a \in 1..Len(B) : a = Len(B) \/ a \in 1..Len(A)
  BY <1>1, <1>2
<1> HIDE DEF z
<1>4. Tied(h, n, E, B, z)
  <2>1. /\ \A e \in 1..Len(E) : /\ E[e].next = e - 1 /\ E[e].arc_head \in 0..n
                                /\ E[e].arc_head # 0 => own[E[e].arc_head] = e
        /\ \A a \in 1..Len(A) : A[a].next # 0 => A[a].next \in 1..n /\ own[A[a].next] = own[a]
        /\ \A a \in 1..n : E[own[a]].arc_head = a \/ \E b \in 1..n : A[b].next = a
    BY DEF Story, Tied
  <2>2. ASSUME NEW e \in 1..Len(E)
        PROVE  /\ E[e].next = e - 1 /\ E[e].arc_head \in 0..n
               /\ E[e].arc_head # 0 => z[E[e].arc_head] = e
    <3>1. E[e].arc_head # 0 => E[e].arc_head \in 1..Len(A)
      BY <2>1, <1>2
    <3> QED  BY <3>1, <2>1, <1>3
  <2>3. ASSUME NEW a \in 1..Len(B), B[a].next # 0
        PROVE  B[a].next \in 1..n /\ z[B[a].next] = z[a]
    <3>1. CASE a = Len(B)
      <4>1. B[a].next = E[f.fn].arc_head /\ z[a] = f.fn
        BY <3>1, <1>3
      <4>2. E[f.fn].arc_head \in 1..n /\ own[E[f.fn].arc_head] = f.fn
        BY <4>1, <2>1, <2>3, <1>1
      <4>3. z[E[f.fn].arc_head] = own[E[f.fn].arc_head]
        BY <4>2, <1>2, <1>3
      <4> QED  BY <4>1, <4>2, <4>3
    <3>2. CASE a \in 1..Len(A)
      <4>1. B[a].next = A[a].next /\ z[a] = own[a]
        BY <3>2, <1>3
      <4>2. A[a].next \in 1..n /\ own[A[a].next] = own[a]
        BY <3>2, <4>1, <2>1, <2>3
      <4>3. z[A[a].next] = own[A[a].next]
        BY <4>2, <1>2, <1>3
      <4> QED  BY <4>1, <4>2, <4>3
    <3> QED  BY <3>1, <3>2, <1>3
  <2>4. ASSUME NEW a \in 1..n
        PROVE  E[z[a]].arc_head = a \/ \E b \in 1..n : B[b].next = a
    <3>1. z[a] = own[a]
      BY <1>2, <1>3
    <3>2. ASSUME NEW b \in 1..n, A[b].next = a PROVE \E c \in 1..n : B[c].next = a
      <4>1. B[b].next = a
        BY <3>2, <1>2
      <4> QED  BY <4>1
    <3> QED  BY <2>1, <3>1, <3>2
  <2> QED  BY <2>2, <2>3, <2>4, <1>3, Zenon DEF Tied
<1>5. Sizes(h, n, E, B, w, g)
  <2>1. g.at # "linkfn"
    BY DEF Linking
  <2> QED  BY <1>2, <2>1 DEF Sizes
<1>6. Known(h, n, E, B, z, w)
  BY <1>2, <1>3 DEF Known, Counting, Linking, Same
<1>7. Known(h, n, E, B, z, g)
  <2>1. Bucket(h, E, A, g, f) /\ Story(h, n, E, A, own, g, f, M)
    BY EitherOrder, EitherStory, ZenonT(60)
  <2>2. g.at \in Counting => g.arc \in 1..Len(A)
    BY <2>1, StoryIs
  <2>3. Known(h, n, E, A, own, g) /\ g.at # "linkarc"
    BY DEF Story, Linking
  <2>4. g.at \in Counting => B[g.arc] = A[g.arc] /\ z[g.arc] = own[g.arc]
    BY <2>2, <1>3
  <2>5. "load" \in Counting /\ "store" \in Counting
    BY DEF Counting
  <2> QED  BY <2>3, <2>4, <2>5 DEF Known
<1>8. ASSUME NEW s \in Function, NEW t \in Site PROVE Kept(s, t, n, E, B, z, w, g, M[<<s, t>>])
  <2>1. PICK m : m = M[<<s, t>>]
    OBVIOUS
  <2>2. m \in Nat
    BY <2>1
  <2>3. Kept(s, t, n, E, A, own, f, g, m)
    BY <2>1 DEF Story
  <2>4. \A a \in 1..Len(A) : Of(s, t, E, B, z, a) <=> Of(s, t, E, A, own, a)
    BY <1>3 DEF Of
  <2>5. Of(s, t, E, B, z, Len(B)) <=> Calls(f, s, t)
    BY <1>2, <1>3 DEF Of, Calls
  <2>6. Flying(f, s, t) = 0 /\ ~Returning(f, s, t) /\ ~Returning(w, s, t)
    BY DEF Flying, Returning
  <2>7. Flying(g, s, t) \in Nat
    BY DEF Flying
  <2>8. /\ Calls(f, s, t) => Flying(w, s, t) = 1
        /\ ~Calls(f, s, t) => Flying(w, s, t) = 0
    BY DEF Flying, Calls, Same
  <2>9. Copied(s, t, n, E, A, own) => Copied(s, t, n, E, B, z)
    BY <1>2, <2>4 DEF Copied
  <2>10. PICK k, q : /\ q = m + Flying(f, s, t) + Flying(g, s, t)
                     /\ k = m + Flying(w, s, t) + Flying(g, s, t)
    OBVIOUS
  <2>11. q \in Nat /\ k \in Nat /\ k >= q /\ (Calls(f, s, t) => k >= q + 1)
    BY <2>2, <2>6, <2>7, <2>8, <2>10
  <2>12. Summed(s, t, E, A, own, q)
    BY <2>3, <2>10 DEF Kept
  <2>13. \A a \in 1..Len(A) : B[a].count \in Nat /\ B[a].count = A[a].count
    BY <1>1
  <2>14. Of(s, t, E, B, z, Len(B)) => k >= q + 1
    BY <2>5, <2>11
  <2>15. Summed(s, t, E, B, z, k)
    BY <2>4, <2>11, <2>12, <2>13, <2>14, <1>1, SummedNew
  <2>16. Kept(s, t, n, E, B, z, w, g, m)
    BY <2>3, <2>6, <2>9, <2>10, <2>15, Zenon DEF Kept
  <2> QED  BY <2>1, <2>16
<1> QED  BY <1>4, <1>5, <1>6, <1>7, <1>8, Zenon DEF Story

LEMMA LinkArcStory ==
  ASSUME NEW h, NEW n \in Nat, NEW E, NEW A, NEW own, NEW f, NEW g, NEW M,
         Bucket(h, E, A, f, g), Story(h, n, E, A, own, f, g, M),
         M \in [Function \X Site -> Nat], f.at = "linkarc", g.at \notin Linking,
         NEW w, Same(w, f), w.at = "return", w.fn = f.fn,
         NEW F, Len(F) = Len(E),
         \A e \in 1..Len(E) : F[e].next = E[e].next /\ F[e].self_pc = E[e].self_pc,
         \A e \in 1..Len(E) : F[e].arc_head = IF e = f.fn THEN f.arc ELSE E[e].arc_head
  PROVE  Story(h, n + 1, F, A, own, w, g, M)
<1>1. /\ h \in Nat /\ Len(E) \in Nat /\ Len(A) \in Nat
      /\ own \in [1..Len(A) -> 1..h]
      /\ \A a \in 1..Len(A) : own[a] \in 1..h /\ own[a] \in 1..Len(E)
      /\ f.fn \in 1..Len(E)
  BY StoryIs DEF Linking
<1>2. /\ Len(E) = h /\ Len(A) = n + 1 /\ f.arc = n + 1 /\ A[n + 1].next = E[f.fn].arc_head
      /\ own[n + 1] = f.fn /\ E[f.fn].self_pc = f.self /\ A[n + 1].from_pc = f.from
  BY DEF Story, Sizes, Linking, Known
<1>3. Tied(h, n + 1, F, A, own)
  <2>1. /\ \A e \in 1..Len(E) : /\ E[e].next = e - 1 /\ E[e].arc_head \in 0..n
                                /\ E[e].arc_head # 0 => own[E[e].arc_head] = e
        /\ \A a \in 1..Len(A) : A[a].next # 0 => A[a].next \in 1..n /\ own[A[a].next] = own[a]
        /\ \A a \in 1..n : E[own[a]].arc_head = a \/ \E b \in 1..n : A[b].next = a
    BY DEF Story, Tied
  <2>2. ASSUME NEW e \in 1..Len(F)
        PROVE  /\ F[e].next = e - 1 /\ F[e].arc_head \in 0..(n + 1)
               /\ F[e].arc_head # 0 => own[F[e].arc_head] = e
    <3>1. CASE e = f.fn
      BY <3>1, <2>1, <1>2
    <3>2. CASE e # f.fn
      <4>1. F[e].arc_head = E[e].arc_head /\ F[e].next = E[e].next
        BY <3>2
      <4> QED  BY <4>1, <2>1
    <3> QED  BY <3>1, <3>2
  <2>3. ASSUME NEW a \in 1..Len(A), A[a].next # 0
        PROVE  A[a].next \in 1..(n + 1) /\ own[A[a].next] = own[a]
    BY <2>1, <2>3
  <2>4. ASSUME NEW a \in 1..(n + 1)
        PROVE  F[own[a]].arc_head = a \/ \E b \in 1..(n + 1) : A[b].next = a
    <3>1. CASE a = n + 1
      BY <3>1, <1>1, <1>2
    <3>2. CASE a # n + 1
      <4>1. a \in 1..n /\ own[a] \in 1..Len(E)
        BY <3>2, <1>1, <1>2
      <4>2. CASE E[own[a]].arc_head = a /\ own[a] = f.fn
        <5>1. A[n + 1].next = a /\ n + 1 \in 1..(n + 1)
          BY <4>2, <1>2
        <5> QED  BY <5>1
      <4>3. CASE E[own[a]].arc_head = a /\ own[a] # f.fn
        BY <4>1, <4>3
      <4>4. ASSUME NEW b \in 1..n, A[b].next = a PROVE \E c \in 1..(n + 1) : A[c].next = a
        <5>1. b \in 1..(n + 1)
          OBVIOUS
        <5> QED  BY <4>4, <5>1
      <4> QED  BY <4>1, <4>2, <4>3, <4>4, <2>1
    <3> QED  BY <3>1, <3>2
  <2> QED  BY <2>2, <2>3, <2>4, <1>1, Zenon DEF Tied
<1>4. Sizes(h, n + 1, F, A, w, g)
  <2>1. g.at # "linkfn" /\ g.at # "linkarc"
    BY DEF Linking
  <2> QED  BY <1>2, <2>1 DEF Sizes
<1>5. Known(h, n + 1, F, A, own, w)
  BY <1>1, <1>2 DEF Known, Counting, Linking, Same
<1>6. Known(h, n + 1, F, A, own, g)
  <2>1. Bucket(h, E, A, g, f) /\ Story(h, n, E, A, own, g, f, M)
    BY EitherOrder, EitherStory, ZenonT(60)
  <2>2. /\ g.at \in Counting => g.fn \in 1..Len(E)
        /\ g.fn \in Nat /\ g.fn <= Len(E) /\ g.arc \in Nat
    BY <2>1, StoryIs
  <2>3. Known(h, n, E, A, own, g) /\ g.at # "linkarc"
    BY DEF Story, Linking
  <2>4. g.at \in Counting \/ (g.at = "record" /\ g.fn # 0) => F[g.fn].self_pc = E[g.fn].self_pc
    BY <1>1, <2>2
  <2>5. g.at \in Counting => g.arc <= n + 1
    BY <2>2, <2>3 DEF Known
  <2> QED  BY <2>3, <2>4, <2>5 DEF Known
<1>7. ASSUME NEW s \in Function, NEW t \in Site, NEW m, Kept(s, t, n, E, A, own, f, g, m)
      PROVE  Kept(s, t, n + 1, F, A, own, w, g, m)
  <2>1. \A a \in 1..Len(A) : Of(s, t, F, A, own, a) <=> Of(s, t, E, A, own, a)
    BY <1>1 DEF Of
  <2>2. Flying(w, s, t) = Flying(f, s, t) /\ ~Returning(f, s, t)
    BY DEF Flying, Returning, Same, Calls
  <2>3. Copied(s, t, n, E, A, own) => Copied(s, t, n + 1, F, A, own)
    <3>1. ASSUME NEW a \in 1..n, Of(s, t, E, A, own, a) PROVE Copied(s, t, n + 1, F, A, own)
      <4>1. a \in 1..Len(A) /\ a \in 1..(n + 1)
        BY <1>2
      <4> QED  BY <3>1, <4>1, <2>1, Zenon DEF Copied
    <3> QED  BY <3>1, Zenon DEF Copied
  <2>4. Returning(w, s, t) => Copied(s, t, n + 1, F, A, own)
    <3> SUFFICES ASSUME Returning(w, s, t) PROVE Copied(s, t, n + 1, F, A, own)
      OBVIOUS
    <3>1. f.self = s /\ f.from = t
      BY DEF Returning, Calls, Same
    <3>2. n + 1 \in 1..Len(A) /\ n + 1 \in 1..(n + 1)
      BY <1>2
    <3>3. Of(s, t, E, A, own, n + 1)
      BY <3>1, <1>2 DEF Of
    <3>4. Of(s, t, F, A, own, n + 1)
      BY <3>2, <3>3, <2>1
    <3> QED  BY <3>2, <3>4, Zenon DEF Copied
  <2>5. Summed(s, t, F, A, own, m + Flying(f, s, t) + Flying(g, s, t))
    BY <1>7, <2>1, SummedSame DEF Kept
  <2> QED  BY <1>7, <2>2, <2>3, <2>4, <2>5, Zenon DEF Kept
<1> QED  BY <1>3, <1>4, <1>5, <1>6, <1>7, Zenon DEF Story

LEMMA ReturnStory ==
  ASSUME NEW h, NEW n \in Nat, NEW E, NEW A, NEW own, NEW f, NEW g, NEW M,
         Story(h, n, E, A, own, f, g, M), M \in [Function \X Site -> Nat], f.at = "return",
         f.self \in Function, f.from \in Site,
         NEW w, w.at = "idle", Known(h, n, E, A, own, w)
  PROVE  Story(h, n, E, A, own, w, g, [M EXCEPT ![<<f.self, f.from>>] = @ + 1])
<1> DEFINE K == [M EXCEPT ![<<f.self, f.from>>] = @ + 1]
<1>1. Sizes(h, n, E, A, w, g)
  BY DEF Story, Sizes
<1>2. ASSUME NEW s \in Function, NEW t \in Site PROVE Kept(s, t, n, E, A, own, w, g, K[<<s, t>>])
  <2>1. PICK m, k : m = M[<<s, t>>] /\ k = K[<<s, t>>]
    OBVIOUS
  <2>2. Kept(s, t, n, E, A, own, f, g, m)
    BY <2>1 DEF Story
  <2>3. m \in Nat /\ Flying(g, s, t) \in Nat
    BY <2>1 DEF Flying
  <2>4. Flying(w, s, t) = 0 /\ ~Returning(w, s, t)
    BY DEF Flying, Returning
  <2>5. CASE Calls(f, s, t)
    <3>1. k = m + 1
      BY <2>1, <2>5 DEF Calls
    <3>2. Flying(f, s, t) = 1 /\ Returning(f, s, t)
      BY <2>5 DEF Flying, Returning
    <3>3. m + Flying(f, s, t) + Flying(g, s, t) = k + Flying(w, s, t) + Flying(g, s, t)
      BY <2>3, <2>4, <3>1, <3>2
    <3>4. Kept(s, t, n, E, A, own, w, g, k)
      BY <2>2, <2>4, <3>2, <3>3, Zenon DEF Kept
    <3> QED  BY <2>1, <3>4
  <2>6. CASE ~Calls(f, s, t)
    <3>1. k = m
      <4>1. <<s, t>> # <<f.self, f.from>>
        BY <2>6 DEF Calls
      <4> QED  BY <2>1, <4>1
    <3>2. Flying(f, s, t) = 0 /\ ~Returning(f, s, t)
      BY <2>6 DEF Flying, Returning
    <3>3. Kept(s, t, n, E, A, own, w, g, k)
      BY <2>2, <2>4, <3>1, <3>2, Zenon DEF Kept
    <3> QED  BY <2>1, <3>3
  <2> QED  BY <2>5, <2>6
<1> QED  BY <1>1, <1>2, Zenon DEF Story

LEMMA RecordFacts ==
  ASSUME RecordInv, NEW c \in Profiler!Caller, NEW x, Profiler!At(c, x)
  PROVE  /\ Bucket(fn_head, entry, arc, Call(c), Call(Other(c)))
         /\ \E n \in Nat : \E own : Story(fn_head, n, entry, arc, own, Call(c), Call(Other(c)), made)
         /\ made \in [Function \X Site -> Nat]
         /\ Call(c) \in Frame /\ Call(c).at = x
         /\ x # "idle" => Call(Other(c)).at \notin Linking
         /\ c = "program" => Call("routine").at = "idle"
         /\ Call(c).at = "store" => Behind(Call(Other(c)), Call(c))
<1>1. ProfilerInv /\ made \in [Function \X Site -> Nat]
  BY DEF RecordInv
<1>2. /\ Bucket(fn_head, entry, arc, Call(c), Call(Other(c)))
      /\ Call(c) \in Frame /\ Call(c).at = x
      /\ x # "idle" => Call(Other(c)).at \notin Linking
  BY <1>1, CallerFacts
<1>3. c = "program" \/ c = "routine"
  BY DEF Profiler!Caller
<1>4. c = "program" => Call("routine").at = "idle"
  BY DEF Profiler!At, Call
<1>5. Behind(Call("program"), Call("routine"))
  BY DEF RecordInv
<1>6. PICK n \in Nat : \E own :
        Story(fn_head, n, entry, arc, own, Call("program"), Call("routine"), made)
  BY DEF RecordInv
<1>7. PICK own :
        Story(fn_head, n, entry, arc, own, Call("program"), Call("routine"), made)
  BY <1>6
<1>8. CASE c = "program"
  <2>1. Other(c) = "routine"
    BY <1>8 DEF Other
  <2>2. Behind(Call(Other(c)), Call(c))
    BY <2>1, <1>4, <1>8 DEF Behind
  <2>3. Story(fn_head, n, entry, arc, own, Call(c), Call(Other(c)), made)
    BY <2>1, <1>7, <1>8
  <2> QED  BY <2>2, <2>3, <1>1, <1>2, <1>4
<1>9. CASE c = "routine"
  <2>1. Other(c) = "program"
    BY <1>9 DEF Other
  <2>2. Behind(Call(Other(c)), Call(c))
    BY <2>1, <1>5, <1>9
  <2>3. Story(fn_head, n, entry, arc, own, Call("routine"), Call("program"), made)
    BY <1>1, <1>7, EitherStory
  <2>4. Story(fn_head, n, entry, arc, own, Call(c), Call(Other(c)), made)
    BY <2>1, <2>3, <1>9
  <2> QED  BY <2>2, <2>4, <1>1, <1>2, <1>4
<1> QED  BY <1>3, <1>8, <1>9

LEMMA RecordStep ==
  ASSUME RecordInv, ProfilerInv', NEW c \in Profiler!Caller, NEW x, Profiler!At(c, x),
         NEW w, Profiler!Step(c, w), made' \in [Function \X Site -> Nat],
         NEW n \in Nat, NEW own,
         Story(fn_head', n, entry', arc', own, w, Call(Other(c)), made'),
         c = "routine" => Behind(Call(Other(c)), w)
  PROVE  RecordInv'
<1>1. c = "program" \/ c = "routine"
  BY DEF Profiler!Caller
<1>2. Call(c)' = w /\ Call(Other(c))' = Call(Other(c))
  BY DEF RecordInv, ProfilerInv, Profiler!Step, Profiler!Caller, Call, Other
<1>3. CASE c = "program"
  <2>1. Other(c) = "routine" /\ Call("routine").at = "idle"
    BY <1>3 DEF Other, Profiler!At, Call
  <2>2. Call("program")' = w /\ Call("routine")' = Call("routine")
    BY <1>2, <1>3, <2>1
  <2>3. Behind(Call("program"), Call("routine"))'
    BY <2>1, <2>2 DEF Behind
  <2>4. Story(fn_head', n, entry', arc', own, Call("program")', Call("routine")', made')
    BY <2>1, <2>2
  <2> QED  BY <2>3, <2>4, Zenon DEF RecordInv
<1>4. CASE c = "routine"
  <2>1. Other(c) = "program"
    BY <1>4 DEF Other
  <2>2. Call("routine")' = w /\ Call("program")' = Call("program")
    BY <1>2, <1>4, <2>1
  <2>3. Behind(Call("program"), Call("routine"))'
    BY <1>4, <2>1, <2>2 DEF Behind
  <2>4. Story(fn_head', n, entry', arc', own, Call("program")', Call("routine")', made')
    BY <2>1, <2>2, EitherStory
  <2> QED  BY <2>3, <2>4, Zenon DEF RecordInv
<1> QED  BY <1>1, <1>3, <1>4

\* A step that only moves the frame.
LEMMA RecordWalks ==
  ASSUME RecordInv, ProfilerInv', NEW c \in Profiler!Caller, NEW x, Profiler!At(c, x),
         UNCHANGED <<fn_head, entry, arc, made>>,
         NEW w, Profiler!Step(c, w), Plain(Call(c)), Plain(w),
         NEW n \in Nat, NEW own,
         Story(fn_head, n, entry, arc, own, Call(c), Call(Other(c)), made),
         Known(fn_head, n, entry, arc, own, w),
         c = "routine" => Behind(Call(Other(c)), w)
  PROVE  RecordInv'
<1>1. Story(fn_head, n, entry, arc, own, w, Call(Other(c)), made)
  BY PlainStory
<1>2. made' \in [Function \X Site -> Nat]
  BY DEF RecordInv
<1>3. Story(fn_head', n, entry', arc', own, w, Call(Other(c)), made')
  BY <1>1
<1> QED  BY <1>2, <1>3, RecordStep

LEMMA RecordMcount ==
  ASSUME RecordInv, NEW c \in Profiler!Caller, NEW self \in Function, NEW from \in Site,
         Profiler!mcount(c, self, from)
  PROVE  RecordInv'
<1>1. PICK w : w = Begun(self, from, fn_head, Call(c).calls + 1)
  OBVIOUS
<1>2. /\ Profiler!At(c, "idle") /\ Profiler!Step(c, w)
      /\ UNCHANGED <<fn_head, entry, arc, made>>
  BY <1>1, Zenon DEF Profiler!mcount, Begun, Call
<1>3. /\ Bucket(fn_head, entry, arc, Call(c), Call(Other(c))) /\ Call(c).at = "idle"
      /\ Call(c) \in Frame
  BY <1>2, RecordFacts
<1>4. PICK n \in Nat : \E own : Story(fn_head, n, entry, arc, own, Call(c), Call(Other(c)), made)
  BY <1>2, RecordFacts
<1>5. PICK own : Story(fn_head, n, entry, arc, own, Call(c), Call(Other(c)), made)
  BY <1>4
<1>6. fn_head \in Nat /\ Call(c).calls + 1 \in Nat
  BY <1>3, BucketIs, FrameIs
<1>7. w.at = "functions" /\ w.fn = fn_head
  BY <1>1, <1>6, Begins
<1>8. Known(fn_head, n, entry, arc, own, w)
  BY <1>6, <1>7 DEF Known, Counting, Linking
<1>9. Plain(Call(c)) /\ Plain(w) /\ Behind(Call(Other(c)), w)
  BY <1>3, <1>7 DEF Plain, Behind
<1>10. ProfilerInv'
  BY ProfilerMcount DEF RecordInv
<1> QED  BY <1>2, <1>5, <1>8, <1>9, <1>10, RecordWalks

LEMMA RecordFindFunction ==
  ASSUME RecordInv, NEW c \in Profiler!Caller, Profiler!FindFunction(c)
  PROVE  RecordInv'
<1> DEFINE f == Call(c)
           g == Call(Other(c))
<1>1. Profiler!At(c, "functions") /\ UNCHANGED <<fn_head, entry, arc, made>>
  BY DEF Profiler!FindFunction
<1>2. \/ f.fn = 0 /\ Profiler!Step(c, [f EXCEPT !.at = "record"])
      \/ /\ f.fn # 0 /\ entry[f.fn].self_pc = f.self
         /\ Profiler!Step(c, ToArc(f, "arcs", entry[f.fn].arc_head))
      \/ f.fn # 0 /\ Profiler!Step(c, [f EXCEPT !.fn = entry[f.fn].next])
  BY Zenon DEF Profiler!FindFunction, Profiler!NULL, Profiler!Goto, Call, ToArc
<1>3. /\ Bucket(fn_head, entry, arc, f, g) /\ f \in Frame /\ f.at = "functions"
      /\ g.at \notin Linking
  BY <1>1, RecordFacts
<1>4. PICK n \in Nat : \E own : Story(fn_head, n, entry, arc, own, f, g, made)
  BY <1>1, RecordFacts
<1>5. PICK own : Story(fn_head, n, entry, arc, own, f, g, made)
  BY <1>4
<1>6. /\ f.fn \in Nat /\ f.fn <= Len(entry) /\ f.fn <= fn_head /\ Len(entry) \in Nat
      /\ fn_head \in Nat
      /\ \A e \in 1..Len(entry) : /\ entry[e].next = e - 1 /\ entry[e].arc_head \in 0..n
                                  /\ entry[e].arc_head # 0 => own[entry[e].arc_head] = e
  <2>1. f.fn \in Nat /\ f.fn <= Len(entry) /\ Len(entry) \in Nat /\ fn_head \in Nat
    BY <1>3, <1>5, StoryIs
  <2>2. Known(fn_head, n, entry, arc, own, f) /\ Tied(fn_head, n, entry, arc, own)
    BY <1>5 DEF Story
  <2> QED  BY <2>1, <2>2, <1>3 DEF Known, Tied
<1>7. ProfilerInv' /\ Plain(f)
  BY <1>3, ProfilerFindFunction DEF RecordInv, Plain
<1>8. CASE f.fn = 0 /\ Profiler!Step(c, [f EXCEPT !.at = "record"])
  <2>1. PICK w : w = [f EXCEPT !.at = "record"]
    OBVIOUS
  <2>2. w.at = "record" /\ w.fn = 0
    BY <2>1, <1>3, <1>8, Goes DEF Places
  <2>3. Profiler!Step(c, w)
    BY <2>1, <1>8
  <2>4. Known(fn_head, n, entry, arc, own, w) /\ Plain(w) /\ Behind(g, w)
    BY <2>2, <1>6 DEF Known, Counting, Linking, Plain, Behind
  <2> QED  BY <2>3, <2>4, <1>1, <1>5, <1>7, RecordWalks
<1>9. CASE /\ f.fn # 0 /\ entry[f.fn].self_pc = f.self
           /\ Profiler!Step(c, ToArc(f, "arcs", entry[f.fn].arc_head))
  <2>1. PICK w : w = ToArc(f, "arcs", entry[f.fn].arc_head)
    OBVIOUS
  <2>2. /\ f.fn \in 1..Len(entry) /\ entry[f.fn].arc_head \in 0..n
        /\ entry[f.fn].arc_head # 0 => own[entry[f.fn].arc_head] = f.fn
    BY <1>6, <1>9
  <2>3. entry[f.fn].arc_head # 0
    BY <2>2, <1>3 DEF Bucket, Linking
  <2>4. Same(w, f) /\ w.at = "arcs" /\ w.fn = f.fn /\ w.arc = entry[f.fn].arc_head
    <3>1. "arcs" \in Places /\ entry[f.fn].arc_head \in Nat
      BY <2>2 DEF Places, Counting
    <3> QED  BY <3>1, <2>1, <1>3, GoesToArc
  <2>5. Profiler!Step(c, w)
    BY <2>1, <1>9
  <2>6. Known(fn_head, n, entry, arc, own, w)
    <3>1. /\ w.fn <= fn_head /\ entry[w.fn].self_pc = w.self /\ own[w.arc] = w.fn
          /\ w.arc <= n
      BY <2>2, <2>3, <2>4, <1>6, <1>9 DEF Same
    <3> QED  BY <3>1, <2>4 DEF Known
  <2>7. Plain(w) /\ Behind(g, w)
    BY <2>4 DEF Plain, Behind
  <2> QED  BY <2>5, <2>6, <2>7, <1>1, <1>5, <1>7, RecordWalks
<1>10. CASE f.fn # 0 /\ Profiler!Step(c, [f EXCEPT !.fn = entry[f.fn].next])
  <2>1. PICK w : w = [f EXCEPT !.fn = entry[f.fn].next]
    OBVIOUS
  <2>2. entry[f.fn].next = f.fn - 1 /\ entry[f.fn].next \in Nat
    BY <1>6, <1>10
  <2>3. w.at = "functions" /\ w.fn = f.fn - 1
    BY <2>1, <2>2, <1>3, GoesOn
  <2>4. Profiler!Step(c, w)
    BY <2>1, <1>10
  <2>5. Known(fn_head, n, entry, arc, own, w)
    <3>1. w.fn <= fn_head
      BY <2>3, <1>6
    <3> QED  BY <3>1, <2>3 DEF Known, Counting, Linking
  <2>6. Plain(w) /\ Behind(g, w)
    BY <2>3 DEF Plain, Behind
  <2> QED  BY <2>4, <2>5, <2>6, <1>1, <1>5, <1>7, RecordWalks
<1> QED  BY <1>2, <1>8, <1>9, <1>10

LEMMA RecordFindArc ==
  ASSUME RecordInv, NEW c \in Profiler!Caller, Profiler!FindArc(c)
  PROVE  RecordInv'
<1> DEFINE f == Call(c)
           g == Call(Other(c))
<1>1. Profiler!At(c, "arcs") /\ UNCHANGED <<fn_head, entry, arc, made>>
  BY DEF Profiler!FindArc
<1>2. \/ arc[f.arc].from_pc = f.from /\ Profiler!Step(c, [f EXCEPT !.at = "load"])
      \/ Profiler!Step(c, [f EXCEPT !.at = "record"])
      \/ arc[f.arc].next # 0 /\ Profiler!Step(c, [f EXCEPT !.arc = arc[f.arc].next])
  BY Zenon DEF Profiler!FindArc, Profiler!NULL, Profiler!Goto, Call
<1>3. Bucket(fn_head, entry, arc, f, g) /\ f \in Frame /\ f.at = "arcs"
  BY <1>1, RecordFacts
<1>4. PICK n \in Nat : \E own : Story(fn_head, n, entry, arc, own, f, g, made)
  BY <1>1, RecordFacts
<1>5. PICK own : Story(fn_head, n, entry, arc, own, f, g, made)
  BY <1>4
<1>6. /\ f.fn <= fn_head /\ entry[f.fn].self_pc = f.self /\ own[f.arc] = f.fn /\ f.arc <= n
      /\ f.arc \in 1..Len(arc)
      /\ \A a \in 1..Len(arc) : arc[a].next # 0 => arc[a].next \in 1..n /\ own[arc[a].next] = own[a]
  <2>1. f.arc \in 1..Len(arc)
    BY <1>3, <1>5, StoryIs DEF Counting
  <2>2. Known(fn_head, n, entry, arc, own, f) /\ Tied(fn_head, n, entry, arc, own)
    BY <1>5 DEF Story
  <2> QED  BY <2>1, <2>2, <1>3 DEF Known, Tied, Counting
<1>7. ProfilerInv' /\ Plain(f)
  BY <1>3, ProfilerFindArc DEF RecordInv, Plain
<1>8. ASSUME NEW x \in {"load", "record"}, Profiler!Step(c, [f EXCEPT !.at = x]),
             x = "load" => arc[f.arc].from_pc = f.from
      PROVE  RecordInv'
  <2>1. PICK w : w = [f EXCEPT !.at = x]
    OBVIOUS
  <2>2. Same(w, f) /\ w.at = x /\ w.fn = f.fn /\ w.arc = f.arc
    <3>1. x \in Places
      BY DEF Places, Counting
    <3> QED  BY <3>1, <2>1, <1>3, Goes
  <2>3. Profiler!Step(c, w)
    BY <2>1, <1>8
  <2>4. w.at # "store" /\ w.at # "linkfn" /\ w.at \notin Linking /\ w.at # "linkarc"
    BY <2>2 DEF Linking
  <2>5. Known(fn_head, n, entry, arc, own, w)
    BY <2>2, <2>4, <1>6, <1>8 DEF Known, Same
  <2>6. Plain(w) /\ Behind(g, w)
    BY <2>2 DEF Plain, Behind
  <2> QED  BY <2>3, <2>5, <2>6, <1>1, <1>5, <1>7, RecordWalks
<1>9. CASE arc[f.arc].next # 0 /\ Profiler!Step(c, [f EXCEPT !.arc = arc[f.arc].next])
  <2>1. PICK w : w = [f EXCEPT !.arc = arc[f.arc].next]
    OBVIOUS
  <2>2. arc[f.arc].next \in 1..n /\ own[arc[f.arc].next] = f.fn
    BY <1>6, <1>9
  <2>3. Same(w, f) /\ w.at = "arcs" /\ w.fn = f.fn /\ w.arc = arc[f.arc].next
    <3>1. PICK y : y = arc[f.arc].next
      OBVIOUS
    <3>2. y \in Nat /\ w = [f EXCEPT !.arc = y]
      BY <2>1, <2>2, <3>1
    <3>3. Same(w, f) /\ w.at = f.at /\ w.fn = f.fn /\ w.arc = y
      BY <3>2, <1>3, GoesOn
    <3> QED  BY <3>1, <3>3, <1>3
  <2>4. Profiler!Step(c, w)
    BY <2>1, <1>9
  <2>5. Known(fn_head, n, entry, arc, own, w)
    <3>1. w.arc <= n
      BY <2>2, <2>3
    <3> QED  BY <3>1, <2>2, <2>3, <1>6 DEF Known, Same
  <2>6. Plain(w) /\ Behind(g, w)
    BY <2>3 DEF Plain, Behind
  <2> QED  BY <2>4, <2>5, <2>6, <1>1, <1>5, <1>7, RecordWalks
<1> QED  BY <1>2, <1>8, <1>9

LEMMA RecordLoadCount ==
  ASSUME RecordInv, NEW c \in Profiler!Caller, Profiler!LoadCount(c)
  PROVE  RecordInv'
<1> DEFINE f == Call(c)
           g == Call(Other(c))
<1>1. PICK w : w = ToCount(f, "store", arc[f.arc].count)
  OBVIOUS
<1>2. /\ Profiler!At(c, "load") /\ UNCHANGED <<fn_head, entry, arc, made>>
      /\ Profiler!Step(c, w)
  BY <1>1, Zenon DEF Profiler!LoadCount, Call, ToCount
<1>3. Bucket(fn_head, entry, arc, f, g) /\ f \in Frame /\ f.at = "load"
  BY <1>2, RecordFacts
<1>4. PICK n \in Nat : \E own : Story(fn_head, n, entry, arc, own, f, g, made)
  BY <1>2, RecordFacts
<1>5. PICK own : Story(fn_head, n, entry, arc, own, f, g, made)
  BY <1>4
<1>6. /\ Known(fn_head, n, entry, arc, own, f) /\ Known(fn_head, n, entry, arc, own, g)
      /\ f.arc \in 1..Len(arc) /\ arc[f.arc].count \in Nat
  <2>1. /\ f.arc \in 1..Len(arc)
        /\ \A a \in 1..Len(arc) : arc[a].count \in Nat
    BY <1>3, <1>5, StoryIs DEF Counting
  <2>2. Known(fn_head, n, entry, arc, own, f) /\ Known(fn_head, n, entry, arc, own, g)
    BY <1>5 DEF Story
  <2> QED  BY <2>1, <2>2
<1>7. Same(w, f) /\ w.at = "store" /\ w.fn = f.fn /\ w.arc = f.arc /\ w.count = arc[f.arc].count
  <2>1. "store" \in Places
    BY DEF Places, Counting
  <2>2. PICK m : m = arc[f.arc].count
    OBVIOUS
  <2>3. m \in Nat /\ w = ToCount(f, "store", m)
    BY <1>1, <1>6, <2>2
  <2>4. Same(w, f) /\ w.at = "store" /\ w.fn = f.fn /\ w.arc = f.arc /\ w.count = m
    BY <2>1, <2>3, <1>3, GoesToCount
  <2> QED  BY <2>2, <2>4
<1>8. Known(fn_head, n, entry, arc, own, w)
  <2>1. /\ f.fn <= fn_head /\ entry[f.fn].self_pc = f.self /\ own[f.arc] = f.fn /\ f.arc <= n
        /\ arc[f.arc].from_pc = f.from
    BY <1>3, <1>6 DEF Known, Counting
  <2>2. w.count <= arc[w.arc].count
    BY <1>6, <1>7
  <2> QED  BY <2>1, <2>2, <1>7 DEF Known, Same
<1>9. Plain(f) /\ Plain(w) /\ ProfilerInv'
  BY <1>3, <1>7, ProfilerLoadCount DEF RecordInv, Plain
<1>10. Behind(g, w)
  BY <1>6, <1>7 DEF Behind, Known
<1> QED  BY <1>2, <1>5, <1>8, <1>9, <1>10, RecordWalks

LEMMA RecordStoreCount ==
  ASSUME RecordInv, NEW c \in Profiler!Caller, Profiler!StoreCount(c)
  PROVE  RecordInv'
<1> DEFINE f == Call(c)
           g == Call(Other(c))
<1>1. PICK B : B = [arc EXCEPT ![f.arc].count = f.count + 1]
  OBVIOUS
<1>2. PICK w : w = [f EXCEPT !.at = "return"]
  OBVIOUS
<1>3. /\ Profiler!At(c, "store") /\ Profiler!Step(c, w)
      /\ arc' = B /\ UNCHANGED <<fn_head, entry, made>>
  BY <1>1, <1>2, Zenon DEF Profiler!StoreCount, Profiler!Goto, Call
<1>4. /\ Bucket(fn_head, entry, arc, f, g) /\ f \in Frame /\ f.at = "store"
      /\ made \in [Function \X Site -> Nat] /\ Behind(g, f)
  BY <1>3, RecordFacts
<1>5. PICK n \in Nat : \E own : Story(fn_head, n, entry, arc, own, f, g, made)
  BY <1>3, RecordFacts
<1>6. PICK own : Story(fn_head, n, entry, arc, own, f, g, made)
  BY <1>5
<1>7. Same(w, f) /\ w.at = "return" /\ w.fn = f.fn
  BY <1>2, <1>4, Goes DEF Places
<1>8. /\ Len(B) = Len(arc)
      /\ \A a \in 1..Len(arc) : B[a].next = arc[a].next /\ B[a].from_pc = arc[a].from_pc
      /\ \A a \in 1..Len(arc) : B[a].count = IF a = f.arc THEN f.count + 1 ELSE arc[a].count
  <2>1. /\ arc \in Seq(ArcBlocks) /\ f.arc \in 1..Len(arc) /\ f.count \in Nat
        /\ arc[f.arc] \in ArcBlocks
    <3>1. f.arc \in 1..Len(arc) /\ f.count \in Nat
      BY <1>4, <1>6, StoryIs DEF Counting
    <3> QED  BY <3>1, <1>4, BucketIs
  <2>2. PICK b : b = [arc[f.arc] EXCEPT !.count = f.count + 1]
    OBVIOUS
  <2>3. B = [arc EXCEPT ![f.arc] = b]
    BY <1>1, <2>2, Zenon
  <2>4. b.next = arc[f.arc].next /\ b.from_pc = arc[f.arc].from_pc /\ b.count = f.count + 1
    BY <2>1, <2>2, CountBecomes
  <2>5. Len(B) = Len(arc) /\ \A a \in 1..Len(arc) : B[a] = IF a = f.arc THEN b ELSE arc[a]
    BY <2>1, <2>3
  <2> QED  BY <2>4, <2>5
<1>9. g.at = "store" /\ g.arc = f.arc => g.count <= f.count
  BY <1>4 DEF Behind
<1>10. Story(fn_head, n, entry, B, own, w, g, made)
  BY <1>4, <1>6, <1>7, <1>8, <1>9, StoreStory, ZenonT(60)
<1>11. ProfilerInv' /\ Behind(g, w) /\ made' \in [Function \X Site -> Nat]
  BY <1>3, <1>4, <1>7, ProfilerStoreCount DEF RecordInv, Behind
<1>12. Story(fn_head', n, entry', arc', own, w, g, made')
  BY <1>3, <1>10
<1> QED  BY <1>3, <1>11, <1>12, RecordStep

LEMMA RecordRecord ==
  ASSUME RecordInv, NEW c \in Profiler!Caller, Profiler!Record(c)
  PROVE  RecordInv'
<1> DEFINE f == Call(c)
           g == Call(Other(c))
<1>1. PICK x : x = IF f.fn = 0 THEN "newfn" ELSE "newarc"
  OBVIOUS
<1>2. PICK w : w = ToContext(f, x, mcount_PIE)
  OBVIOUS
<1>3. /\ Profiler!At(c, "record") /\ Profiler!Step(c, w)
      /\ UNCHANGED <<fn_head, entry, arc, made>>
  BY <1>1, <1>2, Zenon DEF Profiler!Record, Profiler!NULL, ToContext, Call
<1>4. f \in Frame /\ f.at = "record" /\ mcount_PIE \in BOOLEAN
  BY <1>3, RecordFacts, CallerFacts DEF RecordInv
<1>5. PICK n \in Nat : \E own : Story(fn_head, n, entry, arc, own, f, g, made)
  BY <1>3, RecordFacts
<1>6. PICK own : Story(fn_head, n, entry, arc, own, f, g, made)
  BY <1>5
<1>7. Same(w, f) /\ w.at = x /\ w.fn = f.fn
  <2>1. x \in Places
    BY <1>1 DEF Places, Alone
  <2> QED  BY <2>1, <1>2, <1>4, GoesToContext
<1>8. Known(fn_head, n, entry, arc, own, w)
  <2>1. f.fn <= fn_head /\ (f.fn # 0 => entry[f.fn].self_pc = f.self)
    BY <1>4, <1>6 DEF Story, Known
  <2>2. x = "newfn" \/ (x = "newarc" /\ f.fn # 0)
    BY <1>1
  <2>3. CASE x = "newfn"
    BY <2>1, <2>3, <1>7 DEF Known, Counting, Linking
  <2>4. CASE x = "newarc" /\ f.fn # 0
    BY <2>1, <2>4, <1>7 DEF Known, Counting, Linking, Same
  <2> QED  BY <2>2, <2>3, <2>4
<1>9. x \in {"newfn", "newarc"}
  BY <1>1
<1>10. Plain(f) /\ Plain(w) /\ Behind(g, w)
  BY <1>4, <1>7, <1>9 DEF Plain, Behind
<1>11. ProfilerInv'
  BY ProfilerRecord DEF RecordInv
<1> QED  BY <1>3, <1>6, <1>8, <1>10, <1>11, RecordWalks

LEMMA RecordNewFunction ==
  ASSUME RecordInv, NEW c \in Profiler!Caller, Profiler!NewFunction(c)
  PROVE  RecordInv'
<1> DEFINE f == Call(c)
           g == Call(Other(c))
<1>1. PICK F : F = Append(entry, [next |-> fn_head, self_pc |-> f.self, arc_head |-> 0])
  OBVIOUS
<1>2. PICK w : w = ToFn(f, "linkfn", Len(F))
  OBVIOUS
<1>3. /\ Profiler!At(c, "newfn") /\ Profiler!Step(c, w)
      /\ entry' = F /\ UNCHANGED <<fn_head, arc, made>>
  BY <1>1, <1>2, Zenon DEF Profiler!NewFunction, Profiler!NULL, ToFn, Call
<1>4. /\ Bucket(fn_head, entry, arc, f, g) /\ f \in Frame /\ f.at = "newfn"
      /\ made \in [Function \X Site -> Nat] /\ g.at \notin Linking
  <2>1. "newfn" # "idle" /\ Profiler!At(c, "newfn")
    BY <1>3
  <2> QED  BY <2>1, RecordFacts, Zenon
<1>5. PICK n \in Nat : \E own : Story(fn_head, n, entry, arc, own, f, g, made)
  BY <1>3, RecordFacts
<1>6. PICK own : Story(fn_head, n, entry, arc, own, f, g, made)
  BY <1>5
<1>7. /\ Len(F) = Len(entry) + 1 /\ Len(F) \in Nat
      /\ \A e \in 1..Len(entry) : F[e] = entry[e]
      /\ F[Len(F)].next = fn_head /\ F[Len(F)].self_pc = f.self /\ F[Len(F)].arc_head = 0
  <2>1. entry \in Seq(Blocks)
    BY <1>4, BucketIs
  <2>2. PICK b : b = [next |-> fn_head, self_pc |-> f.self, arc_head |-> 0]
    OBVIOUS
  <2>3. b.next = fn_head /\ b.self_pc = f.self /\ b.arc_head = 0
    BY <2>2
  <2>4. F = Append(entry, b)
    BY <1>1, <2>2
  <2>5. Len(F) = Len(entry) + 1 /\ Len(entry) \in Nat /\ F[Len(entry) + 1] = b
        /\ \A e \in 1..Len(entry) : F[e] = entry[e]
    BY <2>1, <2>4
  <2> QED  BY <2>3, <2>5
<1>8. Same(w, f) /\ w.at = "linkfn" /\ w.fn = Len(F)
  <2>1. "linkfn" \in Places
    BY DEF Places, Alone
  <2> QED  BY <2>1, <1>2, <1>4, <1>7, GoesToFn
<1>9. Story(fn_head, n, F, arc, own, w, g, made)
  BY <1>4, <1>6, <1>7, <1>8, NewFunctionStory
<1>10. ProfilerInv' /\ Behind(g, w) /\ made' \in [Function \X Site -> Nat]
  BY <1>3, <1>4, <1>8, ProfilerNewFunction DEF RecordInv, Behind
<1>11. Story(fn_head', n, entry', arc', own, w, g, made')
  BY <1>3, <1>9
<1> QED  BY <1>3, <1>10, <1>11, RecordStep

LEMMA RecordLinkFunction ==
  ASSUME RecordInv, NEW c \in Profiler!Caller, Profiler!LinkFunction(c)
  PROVE  RecordInv'
<1> DEFINE f == Call(c)
           g == Call(Other(c))
<1>1. PICK w : w = [f EXCEPT !.at = "newarc"]
  OBVIOUS
<1>2. /\ Profiler!At(c, "linkfn") /\ Profiler!Step(c, w)
      /\ fn_head' = f.fn /\ UNCHANGED <<entry, arc, made>>
  BY <1>1, Zenon DEF Profiler!LinkFunction, Profiler!Goto, Call
<1>3. /\ Bucket(fn_head, entry, arc, f, g) /\ f \in Frame /\ f.at = "linkfn"
      /\ made \in [Function \X Site -> Nat] /\ g.at \notin Linking
  BY <1>2, RecordFacts
<1>4. PICK n \in Nat : \E own : Story(fn_head, n, entry, arc, own, f, g, made)
  BY <1>2, RecordFacts
<1>5. PICK own : Story(fn_head, n, entry, arc, own, f, g, made)
  BY <1>4
<1>6. Same(w, f) /\ w.at = "newarc" /\ w.fn = f.fn
  BY <1>1, <1>3, Goes DEF Places, Alone
<1>7. Story(f.fn, n, entry, arc, own, w, g, made)
  BY <1>3, <1>5, <1>6, LinkFunctionStory
<1>8. ProfilerInv' /\ Behind(g, w) /\ made' \in [Function \X Site -> Nat]
  BY <1>2, <1>3, <1>6, ProfilerLinkFunction DEF RecordInv, Behind
<1>9. Story(fn_head', n, entry', arc', own, w, g, made')
  BY <1>2, <1>7
<1> QED  BY <1>2, <1>8, <1>9, RecordStep

LEMMA RecordNewArc ==
  ASSUME RecordInv, NEW c \in Profiler!Caller, Profiler!NewArc(c)
  PROVE  RecordInv'
<1> DEFINE f == Call(c)
           g == Call(Other(c))
<1>1. PICK B : B = Append(arc, [next |-> entry[f.fn].arc_head, from_pc |-> f.from,
                                count |-> 1])
  OBVIOUS
<1>2. PICK w : w = ToArc(f, "linkarc", Len(B))
  OBVIOUS
<1>3. /\ Profiler!At(c, "newarc") /\ Profiler!Step(c, w)
      /\ arc' = B /\ UNCHANGED <<fn_head, entry, made>>
  BY <1>1, <1>2, Zenon DEF Profiler!NewArc, ToArc, Call
<1>4. /\ Bucket(fn_head, entry, arc, f, g) /\ f \in Frame /\ f.at = "newarc"
      /\ made \in [Function \X Site -> Nat] /\ g.at \notin Linking
  BY <1>3, RecordFacts
<1>5. PICK n \in Nat : \E own : Story(fn_head, n, entry, arc, own, f, g, made)
  BY <1>3, RecordFacts
<1>6. PICK own : Story(fn_head, n, entry, arc, own, f, g, made)
  BY <1>5
<1>7. /\ Len(B) = Len(arc) + 1 /\ Len(B) \in Nat
      /\ \A a \in 1..Len(arc) : B[a] = arc[a]
      /\ B[Len(B)].next = entry[f.fn].arc_head /\ B[Len(B)].from_pc = f.from
      /\ B[Len(B)].count = 1
  <2>1. arc \in Seq(ArcBlocks)
    BY <1>4, BucketIs
  <2>2. PICK b : b = [next |-> entry[f.fn].arc_head, from_pc |-> f.from, count |-> 1]
    OBVIOUS
  <2>3. b.next = entry[f.fn].arc_head /\ b.from_pc = f.from /\ b.count = 1
    BY <2>2
  <2>4. B = Append(arc, b)
    BY <1>1, <2>2
  <2>5. Len(B) = Len(arc) + 1 /\ Len(arc) \in Nat /\ B[Len(arc) + 1] = b
        /\ \A a \in 1..Len(arc) : B[a] = arc[a]
    BY <2>1, <2>4
  <2> QED  BY <2>3, <2>5
<1>8. Same(w, f) /\ w.at = "linkarc" /\ w.fn = f.fn /\ w.arc = Len(B)
  <2>1. "linkarc" \in Places
    BY DEF Places, Alone
  <2> QED  BY <2>1, <1>2, <1>4, <1>7, GoesToArc
<1>9. \E z : Story(fn_head, n, entry, B, z, w, g, made)
  BY <1>4, <1>6, <1>7, <1>8, NewArcStory
<1>10. PICK z : Story(fn_head, n, entry, B, z, w, g, made)
  BY <1>9
<1>11. ProfilerInv' /\ Behind(g, w) /\ made' \in [Function \X Site -> Nat]
  BY <1>3, <1>4, <1>8, ProfilerNewArc DEF RecordInv, Behind
<1>12. Story(fn_head', n, entry', arc', z, w, g, made')
  BY <1>3, <1>10
<1> QED  BY <1>3, <1>11, <1>12, RecordStep

LEMMA RecordLinkArc ==
  ASSUME RecordInv, NEW c \in Profiler!Caller, Profiler!LinkArc(c)
  PROVE  RecordInv'
<1> DEFINE f == Call(c)
           g == Call(Other(c))
<1>1. PICK F : F = [entry EXCEPT ![f.fn].arc_head = f.arc]
  OBVIOUS
<1>2. PICK w : w = [f EXCEPT !.at = "return"]
  OBVIOUS
<1>3. /\ Profiler!At(c, "linkarc") /\ Profiler!Step(c, w)
      /\ entry' = F /\ UNCHANGED <<fn_head, arc, made>>
  BY <1>1, <1>2, Zenon DEF Profiler!LinkArc, Profiler!Goto, Call
<1>4. /\ Bucket(fn_head, entry, arc, f, g) /\ f \in Frame /\ f.at = "linkarc"
      /\ made \in [Function \X Site -> Nat] /\ g.at \notin Linking
  BY <1>3, RecordFacts
<1>5. PICK n \in Nat : \E own : Story(fn_head, n, entry, arc, own, f, g, made)
  BY <1>3, RecordFacts
<1>6. PICK own : Story(fn_head, n, entry, arc, own, f, g, made)
  BY <1>5
<1>7. Same(w, f) /\ w.at = "return" /\ w.fn = f.fn
  BY <1>2, <1>4, Goes DEF Places
<1>8. /\ Len(F) = Len(entry)
      /\ \A e \in 1..Len(entry) : F[e].next = entry[e].next /\ F[e].self_pc = entry[e].self_pc
      /\ \A e \in 1..Len(entry) : F[e].arc_head = IF e = f.fn THEN f.arc ELSE entry[e].arc_head
  <2>1. /\ entry \in Seq(Blocks) /\ f.fn \in 1..Len(entry) /\ f.arc \in Nat
        /\ entry[f.fn] \in Blocks
    <3>1. f.fn \in 1..Len(entry) /\ f.arc \in Nat
      BY <1>4, <1>6, StoryIs DEF Linking
    <3> QED  BY <3>1, <1>4, BucketIs
  <2>2. PICK b : b = [entry[f.fn] EXCEPT !.arc_head = f.arc]
    OBVIOUS
  <2>3. F = [entry EXCEPT ![f.fn] = b]
    BY <1>1, <2>2, Zenon
  <2>4. b.next = entry[f.fn].next /\ b.self_pc = entry[f.fn].self_pc /\ b.arc_head = f.arc
    BY <2>1, <2>2, HeadBecomes
  <2>5. Len(F) = Len(entry) /\ \A e \in 1..Len(entry) : F[e] = IF e = f.fn THEN b ELSE entry[e]
    BY <2>1, <2>3
  <2> QED  BY <2>4, <2>5
<1>9. Story(fn_head, n + 1, F, arc, own, w, g, made)
  BY <1>4, <1>6, <1>7, <1>8, LinkArcStory
<1>10. ProfilerInv' /\ Behind(g, w) /\ made' \in [Function \X Site -> Nat]
  BY <1>3, <1>4, <1>7, ProfilerLinkArc DEF RecordInv, Behind
<1>11. Story(fn_head', n + 1, entry', arc', own, w, g, made') /\ n + 1 \in Nat
  BY <1>3, <1>9
<1> QED  BY <1>3, <1>10, <1>11, RecordStep

LEMMA RecordReturn ==
  ASSUME RecordInv, NEW c \in Profiler!Caller, Profiler!Return(c)
  PROVE  RecordInv'
<1> DEFINE f == Call(c)
           g == Call(Other(c))
<1>1. PICK w : w = [Profiler!Idle EXCEPT !.calls = f.calls]
  OBVIOUS
<1>2. /\ Profiler!At(c, "return") /\ Profiler!Step(c, w)
      /\ made' = [made EXCEPT ![<<f.self, f.from>>] = @ + 1]
      /\ UNCHANGED <<fn_head, entry, arc>>
  BY <1>1, Zenon DEF Profiler!Return, Call
<1>3. /\ Bucket(fn_head, entry, arc, f, g) /\ f \in Frame /\ f.at = "return"
      /\ made \in [Function \X Site -> Nat]
  BY <1>2, RecordFacts
<1>4. PICK n \in Nat : \E own : Story(fn_head, n, entry, arc, own, f, g, made)
  BY <1>2, RecordFacts
<1>5. PICK own : Story(fn_head, n, entry, arc, own, f, g, made)
  BY <1>4
<1>6. f.calls \in Nat /\ f.self \in Function /\ f.from \in Site
  BY <1>3, FrameIs, BucketIs DEF Sound
<1>7. w.at = "idle" /\ w.fn = 0
  BY <1>1, <1>6, Ends
<1>8. Known(fn_head, n, entry, arc, own, w)
  <2>1. fn_head \in Nat
    BY <1>3, BucketIs
  <2> QED  BY <2>1, <1>7 DEF Known, Counting, Linking
<1>9. PICK K : K = [made EXCEPT ![<<f.self, f.from>>] = @ + 1]
  OBVIOUS
<1>10. Story(fn_head, n, entry, arc, own, w, g, K) /\ K \in [Function \X Site -> Nat]
  <2>1. Story(fn_head, n, entry, arc, own, w, g, K)
    BY <1>3, <1>5, <1>6, <1>7, <1>8, <1>9, ReturnStory
  <2>2. K \in [Function \X Site -> Nat]
    BY <1>3, <1>6, <1>9
  <2> QED  BY <2>1, <2>2
<1>11. ProfilerInv' /\ Behind(g, w)
  BY <1>7, ProfilerReturn DEF RecordInv, Behind
<1>12. Story(fn_head', n, entry', arc', own, w, g, made') /\ made' \in [Function \X Site -> Nat]
  BY <1>2, <1>9, <1>10
<1> QED  BY <1>2, <1>11, <1>12, RecordStep

LEMMA RecordNext == ASSUME RecordInv, Profiler!Next PROVE RecordInv'
BY Zenon, RecordMcount, RecordFindFunction, RecordFindArc, RecordLoadCount, RecordStoreCount,
   RecordRecord, RecordNewFunction, RecordLinkFunction, RecordNewArc, RecordLinkArc, RecordReturn
   DEF Profiler!Next

LEMMA RecordStill == ASSUME RecordInv, UNCHANGED profilerVars PROVE RecordInv'
<1>1. ProfilerInv'
  BY ProfilerStill DEF RecordInv
<1> QED  BY <1>1 DEF RecordInv, profilerVars, Call

LEMMA RecordInit == ASSUME Profiler!Init PROVE RecordInv
<1>1. ProfilerInv
  BY ProfilerInit
<1>2. PICK z : z = Profiler!Idle
  OBVIOUS
<1>3. z.at = "idle" /\ z.fn = 0
  <2>1. PICK b : /\ b = FALSE
                 /\ Profiler!Idle = [at |-> "idle", self |-> 0, from |-> 0, fn |-> 0, arc |-> 0,
                                     count |-> 0, context |-> b, calls |-> 0]
    BY IdleIs
  <2> QED  BY <2>1, <1>2
<1>4. fn_head = 0 /\ entry = <<>> /\ arc = <<>> /\ made = [p \in Function \X Site |-> 0]
  BY DEF Profiler!Init, Profiler!NULL
<1>5. Call("program") = z /\ Call("routine") = z
  BY <1>2 DEF Profiler!Init, Profiler!Caller, Call
<1> DEFINE own == [a \in 1..0 |-> 0]
<1>6. Tied(0, 0, <<>>, <<>>, own)
  BY DEF Tied
<1>7. Sizes(0, 0, <<>>, <<>>, z, z) /\ Known(0, 0, <<>>, <<>>, own, z)
  BY <1>3 DEF Sizes, Known, Counting, Linking
<1>8. ASSUME NEW s \in Function, NEW t \in Site
      PROVE  Kept(s, t, 0, <<>>, <<>>, own, z, z, made[<<s, t>>])
  <2>1. made[<<s, t>>] = 0
    BY <1>4
  <2>2. Flying(z, s, t) = 0 /\ ~Returning(z, s, t)
    BY <1>3 DEF Flying, Returning
  <2>3. Summed(s, t, <<>>, <<>>, own, 0)
    <3> DEFINE S == [i \in 0..0 |-> 0]
    <3>1. S \in [0..Len(<<>>) -> Nat] /\ S[Len(<<>>)] <= 0 /\ 1..Len(<<>>) = {}
      OBVIOUS
    <3> QED  BY <3>1 DEF Summed
  <2>4. 0 + 0 + 0 = 0 /\ ~(0 > 0)
    OBVIOUS
  <2> QED  BY <2>1, <2>2, <2>3, <2>4, Zenon DEF Kept
<1> HIDE DEF own
<1>9. Story(0, 0, <<>>, <<>>, own, z, z, made)
  BY <1>6, <1>7, <1>8, Zenon DEF Story
<1>10. made \in [Function \X Site -> Nat] /\ Behind(z, z)
  BY <1>3, <1>4 DEF Behind
<1>11. 0 \in Nat
  OBVIOUS
<1> QED  BY <1>1, <1>4, <1>5, <1>9, <1>10, <1>11, Zenon DEF RecordInv

\* All of the entries are on the list of the bucket.
LEMMA ChainAll ==
  ASSUME NEW n \in Nat, NEW X, \A x \in 1..n : X[x].next = x - 1,
         NEW C, C = ChainOf(X, n)
  PROVE  \A h \in 0..n : C[h] = 1..h
<1>1. \A x \in 1..n : X[x].next \in Nat /\ X[x].next < x
  OBVIOUS
<1>2. C[0] = {} /\ \A x \in 1..n : C[x] = {x} \cup C[X[x].next]
  BY <1>1, ChainIs
<1> DEFINE S == {x \in 0..n : C[x] = 1..x}
<1>3. ASSUME NEW x \in 0..n, \A y \in 0..n : y < x => y \in S PROVE x \in S
  <2>1. CASE x = 0
    BY <2>1, <1>2
  <2>2. CASE x # 0
    <3>1. PICK y : y = x - 1
      OBVIOUS
    <3>2. y \in 0..n /\ y < x /\ C[x] = {x} \cup C[y]
      BY <2>2, <3>1, <1>2
    <3>3. C[y] = 1..y
      BY <3>2, <1>3
    <3>4. {x} \cup 1..y = 1..x
      BY <2>2, <3>1
    <3> QED  BY <3>2, <3>3, <3>4
  <2> QED  BY <2>1, <2>2
<1> HIDE DEF S
<1>4. 0..n \subseteq S
  BY <1>3, ChainInduction
<1> QED  BY <1>4 DEF S

\* The arcs on the lists are those of their entries.
LEMMA ChainOwned ==
  ASSUME NEW N \in Nat, NEW X, \A x \in 1..N : X[x].next \in Nat /\ X[x].next < x,
         NEW C, C[0] = {}, \A x \in 1..N : C[x] = {x} \cup C[X[x].next],
         NEW own, \A a \in 1..N : X[a].next # 0 => own[X[a].next] = own[a]
  PROVE  \A x \in 1..N : C[x] \subseteq 1..N /\ \A a \in C[x] : own[a] = own[x]
<1> DEFINE S == {x \in 0..N : x # 0 => C[x] \subseteq 1..N /\ \A a \in C[x] : own[a] = own[x]}
<1>1. ASSUME NEW x \in 0..N, \A y \in 0..N : y < x => y \in S PROVE x \in S
  <2>1. CASE x = 0
    BY <2>1
  <2>2. CASE x # 0
    <3>1. PICK y : y = X[x].next
      OBVIOUS
    <3>2. y \in 0..N /\ y < x /\ C[x] = {x} \cup C[y] /\ (y # 0 => own[y] = own[x])
      BY <2>2, <3>1
    <3>3. CASE y = 0
      BY <2>2, <3>2, <3>3
    <3>4. CASE y # 0
      BY <2>2, <3>2, <3>4, <1>1
    <3> QED  BY <3>3, <3>4
  <2> QED  BY <2>1, <2>2
<1> HIDE DEF S
<1>2. 0..N \subseteq S
  BY <1>1, ChainInduction
<1> QED  BY <1>2 DEF S

\* And the first n of them are all there.
Headed(N, X, C, n, own, head) ==
  /\ N \in Nat /\ \A x \in 1..N : X[x].next \in Nat /\ X[x].next < x
  /\ C = ChainOf(X, N) /\ n \in Nat /\ n <= N
  /\ \A a \in 1..n : head[own[a]] \in 0..N
  /\ \A a \in 1..N : X[a].next # 0 => own[X[a].next] = own[a]
  /\ \A a \in 1..n : head[own[a]] = a \/ \E b \in 1..n : X[b].next = a

LEMMA ChainLinked ==
  ASSUME NEW N, NEW X, NEW C, NEW n, NEW own, NEW head, Headed(N, X, C, n, own, head)
  PROVE  \A a \in 1..n : a \in C[head[own[a]]]
<1>1. /\ N \in Nat /\ \A x \in 1..N : X[x].next \in Nat /\ X[x].next < x
      /\ C = ChainOf(X, N) /\ n \in Nat /\ n <= N
      /\ \A a \in 1..n : head[own[a]] \in 0..N
      /\ \A a \in 1..N : X[a].next # 0 => own[X[a].next] = own[a]
      /\ \A a \in 1..n : head[own[a]] = a \/ \E b \in 1..n : X[b].next = a
  BY DEF Headed
<1>2. N \in Nat /\ (\A x \in 1..N : X[x].next \in Nat /\ X[x].next < x) /\ C = ChainOf(X, N)
  BY <1>1
<1>3. \A x \in 1..N : C[x] = {x} \cup C[X[x].next]
  BY <1>2, ChainIs
<1>4. \A h \in 0..N : \A a \in C[h] : X[a].next # 0 => X[a].next \in C[h]
  BY <1>2, ChainFollows
<1> DEFINE On(a) == a \in C[head[own[a]]]
           S == {i \in 0..n : i # 0 => On((n + 1) - i)}
<1>5. ASSUME NEW i \in 0..n, \A j \in 0..n : j < i => j \in S PROVE i \in S
  <2>1. CASE i = 0
    BY <2>1
  <2>2. CASE i # 0
    <3>1. PICK a : a = (n + 1) - i
      OBVIOUS
    <3>2. a \in 1..n /\ a \in 1..N
      BY <1>1, <2>2, <3>1
    <3>3. ASSUME head[own[a]] = a PROVE On(a)
      BY <1>1, <3>2, <3>3, <1>3
    <3>4. ASSUME NEW b \in 1..n, X[b].next = a PROVE On(a)
      <4>1. b \in 1..N /\ a < b /\ own[a] = own[b]
        BY <1>1, <3>2, <3>4
      <4>2. PICK j : j = (n + 1) - b
        OBVIOUS
      <4>3. j \in 0..n /\ j < i /\ j # 0 /\ (n + 1) - j = b
        BY <1>1, <3>1, <3>2, <4>1, <4>2
      <4>4. On(b)
        BY <4>3, <1>5
      <4>5. head[own[b]] \in 0..N
        BY <1>1
      <4>6. a \in C[head[own[b]]]
        BY <3>2, <3>4, <4>4, <4>5, <1>4
      <4> QED  BY <4>1, <4>6
    <3>5. On(a)
      BY <1>1, <3>2, <3>3, <3>4
    <3>6. On((n + 1) - i)
      BY <3>1, <3>5
    <3> HIDE DEF On
    <3> QED  BY <3>6
  <2> QED  BY <2>1, <2>2
<1> HIDE DEF S, On
<1>6. 0..n \subseteq S
  BY <1>1, <1>5, ChainInduction
<1>7. ASSUME NEW a \in 1..n PROVE On(a)
  <2>1. PICK i : i = (n + 1) - a
    OBVIOUS
  <2>2. i \in 0..n /\ i # 0 /\ (n + 1) - i = a
    BY <1>1, <2>1
  <2>3. On((n + 1) - i)
    BY <2>2, <1>6 DEF S
  <2> QED  BY <2>2, <2>3
<1> QED  BY <1>7 DEF On

LEMMA RecordedIs == ASSUME RecordInv PROVE Recorded
<1> DEFINE p == Call("program")
           r == Call("routine")
           N == Len(arc)
           E == Profiler!Entries
           A == Profiler!Arcs
<1>1. Bucket(fn_head, entry, arc, p, r) /\ made \in [Function \X Site -> Nat]
  BY DEF RecordInv, ProfilerInv, Call
<1>2. PICK n \in Nat : \E own : Story(fn_head, n, entry, arc, own, p, r, made)
  BY DEF RecordInv
<1>3. PICK own : Story(fn_head, n, entry, arc, own, p, r, made)
  BY <1>2
<1>4. /\ fn_head \in 0..Len(entry) /\ Len(entry) \in Nat /\ N \in Nat /\ n <= N
      /\ own \in [1..N -> 1..fn_head]
      /\ \A a \in 1..N : own[a] \in 1..fn_head
      /\ \A a \in 1..N : arc[a].next \in Nat /\ arc[a].next < a /\ arc[a].count \in Nat
      /\ \A e \in 1..Len(entry) : entry[e].next = e - 1 /\ entry[e].next \in Nat /\ entry[e].next < e
      /\ \A e \in 1..Len(entry) : entry[e].arc_head \in 0..n
      /\ \A e \in 1..Len(entry) : entry[e].arc_head # 0 => own[entry[e].arc_head] = e
      /\ \A a \in 1..N : arc[a].next # 0 => own[arc[a].next] = own[a]
      /\ \A a \in 1..n : entry[own[a]].arc_head = a \/ \E b \in 1..n : arc[b].next = a
  <2>1. /\ fn_head \in 0..Len(entry) /\ Len(entry) \in Nat /\ N \in Nat
        /\ \A a \in 1..N : arc[a].next \in Nat /\ arc[a].next < a
        /\ \A e \in 1..Len(entry) : entry[e].next \in Nat /\ entry[e].next < e
    BY <1>1, BucketIs
  <2>2. /\ n <= N /\ \A a \in 1..N : own[a] \in 1..fn_head
        /\ \A a \in 1..N : arc[a].count \in Nat
    BY <1>1, <1>3, StoryIs
  <2> QED  BY <2>1, <2>2, <1>3 DEF Story, Tied
<1>5. E = ChainOf(entry, Len(entry))
  BY DEF ChainOf, Profiler!Entries, Profiler!NULL, ChainBody
<1>6. A = ChainOf(arc, N)
  BY DEF ChainOf, Profiler!Arcs, Profiler!NULL, ChainBody
<1> HIDE DEF E, A
<1>7. E[fn_head] = 1..fn_head
  <2>1. PICK m, X, C : m = Len(entry) /\ X = entry /\ C = E
    OBVIOUS
  <2>2. m \in Nat /\ \A x \in 1..m : X[x].next = x - 1
    BY <1>4, <2>1
  <2>3. C = ChainOf(X, m)
    BY <1>5, <2>1
  <2>4. \A h \in 0..m : C[h] = 1..h
    BY <2>2, <2>3, ChainAll
  <2> QED  BY <1>4, <2>1, <2>4
<1> HIDE DEF N
<1>8. PICK X, C : X = arc /\ C = A
  OBVIOUS
<1>9. /\ N \in Nat /\ \A x \in 1..N : X[x].next \in Nat /\ X[x].next < x
      /\ C = ChainOf(X, N)
  BY <1>8, <1>4, <1>6
<1>10. \A a \in 1..N : X[a].next # 0 => own[X[a].next] = own[a]
  BY <1>8, <1>4
<1>11. A[0] = {} /\ \A x \in 1..N : A[x] = {x} \cup A[arc[x].next]
  <2>1. C[0] = {} /\ \A x \in 1..N : C[x] = {x} \cup C[X[x].next]
    BY <1>9, ChainIs
  <2> QED  BY <1>8, <2>1
<1>12. \A x \in 1..N : A[x] \subseteq 1..N /\ \A a \in A[x] : own[a] = own[x]
  <2>1. C[0] = {} /\ \A x \in 1..N : C[x] = {x} \cup C[X[x].next]
    BY <1>8, <1>11
  <2>2. \A x \in 1..N : C[x] \subseteq 1..N /\ \A a \in C[x] : own[a] = own[x]
    BY <1>9, <1>10, <2>1, ChainOwned
  <2> QED  BY <1>8, <2>2
<1>13. \A a \in 1..n : a \in A[entry[own[a]].arc_head]
  <2>1. PICK head : head = [e \in 1..fn_head |-> entry[e].arc_head]
    OBVIOUS
  <2>2. \A a \in 1..n : head[own[a]] = entry[own[a]].arc_head /\ head[own[a]] \in 0..N
    BY <2>1, <1>4
  <2>3. n \in Nat /\ n <= N /\ \A a \in 1..n : head[own[a]] \in 0..N
    BY <2>2, <1>4
  <2>4. \A a \in 1..n : head[own[a]] = a \/ \E b \in 1..n : arc[b].next = a
    BY <2>2, <1>4
  <2>5. \A a \in 1..n : head[own[a]] = a \/ \E b \in 1..n : X[b].next = a
    BY <1>8, <2>4
  <2>6. \A a \in 1..n : a \in C[head[own[a]]]
    <3>1. Headed(N, X, C, n, own, head)
      BY <2>3, <2>5, <1>9, <1>10 DEF Headed
    <3> QED  BY <3>1, ChainLinked
  <2> QED  BY <1>8, <2>2, <2>6
<1>14. ASSUME NEW self \in Function, NEW from \in Site
       PROVE  /\ \A a \in 1..n : Of(self, from, entry, arc, own, a) =>
                                   a \in Profiler!Copies(self, from)
              /\ \A a \in Profiler!Copies(self, from) :
                   a \in 1..N /\ Of(self, from, entry, arc, own, a)
  <2>1. Profiler!Copies(self, from) =
          UNION {{a \in A[entry[e].arc_head] : arc[a].from_pc = from} :
                 e \in {f \in 1..fn_head : entry[f].self_pc = self}}
    BY <1>7 DEF Profiler!Copies, E, A
  <2>2. ASSUME NEW a \in 1..n, Of(self, from, entry, arc, own, a)
        PROVE  a \in Profiler!Copies(self, from)
    <3>1. own[a] \in 1..fn_head /\ entry[own[a]].self_pc = self /\ arc[a].from_pc = from
      BY <2>2, <1>4 DEF Of
    <3>2. a \in A[entry[own[a]].arc_head]
      BY <1>13
    <3>3. own[a] \in {f \in 1..fn_head : entry[f].self_pc = self}
      BY <3>1
    <3>4. a \in {b \in A[entry[own[a]].arc_head] : arc[b].from_pc = from}
      BY <3>1, <3>2
    <3> QED  BY <2>1, <3>3, <3>4
  <2>3. ASSUME NEW a \in Profiler!Copies(self, from)
        PROVE  a \in 1..N /\ Of(self, from, entry, arc, own, a)
    <3>1. PICK e \in 1..fn_head : /\ entry[e].self_pc = self /\ a \in A[entry[e].arc_head]
                                  /\ arc[a].from_pc = from
      BY <2>1
    <3>2. entry[e].arc_head \in 0..n /\ (entry[e].arc_head # 0 => own[entry[e].arc_head] = e)
      BY <1>4
    <3>3. entry[e].arc_head # 0
      BY <3>1, <1>11
    <3>4. entry[e].arc_head \in 1..N
      BY <3>2, <3>3, <1>4
    <3>5. a \in 1..N /\ own[a] = e
      BY <3>1, <3>2, <3>3, <3>4, <1>12
    <3> QED  BY <3>1, <3>5 DEF Of
  <2> QED  BY <2>2, <2>3
<1>15. ASSUME NEW self \in Function, NEW from \in Site, made[self, from] > 0
       PROVE  Profiler!Copies(self, from) # {}
  <2>1. Copied(self, from, n, entry, arc, own)
    BY <1>3, <1>15 DEF Story, Kept
  <2> QED  BY <2>1, <1>14 DEF Copied
<1>16. ASSUME NEW self \in Function, NEW from \in Site,
              \A c \in Profiler!Caller : mcount_call[c].at = "idle"
       PROVE  Profiler!Counted(self, from) <= made[self, from]
  <2>1. PICK K : K = Profiler!Copies(self, from)
    OBVIOUS
  <2>2. PICK m : m = made[<<self, from>>]
    OBVIOUS
  <2>3. Summed(self, from, entry, arc, own, m)
    <3>1. p.at = "idle" /\ r.at = "idle"
      BY <1>16 DEF Call, Profiler!Caller
    <3>2. Flying(p, self, from) = 0 /\ Flying(r, self, from) = 0
      BY <3>1 DEF Flying
    <3>3. Summed(self, from, entry, arc, own, m + 0 + 0)
      BY <1>3, <2>2, <3>2 DEF Story, Kept
    <3>4. m + 0 + 0 = m
      BY <1>1, <2>2
    <3> QED  BY <3>3, <3>4
  <2>4. PICK S \in [0..N -> Nat] :
          /\ \A a \in 1..N :
               S[a] >= S[a - 1] + (IF Of(self, from, entry, arc, own, a) THEN arc[a].count ELSE 0)
          /\ S[N] <= m
    BY <2>3, Zenon DEF Summed, N
  <2>5. K \in SUBSET (1..N) /\ \A a \in K : Of(self, from, entry, arc, own, a)
    BY <1>14, <2>1
  <2>6. IsFiniteSet(K) /\ \A a \in K : arc[a].count \in Nat
    <3>1. IsFiniteSet(1..N)
      BY <1>4, FS_Interval
    <3>2. IsFiniteSet(K)
      BY <2>5, <3>1, FS_Subset
    <3> QED  BY <2>5, <3>2, <1>4
  <2>7. PICK w : w = [a \in K |-> arc[a].count]
    OBVIOUS
  <2>8. PICK g : g = SumBody(K, w, g) /\ Profiler!Counted(self, from) = g[K]
    <3> DEFINE B(F) == [s \in SUBSET K |->
                          IF s = {} THEN 0 ELSE arc[CHOOSE x \in s : TRUE].count
                                                  + F[s \ {CHOOSE x \in s : TRUE}]]
    <3>1. Profiler!Counted(self, from) = Profiler!MapThenSumSet(LAMBDA a : arc[a].count, K)
      BY <2>1 DEF Profiler!Counted
    <3>2. Profiler!MapThenSumSet(LAMBDA a : arc[a].count, K) = (CHOOSE F : F = B(F))[K]
      BY DEF Profiler!MapThenSumSet, Profiler!MapThenFoldSet
    <3>3. ASSUME NEW F PROVE B(F) = SumBody(K, w, F)
      <4>1. ASSUME NEW s \in SUBSET K, s # {}
            PROVE  arc[CHOOSE x \in s : TRUE].count = w[CHOOSE x \in s : TRUE]
        <5>1. (CHOOSE x \in s : TRUE) \in K
          BY <4>1
        <5> QED  BY <5>1, <2>7
      <4> QED  BY <4>1 DEF SumBody
    <3>4. \E F : F = SumBody(K, w, F)
      BY <2>6, <2>7, SumExists
    <3> HIDE DEF B
    <3>5. PICK g : g = CHOOSE F : F = B(F)
      OBVIOUS
    <3>6. \E F : F = B(F)
      BY <3>3, <3>4
    <3>7. g = B(g)
      BY <3>5, <3>6, Zenon
    <3> QED  BY <3>1, <3>2, <3>3, <3>5, <3>7
  <2>9. /\ g[{}] = 0
        /\ \A s \in SUBSET K : g[s] \in Nat /\ \A x \in s : g[s] = w[x] + g[s \ {x}]
    <3>1. Totals(K, w, g)
      BY <2>6, <2>7, <2>8 DEF Totals
    <3>2. SumsUp(K, w, g)
      BY <3>1, SumTakes
    <3> QED  BY <3>2 DEF SumsUp
  <2>10. /\ \A a \in 1..N : S[a] >= S[a - 1]
         /\ \A a \in K : S[a] >= S[a - 1] + arc[a].count
    <3>1. ASSUME NEW a \in 1..N PROVE S[a] >= S[a - 1]
      <4>1. PICK x : x = (IF Of(self, from, entry, arc, own, a) THEN arc[a].count ELSE 0)
        OBVIOUS
      <4>2. x \in Nat /\ S[a] >= S[a - 1] + x
        BY <4>1, <2>4, <1>4
      <4>3. S[a] \in Nat /\ S[a - 1] \in Nat
        <5>1. a \in 0..N /\ a - 1 \in 0..N
          BY <1>4
        <5> QED  BY <5>1
      <4> QED  BY <4>2, <4>3
    <3>2. ASSUME NEW a \in K PROVE S[a] >= S[a - 1] + arc[a].count
      BY <2>4, <2>5, Zenon
    <3> QED  BY <3>1, <3>2
  <2>11. g[K] <= S[N]
    <3>1. \A a \in K : w[a] \in Nat /\ S[a] >= S[a - 1] + w[a]
      BY <2>6, <2>7, <2>10
    <3>2. Rising(N, K, w, g, S)
      BY <2>5, <2>6, <2>9, <2>10, <3>1, <1>9 DEF Rising
    <3> QED  BY <3>2, SumBound
  <2>12. g[K] \in Nat /\ S[N] \in Nat /\ m \in Nat /\ m = made[self, from]
    <3>1. K \in SUBSET K /\ N \in 0..N
      BY <1>4
    <3>2. g[K] \in Nat
      BY <2>9, <3>1
    <3>3. S[N] \in Nat
      BY <2>4, <3>1
    <3>4. <<self, from>> \in Function \X Site
      OBVIOUS
    <3>5. m \in Nat
      BY <1>1, <2>2, <3>4, Zenon
    <3> QED  BY <2>2, <3>2, <3>3, <3>5
  <2>13. PICK x, y : x = g[K] /\ y = S[N]
    OBVIOUS
  <2>14. x \in Nat /\ y \in Nat /\ m \in Nat /\ x <= y /\ y <= m
    BY <2>4, <2>11, <2>12, <2>13
  <2>15. x <= m
    BY <2>14
  <2> QED  BY <2>8, <2>12, <2>13, <2>15
<1> QED  BY <1>15, <1>16 DEF Recorded, Profiler!Recorded

(***************************************************************************)
(* For any number of functions, sites and calls, and interrupts wherever   *)
(* they are on: a call of mcount that has returned has left its arc where  *)
(* the host finds it, and no arc, with its copies, counts more calls than  *)
(* were made.  (It may count fewer: see CountsCalls in the README.)        *)
(***************************************************************************)
THEOREM ArcsRecorded == Spec => []Recorded
<1>1. Init => RecordInv
  BY PartsStart, RecordInit
<1>2. RecordInv /\ [Next]_vars => RecordInv'
  BY PartsStep, RecordNext, RecordStill
<1>3. RecordInv => Recorded
  BY RecordedIs
<1> QED  BY <1>1, <1>2, <1>3, PTL DEF Spec
=============================================================================
