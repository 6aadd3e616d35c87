--------------------------- MODULE Support_proofs ---------------------------
(***************************************************************************)
(* The support code in which calls follow one another, for a heap, a pool, *)
(* a clock and a cache of any size.                                        *)
(***************************************************************************)
EXTENDS Support, SetSums_proofs

-----------------------------------------------------------------------------
(***************************************************************************)
(* A step of the whole is a step of one part, and the others keep still:   *)
(* what holds of a part's steps holds of the behaviours of the whole.      *)
(***************************************************************************)
LEMMA PartsStart ==
  ASSUME SupportInit
  PROVE  Init /\ Files!Init /\ Clock!Init /\ Sleep!Init /\ Cache!Init /\ Oscillator!Init
  BY DEF SupportInit

LEMMA PartsStep ==
  ASSUME [SupportNext]_supportVars
  PROVE  /\ [Next]_vars /\ [Files!Next]_fileVars /\ [Clock!Next]_clockVars
         /\ [Sleep!Next]_sleepVars /\ [Cache!Next]_cacheVars
         /\ [Oscillator!Next]_oscillatorVars
  BY DEF SupportNext, supportVars, heapVars, Files_Next, In

-----------------------------------------------------------------------------
(***************************************************************************)
(* The heap.  The invariant: who is inside the region that runs with       *)
(* interrupts off, and what is known of heap_end at each point there.      *)
(***************************************************************************)
Point == {"idle", "lock", "align", "check", "take", "extend", "unlock"}
Calls == [at : Point, incr : Increments \cup {0}, context : BOOLEAN, prev : Nat]

\* Within the region that runs with interrupts off.
Inside(c) == call[c].at \in {"align", "check", "take", "extend", "unlock"}

\* The routine never finds the program inside, nor the program the routine at
\* all.
Exclusion ==
  /\ call["routine"].at # "idle" => ~PIE /\ ~Inside("program")
  /\ Inside("program") => ~PIE

Below(b) == b.from <= b.to /\ b.to <= heap_end

\* What is known of heap_end at each point inside.
Progress ==
  \A c \in Caller :
    /\ call[c].at \in {"check", "take", "extend"} => heap_end % 4 = 0
    /\ call[c].at \in {"take", "extend"} => heap_end + call[c].incr <= HeapLimit
    /\ call[c].at = "extend" => call[c].prev = heap_end

Bounded == heap_end <= HeapLimit \/ heap_end % 4 = 0

IInv ==
  /\ TypeOK /\ Exclusion /\ Progress /\ Bounded /\ Disjoint /\ InHeap
  /\ \A b \in blocks : Below(b)

LEMMA AlignUp ==
  ASSUME NEW a \in Nat
  PROVE /\ WordAligned(a) \in Nat /\ WordAligned(a) % 4 = 0
        /\ a <= WordAligned(a) /\ WordAligned(a) <= a + 3
        /\ a % 4 = 0 => WordAligned(a) = a
  BY SMT DEF WordAligned

LEMMA CallFields ==
  ASSUME TypeOK, NEW c \in Caller
  PROVE /\ call[c].incr \in Nat /\ call[c].prev \in Nat /\ call[c].context \in BOOLEAN
        /\ call[c].at \in Point /\ heap_end \in Nat
<1>1. call[c] \in Calls
      BY DEF TypeOK, Calls, Point
<1>2. Increments \cup {0} \subseteq Nat
      BY HeapAssumption
<1>3. heap_end \in Nat
      BY HeapAssumption DEF TypeOK
<1>4. QED
      BY <1>1, <1>2, <1>3 DEF Calls

\* Whoever is inside is alone there, and interrupts are off.
LEMMA Alone ==
  ASSUME IInv, NEW c \in Caller, Runs(c), Inside(c)
  PROVE ~PIE /\ \A d \in Caller : d # c => ~Inside(d)
  BY DEF IInv, Exclusion, Runs, Inside, Caller

\* A step of c inside, after which c is inside still: what must be shown of it.
LEMMA InsideStep ==
  ASSUME IInv, NEW c \in Caller, Runs(c), Inside(c) \/ call[c].at = "lock",
         NEW new \in Calls, new.at # "idle", call' = [call EXCEPT ![c] = new], ~PIE'
  PROVE /\ call' \in [Caller -> Calls] /\ Exclusion'
        /\ call'[c] = new /\ \A d \in Caller : d # c => ~Inside(d)'
<1>1. /\ call'[c] = new /\ \A d \in Caller : d # c => call'[d] = call[d]
      BY DEF IInv, TypeOK
<1>2. \A d \in Caller : d # c => ~Inside(d)
      BY DEF IInv, Exclusion, Runs, Inside, Caller
<1>3. Exclusion'
      BY <1>1, <1>2 DEF IInv, Exclusion, Runs, Inside, Caller
<1>4. QED
      BY <1>1, <1>2, <1>3 DEF IInv, TypeOK, Inside, Calls, Point

\* IInv holds initially.
LEMMA SbrkInit == Init => IInv
<1> SUFFICES ASSUME Init PROVE IInv
    OBVIOUS
<1>1. Idle \in Calls
      BY DEF Idle, Calls, Point
<1>2. TypeOK
      BY <1>1, HeapAssumption DEF Init, TypeOK, Calls, Point
<1>3. \A c \in Caller : call[c].at = "idle"
      BY DEF Init, Idle
<1>4. Exclusion /\ Progress /\ Bounded
      BY <1>3, HeapAssumption DEF Init, Exclusion, Progress, Bounded, Inside, Caller
<1>5. QED
      BY <1>2, <1>4 DEF Init, IInv, Disjoint, InHeap

\* Every step preserves IInv.
LEMMA SbrkStep == IInv /\ [Next]_vars => IInv'
<1> SUFFICES ASSUME IInv, [Next]_vars PROVE IInv'
    OBVIOUS
<1> USE HeapAssumption
<1>0. CASE UNCHANGED vars
      BY <1>0 DEF vars, IInv, TypeOK, Exclusion, Progress, Bounded, Disjoint, InHeap, Below, Inside
<1>1. ASSUME NEW c \in Caller, NEW incr \in Increments, Call(c, incr) PROVE IInv'
  <2> DEFINE new == [Idle EXCEPT !.at = "lock", !.incr = incr]
  <2>1. new \in Calls /\ new.at = "lock"
        BY DEF Idle, Calls, Point
  <2>2. call' = [call EXCEPT ![c] = new] /\ UNCHANGED <<heap_end, blocks>>
        BY <1>1 DEF Call
  <2> HIDE DEF new
  <2>3. call' \in [Caller -> Calls] /\ call'[c] = new /\ \A d \in Caller : d # c => call'[d] = call[d]
        BY <2>1, <2>2 DEF IInv, TypeOK, Calls, Point
  <2>4. PIE' \in BOOLEAN /\ (c = "routine" => ~PIE' /\ PIE) /\ (c = "program" => PIE' = PIE)
        BY <1>1 DEF Call, Caller, IInv, TypeOK
  <2>5. Exclusion'
        BY <1>1, <2>1, <2>3, <2>4 DEF IInv, Exclusion, Inside, Call, At, Runs, Caller
  <2>6. Progress'
        BY <2>1, <2>2, <2>3 DEF IInv, Progress
  <2>7. QED
        BY <2>2, <2>3, <2>4, <2>5, <2>6 DEF IInv, TypeOK, Bounded, Calls, Point, Disjoint, InHeap, Below
<1>2. ASSUME NEW c \in Caller, Lock(c) PROVE IInv'
  <2> DEFINE new == [[call[c] EXCEPT !.at = "align"] EXCEPT !.context = PIE]
  <2>1. new \in Calls /\ new.at = "align"
        BY DEF IInv, TypeOK, Calls, Point
  <2>2. call' = [call EXCEPT ![c] = new] /\ UNCHANGED <<heap_end, blocks>> /\ ~PIE' /\ PIE' \in BOOLEAN
        BY <1>2 DEF Lock, IInv, TypeOK
  <2> HIDE DEF new
  <2>3. call' \in [Caller -> Calls] /\ Exclusion' /\ call'[c] = new
        /\ \A d \in Caller : d # c => ~Inside(d)'
        BY <1>2, <2>1, <2>2, InsideStep DEF Lock, At
  <2>4. Progress'
        BY <2>1, <2>3 DEF Progress, Inside
  <2>5. QED
        BY <2>2, <2>3, <2>4 DEF IInv, TypeOK, Bounded, Calls, Point, Disjoint, InHeap, Below
<1>3. ASSUME NEW c \in Caller, Align(c) PROVE IInv'
  <2>1. heap_end \in Nat
        BY DEF IInv, TypeOK
  <2> DEFINE h == WordAligned(heap_end)
             new == [call[c] EXCEPT !.at = "check"]
  <2>2. h \in Nat /\ h % 4 = 0 /\ heap_end <= h /\ h <= HeapLimit + 3
        BY <2>1, AlignUp DEF IInv, TypeOK, Bounded, Calls, Point
  <2>3. heap_end' = h /\ call' = [call EXCEPT ![c] = new] /\ UNCHANGED <<PIE, blocks>>
        BY <1>3 DEF Align, Goto
  <2>4. new \in Calls /\ new.at = "check"
        BY DEF IInv, TypeOK, Calls, Point
  <2>5. ~PIE' /\ Runs(c) /\ Inside(c)
        BY <1>3, <2>3, Alone DEF Align, At, Inside
  <2> HIDE DEF h, new
  <2>6. call' \in [Caller -> Calls] /\ Exclusion' /\ call'[c] = new
        /\ \A d \in Caller : d # c => ~Inside(d)'
        BY <2>3, <2>4, <2>5, InsideStep
  <2>7. Progress'
        BY <2>2, <2>3, <2>4, <2>6 DEF Progress, Inside
  <2>8. \A b \in blocks' : Below(b)'
        BY <2>1, <2>2, <2>3 DEF IInv, TypeOK, Below
  <2>9. QED
        BY <2>1, <2>2, <2>3, <2>6, <2>7, <2>8 DEF IInv, TypeOK, Bounded, Calls, Point, Disjoint, InHeap
<1>4. ASSUME NEW c \in Caller, Check(c) PROVE IInv'
  <2> DEFINE new == [call[c] EXCEPT !.at = IF Fits(call[c].incr) THEN "take" ELSE "unlock"]
  <2>1. new \in Calls /\ new.at \in {"take", "unlock"} /\ new.incr = call[c].incr
        /\ (new.at = "take" => Fits(call[c].incr))
        BY DEF IInv, TypeOK, Calls, Point
  <2>2. call' = [call EXCEPT ![c] = new] /\ UNCHANGED <<heap_end, PIE, blocks>>
        BY <1>4 DEF Check, Goto
  <2>3. ~PIE' /\ Runs(c) /\ Inside(c) /\ heap_end % 4 = 0
        BY <1>4, <2>2, Alone DEF Check, At, Inside, IInv, Progress
  <2> HIDE DEF new
  <2>4. call' \in [Caller -> Calls] /\ Exclusion' /\ call'[c] = new
        /\ \A d \in Caller : d # c => ~Inside(d)'
        BY <2>1, <2>2, <2>3, InsideStep
  <2>5. Progress'
        BY <2>1, <2>2, <2>3, <2>4 DEF Progress, Inside, Fits
  <2>6. QED
        BY <2>2, <2>4, <2>5 DEF IInv, TypeOK, Bounded, Calls, Point, Disjoint, InHeap, Below
<1>5. ASSUME NEW c \in Caller, Take(c) PROVE IInv'
  <2> DEFINE new == [[call[c] EXCEPT !.at = "extend"] EXCEPT !.prev = heap_end]
  <2>1. new \in Calls /\ new.at = "extend" /\ new.incr = call[c].incr /\ new.prev = heap_end
        BY CallFields DEF IInv, TypeOK, Calls, Point
  <2>2. call' = [call EXCEPT ![c] = new] /\ UNCHANGED <<heap_end, PIE, blocks>>
        BY <1>5 DEF Take, IInv, TypeOK
  <2>3. /\ ~PIE' /\ Runs(c) /\ Inside(c)
        /\ heap_end % 4 = 0 /\ heap_end + call[c].incr <= HeapLimit
        BY <1>5, <2>2, Alone DEF Take, At, Inside, IInv, Progress
  <2> HIDE DEF new
  <2>4. call' \in [Caller -> Calls] /\ Exclusion' /\ call'[c] = new
        /\ \A d \in Caller : d # c => ~Inside(d)'
        BY <2>1, <2>2, <2>3, InsideStep
  <2>5. Progress'
        BY <2>1, <2>2, <2>3, <2>4 DEF Progress, Inside
  <2>6. QED
        BY <2>2, <2>4, <2>5 DEF IInv, TypeOK, Bounded, Calls, Point, Disjoint, InHeap, Below
<1>6. ASSUME NEW c \in Caller, Extend(c) PROVE IInv'
  <2> DEFINE h == heap_end + call[c].incr
             b == [from |-> heap_end, to |-> h, of |-> c]
             new == [call[c] EXCEPT !.at = "unlock"]
  <2>1. /\ heap_end \in Nat /\ call[c].incr \in Nat /\ HeapStart <= heap_end
        /\ heap_end % 4 = 0 /\ h <= HeapLimit /\ call[c].prev = heap_end
        /\ ~PIE /\ Runs(c) /\ Inside(c)
        BY <1>6, CallFields, Alone DEF IInv, TypeOK, Progress, Extend, At, Inside
  <2>2. h \in Nat /\ heap_end <= h
        BY <2>1
  <2>3. heap_end' = h /\ blocks' = blocks \cup {b} /\ call' = [call EXCEPT ![c] = new] /\ UNCHANGED PIE
        BY <1>6, <2>1 DEF Extend, Goto
  <2>4. new \in Calls /\ new.at = "unlock"
        BY DEF IInv, TypeOK, Calls, Point
  <2>5. \A d \in blocks : d.from \in Nat /\ d.to \in Nat /\ d.from <= d.to /\ d.to <= heap_end
        BY DEF IInv, TypeOK, Below
  <2>6. b \in [from : Nat, to : Nat, of : Caller] /\ b.from = heap_end /\ b.to = h
        BY <2>1, <2>2
  <2> HIDE DEF h, b, new
  <2>7. call' \in [Caller -> Calls] /\ Exclusion' /\ call'[c] = new
        /\ \A d \in Caller : d # c => ~Inside(d)'
        BY <2>1, <2>3, <2>4, InsideStep
  <2>8. TypeOK' /\ Bounded'
        BY <2>1, <2>2, <2>3, <2>6, <2>7 DEF IInv, TypeOK, Bounded, Calls, Point
  <2>9. Progress'
        BY <2>4, <2>7 DEF Progress, Inside
  <2>10. Disjoint'
    <3> SUFFICES ASSUME NEW x \in blocks', NEW y \in blocks'
                 PROVE x = y \/ x.to <= y.from \/ y.to <= x.from
        BY DEF Disjoint
    <3>1. CASE x \in blocks /\ y \in blocks
          BY <3>1 DEF IInv, Disjoint
    <3>2. CASE x = b \/ y = b
          BY <3>2, <2>3, <2>5, <2>6
    <3>3. QED
          BY <3>1, <3>2, <2>3
  <2>11. InHeap'
        BY <2>1, <2>3, <2>6 DEF IInv, InHeap
  <2>12. \A d \in blocks' : Below(d)'
        BY <2>1, <2>2, <2>3, <2>5, <2>6 DEF Below
  <2>13. QED
        BY <2>7, <2>8, <2>9, <2>10, <2>11, <2>12 DEF IInv
<1>7. ASSUME NEW c \in Caller, Unlock(c) PROVE IInv'
  <2>1. Idle \in Calls /\ Idle.at = "idle"
        BY DEF Idle, Calls, Point
  <2>2. call' = [call EXCEPT ![c] = Idle] /\ UNCHANGED <<heap_end, blocks>>
        BY <1>7 DEF Unlock
  <2>3. call' \in [Caller -> Calls] /\ call'[c] = Idle /\ \A d \in Caller : d # c => call'[d] = call[d]
        BY <2>1, <2>2 DEF IInv, TypeOK, Calls, Point
  <2>4. \A d \in Caller : d # c => ~Inside(d)
        BY <1>7, Alone DEF Unlock, At, Inside
  <2>5. PIE' \in BOOLEAN /\ (c = "program" => call["routine"].at = "idle")
        BY <1>7, CallFields DEF Unlock, At, Runs, Caller, IInv
  <2>6. Exclusion'
        BY <2>1, <2>3, <2>4, <2>5 DEF Exclusion, Inside, Caller
  <2>7. Progress'
        BY <2>1, <2>2, <2>3 DEF IInv, Progress
  <2>8. QED
        BY <2>2, <2>3, <2>5, <2>6, <2>7 DEF IInv, TypeOK, Bounded, Calls, Point, Disjoint, InHeap, Below
<1>8. QED
      BY <1>0, <1>1, <1>2, <1>3, <1>4, <1>5, <1>6, <1>7 DEF Next

LEMMA SbrkAlways == SupportSpec => []IInv
<1>1. SupportInit => IInv
  BY PartsStart, SbrkInit
<1>2. IInv /\ [SupportNext]_supportVars => IInv'
  BY PartsStep, SbrkStep
<1> QED  BY <1>1, <1>2, PTL DEF SupportSpec

\* No two callers are given overlapping memory, whichever breaks into whose call,
\* and everything given lies in the heap and begins at a word.
THEOREM SbrkSound == SupportSpec => []HeapSound
<1>1. IInv => HeapSound
  BY DEF IInv, HeapSound
<1> QED  BY SbrkAlways, <1>1, PTL

-----------------------------------------------------------------------------
(***************************************************************************)
(* The file descriptors.  The invariant: an open descriptor means what it  *)
(* was opened for, the descriptors in use are the open ones and the three  *)
(* streams, those in use beyond the streams are at or below the mark, and  *)
(* until main runs none is in use beyond the streams and none locked.      *)
(***************************************************************************)
NoDevice == Files!NoDevice
UsedOnes == {fd \in Files!Descriptor : alt_fd_list[fd].dev # NoDevice}
Entry == [dev : Files!Device \cup {NoDevice}, mode : Files!Mode, nonblock : BOOLEAN,
          excl : BOOLEAN, isdev : BOOLEAN]
Use == [dev : Files!Device \cup {NoDevice}, mode : Files!Mode]

FilesInv ==
  /\ Files!TypeOK /\ Files!KeepsMeaning /\ Files!MarkAbove
  /\ \A fd \in Files!Descriptor :
       /\ alt_fd_list[fd].dev # NoDevice <=> Files!isOpen(fd) \/ fd <= 2
       /\ alt_fd_list[fd].dev = NoDevice => alt_fd_list[fd] = Files!Free
  /\ redirected < 3 =>
       \A fd \in Files!Descriptor : ~alt_fd_list[fd].excl /\ (Files!isOpen(fd) => fd <= 2)

LEMMA FilesConstant == ALT_MAX_FD \in Nat /\ ALT_MAX_FD > 3
  BY SupportAssumption DEF Files!PoolAssumption

LEMMA FilesTypes ==
  ASSUME Files!TypeOK
  PROVE  /\ alt_fd_list \in [Files!Descriptor -> Entry] /\ held \in [Files!Descriptor -> Use]
         /\ alt_max_fd \in -1..(ALT_MAX_FD - 1) /\ redirected \in 0..3
  BY DEF Files!TypeOK, Entry, Use, NoDevice

LEMMA FilesInit == Files!Init => FilesInv
<1> SUFFICES ASSUME Files!Init PROVE FilesInv
  OBVIOUS
<1> USE FilesConstant
<1> DEFINE null == [Files!Free EXCEPT !.dev = "null"]
<1>0. /\ Files!Free \in Entry /\ Files!Free.dev = NoDevice /\ ~Files!Free.excl
      /\ null \in Entry /\ null.dev = "null" /\ ~null.excl
      /\ Files!NotHeld \in Use /\ Files!NotHeld.dev = NoDevice
  BY DEF Entry, Use, Files!Free, Files!NotHeld, Files!Device, Files!NoDevice, NoDevice, Files!Mode
<1>a. /\ alt_fd_list = [i \in Files!Descriptor |-> IF i <= 2 THEN null ELSE Files!Free]
      /\ held = [i \in Files!Descriptor |-> Files!NotHeld]
      /\ alt_max_fd = -1 /\ redirected = 0
  BY DEF Files!Init
<1> HIDE DEF null
<1>1. Files!TypeOK
  <2>1. alt_fd_list \in [Files!Descriptor -> Entry] /\ held \in [Files!Descriptor -> Use]
    BY <1>0, <1>a
  <2> QED  BY <2>1, <1>a DEF Files!TypeOK, Entry, Use, NoDevice
<1>2. \A fd \in Files!Descriptor :
        /\ held[fd].dev = NoDevice /\ ~alt_fd_list[fd].excl
        /\ alt_fd_list[fd].dev = IF fd <= 2 THEN "null" ELSE NoDevice
        /\ fd > 2 => alt_fd_list[fd] = Files!Free
  BY <1>0, <1>a DEF Files!Descriptor
<1>3. NoDevice # "null"
  BY DEF NoDevice, Files!NoDevice
<1>4. \A fd \in Files!Descriptor : ~Files!isOpen(fd)
  BY <1>2 DEF Files!isOpen, NoDevice
<1>5. Files!KeepsMeaning
  BY <1>4 DEF Files!KeepsMeaning, Files!Open
<1>6. Files!MarkAbove
  BY <1>2 DEF Files!MarkAbove, Files!Descriptor, NoDevice
<1> QED  BY <1>1, <1>2, <1>3, <1>4, <1>5, <1>6 DEF FilesInv, Files!Descriptor

\* What open comes to: it fails for a reason, and nothing changes but the mark,
\* or a free descriptor is taken, and no other of its device is locked.
Refused(o, name) ==
  /\ o.fd = -1 /\ o.list = alt_fd_list
  /\ o.max \in alt_max_fd..(ALT_MAX_FD - 1)
  /\ \/ name \notin Files!Device
     \/ \A i \in Files!Descriptor : alt_fd_list[i].dev # NoDevice
     \/ \E i \in Files!Descriptor : alt_fd_list[i].dev = name /\ alt_fd_list[i].excl

Taken(o, name, mode, nonblock) ==
  \E fd \in 3..(ALT_MAX_FD - 1) :
    /\ alt_fd_list[fd].dev = NoDevice /\ name \in Files!Device
    /\ o.fd = fd /\ o.max \in alt_max_fd..(ALT_MAX_FD - 1) /\ fd <= o.max
    /\ o.list = [alt_fd_list EXCEPT ![fd] =
         [dev |-> name, mode |-> mode, nonblock |-> nonblock, excl |-> FALSE, isdev |-> TRUE]]
    /\ \A i \in Files!Descriptor : alt_fd_list[i].dev = name => ~alt_fd_list[i].excl

LEMMA ReleaseIs ==
  ASSUME NEW list \in [Files!Descriptor -> Entry], NEW fd \in 3..(ALT_MAX_FD - 1), NEW e
  PROVE  Files!Release([list EXCEPT ![fd] = e], fd) = [list EXCEPT ![fd] = Files!Free]
<1>1. Files!Release([list EXCEPT ![fd] = e], fd) = [[list EXCEPT ![fd] = e] EXCEPT ![fd] = Files!Free]
  BY DEF Files!Release
<1> QED  BY <1>1

LEMMA OpeningIs ==
  ASSUME FilesInv, NEW name \in Files!Names, NEW mode \in Files!Mode, NEW nonblock \in BOOLEAN
  PROVE  LET o == Files!Opening(name, mode, nonblock)
         IN  Refused(o, name) \/ Taken(o, name, mode, nonblock)
<1> USE FilesConstant
<1> DEFINE o == Files!Opening(name, mode, nonblock)
           dev == Files!alt_find_dev(name)
           fd == Files!alt_get_fd(alt_fd_list)
           max == Files!HighWater(fd)
           new == [dev |-> dev, mode |-> mode, nonblock |-> nonblock, excl |-> FALSE, isdev |-> TRUE]
           list == [alt_fd_list EXCEPT ![fd] = new]
           free == Files!FreeIn(alt_fd_list)
<1>0. /\ alt_fd_list \in [Files!Descriptor -> Entry]
      /\ alt_max_fd \in -1..(ALT_MAX_FD - 1)
  BY FilesTypes DEF FilesInv
<1>1. CASE dev = NoDevice \/ free = {}
  <2>1. o.fd = -1 /\ o.list = alt_fd_list /\ o.max = alt_max_fd
    BY <1>1 DEF Files!Opening, NoDevice
  <2>2. name \notin Files!Device \/ \A i \in Files!Descriptor : alt_fd_list[i].dev # NoDevice
    BY <1>1, Zenon DEF Files!alt_find_dev, Files!Device, NoDevice, Files!NoDevice, Files!FreeIn
  <2> QED  BY <2>1, <2>2, <1>0 DEF Refused
<1>2. CASE dev # NoDevice /\ free # {}
  <2>1. name \in Files!Device /\ dev = name
    BY <1>2 DEF Files!alt_find_dev, NoDevice
  <2>2. fd \in free
    <3>1. free \in SUBSET Nat
      BY DEF Files!FreeIn, Files!Descriptor
    <3>2. \E i \in free : \A j \in free : i <= j
      BY <3>1, <1>2, SmallestOf
    <3> QED  BY <3>2 DEF Files!alt_get_fd
  <2>3. /\ fd \in Files!Descriptor /\ alt_fd_list[fd].dev = NoDevice
        /\ fd \in 3..(ALT_MAX_FD - 1) /\ alt_fd_list[fd] = Files!Free
    BY <2>2 DEF Files!FreeIn, FilesInv, NoDevice, Files!Descriptor
  <2>4. max \in alt_max_fd..(ALT_MAX_FD - 1) /\ fd <= max
    BY <2>3, <1>0 DEF Files!HighWater
  <2>5. o = IF Files!Locked(list, fd, max)
            THEN [list |-> Files!GiveUp(list, fd), max |-> max, fd |-> -1, err |-> "EACCES"]
            ELSE [list |-> list, max |-> max, fd |-> fd, err |-> "done"]
    <3> DEFINE l == Files!GiveUp(list, fd)
               none == [list |-> alt_fd_list, max |-> alt_max_fd, fd |-> -1, err |-> "EACCES"]
    <3>1. o = IF Files!Locked(list, fd, max)
              THEN [none EXCEPT !.list = l, !.max = max]
              ELSE [list |-> list, max |-> max, fd |-> fd, err |-> "done"]
      BY <1>2, Zenon DEF Files!Opening, NoDevice
    <3>2. [none EXCEPT !.list = l, !.max = max]
            = [list |-> l, max |-> max, fd |-> -1, err |-> "EACCES"]
      <4> HIDE DEF l, max, list, fd, o, new
      <4>1. [none EXCEPT !.list = l, !.max = max] = [[none EXCEPT !.list = l] EXCEPT !.max = max]
        BY Zenon
      <4>2. [none EXCEPT !.list = l] = [list |-> l, max |-> alt_max_fd, fd |-> -1, err |-> "EACCES"]
        OBVIOUS
      <4>3. [[list |-> l, max |-> alt_max_fd, fd |-> -1, err |-> "EACCES"] EXCEPT !.max = max]
              = [list |-> l, max |-> max, fd |-> -1, err |-> "EACCES"]
        OBVIOUS
      <4> HIDE DEF none
      <4> QED  BY <4>1, <4>2, <4>3
    <3> HIDE DEF o, none, list, fd, max, l
    <3> QED  BY <3>1, <3>2, Zenon DEF l
  <2>6. CASE Files!Locked(list, fd, max)
    <3>1. Files!GiveUp(list, fd) = [alt_fd_list EXCEPT ![fd] = Files!Free]
      <4> HIDE DEF new, fd
      <4> QED  BY <2>3, <1>0, ReleaseIs DEF Files!GiveUp
    <3>2. Files!GiveUp(list, fd) = alt_fd_list
      BY <3>1, <2>3, <1>0
    <3>3. PICK i \in 0..max : i # fd /\ list[i].dev = list[fd].dev /\ list[i].excl
      BY <2>6 DEF Files!Locked
    <3>4. i \in Files!Descriptor /\ alt_fd_list[i].dev = name /\ alt_fd_list[i].excl
      <4>1. i \in Files!Descriptor
        BY <2>4, <1>0 DEF Files!Descriptor
      <4> QED  BY <3>3, <4>1, <2>1, <2>3, <1>0
    <3>5. o.fd = -1 /\ o.list = alt_fd_list /\ o.max = max
      BY <2>5, <2>6, <3>2
    <3> HIDE DEF o, max, list, fd
    <3>6. Refused(o, name)
      BY <3>4, <3>5, <2>4 DEF Refused
    <3> QED  BY <3>6 DEF o
  <2>7. CASE ~Files!Locked(list, fd, max)
    <3>1. o.fd = fd /\ o.max = max /\ o.list = list
      BY <2>5, <2>7
    <3>2. ASSUME NEW i \in Files!Descriptor, alt_fd_list[i].dev = name, alt_fd_list[i].excl
          PROVE  FALSE
      <4>1. i # fd
        BY <3>2, <2>1, <2>3, <1>2
      <4>2. list[i] = alt_fd_list[i] /\ list[fd].dev = name
        BY <4>1, <2>1, <2>3, <1>0
      <4>3. i \in 0..max
        <5>1. CASE i <= 2
          BY <5>1, <2>3, <2>4 DEF Files!Descriptor
        <5>2. CASE i > 2
          <6>1. i \in 3..(ALT_MAX_FD - 1) /\ alt_fd_list[i].dev # Files!NoDevice
            BY <5>2, <3>2, <2>1, <1>2 DEF Files!Descriptor, NoDevice
          <6>2. i <= alt_max_fd
            BY <6>1 DEF FilesInv, Files!MarkAbove
          <6> QED  BY <6>1, <6>2, <2>4, <1>0
        <5> QED  BY <5>1, <5>2 DEF Files!Descriptor
      <4>4. list[i].dev = list[fd].dev /\ list[i].excl
        BY <4>2, <3>2
      <4> HIDE DEF list, fd, max
      <4> QED  BY <4>1, <4>3, <4>4, <2>7 DEF Files!Locked
    <3>3. list = [alt_fd_list EXCEPT ![fd] =
            [dev |-> name, mode |-> mode, nonblock |-> nonblock, excl |-> FALSE, isdev |-> TRUE]]
      BY <2>1
    <3>4. o.max \in alt_max_fd..(ALT_MAX_FD - 1) /\ fd <= o.max
      BY <3>1, <2>4
    <3>5. o.list = [alt_fd_list EXCEPT ![fd] =
            [dev |-> name, mode |-> mode, nonblock |-> nonblock, excl |-> FALSE, isdev |-> TRUE]]
      BY <3>1, <3>3
    <3>6. Taken(o, name, mode, nonblock)
      <4> HIDE DEF list, fd, max, o
      <4> QED  BY <3>1, <3>2, <3>4, <3>5, <2>1, <2>3, Zenon DEF Taken
    <3> QED  BY <3>6
  <2> QED  BY <2>6, <2>7
<1> QED  BY <1>1, <1>2

\* A call that leaves the open descriptors' users as they are, or takes some away.
LockKeeps ==
  \A fd \in Files!Open :
    alt_fd_list[fd].excl /\ fd \in Files!Open' /\ alt_fd_list'[fd].excl
      => Files!Users(held[fd].dev)' \subseteq Files!Users(held[fd].dev)

LEMMA UsersKeep ==
  ASSUME \A fd \in Files!Descriptor : Files!isOpen(fd)' => held'[fd] = held[fd]
  PROVE  LockKeeps
<1> SUFFICES ASSUME NEW fd \in Files!Open, fd \in Files!Open', NEW i \in Files!Users(held[fd].dev)'
             PROVE  i \in Files!Users(held[fd].dev)
  BY DEF LockKeeps
<1>1. held'[fd] = held[fd]
  BY DEF Files!Open
<1>2. i \in Files!Descriptor /\ Files!isOpen(i)' /\ held'[i].dev = held[fd].dev
  BY <1>1 DEF Files!Users, Files!Open
<1>3. held'[i] = held[i]
  BY <1>2
<1> QED  BY <1>2, <1>3 DEF Files!Users, Files!Open, Files!isOpen

LEMMA FilesStill ==
  ASSUME FilesInv, UNCHANGED <<alt_fd_list, alt_max_fd, redirected, held>>
  PROVE  FilesInv' /\ LockKeeps
<1>1. FilesInv'
  BY DEF FilesInv, Files!TypeOK, Files!KeepsMeaning, Files!MarkAbove, Files!Open, Files!isOpen
<1> QED  BY <1>1, UsersKeep

\* lock, unlock and fcntl: an entry changes, but not where it leads.
LEMMA FilesEntry ==
  ASSUME FilesInv, Files!Running, NEW fd \in Files!Open, NEW e \in Entry,
         e.dev = alt_fd_list[fd].dev, e.mode = alt_fd_list[fd].mode,
         alt_fd_list' = [alt_fd_list EXCEPT ![fd] = e],
         UNCHANGED <<alt_max_fd, redirected, held>>
  PROVE  FilesInv' /\ LockKeeps
<1>0. /\ alt_fd_list \in [Files!Descriptor -> Entry] /\ fd \in Files!Descriptor
      /\ held \in [Files!Descriptor -> Use]
  BY FilesTypes DEF FilesInv, Files!Open
<1>1. \A i \in Files!Descriptor :
        /\ alt_fd_list'[i].dev = alt_fd_list[i].dev /\ alt_fd_list'[i].mode = alt_fd_list[i].mode
        /\ i # fd => alt_fd_list'[i] = alt_fd_list[i]
  BY <1>0
<1>2. alt_fd_list' \in [Files!Descriptor -> Entry]
  BY <1>0
<1>3. Files!TypeOK'
  BY <1>2 DEF FilesInv, Files!TypeOK, Entry, NoDevice
<1>4. \A i \in Files!Descriptor : Files!isOpen(i)' <=> Files!isOpen(i)
  BY DEF Files!isOpen
<1>5. Files!KeepsMeaning'
  BY <1>1, <1>4 DEF FilesInv, Files!KeepsMeaning, Files!Open
<1>6. Files!MarkAbove'
  BY <1>1 DEF FilesInv, Files!MarkAbove, Files!Descriptor
<1>7. alt_fd_list[fd].dev # NoDevice
  BY DEF FilesInv, Files!Open
<1>8. redirected' = 3
  BY DEF Files!Running
<1>9. \A i \in Files!Descriptor :
        /\ alt_fd_list'[i].dev # NoDevice <=> Files!isOpen(i)' \/ i <= 2
        /\ alt_fd_list'[i].dev = NoDevice => alt_fd_list'[i] = Files!Free
  BY <1>1, <1>4, <1>7 DEF FilesInv
<1> QED  BY <1>3, <1>5, <1>6, <1>8, <1>9, UsersKeep DEF FilesInv

LEMMA FilesClose ==
  ASSUME FilesInv, NEW fd \in Files!Open, Files!close(fd)
  PROVE  FilesInv' /\ LockKeeps
<1> USE FilesConstant
<1>0. /\ alt_fd_list \in [Files!Descriptor -> Entry] /\ fd \in Files!Descriptor
      /\ held \in [Files!Descriptor -> Use]
  BY FilesTypes DEF FilesInv, Files!Open
<1>1. /\ redirected' = 3 /\ redirected = 3 /\ UNCHANGED alt_max_fd
      /\ alt_fd_list' = Files!Release(alt_fd_list, fd)
      /\ held' = [held EXCEPT ![fd] = Files!NotHeld]
  BY DEF Files!close, Files!Running
<1>2. /\ Files!Free \in Entry /\ Files!Free.dev = NoDevice
      /\ Files!NotHeld \in Use /\ Files!NotHeld.dev = NoDevice
  BY DEF Entry, Use, Files!Free, Files!NotHeld, Files!Device, Files!NoDevice, NoDevice, Files!Mode
<1>3. /\ alt_fd_list' \in [Files!Descriptor -> Entry] /\ held' \in [Files!Descriptor -> Use]
      /\ \A i \in Files!Descriptor : i # fd \/ fd <= 2 => alt_fd_list'[i] = alt_fd_list[i]
      /\ \A i \in Files!Descriptor : i # fd => held'[i] = held[i]
      /\ held'[fd].dev = NoDevice
      /\ fd > 2 => alt_fd_list'[fd] = Files!Free
  BY <1>0, <1>1, <1>2 DEF Files!Release, Files!Descriptor
<1>4. Files!TypeOK'
  BY <1>1, <1>3 DEF FilesInv, Files!TypeOK, Entry, Use, NoDevice
<1>5. \A i \in Files!Descriptor : Files!isOpen(i)' <=> Files!isOpen(i) /\ i # fd
  BY <1>3 DEF Files!isOpen, NoDevice
<1>6. Files!KeepsMeaning'
  BY <1>3, <1>5 DEF FilesInv, Files!KeepsMeaning, Files!Open
<1>7. Files!MarkAbove'
  BY <1>1, <1>2, <1>3 DEF FilesInv, Files!MarkAbove, Files!Descriptor, NoDevice
<1>8. \A i \in Files!Descriptor :
        /\ alt_fd_list'[i].dev # NoDevice <=> Files!isOpen(i)' \/ i <= 2
        /\ alt_fd_list'[i].dev = NoDevice => alt_fd_list'[i] = Files!Free
  BY <1>0, <1>2, <1>3, <1>5 DEF FilesInv, Files!Descriptor
<1>9. LockKeeps
  BY <1>3, <1>5, UsersKeep
<1> QED  BY <1>1, <1>4, <1>6, <1>7, <1>8, <1>9 DEF FilesInv

LEMMA FilesOpen ==
  ASSUME FilesInv, NEW name \in Files!Names, NEW mode \in Files!Mode, NEW nonblock \in BOOLEAN,
         Files!open(name, mode, nonblock)
  PROVE  FilesInv' /\ LockKeeps
<1> USE FilesConstant
<1> DEFINE o == Files!Opening(name, mode, nonblock)
<1>0. /\ alt_fd_list \in [Files!Descriptor -> Entry] /\ held \in [Files!Descriptor -> Use]
      /\ alt_max_fd \in -1..(ALT_MAX_FD - 1)
  BY FilesTypes DEF FilesInv
<1>1. /\ redirected' = 3 /\ redirected = 3
      /\ alt_fd_list' = o.list /\ alt_max_fd' = o.max
      /\ held' = IF o.fd >= 0 THEN [held EXCEPT ![o.fd] = [dev |-> name, mode |-> mode]] ELSE held
  BY DEF Files!open, Files!Running
<1>2. Refused(o, name) \/ Taken(o, name, mode, nonblock)
  BY OpeningIs
<1> HIDE DEF o
<1>3. CASE Refused(o, name)
  <2>1. UNCHANGED <<alt_fd_list, held, redirected>> /\ alt_max_fd' \in alt_max_fd..(ALT_MAX_FD - 1)
    BY <1>1, <1>3 DEF Refused
  <2>2. Files!TypeOK' /\ Files!MarkAbove'
    BY <2>1, <1>0 DEF FilesInv, Files!TypeOK, Files!MarkAbove, Files!Descriptor
  <2>3. FilesInv'
    BY <2>1, <2>2 DEF FilesInv, Files!KeepsMeaning, Files!Open, Files!isOpen
  <2> QED  BY <2>1, <2>3, UsersKeep
<1>4. CASE Taken(o, name, mode, nonblock)
  <2> DEFINE new == [dev |-> name, mode |-> mode, nonblock |-> nonblock, excl |-> FALSE,
                     isdev |-> TRUE]
             use == [dev |-> name, mode |-> mode]
  <2>1. PICK fd \in 3..(ALT_MAX_FD - 1) :
          /\ alt_fd_list[fd].dev = NoDevice /\ name \in Files!Device
          /\ o.fd = fd /\ o.max \in alt_max_fd..(ALT_MAX_FD - 1) /\ fd <= o.max
          /\ o.list = [alt_fd_list EXCEPT ![fd] = new]
          /\ \A i \in Files!Descriptor : alt_fd_list[i].dev = name => ~alt_fd_list[i].excl
    BY <1>4, Zenon DEF Taken
  <2>2. /\ new \in Entry /\ new.dev = name /\ new.mode = mode /\ name # NoDevice
        /\ use \in Use /\ use.dev = name /\ use.mode = mode /\ fd \in Files!Descriptor
    BY <2>1 DEF Entry, Use, NoDevice, Files!NoDevice, Files!Device, Files!Descriptor
  <2>3. /\ alt_fd_list' = [alt_fd_list EXCEPT ![fd] = new] /\ held' = [held EXCEPT ![fd] = use]
        /\ alt_max_fd' \in alt_max_fd..(ALT_MAX_FD - 1) /\ fd <= alt_max_fd'
    BY <1>1, <2>1
  <2> HIDE DEF new, use
  <2>4. /\ alt_fd_list' \in [Files!Descriptor -> Entry] /\ held' \in [Files!Descriptor -> Use]
        /\ alt_fd_list'[fd] = new /\ held'[fd] = use
        /\ \A i \in Files!Descriptor :
             i # fd => alt_fd_list'[i] = alt_fd_list[i] /\ held'[i] = held[i]
    BY <1>0, <2>2, <2>3
  <2>5. Files!TypeOK'
    BY <1>0, <1>1, <2>3, <2>4 DEF Files!TypeOK, Entry, Use, NoDevice
  <2>6. \A i \in Files!Descriptor : Files!isOpen(i)' <=> Files!isOpen(i) \/ i = fd
    BY <2>2, <2>4 DEF Files!isOpen, NoDevice
  <2>7. Files!KeepsMeaning'
    BY <2>2, <2>4, <2>6 DEF FilesInv, Files!KeepsMeaning, Files!Open
  <2>8. Files!MarkAbove'
    BY <1>0, <2>3, <2>4 DEF FilesInv, Files!MarkAbove, Files!Descriptor, NoDevice
  <2>9. \A i \in Files!Descriptor :
          /\ alt_fd_list'[i].dev # NoDevice <=> Files!isOpen(i)' \/ i <= 2
          /\ alt_fd_list'[i].dev = NoDevice => alt_fd_list'[i] = Files!Free
    BY <2>2, <2>4, <2>6 DEF FilesInv
  <2>10. LockKeeps
    <3> SUFFICES ASSUME NEW i \in Files!Open, alt_fd_list[i].excl,
                        NEW j \in Files!Users(held[i].dev)'
                 PROVE  j \in Files!Users(held[i].dev)
      BY DEF LockKeeps
    <3>1. i \in Files!Descriptor /\ alt_fd_list[i].dev # NoDevice
      BY DEF Files!Open, FilesInv
    <3>2. i # fd /\ held'[i] = held[i] /\ alt_fd_list[i].dev = held[i].dev
      BY <3>1, <2>1, <2>4 DEF FilesInv, Files!KeepsMeaning
    <3>3. held[i].dev # name
      BY <3>1, <3>2, <2>1
    <3>4. j \in Files!Descriptor /\ Files!isOpen(j)' /\ held'[j].dev = held[i].dev
      BY <3>2 DEF Files!Users, Files!Open
    <3>5. j # fd
      BY <3>3, <3>4, <2>2, <2>4
    <3> QED  BY <3>4, <3>5, <2>4 DEF Files!Users, Files!Open, Files!isOpen
  <2> QED  BY <1>1, <2>5, <2>7, <2>8, <2>9, <2>10 DEF FilesInv
<1> QED  BY <1>2, <1>3, <1>4

LEMMA FilesRedirect ==
  ASSUME FilesInv, Files!alt_open_fd
  PROVE  FilesInv' /\ LockKeeps
<1> USE FilesConstant
<1> DEFINE std == Files!Stream[redirected + 1]
           mode == Files!StreamMode[redirected + 1]
           o == Files!Opening("jtag", mode, FALSE)
           use == [dev |-> "jtag", mode |-> mode]
<1>0. /\ alt_fd_list \in [Files!Descriptor -> Entry] /\ held \in [Files!Descriptor -> Use]
      /\ alt_max_fd \in -1..(ALT_MAX_FD - 1) /\ redirected \in 0..2
  BY FilesTypes DEF FilesInv, Files!alt_open_fd
<1>1. redirected + 1 = 1 \/ redirected + 1 = 2 \/ redirected + 1 = 3
  BY <1>0
<1>2. std \in 0..2 /\ mode \in Files!Mode /\ "jtag" \in Files!Names /\ std \in Files!Descriptor
  BY <1>1 DEF Files!Stream, Files!StreamMode, Files!Mode, Files!Names, Files!Device, Files!Descriptor
<1>3. Refused(o, "jtag") \/ Taken(o, "jtag", mode, FALSE)
  BY <1>2, OpeningIs
<1>4. /\ redirected' = redirected + 1
      /\ alt_fd_list' = IF o.fd >= 0 THEN Files!HandOver(o.list, std, o.fd) ELSE o.list
      /\ alt_max_fd' = o.max
      /\ held' = [held EXCEPT ![std] = use]
  BY DEF Files!alt_open_fd
<1>5. Taken(o, "jtag", mode, FALSE)
  <2>1. "jtag" \in Files!Device /\ 3 \in Files!Descriptor /\ alt_fd_list[3].dev = NoDevice
    BY <1>0 DEF FilesInv, Files!Device, Files!Descriptor
  <2>2. \A i \in Files!Descriptor : ~alt_fd_list[i].excl
    BY <1>0 DEF FilesInv
  <2> HIDE DEF o
  <2> QED  BY <1>3, <2>1, <2>2 DEF Refused
<1> DEFINE new == [dev |-> "jtag", mode |-> mode, nonblock |-> FALSE, excl |-> FALSE, isdev |-> TRUE]
<1> HIDE DEF o
<1>6. PICK fd \in 3..(ALT_MAX_FD - 1) :
        /\ alt_fd_list[fd].dev = NoDevice
        /\ o.fd = fd /\ o.max \in alt_max_fd..(ALT_MAX_FD - 1) /\ fd <= o.max
        /\ o.list = [alt_fd_list EXCEPT ![fd] = new]
  BY <1>5, Zenon DEF Taken
<1>7. /\ new \in Entry /\ new.dev = "jtag" /\ new.mode = mode /\ "jtag" # NoDevice /\ ~new.excl
      /\ use \in Use /\ use.dev = "jtag" /\ use.mode = mode /\ fd \in Files!Descriptor
      /\ Files!Free \in Entry
  BY <1>2 DEF Entry, Use, NoDevice, Files!NoDevice, Files!Device, Files!Descriptor, Files!Free,
              Files!Mode
<1> HIDE DEF new, use, mode, std
<1>8. alt_fd_list' = [[[alt_fd_list EXCEPT ![fd] = new] EXCEPT ![std] = new] EXCEPT ![fd] = Files!Free]
  <2>1. alt_fd_list' = Files!HandOver(o.list, std, fd)
    BY <1>4, <1>6
  <2>2. o.list[fd] = new
    BY <1>0, <1>6, <1>7
  <2> QED  BY <2>1, <2>2, <1>6 DEF Files!HandOver, Files!Release
<1>9. alt_fd_list[fd] = Files!Free
  BY <1>6, <1>7 DEF FilesInv
<1>10. /\ alt_fd_list' \in [Files!Descriptor -> Entry] /\ held' \in [Files!Descriptor -> Use]
       /\ alt_fd_list'[std] = new /\ held'[std] = use
       /\ \A i \in Files!Descriptor :
            i # std => alt_fd_list'[i] = alt_fd_list[i] /\ held'[i] = held[i]
  BY <1>0, <1>2, <1>4, <1>7, <1>8, <1>9
<1>11. Files!TypeOK'
  <2>1. alt_max_fd' \in -1..(ALT_MAX_FD - 1) /\ redirected' \in 0..3
    BY <1>0, <1>4, <1>6
  <2> QED  BY <1>10, <2>1 DEF Files!TypeOK, Entry, Use, NoDevice
<1>12. \A i \in Files!Descriptor : Files!isOpen(i)' <=> Files!isOpen(i) \/ i = std
  BY <1>2, <1>7, <1>10 DEF Files!isOpen, NoDevice
<1>13. Files!KeepsMeaning'
  BY <1>7, <1>10, <1>12 DEF FilesInv, Files!KeepsMeaning, Files!Open
<1>14. Files!MarkAbove'
  BY <1>0, <1>2, <1>4, <1>6, <1>10 DEF FilesInv, Files!MarkAbove, Files!Descriptor, NoDevice
<1>15. \A i \in Files!Descriptor :
         /\ alt_fd_list'[i].dev # NoDevice <=> Files!isOpen(i)' \/ i <= 2
         /\ alt_fd_list'[i].dev = NoDevice => alt_fd_list'[i] = Files!Free
         /\ ~alt_fd_list'[i].excl /\ (Files!isOpen(i)' => i <= 2)
  BY <1>0, <1>2, <1>7, <1>10, <1>12 DEF FilesInv
<1>16. LockKeeps
  BY <1>0 DEF LockKeeps, FilesInv, Files!Open
<1> QED  BY <1>11, <1>13, <1>14, <1>15, <1>16 DEF FilesInv

LEMMA FilesStep ==
  ASSUME FilesInv, [Files!Next]_fileVars
  PROVE  FilesInv' /\ LockKeeps
<1>1. CASE Files!alt_open_fd
  BY <1>1, FilesRedirect
<1>2. ASSUME NEW name \in Files!Names, NEW mode \in Files!Mode, NEW nonblock \in BOOLEAN,
             Files!open(name, mode, nonblock)
      PROVE  FilesInv' /\ LockKeeps
  BY <1>2, FilesOpen
<1>3. ASSUME NEW fd \in Files!Open, Files!close(fd) PROVE FilesInv' /\ LockKeeps
  BY <1>3, FilesClose
<1>4. ASSUME NEW fd \in Files!Open, NEW excl \in BOOLEAN, NEW nonblock \in BOOLEAN
      PROVE  /\ alt_fd_list \in [Files!Descriptor -> Entry] /\ fd \in Files!Descriptor
             /\ LET e == [alt_fd_list[fd] EXCEPT !.excl = excl]
                IN  e \in Entry /\ e.dev = alt_fd_list[fd].dev /\ e.mode = alt_fd_list[fd].mode
             /\ LET e == [alt_fd_list[fd] EXCEPT !.nonblock = nonblock]
                IN  e \in Entry /\ e.dev = alt_fd_list[fd].dev /\ e.mode = alt_fd_list[fd].mode
  <2>1. alt_fd_list \in [Files!Descriptor -> Entry] /\ fd \in Files!Descriptor
    BY FilesTypes DEF FilesInv, Files!Open
  <2>2. alt_fd_list[fd] \in Entry
    BY <2>1
  <2> QED  BY <2>1, <2>2 DEF Entry
<1>5. ASSUME NEW fd \in Files!Open, Files!lock(fd) PROVE FilesInv' /\ LockKeeps
  <2>1. CASE alt_fd_list' = alt_fd_list
    BY <1>5, <2>1, FilesStill DEF Files!lock
  <2>2. CASE alt_fd_list' = [alt_fd_list EXCEPT ![fd].excl = TRUE]
    BY <1>4, <1>5, <2>2, FilesEntry DEF Files!lock
  <2> QED  BY <1>5, <2>1, <2>2 DEF Files!lock
<1>6. ASSUME NEW fd \in Files!Open, Files!unlock(fd) PROVE FilesInv' /\ LockKeeps
  BY <1>4, <1>6, FilesEntry DEF Files!unlock
<1>7. ASSUME NEW fd \in Files!Open, NEW nonblock \in BOOLEAN, Files!SetFlags(fd, nonblock)
      PROVE  FilesInv' /\ LockKeeps
  BY <1>4, <1>7, FilesEntry DEF Files!SetFlags
<1>8. ASSUME NEW fd \in Files!Open, Files!ioctl(fd) PROVE FilesInv' /\ LockKeeps
  BY <1>8, FilesStill DEF Files!ioctl
<1>9. ASSUME NEW fd \in Files!Open, NEW op \in {"read", "write"}, Files!transfer(fd, op)
      PROVE  FilesInv' /\ LockKeeps
  BY <1>9, FilesStill DEF Files!transfer
<1>10. CASE Files!BadDescriptor
  BY <1>10, FilesStill DEF Files!BadDescriptor
<1>11. CASE Files!OtherCommand
  BY <1>11, FilesStill DEF Files!OtherCommand
<1>12. CASE UNCHANGED fileVars
  BY <1>12, FilesStill DEF fileVars
<1> QED  BY <1>1, <1>2, <1>3, <1>5, <1>6, <1>7, <1>8, <1>9, <1>10, <1>11, <1>12 DEF Files!Next

LEMMA FilesAlways == SupportSpec => []FilesInv
<1>1. SupportInit => FilesInv
  BY PartsStart, FilesInit
<1>2. FilesInv /\ [SupportNext]_supportVars => FilesInv'
  BY PartsStep, FilesStep
<1> QED  BY <1>1, <1>2, PTL DEF SupportSpec

(***************************************************************************)
(* In a pool of any size, after any sequence of calls: an open descriptor  *)
(* leads where it was opened to, what is in use is what is open, the       *)
(* searches that stop at the mark miss no descriptor, and while a lock     *)
(* stands nobody else opens its device.                                    *)
(***************************************************************************)
THEOREM DescriptorsKept == SupportSpec => DescriptorsSound
<1>1. FilesInv => Files!KeepsMeaning /\ Files!NoLeak /\ Files!MarkAbove
  <2> SUFFICES ASSUME FilesInv PROVE Files!NoLeak
    BY DEF FilesInv
  <2> USE FilesConstant
  <2> QED  BY DEF FilesInv, Files!NoLeak, Files!Open, Files!Descriptor, NoDevice
<1>2. FilesInv /\ [SupportNext]_supportVars => [LockKeeps]_Files!vars
  BY PartsStep, FilesStep
<1>3. SupportSpec => [][LockKeeps]_Files!vars
  BY <1>2, FilesAlways, PTL DEF SupportSpec
<1>4. SupportSpec => Files!LockedOut
  BY <1>3 DEF Files!LockedOut, LockKeeps
<1>5. SupportSpec => [](Files!KeepsMeaning /\ Files!NoLeak /\ Files!MarkAbove)
  BY <1>1, FilesAlways, PTL
<1> QED  BY <1>4, <1>5 DEF DescriptorsSound

-----------------------------------------------------------------------------
(***************************************************************************)
(* Arithmetic: quotients and remainders are determined.                    *)
(***************************************************************************)
\* A product grows with its factor.
LEMMA TimesMonotone ==
  ASSUME NEW k \in Nat, NEW m \in Int, NEW n \in Int, m <= n
  PROVE  m * k \in Int /\ n * k \in Int /\ m * k <= n * k
<1>1. (n - m) * k >= 0 /\ (n - m) * k = n * k - m * k
  OBVIOUS
<1> QED  BY <1>1

LEMMA DivIs ==
  ASSUME NEW N \in Nat, N > 0, NEW a \in Nat
  PROVE  /\ a = N * (a \div N) + (a % N)
         /\ a \div N \in Nat /\ a % N \in 0..(N - 1)
<1> DEFINE q == a \div N
<1>1. a = N * q + (a % N) /\ q \in Int /\ a % N \in 0..(N - 1)
  OBVIOUS
<1> HIDE DEF q
<1>2. CASE q <= -1
  <2>1. q * N <= (-1) * N
    BY <1>1, <1>2, TimesMonotone
  <2>2. q * N = N * q
    BY <1>1
  <2> QED  BY <2>1, <2>2, <1>1
<1> QED  BY <1>1, <1>2 DEF q

LEMMA DivMod ==
  ASSUME NEW N \in Nat, N > 0, NEW a \in Int, NEW q \in Int, NEW r \in 0..(N - 1), a = N * q + r
  PROVE  a \div N = q /\ a % N = r
<1>1. a = N * (a \div N) + (a % N) /\ a \div N \in Int /\ a % N \in 0..(N - 1)
  OBVIOUS
<1> DEFINE p == a \div N
           s == a % N
<1> HIDE DEF p, s
<1>2. N * p + s = N * q + r /\ p \in Int /\ s \in 0..(N - 1)
  BY <1>1 DEF p, s
<1>3. s = r
  BY <1>2
<1>4. N * p = N * q
  BY <1>2, <1>3
<1>5. p = q
  BY <1>2, <1>4
<1> QED  BY <1>3, <1>5 DEF p, s

-----------------------------------------------------------------------------
(***************************************************************************)
(* The wall clock.  The invariant: the offset and the ticks make up the    *)
(* time that should show, and the offset's parts keep to their ranges.     *)
(***************************************************************************)
Small == MaxTicks * Clock!TickUs < U32     (* the microseconds fit in 32 bits *)

Seconds == ticks \div tick_rate
Part == ticks % tick_rate
ClockInv ==
  /\ ticks \in 0..MaxTicks
  /\ alt_resettime \in Clock!Time
  /\ alt_resettime.tv_sec \in (-(U32 \div tick_rate))..MaxSec
  /\ alt_resettime.tv_usec \in (1 - ALT_US)..(ALT_US - 1)
  /\ wall \in Nat /\ fresh \in BOOLEAN
  /\ wall = alt_resettime.tv_sec * ALT_US + alt_resettime.tv_usec + ticks * Clock!TickUs

LEMMA ClockConstants ==
  /\ U32 \in Nat /\ U32 % 2 = 0 /\ U32 > 0
  /\ tick_rate \in Nat /\ tick_rate > 0 /\ ALT_US \in Nat /\ ALT_US > 0
  /\ Clock!TickUs \in Nat /\ Clock!TickUs > 0 /\ ALT_US = tick_rate * Clock!TickUs
  /\ 2 * ALT_US < U32 \div 2
  /\ MaxTicks \in 0..(U32 - 1)
  /\ MaxSec \in Nat /\ U32 \div tick_rate \in Nat /\ MaxSec + U32 \div tick_rate < U32 \div 2
<1>1. /\ U32 \in Nat /\ U32 % 2 = 0
      /\ tick_rate \in Nat \ {0} /\ ALT_US \in Nat \ {0} /\ ALT_US % tick_rate = 0
      /\ 2 * ALT_US < U32 \div 2
      /\ MaxTicks \in 0..(U32 - 1)
      /\ MaxSec \in Nat /\ MaxSec + U32 \div tick_rate < U32 \div 2
  BY SupportAssumption DEF Clock!ClockAssumption
<1>2. Clock!TickUs \in Nat /\ ALT_US = tick_rate * Clock!TickUs
  BY <1>1 DEF Clock!TickUs
<1>3. Clock!TickUs > 0
  BY <1>1, <1>2
<1>4. U32 \div tick_rate \in Nat
  BY <1>1
<1> QED  BY <1>1, <1>2, <1>3, <1>4

LEMMA HalfIs == U32 = 2 * (U32 \div 2) /\ U32 \div 2 \in Nat
  BY ClockConstants

\* What a long holds is the number itself, if it is small enough.
LEMMA SignedIs ==
  ASSUME NEW x \in Int, -(U32 \div 2) <= x, x < U32 \div 2
  PROVE  Clock!S(x) = x
<1> USE ClockConstants, HalfIs
<1>1. CASE x >= 0
  <2>1. x % U32 = x
    BY <1>1, DivMod
  <2> QED  BY <2>1, <1>1 DEF Clock!S, Clock!U
<1>2. CASE x < 0
  <2>1. x % U32 = x + U32
    <3>1. x = U32 * (-1) + (x + U32) /\ x + U32 \in 0..(U32 - 1)
      BY <1>2
    <3> QED  BY <3>1, DivMod
  <2> QED  BY <2>1, <1>2 DEF Clock!S, Clock!U
<1> QED  BY <1>1, <1>2

\* The ticks as whole seconds and the rest, and the microseconds of the rest.
LEMMA TicksAre ==
  ASSUME ticks \in 0..MaxTicks
  PROVE  /\ Seconds \in 0..(U32 \div tick_rate) /\ Part \in 0..(tick_rate - 1)
         /\ Part * Clock!TickUs \in 0..(ALT_US - 1)
         /\ ticks * Clock!TickUs = Seconds * ALT_US + Part * Clock!TickUs
<1> USE ClockConstants
<1>1. ticks = tick_rate * Seconds + Part /\ Seconds \in Nat /\ Part \in 0..(tick_rate - 1)
  BY DEF Seconds, Part
<1>2. Seconds <= U32 \div tick_rate
  <2> DEFINE v == U32 \div tick_rate
  <2>1. U32 < tick_rate * (v + 1) /\ v \in Nat
    OBVIOUS
  <2>2. tick_rate * Seconds <= ticks /\ ticks < U32
    BY <1>1
  <2> HIDE DEF v
  <2>3. tick_rate * Seconds < tick_rate * (v + 1)
    BY <2>1, <2>2, <1>1
  <2>4. Seconds < v + 1
    BY <2>3, <2>1, <1>1
  <2> QED  BY <2>4, <2>1, <1>1 DEF v
<1>3. Part * Clock!TickUs \in 0..(ALT_US - 1)
  <2>1. (Part + 1) * Clock!TickUs <= tick_rate * Clock!TickUs
    BY <1>1, TimesMonotone
  <2>2. (Part + 1) * Clock!TickUs = Part * Clock!TickUs + Clock!TickUs
    BY <1>1
  <2>3. Part * Clock!TickUs \in Nat
    BY <1>1
  <2> QED  BY <2>1, <2>2, <2>3
<1>4. ticks * Clock!TickUs = Seconds * ALT_US + Part * Clock!TickUs
  <2>1. ticks * Clock!TickUs = (tick_rate * Seconds) * Clock!TickUs + Part * Clock!TickUs
    BY <1>1
  <2>2. (tick_rate * Seconds) * Clock!TickUs = Seconds * (tick_rate * Clock!TickUs)
    BY <1>1
  <2> QED  BY <2>1, <2>2
<1> QED  BY <1>1, <1>2, <1>3, <1>4

LEMMA MicrosAre ==
  ASSUME ticks \in 0..MaxTicks
  PROVE  /\ Clock!Micros64(ticks) = Part * Clock!TickUs
         /\ Small => Clock!Micros32(ticks) = Part * Clock!TickUs
<1> USE ClockConstants
<1> DEFINE p == Part * Clock!TickUs
           t == ticks * Clock!TickUs
<1>1. t = ALT_US * Seconds + p /\ Seconds \in Int /\ p \in 0..(ALT_US - 1)
  BY TicksAre
<1>2. t \in Nat
  OBVIOUS
<1>3. t % ALT_US = p
  <2> HIDE DEF t, p
  <2> QED  BY <1>1, <1>2, DivMod
<1>4. Small => t < U32
  BY TimesMonotone DEF Small
<1>5. Small => t % U32 = t
  BY <1>2, <1>4, DivMod
<1> HIDE DEF t, p
<1>6. Clock!Micros64(ticks) = t % ALT_US /\ Clock!Micros32(ticks) = (t % U32) % ALT_US
  BY DEF Clock!Micros64, Clock!Micros32, Clock!U, t
<1> QED  BY <1>3, <1>5, <1>6 DEF p

LEMMA ClockInit == Clock!Init => ClockInv
<1> SUFFICES ASSUME Clock!Init PROVE ClockInv
  OBVIOUS
<1>0. fresh \in BOOLEAN
  BY Zenon DEF Clock!Init
<1>1. /\ ticks = 0 /\ alt_resettime = [tv_sec |-> 0, tv_usec |-> 0] /\ wall = 0
  BY DEF Clock!Init
<1>2. /\ alt_resettime \in Clock!Time /\ alt_resettime.tv_sec = 0 /\ alt_resettime.tv_usec = 0
  BY <1>1 DEF Clock!Time
<1>3. wall = alt_resettime.tv_sec * ALT_US + alt_resettime.tv_usec + ticks * Clock!TickUs
  BY <1>1, <1>2, ClockConstants
<1>4. 0 \in (-(U32 \div tick_rate))..MaxSec /\ 0 \in (1 - ALT_US)..(ALT_US - 1)
  BY ClockConstants
<1>5. ticks \in 0..MaxTicks /\ wall \in Nat
  <2>1. MaxTicks \in Nat
    BY ClockConstants
  <2> QED  BY <1>1, <2>1
<1>6. /\ alt_resettime.tv_sec \in (-(U32 \div tick_rate))..MaxSec
      /\ alt_resettime.tv_usec \in (1 - ALT_US)..(ALT_US - 1)
  BY <1>2, <1>4, ClockConstants
<1> QED  BY <1>0, <1>2, <1>3, <1>5, <1>6, Zenon DEF ClockInv

LEMMA ClockStep ==
  ASSUME Small, ClockInv, [Clock!Next]_clockVars
  PROVE  ClockInv'
<1> USE ClockConstants
<1>1. CASE UNCHANGED clockVars
  BY <1>1 DEF clockVars, ClockInv
<1>2. CASE Clock!Tick
  <2>1. /\ ticks' = ticks + 1 /\ ticks' \in 0..MaxTicks /\ wall' = wall + Clock!TickUs
        /\ fresh' = FALSE /\ UNCHANGED alt_resettime
    BY <1>2 DEF Clock!Tick, ClockInv
  <2>2. (ticks + 1) * Clock!TickUs = ticks * Clock!TickUs + Clock!TickUs
    BY DEF ClockInv
  <2>3. alt_resettime.tv_sec * ALT_US \in Int /\ ticks * Clock!TickUs \in Int
        /\ alt_resettime.tv_usec \in Int
    BY DEF ClockInv
  <2>4. wall' = alt_resettime.tv_sec * ALT_US + alt_resettime.tv_usec + ticks' * Clock!TickUs
        /\ wall' \in Nat
    BY <2>1, <2>2, <2>3 DEF ClockInv
  <2> QED  BY <2>1, <2>4, Zenon DEF ClockInv
<1>3. ASSUME NEW sec \in 0..MaxSec, NEW usec \in 0..(ALT_US - 1),
             Clock!settimeofday([tv_sec |-> sec, tv_usec |-> usec])
      PROVE  ClockInv'
  <2>0. ticks \in 0..MaxTicks
    BY DEF ClockInv
  <2> DEFINE p == Part * Clock!TickUs
  <2>1. /\ Seconds \in 0..(U32 \div tick_rate) /\ p \in 0..(ALT_US - 1)
        /\ ticks * Clock!TickUs = Seconds * ALT_US + p
        /\ Clock!Micros32(ticks) = p
    BY <2>0, TicksAre, MicrosAre
  <2>2. /\ alt_resettime' = [tv_sec |-> Clock!S(sec - Seconds), tv_usec |-> Clock!S(usec - p)]
        /\ wall' = sec * ALT_US + usec /\ fresh' = TRUE /\ ticks' = ticks
    BY <1>3, <2>1 DEF Clock!settimeofday, Seconds
  <2> HIDE DEF p
  <2>3. Clock!S(sec - Seconds) = sec - Seconds /\ Clock!S(usec - p) = usec - p
    BY <2>1, SignedIs
  <2>4. /\ alt_resettime' \in Clock!Time
        /\ alt_resettime'.tv_sec = sec - Seconds /\ alt_resettime'.tv_usec = usec - p
    BY <2>1, <2>2, <2>3 DEF Clock!Time
  <2>5. wall' = (sec - Seconds) * ALT_US + (usec - p) + ticks * Clock!TickUs /\ wall' \in Nat
    BY <2>1, <2>2
  <2>6. /\ sec - Seconds \in (-(U32 \div tick_rate))..MaxSec
        /\ usec - p \in (1 - ALT_US)..(ALT_US - 1)
    BY <2>1
  <2> QED  BY <2>0, <2>2, <2>4, <2>5, <2>6 DEF ClockInv
<1> QED  BY <1>1, <1>2, <1>3 DEF Clock!Next

LEMMA ClockShows ==
  ASSUME Small, ClockInv
  PROVE  Clock!WallClock
<1> USE ClockConstants
<1>0. ticks \in 0..MaxTicks
  BY DEF ClockInv
<1> DEFINE p == Part * Clock!TickUs
           sec == alt_resettime.tv_sec + Seconds
           usec == alt_resettime.tv_usec + p
<1>1. /\ Seconds \in 0..(U32 \div tick_rate) /\ p \in 0..(ALT_US - 1)
      /\ ticks * Clock!TickUs = Seconds * ALT_US + p
      /\ Clock!Micros64(ticks) = p
  BY <1>0, TicksAre, MicrosAre
<1>a. /\ alt_resettime.tv_sec \in (-(U32 \div tick_rate))..MaxSec
      /\ alt_resettime.tv_usec \in (1 - ALT_US)..(ALT_US - 1) /\ wall \in Nat
  BY DEF ClockInv
<1> HIDE DEF p
<1>2. /\ sec \in Int /\ usec \in (1 - ALT_US)..(2 * ALT_US - 2)
      /\ -(U32 \div 2) <= sec /\ sec < U32 \div 2 /\ -(U32 \div 2) <= usec /\ usec < U32 \div 2
  BY <1>1, <1>a
<1>3. wall = sec * ALT_US + usec
  <2>1. sec * ALT_US = alt_resettime.tv_sec * ALT_US + Seconds * ALT_US
    BY <1>1, <1>a
  <2>2. wall = alt_resettime.tv_sec * ALT_US + alt_resettime.tv_usec + (Seconds * ALT_US + p)
    BY <1>1 DEF ClockInv
  <2> QED  BY <2>1, <2>2, <1>1, <1>a
<1>4. Clock!gettimeofday = Clock!Carry(Clock!Borrow([tv_sec |-> sec, tv_usec |-> usec]))
  <2>1. Clock!gettimeofday = Clock!Carry(Clock!Borrow(
          [tv_sec |-> Clock!S(sec), tv_usec |-> Clock!S(alt_resettime.tv_usec + Clock!Micros64(ticks))]))
    BY DEF Clock!gettimeofday, Seconds
  <2>2. Clock!S(sec) = sec /\ Clock!S(usec) = usec
    <3> HIDE DEF sec, usec
    <3> QED  BY <1>2, SignedIs
  <2> QED  BY <2>1, <2>2, <1>1
<1> HIDE DEF sec, usec
<1>5. CASE usec < 0
  <2>1. sec >= 1
    <3> SUFFICES ASSUME sec <= 0 PROVE FALSE
      BY <1>2
    <3>1. sec * ALT_US <= 0 * ALT_US
      BY <1>2, TimesMonotone
    <3> QED  BY <3>1, <1>2, <1>3, <1>5, <1>a
  <2>2. Clock!gettimeofday = [tv_sec |-> sec - 1, tv_usec |-> usec + ALT_US]
    BY <1>2, <1>4, <1>5, <2>1 DEF Clock!Carry, Clock!Borrow
  <2>3. wall = ALT_US * (sec - 1) + (usec + ALT_US) /\ usec + ALT_US \in 0..(ALT_US - 1)
    BY <1>2, <1>3, <1>5
  <2>4. wall \div ALT_US = sec - 1 /\ wall % ALT_US = usec + ALT_US
    BY <2>3, <1>2, <1>a, DivMod
  <2> QED  BY <2>2, <2>4 DEF Clock!WallClock, Clock!Shows
<1>6. CASE usec >= 0 /\ usec < ALT_US
  <2>1. Clock!gettimeofday = [tv_sec |-> sec, tv_usec |-> usec]
    BY <1>2, <1>4, <1>6 DEF Clock!Carry, Clock!Borrow
  <2>2. wall = ALT_US * sec + usec /\ usec \in 0..(ALT_US - 1)
    BY <1>2, <1>3, <1>6
  <2>3. wall \div ALT_US = sec /\ wall % ALT_US = usec
    BY <2>2, <1>2, <1>a, DivMod
  <2> QED  BY <2>1, <2>3 DEF Clock!WallClock, Clock!Shows
<1>7. CASE usec >= ALT_US
  <2>1. Clock!gettimeofday = [tv_sec |-> sec + 1, tv_usec |-> usec - ALT_US]
    BY <1>2, <1>4, <1>7 DEF Clock!Carry, Clock!Borrow
  <2>2. wall = ALT_US * (sec + 1) + (usec - ALT_US) /\ usec - ALT_US \in 0..(ALT_US - 1)
    BY <1>2, <1>3, <1>7
  <2>3. wall \div ALT_US = sec + 1 /\ wall % ALT_US = usec - ALT_US
    BY <2>2, <1>2, <1>a, DivMod
  <2> QED  BY <2>1, <2>3 DEF Clock!WallClock, Clock!Shows
<1> QED  BY <1>2, <1>5, <1>6, <1>7

-----------------------------------------------------------------------------
(***************************************************************************)
(* The busy sleep.  The invariant: what is left of the argument is what    *)
(* the long counts to come stand for and the rest, and the loops gone      *)
(* through cover what has been taken off it.                               *)
(***************************************************************************)
Long == Sleep!UsPerBig
PerUs == Sleep!PerUs
SleepInv ==
  /\ sleep_asked \in 0..(SleepU32 - 1) /\ at \in {"big", "done"} /\ spent \in Nat
  /\ big_loops \in 0..(sleep_asked \div Long)
  /\ us = Long * big_loops + (sleep_asked % Long)
  /\ at = "big" => spent >= (sleep_asked - us) * PerUs
  /\ at = "done" => spent >= sleep_asked * PerUs

LEMMA SleepConstants ==
  /\ SleepU32 \in Nat /\ SleepU32 = 2 * (SleepU32 \div 2) /\ Sleep!INT_MAX \in Nat
  /\ 0 < Sleep!INT_MAX /\ Sleep!INT_MAX < SleepU32
  /\ PerUs \in Nat /\ PerUs > 0
  /\ Long \in Nat /\ Long > 0 /\ Long * PerUs <= Sleep!INT_MAX
<1>1. /\ SleepU32 \in Nat /\ SleepU32 % 2 = 0 /\ PerUs \in Nat \ {0} /\ PerUs <= Sleep!INT_MAX
  <2>1. CyclesPerUs \in Nat /\ cycles_per_loop \in Nat /\ cycles_per_loop > 0
    BY SupportAssumption DEF Sleep!SleepAssumption
  <2>2. PerUs \in Nat
    BY <2>1, DivIs DEF PerUs, Sleep!PerUs
  <2> QED  BY <2>2, SupportAssumption DEF Sleep!SleepAssumption, PerUs
<1>2. SleepU32 = 2 * (SleepU32 \div 2) /\ Sleep!INT_MAX = SleepU32 \div 2 - 1
  BY <1>1 DEF Sleep!INT_MAX
<1>3. Sleep!INT_MAX \in Nat /\ 0 < Sleep!INT_MAX /\ Sleep!INT_MAX < SleepU32
  BY <1>1, <1>2
<1> DEFINE rest == Sleep!INT_MAX % PerUs
<1>4. Sleep!INT_MAX = PerUs * Long + rest /\ Long \in Nat /\ rest \in 0..(PerUs - 1)
  <2>1. PerUs \in Nat /\ PerUs > 0
    BY <1>1
  <2> QED  BY <1>3, <2>1, DivIs DEF Long, Sleep!UsPerBig, PerUs
<1> HIDE DEF rest
<1>5. Long > 0
  <2>1. CASE Long = 0
    <3>1. PerUs * Long = 0
      BY <2>1, <1>1
    <3> QED  BY <3>1, <1>1, <1>4
  <2> QED  BY <2>1, <1>4
<1>6. Long * PerUs <= Sleep!INT_MAX
  <2>1. Long * PerUs = PerUs * Long /\ PerUs * Long \in Nat
    BY <1>1, <1>4
  <2> QED  BY <2>1, <1>1, <1>4
<1> QED  BY <1>1, <1>2, <1>3, <1>4, <1>5, <1>6

LEMMA SleepArgument ==
  ASSUME NEW n \in Nat
  PROVE  n = Long * (n \div Long) + (n % Long) /\ n \div Long \in Nat /\ n % Long \in 0..(Long - 1)
  BY SleepConstants, DivIs

LEMMA SleepInit == Sleep!Init => SleepInv
<1> SUFFICES ASSUME Sleep!Init PROVE SleepInv
  OBVIOUS
<1>1. /\ sleep_asked \in 0..(SleepU32 - 1) /\ us = sleep_asked
      /\ big_loops = us \div Long /\ at = "big" /\ spent = 0
  BY DEF Sleep!Init, Long
<1>2. sleep_asked \in Nat
  BY <1>1, SleepConstants
<1>3. us = Long * big_loops + (sleep_asked % Long) /\ big_loops \in 0..(sleep_asked \div Long)
  BY <1>1, <1>2, SleepArgument
<1>4. (sleep_asked - us) * PerUs = 0
  <2>1. sleep_asked - us = 0
    BY <1>1, <1>2
  <2> QED  BY <2>1, SleepConstants
<1>5. spent \in Nat /\ at \in {"big", "done"} /\ spent >= (sleep_asked - us) * PerUs
  BY <1>1, <1>4
<1> QED  BY <1>1, <1>3, <1>5 DEF SleepInv

LEMMA SleepStep ==
  ASSUME SleepInv, [Sleep!Next]_sleepVars
  PROVE  SleepInv'
<1> USE SleepConstants
<1>0. /\ sleep_asked \in 0..(SleepU32 - 1) /\ at \in {"big", "done"} /\ spent \in Nat
      /\ big_loops \in 0..(sleep_asked \div Long)
      /\ us = Long * big_loops + (sleep_asked % Long)
      /\ at = "big" => spent >= (sleep_asked - us) * PerUs
  BY DEF SleepInv
<1>1. /\ sleep_asked = Long * (sleep_asked \div Long) + (sleep_asked % Long)
      /\ sleep_asked \div Long \in Nat /\ sleep_asked % Long \in 0..(Long - 1)
  BY <1>0, SleepArgument
<1>2. big_loops \in Nat /\ us \in Nat
  <2>1. big_loops \in Nat /\ Long * big_loops \in Nat
    BY <1>0, <1>1
  <2> QED  BY <2>1, <1>0, <1>1
<1>3. CASE Sleep!Big
  <2>1. /\ at = "big" /\ big_loops > 0 /\ spent' = spent + Sleep!INT_MAX
        /\ us' = us - Long /\ big_loops' = big_loops - 1 /\ UNCHANGED <<sleep_asked, at>>
    BY <1>3 DEF Sleep!Big, Sleep!LoopsUntilZero, Long
  <2>2. us' = Long * big_loops' + (sleep_asked % Long) /\ big_loops' \in 0..(sleep_asked \div Long)
    <3>1. Long * (big_loops - 1) = Long * big_loops - Long
      BY <1>2
    <3> QED  BY <3>1, <2>1, <1>0, <1>1, <1>2
  <2>3. (sleep_asked - us') * PerUs = (sleep_asked - us) * PerUs + Long * PerUs
    BY <2>1, <1>0, <1>2
  <2>4. spent' >= (sleep_asked' - us') * PerUs
    <3> DEFINE w == (sleep_asked - us) * PerUs
               v == Long * PerUs
    <3>1. w \in Int /\ v \in Int
      BY <1>0, <1>2
    <3>2. spent >= w /\ v <= Sleep!INT_MAX
      BY <1>0, <2>1
    <3>3. (sleep_asked' - us') * PerUs = w + v
      BY <2>1, <2>3
    <3> HIDE DEF w, v
    <3> QED  BY <3>1, <3>2, <3>3, <2>1, <1>0
  <2>5. spent' \in Nat
    BY <2>1, <1>0
  <2> QED  BY <1>0, <2>1, <2>2, <2>4, <2>5 DEF SleepInv
<1>4. CASE Sleep!Rest
  <2>1. /\ at = "big" /\ big_loops = 0 /\ at' = "done" /\ UNCHANGED <<sleep_asked, us, big_loops>>
        /\ spent' = spent + (IF Sleep!isLong THEN Sleep!LoopsUntilZero(Sleep!Product)
                                             ELSE Sleep!LoopsWhilePositive(Sleep!Product))
    BY <1>4 DEF Sleep!Rest
  <2>2. us = sleep_asked % Long /\ us <= Long
    BY <2>1, <1>0, <1>1
  <2> DEFINE v == us * PerUs
  <2>3. v \in Nat /\ v < SleepU32
    <3>1. us * PerUs <= Long * PerUs
      BY <2>2, <1>2, TimesMonotone
    <3> QED  BY <3>1, <1>2
  <2>4. v % SleepU32 = v
    <3> HIDE DEF v
    <3> QED  BY <2>3, DivMod
  <2>5. Sleep!Product = v
    BY <2>4 DEF Sleep!Product, PerUs
  <2>6. (sleep_asked - us) * PerUs + v = sleep_asked * PerUs /\ (sleep_asked - us) * PerUs \in Int
    BY <1>0, <1>2
  <2> HIDE DEF v
  <2>7. /\ Sleep!LoopsUntilZero(v) >= v /\ Sleep!LoopsWhilePositive(v) >= v
        /\ Sleep!LoopsUntilZero(v) \in Nat /\ Sleep!LoopsWhilePositive(v) \in Nat
    BY <2>3 DEF Sleep!LoopsUntilZero, Sleep!LoopsWhilePositive
  <2>8. spent' \in Nat /\ spent' >= spent + v
    BY <1>0, <2>1, <2>3, <2>5, <2>7
  <2>9. spent' >= sleep_asked' * PerUs
    BY <1>0, <2>1, <2>3, <2>6, <2>8
  <2> QED  BY <1>0, <2>1, <2>8, <2>9 DEF SleepInv
<1>5. CASE UNCHANGED sleepVars
  BY <1>5 DEF sleepVars, SleepInv
<1> QED  BY <1>3, <1>4, <1>5 DEF Sleep!Next

\* A whole number of loops for a microsecond falls short of it by less than one.
LEMMA SleepShort == SleepInv => Sleep!NotMuchShorter
<1> SUFFICES ASSUME SleepInv, at = "done" PROVE Sleep!NotMuchShorter
  BY DEF Sleep!NotMuchShorter
<1> DEFINE n == sleep_asked
           c == cycles_per_loop
           r == CyclesPerUs % cycles_per_loop
<1>1. n \in Nat /\ spent \in Nat /\ spent >= n * PerUs
  BY SleepConstants DEF SleepInv
<1>2. CyclesPerUs \in Nat /\ c \in Nat /\ c > 0 /\ PerUs \in Nat
  BY SupportAssumption, SleepConstants DEF Sleep!SleepAssumption
<1>3. CyclesPerUs = c * PerUs + r /\ r \in 0..(c - 1)
  BY <1>2, DivIs DEF PerUs, Sleep!PerUs
<1> HIDE DEF r
<1>4. n * PerUs \in Int /\ (n * PerUs) * c <= spent * c
  BY <1>1, <1>2, TimesMonotone
<1>5. r * n <= (c - 1) * n
  BY <1>1, <1>2, <1>3, TimesMonotone
<1>6. n * CyclesPerUs = (n * PerUs) * c + r * n
  BY <1>1, <1>2, <1>3
<1>7. (c - 1) * n = n * (c - 1)
  BY <1>1, <1>2
<1> DEFINE a == n * CyclesPerUs
           b == (n * PerUs) * c
           d == spent * c
           e == r * n
           g == n * (c - 1)
<1>8. a \in Int /\ b \in Int /\ d \in Int /\ e \in Int /\ g \in Int
  BY <1>1, <1>2, <1>3
<1>9. b <= d /\ e <= g /\ a = b + e
  BY <1>4, <1>5, <1>6, <1>7
<1>10. d + g >= a
  <2> HIDE DEF a, b, d, e, g
  <2> QED  BY <1>8, <1>9
<1> QED  BY <1>10 DEF Sleep!NotMuchShorter, Sleep!Cycles

LEMMA SleepAlways == SupportSpec => []SleepInv
<1>1. SupportInit => SleepInv
  BY PartsStart, SleepInit
<1>2. SleepInv /\ [SupportNext]_supportVars => SleepInv'
  BY PartsStep, SleepStep
<1> QED  BY <1>1, <1>2, PTL DEF SupportSpec

LEMMA ClockAlways == ASSUME Small PROVE SupportSpec => []ClockInv
<1>1. SupportInit => ClockInv
  BY PartsStart, ClockInit
<1>2. ClockInv /\ [SupportNext]_supportVars => ClockInv'
  BY PartsStep, ClockStep
<1> QED  BY <1>1, <1>2, PTL DEF SupportSpec

(***************************************************************************)
(* While the microseconds since reset fit in the 32 bits that              *)
(* settimeofday computes them in, 71.6 minutes of them, gettimeofday shows *)
(* the time set and the ticks since, however often it is set and at any    *)
(* rate of ticks.  usleep falls short of the time asked for by less than a *)
(* loop for each microsecond, at any clock rate, for loops of any length   *)
(* and for any argument; at 50 MHz and three cycles, by 4 in 100.          *)
(***************************************************************************)
THEOREM TimeIsKept ==
  ASSUME MaxTicks * Clock!TickUs < U32
  PROVE  SupportSpec => []TimeKept
<1>1. Small
  BY DEF Small
<1>2. ClockInv => Clock!WallClock
  BY <1>1, ClockShows
<1>3. SleepInv => Sleep!NotMuchShorter
  BY SleepShort
<1>4. ClockInv /\ SleepInv => TimeKept
  BY <1>2, <1>3 DEF TimeKept
<1> QED  BY <1>1, <1>4, ClockAlways, SleepAlways, PTL

-----------------------------------------------------------------------------
(***************************************************************************)
(* The cache: lines and sets.                                              *)
(***************************************************************************)
LineOf(a) == Cache!LineOf(a)
SetOf(l) == Cache!SetOf(l)
Addr == Cache!Addr
Resident(a) == Cache!Resident(a)

LEMMA CacheConstants ==
  /\ Line \in Nat /\ Line > 0 /\ Sets \in Nat /\ Sets > 0
  /\ Top \in Nat /\ Top % Line = 0 /\ Lengths \subseteq Nat
  BY SupportAssumption DEF Cache!CacheAssumption

LEMMA LineIs ==
  ASSUME NEW a \in Nat
  PROVE  /\ LineOf(a) \in Nat
         /\ Line * LineOf(a) \in Nat /\ Line * LineOf(a) <= a /\ a < Line * LineOf(a) + Line
<1>1. a = Line * LineOf(a) + (a % Line) /\ LineOf(a) \in Nat /\ a % Line \in 0..(Line - 1)
  BY CacheConstants, DivIs DEF LineOf, Cache!LineOf
<1> DEFINE r == a % Line
<1> HIDE DEF r
<1>2. a = Line * LineOf(a) + r /\ r \in 0..(Line - 1) /\ Line * LineOf(a) \in Nat
  BY <1>1, CacheConstants DEF r
<1> QED  BY <1>1, <1>2, CacheConstants

\* The line that starts at or below a and ends above it is that of a.
LEMMA LineUnique ==
  ASSUME NEW a \in Nat, NEW l \in Nat, Line * l <= a, a < Line * l + Line
  PROVE  LineOf(a) = l
<1> DEFINE r == a - Line * l
<1>1. Line * l \in Nat
  BY CacheConstants
<1>2. r \in 0..(Line - 1) /\ a = Line * l + r
  BY <1>1, CacheConstants
<1> HIDE DEF r
<1> QED  BY <1>2, CacheConstants, DivMod DEF LineOf, Cache!LineOf

LEMMA LineMonotone ==
  ASSUME NEW a \in Nat, NEW b \in Nat, a <= b
  PROVE  LineOf(a) <= LineOf(b)
<1> DEFINE l == LineOf(a)
           m == LineOf(b)
<1>1. /\ l \in Nat /\ m \in Nat /\ Line * l \in Nat /\ Line * m \in Nat
      /\ Line * l <= a /\ b < Line * m + Line
  BY LineIs
<1> HIDE DEF l, m
<1>2. CASE m + 1 <= l
  <2>1. (m + 1) * Line <= l * Line
    BY <1>1, <1>2, CacheConstants, TimesMonotone
  <2>2. (m + 1) * Line = Line * m + Line /\ l * Line = Line * l
    BY <1>1, CacheConstants
  <2> QED  BY <1>1, <2>1, <2>2, CacheConstants
<1> QED  BY <1>1, <1>2 DEF l, m

LEMMA LineNext == ASSUME NEW a \in Nat PROVE LineOf(a + Line) = LineOf(a) + 1
<1>1. /\ LineOf(a) \in Nat /\ Line * LineOf(a) \in Nat
      /\ Line * LineOf(a) <= a /\ a < Line * LineOf(a) + Line
  BY LineIs
<1> DEFINE l == LineOf(a)
<1>2. Line * (l + 1) = Line * l + Line
  BY <1>1, CacheConstants
<1>3. a + Line \in Nat /\ l + 1 \in Nat /\ Line * (l + 1) <= a + Line /\ a + Line < Line * (l + 1) + Line
  BY <1>1, <1>2, CacheConstants
<1> HIDE DEF l
<1> QED  BY <1>3, LineUnique DEF l

\* An address at which a line begins.
LEMMA LineBegins ==
  ASSUME NEW i \in Nat, i % Line = 0
  PROVE  i = Line * LineOf(i)
<1>1. i = Line * LineOf(i) + (i % Line)
  BY CacheConstants, DivIs DEF LineOf, Cache!LineOf
<1>2. Line * LineOf(i) \in Nat
  BY LineIs
<1> QED  BY <1>1, <1>2

LEMMA LineBefore ==
  ASSUME NEW i \in Nat, i % Line = 0, NEW a \in Nat
  PROVE  /\ a < i => LineOf(a) < LineOf(i)
         /\ i <= a /\ a < i + Line => LineOf(a) = LineOf(i)
<1>1. i = Line * LineOf(i)
  BY LineBegins
<1>2. LineOf(a) \in Nat /\ LineOf(i) \in Nat /\ Line * LineOf(a) <= a
  BY LineIs
<1>3. ASSUME a < i PROVE LineOf(a) < LineOf(i)
  <2>1. LineOf(a) <= LineOf(i)
    BY <1>3, LineMonotone
  <2>2. LineOf(a) # LineOf(i)
    BY <1>1, <1>2, <1>3, LineIs
  <2> QED  BY <2>1, <2>2, <1>2
<1>4. ASSUME i <= a, a < i + Line PROVE LineOf(a) = LineOf(i)
  <2> DEFINE l == LineOf(i)
  <2>1. Line * l <= a /\ a < Line * l + Line /\ l \in Nat
    BY <1>1, <1>2, <1>4
  <2> HIDE DEF l
  <2> QED  BY <2>1, LineUnique DEF l
<1> QED  BY <1>3, <1>4

\* Whole lines: an address on the line of one in the region is in it too.
Whole(start, len) ==
  start \in Nat /\ len \in Nat /\ start % Line = 0 /\ len % Line = 0 /\ start + len <= Top

LEMMA WholeSum ==
  ASSUME NEW start \in Nat, NEW len \in Nat, start % Line = 0, len % Line = 0
  PROVE  (start + len) % Line = 0
<1>1. start = Line * LineOf(start) /\ len = Line * LineOf(len)
  BY LineBegins
<1>2. LineOf(start) \in Nat /\ LineOf(len) \in Nat
  BY LineIs
<1> DEFINE p == LineOf(start)
           q == LineOf(len)
<1> HIDE DEF p, q
<1>3. start = Line * p /\ len = Line * q /\ p \in Nat /\ q \in Nat
  BY <1>1, <1>2 DEF p, q
<1> DEFINE a == start + len
           k == p + q
<1>4. a = Line * k + 0 /\ a \in Int /\ k \in Int /\ 0 \in 0..(Line - 1)
  BY <1>3, CacheConstants
<1>5. a % Line = 0
  <2> HIDE DEF a, k
  <2> QED  BY <1>4, CacheConstants, DivMod
<1> QED  BY <1>5

LEMMA WholeLines ==
  ASSUME NEW start, NEW len, Whole(start, len),
         NEW a \in Nat, NEW b \in Cache!Span(start, len), LineOf(a) = LineOf(b)
  PROVE  a \in Cache!Span(start, len)
<1>1. start \in Nat /\ len \in Nat /\ start % Line = 0 /\ (start + len) % Line = 0
  BY WholeSum DEF Whole
<1>2. b \in Nat /\ start <= b /\ b < start + len
  BY <1>1 DEF Cache!Span
<1>3. LineOf(start) <= LineOf(b) /\ LineOf(b) < LineOf(start + len)
  BY <1>1, <1>2, LineMonotone, LineBefore
<1>4. LineOf(a) \in Nat /\ LineOf(start) \in Nat /\ LineOf(start + len) \in Nat
  BY <1>1, LineIs
<1>5. ~(a < start)
  BY <1>1, <1>3, <1>4, LineBefore
<1>6. ~(start + len <= a)
  BY <1>1, <1>3, <1>4, LineMonotone
<1>7. start <= a /\ a < start + len
  BY <1>1, <1>5, <1>6
<1>8. a \in start..(start + len - 1)
  BY <1>1, <1>7
<1> QED  BY <1>8 DEF Cache!Span

LEMMA SetIs == ASSUME NEW l \in Nat PROVE SetOf(l) \in Cache!Set
<1>1. l % Sets \in 0..(Sets - 1)
  BY CacheConstants, DivIs
<1> QED  BY <1>1 DEF SetOf, Cache!SetOf, Cache!Set

LEMMA AddrIs ==
  ASSUME NEW a \in Addr
  PROVE  /\ a \in Nat /\ a < Top /\ LineOf(a) \in 0..(Top \div Line - 1)
         /\ SetOf(LineOf(a)) \in Cache!Set
<1>1. a \in Nat /\ a < Top
  BY CacheConstants DEF Addr, Cache!Addr
<1>2. LineOf(a) < LineOf(Top) /\ LineOf(a) \in Nat /\ LineOf(Top) \in Nat
  BY <1>1, CacheConstants, LineBefore, LineIs
<1>3. LineOf(Top) = Top \div Line
  BY DEF LineOf, Cache!LineOf
<1> QED  BY <1>1, <1>2, <1>3, SetIs

(***************************************************************************)
(* What the cache holds.  No line misses a store; an address at which the  *)
(* memory misses one is in a line that is held and to be written back.     *)
(***************************************************************************)
Held(s) == cache[s] \in 0..(Top \div Line - 1) /\ SetOf(cache[s]) = s
Contents ==
  /\ cache \in [Cache!Set -> Int]
  /\ \A s \in Cache!Set : cache[s] = Cache!None \/ Held(s)
  /\ dirty \subseteq {s \in Cache!Set : cache[s] # Cache!None}
  /\ staleLine = {} /\ staleMem \subseteq Addr
  /\ \A a \in staleMem : Resident(a) /\ SetOf(LineOf(a)) \in dirty

\* Writing back leaves nothing stale in the set.
LEMMA WrittenBack ==
  ASSUME Contents, NEW s \in Cache!Set
  PROVE  /\ Cache!MemAfter(s) \subseteq staleMem
         /\ \A a \in Cache!MemAfter(s) : SetOf(LineOf(a)) # s
<1>1. Cache!MemAfter(s) \subseteq staleMem
  BY DEF Cache!MemAfter, Contents
<1>2. ASSUME NEW a \in Cache!MemAfter(s), SetOf(LineOf(a)) = s PROVE FALSE
  <2>1. a \in Addr /\ cache[s] = LineOf(a) /\ s \in dirty
    BY <1>1, <1>2 DEF Contents, Resident, Cache!Resident, SetOf, LineOf
  <2>2. a \in Cache!Unit(cache[s])
    BY <2>1 DEF Cache!Unit, Addr, LineOf
  <2>3. a \notin Cache!MemAfter(s)
    BY <2>1, <2>2 DEF Cache!MemAfter, Contents
  <2> QED  BY <1>2, <2>3
<1> QED  BY <1>1, <1>2

\* A set is emptied of which nothing stale is left.
LEMMA Emptied ==
  ASSUME Contents, NEW s \in Cache!Set, Cache!Empty(s),
         staleMem' \subseteq staleMem, \A a \in staleMem' : SetOf(LineOf(a)) # s
  PROVE  /\ Contents'
         /\ \A a \in Addr : Resident(a)' => Resident(a) /\ SetOf(LineOf(a)) # s
<1>1. /\ cache' = [cache EXCEPT ![s] = Cache!None] /\ dirty' = dirty \ {s} /\ staleLine' = {}
  BY DEF Cache!Empty, Contents
<1>2. Cache!None \in Int /\ Cache!None \notin 0..(Top \div Line - 1)
  <2>1. Top \div Line \in Nat
    BY CacheConstants, DivIs
  <2> QED  BY <2>1 DEF Cache!None
<1>3. /\ cache' \in [Cache!Set -> Int] /\ cache'[s] = Cache!None
      /\ \A t \in Cache!Set : t # s => cache'[t] = cache[t]
  BY <1>1, <1>2 DEF Contents
<1>4. \A t \in Cache!Set : cache'[t] = Cache!None \/ Held(t)'
  <2> SUFFICES ASSUME NEW t \in Cache!Set, t # s PROVE cache'[t] = Cache!None \/ Held(t)'
    BY <1>3
  <2>1. cache'[t] = cache[t]
    BY <1>3
  <2> QED  BY <2>1 DEF Contents, Held
<1>5. dirty' \subseteq {t \in Cache!Set : cache'[t] # Cache!None}
  BY <1>1, <1>3 DEF Contents
<1>6. ASSUME NEW a \in staleMem' PROVE Resident(a)' /\ SetOf(LineOf(a)) \in dirty'
  <2>1. a \in Addr /\ Resident(a) /\ SetOf(LineOf(a)) \in dirty /\ SetOf(LineOf(a)) # s
    BY <1>6 DEF Contents
  <2>2. SetOf(LineOf(a)) \in Cache!Set
    BY <2>1, AddrIs
  <2> QED  BY <1>1, <1>3, <2>1, <2>2 DEF Resident, Cache!Resident, SetOf, LineOf
<1>7. Contents'
  BY <1>1, <1>3, <1>4, <1>5, <1>6 DEF Contents
<1>8. ASSUME NEW a \in Addr, Resident(a)' PROVE Resident(a) /\ SetOf(LineOf(a)) # s
  <2>1. SetOf(LineOf(a)) \in Cache!Set /\ LineOf(a) \in 0..(Top \div Line - 1)
    BY AddrIs
  <2>2. cache'[SetOf(LineOf(a))] = LineOf(a)
    BY <1>8 DEF Resident, Cache!Resident, SetOf, LineOf
  <2>3. SetOf(LineOf(a)) # s
    BY <1>2, <1>3, <2>1, <2>2
  <2> QED  BY <1>3, <2>1, <2>2, <2>3 DEF Resident, Cache!Resident, SetOf, LineOf
<1> QED  BY <1>7, <1>8

\* A line is filled, and written to or not.
LEMMA Filled ==
  ASSUME Contents, NEW a \in Addr, NEW stored \in SUBSET {a}, Cache!Fill(Cache!LineOf(a), stored),
         IF stored = {} THEN dirty' = dirty \ {Cache!SetOf(Cache!LineOf(a))}
                        ELSE dirty' = dirty \cup {Cache!SetOf(Cache!LineOf(a))},
         ~Resident(a)
  PROVE  /\ Contents' /\ staleMem' \subseteq staleMem \cup stored
         /\ \A b \in Addr : Resident(b)' => Resident(b) \/ LineOf(b) = LineOf(a)
<1> DEFINE l == LineOf(a)
           s == SetOf(l)
<1>1. s \in Cache!Set /\ l \in 0..(Top \div Line - 1) /\ l \in Int
  BY AddrIs
<1>2. /\ cache' = [cache EXCEPT ![s] = l]
      /\ staleMem' = Cache!MemAfter(s) \cup stored
      /\ staleLine' = ((staleLine \ UNION {Cache!Unit(cache[s])}) \cup (Cache!MemAfter(s) \cap Cache!Unit(l)))
                        \ stored
  BY DEF Cache!Fill, LineOf, SetOf
<1>3. /\ Cache!MemAfter(s) \subseteq staleMem
      /\ \A b \in Cache!MemAfter(s) : SetOf(LineOf(b)) # s
  BY <1>1, WrittenBack
<1>4. staleLine' = {}
  <2>1. Cache!MemAfter(s) \cap Cache!Unit(l) = {}
    BY <1>3 DEF Cache!Unit, LineOf
  <2> QED  BY <1>2, <2>1 DEF Contents
<1>a. IF stored = {} THEN dirty' = dirty \ {s} ELSE dirty' = dirty \cup {s}
  BY DEF LineOf, SetOf
<1>b. l # Cache!None
  <2>1. Top \div Line \in Nat
    BY CacheConstants, DivIs
  <2> QED  BY <1>1, <2>1 DEF Cache!None
<1>c. SetOf(LineOf(a)) = s /\ LineOf(a) = l
  OBVIOUS
<1> HIDE DEF l, s
<1>5. /\ cache' \in [Cache!Set -> Int] /\ cache'[s] = l
      /\ \A t \in Cache!Set : t # s => cache'[t] = cache[t]
  BY <1>1, <1>2 DEF Contents
<1>6. \A t \in Cache!Set : cache'[t] = Cache!None \/ Held(t)'
  <2>1. ASSUME NEW t \in Cache!Set, t # s PROVE cache'[t] = Cache!None \/ Held(t)'
    <3>1. cache'[t] = cache[t]
      BY <1>5, <2>1
    <3> QED  BY <3>1 DEF Contents, Held
  <2>2. Held(s)'
    BY <1>1, <1>5 DEF Held, l, s
  <2> QED  BY <2>1, <2>2
<1>7. dirty' \subseteq {t \in Cache!Set : cache'[t] # Cache!None}
  BY <1>1, <1>5, <1>a, <1>b DEF Contents
<1>8. ASSUME NEW b \in staleMem' PROVE b \in Addr /\ Resident(b)' /\ SetOf(LineOf(b)) \in dirty'
  <2>1. CASE b \in Cache!MemAfter(s)
    <3>1. b \in staleMem /\ SetOf(LineOf(b)) # s
      BY <2>1, <1>3
    <3>2. b \in Addr /\ Resident(b) /\ SetOf(LineOf(b)) \in dirty
      BY <3>1 DEF Contents
    <3>3. SetOf(LineOf(b)) \in Cache!Set
      BY <3>2, AddrIs
    <3>4. SetOf(LineOf(b)) \in dirty'
      BY <3>1, <3>2, <1>a
    <3> QED  BY <1>5, <3>1, <3>2, <3>3, <3>4 DEF Resident, Cache!Resident, SetOf, LineOf
  <2>2. CASE b = a /\ stored # {}
    <3>1. SetOf(LineOf(b)) \in dirty' /\ SetOf(LineOf(b)) = s /\ LineOf(b) = l
      BY <2>2, <1>a, <1>c
    <3> QED  BY <1>5, <2>2, <3>1 DEF Resident, Cache!Resident, SetOf, LineOf
  <2> QED  BY <1>2, <2>1, <2>2
<1>9. Contents'
  BY <1>4, <1>5, <1>6, <1>7, <1>8 DEF Contents
<1>10. ASSUME NEW b \in Addr, Resident(b)', ~Resident(b) PROVE LineOf(b) = LineOf(a)
  <2>1. SetOf(LineOf(b)) \in Cache!Set
    BY AddrIs
  <2>2. cache'[SetOf(LineOf(b))] = LineOf(b) /\ cache[SetOf(LineOf(b))] # LineOf(b)
    BY <1>10 DEF Resident, Cache!Resident, SetOf, LineOf
  <2> QED  BY <1>5, <1>c, <2>1, <2>2
<1> QED  BY <1>2, <1>3, <1>9, <1>10

(***************************************************************************)
(* The invariant.  Blocks are whole lines, and none of them is held; of a  *)
(* block to be, the lines the flush has passed are not held.  Stale in a   *)
(* region that is being handed over are only lines the flush is yet to     *)
(* come to.                                                                *)
(***************************************************************************)
Flush == [op : {"none", "flushda", "initda", "flushd"}, i : Nat, end : Nat, start : Nat,
          block : BOOLEAN]
Gone(start, len) == \A a \in Cache!Span(start, len) : ~Resident(a)

BlocksInv == \A b \in uncached : Whole(b.start, b.len) /\ Gone(b.start, b.len)
FlushInv ==
  /\ flush \in Flush /\ flush.start <= flush.i
  /\ flush.op = "none" <=> flush = Cache!NoFlush
  /\ flush.start % Line = 0 => flush.i % Line = 0
  /\ flush.op = "initda" => flush.start % Line = 0
  /\ flush.block =>
       /\ flush.op = "flushda" /\ flush.start <= flush.end
       /\ Whole(flush.start, flush.end - flush.start)
       /\ \A a \in Cache!Span(flush.start, flush.end - flush.start) : a < flush.i => ~Resident(a)
HandedInv ==
  /\ handed \subseteq Addr
  /\ \A a \in handed \cap staleMem :
       flush.op = "flushda" /\ a < flush.end /\ LineOf(flush.i) <= LineOf(a)
CacheInv == Contents /\ BlocksInv /\ FlushInv /\ HandedInv

LEMMA WholeWithin ==
  ASSUME NEW start, NEW len, Whole(start, len)
  PROVE  Cache!Span(start, len) \subseteq Addr
  BY CacheConstants DEF Whole, Cache!Span, Addr, Cache!Addr

\* What a reserved region has, a line has that one of its addresses is on.
LEMMA ReservedLines ==
  ASSUME BlocksInv, FlushInv, NEW a \in Addr, NEW b \in Addr, LineOf(a) = LineOf(b),
         b \in Cache!Reserved
  PROVE  a \in Cache!Reserved
<1>0. a \in Nat
  BY AddrIs
<1>1. CASE b \in Cache!BlockUnits
  <2>1. PICK c \in uncached : b \in Cache!Span(c.start, c.len)
    BY <1>1 DEF Cache!BlockUnits
  <2>2. a \in Cache!Span(c.start, c.len)
    BY <1>0, <2>1, WholeLines DEF BlocksInv
  <2> QED  BY <2>1, <2>2 DEF Cache!Reserved, Cache!BlockUnits
<1>2. CASE flush.block /\ b \in Cache!Span(flush.start, flush.end - flush.start)
  <2>1. a \in Cache!Span(flush.start, flush.end - flush.start)
    BY <1>0, <1>2, WholeLines DEF FlushInv
  <2> QED  BY <1>2, <2>1 DEF Cache!Reserved
<1> QED  BY <1>1, <1>2 DEF Cache!Reserved

\* What is reserved stays out of the cache while lines that are not come in.
LEMMA ReservedStays ==
  ASSUME BlocksInv, FlushInv, NEW a \in Addr, a \notin Cache!Reserved,
         UNCHANGED <<uncached, flush>>,
         \A b \in Addr : Resident(b)' => Resident(b) \/ LineOf(b) = LineOf(a)
  PROVE  BlocksInv' /\ FlushInv'
<1>1. ASSUME NEW b \in Cache!Reserved, b \in Addr, ~Resident(b) PROVE ~Resident(b)'
  BY <1>1, ReservedLines
<1>2. \A start, len : Whole(start, len) => Cache!Span(start, len) \subseteq Addr
  BY WholeWithin
<1>3. BlocksInv'
  <2> SUFFICES ASSUME NEW b \in uncached, NEW x \in Cache!Span(b.start, b.len)
               PROVE  Whole(b.start, b.len) /\ ~Resident(x)'
    BY DEF BlocksInv, Gone
  <2>1. Whole(b.start, b.len) /\ ~Resident(x)
    BY DEF BlocksInv, Gone
  <2>2. x \in Addr /\ x \in Cache!Reserved
    BY <1>2, <2>1 DEF Cache!Reserved, Cache!BlockUnits
  <2> QED  BY <1>1, <2>1, <2>2
<1>4. FlushInv'
  <2>1. ASSUME flush.block,
               NEW x \in Cache!Span(flush.start, flush.end - flush.start), x < flush.i
        PROVE  ~Resident(x)'
    <3>1. Whole(flush.start, flush.end - flush.start) /\ ~Resident(x)
      BY <2>1 DEF FlushInv
    <3>2. x \in Addr /\ x \in Cache!Reserved
      BY <1>2, <2>1, <3>1 DEF Cache!Reserved
    <3> QED  BY <1>1, <3>1, <3>2
  <2> QED  BY <2>1 DEF FlushInv
<1> QED  BY <1>3, <1>4

\* Lines go, none comes, and nothing more is stale.
LEMMA BlocksGo ==
  ASSUME BlocksInv, UNCHANGED uncached, \A b \in Addr : Resident(b)' => Resident(b)
  PROVE  BlocksInv'
<1> SUFFICES ASSUME NEW b \in uncached, NEW x \in Cache!Span(b.start, b.len)
             PROVE  Whole(b.start, b.len) /\ ~Resident(x)'
  BY DEF BlocksInv, Gone
<1>1. Whole(b.start, b.len) /\ ~Resident(x)
  BY DEF BlocksInv, Gone
<1> QED  BY <1>1, WholeWithin

LEMMA LinesGo ==
  ASSUME BlocksInv, FlushInv, UNCHANGED <<uncached, flush>>,
         \A b \in Addr : Resident(b)' => Resident(b)
  PROVE  BlocksInv' /\ FlushInv'
<1>1. BlocksInv'
  BY BlocksGo
<1>2. FlushInv'
  BY WholeWithin DEF FlushInv
<1> QED  BY <1>1, <1>2

LEMMA CacheInit == Cache!Init => CacheInv
<1> SUFFICES ASSUME Cache!Init PROVE CacheInv
  OBVIOUS
<1>1. /\ cache = [s \in Cache!Set |-> Cache!None] /\ dirty = {} /\ staleLine = {} /\ staleMem = {}
      /\ uncached = {} /\ flush = Cache!NoFlush /\ handed = {}
  BY DEF Cache!Init
<1>2. Contents
  BY <1>1 DEF Contents, Cache!None
<1>3. BlocksInv /\ HandedInv
  BY <1>1 DEF BlocksInv, HandedInv
<1>4. /\ Cache!NoFlush \in Flush /\ Cache!NoFlush.op = "none" /\ ~Cache!NoFlush.block
      /\ Cache!NoFlush.i = Cache!NoFlush.start
  BY DEF Cache!NoFlush, Flush
<1>5. \A n \in Nat : n <= n
  OBVIOUS
<1>6. Cache!NoFlush.i \in Nat
  BY <1>4 DEF Flush
<1>7. FlushInv
  BY <1>1, <1>4, <1>5, <1>6 DEF FlushInv
<1> QED  BY <1>2, <1>3, <1>7 DEF CacheInv

LEMMA CacheLoad ==
  ASSUME CacheInv, NEW a \in Addr, Cache!Load(a)
  PROVE  CacheInv'
<1>1. /\ a \notin Cache!Reserved /\ ~Resident(a) /\ Cache!Fill(Cache!LineOf(a), {})
      /\ dirty' = dirty \ {Cache!SetOf(Cache!LineOf(a))} /\ handed' = handed \ {a}
      /\ UNCHANGED <<uncached, flush>>
  BY DEF Cache!Load, Resident
<1>2. /\ Contents' /\ staleMem' \subseteq staleMem
      /\ \A b \in Addr : Resident(b)' => Resident(b) \/ LineOf(b) = LineOf(a)
  BY <1>1, Filled DEF CacheInv
<1>3. BlocksInv' /\ FlushInv'
  BY <1>1, <1>2, ReservedStays DEF CacheInv
<1>4. HandedInv'
  BY <1>1, <1>2 DEF CacheInv, HandedInv
<1> QED  BY <1>2, <1>3, <1>4 DEF CacheInv

LEMMA CacheStore ==
  ASSUME CacheInv, NEW a \in Addr, Cache!Store(a)
  PROVE  CacheInv'
<1>1. /\ a \notin Cache!Reserved /\ handed' = handed \ {a}
      /\ dirty' = dirty \cup {Cache!SetOf(Cache!LineOf(a))}
      /\ UNCHANGED <<uncached, flush>>
  BY DEF Cache!Store
<1>2. /\ Contents' /\ staleMem' \subseteq staleMem \cup {a}
      /\ \A b \in Addr : Resident(b)' => Resident(b) \/ LineOf(b) = LineOf(a)
  <2>1. CASE Resident(a)
    <3>1. staleLine' = staleLine \ {a} /\ staleMem' = staleMem \cup {a} /\ UNCHANGED cache
      BY <2>1 DEF Cache!Store, Resident
    <3>2. /\ SetOf(LineOf(a)) \in Cache!Set /\ cache[SetOf(LineOf(a))] = LineOf(a)
          /\ LineOf(a) \in 0..(Top \div Line - 1)
      BY <2>1, AddrIs DEF Resident, Cache!Resident, SetOf, LineOf
    <3>3. LineOf(a) # Cache!None
      <4>1. Top \div Line \in Nat
        BY CacheConstants, DivIs
      <4> QED  BY <3>2, <4>1 DEF Cache!None
    <3>4. dirty' = dirty \cup {SetOf(LineOf(a))}
      BY <1>1 DEF SetOf, LineOf
    <3>5. \A b : Resident(b)' <=> Resident(b)
      BY <3>1 DEF Resident, Cache!Resident
    <3>6. Contents'
      <4>1. dirty \subseteq {s \in Cache!Set : cache[s] # Cache!None} /\ cache' = cache
        BY <3>1 DEF CacheInv, Contents
      <4>2. dirty' \subseteq {s \in Cache!Set : cache'[s] # Cache!None}
        BY <3>2, <3>3, <3>4, <4>1
      <4>3. \A b \in staleMem : Resident(b) /\ SetOf(LineOf(b)) \in dirty
        BY DEF CacheInv, Contents
      <4>4. \A b \in staleMem' : Resident(b)' /\ SetOf(LineOf(b)) \in dirty'
        BY <2>1, <3>1, <3>4, <3>5, <4>3
      <4>5. staleLine' = {} /\ staleMem' \subseteq Addr
        BY <3>1 DEF CacheInv, Contents
      <4>6. cache' \in [Cache!Set -> Int] /\ \A s \in Cache!Set : cache'[s] = Cache!None \/ Held(s)'
        BY <3>1 DEF CacheInv, Contents, Held
      <4> QED  BY <4>2, <4>4, <4>5, <4>6 DEF Contents
    <3> QED  BY <3>1, <3>5, <3>6
  <2>2. CASE ~Resident(a)
    <3>1. Cache!Fill(Cache!LineOf(a), {a})
      BY <2>2 DEF Cache!Store, Resident
    <3> QED  BY <1>1, <2>2, <3>1, Filled DEF CacheInv
  <2> QED  BY <2>1, <2>2
<1>3. BlocksInv' /\ FlushInv'
  BY <1>1, <1>2, ReservedStays DEF CacheInv
<1>4. HandedInv'
  BY <1>1, <1>2 DEF CacheInv, HandedInv
<1> QED  BY <1>2, <1>3, <1>4 DEF CacheInv

LEMMA CacheStoreUncached ==
  ASSUME CacheInv, NEW a \in Addr, Cache!StoreUncached(a)
  PROVE  CacheInv'
<1>1. /\ a \in Cache!BlockUnits /\ staleMem' = staleMem \ {a}
      /\ staleLine' = IF Cache!Resident(a) THEN staleLine \cup {a} ELSE staleLine
      /\ UNCHANGED <<cache, dirty, uncached, flush, handed>>
  BY DEF Cache!StoreUncached
<1>2. ~Cache!Resident(a)
  BY <1>1 DEF CacheInv, BlocksInv, Gone, Cache!BlockUnits, Resident
<1>3. Contents'
  BY <1>1, <1>2 DEF CacheInv, Contents, Held, Resident, Cache!Resident
<1>4. \A b \in Addr : Resident(b)' => Resident(b)
  BY <1>1 DEF Resident, Cache!Resident
<1>5. BlocksInv' /\ FlushInv'
  BY <1>1, <1>4, LinesGo DEF CacheInv
<1>6. HandedInv'
  BY <1>1 DEF CacheInv, HandedInv
<1> QED  BY <1>3, <1>5, <1>6 DEF CacheInv

\* A flush instruction: the line of its address is gone, and nothing has come.
LEMMA Flushed ==
  ASSUME Contents, flush \in Flush, flush.op # "none",
         flush.op = "initda" => flush.start <= flush.i /\ flush.i < flush.end,
         Cache!Instruction(flush.i)
  PROVE  /\ Contents' /\ staleMem' \subseteq staleMem
         /\ \A a \in Addr : Resident(a)' => Resident(a)
         /\ flush.op # "flushd" => \A a \in Addr : LineOf(a) = LineOf(flush.i) => ~Resident(a)'
<1> DEFINE i == flush.i
           s == SetOf(LineOf(i))
<1>0. /\ i \in Nat /\ flush.start \in Nat /\ flush.end \in Nat
      /\ flush.op \in {"flushda", "initda", "flushd"}
  BY DEF Flush
<1>1. s \in Cache!Set
  BY <1>0, LineIs, SetIs
<1>2. ASSUME Cache!Writeback(s)
      PROVE  /\ Contents' /\ staleMem' \subseteq staleMem
             /\ \A a \in Addr : Resident(a)' => Resident(a) /\ SetOf(LineOf(a)) # s
  <2>1. Cache!Empty(s) /\ staleMem' = Cache!MemAfter(s)
    BY <1>2 DEF Cache!Writeback
  <2> QED  BY <1>1, <2>1, WrittenBack, Emptied
<1>3. ASSUME Cache!Drop(s), Cache!Resident(i), flush.op = "initda"
      PROVE  /\ Contents' /\ staleMem' \subseteq staleMem
             /\ \A a \in Addr : Resident(a)' => Resident(a) /\ SetOf(LineOf(a)) # s
  <2>1. /\ Cache!Empty(s)
        /\ staleMem' = staleMem \ (Cache!Unit(cache[s]) \cap Cache!Touched(flush.start, flush.end - flush.start))
    BY <1>3 DEF Cache!Drop
  <2>2. cache[s] = LineOf(i)
    BY <1>3 DEF Cache!Resident, SetOf, LineOf
  <2>3. i \in Cache!Span(flush.start, flush.end - flush.start)
    BY <1>0, <1>3 DEF Cache!Span
  <2>4. ASSUME NEW a \in staleMem', SetOf(LineOf(a)) = s PROVE FALSE
    <3>1. a \in staleMem /\ a \in Addr /\ Resident(a)
      BY <2>1 DEF Contents
    <3>2. LineOf(a) = LineOf(i)
      BY <2>2, <2>4, <3>1 DEF Resident, Cache!Resident, SetOf, LineOf
    <3>3. a \in Cache!Unit(cache[s])
      BY <2>2, <3>1, <3>2 DEF Cache!Unit, Addr, LineOf
    <3>4. a \in Cache!Touched(flush.start, flush.end - flush.start)
      BY <2>3, <3>1, <3>2 DEF Cache!Touched, Addr, LineOf
    <3> QED  BY <2>1, <3>3, <3>4
  <2>5. staleMem' \subseteq staleMem
    BY <2>1
  <2> QED  BY <1>1, <2>1, <2>4, <2>5, Emptied
<1>4. ASSUME Cache!Keep
      PROVE  /\ Contents' /\ staleMem' \subseteq staleMem
             /\ \A a \in Addr : Resident(a)' => Resident(a)
  BY <1>4 DEF Cache!Keep, Contents, Held, Resident, Cache!Resident
<1>5. ASSUME Cache!Keep, ~Cache!Resident(i), NEW a \in Addr, LineOf(a) = LineOf(i)
      PROVE  ~Resident(a)'
  BY <1>5 DEF Cache!Keep, Resident, Cache!Resident, LineOf
<1> HIDE DEF s
<1>6. CASE flush.op = "flushd"
  <2>1. Cache!Writeback(s)
    BY <1>6 DEF Cache!Instruction, s, SetOf, LineOf
  <2> QED  BY <1>2, <1>6, <2>1
<1>7. CASE flush.op = "flushda"
  <2>1. CASE Cache!Resident(i)
    <3>1. Cache!Writeback(s)
      BY <1>7, <2>1 DEF Cache!Instruction, s, SetOf, LineOf
    <3> QED  BY <1>2, <1>7, <3>1 DEF s
  <2>2. CASE ~Cache!Resident(i)
    <3>1. Cache!Keep
      BY <1>7, <2>2 DEF Cache!Instruction
    <3> QED  BY <1>4, <1>5, <2>2, <3>1
  <2> QED  BY <2>1, <2>2
<1>8. CASE flush.op = "initda"
  <2>1. CASE Cache!Resident(i)
    <3>1. Cache!Drop(s)
      BY <1>8, <2>1 DEF Cache!Instruction, s, SetOf, LineOf
    <3> QED  BY <1>3, <1>8, <2>1, <3>1 DEF s
  <2>2. CASE ~Cache!Resident(i)
    <3>1. Cache!Keep
      BY <1>8, <2>2 DEF Cache!Instruction
    <3> QED  BY <1>4, <1>5, <2>2, <3>1
  <2> QED  BY <2>1, <2>2
<1> QED  BY <1>0, <1>6, <1>7, <1>8

\* The cache does not change, and what is reserved does not grow.
LEMMA CacheKept ==
  ASSUME CacheInv, UNCHANGED <<cache, dirty, staleLine, staleMem>>
  PROVE  Contents' /\ \A a : Resident(a)' <=> Resident(a)
  BY DEF CacheInv, Contents, Held, Resident, Cache!Resident

\* A flush is called for a region that is no block to be.
LEMMA CacheRegion ==
  ASSUME CacheInv, NEW op \in {"flushda", "initda", "flushd"}, NEW start \in Nat, NEW len \in Nat,
         Cache!Region(op, start, len), op = "initda" => start % Line = 0,
         handed' \subseteq Addr,
         handed' = {} \/ (op = "flushda" /\ handed' \subseteq Cache!Span(start, len))
  PROVE  CacheInv'
<1> DEFINE e == start + len
<1>1. /\ flush' = [Cache!NoFlush EXCEPT !.op = op, !.i = start, !.end = e, !.start = start]
      /\ UNCHANGED <<cache, dirty, staleLine, staleMem, uncached>>
  BY DEF Cache!Region
<1>2. /\ flush' \in Flush /\ flush'.op = op /\ flush'.i = start /\ flush'.start = start
      /\ flush'.end = start + len /\ ~flush'.block /\ flush' # Cache!NoFlush
  <2>1. Cache!NoFlush \in Flush /\ ~Cache!NoFlush.block /\ Cache!NoFlush.op = "none"
    BY DEF Cache!NoFlush, Flush
  <2>2. e \in Nat
    OBVIOUS
  <2> HIDE DEF e
  <2> DEFINE a == [Cache!NoFlush EXCEPT !.op = op]
             b == [a EXCEPT !.i = start]
             c == [b EXCEPT !.end = e]
             d == [c EXCEPT !.start = start]
  <2>3. flush' = d
    BY <1>1, Zenon
  <2>4. a \in Flush /\ a.op = op /\ a.block = Cache!NoFlush.block
    BY <2>1 DEF Flush
  <2> HIDE DEF a
  <2>5. b \in Flush /\ b.op = a.op /\ b.i = start /\ b.block = a.block
    BY <2>4 DEF Flush
  <2> HIDE DEF b
  <2>6. c \in Flush /\ c.op = b.op /\ c.i = b.i /\ c.end = e /\ c.block = b.block
    BY <2>2, <2>5 DEF Flush
  <2> HIDE DEF c
  <2>7. d \in Flush /\ d.op = c.op /\ d.i = c.i /\ d.end = c.end /\ d.start = start /\ d.block = c.block
    BY <2>6 DEF Flush
  <2> HIDE DEF d
  <2> QED  BY <2>1, <2>3, <2>4, <2>5, <2>6, <2>7 DEF e
<1>3. Contents' /\ \A a : Resident(a)' <=> Resident(a)
  BY <1>1, CacheKept
<1>4. BlocksInv'
  BY <1>1, <1>3 DEF CacheInv, BlocksInv, Gone
<1>5. FlushInv'
  BY <1>2 DEF FlushInv
<1>6. HandedInv'
  <2> SUFFICES ASSUME NEW a \in handed', op = "flushda", a \in Cache!Span(start, len)
               PROVE  a < flush'.end /\ LineOf(flush'.i) <= LineOf(a)
    BY <1>2 DEF HandedInv
  <2>1. a \in Nat /\ start <= a /\ a < start + len
    BY DEF Cache!Span
  <2> QED  BY <1>2, <2>1, LineMonotone
<1> QED  BY <1>3, <1>4, <1>5, <1>6 DEF CacheInv

LEMMA CacheMalloc ==
  ASSUME CacheInv, NEW start \in Addr, NEW size \in Lengths, Cache!alt_uncached_malloc(start, size)
  PROVE  CacheInv'
<1> DEFINE len == Cache!Aligned(size)
           new == [op |-> "flushda", i |-> start, end |-> start + len, start |-> start, block |-> TRUE]
<1>1. /\ start % Line = 0 /\ start + len <= Top /\ flush' = new /\ handed' = {}
      /\ UNCHANGED <<cache, dirty, staleLine, staleMem, uncached>>
  BY DEF Cache!alt_uncached_malloc
<1>2. len \in Nat /\ len % Line = 0
  <2> DEFINE n == (size + Line - 1) \div Line
  <2>1. n \in Nat
    <3>1. size + Line - 1 \in Nat
      BY CacheConstants
    <3> QED  BY <3>1, CacheConstants, DivIs
  <2>2. len = n * Line
    BY DEF Cache!Aligned
  <2> HIDE DEF n, len
  <2>3. len \in Nat /\ len = Line * n + 0 /\ 0 \in 0..(Line - 1)
    BY <2>1, <2>2, CacheConstants
  <2> QED  BY <2>1, <2>3, CacheConstants, DivMod
<1>3. start \in Nat
  BY AddrIs
<1> HIDE DEF len
<1>4. /\ flush' \in Flush /\ flush'.op = "flushda" /\ flush'.i = start /\ flush'.start = start
      /\ flush'.end = start + len /\ flush'.block /\ flush' # Cache!NoFlush
  <2>1. new \in Flush /\ new.op # "none"
    BY <1>2, <1>3 DEF Flush
  <2>2. Cache!NoFlush.op = "none"
    BY DEF Cache!NoFlush
  <2> QED  BY <1>1, <2>1, <2>2
<1> HIDE DEF new
<1>5. Contents' /\ \A a : Resident(a)' <=> Resident(a)
  BY <1>1, CacheKept
<1>6. BlocksInv'
  BY <1>1, <1>5 DEF CacheInv, BlocksInv, Gone
<1>7. FlushInv'
  <2>1. flush'.end - flush'.start = len
    BY <1>2, <1>3, <1>4
  <2>2. Whole(start, len) /\ start <= start + len /\ start <= start
    BY <1>1, <1>2, <1>3 DEF Whole
  <2>3. ASSUME NEW a \in Cache!Span(start, len) PROVE ~(a < start)
    BY <1>2, <1>3 DEF Cache!Span
  <2> QED  BY <1>1, <1>4, <2>1, <2>2, <2>3 DEF FlushInv
<1>8. HandedInv'
  BY <1>1 DEF HandedInv
<1> QED  BY <1>5, <1>6, <1>7, <1>8 DEF CacheInv

LEMMA CacheFree ==
  ASSUME CacheInv, NEW b \in uncached, Cache!alt_uncached_free(b)
  PROVE  CacheInv'
<1>1. uncached' \subseteq uncached /\ UNCHANGED <<cache, dirty, staleLine, staleMem, flush, handed>>
  BY DEF Cache!alt_uncached_free
<1>2. Contents' /\ \A a : Resident(a)' <=> Resident(a)
  BY <1>1, CacheKept
<1>3. BlocksInv'
  BY <1>1, <1>2 DEF CacheInv, BlocksInv, Gone
<1>4. FlushInv'
  BY <1>1, <1>2 DEF CacheInv, FlushInv
<1>5. HandedInv'
  BY <1>1 DEF CacheInv, HandedInv
<1> QED  BY <1>2, <1>3, <1>4, <1>5 DEF CacheInv

LEMMA CacheFlushLine ==
  ASSUME CacheInv, Cache!FlushLine
  PROVE  CacheInv'
<1> DEFINE i == flush.i
           new == [flush EXCEPT !.i = i + Line]
<1>1. /\ flush # Cache!NoFlush /\ i < flush.end /\ Cache!Instruction(i)
      /\ flush' = new /\ UNCHANGED <<uncached, handed>>
  BY DEF Cache!FlushLine
<1>2. /\ flush \in Flush /\ flush.op # "none" /\ flush.start <= i /\ i \in Nat
      /\ flush.start \in Nat /\ flush.end \in Nat
  BY <1>1 DEF CacheInv, FlushInv, Flush
<1>3. /\ Contents' /\ staleMem' \subseteq staleMem
      /\ \A a \in Addr : Resident(a)' => Resident(a)
      /\ flush.op # "flushd" => \A a \in Addr : LineOf(a) = LineOf(i) => ~Resident(a)'
  BY <1>1, <1>2, Flushed DEF CacheInv
<1>4. /\ new \in Flush /\ new.op = flush.op /\ new.i = i + Line /\ new.start = flush.start
      /\ new.end = flush.end /\ new.block = flush.block
  BY <1>2, CacheConstants DEF Flush
<1> HIDE DEF new
<1>5. /\ flush' \in Flush /\ flush'.op = flush.op /\ flush'.i = i + Line /\ flush'.start = flush.start
      /\ flush'.end = flush.end /\ flush'.block = flush.block
  BY <1>1, <1>4
<1>6. BlocksInv'
  BY <1>1, <1>3, BlocksGo DEF CacheInv
<1>7. flush.start % Line = 0 => i % Line = 0 /\ (i + Line) % Line = 0
  <2> SUFFICES ASSUME i % Line = 0 PROVE (i + Line) % Line = 0
    BY DEF CacheInv, FlushInv
  <2>1. Line % Line = 0 /\ Line \in Nat
    <3>1. Line = Line * 1 + 0 /\ 0 \in 0..(Line - 1)
      BY CacheConstants
    <3> QED  BY <3>1, CacheConstants, DivMod
  <2> HIDE DEF i
  <2> QED  BY <1>2, <2>1, WholeSum
<1>8. ASSUME flush.block,
             NEW x \in Cache!Span(flush.start, flush.end - flush.start), x < i + Line
      PROVE  ~Resident(x)'
  <2>1. /\ Whole(flush.start, flush.end - flush.start) /\ flush.op = "flushda"
        /\ x < i => ~Resident(x)
    BY <1>8 DEF CacheInv, FlushInv
  <2>2. x \in Addr /\ x \in Nat
    BY <2>1, WholeWithin, AddrIs
  <2>3. CASE x < i
    BY <1>3, <2>1, <2>2, <2>3
  <2>4. CASE i <= x
    <3>1. i % Line = 0
      BY <1>7, <2>1 DEF Whole
    <3>2. LineOf(x) = LineOf(i)
      BY <1>2, <1>8, <2>2, <2>4, <3>1, LineBefore
    <3> QED  BY <1>3, <2>1, <2>2, <3>2
  <2> QED  BY <1>2, <2>2, <2>3, <2>4
<1>9. FlushInv'
  <2>1. flush' # Cache!NoFlush
    BY <1>2, <1>5 DEF Cache!NoFlush
  <2>2. flush.start <= i + Line
    BY <1>2, CacheConstants
  <2> QED  BY <1>2, <1>5, <1>7, <1>8, <2>1, <2>2 DEF CacheInv, FlushInv
<1>10. HandedInv'
  <2> SUFFICES ASSUME NEW a \in handed, a \in staleMem'
               PROVE  flush.op = "flushda" /\ a < flush.end /\ LineOf(i + Line) <= LineOf(a)
    BY <1>1, <1>5 DEF CacheInv, HandedInv
  <2>1. flush.op = "flushda" /\ a < flush.end /\ LineOf(i) <= LineOf(a) /\ a \in Addr
    BY <1>3 DEF CacheInv, HandedInv
  <2>2. LineOf(a) # LineOf(i)
    BY <1>3, <2>1 DEF Contents
  <2>3. LineOf(a) \in Nat /\ LineOf(i) \in Nat /\ LineOf(i + Line) = LineOf(i) + 1
    BY <1>2, <2>1, AddrIs, LineIs, LineNext
  <2> QED  BY <2>1, <2>2, <2>3
<1> QED  BY <1>3, <1>6, <1>9, <1>10 DEF CacheInv

LEMMA CacheFlushLast ==
  ASSUME CacheInv, Cache!FlushLast
  PROVE  CacheInv'
<1> DEFINE i == flush.i
           len == flush.end - flush.start
<1>1. /\ flush # Cache!NoFlush /\ i >= flush.end /\ flush' = Cache!NoFlush /\ UNCHANGED handed
      /\ IF Cache!Unaligned(flush.start) THEN Cache!Instruction(i) ELSE Cache!Keep
      /\ uncached' = IF flush.block THEN uncached \cup {[start |-> flush.start, len |-> len]}
                     ELSE uncached
  BY DEF Cache!FlushLast
<1>2. /\ flush \in Flush /\ flush.op # "none" /\ flush.start <= i /\ i \in Nat
      /\ flush.start \in Nat /\ flush.end \in Nat
      /\ flush.start % Line = 0 => i % Line = 0
      /\ flush.op = "initda" => flush.start % Line = 0
  BY <1>1 DEF CacheInv, FlushInv, Flush
<1>3. Cache!Unaligned(flush.start) <=> flush.start % Line # 0
  BY DEF Cache!Unaligned
<1>4. /\ Contents' /\ staleMem' \subseteq staleMem
      /\ \A a \in Addr : Resident(a)' => Resident(a)
      /\ flush.op = "flushda" /\ Cache!Unaligned(flush.start)
           => \A a \in Addr : LineOf(a) = LineOf(i) => ~Resident(a)'
  <2>1. CASE Cache!Unaligned(flush.start)
    BY <1>1, <1>2, <1>3, <2>1, Flushed DEF CacheInv
  <2>2. CASE ~Cache!Unaligned(flush.start)
    <3>1. Cache!Keep
      BY <1>1, <2>2
    <3>2. Contents' /\ \A a : Resident(a)' <=> Resident(a)
      BY <3>1, CacheKept DEF Cache!Keep
    <3> QED  BY <2>2, <3>1, <3>2 DEF Cache!Keep
  <2> QED  BY <2>1, <2>2
<1>5. BlocksInv'
  <2>1. ASSUME NEW b \in uncached
        PROVE  Whole(b.start, b.len) /\ \A x \in Cache!Span(b.start, b.len) : ~Resident(x)'
    <3>1. Whole(b.start, b.len) /\ \A x \in Cache!Span(b.start, b.len) : ~Resident(x)
      BY DEF CacheInv, BlocksInv, Gone
    <3> QED  BY <1>4, <3>1, WholeWithin
  <2> DEFINE start == flush.start
             new == [start |-> start, len |-> len]
  <2>2. ASSUME flush.block
        PROVE  Whole(start, len) /\ \A x \in Cache!Span(start, len) : ~Resident(x)'
    <3>1. /\ Whole(start, len)
          /\ \A x \in Cache!Span(start, len) : x < i => ~Resident(x)
      BY <2>2 DEF CacheInv, FlushInv
    <3>2. \A x \in Cache!Span(start, len) : x < i
      BY <1>1, <1>2 DEF Cache!Span
    <3> HIDE DEF len, i, start
    <3> QED  BY <1>4, <3>1, <3>2, WholeWithin
  <2>3. new.start = start /\ new.len = len
    OBVIOUS
  <2>4. uncached' = uncached \/ (flush.block /\ uncached' = uncached \cup {new})
    BY <1>1
  <2> HIDE DEF new, len, start
  <2> SUFFICES ASSUME NEW b \in uncached'
               PROVE  Whole(b.start, b.len) /\ \A x \in Cache!Span(b.start, b.len) : ~Resident(x)'
    BY DEF BlocksInv, Gone
  <2>5. b \in uncached \/ (flush.block /\ b = new)
    BY <2>4
  <2> QED  BY <2>1, <2>2, <2>3, <2>5
<1>6. FlushInv'
  <2>1. Cache!NoFlush \in Flush /\ Cache!NoFlush.op = "none" /\ ~Cache!NoFlush.block
        /\ Cache!NoFlush.i = 0 /\ Cache!NoFlush.start = 0
    BY DEF Cache!NoFlush, Flush
  <2> QED  BY <1>1, <2>1 DEF FlushInv
<1>7. HandedInv'
  <2> SUFFICES ASSUME NEW a \in handed, a \in staleMem' PROVE FALSE
    BY <1>1 DEF CacheInv, HandedInv
  <2>1. flush.op = "flushda" /\ a < flush.end /\ LineOf(i) <= LineOf(a) /\ a \in Addr /\ a \in Nat
    BY <1>4, AddrIs DEF CacheInv, HandedInv
  <2>2. a < i /\ LineOf(a) <= LineOf(i) /\ LineOf(a) \in Nat /\ LineOf(i) \in Nat
    BY <1>1, <1>2, <2>1, LineMonotone, LineIs
  <2>3. LineOf(a) = LineOf(i)
    BY <2>1, <2>2
  <2>4. CASE Cache!Unaligned(flush.start)
    BY <1>4, <2>1, <2>3, <2>4 DEF Contents
  <2>5. CASE ~Cache!Unaligned(flush.start)
    <3>1. i % Line = 0
      BY <1>2, <1>3, <2>5
    <3>2. LineOf(a) < LineOf(i)
      BY <1>2, <2>1, <2>2, <3>1, LineBefore
    <3> QED  BY <2>2, <2>3, <3>2
  <2> QED  BY <2>4, <2>5
<1> QED  BY <1>4, <1>5, <1>6, <1>7 DEF CacheInv

LEMMA CacheStep ==
  ASSUME DropsAnywhere = FALSE, CacheInv, [Cache!Next]_cacheVars
  PROVE  CacheInv'
<1>1. ASSUME NEW a \in Addr, Cache!Load(a) \/ Cache!Store(a) \/ Cache!StoreUncached(a)
      PROVE  CacheInv'
  BY <1>1, CacheLoad, CacheStore, CacheStoreUncached
<1>2. ASSUME NEW start \in Addr, NEW len \in Lengths, start + len <= Top,
             Cache!alt_dcache_flush(start, len)
      PROVE  CacheInv'
  <2>1. /\ start \in Nat /\ len \in Nat /\ Cache!Region("flushda", start, len)
        /\ handed' = Cache!Span(start, len) \ Cache!Reserved
    BY <1>2, AddrIs, CacheConstants DEF Cache!alt_dcache_flush
  <2>2. Cache!Span(start, len) \subseteq Addr
    BY <1>2, <2>1, CacheConstants DEF Cache!Span, Addr, Cache!Addr
  <2> QED  BY <2>1, <2>2, CacheRegion
<1>3. ASSUME NEW start \in Addr, NEW len \in Lengths,
             Cache!alt_dcache_flush_no_writeback(start, len)
      PROVE  CacheInv'
  <2>1. /\ start \in Nat /\ len \in Nat /\ Cache!Region("initda", start, len)
        /\ handed' = {} /\ start % Line = 0
    BY <1>3, AddrIs, CacheConstants DEF Cache!alt_dcache_flush_no_writeback
  <2> QED  BY <2>1, CacheRegion
<1>4. ASSUME NEW start \in Addr, NEW len \in Lengths, Cache!alt_uncached_malloc(start, len)
      PROVE  CacheInv'
  BY <1>4, CacheMalloc
<1>5. CASE Cache!alt_dcache_flush_all
  <2>1. Cache!Region("flushd", 0, Sets * Line) /\ handed' = {} /\ Sets * Line \in Nat
    BY <1>5, CacheConstants DEF Cache!alt_dcache_flush_all
  <2> QED  BY <2>1, CacheRegion
<1>6. CASE Cache!FlushLine
  BY <1>6, CacheFlushLine
<1>7. CASE Cache!FlushLast
  BY <1>7, CacheFlushLast
<1>8. ASSUME NEW b \in uncached, Cache!alt_uncached_free(b) \/ Cache!alt_remap_cached(b)
      PROVE  CacheInv'
  BY <1>8, CacheFree DEF Cache!alt_remap_cached
<1>9. CASE UNCHANGED cacheVars
  <2>1. UNCHANGED <<cache, dirty, staleLine, staleMem, uncached, flush, handed>>
    BY <1>9 DEF cacheVars
  <2>2. Contents' /\ \A a : Resident(a)' <=> Resident(a)
    BY <2>1, CacheKept
  <2>3. BlocksInv' /\ FlushInv'
    BY <2>1, <2>2, LinesGo DEF CacheInv
  <2>4. HandedInv'
    BY <2>1 DEF CacheInv, HandedInv
  <2> QED  BY <2>2, <2>3, <2>4 DEF CacheInv
<1> QED
  BY <1>1, <1>2, <1>3, <1>4, <1>5, <1>6, <1>7, <1>8, <1>9 DEF Cache!Next, Addr

LEMMA CacheAlways == ASSUME DropsAnywhere = FALSE PROVE SupportSpec => []CacheInv
<1>1. SupportInit => CacheInv
  BY PartsStart, CacheInit
<1>2. CacheInv /\ [SupportNext]_supportVars => CacheInv'
  BY PartsStep, CacheStep
<1> QED  BY <1>1, <1>2, PTL DEF SupportSpec

LEMMA CacheCurrent == CacheInv => MemoryCurrent
<1> SUFFICES ASSUME CacheInv PROVE MemoryCurrent
  OBVIOUS
<1>1. ASSUME NEW a \in Addr, a \in staleMem PROVE Resident(a) /\ a \notin Cache!BlockUnits
  <2>1. Resident(a)
    BY <1>1 DEF CacheInv, Contents
  <2>2. ASSUME NEW b \in uncached, a \in Cache!Span(b.start, b.len) PROVE FALSE
    BY <2>1, <2>2 DEF CacheInv, BlocksInv, Gone
  <2> QED  BY <2>1, <2>2 DEF Cache!BlockUnits
<1>2. Cache!Coherent
  BY <1>1 DEF Cache!Coherent, CacheInv, Contents, Addr, Resident
<1>3. Cache!HandedOver
  <2> SUFFICES ASSUME flush = Cache!NoFlush, NEW a \in handed, a \in staleMem PROVE FALSE
    BY DEF Cache!HandedOver
  <2>1. flush.op = "flushda" /\ flush.op = "none"
    BY DEF CacheInv, HandedInv, FlushInv
  <2> QED  BY <2>1
<1> QED  BY <1>2, <1>3 DEF MemoryCurrent

(***************************************************************************)
(* For a cache and a memory of any size: whoever loads finds the last      *)
(* store, through the cache or past it, whatever is evicted, flushed,      *)
(* dropped or made an uncached block meanwhile, and what has been flushed  *)
(* and not touched since is in the memory.  Where regions that are not     *)
(* whole lines may be dropped without being written back it does not hold, *)
(* and TLC has the counterexample.                                         *)
(***************************************************************************)
THEOREM MemoryIsCurrent ==
  ASSUME DropsAnywhere = FALSE
  PROVE  SupportSpec => []MemoryCurrent
  BY CacheAlways, CacheCurrent, PTL

-----------------------------------------------------------------------------
(***************************************************************************)
(* The oscillator.  The stages of a counter that are set, and those whose  *)
(* clock has fallen and which will toggle, are together worth the falls of *)
(* its ring since the last clear, but for whole turns: a carry out of the  *)
(* last stage is worth one.  With the types this is inductive.             *)
(***************************************************************************)
Osc == Oscillator!Osc
Stage == Oscillator!Stage
Value(c) == Oscillator!Value(c)
Worth == Oscillator!Weight
Turn == Oscillator!Turn

\* Falls n and a worth of v are the same but for turns.
Exact(n, v) == \E turns \in 0..n : n = turns * Turn + v

OscInv ==
  /\ Oscillator!TypeOK
  /\ \A o \in Osc : Exact(falls[o], Value(count[o]) + Value(clocked[o]))

LEMMA OscConstants ==
  /\ OSC_CNT \in Nat /\ OSC_CNT > 0 /\ CNT_WIDTH \in Nat /\ CNT_WIDTH > 0 /\ MaxFalls \in Nat
  /\ Osc = 0..(OSC_CNT - 1) /\ Stage = 0..(CNT_WIDTH - 1) /\ 0 \in Stage
BY SupportAssumption DEF Oscillator!OscillatorAssumption, Osc, Stage, Oscillator!Osc, Oscillator!Stage

\* The weights double from stage to stage.
WeightBody(m, F) == [k \in 0..m |-> IF k = 0 THEN 1 ELSE 2 * F[k - 1]]

LEMMA WeightExists == ASSUME NEW m \in Nat PROVE \E F : F = WeightBody(m, F)
<1> DEFINE S == {n \in Nat : \E F : F = WeightBody(n, F)}
<1>1. 0 \in S
  <2> DEFINE F == [k \in 0..0 |-> 1]
  <2>1. F = WeightBody(0, F)
    BY DEF WeightBody
  <2> QED  BY <2>1
<1>2. ASSUME NEW n \in Nat, n \in S PROVE n + 1 \in S
  <2>1. PICK F : F = WeightBody(n, F)
    BY <1>2
  <2> DEFINE G == [k \in 0..(n + 1) |-> IF k = n + 1 THEN 2 * F[n] ELSE F[k]]
  <2>2. ASSUME NEW k \in 0..(n + 1) PROVE G[k] = IF k = 0 THEN 1 ELSE 2 * G[k - 1]
    <3>1. CASE k = n + 1
      <4>1. k # 0 /\ k - 1 = n /\ n \in 0..(n + 1) /\ n # n + 1
        BY <3>1
      <4>2. G[k] = 2 * F[n] /\ G[n] = F[n]
        BY <3>1, <4>1
      <4> HIDE DEF G
      <4> QED  BY <4>1, <4>2
    <3>2. CASE k # n + 1
      <4>1. k \in 0..n
        BY <3>2
      <4>2. G[k] = F[k]
        BY <3>2
      <4>3. F[k] = IF k = 0 THEN 1 ELSE 2 * F[k - 1]
        BY <2>1, <4>1 DEF WeightBody
      <4>4. k # 0 => G[k - 1] = F[k - 1]
        BY <4>1
      <4> HIDE DEF G
      <4> QED  BY <4>2, <4>3, <4>4
    <3> QED  BY <3>1, <3>2
  <2>3. G = [k \in 0..(n + 1) |-> G[k]]
    OBVIOUS
  <2> HIDE DEF G
  <2>4. G = WeightBody(n + 1, G)
    BY <2>2, <2>3 DEF WeightBody
  <2> QED  BY <2>4
<1> HIDE DEF S
<1>3. m \in S
  BY <1>1, <1>2, SetInduction
<1> QED  BY <1>3 DEF S

LEMMA WeightIs ==
  /\ Worth[0] = 1
  /\ \A k \in Stage :
       /\ Worth[k] \in Nat /\ Worth[k] > 0
       /\ k + 1 \in Stage => Worth[k + 1] = 2 * Worth[k]
       /\ k + 1 \notin Stage => Turn = 2 * Worth[k]
<1>1. PICK m \in Nat : m = CNT_WIDTH - 1 /\ Stage = 0..m
  BY OscConstants
<1>2. PICK W : W = Worth
  OBVIOUS
<1>3. W = WeightBody(m, W)
  <2>1. \E F : F = WeightBody(m, F)
    BY WeightExists
  <2>2. Worth = CHOOSE F : F = [k \in Stage |-> IF k = 0 THEN 1 ELSE 2 * F[k - 1]]
    BY DEF Worth, Oscillator!Weight, Stage
  <2>3. W = CHOOSE F : F = WeightBody(m, F)
    BY <1>1, <1>2, <2>2 DEF WeightBody
  <2> QED  BY <2>1, <2>3
<1>4. W[0] = 1 /\ \A k \in 0..m : k # 0 => W[k] = 2 * W[k - 1]
  BY <1>3 DEF WeightBody
<1> DEFINE S == {k \in Nat : k <= m => W[k] \in Nat /\ W[k] > 0}
<1>5. 0 \in S
  BY <1>4
<1>6. ASSUME NEW k \in Nat, k \in S PROVE k + 1 \in S
  <2> SUFFICES ASSUME k + 1 <= m PROVE W[k + 1] \in Nat /\ W[k + 1] > 0
    OBVIOUS
  <2>1. k + 1 \in 0..m /\ k + 1 # 0 /\ (k + 1) - 1 = k /\ k <= m
    OBVIOUS
  <2>2. W[k] \in Nat /\ W[k] > 0 /\ W[k + 1] = 2 * W[k]
    BY <1>4, <1>6, <2>1
  <2> QED  BY <2>2
<1> HIDE DEF S
<1>7. \A k \in Nat : k \in S
  BY <1>5, <1>6, SetInduction
<1>8. ASSUME NEW k \in 0..m
      PROVE  /\ W[k] \in Nat /\ W[k] > 0
             /\ k + 1 \in 0..m => W[k + 1] = 2 * W[k]
             /\ k + 1 \notin 0..m => Turn = 2 * W[k]
  <2>1. W[k] \in Nat /\ W[k] > 0
    BY <1>7 DEF S
  <2>2. ASSUME k + 1 \in 0..m PROVE W[k + 1] = 2 * W[k]
    <3>1. k + 1 # 0 /\ (k + 1) - 1 = k
      OBVIOUS
    <3> QED  BY <3>1, <2>2, <1>4
  <2>3. ASSUME k + 1 \notin 0..m PROVE Turn = 2 * W[k]
    <3>1. k = CNT_WIDTH - 1
      BY <1>1, <2>3
    <3> QED  BY <1>2, <3>1 DEF Turn, Oscillator!Turn, Worth
  <2> QED  BY <2>1, <2>2, <2>3
<1> QED  BY <1>1, <1>2, <1>4, <1>8

\* What a counter is worth.
LEMMA ValueSum ==
  ASSUME NEW c \in SUBSET Stage
  PROVE  \E g : Totals(c, Worth, g) /\ Value(c) = g[c]
<1>1. IsFiniteSet(c) /\ \A k \in c : Worth[k] \in Nat
  <2>1. IsFiniteSet(0..(CNT_WIDTH - 1))
    BY OscConstants, FS_Interval
  <2>2. IsFiniteSet(c)
    BY <2>1, OscConstants, FS_Subset
  <2> QED  BY <2>2, WeightIs
<1>2. PICK W : W = Worth
  OBVIOUS
<1>3. PICK g : g = CHOOSE F : F = SumBody(c, W, F)
  OBVIOUS
<1>4. g = SumBody(c, W, g)
  <2>1. \E F : F = SumBody(c, W, F)
    BY <1>1, <1>2, SumExists
  <2> QED  BY <1>3, <2>1, Zenon
<1>5. Totals(c, W, g)
  BY <1>1, <1>2, <1>4 DEF Totals
<1>6. Value(c) = g[c]
  <2>1. Value(c) = (CHOOSE F : F = SumBody(c, W, F))[c]
    BY <1>2 DEF Value, Worth, Oscillator!Value, Oscillator!MapThenSumSet,
                Oscillator!MapThenFoldSet, SumBody
  <2> QED  BY <2>1, <1>3
<1> QED  BY <1>2, <1>5, <1>6

LEMMA ValueIs ==
  ASSUME NEW c \in SUBSET Stage
  PROVE  /\ Value(c) \in Nat /\ Value({}) = 0
         /\ \A k \in c : Value(c) = Worth[k] + Value(c \ {k})
<1>1. PICK g : Totals(c, Worth, g) /\ Value(c) = g[c]
  BY ValueSum
<1>2. SumsUp(c, Worth, g)
  BY <1>1, SumTakes
<1>3. ASSUME NEW b \in SUBSET c PROVE Value(b) = g[b]
  <2>1. PICK h : Totals(b, Worth, h) /\ Value(b) = h[b]
    BY ValueSum
  <2>2. \A k \in b : Worth[k] <= Worth[k]
    BY WeightIs
  <2>3. PICK W : W = Worth
    OBVIOUS
  <2>4. /\ Totals(b, W, h) /\ Totals(c, W, g) /\ b \subseteq b /\ b \subseteq c
        /\ \A k \in b : W[k] <= W[k]
    BY <1>1, <2>1, <2>2, <2>3
  <2>5. g[b] <= h[b]
    BY <2>4, SumGrows
  <2>6. h[b] <= g[b]
    BY <2>4, SumGrows
  <2>7. SumsUp(b, W, h)
    BY <2>4, SumTakes
  <2>8. g[b] \in Nat /\ h[b] \in Nat
    BY <1>2, <2>7 DEF SumsUp
  <2> QED  BY <2>1, <2>5, <2>6, <2>8
<1>4. Value(c) \in Nat /\ Value({}) = 0
  BY <1>1, <1>2, <1>3 DEF SumsUp
<1>5. ASSUME NEW k \in c PROVE Value(c) = Worth[k] + Value(c \ {k})
  <2>1. c \ {k} \in SUBSET c
    OBVIOUS
  <2>2. g[c] = Worth[k] + g[c \ {k}]
    BY <1>2 DEF SumsUp
  <2> QED  BY <1>1, <1>3, <2>1, <2>2
<1> QED  BY <1>4, <1>5

\* A stage comes to a set, or leaves it.
LEMMA ValueWith ==
  ASSUME NEW c \in SUBSET Stage, NEW k \in Stage, k \notin c
  PROVE  Value(c \cup {k}) = Value(c) + Worth[k] /\ Worth[k] \in Nat /\ Value(c) \in Nat
<1>1. PICK b : b = c \cup {k}
  OBVIOUS
<1>2. b \in SUBSET Stage /\ k \in b /\ b \ {k} = c
  BY <1>1
<1>3. Value(b) = Worth[k] + Value(c)
  <2>1. Value(b) = Worth[k] + Value(b \ {k})
    BY <1>2, ValueIs
  <2> QED  BY <1>2, <2>1
<1>4. Worth[k] \in Nat /\ Value(c) \in Nat
  BY WeightIs, ValueIs
<1>5. Value(b) = Value(c) + Worth[k]
  BY <1>3, <1>4
<1> QED  BY <1>1, <1>4, <1>5

LEMMA ValueWithout ==
  ASSUME NEW c \in SUBSET Stage, NEW k \in c
  PROVE  /\ Value(c) = Value(c \ {k}) + Worth[k]
         /\ Worth[k] \in Nat /\ Value(c \ {k}) \in Nat /\ c \ {k} \in SUBSET Stage
<1>1. PICK b : b = c \ {k}
  OBVIOUS
<1>2. b \in SUBSET Stage
  BY <1>1
<1>3. Value(c) = Worth[k] + Value(b)
  BY <1>1, ValueIs
<1>4. Worth[k] \in Nat /\ Value(b) \in Nat
  BY <1>2, WeightIs, ValueIs
<1> QED  BY <1>1, <1>2, <1>3, <1>4

\* Turns of a counter.
LEMMA TurnIs == Turn \in Nat /\ Turn > 0
<1>1. PICK k \in Stage : k + 1 \notin Stage
  <2>1. CNT_WIDTH - 1 \in Stage /\ (CNT_WIDTH - 1) + 1 \notin Stage
    BY OscConstants
  <2> QED  BY <2>1
<1> QED  BY <1>1, WeightIs

LEMMA ExactNone == Exact(0, 0 + 0)
<1>1. 0 = 0 * Turn + (0 + 0) /\ 0 \in 0..0
  BY TurnIs
<1> QED  BY <1>1 DEF Exact

\* One more fall is one more in worth.
LEMMA ExactOneMore ==
  ASSUME NEW n \in Nat, NEW v \in Nat, NEW w \in Nat, Exact(n, v), w = v + 1
  PROVE  Exact(n + 1, w)
<1>1. PICK t \in 0..n : n = t * Turn + v
  BY DEF Exact
<1>2. PICK m : m = t * Turn
  OBVIOUS
<1>3. m \in Int
  BY <1>2, TurnIs
<1>4. n + 1 = m + w /\ t \in 0..(n + 1)
  BY <1>1, <1>2, <1>3
<1> QED  BY <1>2, <1>4 DEF Exact

\* As much less in worth as a turn is one turn more.
LEMMA ExactTurns ==
  ASSUME NEW n \in Nat, NEW v \in Nat, NEW w \in Nat, Exact(n, v), v = w + Turn
  PROVE  Exact(n, w)
<1>1. PICK t \in 0..n : n = t * Turn + v
  BY DEF Exact
<1>2. PICK m : m = t * Turn
  OBVIOUS
<1>3. m \in Int /\ (t + 1) * Turn = m + Turn
  BY <1>2, TurnIs
<1>4. n = m + Turn + w
  BY <1>1, <1>2, <1>3, TurnIs
<1>5. 1 * (t + 1) <= Turn * (t + 1) /\ Turn * (t + 1) = (t + 1) * Turn
  BY TurnIs, TimesMonotone
<1>6. t + 1 <= m + Turn
  BY <1>3, <1>5
<1>7. t + 1 \in 0..n
  BY <1>3, <1>4, <1>6, TurnIs
<1>8. n = (t + 1) * Turn + w
  BY <1>3, <1>4
<1> QED  BY <1>7, <1>8 DEF Exact

LEMMA OscTypes ==
  ASSUME Oscillator!TypeOK
  PROVE  /\ osc_out \in [Osc -> BOOLEAN] /\ count \in [Osc -> SUBSET Stage]
         /\ clocked \in [Osc -> SUBSET Stage] /\ falls \in [Osc -> 0..MaxFalls]
         /\ (reset \/ ~enable) => \A o \in Osc : count[o] = {} /\ clocked[o] = {}
         /\ enable \in BOOLEAN /\ reset \in BOOLEAN /\ monitor_count \in Undriven \cup {0}
BY DEF Oscillator!TypeOK, Osc, Stage, Oscillator!Osc, Oscillator!Stage

LEMMA OscTypesNext ==
  ASSUME /\ osc_out' \in [Osc -> BOOLEAN] /\ count' \in [Osc -> SUBSET Stage]
         /\ clocked' \in [Osc -> SUBSET Stage] /\ falls' \in [Osc -> 0..MaxFalls]
         /\ (reset' \/ ~enable') => \A o \in Osc : count'[o] = {} /\ clocked'[o] = {}
         /\ enable' \in BOOLEAN /\ reset' \in BOOLEAN /\ monitor_count' \in Undriven \cup {0}
  PROVE  Oscillator!TypeOK'
BY DEF Oscillator!TypeOK, Osc, Stage, Oscillator!Osc, Oscillator!Stage

LEMMA OscParts ==
  ASSUME OscInv, NEW o \in Osc
  PROVE  /\ count[o] \in SUBSET Stage /\ clocked[o] \in SUBSET Stage
         /\ falls[o] \in Nat /\ falls[o] \in 0..MaxFalls
         /\ Value(count[o]) \in Nat /\ Value(clocked[o]) \in Nat
         /\ Exact(falls[o], Value(count[o]) + Value(clocked[o]))
<1>1. count[o] \in SUBSET Stage /\ clocked[o] \in SUBSET Stage /\ falls[o] \in 0..MaxFalls
  BY OscTypes DEF OscInv
<1>2. falls[o] \in Nat
  BY <1>1
<1>3. Value(count[o]) \in Nat /\ Value(clocked[o]) \in Nat
  BY <1>1, ValueIs
<1> QED  BY <1>1, <1>2, <1>3 DEF OscInv

\* The counters clear, with the falls counted anew, or keep still.
LEMMA OscClears ==
  ASSUME OscInv, NEW r \in BOOLEAN, NEW e \in BOOLEAN, Oscillator!async_reset(r, e),
         falls' = IF r \/ ~e THEN [o \in Osc |-> 0] ELSE falls
  PROVE  /\ count' \in [Osc -> SUBSET Stage] /\ clocked' \in [Osc -> SUBSET Stage]
         /\ falls' \in [Osc -> 0..MaxFalls]
         /\ (r \/ ~e) => \A o \in Osc : count'[o] = {} /\ clocked'[o] = {}
         /\ \A o \in Osc : Exact(falls'[o], Value(count'[o]) + Value(clocked'[o]))
<1>1. /\ count \in [Osc -> SUBSET Stage] /\ clocked \in [Osc -> SUBSET Stage]
      /\ falls \in [Osc -> 0..MaxFalls]
  BY OscTypes DEF OscInv
<1>2. CASE r \/ ~e
  <2>1. count' = [o \in Osc |-> {}] /\ clocked' = [o \in Osc |-> {}] /\ falls' = [o \in Osc |-> 0]
    BY <1>2 DEF Oscillator!async_reset, Oscillator!ClearOn, Osc
  <2>2. Value({}) = 0
    <3>1. {} \in SUBSET Stage
      OBVIOUS
    <3> QED  BY <3>1, ValueIs
  <2>3. ASSUME NEW o \in Osc PROVE Exact(falls'[o], Value(count'[o]) + Value(clocked'[o]))
    BY <2>1, <2>2, ExactNone
  <2> QED  BY <1>2, <2>1, <2>3, OscConstants
<1>3. CASE ~(r \/ ~e)
  <2>1. UNCHANGED <<count, clocked, falls>>
    BY <1>3 DEF Oscillator!async_reset, Oscillator!ClearOn
  <2> QED  BY <1>1, <1>3, <2>1 DEF OscInv
<1> QED  BY <1>2, <1>3

LEMMA OscRings ==
  ASSUME OscInv, NEW o \in Osc, Oscillator!ring_osc(o)
  PROVE  OscInv'
<1>1. /\ osc_out \in [Osc -> BOOLEAN] /\ count \in [Osc -> SUBSET Stage]
      /\ clocked \in [Osc -> SUBSET Stage] /\ falls \in [Osc -> 0..MaxFalls]
      /\ (reset \/ ~enable) => \A i \in Osc : count[i] = {} /\ clocked[i] = {}
      /\ enable \in BOOLEAN /\ reset \in BOOLEAN /\ monitor_count \in Undriven \cup {0}
      /\ \A i \in Osc : Exact(falls[i], Value(count[i]) + Value(clocked[i]))
  BY OscTypes DEF OscInv
<1>2. /\ enable /\ 0 \notin clocked[o] /\ falls[o] < MaxFalls
      /\ osc_out' = [osc_out EXCEPT ![o] = ~@]
      /\ IF osc_out[o] /\ ~reset
         THEN /\ falls' = [falls EXCEPT ![o] = @ + 1]
              /\ clocked' = [clocked EXCEPT ![o] = @ \cup {0}]
         ELSE UNCHANGED <<falls, clocked>>
      /\ UNCHANGED <<enable, reset, count, monitor_count>>
  BY Zenon DEF Oscillator!ring_osc
<1>3. osc_out' \in [Osc -> BOOLEAN] /\ count' \in [Osc -> SUBSET Stage]
  BY <1>1, <1>2
<1>4. CASE ~(osc_out[o] /\ ~reset)
  <2>1. UNCHANGED <<falls, clocked>>
    BY <1>2, <1>4
  <2> QED  BY <1>1, <1>2, <1>3, <2>1, OscTypesNext DEF OscInv
<1>5. CASE osc_out[o] /\ ~reset
  <2>1. PICK c : c = clocked[o] \cup {0}
    OBVIOUS
  <2>2. /\ falls' = [falls EXCEPT ![o] = falls[o] + 1]
        /\ clocked' = [clocked EXCEPT ![o] = c]
    BY <1>2, <1>5, <2>1
  <2>3. c \in SUBSET Stage
    BY <1>1, <2>1, OscConstants
  <2>4. /\ clocked' \in [Osc -> SUBSET Stage] /\ clocked'[o] = c
        /\ \A i \in Osc : i # o => clocked'[i] = clocked[i]
    BY <1>1, <2>2, <2>3
  <2>5. /\ falls' \in [Osc -> 0..MaxFalls] /\ falls'[o] = falls[o] + 1
        /\ \A i \in Osc : i # o => falls'[i] = falls[i]
    <3>1. falls[o] + 1 \in 0..MaxFalls
      BY <1>1, <1>2, OscConstants
    <3> QED  BY <1>1, <2>2, <3>1
  <2>6. Value(c) = Value(clocked[o]) + 1
    <3>1. Value(clocked[o] \cup {0}) = Value(clocked[o]) + Worth[0]
      BY <1>2, OscParts, OscConstants, ValueWith
    <3> QED  BY <2>1, <3>1, WeightIs
  <2>7. Exact(falls[o] + 1, Value(count[o]) + Value(c))
    <3>1. PICK v, w : v = Value(count[o]) + Value(clocked[o]) /\ w = Value(count[o]) + Value(c)
      OBVIOUS
    <3>2. v \in Nat /\ w \in Nat /\ w = v + 1 /\ falls[o] \in Nat /\ Exact(falls[o], v)
      BY <2>6, <3>1, OscParts
    <3>3. Exact(falls[o] + 1, w)
      BY <3>2, ExactOneMore
    <3> QED  BY <3>1, <3>3
  <2>8. ASSUME NEW i \in Osc PROVE Exact(falls'[i], Value(count'[i]) + Value(clocked'[i]))
    <3>1. CASE i = o
      BY <1>2, <2>4, <2>5, <2>7, <3>1
    <3>2. CASE i # o
      BY <3>2, <1>1, <1>2, <2>4, <2>5
    <3> QED  BY <3>1, <3>2
  <2>9. Oscillator!TypeOK'
    BY <1>1, <1>2, <1>3, <1>5, <2>4, <2>5, OscTypesNext
  <2> QED  BY <2>8, <2>9 DEF OscInv
<1> QED  BY <1>4, <1>5

\* A stage toggles: what it is worth goes from its clock to the counter, or, with
\* as much from the counter, to the clock of the next, or out of the last.
LEMMA OscToggles ==
  ASSUME OscInv, NEW o \in Osc, NEW k \in Stage, Oscillator!TFF(o, k)
  PROVE  OscInv'
<1>1. /\ osc_out \in [Osc -> BOOLEAN] /\ count \in [Osc -> SUBSET Stage]
      /\ clocked \in [Osc -> SUBSET Stage] /\ falls \in [Osc -> 0..MaxFalls]
      /\ (reset \/ ~enable) => \A i \in Osc : count[i] = {} /\ clocked[i] = {}
      /\ enable \in BOOLEAN /\ reset \in BOOLEAN /\ monitor_count \in Undriven \cup {0}
      /\ \A i \in Osc : Exact(falls[i], Value(count[i]) + Value(clocked[i]))
  BY OscTypes DEF OscInv
<1>2. PICK c, d : /\ c = IF k \in count[o] THEN count[o] \ {k} ELSE count[o] \cup {k}
                  /\ d = (clocked[o] \ {k})
                           \cup (IF k \in count[o] /\ k + 1 \in Stage THEN {k + 1} ELSE {})
  OBVIOUS
<1>3. /\ k \in clocked[o] /\ k + 1 \notin clocked[o]
      /\ count' = [count EXCEPT ![o] = c] /\ clocked' = [clocked EXCEPT ![o] = d]
      /\ UNCHANGED <<enable, reset, osc_out, monitor_count, falls>>
  BY <1>2 DEF Oscillator!TFF, Oscillator!ClocksNext, Stage
<1>4. /\ count[o] \in SUBSET Stage /\ clocked[o] \in SUBSET Stage /\ falls[o] \in Nat
      /\ Value(count[o]) \in Nat /\ Value(clocked[o]) \in Nat
  BY OscParts
<1>5. c \in SUBSET Stage /\ d \in SUBSET Stage
  BY <1>2, <1>4
<1>6. /\ count' \in [Osc -> SUBSET Stage] /\ count'[o] = c
      /\ clocked' \in [Osc -> SUBSET Stage] /\ clocked'[o] = d
      /\ \A i \in Osc : i # o => count'[i] = count[i] /\ clocked'[i] = clocked[i]
  BY <1>1, <1>3, <1>5
<1>7. ~(reset' \/ ~enable')
  BY <1>1, <1>3
<1>8. Value(c) \in Nat /\ Value(d) \in Nat
  BY <1>5, ValueIs
<1>9. \/ Value(count[o]) + Value(clocked[o]) = Value(c) + Value(d)
      \/ Value(count[o]) + Value(clocked[o]) = Value(c) + Value(d) + Turn
  <2>1. PICK b : b = clocked[o] \ {k}
    OBVIOUS
  <2>2. /\ Value(clocked[o]) = Value(b) + Worth[k] /\ Worth[k] \in Nat /\ Value(b) \in Nat
        /\ b \in SUBSET Stage
    BY <1>3, <1>4, <2>1, ValueWithout
  <2>3. CASE k \notin count[o]
    <3>1. c = count[o] \cup {k} /\ d = b
      BY <1>2, <2>1, <2>3
    <3>2. Value(c) = Value(count[o]) + Worth[k] /\ Value(count[o]) \in Nat
      BY <1>4, <2>3, <3>1, ValueWith
    <3> QED  BY <2>2, <3>1, <3>2
  <2>4. CASE k \in count[o]
    <3>1. c = count[o] \ {k}
      BY <1>2, <2>4
    <3>2. Value(count[o]) = Value(c) + Worth[k] /\ Value(c) \in Nat
      BY <1>4, <2>4, <3>1, ValueWithout
    <3>3. CASE k + 1 \in Stage
      <4>1. d = b \cup {k + 1} /\ k + 1 \notin b
        BY <1>2, <1>3, <2>1, <2>4, <3>3
      <4>2. PICK j : j = k + 1
        OBVIOUS
      <4>3. Value(d) = Value(b) + Worth[j]
        BY <2>2, <3>3, <4>1, <4>2, ValueWith
      <4>4. Worth[j] = 2 * Worth[k]
        BY <3>3, <4>2, WeightIs
      <4> QED  BY <2>2, <3>2, <4>3, <4>4
    <3>4. CASE k + 1 \notin Stage
      <4>1. d = b
        BY <1>2, <2>1, <3>4
      <4>2. Turn = 2 * Worth[k]
        BY <3>4, WeightIs
      <4> QED  BY <2>2, <3>2, <4>1, <4>2
    <3> QED  BY <3>3, <3>4
  <2> QED  BY <2>3, <2>4
<1>10. Exact(falls[o], Value(c) + Value(d))
  <2>1. PICK v, w : v = Value(count[o]) + Value(clocked[o]) /\ w = Value(c) + Value(d)
    OBVIOUS
  <2>2. v \in Nat /\ w \in Nat /\ (v = w \/ v = w + Turn) /\ Exact(falls[o], v)
    BY <1>1, <1>4, <1>8, <1>9, <2>1
  <2>3. CASE v = w
    BY <2>1, <2>2, <2>3
  <2>4. CASE v = w + Turn
    <3>1. Exact(falls[o], w)
      BY <1>4, <2>2, <2>4, ExactTurns
    <3> QED  BY <2>1, <3>1
  <2> QED  BY <2>2, <2>3, <2>4
<1>11. ASSUME NEW i \in Osc PROVE Exact(falls'[i], Value(count'[i]) + Value(clocked'[i]))
  <2>1. CASE i = o
    BY <1>3, <1>6, <1>10, <2>1
  <2>2. CASE i # o
    BY <2>2, <1>1, <1>3, <1>6
  <2> QED  BY <2>1, <2>2
<1>12. Oscillator!TypeOK'
  BY <1>1, <1>3, <1>6, <1>7, OscTypesNext
<1> QED  BY <1>11, <1>12 DEF OscInv

LEMMA OscEnabled == ASSUME OscInv, Oscillator!Enable PROVE OscInv'
<1>1. /\ osc_out \in [Osc -> BOOLEAN] /\ count \in [Osc -> SUBSET Stage]
      /\ clocked \in [Osc -> SUBSET Stage] /\ falls \in [Osc -> 0..MaxFalls]
      /\ (reset \/ ~enable) => \A o \in Osc : count[o] = {} /\ clocked[o] = {}
      /\ enable \in BOOLEAN /\ reset \in BOOLEAN /\ monitor_count \in Undriven \cup {0}
      /\ \A o \in Osc : Exact(falls[o], Value(count[o]) + Value(clocked[o]))
  BY OscTypes DEF OscInv
<1>2. /\ ~enable /\ enable' = TRUE /\ Oscillator!async_reset(reset, TRUE)
      /\ UNCHANGED <<reset, osc_out, monitor_count, falls>>
  BY DEF Oscillator!Enable
<1>3. UNCHANGED <<count, clocked>>
  <2>1. count = [o \in Osc |-> {}] /\ clocked = [o \in Osc |-> {}]
    BY <1>1, <1>2
  <2> QED  BY <1>2, <2>1 DEF Oscillator!async_reset, Osc
<1>4. Oscillator!TypeOK'
  BY <1>1, <1>2, <1>3, OscTypesNext
<1> QED  BY <1>1, <1>2, <1>3, <1>4 DEF OscInv

LEMMA OscDisabled == ASSUME OscInv, Oscillator!Disable PROVE OscInv'
<1>1. reset \in BOOLEAN /\ osc_out \in [Osc -> BOOLEAN]
  BY OscTypes DEF OscInv
<1>2. /\ enable' = FALSE /\ Oscillator!async_reset(reset, FALSE)
      /\ monitor_count' \in (IF reset THEN {0} ELSE Undriven)
      /\ osc_out' = [o \in Osc |-> TRUE] /\ falls' = [o \in Osc |-> 0] /\ UNCHANGED reset
  BY DEF Oscillator!Disable, Oscillator!final_sum, Osc
<1>3. /\ count' \in [Osc -> SUBSET Stage] /\ clocked' \in [Osc -> SUBSET Stage]
      /\ falls' \in [Osc -> 0..MaxFalls]
      /\ \A o \in Osc : count'[o] = {} /\ clocked'[o] = {}
      /\ \A o \in Osc : Exact(falls'[o], Value(count'[o]) + Value(clocked'[o]))
  BY <1>1, <1>2, OscClears
<1>4. monitor_count' \in Undriven \cup {0}
  BY <1>1, <1>2
<1>5. osc_out' \in [Osc -> BOOLEAN]
  BY <1>2
<1>6. Oscillator!TypeOK'
  BY <1>1, <1>2, <1>3, <1>4, <1>5, OscTypesNext
<1> QED  BY <1>3, <1>6 DEF OscInv

LEMMA OscResets == ASSUME OscInv, Oscillator!Reset PROVE OscInv'
<1>1. /\ osc_out \in [Osc -> BOOLEAN] /\ falls \in [Osc -> 0..MaxFalls]
      /\ count \in [Osc -> SUBSET Stage] /\ clocked \in [Osc -> SUBSET Stage]
      /\ (reset \/ ~enable) => \A o \in Osc : count[o] = {} /\ clocked[o] = {}
      /\ enable \in BOOLEAN /\ reset \in BOOLEAN /\ monitor_count \in Undriven \cup {0}
      /\ \A o \in Osc : Exact(falls[o], Value(count[o]) + Value(clocked[o]))
  BY OscTypes DEF OscInv
<1>2. PICK r : r = ~reset
  OBVIOUS
<1>3. /\ reset' = r /\ r \in BOOLEAN /\ Oscillator!async_reset(r, enable)
      /\ monitor_count' = (IF r THEN 0 ELSE monitor_count)
      /\ falls' = (IF r THEN [o \in Osc |-> 0] ELSE falls)
      /\ UNCHANGED <<enable, osc_out>>
  BY <1>2, Zenon DEF Oscillator!Reset, Osc
<1>4. CASE r \/ enable
  <2>1. falls' = IF r \/ ~enable THEN [o \in Osc |-> 0] ELSE falls
    BY <1>3, <1>4
  <2>2. /\ count' \in [Osc -> SUBSET Stage] /\ clocked' \in [Osc -> SUBSET Stage]
        /\ falls' \in [Osc -> 0..MaxFalls]
        /\ (r \/ ~enable) => \A o \in Osc : count'[o] = {} /\ clocked'[o] = {}
        /\ \A o \in Osc : Exact(falls'[o], Value(count'[o]) + Value(clocked'[o]))
    BY <1>1, <1>3, <2>1, OscClears
  <2>3. Oscillator!TypeOK'
    BY <1>1, <1>3, <2>2, OscTypesNext
  <2> QED  BY <2>2, <2>3 DEF OscInv
<1>5. CASE ~r /\ ~enable
  <2>1. count = [o \in Osc |-> {}] /\ clocked = [o \in Osc |-> {}]
    BY <1>1, <1>5
  <2>2. UNCHANGED <<count, clocked, falls, monitor_count>>
    BY <1>3, <1>5, <2>1 DEF Oscillator!async_reset, Osc
  <2>3. Oscillator!TypeOK'
    BY <1>1, <1>3, <1>5, <2>2, OscTypesNext
  <2> QED  BY <1>1, <2>2, <2>3 DEF OscInv
<1> QED  BY <1>4, <1>5

LEMMA OscInit == Oscillator!Init => OscInv
<1> SUFFICES ASSUME Oscillator!Init PROVE OscInv
  OBVIOUS
<1>1. /\ enable = FALSE /\ reset = TRUE /\ monitor_count = 0
      /\ osc_out = [o \in Osc |-> TRUE] /\ falls = [o \in Osc |-> 0]
      /\ count = [o \in Osc |-> {}] /\ clocked = [o \in Osc |-> {}]
  BY DEF Oscillator!Init, Osc
<1>2. Value({}) = 0
  <2>1. {} \in SUBSET Stage
    OBVIOUS
  <2> QED  BY <2>1, ValueIs
<1>3. /\ count \in [Osc -> SUBSET Stage] /\ clocked \in [Osc -> SUBSET Stage]
      /\ osc_out \in [Osc -> BOOLEAN] /\ falls \in [Osc -> 0..MaxFalls]
      /\ \A o \in Osc : count[o] = {} /\ clocked[o] = {}
  BY <1>1, OscConstants
<1>4. Oscillator!TypeOK
  BY <1>1, <1>3, OscConstants DEF Oscillator!TypeOK, Osc, Stage, Oscillator!Osc, Oscillator!Stage
<1>5. \A o \in Osc : Exact(falls[o], Value(count[o]) + Value(clocked[o]))
  BY <1>1, <1>2, ExactNone
<1> QED  BY <1>4, <1>5 DEF OscInv

LEMMA OscStep == OscInv /\ [Oscillator!Next]_oscillatorVars => OscInv'
<1> SUFFICES ASSUME OscInv, [Oscillator!Next]_oscillatorVars PROVE OscInv'
  OBVIOUS
<1>1. ASSUME NEW o \in Osc, Oscillator!ring_osc(o) PROVE OscInv'
  BY <1>1, OscRings
<1>2. ASSUME NEW o \in Osc, NEW k \in Stage, Oscillator!TFF(o, k) PROVE OscInv'
  BY <1>2, OscToggles
<1>3. CASE Oscillator!Enable
  BY <1>3, OscEnabled
<1>4. CASE Oscillator!Disable
  BY <1>4, OscDisabled
<1>5. CASE Oscillator!Reset
  BY <1>5, OscResets
<1>6. CASE UNCHANGED oscillatorVars
  BY <1>6 DEF oscillatorVars, OscInv, Oscillator!TypeOK
<1> QED  BY <1>1, <1>2, <1>3, <1>4, <1>5, <1>6 DEF Oscillator!Next, Osc, Stage

LEMMA OscAlways == SupportSpec => []OscInv
<1>1. SupportInit => OscInv
  BY PartsStart, OscInit
<1>2. OscInv /\ [SupportNext]_supportVars => OscInv'
  BY PartsStep, OscStep
<1> QED  BY <1>1, <1>2, PTL DEF SupportSpec

(***************************************************************************)
(* For any number of rings and stages, and with carries and clears at any  *)
(* time: what a counter holds and the carries on their way in it are the   *)
(* falls of its ring since the last clear, turns of the counter apart.     *)
(***************************************************************************)
THEOREM CountersAreExact == SupportSpec => []CountsExact
<1>1. OscInv => CountsExact
  <2> SUFFICES ASSUME OscInv, NEW o \in Osc
               PROVE  \E turns \in 0..falls[o] :
                        falls[o] = turns * Turn + Value(count[o]) + Value(clocked[o])
    BY DEF CountsExact, Oscillator!CountsExact, Osc, Value, Turn
  <2>1. falls[o] \in Nat /\ Value(count[o]) \in Nat /\ Value(clocked[o]) \in Nat
    BY OscParts
  <2>2. PICK turns \in 0..falls[o] : falls[o] = turns * Turn + (Value(count[o]) + Value(clocked[o]))
    BY DEF OscInv, Exact
  <2>3. turns * Turn \in Int
    BY <2>1, TurnIs
  <2> DEFINE m == turns * Turn
  <2>4. falls[o] = m + Value(count[o]) + Value(clocked[o])
    <3> HIDE DEF m
    <3> QED  BY <2>1, <2>2, <2>3 DEF m
  <2> QED  BY <2>4
<1> QED  BY <1>1, OscAlways, PTL

-----------------------------------------------------------------------------
(***************************************************************************)
(* The address decoders.  TLC tries the words at both sides of every       *)
(* boundary; here it is every address.  The ranges begin at multiples of   *)
(* their sizes, follow one another and have slaves of their own, so that   *)
(* an address is in one range at most and no if statement of the decoder   *)
(* undoes another's choice.                                                *)
(***************************************************************************)
\* The ports of a decoder, and the addresses of one.
Ports(m) == Addresses!System[m].ports
Span(p) == p.base..(p.base + p.size - 1)

\* The greatest of a set that has one.
LEMMA GreatestIs ==
  ASSUME NEW S \in SUBSET Nat, NEW n \in S, \A k \in S : k <= n
  PROVE  Addresses!Max(S) = n
<1>1. n \in S /\ \A k \in S : n >= k
  OBVIOUS
<1>2. \A x \in S : (\A k \in S : x >= k) => x = n
  BY <1>1
<1> QED  BY <1>1, <1>2, Zenon DEF Addresses!Max

\* The sizes of the ranges.
Sizes == {4, 8, 16, 32, 64, 2048, \h8000, \h8000000}

\* Comparing the bits above the size of a range that begins at a multiple of it
\* finds the addresses of the range, and the bits below are the offset.
LEMMA RangeBits ==
  ASSUME NEW a \in Nat, NEW q \in Nat, NEW s \in Sizes
  PROVE  /\ a \div s = (q * s) \div s <=> a \in (q * s)..(q * s + s - 1)
         /\ a \in (q * s)..(q * s + s - 1) => a % s = a - q * s
BY SMTT(30) DEF Sizes

LEMMA HexIs ==
  /\ Addresses!Hex(0) = "hex0" /\ Addresses!Hex(1) = "hex1" /\ Addresses!Hex(2) = "hex2"
  /\ Addresses!Hex(3) = "hex3" /\ Addresses!Hex(4) = "hex4" /\ Addresses!Hex(5) = "hex5"
  /\ Addresses!Hex(6) = "hex6" /\ Addresses!Hex(7) = "hex7"
BY SMT DEF Addresses!Hex

\* The decoders, port by port.
LEMMA DecoderA ==
  /\ DOMAIN Addresses!DecoderA = 1..19
  /\ Addresses!DecoderA[1] = Addresses!Port("aes", 0, 64)
  /\ Addresses!DecoderA[2] = Addresses!Port("sdram", \h8000000, \h8000000)
  /\ Addresses!DecoderA[3] = Addresses!Port("debug", \h10000800, 2048)
  /\ Addresses!DecoderA[4] = Addresses!Port("highres", \h10001000, 32)
  /\ Addresses!DecoderA[5] = Addresses!Port("timer", \h10001020, 32)
  /\ Addresses!DecoderA[6] = Addresses!Port("key", \h10001040, 16)
  /\ Addresses!DecoderA[7] = Addresses!ReadPort("switches", \h10001050, 16)
  /\ Addresses!DecoderA[8] = Addresses!Port("hex7", \h10001060, 16)
  /\ Addresses!DecoderA[9] = Addresses!Port("hex6", \h10001070, 16)
  /\ Addresses!DecoderA[10] = Addresses!Port("hex5", \h10001080, 16)
  /\ Addresses!DecoderA[11] = Addresses!Port("hex4", \h10001090, 16)
  /\ Addresses!DecoderA[12] = Addresses!Port("hex3", \h100010a0, 16)
  /\ Addresses!DecoderA[13] = Addresses!Port("hex2", \h100010b0, 16)
  /\ Addresses!DecoderA[14] = Addresses!Port("hex1", \h100010c0, 16)
  /\ Addresses!DecoderA[15] = Addresses!Port("hex0", \h100010d0, 16)
  /\ Addresses!DecoderA[16] = Addresses!Port("ledg", \h100010e0, 16)
  /\ Addresses!DecoderA[17] = Addresses!Port("ledr", \h100010f0, 16)
  /\ Addresses!DecoderA[18] = Addresses!ReadPort("sysid", \h10001100, 8)
  /\ Addresses!DecoderA[19] = Addresses!Port("jtag", \h10001108, 8)
BY HexIs, SMTT(30) DEF Addresses!DecoderA, Addresses!DisplayPorts

LEMMA DecoderB ==
  /\ DOMAIN Addresses!DecoderB = 1..6
  /\ Addresses!DecoderB[1] = Addresses!ReadPort("sysid", 0, 8)
  /\ Addresses!DecoderB[2] = Addresses!ReadPort("oscillator", 8, 4)
  /\ Addresses!DecoderB[3] = Addresses!Port("debug", \h2800, 2048)
  /\ Addresses!DecoderB[4] = Addresses!Port("timer", \h3000, 32)
  /\ Addresses!DecoderB[5] = Addresses!Port("jtag", \h3020, 8)
  /\ Addresses!DecoderB[6] = Addresses!Port("memory", \h10000, \h8000)
BY SMTT(30) DEF Addresses!DecoderB

\* A port the comparison of high bits is right for: its size is a power of two,
\* its base a multiple of it.
Sized(p) == p.size \in Sizes /\ p.base \in Nat /\ p.base % p.size = 0

LEMMA SizedIs ==
  ASSUME NEW p, Sized(p), NEW a \in Nat
  PROVE  /\ Addresses!Within(p, a) <=> a \in Span(p)
         /\ a \in Span(p) => a % p.size = a - p.base
<1>1. PICK b, s : b = p.base /\ s = p.size
  OBVIOUS
<1>2. s \in Sizes /\ b \in Nat /\ b % s = 0
  BY <1>1 DEF Sized
<1>3. PICK q \in Nat : b = q * s
  BY <1>2, SMTT(30) DEF Sizes
<1>4. /\ a \div s = b \div s <=> a \in b..(b + s - 1)
      /\ a \in b..(b + s - 1) => a % s = a - b
  BY <1>2, <1>3, RangeBits
<1>5. Span(p) = b..(b + s - 1) /\ (Addresses!Within(p, a) <=> a \div s = b \div s)
  BY <1>1 DEF Span, Addresses!Within
<1> QED  BY <1>1, <1>4, <1>5

\* The ports of a decoder, in figures.
Port(slave, base, size, readonly) ==
  [slave |-> slave, base |-> base, size |-> size, readonly |-> readonly]

LEMMA PortIs ==
  ASSUME NEW s, NEW b, NEW z
  PROVE  /\ Addresses!Port(s, b, z) = Port(s, b, z, FALSE)
         /\ Addresses!ReadPort(s, b, z) = Port(s, b, z, TRUE)
BY DEF Addresses!Port, Addresses!ReadPort, Port

LEMMA PortsAre ==
  /\ Ports("A") = Addresses!DecoderA /\ Addresses!System["A"].default = 2
  /\ Ports("B") = Addresses!DecoderB /\ Addresses!System["B"].default = 6
BY DEF Ports, Addresses!System

\* Whatever the decoder: sizes and bases fit, the ranges follow one another, and
\* no slave has two.
Sound(m) ==
  /\ DOMAIN Ports(m) \in SUBSET Nat
  /\ Addresses!System[m].default \in DOMAIN Ports(m)
  /\ Ports(m)[Addresses!System[m].default].slave \in {"sdram", "memory"}
  /\ \A n \in DOMAIN Ports(m) : Sized(Ports(m)[n])
  /\ \A n, k \in DOMAIN Ports(m) :
       n < k => Ports(m)[n].base + Ports(m)[n].size <= Ports(m)[k].base
  /\ \A n, k \in DOMAIN Ports(m) : Ports(m)[n].slave = Ports(m)[k].slave => n = k

LEMMA SoundA == Sound("A")
<1>1. Ports("A") = Addresses!DecoderA /\ DOMAIN Addresses!DecoderA = 1..19
  BY PortsAre, DecoderA
<1>2. \A n \in 1..19 : Sized(Addresses!DecoderA[n])
  BY DecoderA, PortIs, SMTT(60) DEF Sized, Sizes, Port
<1>3. \A n, k \in 1..19 : n < k => Addresses!DecoderA[n].base + Addresses!DecoderA[n].size <= Addresses!DecoderA[k].base
  BY DecoderA, PortIs, SMTT(60) DEF Port
<1>4. \A n, k \in 1..19 : Addresses!DecoderA[n].slave = Addresses!DecoderA[k].slave => n = k
  BY DecoderA, PortIs, SMTT(60) DEF Port
<1>5. Addresses!DecoderA[2].slave = "sdram"
  BY DecoderA, PortIs DEF Port
<1>6. 2 \in 1..19 /\ 1..19 \in SUBSET Nat
  BY SMT
<1> QED  BY <1>1, <1>2, <1>3, <1>4, <1>5, <1>6, PortsAre, Zenon DEF Sound

LEMMA SoundB == Sound("B")
<1>1. Ports("B") = Addresses!DecoderB /\ DOMAIN Addresses!DecoderB = 1..6
  BY PortsAre, DecoderB
<1>2. \A n \in 1..6 : Sized(Addresses!DecoderB[n])
  BY DecoderB, PortIs, SMTT(60) DEF Sized, Sizes, Port
<1>3. \A n, k \in 1..6 : n < k => Addresses!DecoderB[n].base + Addresses!DecoderB[n].size <= Addresses!DecoderB[k].base
  BY DecoderB, PortIs, SMTT(60) DEF Port
<1>4. \A n, k \in 1..6 : Addresses!DecoderB[n].slave = Addresses!DecoderB[k].slave => n = k
  BY DecoderB, PortIs, SMTT(60) DEF Port
<1>5. Addresses!DecoderB[6].slave = "memory"
  BY DecoderB, PortIs DEF Port
<1>6. 6 \in 1..6 /\ 1..6 \in SUBSET Nat
  BY SMT
<1> QED  BY <1>1, <1>2, <1>3, <1>4, <1>5, <1>6, PortsAre, Zenon DEF Sound

\* No address is in two ranges.
LEMMA OneRange ==
  ASSUME NEW m, Sound(m), NEW n \in DOMAIN Ports(m), NEW k \in DOMAIN Ports(m),
         NEW a \in Nat, a \in Span(Ports(m)[n]), a \in Span(Ports(m)[k])
  PROVE  n = k
<1>1. /\ n \in Nat /\ k \in Nat
      /\ Ports(m)[n].base \in Nat /\ Ports(m)[n].size \in Nat
      /\ Ports(m)[k].base \in Nat /\ Ports(m)[k].size \in Nat
  BY SMT DEF Sound, Sized, Sizes
<1>2. /\ n < k => Ports(m)[n].base + Ports(m)[n].size <= Ports(m)[k].base
      /\ k < n => Ports(m)[k].base + Ports(m)[k].size <= Ports(m)[n].base
  BY DEF Sound
<1> QED  BY <1>1, <1>2, SMT DEF Span

Hits(m, a, read) ==
  {n \in DOMAIN Ports(m) :
     Addresses!Within(Ports(m)[n], a) /\ (Ports(m)[n].readonly => read)}
RoutedBy(m, n, a) == [slave |-> Ports(m)[n].slave, offset |-> a % Ports(m)[n].size]

LEMMA RouteOf ==
  ASSUME NEW m, NEW a \in Nat, NEW read
  PROVE  Addresses!Route(m, [addr |-> a, read |-> read]) =
           RoutedBy(m, IF Hits(m, a, read) = {} THEN Addresses!System[m].default
                 ELSE Addresses!Max(Hits(m, a, read)), a)
BY Zenon DEF Addresses!Route, Hits, RoutedBy, Ports

\* The range an address is in gets the transfer, unless it cannot be written.
LEMMA RouteIn ==
  ASSUME NEW m, Sound(m), NEW n \in DOMAIN Ports(m), NEW a \in Nat,
         NEW read \in BOOLEAN,
         a \in Span(Ports(m)[n]), Ports(m)[n].readonly => read
  PROVE  Addresses!Route(m, [addr |-> a, read |-> read]) =
           [slave |-> Ports(m)[n].slave, offset |-> a - Ports(m)[n].base]
<1>1. \A k \in DOMAIN Ports(m) : Sized(Ports(m)[k])
  BY DEF Sound
<1>2. n \in Hits(m, a, read)
  BY <1>1, SizedIs DEF Hits
<1>3. \A k \in Hits(m, a, read) : k = n
  BY <1>1, SizedIs, OneRange DEF Hits
<1>4. Hits(m, a, read) \in SUBSET Nat /\ n \in Nat
  BY DEF Hits, Sound
<1>5. \A k \in Hits(m, a, read) : k <= n
  BY <1>3, <1>4
<1>6. Addresses!Max(Hits(m, a, read)) = n
  BY <1>2, <1>4, <1>5, GreatestIs
<1>7. a % Ports(m)[n].size = a - Ports(m)[n].base
  BY <1>1, SizedIs
<1> QED  BY <1>2, <1>6, <1>7, RouteOf DEF RoutedBy

\* Any other address goes to the memory.
LEMMA RouteOut ==
  ASSUME NEW m, Sound(m), NEW a \in Nat, NEW read \in BOOLEAN,
         \A n \in DOMAIN Ports(m) :
           a \in Span(Ports(m)[n]) => ~(Ports(m)[n].readonly => read)
  PROVE  Addresses!Route(m, [addr |-> a, read |-> read]).slave \in {"sdram", "memory"}
<1>1. \A k \in DOMAIN Ports(m) : Sized(Ports(m)[k])
  BY DEF Sound
<1>2. Hits(m, a, read) = {}
  BY <1>1, SizedIs DEF Hits
<1>3. Addresses!Route(m, [addr |-> a, read |-> read]) = RoutedBy(m, Addresses!System[m].default, a)
  BY <1>2, RouteOf
<1> QED  BY <1>3 DEF RoutedBy, Sound

Systems == {"A", "B"}

LEMMA BothSound == ASSUME NEW m \in Systems PROVE Sound(m)
BY SoundA, SoundB DEF Systems

\* Two addresses that reach one place of one device are the same, whatever the
\* device but the memories, to which every address in no range goes as well.
THEOREM OneName ==
  ASSUME NEW m \in Systems, NEW a \in Nat, NEW b \in Nat, NEW read \in BOOLEAN,
         Addresses!Route(m, [addr |-> a, read |-> read])
           = Addresses!Route(m, [addr |-> b, read |-> read]),
         Addresses!Route(m, [addr |-> a, read |-> read]).slave \notin {"sdram", "memory"}
  PROVE  a = b
<1>1. PICK n \in DOMAIN Ports(m) :
        a \in Span(Ports(m)[n]) /\ (Ports(m)[n].readonly => read)
  BY RouteOut, BothSound
<1>2. PICK k \in DOMAIN Ports(m) :
        b \in Span(Ports(m)[k]) /\ (Ports(m)[k].readonly => read)
  BY RouteOut, BothSound
<1>3. /\ Ports(m)[n].slave = Ports(m)[k].slave
      /\ a - Ports(m)[n].base = b - Ports(m)[k].base
  <2>1. Addresses!Route(m, [addr |-> a, read |-> read]) =
          [slave |-> Ports(m)[n].slave, offset |-> a - Ports(m)[n].base]
    BY <1>1, RouteIn, BothSound
  <2>2. Addresses!Route(m, [addr |-> b, read |-> read]) =
          [slave |-> Ports(m)[k].slave, offset |-> b - Ports(m)[k].base]
    BY <1>2, RouteIn, BothSound
  <2>3. [slave |-> Ports(m)[n].slave, offset |-> a - Ports(m)[n].base]
          = [slave |-> Ports(m)[k].slave, offset |-> b - Ports(m)[k].base]
    BY <2>1, <2>2, Zenon
  <2> QED  BY <2>3
<1>4. n = k
  BY <1>3, BothSound DEF Sound
<1>5. Ports(m)[n].base \in Nat
  BY BothSound DEF Sound, Sized
<1> QED  BY <1>3, <1>4, <1>5

\* Every device of system.h has a port of its name and base, at least as wide,
\* and only the switches and the system ID keep writes out.
Served(m, d) ==
  /\ d.base \in Nat /\ d.span \in Nat
  /\ \E n \in DOMAIN Ports(m) :
       /\ Ports(m)[n].slave = d.slave /\ Ports(m)[n].base = d.base
       /\ d.span <= Ports(m)[n].size
       /\ Ports(m)[n].readonly => d.slave \in Addresses!ReadOnly

LEMMA PortServes ==
  ASSUME NEW m, NEW n \in DOMAIN Ports(m), NEW slave, NEW base \in Nat, NEW size \in Nat,
         NEW span \in Nat, span <= size, Ports(m)[n] = Addresses!Port(slave, base, size)
  PROVE  Served(m, Addresses!Device(slave, base, span))
BY DEF Addresses!Port, Served, Addresses!Device

LEMMA ReadPortServes ==
  ASSUME NEW m, NEW n \in DOMAIN Ports(m), NEW slave \in Addresses!ReadOnly,
         NEW base \in Nat, NEW size \in Nat,
         Ports(m)[n] = Addresses!ReadPort(slave, base, size)
  PROVE  Served(m, Addresses!Device(slave, base, size))
BY DEF Addresses!ReadPort, Served, Addresses!Device

\* The displays, from the last port of theirs to the first.
HexBase(n) == \h100010d0 - 16 * n

LEMMA HexNames ==
  \A n \in 0..7 : Ports("A")[15 - n] = Addresses!Port(Addresses!Hex(n), HexBase(n), 16)
BY HexIs, DecoderA, PortsAre, SMTT(30) DEF HexBase

LEMMA DevicesServed == ASSUME NEW m \in Systems, NEW d \in Addresses!Declared[m] PROVE Served(m, d)
<1>0. "switches" \in Addresses!ReadOnly /\ "sysid" \in Addresses!ReadOnly
  BY DEF Addresses!ReadOnly
<1>1. CASE m = "A"
  <2>1. d \in Addresses!Displays \/ d \in Addresses!Leds \/ d \in Addresses!Rest
    BY <1>1 DEF Addresses!Declared, Addresses!DeclaredA
  <2>2. CASE d \in Addresses!Displays
    <3>1. PICK n \in 0..7 : d = Addresses!Device(Addresses!Hex(n), HexBase(n), 16)
      BY <2>2, SMT DEF Addresses!Displays, HexBase
    <3>2. 15 - n \in DOMAIN Ports("A") /\ HexBase(n) \in Nat /\ 16 \in Nat /\ 16 <= 16
      BY PortsAre, DecoderA, SMT DEF HexBase
    <3>3. Ports("A")[15 - n] = Addresses!Port(Addresses!Hex(n), HexBase(n), 16)
      BY HexNames, Zenon
    <3> QED  BY <1>1, <3>1, <3>2, <3>3, PortServes, Zenon
  <2>3. CASE d \in Addresses!Leds
    <3>1. \/ d = Addresses!Device("ledg", \h100010e0, 16) \/ d = Addresses!Device("ledr", \h100010f0, 16)
      BY <2>3, SMT DEF Addresses!Leds
    <3> QED  BY <1>1, <3>1, PortsAre, DecoderA, PortServes, SMT
  <2>4. CASE d \in Addresses!Rest
    <3>1. \/ d = Addresses!Device("aes", 0, 64) \/ d = Addresses!Device("highres", \h10001000, 32)
          \/ d = Addresses!Device("jtag", \h10001108, 8) \/ d = Addresses!Device("key", \h10001040, 16)
          \/ d = Addresses!Device("sdram", \h8000000, \h8000000)
          \/ d = Addresses!Device("timer", \h10001020, 32)
          \/ d = Addresses!Device("switches", \h10001050, 16) \/ d = Addresses!Device("sysid", \h10001100, 8)
      BY <2>4, SMT DEF Addresses!Rest
    <3>2. /\ Served("A", Addresses!Device("aes", 0, 64))
          /\ Served("A", Addresses!Device("highres", \h10001000, 32))
          /\ Served("A", Addresses!Device("jtag", \h10001108, 8))
          /\ Served("A", Addresses!Device("key", \h10001040, 16))
          /\ Served("A", Addresses!Device("sdram", \h8000000, \h8000000))
          /\ Served("A", Addresses!Device("timer", \h10001020, 32))
      BY PortsAre, DecoderA, PortServes, SMTT(30)
    <3>3. /\ Served("A", Addresses!Device("switches", \h10001050, 16))
          /\ Served("A", Addresses!Device("sysid", \h10001100, 8))
      BY <1>0, PortsAre, DecoderA, ReadPortServes, SMTT(30)
    <3> QED  BY <1>1, <3>1, <3>2, <3>3, SMT
  <2> QED  BY <2>1, <2>2, <2>3, <2>4
<1>2. CASE m = "B"
  <2>1. d \in Addresses!DeclaredB
    BY <1>2 DEF Addresses!Declared
  <2>2. \/ d = Addresses!Device("jtag", \h3020, 8) \/ d = Addresses!Device("memory", \h10000, 20400)
        \/ d = Addresses!Device("sysid", 0, 8) \/ d = Addresses!Device("timer", \h3000, 32)
    BY <2>1, SMT DEF Addresses!DeclaredB
  <2>3. /\ Served("B", Addresses!Device("jtag", \h3020, 8))
        /\ Served("B", Addresses!Device("memory", \h10000, 20400))
        /\ Served("B", Addresses!Device("timer", \h3000, 32))
    BY PortsAre, DecoderB, PortServes, SMTT(30)
  <2>4. Served("B", Addresses!Device("sysid", 0, 8))
    BY <1>0, PortsAre, DecoderB, ReadPortServes, SMTT(30)
  <2> QED  BY <1>2, <2>2, <2>3, <2>4, SMT
<1> QED  BY <1>1, <1>2 DEF Systems

\* Every address that system.h gives a device is routed to that device, at its
\* offset from the base, unless it is a write to one of the read-only devices.
THEOREM EveryAddress ==
  ASSUME NEW m \in Systems, NEW d \in Addresses!Declared[m],
         NEW a \in d.base..(d.base + d.span - 1), NEW read \in BOOLEAN,
         read \/ d.slave \notin Addresses!ReadOnly
  PROVE  Addresses!Route(m, [addr |-> a, read |-> read]) =
           [slave |-> d.slave, offset |-> a - d.base]
<1>1. d.base \in Nat /\ d.span \in Nat
  BY DevicesServed DEF Served
<1>2. PICK n \in DOMAIN Ports(m) :
        /\ Ports(m)[n].slave = d.slave /\ Ports(m)[n].base = d.base
        /\ d.span <= Ports(m)[n].size
        /\ Ports(m)[n].readonly => d.slave \in Addresses!ReadOnly
  BY DevicesServed DEF Served
<1>3. Ports(m)[n].size \in Nat
  BY BothSound, SMT DEF Sound, Sized, Sizes
<1>4. a \in Nat /\ a \in Span(Ports(m)[n])
  BY <1>1, <1>2, <1>3 DEF Span
<1> QED  BY <1>2, <1>4, RouteIn, BothSound

\* A transfer that arrived where the decoder sends it.
AddressesInv ==
  /\ master \in Systems
  /\ \E a \in Nat, read \in BOOLEAN : transfer = [addr |-> a, read |-> read]
  /\ reached = Addresses!Route(master, transfer)

LEMMA AddressesInit == Addresses!Init => AddressesInv
BY DEF Addresses!Init, AddressesInv, Systems

LEMMA AddressesStep == AddressesInv /\ [Addresses!Next]_addressVars => AddressesInv'
<1> SUFFICES ASSUME AddressesInv, [Addresses!Next]_addressVars PROVE AddressesInv'
  OBVIOUS
<1>1. ASSUME NEW a \in Addresses!Probes(master), NEW read \in BOOLEAN, Addresses!Transfer(a, read)
      PROVE  AddressesInv'
  <2>1. a \in 0..(Addresses!System[master].top - 4)
    BY DEF Addresses!Probes
  <2>2. a \in Nat
    BY <2>1, SMT
  <2> QED  BY <1>1, <2>2, Zenon DEF AddressesInv, Addresses!Transfer
<1>2. CASE UNCHANGED addressVars
  BY <1>2 DEF AddressesInv, addressVars
<1> QED  BY <1>1, <1>2 DEF Addresses!Next

LEMMA AddressesHold == AddressesInv => AddressesAgree
<1> SUFFICES ASSUME AddressesInv PROVE Addresses!DeclaredReached /\ Addresses!NoAlias
  BY DEF AddressesAgree
<1>1. PICK a \in Nat, read \in BOOLEAN : transfer = [addr |-> a, read |-> read]
  BY DEF AddressesInv
<1>2. /\ master \in Systems /\ reached = Addresses!Route(master, [addr |-> a, read |-> read])
      /\ transfer.addr = a /\ transfer.read = read
  BY <1>1 DEF AddressesInv
<1>3. Addresses!DeclaredReached
  <2> SUFFICES ASSUME NEW d \in Addresses!Of(transfer), read \/ d.slave \notin Addresses!ReadOnly
               PROVE  reached = [slave |-> d.slave, offset |-> a - d.base]
    BY <1>2 DEF Addresses!DeclaredReached
  <2>1. d \in Addresses!Declared[master] /\ a \in d.base..(d.base + d.span - 1)
    BY <1>2 DEF Addresses!Of
  <2> QED  BY <1>2, <2>1, EveryAddress
<1>4. Addresses!NoAlias
  <2> SUFFICES ASSUME NEW b \in Addresses!Probes(master),
                      Addresses!Route(master, [transfer EXCEPT !.addr = b]) = reached,
                      reached.slave \notin {"sdram", "memory", "debug", "oscillator"}
               PROVE  b = a
    BY <1>2 DEF Addresses!NoAlias
  <2>1. b \in 0..(Addresses!System[master].top - 4)
    BY DEF Addresses!Probes
  <2>2. b \in Nat
    BY <2>1, SMT
  <2>3. [transfer EXCEPT !.addr = b] = [addr |-> b, read |-> read]
    BY <1>1
  <2> QED  BY <1>2, <2>2, <2>3, OneName
<1> QED  BY <1>3, <1>4

\* In every behaviour what system.h declares is what the decoders do, and no
\* device answers to an address it was not given.
THEOREM AddressesMatch == SupportSpec => []AddressesAgree
<1>1. SupportInit => AddressesInv
  BY AddressesInit DEF SupportInit
<1>2. AddressesInv /\ [SupportNext]_supportVars => AddressesInv'
  <2>1. [SupportNext]_supportVars => [Addresses!Next]_addressVars
    BY DEF SupportNext, supportVars, addressVars, In
  <2> QED  BY <2>1, AddressesStep
<1> QED  BY <1>1, <1>2, AddressesHold, PTL DEF SupportSpec

-----------------------------------------------------------------------------
(***************************************************************************)
(* No part leaves its types, for sizes of any kind: within the same bound  *)
(* on the time since reset as TimeIsKept, and dropping lines unwritten as  *)
(* in MemoryIsCurrent, for on these the invariants of both rest.           *)
(***************************************************************************)
THEOREM SupportTypes ==
  ASSUME MaxTicks * Clock!TickUs < U32, DropsAnywhere = FALSE
  PROVE  SupportSpec => []SupportTypeOK
<1>1. Small
  BY DEF Small
<1>2. ClockInv => Clock!TypeOK
  BY DEF ClockInv, Clock!TypeOK
<1>3. SleepInv => Sleep!TypeOK
  <2> SUFFICES ASSUME SleepInv PROVE Sleep!TypeOK
    OBVIOUS
  <2> QED  BY SleepConstants DEF SleepInv, Sleep!TypeOK, Long
<1>4. CacheInv => Cache!TypeOK
  <2> SUFFICES ASSUME CacheInv PROVE Cache!TypeOK
    OBVIOUS
  <2>1. \A b \in uncached : Cache!Span(b.start, b.len) \subseteq Addr
    BY WholeWithin DEF CacheInv, BlocksInv
  <2> QED  BY <2>1 DEF CacheInv, Contents, Held, Cache!TypeOK, Addr, SetOf, Resident
<1>5. IInv /\ FilesInv /\ ClockInv /\ SleepInv /\ CacheInv /\ OscInv => SupportTypeOK
  BY <1>2, <1>3, <1>4 DEF IInv, FilesInv, OscInv, SupportTypeOK
<1> QED  BY <1>1, <1>5, SbrkAlways, FilesAlways, ClockAlways, SleepAlways, CacheAlways, OscAlways, PTL
=============================================================================
