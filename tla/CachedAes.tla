------------------------------ MODULE CachedAes ------------------------------
(***************************************************************************)
(* The program of Nios II A and the AES registers again, with the data     *)
(* cache between them: AES_PTR is volatile, but the program is compiled to *)
(* plain ldw and stw and the pointer has bit 31 clear, so every access is  *)
(* served by the cache.  Registers 8 to 15, with START and DONE, make one  *)
(* line of it.  Everything else the processor does matters only in that it *)
(* may evict that line.                                                    *)
(***************************************************************************)
VARIABLES
  START, DONE,     (* registers 14 and 15 of the slave: are they set       *)
  phase,           (* the core: "idle", "busy" or "done"                   *)
  line,            (* the cached copy of START and DONE, or Absent         *)
  dirty,           (* is the line to be written back                       *)
  pc               (* the program: "start", "poll" or "stop"               *)
vars == <<START, DONE, phase, line, dirty, pc>>

Absent == <<>>

\* What the slave holds is brought in when the line is not there.
Filled == IF line = Absent THEN <<START, DONE>> ELSE line

StoreStart(value) ==
  /\ line' = <<value, Filled[2]>> /\ dirty' = TRUE
  /\ UNCHANGED <<START, DONE, phase>>

Start == pc = "start" /\ pc' = "poll" /\ StoreStart(TRUE)

\* decrypt: the loop on AES_PTR[15], and the write that ends the run; then the
\* next job of the test loop.
Poll ==
  /\ pc = "poll" /\ line' = Filled
  /\ pc' = IF Filled[2] THEN "stop" ELSE "poll"
  /\ UNCHANGED <<START, DONE, phase, dirty>>
Stop == pc = "stop" /\ pc' = "start" /\ StoreStart(FALSE)

\* The line makes room for another; a dirty one writes all its registers.  The
\* slave lets DONE of the core win over the write.
\* Mutant: the line is dropped without writing it back.
Evict_Drops ==
  /\ line # Absent /\ line' = Absent /\ dirty' = FALSE
  /\ UNCHANGED <<START, DONE, phase, pc>>
Evict ==
  /\ line # Absent /\ line' = Absent /\ dirty' = FALSE
  /\ IF dirty THEN START' = line[1] /\ DONE' = (line[2] \/ phase = "done")
              ELSE UNCHANGED <<START, DONE>>
  /\ UNCHANGED <<phase, pc>>

Core(from, to) ==
  /\ phase = from /\ phase' = to /\ DONE' = (DONE \/ to = "done")
  /\ UNCHANGED <<START, line, dirty, pc>>
Take == START /\ Core("idle", "busy")
Complete == Core("busy", "done")
Release == START /\ Core("done", "idle")

Init ==
  /\ START = FALSE /\ DONE = FALSE /\ phase = "idle"
  /\ line = Absent /\ dirty = FALSE /\ pc = "start"

Next == Start \/ Poll \/ Stop \/ Evict \/ Take \/ Complete \/ Release

\* Nothing obliges the line to be evicted.
Spec ==
  /\ Init /\ [][Next]_vars
  /\ WF_vars(Start) /\ WF_vars(Poll) /\ WF_vars(Stop)
  /\ WF_vars(Take) /\ WF_vars(Complete) /\ WF_vars(Release)

-----------------------------------------------------------------------------
\* "wait for DONE to be indicated in hardware" (hello_world.c:388): the wait ends
\* if the line is evicted again and again: START reaches the slave, DONE
\* the program, and the write-back of an old START and DONE undoes neither run.
PollEndsIfEvicted == []<>(line = Absent) => (pc = "poll" ~> pc # "poll")

\* Nothing obliges the cache to evict it, and then it need not.
PollEnds == pc = "poll" ~> pc # "poll"
=============================================================================
