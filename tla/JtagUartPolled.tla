--------------------------- MODULE JtagUartPolled ---------------------------
(***************************************************************************)
(* The small JTAG UART driver, which processor B is built with: no rings   *)
(* and no interrupts, write and read poll the device.  One step is one     *)
(* access of the device; the host comes between any two.                   *)
(***************************************************************************)
EXTENDS JtagUart

CONSTANTS MaxCount        \* the longest write or read

PolledAssumption == MaxCount \in Nat \ {0}

VARIABLES
  call,            (* the program's call: its place and locals, or result  *)
  wrote, reads     (* the bytes it writes, and should read, next           *)

vars == <<device, call, wrote, reads>>

Rest(result) ==
  [at |-> "idle", left |-> 0, moved |-> FALSE, nonblock |-> FALSE, result |-> result]

Invoke(place, count, nonblock) ==
  /\ call.at = "idle"
  /\ call' = [at |-> place, left |-> count, moved |-> FALSE, nonblock |-> nonblock,
              result |-> "done"]
  /\ UNCHANGED <<device, wrote, reads>>

\* write: look at WSPACE until there is some, then write one byte.  There is
\* no way out but the last byte, whatever the flags.
\* Mutant: the interrupt bit polled in its place.
PollSpace_WI ==
  /\ call.at = "w_space" /\ WI
  /\ call' = [call EXCEPT !.at = "w_data"]
  /\ UNCHANGED <<device, wrote, reads>>
PollSpace ==
  /\ call.at = "w_space" /\ WSPACE > 0
  /\ call' = [call EXCEPT !.at = "w_data"]
  /\ UNCHANGED <<device, wrote, reads>>

\* Mutant: two bytes on the strength of one look.
WriteByte_OnceChecked ==
  /\ call.at = "w_data" /\ IOWR_DATA(wrote)
  /\ wrote' = Plus(wrote, 1)
  /\ call' = IF call.left = 1 THEN Rest("done") ELSE [call EXCEPT !.left = @ - 1]
  /\ UNCHANGED reads
WriteByte ==
  /\ call.at = "w_data" /\ IOWR_DATA(wrote)
  /\ wrote' = Plus(wrote, 1)
  /\ call' = IF call.left = 1 THEN Rest("done")
             ELSE [call EXCEPT !.at = "w_space", !.left = @ - 1]
  /\ UNCHANGED reads

\* read: each look at DATA takes a byte if there is one.  Without one the
\* call ends if it has some already, or must not wait.
\* Mutant: a byte is taken before the space for it is checked.
ReadByte_OneMore ==
  /\ call.at = "r_data" /\ IORD_DATA
  /\ IF RVALID /\ call.left > 0
     THEN /\ reads' = Plus(Head(rfifo), 1)
          /\ call' = [call EXCEPT !.left = @ - 1, !.moved = TRUE]
     ELSE /\ call' = IF call.moved THEN Rest("done")
                     ELSE IF call.nonblock THEN Rest("EWOULDBLOCK") ELSE call
          /\ UNCHANGED reads
  /\ UNCHANGED wrote
ReadByte ==
  /\ call.at = "r_data" /\ IORD_DATA
  /\ IF RVALID
     THEN /\ reads' = Plus(Head(rfifo), 1)
          /\ call' = IF call.left = 1 THEN Rest("done")
                     ELSE [call EXCEPT !.left = @ - 1, !.moved = TRUE]
     ELSE /\ call' = IF call.moved THEN Rest("done")
                     ELSE IF call.nonblock THEN Rest("EWOULDBLOCK") ELSE call
          /\ UNCHANGED reads
  /\ UNCHANGED wrote

Init ==
  /\ wfifo = <<>> /\ rfifo = <<>> /\ pause_irq = FALSE /\ ac = FALSE
  /\ ien = {} /\ connected \in BOOLEAN /\ got = 0 /\ sent = 0
  /\ call = Rest("done") /\ wrote = 0 /\ reads = 0

Working == PollSpace \/ WriteByte \/ ReadByte
Calling == \E place \in {"w_space", "r_data"}, count \in 1..MaxCount, nonblock \in BOOLEAN :
             Invoke(place, count, nonblock)
Host == HostNext /\ UNCHANGED <<call, wrote, reads>>
Next == Working \/ Calling \/ Host

Spec == Init /\ [][Next]_vars
Fairness == WF_vars(Working) /\ WF_vars(Take /\ Host) /\ WF_vars(Send /\ Host)
FairSpec == Spec /\ Fairness

-----------------------------------------------------------------------------
TypeOK ==
  /\ DeviceTypeOK
  /\ call \in [at : {"idle", "w_space", "w_data", "r_data"}, left : 0..MaxCount,
               moved : BOOLEAN, nonblock : BOOLEAN, result : {"done", "EWOULDBLOCK"}]
  /\ (call.at = "idle") <=> (call.left = 0)
  /\ {wrote, reads} \subseteq Byte

\* No byte is written to a full FIFO, which would drop it, nor lost between
\* the FIFO and the buffer of a read that is cut short.
Output == INSTANCE ByteStream
            WITH Capacity <- FIFO_DEPTH, pipe <- wfifo, in <- wrote, out <- got
OutputIsStream == Output!StreamSpec
Input == INSTANCE ByteStream
           WITH Capacity <- FIFO_DEPTH, pipe <- rfifo, in <- sent, out <- reads
InputIsStream == Input!StreamSpec

\* With a host that stays, and sends, every call comes back.  Without one a
\* write of more than the FIFO holds never does.
CallsReturn == <>[]connected => []<>(call.at = "idle")
=============================================================================
