------------------------------ MODULE JtagUart ------------------------------
(***************************************************************************)
(* unsaved_Nios2_A_jtag_uart_0.v, the device behind the console of both    *)
(* processors, and the host at the other end of its cable.  Two FIFOs lead *)
(* to the host and back.  The processor sees two registers, DATA and       *)
(* CONTROL; the host scans the device now and then, or is not there.       *)
(*                                                                         *)
(* A byte stands for its place in the stream: the k-th byte either side    *)
(* sends is k % Period.  Period exceeds what is ever on the way, so a byte *)
(* lost, repeated or out of its place shows as a value out of turn.        *)
(***************************************************************************)
EXTENDS Naturals, Sequences

CONSTANTS
  FIFO_DEPTH,      (* Bytes each FIFO holds.                               *)
  THRESHOLD,       (* An interrupt is due with this much left, or less.    *)
  Period,          (* Bytes in a stream before their values repeat.        *)
  HostSends        (* Whether the host has anything to send.               *)

ASSUME DeviceAssumption ==
  /\ FIFO_DEPTH \in Nat \ {0} /\ THRESHOLD \in 0..FIFO_DEPTH
  /\ Period \in Nat /\ Period > FIFO_DEPTH
  /\ HostSends \in BOOLEAN

VARIABLES
  wfifo, rfifo,    (* bytes to the host, bytes from it                     *)
  ien,             (* the interrupts enabled: "WE" (ien_AE), "RE" (ien_AF) *)
  pause_irq,       (* the host paused and left bytes in rfifo              *)
  ac,              (* the host has been active                             *)
  connected,       (* whether a host scans the device at all               *)
  got, sent        (* the byte the host expects next, and sends next       *)

host == <<connected, got, sent>>
device == <<wfifo, rfifo, ien, pause_irq, ac, host>>

Byte == 0..(Period - 1)
Interrupts == {"RE", "WE"}

\* The byte n places after b, and the n bytes from b on.
Plus(b, n) == (b + n) % Period
From(b, n) == [k \in 1..n |-> Plus(b, k - 1)]

WSPACE == FIFO_DEPTH - Len(wfifo)
WI == "WE" \in ien /\ Len(wfifo) <= THRESHOLD
RI == "RE" \in ien /\ (pause_irq \/ FIFO_DEPTH - Len(rfifo) <= THRESHOLD)
av_irq == WI \/ RI

(***************************************************************************)
(* What the processor does to the device.  A byte written to a full FIFO   *)
(* is dropped.  Reading DATA takes a byte if there is one, and ends a      *)
(* pause either way.                                                       *)
(***************************************************************************)
IOWR_CONTROL(enable) == ien' = enable /\ UNCHANGED <<wfifo, rfifo, pause_irq, ac, host>>

IOWR_CONTROL_AC(enable) ==
  ien' = enable /\ ac' = FALSE /\ UNCHANGED <<wfifo, rfifo, pause_irq, host>>

IOWR_DATA(b) ==
  /\ wfifo' = IF WSPACE > 0 THEN Append(wfifo, b) ELSE wfifo
  /\ UNCHANGED <<rfifo, ien, pause_irq, ac, host>>

RVALID == rfifo # <<>>
IORD_DATA ==
  /\ rfifo' = IF RVALID THEN Tail(rfifo) ELSE rfifo
  /\ pause_irq' = FALSE
  /\ UNCHANGED <<wfifo, ien, ac, host>>

(***************************************************************************)
(* What the host does: its scans come and go, and each may take a byte,    *)
(* send one, or end in a pause.  Sending and pausing count as activity;    *)
(* whether a scan that only takes a byte does depends on the JTAG hub.     *)
(***************************************************************************)
Plug == connected' = ~connected /\ UNCHANGED <<wfifo, rfifo, ien, pause_irq, ac, got, sent>>

Take ==
  /\ connected /\ wfifo # <<>>
  /\ wfifo' = Tail(wfifo)
  /\ got' = Plus(Head(wfifo), 1)
  /\ ac' \in {ac, TRUE}
  /\ UNCHANGED <<rfifo, ien, pause_irq, connected, sent>>

Send ==
  /\ HostSends /\ connected /\ Len(rfifo) < FIFO_DEPTH
  /\ rfifo' = Append(rfifo, sent)
  /\ sent' = Plus(sent, 1)
  /\ ac' = TRUE
  /\ UNCHANGED <<wfifo, ien, pause_irq, connected, got>>

Pause ==
  /\ connected
  /\ pause_irq' = (pause_irq \/ RVALID)
  /\ ac' = TRUE
  /\ UNCHANGED <<wfifo, rfifo, ien, host>>

HostNext == Plug \/ Take \/ Send \/ Pause

DeviceTypeOK ==
  /\ wfifo \in Seq(Byte) /\ Len(wfifo) <= FIFO_DEPTH
  /\ rfifo \in Seq(Byte) /\ Len(rfifo) <= FIFO_DEPTH
  /\ ien \subseteq Interrupts
  /\ {pause_irq, ac, connected} \subseteq BOOLEAN
  /\ {got, sent} \subseteq Byte
=============================================================================
