--------------------------- MODULE JtagUartDriver ---------------------------
(***************************************************************************)
(* The interrupt-driven JTAG UART driver of processor A: a ring buffer in  *)
(* each direction between the program, which runs write, read, close and   *)
(* ioctl one at a time, and the interrupt routine, which moves bytes       *)
(* between the rings and the device.  An alarm looks once a second whether *)
(* the host has been active.                                               *)
(*                                                                         *)
(* A step is what no interrupt, scan or alarm can come in the middle of    *)
(* with effect.  The program stands still while a routine runs; the host   *)
(* does not.                                                               *)
(***************************************************************************)
EXTENDS JtagUart

CONSTANTS
  BUF_LEN,            (* ALTERA_AVALON_JTAG_UART_BUF_LEN                   *)
  DEFAULT_TIMEOUT,    (* seconds after which an inactive host is given up  *)
  INT_MAX,
  MaxCount,           (* the longest write or read of the program          *)
  Calls,              (* which of the driver's functions it calls          *)
  Timeouts            (* the arguments of its TIOCSTIMEOUT                 *)

ASSUME DriverAssumption ==
  /\ BUF_LEN \in Nat /\ BUF_LEN > 1
  /\ INT_MAX \in Nat /\ DEFAULT_TIMEOUT \in 2..(INT_MAX - 1)
  /\ MaxCount \in Nat \ {0}
  /\ Calls \subseteq {"write", "read", "close", "ioctl"}
  /\ Timeouts \subseteq Nat
  /\ Period > BUF_LEN + FIFO_DEPTH

VARIABLES
  tx_buf, tx_in, tx_out, rx_buf, rx_in, rx_out,
  irq_enable, host_inactive, timeout,
  isr,       (* the interrupt routine: its place, and what it has read     *)
  call,      (* the program's call: its place and locals, or its result    *)
  wrote,     (* the byte the program writes next                           *)
  reads      (* the byte it should read next                               *)

rings == <<tx_buf, tx_in, tx_out, rx_buf, rx_in, rx_out>>
watch == <<host_inactive, timeout>>
program == <<call, wrote, reads>>
vars == <<device, rings, irq_enable, watch, isr, program>>

Slot == 0..(BUF_LEN - 1)
\* Mutant: indices that do not wrap.
NextSlot_NoWrap(i) == i + 1
NextSlot(i) == (i + 1) % BUF_LEN

\* The bytes in a ring, oldest first.
Ring(buf, in, out) ==
  [k \in 1..((in + BUF_LEN - out) % BUF_LEN) |-> buf[(out + k - 1) % BUF_LEN]]
TxRing == Ring(tx_buf, tx_in, tx_out)
RxRing == Ring(rx_buf, rx_in, rx_out)

(***************************************************************************)
(* The interrupt routine.  It reads CONTROL until neither interrupt is     *)
(* pending, and acts on what that read said.                               *)
(***************************************************************************)
AtControl == [at |-> "control", wi |-> FALSE, space |-> 0, avail |-> 0]
NoIsr == [AtControl EXCEPT !.at = "off"]

Interrupt ==
  /\ isr.at = "off" /\ av_irq
  /\ isr' = AtControl
  /\ UNCHANGED <<device, rings, irq_enable, watch, program>>

ReadControl ==
  /\ isr.at = "control"
  /\ isr' = IF ~av_irq THEN NoIsr
            ELSE [at |-> IF RI THEN "rx" ELSE "tx", wi |-> WI,
                  space |-> IF WI THEN WSPACE ELSE 0, avail |-> IF RI THEN 1 ELSE 0]
  /\ UNCHANGED <<device, rings, irq_enable, watch, program>>

Enable(enable) == irq_enable' = enable /\ IOWR_CONTROL(enable)
AfterRx == IF isr.wi THEN [isr EXCEPT !.at = "tx", !.avail = 0] ELSE AtControl

\* Mutant: the routine fills the ring to its last slot.
ReceiveByte_NoGap ==
  /\ isr.at = "rx" /\ IORD_DATA
  /\ IF RVALID THEN /\ rx_buf' = [rx_buf EXCEPT ![rx_in] = Head(rfifo)]
                    /\ rx_in' = NextSlot(rx_in)
                    /\ isr' = [isr EXCEPT !.avail = Len(rfifo) - 1]
               ELSE isr' = AfterRx /\ UNCHANGED <<rx_buf, rx_in>>
  /\ UNCHANGED <<tx_buf, tx_in, tx_out, rx_out, irq_enable, watch, program>>
ReceiveByte ==
  /\ isr.at = "rx" /\ NextSlot(rx_in) # rx_out /\ IORD_DATA
  /\ IF RVALID THEN /\ rx_buf' = [rx_buf EXCEPT ![rx_in] = Head(rfifo)]
                    /\ rx_in' = NextSlot(rx_in)
                    /\ isr' = [isr EXCEPT !.avail = Len(rfifo) - 1]
               ELSE isr' = AfterRx /\ UNCHANGED <<rx_buf, rx_in>>
  /\ UNCHANGED <<tx_buf, tx_in, tx_out, rx_out, irq_enable, watch, program>>

\* The ring is full.  Unless the last DATA read said the FIFO is empty,
\* there may be more: no more receive interrupts until there is space.
StopReceiving ==
  /\ isr.at = "rx" /\ NextSlot(rx_in) = rx_out
  /\ IF isr.avail > 0 THEN Enable(irq_enable \ {"RE"}) ELSE UNCHANGED <<irq_enable, device>>
  /\ isr' = AfterRx
  /\ UNCHANGED <<rings, watch, program>>

TransmitByte ==
  /\ isr.at = "tx" /\ isr.space > 0 /\ tx_out # tx_in
  /\ IOWR_DATA(tx_buf[tx_out])
  /\ tx_out' = NextSlot(tx_out)
  /\ isr' = [isr EXCEPT !.space = @ - 1]
  /\ UNCHANGED <<tx_buf, tx_in, rx_buf, rx_in, rx_out, irq_enable, watch, program>>

\* Mutant: transmit interrupts go off whenever the routine leaves the loop.
StopTransmitting_Always ==
  /\ isr.at = "tx" /\ (isr.space = 0 \/ tx_out = tx_in)
  /\ Enable(irq_enable \ {"WE"})
  /\ isr' = AtControl
  /\ UNCHANGED <<rings, watch, program>>
StopTransmitting ==
  /\ isr.at = "tx" /\ (isr.space = 0 \/ tx_out = tx_in)
  /\ IF isr.space > 0 THEN Enable(irq_enable \ {"WE"}) ELSE UNCHANGED <<irq_enable, device>>
  /\ isr' = AtControl
  /\ UNCHANGED <<rings, watch, program>>

Isr == \/ Interrupt \/ ReadControl \/ ReceiveByte \/ StopReceiving
       \/ TransmitByte \/ StopTransmitting

(***************************************************************************)
(* The alarm, in the timer's interrupt.  It could not be started, and      *)
(* timeout would be INT_MAX, in a system without a clock.                  *)
(***************************************************************************)
HostCheck ==
  /\ isr.at = "off" /\ timeout # INT_MAX
  /\ \/ ac /\ host_inactive' = 0 /\ IOWR_CONTROL_AC(irq_enable)
     \/ /\ ~ac /\ UNCHANGED device
        /\ host_inactive' = IF host_inactive < INT_MAX - 2 THEN host_inactive + 1 ELSE host_inactive
  /\ UNCHANGED <<rings, irq_enable, timeout, isr, program>>

GivenUp == host_inactive >= timeout

(***************************************************************************)
(* The program's calls.                                                    *)
(***************************************************************************)
Results == {"done", "EWOULDBLOCK", "EIO", "ENOTTY"}
Idle(result) ==
  [at |-> "idle", left |-> 0, moved |-> FALSE, nonblock |-> FALSE, seen |-> 0,
   data |-> <<>>, result |-> result]

Goto(place) == call' = [call EXCEPT !.at = place]

\* What write and read return, by whether they moved any byte.
Returned == IF call.moved THEN "done" ELSE IF call.nonblock THEN "EWOULDBLOCK" ELSE "EIO"
Return == call' = Idle(Returned)

Entry == [write |-> "w_copy", read |-> "r_copy", close |-> "c_spin"]
Invoke(f, count, nonblock) ==
  /\ call.at = "idle" /\ isr.at = "off"
  /\ call' = [Idle("done") EXCEPT !.at = Entry[f], !.left = count, !.nonblock = nonblock]
  /\ UNCHANGED <<device, rings, irq_enable, watch, isr, wrote, reads>>

At(place) == call.at = place /\ isr.at = "off"

\* write: room in the ring up to its end or to the slot before tx_out.
\* Mutant: no slot kept free when the free part ends the buffer.
WriteRoom_NoGap == IF tx_in < tx_out THEN tx_out - 1 - tx_in ELSE BUF_LEN - tx_in
WriteRoom == IF tx_in < tx_out THEN tx_out - 1 - tx_in
             ELSE IF tx_out > 0 THEN BUF_LEN - tx_in
             ELSE BUF_LEN - 1 - tx_in
AtMost(a, b) == IF a < b THEN a ELSE b

WriteCopy ==
  /\ At("w_copy")
  /\ LET n == AtMost(WriteRoom, call.left)
     IN  IF n = 0
         THEN /\ call' = [call EXCEPT !.at = "w_kick",
                                      !.seen = IF call.left > 0 THEN tx_out ELSE @]
              /\ UNCHANGED tx_buf
         ELSE /\ tx_buf' = [i \in Slot |-> IF i \in tx_in..(tx_in + n - 1)
                                           THEN Plus(wrote, i - tx_in) ELSE tx_buf[i]]
              /\ call' = [call EXCEPT !.at = "w_publish", !.data = From(wrote, n)]
  /\ UNCHANGED <<device, tx_in, tx_out, rx_buf, rx_in, rx_out, irq_enable, watch, isr, wrote, reads>>

WritePublish ==
  /\ At("w_publish")
  /\ LET n == Len(call.data)
     IN  /\ tx_in' = (tx_in + n) % BUF_LEN
         /\ wrote' = Plus(wrote, n)
         /\ call' = [call EXCEPT !.at = "w_copy", !.left = @ - n, !.moved = TRUE, !.data = <<>>]
  /\ UNCHANGED <<device, tx_buf, tx_out, rx_buf, rx_in, rx_out, irq_enable, watch, isr, reads>>

\* Mutant: the interrupt is left to those who find the ring full.
WriteKick_WhenFull ==
  /\ At("w_kick")
  /\ IF call.left > 0 THEN Enable(irq_enable \cup {"WE"}) ELSE UNCHANGED <<irq_enable, device>>
  /\ IF call.left > 0 /\ ~call.nonblock THEN Goto("w_spin") ELSE Return
  /\ UNCHANGED <<rings, watch, isr, wrote, reads>>
WriteKick ==
  /\ At("w_kick")
  /\ Enable(irq_enable \cup {"WE"})
  /\ IF call.left > 0 /\ ~call.nonblock THEN Goto("w_spin") ELSE Return
  /\ UNCHANGED <<rings, watch, isr, wrote, reads>>

\* Mutant: the wait has no limit.
WriteSpin_NoTimeout ==
  /\ At("w_spin") /\ call.seen # tx_out
  /\ Goto("w_check")
  /\ UNCHANGED <<device, rings, irq_enable, watch, isr, wrote, reads>>
WriteSpin ==
  /\ At("w_spin") /\ (call.seen # tx_out \/ GivenUp)
  /\ Goto("w_check")
  /\ UNCHANGED <<device, rings, irq_enable, watch, isr, wrote, reads>>

WriteCheck ==
  /\ At("w_check")
  /\ IF host_inactive > 0 THEN Return ELSE Goto("w_copy")
  /\ UNCHANGED <<device, rings, irq_enable, watch, isr, wrote, reads>>

\* read: the bytes up to rx_in or to the end of the ring.
ReadRoom == IF rx_in >= rx_out THEN rx_in - rx_out ELSE BUF_LEN - rx_out

ReadCopy ==
  /\ At("r_copy")
  /\ LET n == AtMost(ReadRoom, call.left)
         chunk == [k \in 1..n |-> rx_buf[rx_out + k - 1]]
     IN  IF n > 0 THEN call' = [call EXCEPT !.at = "r_publish", !.data = chunk]
         ELSE IF call.moved THEN Goto("r_kick")
         ELSE IF call.nonblock THEN Return
         ELSE call' = [call EXCEPT !.at = "r_spin", !.seen = rx_in]
  /\ UNCHANGED <<device, rings, irq_enable, watch, isr, wrote, reads>>

ReadPublish ==
  /\ At("r_publish")
  /\ LET n == Len(call.data)
     IN  /\ rx_out' = (rx_out + n) % BUF_LEN
         /\ reads' = Plus(call.data[n], 1)
         /\ call' = [call EXCEPT !.at = IF call.left = n THEN "r_kick" ELSE "r_copy",
                                 !.left = @ - n, !.moved = TRUE, !.data = <<>>]
  /\ UNCHANGED <<device, tx_buf, tx_in, tx_out, rx_buf, rx_in, irq_enable, watch, isr, wrote>>

\* Mutant: receive interrupts stay off.
ReadKick_None ==
  /\ At("r_kick") /\ Return
  /\ UNCHANGED <<device, irq_enable, rings, watch, isr, wrote, reads>>
ReadKick ==
  /\ At("r_kick")
  /\ Enable(irq_enable \cup {"RE"})
  /\ Return
  /\ UNCHANGED <<rings, watch, isr, wrote, reads>>

ReadSpin ==
  /\ At("r_spin") /\ (call.seen # rx_in \/ GivenUp)
  /\ Goto("r_check")
  /\ UNCHANGED <<device, rings, irq_enable, watch, isr, wrote, reads>>

ReadCheck ==
  /\ At("r_check")
  /\ IF call.seen = rx_in THEN Return ELSE Goto("r_copy")
  /\ UNCHANGED <<device, rings, irq_enable, watch, isr, wrote, reads>>

Close ==
  /\ At("c_spin")
  /\ \/ (tx_out = tx_in \/ GivenUp) /\ call' = Idle("done")
     \/ tx_out # tx_in /\ ~GivenUp /\ call.nonblock /\ call' = Idle("EWOULDBLOCK")
  /\ UNCHANGED <<device, rings, irq_enable, watch, isr, wrote, reads>>

SetTimeout(t) ==
  /\ At("idle")
  /\ timeout' = IF timeout = INT_MAX THEN INT_MAX
                ELSE IF t >= 2 /\ t < INT_MAX THEN t ELSE INT_MAX - 1
  /\ call' = Idle(IF timeout = INT_MAX THEN "ENOTTY" ELSE "done")
  /\ UNCHANGED <<device, rings, irq_enable, host_inactive, isr, wrote, reads>>

Working == \/ WriteCopy \/ WritePublish \/ WriteKick \/ WriteSpin \/ WriteCheck
           \/ ReadCopy \/ ReadPublish \/ ReadKick \/ ReadSpin \/ ReadCheck
           \/ Close

Calling == \/ \E f \in Calls \cap {"write", "read"}, count \in 1..MaxCount, nonblock \in BOOLEAN :
                Invoke(f, count, nonblock)
           \/ \E f \in Calls \cap {"close"}, nonblock \in BOOLEAN : Invoke(f, 0, nonblock)
           \/ \E f \in Calls \cap {"ioctl"}, t \in Timeouts : SetTimeout(t)

Host == HostNext /\ UNCHANGED <<rings, irq_enable, watch, isr, program>>

Init ==
  /\ wfifo = <<>> /\ rfifo = <<>> /\ pause_irq = FALSE /\ ac = FALSE
  /\ connected \in BOOLEAN /\ got = 0 /\ sent = 0
  /\ tx_buf = [i \in Slot |-> 0] /\ tx_in = 0 /\ tx_out = 0
  /\ rx_buf = [i \in Slot |-> 0] /\ rx_in = 0 /\ rx_out = 0
  /\ irq_enable = {"RE"} /\ ien = irq_enable
  /\ host_inactive = 0 /\ timeout = DEFAULT_TIMEOUT
  /\ isr = NoIsr /\ call = Idle("done")
  /\ wrote = 0 /\ reads = 0

Next == Host \/ Isr \/ HostCheck \/ Working \/ Calling
Spec == Init /\ [][Next]_vars

-----------------------------------------------------------------------------
(***************************************************************************)
(* Properties.                                                             *)
(***************************************************************************)
Places == {"idle", "w_copy", "w_publish", "w_kick", "w_spin", "w_check",
           "r_copy", "r_publish", "r_kick", "r_spin", "r_check", "c_spin"}

TypeOK ==
  /\ DeviceTypeOK
  /\ tx_buf \in [Slot -> Byte] /\ rx_buf \in [Slot -> Byte]
  /\ {tx_in, tx_out, rx_in, rx_out} \subseteq Slot
  /\ irq_enable \subseteq Interrupts
  /\ host_inactive \in Nat /\ timeout \in Nat
  /\ isr \in [at : {"off", "control", "rx", "tx"}, wi : BOOLEAN,
              space : 0..FIFO_DEPTH, avail : 0..FIFO_DEPTH]
  /\ call \in [at : Places, left : 0..MaxCount, moved : BOOLEAN, nonblock : BOOLEAN,
               seen : Slot, data : Seq(Byte), result : Results]
  /\ Len(call.data) <= call.left
  /\ wrote \in Byte /\ reads \in Byte

\* The transmitter is never left asleep over bytes in its ring: unless the
\* routine is running, or the program is in the part of write that kicks it,
\* the transmit interrupt is on.  The routine decides to turn it off while
\* the program, interrupted anywhere in write, may have bytes to publish.
TransmitterAwake ==
  tx_in # tx_out /\ isr.at = "off" /\ call.at \notin {"w_copy", "w_publish", "w_kick"}
    => "WE" \in ien

\* Receive interrupts are off only while the ring is full, or read is about
\* to turn them on again: no interleaving of the routine that turns them off
\* with the read that makes space leaves the console deaf.
ReceiverAwake ==
  "RE" \notin ien => \/ NextSlot(rx_in) = rx_out
                     \/ call.at \in {"r_copy", "r_publish", "r_kick"} /\ call.moved

\* So neither direction sleeps over work there is to do.
NeitherAsleep == TransmitterAwake /\ ReceiverAwake

\* What the program puts into the console comes out at the host, each byte
\* once and in order, through ring and FIFO ...
Output == INSTANCE ByteStream
            WITH Capacity <- BUF_LEN - 1 + FIFO_DEPTH,
                 pipe <- wfifo \o TxRing, in <- wrote, out <- got
OutputIsStream == Output!StreamSpec
\* ... and the other way round; nothing is lost when a ring is full.
Input == INSTANCE ByteStream
           WITH Capacity <- BUF_LEN - 1 + FIFO_DEPTH,
                pipe <- RxRing \o rfifo, in <- sent, out <- reads
InputIsStream == Input!StreamSpec
\* Both directions, whatever they share.
Streams == OutputIsStream /\ InputIsStream

Fairness ==
  /\ WF_vars(Isr) /\ WF_vars(Working) /\ WF_vars(HostCheck)
  /\ WF_vars(Take /\ Host) /\ WF_vars(Pause /\ Host)
FairSpec == Spec /\ Fairness

\* write and close come back, whether the host stays or has gone.
Waiting == call.at \notin {"idle", "r_copy", "r_publish", "r_kick", "r_spin", "r_check"}
OutputReturns == <>[]connected \/ <>[]~connected => []<>~Waiting

\* A byte that write accepted leaves the ring for a host that stays, also after
\* write has given up, and with nobody writing any more.
Delivered ==
  <>[]connected => \A k \in Slot : tx_out = k /\ tx_in # k ~> tx_out # k

\* The program is not left waiting for a byte the host has sent, nor at all
\* once the host has gone.
InputReturns ==
  /\ <>[]~connected => []<>(call.at # "r_spin")
  /\ <>[]connected => []<>(call.at # "r_spin" \/ RxRing \o rfifo = <<>>)

\* No call of the program waits for ever on a wake-up, or on a host that has
\* gone: the interrupt, the alarm or the timeout gets it out.
CallsReturn == OutputReturns /\ InputReturns

\* altera_avalon_jtag_uart_write.c:214 comments the -EIO of write "Host not
\* connected".  A host is connected while host_inactive < timeout, says
\* TIOCGCONNECTED (altera_avalon_jtag_uart_ioctl.c:71-74); all the more if it
\* has just taken the bytes that write was waiting behind.
EIOMeansNotConnected ==
  [][call.at = "w_check" /\ call'.result = "EIO"
       => ~connected \/ GivenUp \/ call.seen = tx_out]_vars
=============================================================================
