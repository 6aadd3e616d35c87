------------------------ MODULE JtagUartDriver_proofs ------------------------
(***************************************************************************)
(* For FIFOs and rings of any size and any host.  First: neither direction *)
(* of the console of A is ever left asleep.  Of the rings only matters     *)
(* there whether one is empty, or full, so that no index is computed; and  *)
(* of the types of isr and call only that they have their fields.  Then:   *)
(* what a ring holds, what a stream is, the types of the driver, a step at *)
(* a time, and that either direction of the console is a bounded pipe.     *)
(***************************************************************************)
EXTENDS JtagUartDriver, Integers, SequenceTheorems, TLAPS

Shape ==
  /\ {"at", "wi", "space", "avail"} \subseteq DOMAIN isr
  /\ {"at", "left", "moved", "nonblock", "seen", "data", "result"} \subseteq DOMAIN call
Written == ien = irq_enable

\* The invariant of the transmit interrupt: it holds while the routine runs,
\* too, for the routine turns the interrupt off with the ring empty only.
InWrite == call.at \in {"w_copy", "w_publish", "w_kick"}
TransmitOn == tx_in # tx_out /\ ~InWrite => "WE" \in irq_enable

Draining == call.at \in {"r_copy", "r_publish", "r_kick"} /\ call.moved
ReceiveOn == "RE" \notin irq_enable => NextSlot(rx_in) = rx_out \/ Draining

AwakeInv == Shape /\ Written /\ TransmitOn /\ ReceiveOn

LEMMA InitAwake == Init => AwakeInv
  BY DEF Init, AwakeInv, Shape, Written, TransmitOn, ReceiveOn, NoIsr, AtControl, Idle

-----------------------------------------------------------------------------
\* The host writes neither the rings nor an enable.
LEMMA HostAwake == ASSUME AwakeInv, Host PROVE AwakeInv'
<1>1. UNCHANGED <<ien, rings, irq_enable, isr, call>>
  BY DEF Host, HostNext, Plug, Take, Send, Pause, program
<1> QED
  BY <1>1 DEF AwakeInv, Shape, Written, TransmitOn, InWrite, ReceiveOn, Draining, rings, NextSlot

LEMMA AlarmAwake == ASSUME AwakeInv, HostCheck PROVE AwakeInv'
<1>1. UNCHANGED <<irq_enable, rings, isr, call>> BY DEF HostCheck, program
<1>2. Written' BY DEF HostCheck, IOWR_CONTROL_AC, AwakeInv, Written, device
<1> QED
  BY <1>1, <1>2 DEF AwakeInv, Shape, TransmitOn, InWrite, ReceiveOn, Draining, rings, NextSlot

\* The routine: each of its steps leaves the program where it is.
LEMMA IsrAwake == ASSUME AwakeInv, Isr PROVE AwakeInv'
<1> USE DEF AwakeInv
<1>1. call' = call BY DEF Isr, Interrupt, ReadControl, ReceiveByte, StopReceiving, TransmitByte,
                          StopTransmitting, program
<1>2. Shape'
  BY <1>1 DEF Shape, Isr, Interrupt, ReadControl, ReceiveByte, StopReceiving, TransmitByte,
              StopTransmitting, AtControl, NoIsr, AfterRx
<1>3. Written'
  BY DEF Written, Isr, Interrupt, ReadControl, ReceiveByte, StopReceiving, TransmitByte,
         StopTransmitting, Enable, IOWR_CONTROL, IOWR_DATA, IORD_DATA, device
<1>4. CASE Interrupt \/ ReadControl
  BY <1>1, <1>2, <1>3, <1>4
     DEF Interrupt, ReadControl, rings, TransmitOn, InWrite, ReceiveOn, Draining, NextSlot
<1>5. CASE ReceiveByte
  <2>1. Draining \/ "RE" \in irq_enable BY <1>5 DEF ReceiveByte, ReceiveOn
  <2> QED BY <1>1, <1>2, <1>3, <1>5, <2>1 DEF ReceiveByte, TransmitOn, InWrite, ReceiveOn, Draining
<1>6. CASE StopReceiving
  BY <1>1, <1>2, <1>3, <1>6
     DEF StopReceiving, Enable, rings, TransmitOn, InWrite, ReceiveOn, Draining, NextSlot
<1>7. CASE TransmitByte
  <2>1. InWrite \/ "WE" \in irq_enable BY <1>7 DEF TransmitByte, TransmitOn
  <2> QED
    BY <1>1, <1>2, <1>3, <1>7, <2>1
       DEF TransmitByte, TransmitOn, InWrite, ReceiveOn, Draining, NextSlot
<1>8. CASE StopTransmitting
  <2>1. isr.space > 0 => tx_out = tx_in BY <1>8 DEF StopTransmitting
  <2>2. ReceiveOn'
    BY <1>1, <1>8 DEF StopTransmitting, Enable, rings, ReceiveOn, Draining, NextSlot
  <2>3. TransmitOn'
    BY <1>1, <1>8, <2>1 DEF StopTransmitting, Enable, rings, TransmitOn, InWrite
  <2> QED BY <1>2, <1>3, <2>2, <2>3
<1> QED BY <1>4, <1>5, <1>6, <1>7, <1>8 DEF Isr

-----------------------------------------------------------------------------
\* write: while it copies and publishes it still has the kick before it.
LEMMA WriteAwake ==
  ASSUME AwakeInv, WriteCopy \/ WritePublish \/ WriteKick \/ WriteSpin \/ WriteCheck \/ Close
  PROVE  AwakeInv'
<1> USE DEF AwakeInv
<1>1. isr' = isr /\ UNCHANGED <<rx_in, rx_out>>
  BY DEF WriteCopy, WritePublish, WriteKick, WriteSpin, WriteCheck, Close, rings
<1>2. ~Draining /\ ("RE" \in irq_enable \/ NextSlot(rx_in) = rx_out)
  BY DEF ReceiveOn, Draining, WriteCopy, WritePublish, WriteKick, WriteSpin, WriteCheck, Close, At
<1>3. Shape'
  BY <1>1 DEF Shape, WriteCopy, WritePublish, WriteKick, WriteSpin, WriteCheck, Close, Goto, Return,
              Idle
<1>4. Written'
  BY DEF Written, WriteCopy, WritePublish, WriteKick, WriteSpin, WriteCheck, Close, Enable,
         IOWR_CONTROL, device
<1>5. ReceiveOn'
  <2>1. "RE" \in irq_enable => "RE" \in irq_enable'
    BY DEF WriteCopy, WritePublish, WriteKick, WriteSpin, WriteCheck, Close, Enable
  <2> QED BY <1>1, <1>2, <2>1 DEF ReceiveOn, NextSlot
<1>6. TransmitOn'
  <2>1. CASE WriteCopy
    <3>1. call'.at \in {"w_kick", "w_publish"} BY <2>1 DEF WriteCopy, Shape
    <3> QED BY <3>1 DEF TransmitOn, InWrite
  <2>2. CASE WritePublish
    <3>1. call'.at = "w_copy" BY <2>2 DEF WritePublish, Shape
    <3> QED BY <3>1 DEF TransmitOn, InWrite
  <2>3. CASE WriteKick
    BY <2>3 DEF WriteKick, Enable, TransmitOn
  <2>4. CASE WriteSpin \/ WriteCheck \/ Close
    <3>1. ~InWrite BY <2>4 DEF WriteSpin, WriteCheck, Close, At, InWrite
    <3>2. UNCHANGED <<irq_enable, tx_in, tx_out>>
      BY <2>4 DEF WriteSpin, WriteCheck, Close, rings
    <3> QED BY <3>1, <3>2 DEF TransmitOn
  <2> QED BY <2>1, <2>2, <2>3, <2>4
<1> QED BY <1>3, <1>4, <1>5, <1>6

\* read: the routine can turn its interrupt off only with the ring full, and
\* once read has made space it still has the kick before it.
LEMMA ReadAwake ==
  ASSUME AwakeInv, ReadCopy \/ ReadPublish \/ ReadKick \/ ReadSpin \/ ReadCheck
  PROVE  AwakeInv'
<1> USE DEF AwakeInv
<1>1. isr' = isr /\ UNCHANGED <<rx_in, tx_in, tx_out>>
  BY DEF ReadCopy, ReadPublish, ReadKick, ReadSpin, ReadCheck, rings
<1>2. Shape'
  BY <1>1 DEF Shape, ReadCopy, ReadPublish, ReadKick, ReadSpin, ReadCheck, Goto, Return, Idle
<1>3. Written'
  BY DEF Written, ReadCopy, ReadPublish, ReadKick, ReadSpin, ReadCheck, Enable, IOWR_CONTROL, device
<1>4. TransmitOn'
  <2>1. ~InWrite BY DEF InWrite, ReadCopy, ReadPublish, ReadKick, ReadSpin, ReadCheck, At
  <2>2. "WE" \in irq_enable => "WE" \in irq_enable'
    BY DEF ReadCopy, ReadPublish, ReadKick, ReadSpin, ReadCheck, Enable
  <2> QED BY <1>1, <2>1, <2>2 DEF TransmitOn
<1>5. ReceiveOn'
  <2>1. CASE ReadCopy
    <3>1. call.moved => call'.moved /\ call'.at \in {"r_publish", "r_kick"}
      BY <2>1 DEF ReadCopy, Shape, Goto
    <3>2. UNCHANGED <<irq_enable, rings>> BY <2>1 DEF ReadCopy
    <3> QED BY <3>1, <3>2 DEF ReceiveOn, Draining, rings, NextSlot
  <2>2. CASE ReadPublish
    <3>1. call'.moved /\ call'.at \in {"r_copy", "r_kick"} BY <2>2 DEF ReadPublish, Shape
    <3> QED BY <3>1 DEF ReceiveOn, Draining
  <2>3. CASE ReadKick
    BY <2>3 DEF ReadKick, Enable, ReceiveOn
  <2>4. CASE ReadSpin \/ ReadCheck
    <3>1. ~Draining BY <2>4 DEF ReadSpin, ReadCheck, At, Draining
    <3>2. UNCHANGED <<irq_enable, rings>> BY <2>4 DEF ReadSpin, ReadCheck
    <3> QED BY <3>1, <3>2 DEF ReceiveOn, rings, NextSlot
  <2> QED BY <2>1, <2>2, <2>3, <2>4
<1> QED BY <1>2, <1>3, <1>4, <1>5

\* A call begins, or sets the limit of the wait.
LEMMA CallAwake == ASSUME AwakeInv, Calling PROVE AwakeInv'
<1> USE DEF AwakeInv
<1>1. call.at = "idle" /\ isr' = isr /\ UNCHANGED <<ien, irq_enable, rings>>
  BY DEF Calling, Invoke, SetTimeout, At, device
<1>2. Shape'
  BY <1>1 DEF Shape, Calling, Invoke, SetTimeout, Idle
<1>3. ~InWrite /\ ~Draining BY <1>1 DEF InWrite, Draining
<1> QED
  BY <1>1, <1>2, <1>3 DEF Written, TransmitOn, ReceiveOn, rings, NextSlot

LEMMA StutterAwake == ASSUME AwakeInv, UNCHANGED vars PROVE AwakeInv'
  BY DEF AwakeInv, vars, device, rings, program, Shape, Written, TransmitOn, InWrite, ReceiveOn,
         Draining, NextSlot

LEMMA AlwaysAwake == Spec => []AwakeInv
<1>1. AwakeInv /\ [Next]_vars => AwakeInv'
  BY HostAwake, AlarmAwake, IsrAwake, WriteAwake, ReadAwake, CallAwake, StutterAwake
     DEF Next, Working
<1> QED BY InitAwake, <1>1, PTL DEF Spec

-----------------------------------------------------------------------------
(***************************************************************************)
(* altera_avalon_jtag_uart_write turns the transmit interrupt on after it  *)
(* has put its bytes into the ring, and the interrupt routine turns it off *)
(* when it finds the ring empty: wherever the one interrupts the other, no *)
(* byte is left in the ring with the interrupt off.  The routine turns the *)
(* receive interrupt off when it finds the ring full, and                  *)
(* altera_avalon_jtag_uart_read turns it on after it has made space: again *)
(* it is not left off with space in the ring.                              *)
(***************************************************************************)
THEOREM ConsoleAwake == Spec => []NeitherAsleep
<1>1. AwakeInv => TransmitterAwake
  BY DEF AwakeInv, Written, TransmitOn, InWrite, TransmitterAwake
<1>2. AwakeInv => ReceiverAwake
  BY DEF AwakeInv, Written, ReceiveOn, Draining, ReceiverAwake
<1>3. AwakeInv => NeitherAsleep
  BY <1>1, <1>2 DEF NeitherAsleep
<1> QED BY AlwaysAwake, <1>3, PTL

-----------------------------------------------------------------------------
USE DeviceAssumption, DriverAssumption

(***************************************************************************)
(* Remainders, of the two kinds there are here: of slots, where a sum is   *)
(* at most one round too far, and of bytes, where sums are added up.       *)
(***************************************************************************)
LEMMA ModRange ==
  ASSUME NEW N \in Nat, N > 0, NEW a \in Nat PROVE a % N \in 0..(N - 1)
OBVIOUS

\* A slot counted on, at most one round.
LEMMA ModSlot ==
  ASSUME NEW N \in Nat, N > 0, NEW a \in 0..(2 * N - 1)
  PROVE  a % N = IF a < N THEN a ELSE a - N
OBVIOUS

\* A remainder is determined.
LEMMA ModUnique ==
  ASSUME NEW N \in Nat, N > 0, NEW p \in Int, NEW q \in Int,
         NEW r \in 0..(N - 1), NEW s \in 0..(N - 1), N * p + r = N * q + s
  PROVE  r = s
OBVIOUS

\* A remainder may be taken before a sum.
LEMMA ModSum ==
  ASSUME NEW N \in Nat, N > 0, NEW a \in Nat, NEW b \in Nat
  PROVE  ((a % N) + b) % N = (a + b) % N
<1> DEFINE p == a \div N
           q == ((a % N) + b) \div N
           r == (a + b) \div N
<1>1. a = N * p + (a % N) /\ p \in Int /\ a % N \in 0..(N - 1)
  OBVIOUS
<1>2. (a % N) + b = N * q + (((a % N) + b) % N) /\ q \in Int
      /\ ((a % N) + b) % N \in 0..(N - 1)
  <2>1. (a % N) + b \in Nat  OBVIOUS
  <2> QED  BY <2>1
<1>3. a + b = N * r + ((a + b) % N) /\ r \in Int /\ (a + b) % N \in 0..(N - 1)
  <2>1. a + b \in Nat  OBVIOUS
  <2> QED  BY <2>1
<1> HIDE DEF p, q, r
<1>4. N * (p + q) + (((a % N) + b) % N) = N * r + ((a + b) % N)
  <2>1. N * (p + q) = N * p + N * q  BY <1>1, <1>2
  <2> QED  BY <1>1, <1>2, <1>3, <2>1
<1>5. p + q \in Int  BY <1>1, <1>2
<1> QED  BY <1>2, <1>3, <1>4, <1>5, ModUnique

\* A place in the stream is a byte, and places add up.
LEMMA PlusByte == ASSUME NEW b \in Nat, NEW n \in Nat PROVE Plus(b, n) \in Byte
BY ModRange DEF Plus, Byte

LEMMA PlusPlus ==
  ASSUME NEW b \in Nat, NEW m \in Nat, NEW n \in Nat
  PROVE  Plus(Plus(b, m), n) = Plus(b, m + n)
<1>1. (((b + m) % Period) + n) % Period = ((b + m) + n) % Period
  <2>1. b + m \in Nat /\ Period \in Nat /\ Period > 0  OBVIOUS
  <2> DEFINE c == b + m
  <2> HIDE DEF c
  <2>2. ((c % Period) + n) % Period = (c + n) % Period  BY <2>1, ModSum DEF c
  <2> QED  BY <2>2 DEF c
<1>2. (b + m) + n = b + (m + n)  OBVIOUS
<1> QED  BY <1>1, <1>2 DEF Plus

LEMMA PlusZero == ASSUME NEW b \in Byte PROVE Plus(b, 0) = b
BY DEF Plus, Byte

(***************************************************************************)
(* Rings: how many bytes one holds, and that they are those from b on.     *)
(***************************************************************************)
InRing(in, out) == (in + BUF_LEN - out) % BUF_LEN
Holds(buf, in, out, b) ==
  \A k \in 1..InRing(in, out) : buf[(out + k - 1) % BUF_LEN] = Plus(b, k - 1)

\* The same without a remainder.
LEMMA InRingIs ==
  ASSUME NEW in \in Slot, NEW out \in Slot
  PROVE  InRing(in, out) = IF in >= out THEN in - out ELSE in + BUF_LEN - out
<1>1. in + BUF_LEN - out \in 0..(2 * BUF_LEN - 1)  BY DEF Slot
<1> QED  BY <1>1, ModSlot DEF InRing, Slot

\* An index moved on to the end of the ring, or into it.
LEMMA RoundSlot ==
  ASSUME NEW i \in Slot, NEW n \in Nat, i + n <= BUF_LEN
  PROVE  /\ (i + n) % BUF_LEN \in Slot
         /\ (i + n) % BUF_LEN = IF i + n = BUF_LEN THEN 0 ELSE i + n
<1>1. i + n \in 0..(2 * BUF_LEN - 1)  BY DEF Slot
<1> QED  BY <1>1, ModSlot DEF Slot

\* n bytes leave.
LEMMA RingLeave ==
  ASSUME NEW buf, NEW in \in Slot, NEW out \in Slot, NEW b \in Nat, Holds(buf, in, out, b),
         NEW n \in Nat, n <= InRing(in, out), out + n <= BUF_LEN
  PROVE  /\ InRing(in, (out + n) % BUF_LEN) = InRing(in, out) - n
         /\ Holds(buf, in, (out + n) % BUF_LEN, Plus(b, n))
<1> DEFINE o == (out + n) % BUF_LEN
<1>1. o \in Slot /\ o = IF out + n = BUF_LEN THEN 0 ELSE out + n
  BY RoundSlot
<1>2. InRing(in, out) = IF in >= out THEN in - out ELSE in + BUF_LEN - out
  BY InRingIs
<1>3. InRing(in, o) = IF in >= o THEN in - o ELSE in + BUF_LEN - o
  BY <1>1, InRingIs
<1>4. InRing(in, o) = InRing(in, out) - n
  BY <1>1, <1>2, <1>3 DEF Slot
<1>5. ASSUME NEW k \in 1..InRing(in, o)
      PROVE  buf[(o + k - 1) % BUF_LEN] = Plus(Plus(b, n), k - 1)
  <2>1. n + k \in 1..InRing(in, out) /\ k \in Nat /\ k - 1 \in Nat
    BY <1>2, <1>4 DEF Slot
  <2>2. (o + k - 1) % BUF_LEN = (out + (n + k) - 1) % BUF_LEN
    <3>1. out + n \in Nat /\ k - 1 \in Nat  BY <2>1 DEF Slot
    <3>2. (((out + n) % BUF_LEN) + (k - 1)) % BUF_LEN = ((out + n) + (k - 1)) % BUF_LEN
      <4> DEFINE c == out + n
                 d == k - 1
      <4>1. c \in Nat /\ d \in Nat /\ BUF_LEN \in Nat /\ BUF_LEN > 0  BY <3>1
      <4> HIDE DEF c, d
      <4>2. ((c % BUF_LEN) + d) % BUF_LEN = (c + d) % BUF_LEN  BY <4>1, ModSum
      <4> QED  BY <4>2 DEF c, d
    <3>3. out + (n + k) - 1 = (out + n) + (k - 1)
      BY <2>1 DEF Slot
    <3>4. o + k - 1 = ((out + n) % BUF_LEN) + (k - 1)
      BY <1>1, <2>1 DEF Slot
    <3> QED  BY <3>2, <3>3, <3>4
  <2>3. buf[(out + (n + k) - 1) % BUF_LEN] = Plus(b, (n + k) - 1)
    BY <2>1 DEF Holds
  <2>4. Plus(Plus(b, n), k - 1) = Plus(b, n + (k - 1)) /\ n + (k - 1) = (n + k) - 1
    BY <2>1, PlusPlus
  <2> QED  BY <2>2, <2>3, <2>4
<1> QED  BY <1>4, <1>5 DEF Holds

\* n bytes enter that are in their slots already.
LEMMA RingEnter ==
  ASSUME NEW buf, NEW in \in Slot, NEW out \in Slot, NEW b \in Nat, Holds(buf, in, out, b),
         NEW n \in Nat, InRing(in, out) + n < BUF_LEN, in + n <= BUF_LEN,
         \A k \in 1..n : buf[in + k - 1] = Plus(Plus(b, InRing(in, out)), k - 1)
  PROVE  /\ InRing((in + n) % BUF_LEN, out) = InRing(in, out) + n
         /\ Holds(buf, (in + n) % BUF_LEN, out, b)
<1> DEFINE i == (in + n) % BUF_LEN
           h == InRing(in, out)
<1>1. i \in Slot /\ i = IF in + n = BUF_LEN THEN 0 ELSE in + n
  BY RoundSlot
<1>2. h = IF in >= out THEN in - out ELSE in + BUF_LEN - out
  BY InRingIs
<1>3. InRing(i, out) = IF i >= out THEN i - out ELSE i + BUF_LEN - out
  BY <1>1, InRingIs
<1>4. InRing(i, out) = h + n /\ h \in Nat
  BY <1>1, <1>2, <1>3 DEF Slot
<1> HIDE DEF i, h
<1>5. ASSUME NEW k \in 1..(h + n)
      PROVE  buf[(out + k - 1) % BUF_LEN] = Plus(b, k - 1)
  <2>1. CASE k <= h
    <3>1. k \in 1..h  BY <1>4, <2>1
    <3> QED  BY <3>1 DEF Holds, h
  <2>2. CASE k > h
    <3> DEFINE j == k - h
    <3>1. j \in 1..n /\ j - 1 \in Nat /\ h + (j - 1) = k - 1  BY <1>4, <2>2
    <3>2. out + k - 1 \in 0..(2 * BUF_LEN - 1)
      BY <1>4 DEF Slot, h
    <3>3. (out + k - 1) % BUF_LEN = in + j - 1
      BY <1>2, <1>4, <2>2, <3>1, <3>2, ModSlot DEF Slot
    <3>4. buf[in + j - 1] = Plus(Plus(b, h), j - 1)  BY <3>1 DEF h
    <3>5. Plus(Plus(b, h), j - 1) = Plus(b, k - 1)  BY <1>4, <3>1, PlusPlus
    <3> QED  BY <3>3, <3>4, <3>5
  <2> QED  BY <1>4, <2>1, <2>2
<1> QED  BY <1>4, <1>5 DEF Holds, i, h

\* Slots filled outside what the ring holds.
LEMMA RingFill ==
  ASSUME NEW buf, NEW new, NEW in \in Slot, NEW out \in Slot, NEW b \in Nat,
         Holds(buf, in, out, b), NEW n \in Nat, InRing(in, out) + n < BUF_LEN,
         in + n <= BUF_LEN,
         \A s \in Slot : s \notin in..(in + n - 1) => new[s] = buf[s]
  PROVE  Holds(new, in, out, b)
<1>1. InRing(in, out) = IF in >= out THEN in - out ELSE in + BUF_LEN - out
  BY InRingIs
<1> SUFFICES ASSUME NEW k \in 1..InRing(in, out)
             PROVE  new[(out + k - 1) % BUF_LEN] = Plus(b, k - 1)
  BY DEF Holds
<1>2. out + k - 1 \in 0..(2 * BUF_LEN - 1) /\ k \in Nat
  BY <1>1 DEF Slot
<1>3. (out + k - 1) % BUF_LEN = IF out + k - 1 < BUF_LEN THEN out + k - 1
                                ELSE out + k - 1 - BUF_LEN
  BY <1>2, ModSlot DEF Slot
<1> DEFINE t == (out + k - 1) % BUF_LEN
<1>4. t \in Slot /\ t \notin in..(in + n - 1)
  <2>1. CASE out + k - 1 < BUF_LEN
    BY <1>1, <1>3, <2>1 DEF Slot
  <2>2. CASE out + k - 1 >= BUF_LEN
    BY <1>1, <1>3, <2>2 DEF Slot
  <2> QED  BY <1>2, <2>1, <2>2
<1>5. new[t] = buf[t]
  BY <1>4
<1> QED  BY <1>5 DEF Holds

(***************************************************************************)
(* A stream of n bytes from b on: what enters at its end, and what leaves. *)
(***************************************************************************)
LEMMA StreamEnter ==
  ASSUME NEW b \in Nat, NEW m \in Nat, NEW n \in Nat
  PROVE  /\ From(b, m + n) = From(b, m) \o From(Plus(b, m), n)
         /\ Plus(b, m + n) = Plus(Plus(b, m), n)
<1> DEFINE old == From(b, m)
           new == From(Plus(b, m), n)
<1>1. From(b, m + n) \in Seq(Byte) /\ old \in Seq(Byte) /\ new \in Seq(Byte)
      /\ Len(From(b, m + n)) = m + n /\ Len(old) = m /\ Len(new) = n
  <2>1. \A l \in Nat, c \in Nat : \A k \in 1..l : Plus(c, k - 1) \in Byte
    <3> TAKE l \in Nat, c \in Nat
    <3> TAKE k \in 1..l
    <3>1. k - 1 \in Nat  OBVIOUS
    <3> QED  BY <3>1, PlusByte
  <2>2. Plus(b, m) \in Nat  BY PlusByte DEF Byte
  <2> QED  BY <2>1, <2>2 DEF From
<1>2. /\ old \o new \in Seq(Byte)
      /\ Len(old \o new) = m + n
      /\ \A k \in 1..(m + n) : (old \o new)[k] = IF k <= m THEN old[k] ELSE new[k - m]
  <2> HIDE DEF old, new
  <2> QED  BY <1>1, ConcatProperties, ZenonT(60)
<1>3. ASSUME NEW k \in 1..(m + n) PROVE From(b, m + n)[k] = (old \o new)[k]
  <2>1. From(b, m + n)[k] = Plus(b, k - 1)  BY DEF From
  <2>2. CASE k <= m
    <3>1. k \in 1..m  BY <2>2
    <3>2. (old \o new)[k] = old[k]  BY <1>2, <2>2
    <3>3. old[k] = Plus(b, k - 1)  BY <3>1 DEF From
    <3> QED  BY <2>1, <3>2, <3>3
  <2>3. CASE k > m
    <3> DEFINE j == k - m
    <3>1. j \in 1..n /\ j - 1 \in Nat /\ m + (j - 1) = k - 1
      BY <2>3
    <3>2. (old \o new)[k] = Plus(Plus(b, m), j - 1)
      BY <1>2, <2>3, <3>1 DEF From
    <3>3. Plus(Plus(b, m), j - 1) = Plus(b, m + (j - 1))
      BY <3>1, PlusPlus
    <3> QED  BY <2>1, <3>1, <3>2, <3>3
  <2>4. k <= m \/ k > m  OBVIOUS
  <2> HIDE DEF old, new
  <2> QED  BY <2>2, <2>3, <2>4
<1>4. From(b, m + n) = old \o new
  <2> HIDE DEF old, new
  <2> QED  BY <1>1, <1>2, <1>3, SeqEqual
<1> QED  BY <1>4, PlusPlus, ZenonT(60)

\* n bytes leave at its front.
LEMMA StreamLeave ==
  ASSUME NEW b \in Nat, NEW m \in Nat, NEW n \in Nat, n <= m
  PROVE  /\ \A k \in 1..n : From(b, m)[k] = Plus(b, k - 1)
         /\ From(Plus(b, n), m - n) = SubSeq(From(b, m), n + 1, Len(From(b, m)))
         /\ Len(From(b, m)) = m
<1>1. Len(From(b, m)) = m  BY DEF From
<1>2. \A k \in 1..m : From(b, m)[k] = Plus(b, k - 1)  BY DEF From
<1>3. ASSUME NEW k \in 1..(m - n) PROVE Plus(Plus(b, n), k - 1) = From(b, m)[n + k]
  <2>1. n + k \in 1..m /\ k - 1 \in Nat /\ n + (k - 1) = (n + k) - 1  OBVIOUS
  <2> QED  BY <1>2, <2>1, PlusPlus
<1>4. SubSeq(From(b, m), n + 1, m) = [k \in 1..(m - n) |-> From(b, m)[n + k]]
  OBVIOUS
<1>5. From(Plus(b, n), m - n) = [k \in 1..(m - n) |-> From(b, m)[n + k]]
  BY <1>3 DEF From
<1>6. \A k \in 1..n : From(b, m)[k] = Plus(b, k - 1)
  <2>1. \A k \in 1..n : k \in 1..m  OBVIOUS
  <2> QED  BY <1>2, <2>1
<1>7. From(Plus(b, n), m - n) = SubSeq(From(b, m), n + 1, Len(From(b, m)))
  <2> DEFINE old == From(b, m)
  <2>1. SubSeq(old, n + 1, m) = From(Plus(b, n), m - n) /\ Len(old) = m  BY <1>1, <1>4, <1>5
  <2> HIDE DEF old
  <2>2. From(Plus(b, n), m - n) = SubSeq(old, n + 1, Len(old))  BY <2>1
  <2> QED  BY <2>2 DEF old
<1> QED  BY <1>1, <1>6, <1>7

\* A stream one byte longer, and one without its first.
LEMMA FromIs ==
  ASSUME NEW b \in Nat, NEW m \in Nat
  PROVE  /\ From(b, m) \in Seq(Byte) /\ Len(From(b, m)) = m
         /\ \A k \in 1..m : From(b, m)[k] = Plus(b, k - 1)
<1>1. \A k \in 1..m : Plus(b, k - 1) \in Byte
  <2> TAKE k \in 1..m
  <2>1. k - 1 \in Nat  OBVIOUS
  <2> QED  BY <2>1, PlusByte
<1> QED  BY <1>1 DEF From

LEMMA FromAppend ==
  ASSUME NEW b \in Nat, NEW m \in Nat
  PROVE  Append(From(b, m), Plus(b, m)) = From(b, m + 1)
<1> DEFINE old == From(b, m)
           e == Plus(b, m)
           new == From(b, m + 1)
<1>1. old \in Seq(Byte) /\ Len(old) = m /\ e \in Byte /\ new \in Seq(Byte) /\ Len(new) = m + 1
  BY FromIs, PlusByte
<1>2. \A k \in 1..m : new[k] = old[k]
  BY DEF From
<1>3. new[m + 1] = e
  <2>1. m + 1 \in 1..(m + 1) /\ (m + 1) - 1 = m  OBVIOUS
  <2> QED  BY <2>1 DEF From
<1> HIDE DEF old, e, new
<1>4. Append(old, e) \in Seq(Byte) /\ Len(Append(old, e)) = m + 1
  BY <1>1, AppendProperties
<1>5. \A k \in 1..(m + 1) : Append(old, e)[k] = new[k]
  BY <1>1, <1>2, <1>3, AppendProperties
<1>6. Append(old, e) = new
  BY <1>1, <1>4, <1>5, SeqEqual
<1> QED  BY <1>6 DEF old, e, new

LEMMA FromTail ==
  ASSUME NEW b \in Byte, NEW m \in Nat, m > 0
  PROVE  Head(From(b, m)) = b /\ Tail(From(b, m)) = From(Plus(b, 1), m - 1)
<1>1. b \in Nat  BY DEF Byte
<1> DEFINE f == From(b, m)
<1>2. f \in Seq(Byte) /\ Len(f) = m /\ f[1] = Plus(b, 1 - 1)
  <2>1. 1 \in 1..m  OBVIOUS
  <2> QED  BY <1>1, <2>1, FromIs
<1>3. From(Plus(b, 1), m - 1) = SubSeq(f, 1 + 1, Len(f))
  <2>1. 1 \in Nat /\ 1 <= m  OBVIOUS
  <2> QED  BY <1>1, <2>1, StreamLeave
<1> HIDE DEF f
<1>4. Head(f) = f[1] /\ Tail(f) = SubSeq(f, 1 + 1, Len(f))
  BY <1>2
<1>5. Plus(b, 1 - 1) = b
  BY PlusZero
<1> QED  BY <1>2, <1>3, <1>4, <1>5 DEF f

\* What the rings of the driver hold.
TxHeld == InRing(tx_in, tx_out)
RxHeld == InRing(rx_in, rx_out)

\* How much there can be.
LEMMA Sizes ==
  ASSUME TypeOK
  PROVE  /\ TxHeld \in 0..(BUF_LEN - 1) /\ RxHeld \in 0..(BUF_LEN - 1)
         /\ Len(wfifo) \in 0..FIFO_DEPTH /\ Len(rfifo) \in 0..FIFO_DEPTH
         /\ got \in Byte /\ reads \in Byte /\ wrote \in Byte /\ sent \in Byte
         /\ got \in Nat /\ reads \in Nat /\ wrote \in Nat /\ sent \in Nat
<1> USE DEF Slot
<1>0. tx_in \in Slot /\ tx_out \in Slot /\ rx_in \in Slot /\ rx_out \in Slot
  BY DEF TypeOK
<1>1. TxHeld = (IF tx_in >= tx_out THEN tx_in - tx_out ELSE tx_in + BUF_LEN - tx_out)
      /\ RxHeld = (IF rx_in >= rx_out THEN rx_in - rx_out ELSE rx_in + BUF_LEN - rx_out)
  BY <1>0, InRingIs DEF TxHeld, RxHeld
<1>2. TxHeld \in 0..(BUF_LEN - 1) /\ RxHeld \in 0..(BUF_LEN - 1)
  BY <1>0, <1>1
<1>3. Len(wfifo) \in 0..FIFO_DEPTH /\ Len(rfifo) \in 0..FIFO_DEPTH
  BY DEF TypeOK, DeviceTypeOK
<1> QED  BY <1>2, <1>3 DEF TypeOK, DeviceTypeOK, Byte

-----------------------------------------------------------------------------
(***************************************************************************)
(* Types.                                                                  *)
(***************************************************************************)
LEMMA SlotNext == ASSUME NEW i \in Slot PROVE NextSlot(i) \in Slot
BY ModRange DEF NextSlot, Slot

\* The bytes of a call that are read by the program, or to be published.
LEMMA FromType ==
  ASSUME NEW b \in Byte, NEW n \in Nat
  PROVE  From(b, n) \in Seq(Byte) /\ Len(From(b, n)) = n
BY FromIs DEF Byte

Routines == [at : {"off", "control", "rx", "tx"}, wi : BOOLEAN,
              space : 0..FIFO_DEPTH, avail : 0..FIFO_DEPTH]
CallStates == [at : Places, left : 0..MaxCount, moved : BOOLEAN, nonblock : BOOLEAN,
             seen : Slot, data : Seq(Byte), result : Results]

\* A field of a record changed.
LEMMA RoutineField ==
  ASSUME NEW r \in Routines
  PROVE  /\ \A p \in {"off", "control", "rx", "tx"} : [r EXCEPT !.at = p] \in Routines
         /\ \A n \in 0..FIFO_DEPTH :
              [r EXCEPT !.space = n] \in Routines /\ [r EXCEPT !.avail = n] \in Routines
<1>1. ASSUME NEW p \in {"off", "control", "rx", "tx"} PROVE [r EXCEPT !.at = p] \in Routines
  BY DEF Routines
<1>2. ASSUME NEW n \in 0..FIFO_DEPTH
      PROVE  [r EXCEPT !.space = n] \in Routines /\ [r EXCEPT !.avail = n] \in Routines
  BY DEF Routines
<1> QED  BY <1>1, <1>2

\* What the routine's steps assign.
LEMMA RoutineTypes ==
  /\ AtControl \in Routines /\ NoIsr \in Routines
  /\ isr \in Routines => AfterRx \in Routines
<1>1. AtControl \in Routines
  BY DEF AtControl, Routines
<1>2. NoIsr \in Routines
  BY <1>1, RoutineField DEF NoIsr
<1>3. ASSUME isr \in Routines PROVE AfterRx \in Routines
  <2> DEFINE r == [isr EXCEPT !.at = "tx"]
  <2>1. r \in Routines
    BY <1>3, RoutineField
  <2> HIDE DEF r
  <2>2. [r EXCEPT !.avail = 0] \in Routines
    <3>1. 0 \in 0..FIFO_DEPTH  OBVIOUS
    <3> QED  BY <2>1, <3>1, RoutineField
  <2>3. [isr EXCEPT !.at = "tx", !.avail = 0] = [r EXCEPT !.avail = 0]
    BY DEF r
  <2> QED  BY <1>1, <2>2, <2>3 DEF AfterRx
<1> QED  BY <1>1, <1>2, <1>3

\* A field of a call changed.
LEMMA CallField ==
  ASSUME NEW c \in CallStates
  PROVE  /\ \A p \in Places : [c EXCEPT !.at = p] \in CallStates
         /\ \A n \in 0..MaxCount : [c EXCEPT !.left = n] \in CallStates
         /\ \A m \in BOOLEAN : [c EXCEPT !.moved = m] \in CallStates
         /\ \A m \in BOOLEAN : [c EXCEPT !.nonblock = m] \in CallStates
         /\ \A i \in Slot : [c EXCEPT !.seen = i] \in CallStates
         /\ \A d \in Seq(Byte) : [c EXCEPT !.data = d] \in CallStates
<1>1. ASSUME NEW p \in Places PROVE [c EXCEPT !.at = p] \in CallStates
  BY DEF CallStates
<1>2. ASSUME NEW n \in 0..MaxCount PROVE [c EXCEPT !.left = n] \in CallStates
  BY DEF CallStates
<1>3. ASSUME NEW m \in BOOLEAN
      PROVE  [c EXCEPT !.moved = m] \in CallStates /\ [c EXCEPT !.nonblock = m] \in CallStates
  BY DEF CallStates
<1>4. ASSUME NEW i \in Slot PROVE [c EXCEPT !.seen = i] \in CallStates
  BY DEF CallStates
<1>5. ASSUME NEW d \in Seq(Byte) PROVE [c EXCEPT !.data = d] \in CallStates
  BY DEF CallStates
<1> QED  BY <1>1, <1>2, <1>3, <1>4, <1>5

\* Initial states.
LEMMA TypeInit == Init => TypeOK
<1> SUFFICES ASSUME Init PROVE TypeOK
  OBVIOUS
<1>1. DeviceTypeOK
  <2>1. 0 \in Byte /\ <<>> \in Seq(Byte) /\ Len(<<>>) <= FIFO_DEPTH
    BY DEF Byte
  <2> QED  BY <2>1 DEF Init, DeviceTypeOK, Interrupts
<1>2. 0 \in Slot /\ 0 \in Byte
  BY DEF Slot, Byte
<1>3. isr \in Routines
  BY RoutineTypes DEF Init
<1>4. Idle("done") \in CallStates
  <2>1. <<>> \in Seq(Byte)  OBVIOUS
  <2> QED  BY <1>2, <2>1 DEF Idle, CallStates, Places, Results
<1>5. call \in CallStates /\ Len(call.data) <= call.left
  <2>1. Idle("done").data = <<>> /\ Idle("done").left = 0
    BY DEF Idle
  <2> QED  BY <1>4, <2>1 DEF Init
<1>6. host_inactive \in Nat /\ timeout \in Nat /\ irq_enable \subseteq Interrupts
  BY DEF Init, Interrupts
<1>7. tx_buf \in [Slot -> Byte] /\ rx_buf \in [Slot -> Byte]
      /\ tx_in = 0 /\ tx_out = 0 /\ rx_in = 0 /\ rx_out = 0 /\ wrote \in Byte /\ reads \in Byte
  BY <1>2 DEF Init
<1> QED  BY <1>1, <1>2, <1>3, <1>5, <1>6, <1>7 DEF TypeOK, Routines, CallStates

\* The types, a variable each.
LEMMA Types ==
  ASSUME TypeOK
  PROVE  /\ wfifo \in Seq(Byte) /\ Len(wfifo) \in 0..FIFO_DEPTH
         /\ rfifo \in Seq(Byte) /\ Len(rfifo) \in 0..FIFO_DEPTH
         /\ ien \subseteq Interrupts /\ irq_enable \subseteq Interrupts
         /\ pause_irq \in BOOLEAN /\ ac \in BOOLEAN /\ connected \in BOOLEAN
         /\ got \in Byte /\ sent \in Byte /\ wrote \in Byte /\ reads \in Byte
         /\ tx_buf \in [Slot -> Byte] /\ rx_buf \in [Slot -> Byte]
         /\ tx_in \in Slot /\ tx_out \in Slot /\ rx_in \in Slot /\ rx_out \in Slot
         /\ host_inactive \in Nat /\ timeout \in Nat
         /\ isr \in Routines /\ call \in CallStates /\ Len(call.data) <= call.left
BY DEF TypeOK, DeviceTypeOK, Routines, CallStates

\* And after a step.
LEMMA NewTypes ==
  ASSUME wfifo' \in Seq(Byte), Len(wfifo') <= FIFO_DEPTH,
         rfifo' \in Seq(Byte), Len(rfifo') <= FIFO_DEPTH,
         ien' \subseteq Interrupts, irq_enable' \subseteq Interrupts,
         pause_irq' \in BOOLEAN, ac' \in BOOLEAN, connected' \in BOOLEAN,
         got' \in Byte, sent' \in Byte, wrote' \in Byte, reads' \in Byte,
         tx_buf' \in [Slot -> Byte], rx_buf' \in [Slot -> Byte],
         tx_in' \in Slot, tx_out' \in Slot, rx_in' \in Slot, rx_out' \in Slot,
         host_inactive' \in Nat, timeout' \in Nat,
         isr' \in Routines, call' \in CallStates, Len(call'.data) <= call'.left
  PROVE  TypeOK'
BY DEF TypeOK, DeviceTypeOK, Routines, CallStates

\* Places in the stream of a byte.
LEMMA BytePlus == ASSUME NEW b \in Byte, NEW n \in Nat PROVE Plus(b, n) \in Byte
<1>1. b \in Nat  BY DEF Byte
<1> QED  BY <1>1, PlusByte

\* The host.
LEMMA TypeHost == ASSUME TypeOK, Host PROVE TypeOK'
<1>1. UNCHANGED <<tx_buf, tx_in, tx_out, rx_buf, rx_in, rx_out, irq_enable, host_inactive,
                  timeout, isr, call, wrote, reads>>
  BY DEF Host, rings, watch, program
<1>2. CASE Plug
  <2>1. UNCHANGED <<wfifo, rfifo, ien, pause_irq, ac, got, sent>> /\ connected' \in BOOLEAN
    BY <1>2 DEF Plug
  <2> QED  BY <1>1, <2>1, Types, NewTypes
<1>3. CASE Take
  <2>1. wfifo # <<>> /\ wfifo' = Tail(wfifo) /\ got' = Plus(Head(wfifo), 1) /\ ac' \in BOOLEAN
    BY <1>3, Types DEF Take
  <2>2. UNCHANGED <<rfifo, ien, pause_irq, connected, sent>>
    BY <1>3 DEF Take
  <2>3. Head(wfifo) \in Byte /\ wfifo' \in Seq(Byte) /\ Len(wfifo') <= FIFO_DEPTH
    BY <2>1, Types
  <2>4. got' \in Byte
    BY <2>1, <2>3, BytePlus
  <2> QED  BY <1>1, <2>1, <2>2, <2>3, <2>4, Types, NewTypes
<1>4. CASE Send
  <2>1. Len(rfifo) < FIFO_DEPTH /\ rfifo' = Append(rfifo, sent) /\ sent' = Plus(sent, 1) /\ ac' = TRUE
    BY <1>4 DEF Send
  <2>2. UNCHANGED <<wfifo, ien, pause_irq, connected, got>>
    BY <1>4 DEF Send
  <2>3. rfifo' \in Seq(Byte) /\ Len(rfifo') <= FIFO_DEPTH
    BY <2>1, Types
  <2>4. sent' \in Byte
    BY <2>1, Types, BytePlus
  <2> QED  BY <1>1, <2>1, <2>2, <2>3, <2>4, Types, NewTypes
<1>5. CASE Pause
  <2>1. UNCHANGED <<wfifo, rfifo, ien, connected, got, sent>>
        /\ ac' \in BOOLEAN /\ pause_irq' \in BOOLEAN
    BY <1>5 DEF Pause, host, RVALID
  <2> QED  BY <1>1, <2>1, Types, NewTypes
<1> QED  BY <1>2, <1>3, <1>4, <1>5 DEF Host, HostNext

\* The alarm.
LEMMA TypeAlarm == ASSUME TypeOK, HostCheck PROVE TypeOK'
<1>1. UNCHANGED <<tx_buf, tx_in, tx_out, rx_buf, rx_in, rx_out, irq_enable, timeout, isr,
                  call, wrote, reads, wfifo, rfifo, pause_irq, connected, got, sent>>
  BY DEF HostCheck, IOWR_CONTROL_AC, rings, program, device, host
<1>2. ien' \subseteq Interrupts /\ ac' \in BOOLEAN
  <2>1. ien \subseteq Interrupts /\ irq_enable \subseteq Interrupts /\ ac \in BOOLEAN
    BY Types
  <2>2. (ien' = irq_enable /\ ac' = FALSE) \/ (ien' = ien /\ ac' = ac)
    BY DEF HostCheck, IOWR_CONTROL_AC, device
  <2> QED  BY <2>1, <2>2
<1>3. host_inactive' \in Nat
  <2>1. host_inactive \in Nat
    BY Types
  <2>2. host_inactive' \in {0, host_inactive, host_inactive + 1}
    BY DEF HostCheck
  <2> QED  BY <2>1, <2>2
<1> QED  BY <1>1, <1>2, <1>3, Types, NewTypes

\* The routine: it moves one byte, or writes the enables.
LEMMA TypeIsr == ASSUME TypeOK, Isr PROVE TypeOK'
<1>1. UNCHANGED <<host_inactive, timeout, call, wrote, reads, tx_buf, tx_in, rx_out,
                  connected, got, sent, ac>>
  BY DEF Isr, Interrupt, ReadControl, ReceiveByte, StopReceiving, TransmitByte, StopTransmitting,
         Enable, IOWR_CONTROL, IOWR_DATA, IORD_DATA, device, host, rings, watch, program
<1>2. WSPACE \in 0..FIFO_DEPTH
  BY Types DEF WSPACE
<1>3. CASE Interrupt
  <2>1. UNCHANGED <<device, rings, irq_enable>> /\ isr' = AtControl
    BY <1>3 DEF Interrupt
  <2> QED  BY <1>1, <2>1, Types, NewTypes, RoutineTypes DEF device, rings
<1>4. CASE ReadControl
  <2>1. UNCHANGED <<device, rings, irq_enable>>
    BY <1>4 DEF ReadControl
  <2>2. isr' \in Routines
    <3>1. (IF WI THEN WSPACE ELSE 0) \in 0..FIFO_DEPTH /\ (IF RI THEN 1 ELSE 0) \in 0..FIFO_DEPTH
      BY <1>2
    <3>2. WI \in BOOLEAN  BY DEF WI
    <3>3. [at |-> IF RI THEN "rx" ELSE "tx", wi |-> WI,
           space |-> IF WI THEN WSPACE ELSE 0, avail |-> IF RI THEN 1 ELSE 0] \in Routines
      BY <3>1, <3>2 DEF Routines
    <3> QED  BY <1>4, <3>3, RoutineTypes DEF ReadControl
  <2> QED  BY <1>1, <2>1, <2>2, Types, NewTypes DEF device, rings
<1>5. CASE ReceiveByte
  <2>1. UNCHANGED <<wfifo, ien, tx_out, irq_enable>> /\ pause_irq' \in BOOLEAN
    BY <1>5 DEF ReceiveByte, IORD_DATA
  <2>2. CASE RVALID
    <3>1. /\ rfifo # <<>> /\ rfifo' = Tail(rfifo) /\ rx_in' = NextSlot(rx_in)
          /\ rx_buf' = [rx_buf EXCEPT ![rx_in] = Head(rfifo)]
          /\ isr' = [isr EXCEPT !.avail = Len(rfifo) - 1]
      BY <1>5, <2>2 DEF ReceiveByte, IORD_DATA, RVALID
    <3>2. Head(rfifo) \in Byte /\ rfifo' \in Seq(Byte) /\ Len(rfifo') <= FIFO_DEPTH
          /\ Len(rfifo) - 1 \in 0..FIFO_DEPTH
      BY <3>1, Types
    <3>3. rx_buf' \in [Slot -> Byte] /\ rx_in' \in Slot
      BY <3>1, <3>2, Types, SlotNext
    <3>4. isr' \in Routines
      BY <3>1, <3>2, Types, RoutineField
    <3> QED  BY <1>1, <2>1, <3>2, <3>3, <3>4, Types, NewTypes
  <2>3. CASE ~RVALID
    <3>1. UNCHANGED <<rfifo, rx_buf, rx_in>> /\ isr' = AfterRx
      BY <1>5, <2>3 DEF ReceiveByte, IORD_DATA
    <3> QED  BY <1>1, <2>1, <3>1, Types, NewTypes, RoutineTypes
  <2> QED  BY <2>2, <2>3
<1>6. CASE StopReceiving \/ StopTransmitting
  <2>1. UNCHANGED <<rings, wfifo, rfifo, pause_irq>> /\ (isr' = AfterRx \/ isr' = AtControl)
    BY <1>6 DEF StopReceiving, StopTransmitting, Enable, IOWR_CONTROL, device
  <2>2. irq_enable' \subseteq Interrupts /\ ien' \subseteq Interrupts
    <3>1. ien \subseteq Interrupts /\ irq_enable \subseteq Interrupts
      BY Types
    <3> QED  BY <1>6, <3>1 DEF StopReceiving, StopTransmitting, Enable, IOWR_CONTROL, device
  <2>3. isr' \in Routines
    BY <2>1, Types, RoutineTypes
  <2> QED  BY <1>1, <2>1, <2>2, <2>3, Types, NewTypes DEF rings
<1>7. CASE TransmitByte
  <2>1. UNCHANGED <<rfifo, ien, pause_irq, rx_buf, rx_in, irq_enable>>
    BY <1>7 DEF TransmitByte, IOWR_DATA
  <2>2. wfifo' = (IF WSPACE > 0 THEN Append(wfifo, tx_buf[tx_out]) ELSE wfifo)
        /\ tx_out' = NextSlot(tx_out) /\ isr.space > 0
        /\ isr' = [isr EXCEPT !.space = isr.space - 1]
    BY <1>7 DEF TransmitByte, IOWR_DATA
  <2>3. wfifo' \in Seq(Byte) /\ Len(wfifo') <= FIFO_DEPTH
    <3>1. tx_buf[tx_out] \in Byte
      BY Types
    <3> QED  BY <2>2, <3>1, Types DEF WSPACE
  <2>4. tx_out' \in Slot
    BY <2>2, Types, SlotNext
  <2>5. isr' \in Routines
    <3>1. isr.space - 1 \in 0..FIFO_DEPTH
      BY <2>2, Types, SMTT(40) DEF Routines
    <3> QED  BY <2>2, <3>1, Types, RoutineField
  <2> QED  BY <1>1, <2>1, <2>3, <2>4, <2>5, Types, NewTypes
<1> QED  BY <1>3, <1>4, <1>5, <1>6, <1>7 DEF Isr

\* A call that moves on, with the enables it may write.
LEMMA TypeMove ==
  ASSUME TypeOK, isr' = isr, UNCHANGED <<rings, watch, wrote, reads>>,
         UNCHANGED device \/ IOWR_CONTROL(irq_enable'),
         irq_enable' \subseteq Interrupts,
         call' \in CallStates, Len(call'.data) <= call'.left
  PROVE  TypeOK'
<1>1. UNCHANGED <<wfifo, rfifo, pause_irq, ac, connected, got, sent>>
  BY DEF device, host, IOWR_CONTROL
<1>2. ien' \subseteq Interrupts
  <2>1. ien \subseteq Interrupts
    BY Types
  <2> QED  BY <2>1 DEF device, IOWR_CONTROL
<1> QED  BY <1>1, <1>2, Types, NewTypes DEF rings, watch

\* What a step that moves no byte assigns to the call.
LEMMA CallTypes ==
  ASSUME TypeOK
  PROVE  /\ \A p \in Places : Goto(p) => call' \in CallStates /\ call'.data = call.data
                                         /\ call'.left = call.left /\ call'.at = p
         /\ \A r \in Results : Idle(r) \in CallStates /\ Len(Idle(r).data) <= Idle(r).left
                               /\ Idle(r).at = "idle"
         /\ Returned \in Results
<1>1. call \in CallStates
  BY Types
<1>2. ASSUME NEW p \in Places, Goto(p)
      PROVE  call' \in CallStates /\ call'.data = call.data /\ call'.left = call.left /\ call'.at = p
  <2>1. call' \in CallStates
    BY <1>1, <1>2, CallField DEF Goto
  <2>2. call'.data = call.data /\ call'.left = call.left /\ call'.at = p
    BY <1>1, <1>2 DEF Goto, CallStates
  <2> QED  BY <2>1, <2>2
<1>3. ASSUME NEW r \in Results
      PROVE  Idle(r) \in CallStates /\ Len(Idle(r).data) <= Idle(r).left /\ Idle(r).at = "idle"
  <2>1. <<>> \in Seq(Byte) /\ 0 \in Slot /\ 0 \in 0..MaxCount /\ "idle" \in Places
    BY DEF Slot, Places
  <2>2. Idle(r) \in CallStates
    BY <2>1 DEF Idle, CallStates
  <2>3. Idle(r).data = <<>> /\ Idle(r).left = 0 /\ Idle(r).at = "idle"
    BY DEF Idle
  <2> QED  BY <2>2, <2>3
<1>4. Returned \in Results
  BY DEF Returned, Results
<1> QED  BY <1>2, <1>3, <1>4

\* The steps of write and read that move no byte, and close.
LEMMA TypeMoves ==
  ASSUME TypeOK, WriteKick \/ WriteSpin \/ WriteCheck \/ ReadKick \/ ReadSpin \/ ReadCheck \/ Close
  PROVE  TypeOK'
<1>1. isr' = isr /\ UNCHANGED <<rings, watch, wrote, reads>>
  BY DEF WriteKick, WriteSpin, WriteCheck, ReadKick, ReadSpin, ReadCheck, Close
<1>2. UNCHANGED device \/ IOWR_CONTROL(irq_enable')
  BY DEF WriteKick, WriteSpin, WriteCheck, ReadKick, ReadSpin, ReadCheck, Close, Enable
<1>3. irq_enable' \subseteq Interrupts
  <2>1. irq_enable \subseteq Interrupts
    BY Types
  <2> QED
    BY <2>1 DEF WriteKick, WriteSpin, WriteCheck, ReadKick, ReadSpin, ReadCheck, Close, Enable,
                Interrupts
<1>4. \/ Return \/ \E p \in Places : Goto(p)
      \/ \E r \in Results : call' = Idle(r)
  <2>1. {"w_spin", "w_check", "w_copy", "r_check", "r_copy"} \subseteq Places
    BY DEF Places
  <2>2. "done" \in Results /\ "EWOULDBLOCK" \in Results
    BY DEF Results
  <2>3. CASE WriteKick \/ WriteSpin \/ WriteCheck
    BY <2>1, <2>3 DEF WriteKick, WriteSpin, WriteCheck
  <2>4. CASE ReadKick \/ ReadSpin \/ ReadCheck
    BY <2>1, <2>4 DEF ReadKick, ReadSpin, ReadCheck
  <2>5. CASE Close
    BY <2>2, <2>5 DEF Close
  <2> QED  BY <2>3, <2>4, <2>5
<1>5. call' \in CallStates /\ Len(call'.data) <= call'.left
  <2>1. Len(call.data) <= call.left
    BY Types
  <2> QED  BY <1>4, <2>1, CallTypes DEF Return
<1> QED  BY <1>1, <1>2, <1>3, <1>5, TypeMove

\* Several fields of a call changed: bytes set aside, a wait, bytes moved, a
\* new call.
Holding(c, p, d) == [c EXCEPT !.at = p, !.data = d]
Watching(c, p, i) == [c EXCEPT !.at = p, !.seen = i]
Moved(c, p, n) == [c EXCEPT !.at = p, !.left = n, !.moved = TRUE, !.data = <<>>]
Begun(c, p, n, b) == [c EXCEPT !.at = p, !.left = n, !.nonblock = b]

LEMMA CallHolds ==
  ASSUME NEW c \in CallStates, NEW p \in Places, NEW d \in Seq(Byte)
  PROVE  LET new == Holding(c, p, d)
         IN  new \in CallStates /\ new.at = p /\ new.data = d /\ new.left = c.left
<1> DEFINE r == [c EXCEPT !.at = p]
           s == Holding(c, p, d)
<1>1. r \in CallStates /\ r.at = p /\ r.left = c.left
  <2>1. r \in CallStates  BY CallField
  <2> QED  BY <2>1 DEF CallStates
<1>2. s = [r EXCEPT !.data = d]
  BY DEF Holding
<1> HIDE DEF r, s
<1>3. s \in CallStates
  BY <1>1, <1>2, CallField
<1>4. s.at = p /\ s.data = d /\ s.left = c.left
  BY <1>1, <1>2 DEF CallStates
<1> QED  BY <1>3, <1>4 DEF s

LEMMA CallWaits ==
  ASSUME NEW c \in CallStates, NEW p \in Places, NEW i \in Slot
  PROVE  LET new == Watching(c, p, i)
         IN  new \in CallStates /\ new.at = p /\ new.data = c.data /\ new.left = c.left
<1> DEFINE r == [c EXCEPT !.at = p]
           s == Watching(c, p, i)
<1>1. r \in CallStates /\ r.at = p /\ r.left = c.left /\ r.data = c.data
  <2>1. r \in CallStates  BY CallField
  <2> QED  BY <2>1 DEF CallStates
<1>2. s = [r EXCEPT !.seen = i]
  BY DEF Watching
<1> HIDE DEF r, s
<1>3. s \in CallStates
  BY <1>1, <1>2, CallField
<1>4. s.at = p /\ s.data = c.data /\ s.left = c.left
  BY <1>1, <1>2 DEF CallStates
<1> QED  BY <1>3, <1>4 DEF s

LEMMA CallMoved ==
  ASSUME NEW c \in CallStates, NEW p \in Places, NEW n \in 0..MaxCount
  PROVE  LET new == Moved(c, p, n)
         IN  new \in CallStates /\ Len(new.data) = 0 /\ new.left = n /\ new.at = p
<1> DEFINE q == [c EXCEPT !.at = p]
           r == [c EXCEPT !.at = p, !.left = n]
           s == [c EXCEPT !.at = p, !.left = n, !.moved = TRUE]
           t == Moved(c, p, n)
<1>0. <<>> \in Seq(Byte) /\ TRUE \in BOOLEAN
  OBVIOUS
<1>1. q \in CallStates /\ q.at = p
  <2>1. q \in CallStates  BY CallField
  <2> QED  BY <2>1 DEF CallStates
<1>2. r = [q EXCEPT !.left = n] /\ s = [r EXCEPT !.moved = TRUE] /\ t = [s EXCEPT !.data = <<>>]
  BY DEF Moved
<1> HIDE DEF q, r, s, t
<1>3. r \in CallStates /\ r.at = p /\ r.left = n
  <2>1. r \in CallStates  BY <1>1, <1>2, CallField
  <2> QED  BY <1>1, <1>2, <2>1 DEF CallStates
<1>4. s \in CallStates /\ s.at = p /\ s.left = n
  <2>1. s \in CallStates  BY <1>0, <1>2, <1>3, CallField
  <2> QED  BY <1>2, <1>3, <2>1 DEF CallStates
<1>5. t \in CallStates /\ t.at = p /\ t.left = n /\ t.data = <<>>
  <2>1. t \in CallStates  BY <1>0, <1>2, <1>4, CallField
  <2> QED  BY <1>2, <1>4, <2>1 DEF CallStates
<1> QED  BY <1>5 DEF t

LEMMA CallBegins ==
  ASSUME NEW c \in CallStates, NEW p \in Places, NEW n \in 0..MaxCount, NEW b \in BOOLEAN
  PROVE  LET new == Begun(c, p, n, b)
         IN  new \in CallStates /\ new.data = c.data /\ new.left = n /\ new.at = p
<1> DEFINE q == [c EXCEPT !.at = p]
           r == [c EXCEPT !.at = p, !.left = n]
           t == Begun(c, p, n, b)
<1>1. q \in CallStates /\ q.at = p /\ q.data = c.data
  <2>1. q \in CallStates  BY CallField
  <2> QED  BY <2>1 DEF CallStates
<1>2. r = [q EXCEPT !.left = n] /\ t = [r EXCEPT !.nonblock = b]
  BY DEF Begun
<1> HIDE DEF q, r, t
<1>3. r \in CallStates /\ r.at = p /\ r.left = n /\ r.data = c.data
  <2>1. r \in CallStates  BY <1>1, <1>2, CallField
  <2> QED  BY <1>1, <1>2, <2>1 DEF CallStates
<1>4. t \in CallStates /\ t.at = p /\ t.left = n /\ t.data = c.data
  <2>1. t \in CallStates  BY <1>2, <1>3, CallField
  <2> QED  BY <1>2, <1>3, <2>1 DEF CallStates
<1> QED  BY <1>4 DEF t

\* A call begins.
LEMMA TypeCalling == ASSUME TypeOK, Calling PROVE TypeOK'
<1>0. "done" \in Results /\ "ENOTTY" \in Results /\ "idle" \in Places
  BY DEF Results, Places
<1>1. ASSUME NEW f \in {"write", "read", "close"}, NEW n \in 0..MaxCount, NEW b \in BOOLEAN,
             Invoke(f, n, b)
      PROVE  TypeOK'
  <2>1. Entry[f] \in Places
    BY DEF Entry, Places
  <2> DEFINE c == Idle("done")
  <2>2. c \in CallStates /\ Len(c.data) = 0
    <3>1. Len(Idle("done").data) = 0
      BY DEF Idle
    <3> QED  BY <1>0, <3>1, CallTypes
  <2>3. call' = Begun(c, Entry[f], n, b)
    BY <1>1 DEF Invoke, Begun
  <2> HIDE DEF c
  <2>4. call' \in CallStates /\ Len(call'.data) <= call'.left
    <3>1. call' \in CallStates /\ call'.data = c.data /\ call'.left = n
      BY <2>1, <2>2, <2>3, CallBegins
    <3> QED  BY <2>2, <3>1
  <2>5. isr' = isr /\ UNCHANGED <<rings, watch, wrote, reads, device, irq_enable>>
    BY <1>1 DEF Invoke
  <2>6. irq_enable' \subseteq Interrupts
    BY <2>5, Types
  <2> QED  BY <2>4, <2>5, <2>6, TypeMove
<1>2. ASSUME NEW t \in Nat, SetTimeout(t)
      PROVE  TypeOK'
  <2>1. UNCHANGED <<device, rings, irq_enable, host_inactive, isr, wrote, reads>>
    BY <1>2 DEF SetTimeout
  <2>2. timeout' \in Nat
    BY <1>2 DEF SetTimeout
  <2>3. call' = Idle("done") \/ call' = Idle("ENOTTY")
    BY <1>2 DEF SetTimeout
  <2>4. call' \in CallStates /\ Len(call'.data) <= call'.left
    BY <1>0, <2>3, CallTypes
  <2> QED  BY <2>1, <2>2, <2>4, Types, NewTypes DEF device, host, rings
<1>3. Timeouts \subseteq Nat /\ 0 \in 0..MaxCount /\ 1..MaxCount \subseteq 0..MaxCount
  OBVIOUS
<1> QED
  <2>1. CASE \E f \in Calls \cap {"write", "read"}, count \in 1..MaxCount, nonblock \in BOOLEAN :
               Invoke(f, count, nonblock)
    <3>1. PICK f \in {"write", "read", "close"}, n \in 0..MaxCount, b \in BOOLEAN : Invoke(f, n, b)
      BY <1>3, <2>1
    <3> QED  BY <1>1, <3>1
  <2>2. CASE \E f \in Calls \cap {"close"}, nonblock \in BOOLEAN : Invoke(f, 0, nonblock)
    <3>1. PICK f \in {"write", "read", "close"}, b \in BOOLEAN : Invoke(f, 0, b)
      BY <2>2
    <3> QED  BY <1>1, <1>3, <3>1
  <2>3. CASE \E f \in Calls \cap {"ioctl"}, t \in Timeouts : SetTimeout(t)
    BY <1>2, <1>3, <2>3
  <2> QED  BY <2>1, <2>2, <2>3 DEF Calling

\* What write and read may take at once: what is free, or there, up to the
\* end of the ring.
LEMMA Rooms ==
  ASSUME TypeOK
  PROVE  /\ WriteRoom \in Nat /\ TxHeld + WriteRoom < BUF_LEN /\ tx_in + WriteRoom <= BUF_LEN
         /\ ReadRoom \in 0..RxHeld /\ rx_out + ReadRoom <= BUF_LEN
         /\ call.left \in Nat
         /\ AtMost(WriteRoom, call.left) \in 0..call.left
         /\ AtMost(WriteRoom, call.left) <= WriteRoom
         /\ AtMost(ReadRoom, call.left) \in 0..call.left
         /\ AtMost(ReadRoom, call.left) <= ReadRoom
<1>0. tx_in \in 0..(BUF_LEN - 1) /\ tx_out \in 0..(BUF_LEN - 1)
      /\ rx_in \in 0..(BUF_LEN - 1) /\ rx_out \in 0..(BUF_LEN - 1)
  BY Types DEF Slot
<1>1. TxHeld = (IF tx_in >= tx_out THEN tx_in - tx_out ELSE tx_in + BUF_LEN - tx_out)
      /\ RxHeld = (IF rx_in >= rx_out THEN rx_in - rx_out ELSE rx_in + BUF_LEN - rx_out)
  BY <1>0, InRingIs DEF TxHeld, RxHeld, Slot
<1>2. WriteRoom \in Nat /\ TxHeld + WriteRoom < BUF_LEN /\ tx_in + WriteRoom <= BUF_LEN
  BY <1>0, <1>1 DEF WriteRoom
<1>3. ReadRoom \in 0..RxHeld /\ rx_out + ReadRoom <= BUF_LEN
  BY <1>0, <1>1 DEF ReadRoom
<1>4. call.left \in Nat
  BY Types DEF CallStates
<1>5. AtMost(WriteRoom, call.left) \in 0..call.left /\ AtMost(WriteRoom, call.left) <= WriteRoom
  BY <1>2, <1>4 DEF AtMost
<1>6. AtMost(ReadRoom, call.left) \in 0..call.left /\ AtMost(ReadRoom, call.left) <= ReadRoom
  <2>1. ReadRoom \in Nat  BY <1>0, <1>1, <1>3
  <2> QED  BY <1>4, <2>1 DEF AtMost
<1> QED  BY <1>2, <1>3, <1>4, <1>5, <1>6

\* write.
LEMMA TypeWriteCopy == ASSUME TypeOK, WriteCopy PROVE TypeOK'
<1> DEFINE n == AtMost(WriteRoom, call.left)
<1>1. UNCHANGED <<device, tx_in, tx_out, rx_buf, rx_in, rx_out, irq_enable, watch, isr,
                  wrote, reads>>
  BY DEF WriteCopy
<1>2. n \in 0..call.left /\ n \in Nat /\ call \in CallStates /\ Len(call.data) <= call.left
  BY Rooms, Types
<1>3. CASE n = 0
  <2>1. tx_buf' = tx_buf /\ "w_kick" \in Places
    BY <1>3 DEF WriteCopy, Places
  <2>2. call' = Watching(call, "w_kick", IF call.left > 0 THEN tx_out ELSE call.seen)
    BY <1>3 DEF WriteCopy, Watching
  <2>3. (IF call.left > 0 THEN tx_out ELSE call.seen) \in Slot
    BY Types DEF CallStates
  <2>4. call' \in CallStates /\ call'.data = call.data /\ call'.left = call.left
    BY <1>2, <2>1, <2>2, <2>3, CallWaits
  <2> QED  BY <1>1, <1>2, <2>1, <2>4, Types, NewTypes DEF device, host, watch
<1>4. CASE n # 0
  <2>1. /\ tx_buf' = [i \in Slot |-> IF i \in tx_in..(tx_in + n - 1)
                                     THEN Plus(wrote, i - tx_in) ELSE tx_buf[i]]
        /\ call' = Holding(call, "w_publish", From(wrote, n))
    BY <1>4 DEF WriteCopy, Holding
  <2> HIDE DEF n
  <2>2. tx_buf' \in [Slot -> Byte]
    <3>1. ASSUME NEW i \in Slot
          PROVE  (IF i \in tx_in..(tx_in + n - 1) THEN Plus(wrote, i - tx_in) ELSE tx_buf[i]) \in Byte
      <4>1. CASE i \in tx_in..(tx_in + n - 1)
        <5>1. i - tx_in \in Nat
          BY <1>2, <4>1, Types DEF Slot
        <5> QED  BY <4>1, <5>1, Types, BytePlus
      <4>2. CASE i \notin tx_in..(tx_in + n - 1)
        BY <4>2, Types
      <4> QED  BY <4>1, <4>2
    <3> QED  BY <2>1, <3>1
  <2>3. From(wrote, n) \in Seq(Byte) /\ Len(From(wrote, n)) = n /\ "w_publish" \in Places
    BY <1>2, Types, FromType DEF Places
  <2>4. call' \in CallStates /\ call'.data = From(wrote, n) /\ call'.left = call.left
    BY <1>2, <2>1, <2>3, CallHolds
  <2>5. Len(call'.data) <= call'.left
    BY <1>2, <2>3, <2>4, Rooms
  <2> QED  BY <1>1, <2>2, <2>4, <2>5, Types, NewTypes DEF device, host, watch
<1> QED  BY <1>3, <1>4

\* And moves on by what it wrote.
LEMMA TypeWritePublish == ASSUME TypeOK, WritePublish PROVE TypeOK'
<1> DEFINE n == Len(call.data)
<1>1. UNCHANGED <<device, tx_buf, tx_out, rx_buf, rx_in, rx_out, irq_enable, watch, isr, reads>>
  BY DEF WritePublish
<1>2. n \in Nat /\ n <= call.left /\ call \in CallStates /\ call.left \in 0..MaxCount
  BY Types DEF CallStates
<1>3. /\ tx_in' = (tx_in + n) % BUF_LEN /\ wrote' = Plus(wrote, n)
      /\ call' = Moved(call, "w_copy", call.left - n)
  BY DEF WritePublish, Moved
<1> HIDE DEF n
<1>4. tx_in' \in Slot
  <2>1. tx_in + n \in Nat
    BY <1>2, Types DEF Slot
  <2> QED  BY <1>3, <2>1, ModRange DEF Slot
<1>5. wrote' \in Byte
  BY <1>2, <1>3, Types, BytePlus
<1>6. call.left - n \in 0..MaxCount /\ "w_copy" \in Places
  BY <1>2 DEF Places
<1>7. call' \in CallStates /\ Len(call'.data) = 0 /\ call'.left = call.left - n
  BY <1>2, <1>3, <1>6, CallMoved, SMTT(40)
<1>8. Len(call'.data) <= call'.left
  BY <1>6, <1>7
<1> QED  BY <1>1, <1>4, <1>5, <1>7, <1>8, Types, NewTypes DEF device, host, watch

\* read.
LEMMA TypeReadCopy == ASSUME TypeOK, ReadCopy PROVE TypeOK'
<1> DEFINE n == AtMost(ReadRoom, call.left)
           chunk == [k \in 1..n |-> rx_buf[rx_out + k - 1]]
<1>1. isr' = isr /\ UNCHANGED <<rings, watch, wrote, reads, device, irq_enable>>
  BY DEF ReadCopy
<1>2. n \in 0..call.left /\ n \in Nat /\ rx_out + n <= BUF_LEN /\ call \in CallStates
      /\ Len(call.data) <= call.left /\ call.left \in Nat /\ rx_out \in 0..(BUF_LEN - 1)
  <2>1. ReadRoom \in Nat
    BY Rooms, Sizes
  <2> QED  BY <2>1, Rooms, Types DEF Slot
<1>3. chunk \in Seq(Byte) /\ Len(chunk) = n
  <2> HIDE DEF n
  <2>1. ASSUME NEW k \in 1..n PROVE rx_buf[rx_out + k - 1] \in Byte
    <3>1. rx_out + k - 1 \in Slot
      BY <1>2 DEF Slot
    <3> QED  BY <3>1, Types
  <2> QED  BY <1>2, <2>1
<1>4. call' \in CallStates /\ Len(call'.data) <= call'.left
  <2>1. CASE n > 0
    <3>1. call' = Holding(call, "r_publish", chunk) /\ "r_publish" \in Places
      BY <2>1 DEF ReadCopy, Places, Holding
    <3> HIDE DEF chunk, n
    <3>2. call' \in CallStates /\ call'.data = chunk /\ call'.left = call.left
      BY <1>2, <1>3, <3>1, CallHolds
    <3> QED  BY <1>2, <1>3, <3>2
  <2>2. CASE ~(n > 0)
    <3>1. CASE call.moved
      <4>1. Goto("r_kick") /\ "r_kick" \in Places
        BY <2>2, <3>1 DEF ReadCopy, Places
      <4> QED  BY <1>2, <4>1, CallTypes
    <3>2. CASE ~call.moved /\ call.nonblock
      <4>1. Return
        BY <2>2, <3>2 DEF ReadCopy
      <4> QED  BY <4>1, CallTypes DEF Return
    <3>3. CASE ~call.moved /\ ~call.nonblock
      <4>1. call' = Watching(call, "r_spin", rx_in) /\ "r_spin" \in Places /\ rx_in \in Slot
        BY <2>2, <3>3, Types DEF ReadCopy, Places, Watching
      <4>2. call' \in CallStates /\ call'.data = call.data /\ call'.left = call.left
        BY <1>2, <4>1, CallWaits
      <4> QED  BY <1>2, <4>2
    <3> QED  BY <3>1, <3>2, <3>3
  <2> QED  BY <2>1, <2>2
<1>5. irq_enable' \subseteq Interrupts
  BY <1>1, Types
<1> QED  BY <1>1, <1>4, <1>5, TypeMove

\* It needs that there is a byte to take.
LEMMA TypeReadPublish ==
  ASSUME TypeOK, ReadPublish, Len(call.data) > 0 PROVE TypeOK'
<1> DEFINE n == Len(call.data)
           p == IF call.left = n THEN "r_kick" ELSE "r_copy"
<1>1. UNCHANGED <<device, tx_buf, tx_in, tx_out, rx_buf, rx_in, irq_enable, watch, isr, wrote>>
  BY DEF ReadPublish
<1>2. n \in Nat /\ n <= call.left /\ call \in CallStates /\ call.left \in 0..MaxCount
      /\ p \in Places /\ call.data[n] \in Byte
  <2>1. call.data \in Seq(Byte)
    BY Types DEF CallStates
  <2>2. call.data[n] \in Byte
    BY <2>1
  <2> QED  BY <2>2, Types DEF CallStates, Places
<1>3. /\ rx_out' = (rx_out + n) % BUF_LEN /\ reads' = Plus(call.data[n], 1)
      /\ call' = Moved(call, p, call.left - n)
  BY DEF ReadPublish, Moved
<1> HIDE DEF n, p
<1>4. rx_out' \in Slot
  <2>1. rx_out + n \in Nat
    BY <1>2, Types, SMTT(40) DEF Slot
  <2> QED  BY <1>3, <2>1, ModRange DEF Slot
<1>5. reads' \in Byte
  BY <1>2, <1>3, BytePlus
<1>6. call.left - n \in 0..MaxCount
  BY <1>2
<1>7. call' \in CallStates /\ Len(call'.data) = 0 /\ call'.left = call.left - n
  BY <1>2, <1>3, <1>6, CallMoved
<1>8. Len(call'.data) <= call'.left
  BY <1>6, <1>7
<1> QED  BY <1>1, <1>4, <1>5, <1>7, <1>8, Types, NewTypes DEF device, host, watch

-----------------------------------------------------------------------------
(***************************************************************************)
(* Either direction of the console is a bounded pipe, for calls of any     *)
(* length.                                                                 *)
(***************************************************************************)
USE DeviceAssumption, DriverAssumption

-----------------------------------------------------------------------------
(***************************************************************************)
(* The inductive invariant, a direction each.  FIFO and ring hold the      *)
(* bytes from the next the far end takes up to the next the near end puts  *)
(* in; the routine never has more space in mind than the FIFO has; and     *)
(* what a call is about to publish is in slots that nobody looks at.       *)
(***************************************************************************)
Room(in, out, n) == InRing(in, out) + n < BUF_LEN /\ in + n <= BUF_LEN

Publishing ==
  call.at = "w_publish" =>
    /\ Len(call.data) > 0 /\ Room(tx_in, tx_out, Len(call.data))
    /\ \A k \in 1..Len(call.data) : tx_buf[tx_in + k - 1] = Plus(wrote, k - 1)

OutStream ==
  /\ wfifo = From(got, Len(wfifo))
  /\ Holds(tx_buf, tx_in, tx_out, Plus(got, Len(wfifo)))
  /\ wrote = Plus(got, Len(wfifo) + TxHeld)
  /\ isr.space <= WSPACE
  /\ Publishing

Consuming ==
  call.at = "r_publish" =>
    /\ Len(call.data) \in 1..RxHeld /\ rx_out + Len(call.data) <= BUF_LEN
    /\ call.data = From(reads, Len(call.data))

InStream ==
  /\ Holds(rx_buf, rx_in, rx_out, reads)
  /\ rfifo = From(Plus(reads, RxHeld), Len(rfifo))
  /\ sent = Plus(reads, RxHeld + Len(rfifo))
  /\ Consuming

StreamInv == TypeOK /\ OutStream /\ InStream

(***************************************************************************)
(* What there is on the way, as a stream.                                  *)
(***************************************************************************)
OutLen == Len(wfifo) + TxHeld
InLen == RxHeld + Len(rfifo)

\* The two parts of a direction, one after the other.
LEMMA TwoParts ==
  ASSUME NEW STATE b, NEW STATE m, NEW STATE n, b \in Nat, m \in Nat, n \in Nat
  PROVE  From(b, m + n) = From(b, m) \o From(Plus(b, m), n)
BY StreamEnter, ZenonT(60)

\* The invariant, as the pipe it is about.
OutFacts ==
  /\ wfifo \o TxRing = From(got, OutLen) /\ wrote = Plus(got, OutLen)
  /\ OutLen \in 0..(BUF_LEN - 1 + FIFO_DEPTH) /\ got \in Byte
InFacts ==
  /\ RxRing \o rfifo = From(reads, InLen) /\ sent = Plus(reads, InLen)
  /\ InLen \in 0..(BUF_LEN - 1 + FIFO_DEPTH) /\ reads \in Byte

\* Of the way out, and of the way in.
LEMMA OutPipe == StreamInv => OutFacts
<1> SUFFICES ASSUME StreamInv PROVE OutFacts
  OBVIOUS
<1> USE DEF StreamInv
<1>1. TxRing = From(Plus(got, Len(wfifo)), TxHeld)
  BY DEF OutStream, TxRing, Ring, Holds, TxHeld, InRing, From
<1>2. got \in Nat /\ Len(wfifo) \in Nat /\ TxHeld \in Nat
  BY Sizes
<1>3. From(got, OutLen) = From(got, Len(wfifo)) \o From(Plus(got, Len(wfifo)), TxHeld)
  BY <1>2, TwoParts DEF OutLen
<1>4. OutLen \in 0..(BUF_LEN - 1 + FIFO_DEPTH) /\ got \in Byte
  BY Sizes DEF OutLen
<1> QED  BY <1>1, <1>3, <1>4 DEF OutStream, OutLen, OutFacts

LEMMA InPipe == StreamInv => InFacts
<1> SUFFICES ASSUME StreamInv PROVE InFacts
  OBVIOUS
<1> USE DEF StreamInv
<1>1. RxRing = From(reads, RxHeld)
  BY DEF InStream, RxRing, Ring, Holds, RxHeld, InRing, From
<1>2. reads \in Nat /\ RxHeld \in Nat /\ Len(rfifo) \in Nat
  BY Sizes
<1>3. From(reads, InLen) = From(reads, RxHeld) \o From(Plus(reads, RxHeld), Len(rfifo))
  BY <1>2, TwoParts DEF InLen
<1>4. InLen \in 0..(BUF_LEN - 1 + FIFO_DEPTH) /\ reads \in Byte
  BY Sizes DEF InLen
<1> QED  BY <1>1, <1>3, <1>4 DEF InStream, InLen, InFacts

-----------------------------------------------------------------------------
(***************************************************************************)
(* What leaves a direction alone.  Bytes are set aside by the copying      *)
(* steps only.                                                             *)
(***************************************************************************)
LEMMA SetAside ==
  ASSUME TypeOK, Working \/ Calling
  PROVE  (call'.at = "w_publish" => WriteCopy) /\ (call'.at = "r_publish" => ReadCopy)
<1> DEFINE Aside == {"w_publish", "r_publish"}
           Apart == Places \ Aside
<1>0. call \in CallStates
  BY Types
<1>1. {"w_spin", "w_check", "w_copy", "w_kick", "r_check", "r_copy", "r_kick", "r_spin"} \subseteq Apart
      /\ {"done", "EWOULDBLOCK", "ENOTTY"} \subseteq Results
      /\ "w_publish" \in Places /\ "r_publish" \in Places
  BY DEF Places, Results
<1>2. /\ \A r \in Results : call' = Idle(r) => call'.at \notin Aside
      /\ \A q \in Apart : Goto(q) => call'.at \notin Aside
      /\ Return => call'.at \notin Aside
  BY CallTypes DEF Return
<1>3. CASE WriteKick \/ WriteSpin \/ WriteCheck
  BY <1>1, <1>2, <1>3 DEF WriteKick, WriteSpin, WriteCheck
<1>4. CASE ReadKick \/ ReadSpin \/ ReadCheck
  BY <1>1, <1>2, <1>4 DEF ReadKick, ReadSpin, ReadCheck
<1>5. CASE Close
  BY <1>1, <1>2, <1>5 DEF Close
<1>6. CASE WriteCopy
  <2>1. call'.at \in {"w_kick", "w_publish"}
    BY <1>0, <1>6 DEF WriteCopy, CallStates
  <2> QED  BY <1>6, <2>1
<1>7. CASE ReadCopy
  <2>1. \/ call'.at = "r_publish" \/ Goto("r_kick") \/ Return
        \/ call' = Watching(call, "r_spin", rx_in)
    BY <1>0, <1>7 DEF ReadCopy, CallStates, Watching
  <2>2. Watching(call, "r_spin", rx_in).at = "r_spin"
    BY <1>0, <1>1, Types, CallWaits
  <2> QED  BY <1>1, <1>2, <1>7, <2>1, <2>2
<1>8. CASE WritePublish
  <2>1. call' = Moved(call, "w_copy", call.left - Len(call.data))
    BY <1>8 DEF WritePublish, Moved
  <2>2. call.left - Len(call.data) \in 0..MaxCount /\ "w_copy" \in Places
    BY Types DEF CallStates, Places
  <2>3. call'.at = "w_copy"
    BY <1>0, <2>1, <2>2, CallMoved
  <2> QED  BY <2>3
<1>9. CASE ReadPublish
  <2> DEFINE q == IF call.left = Len(call.data) THEN "r_kick" ELSE "r_copy"
  <2>1. call' = Moved(call, q, call.left - Len(call.data))
    BY <1>9 DEF ReadPublish, Moved
  <2>2. call.left - Len(call.data) \in 0..MaxCount
    BY Types DEF CallStates
  <2>3. q \in Places /\ q \notin Aside
    BY <1>1
  <2> HIDE DEF q
  <2>4. call'.at = q
    BY <1>0, <2>1, <2>2, <2>3, CallMoved
  <2> QED  BY <2>3, <2>4
<1>10. CASE Calling
  <2>1. ASSUME NEW f \in {"write", "read", "close"}, NEW n \in 0..MaxCount, NEW b \in BOOLEAN,
               Invoke(f, n, b)
        PROVE  call'.at \notin Aside
    <3>1. Entry[f] \in Apart
      BY DEF Entry, Places
    <3>2. call' = Begun(Idle("done"), Entry[f], n, b)
      BY <2>1 DEF Invoke, Begun
    <3>3. Idle("done") \in CallStates
      BY <1>1, CallTypes
    <3>4. call'.at = Entry[f]
      BY <3>1, <3>2, <3>3, CallBegins
    <3> QED  BY <3>1, <3>4
  <2>2. ASSUME NEW t, SetTimeout(t) PROVE call'.at \notin Aside
    BY <1>1, <1>2, <2>2 DEF SetTimeout
  <2>3. 0 \in 0..MaxCount /\ 1..MaxCount \subseteq 0..MaxCount
    OBVIOUS
  <2>4. CASE \E f \in Calls \cap {"write", "read"}, count \in 1..MaxCount, nonblock \in BOOLEAN :
               Invoke(f, count, nonblock)
    <3>1. PICK f \in {"write", "read", "close"}, n \in 0..MaxCount, b \in BOOLEAN : Invoke(f, n, b)
      BY <2>3, <2>4
    <3> QED  BY <2>1, <3>1
  <2>5. CASE \E f \in Calls \cap {"close"}, nonblock \in BOOLEAN : Invoke(f, 0, nonblock)
    <3>1. PICK f \in {"write", "read", "close"}, b \in BOOLEAN : Invoke(f, 0, b)
      BY <2>5
    <3> QED  BY <2>1, <2>3, <3>1
  <2>6. CASE \E f \in Calls \cap {"ioctl"}, t \in Timeouts : SetTimeout(t)
    BY <2>2, <2>6
  <2> QED  BY <1>10, <2>4, <2>5, <2>6 DEF Calling
<1> QED
  BY <1>3, <1>4, <1>5, <1>6, <1>7, <1>8, <1>9, <1>10 DEF Working

\* The way out, and the way in, of a step that assigns nothing there.
LEMMA OutKept ==
  ASSUME OutStream, UNCHANGED <<wfifo, got, tx_buf, tx_in, tx_out, wrote>>,
         isr'.space <= WSPACE, call'.at = "w_publish" => call' = call
  PROVE  OutStream'
<1>1. Publishing'
  BY DEF OutStream, Publishing, Room, InRing
<1> QED  BY <1>1 DEF OutStream, Holds, TxHeld, InRing, WSPACE

LEMMA InKept ==
  ASSUME InStream, UNCHANGED <<rfifo, sent, rx_buf, rx_in, rx_out, reads>>,
         call'.at = "r_publish" => call' = call
  PROVE  InStream'
<1>1. Consuming'
  BY DEF InStream, Consuming, RxHeld, InRing, From
<1> QED  BY <1>1 DEF InStream, Holds, RxHeld, InRing, From

\* The room the routine has in mind.
LEMMA SpaceKept ==
  ASSUME TypeOK, isr.space <= WSPACE
  PROVE  /\ AtControl.space <= WSPACE /\ NoIsr.space <= WSPACE /\ AfterRx.space <= WSPACE
         /\ \A n \in 0..FIFO_DEPTH : [isr EXCEPT !.avail = n].space <= WSPACE
<1>1. WSPACE \in 0..FIFO_DEPTH /\ isr \in Routines
  BY Types DEF WSPACE
<1>2. AtControl.space = 0 /\ NoIsr.space = 0
  <2>1. AtControl \in Routines /\ AtControl.space = 0
    BY RoutineTypes DEF AtControl
  <2> QED  BY <2>1 DEF NoIsr, Routines
<1>3. \A n \in 0..FIFO_DEPTH : [isr EXCEPT !.avail = n].space = isr.space
  BY <1>1 DEF Routines
<1>4. AfterRx.space \in {0, isr.space}
  <2> DEFINE r == [isr EXCEPT !.at = "tx"]
             s == [isr EXCEPT !.at = "tx", !.avail = 0]
  <2>1. r \in Routines /\ r.space = isr.space
    <3>1. r \in Routines  BY <1>1, RoutineField
    <3> QED  BY <1>1, <3>1 DEF Routines
  <2>2. s = [r EXCEPT !.avail = 0]
    OBVIOUS
  <2> HIDE DEF r, s
  <2>3. s.space = isr.space
    BY <2>1, <2>2 DEF Routines
  <2> QED  BY <1>2, <2>3 DEF AfterRx, s
<1> QED  BY <1>1, <1>2, <1>3, <1>4

-----------------------------------------------------------------------------
(***************************************************************************)
(* The way out, step by step: its invariant, and what becomes of the bytes *)
(* on the way.                                                             *)
(***************************************************************************)
OutMove ==
  \/ got' = got /\ OutLen' = OutLen
  \/ got' = got /\ \E n \in Nat \ {0} : OutLen' = OutLen + n
  \/ got' = Plus(got, 1) /\ OutLen' = OutLen - 1

\* Nothing on the way moves.
LEMMA OutStill ==
  ASSUME UNCHANGED <<wfifo, got, tx_in, tx_out>> PROVE OutMove
BY DEF OutMove, OutLen, TxHeld, InRing

\* The host takes a byte.
LEMMA OutTake ==
  ASSUME TypeOK, OutStream, Host, Take
  PROVE  OutStream' /\ OutMove
<1> DEFINE l == Len(wfifo)
           h == TxHeld
<1>1. UNCHANGED <<tx_buf, tx_in, tx_out, wrote, isr, call>>
  BY DEF Host, rings, program
<1>2. wfifo # <<>> /\ wfifo' = Tail(wfifo) /\ got' = Plus(Head(wfifo), 1)
  BY DEF Take
<1>3. l \in Nat /\ l > 0 /\ l <= FIFO_DEPTH /\ h \in Nat /\ got \in Byte /\ got \in Nat
  BY <1>2, Sizes, Types
<1>4. wfifo = From(got, l) /\ wrote = Plus(got, l + h)
      /\ Holds(tx_buf, tx_in, tx_out, Plus(got, l)) /\ isr.space <= WSPACE
  BY DEF OutStream
<1>5. Head(wfifo) = got /\ Tail(wfifo) = From(Plus(got, 1), l - 1)
  <2> HIDE DEF l
  <2>1. Head(From(got, l)) = got /\ Tail(From(got, l)) = From(Plus(got, 1), l - 1)
    BY <1>3, FromTail
  <2> QED  BY <1>4, <2>1
<1>6. Len(wfifo') = l - 1 /\ h' = h
  BY <1>1, <1>2, Types DEF TxHeld, InRing
<1>7. Plus(Plus(got, 1), l - 1) = Plus(got, l) /\ Plus(Plus(got, 1), (l - 1) + h) = Plus(got, l + h)
  <2> HIDE DEF l, h
  <2>1. l - 1 \in Nat /\ (l - 1) + h \in Nat /\ 1 + (l - 1) = l /\ 1 + ((l - 1) + h) = l + h
    BY <1>3
  <2>2. Plus(Plus(got, 1), l - 1) = Plus(got, 1 + (l - 1))
    BY <1>3, <2>1, PlusPlus
  <2>3. Plus(Plus(got, 1), (l - 1) + h) = Plus(got, 1 + ((l - 1) + h))
    BY <1>3, <2>1, PlusPlus
  <2> QED  BY <2>1, <2>2, <2>3
<1>8. isr'.space <= WSPACE'
  <2>1. isr.space \in Nat
    BY Types DEF Routines
  <2> QED  BY <1>1, <1>3, <1>4, <1>6, <2>1 DEF WSPACE
<1>9. Publishing'
  BY <1>1 DEF OutStream, Publishing, Room, InRing
<1>10. wfifo' = From(got', Len(wfifo')) /\ wrote' = Plus(got', Len(wfifo') + h')
       /\ Plus(got', Len(wfifo')) = Plus(got, l)
  <2> HIDE DEF l, h
  <2> QED  BY <1>1, <1>2, <1>4, <1>5, <1>6, <1>7
<1>11. OutMove
  BY <1>2, <1>3, <1>5, <1>6 DEF OutMove, OutLen
<1> QED
  BY <1>1, <1>4, <1>8, <1>9, <1>10, <1>11 DEF OutStream, Holds, InRing

\* The routine moves a byte from the ring to the FIFO, which has the space.
LEMMA OutTransmit ==
  ASSUME TypeOK, OutStream, TransmitByte
  PROVE  OutStream' /\ OutMove
<1> DEFINE l == Len(wfifo)
           h == TxHeld
<1>1. UNCHANGED <<tx_buf, tx_in, got, wrote, call>>
  BY DEF TransmitByte, IOWR_DATA, host, program
<1>2. isr.space \in Nat /\ isr.space > 0 /\ isr.space <= WSPACE /\ WSPACE = FIFO_DEPTH - l
      /\ tx_out # tx_in
  BY Types DEF OutStream, TransmitByte, Routines, WSPACE
<1>3. l \in Nat /\ l < FIFO_DEPTH /\ h \in Nat /\ got \in Nat /\ tx_in \in Slot /\ tx_out \in Slot
      /\ tx_buf[tx_out] \in Byte
  BY <1>2, Sizes, Types
<1>4. wfifo = From(got, l) /\ wrote = Plus(got, l + h)
      /\ Holds(tx_buf, tx_in, tx_out, Plus(got, l))
  BY DEF OutStream
<1>5. wfifo' = Append(wfifo, tx_buf[tx_out]) /\ tx_out' = (tx_out + 1) % BUF_LEN
      /\ isr'.space = isr.space - 1
  <2>1. isr' = [isr EXCEPT !.space = isr.space - 1]
    BY DEF TransmitByte
  <2>2. isr'.space = isr.space - 1
    BY <2>1, Types DEF Routines
  <2>3. WSPACE > 0
    BY <1>2, <1>3
  <2> QED  BY <2>2, <2>3 DEF TransmitByte, IOWR_DATA, NextSlot
<1>6. h > 0 /\ tx_out + 1 <= BUF_LEN
  <2>1. h = IF tx_in >= tx_out THEN tx_in - tx_out ELSE tx_in + BUF_LEN - tx_out
    BY <1>3, InRingIs DEF TxHeld
  <2> QED  BY <1>2, <1>3, <2>1 DEF Slot
<1>7. tx_buf[tx_out] = Plus(got, l)
  <2>1. 1 \in 1..h /\ (tx_out + 1 - 1) % BUF_LEN = tx_out /\ 1 - 1 = 0
    <3>1. tx_out + 1 - 1 = tx_out /\ tx_out \in 0..(2 * BUF_LEN - 1)
      BY <1>3 DEF Slot
    <3>2. tx_out % BUF_LEN = tx_out
      BY <1>3, <3>1, ModSlot DEF Slot
    <3> QED  BY <1>3, <1>6, <3>1, <3>2
  <2>2. tx_buf[(tx_out + 1 - 1) % BUF_LEN] = Plus(Plus(got, l), 1 - 1)
    BY <1>4, <2>1 DEF Holds, TxHeld
  <2>3. Plus(got, l) \in Byte
    BY <1>3, PlusByte
  <2>4. Plus(Plus(got, l), 0) = Plus(got, l)
    BY <2>3, PlusZero
  <2> QED  BY <2>1, <2>2, <2>4
<1>8. wfifo' = From(got, l + 1) /\ Len(wfifo') = l + 1
  <2> HIDE DEF l
  <2>1. Append(From(got, l), Plus(got, l)) = From(got, l + 1)
    BY <1>3, FromAppend
  <2>2. l + 1 \in Nat
    BY <1>3
  <2>3. Len(From(got, l + 1)) = l + 1
    BY <1>3, <2>2, FromIs
  <2> QED  BY <1>4, <1>5, <1>7, <2>1, <2>3
<1>9. h' = h - 1 /\ Holds(tx_buf, tx_in, tx_out', Plus(got, l + 1))
  <2> HIDE DEF l
  <2>1. Plus(got, l) \in Nat /\ Plus(Plus(got, l), 1) = Plus(got, l + 1)
    <3>0. got \in Nat /\ l \in Nat
      BY <1>3
    <3>1. Plus(got, l) \in Nat
      BY <3>0, PlusByte DEF Byte
    <3> QED  BY <3>0, <3>1, PlusPlus
  <2>2. InRing(tx_in, (tx_out + 1) % BUF_LEN) = InRing(tx_in, tx_out) - 1
        /\ Holds(tx_buf, tx_in, (tx_out + 1) % BUF_LEN, Plus(Plus(got, l), 1))
    BY <1>3, <1>4, <1>6, <2>1, RingLeave DEF TxHeld
  <2> QED  BY <1>1, <1>5, <2>1, <2>2 DEF TxHeld, InRing
<1>10. wrote' = Plus(got', Len(wfifo') + h')
  <2>1. (l + 1) + (h - 1) = l + h
    BY <1>3
  <2> HIDE DEF l, h
  <2> QED  BY <1>1, <1>4, <1>8, <1>9, <2>1
<1>11. Publishing'
  <2> SUFFICES ASSUME call'.at = "w_publish"
               PROVE  /\ Len(call'.data) > 0 /\ Room(tx_in, tx_out', Len(call'.data))
                      /\ \A k \in 1..Len(call'.data) : tx_buf[tx_in + k - 1] = Plus(wrote, k - 1)
    BY <1>1 DEF Publishing, Room, InRing
  <2>1. /\ Len(call.data) > 0 /\ Room(tx_in, tx_out, Len(call.data))
        /\ \A k \in 1..Len(call.data) : tx_buf[tx_in + k - 1] = Plus(wrote, k - 1)
    BY <1>1 DEF OutStream, Publishing
  <2>2. InRing(tx_in, tx_out') = InRing(tx_in, tx_out) - 1 /\ InRing(tx_in, tx_out) \in Nat
    BY <1>1, <1>3, <1>9 DEF TxHeld, InRing
  <2>3. Len(call.data) \in Nat
    BY Types DEF CallStates
  <2>4. Room(tx_in, tx_out', Len(call.data))
    BY <2>1, <2>2, <2>3 DEF Room
  <2> QED  BY <1>1, <2>1, <2>4
<1>12. isr'.space <= WSPACE'
  BY <1>2, <1>3, <1>5, <1>8 DEF WSPACE
<1>13. OutMove
  BY <1>1, <1>3, <1>8, <1>9 DEF OutMove, OutLen
<1>14. Holds(tx_buf, tx_in, tx_out, Plus(got, Len(wfifo)))'
  <2> HIDE DEF l
  <2> QED  BY <1>1, <1>8, <1>9 DEF Holds, InRing
<1>15. wfifo' = From(got', Len(wfifo'))
  <2> HIDE DEF l
  <2> QED  BY <1>1, <1>8
<1> QED
  BY <1>10, <1>11, <1>12, <1>13, <1>14, <1>15 DEF OutStream

\* write fills free slots.
LEMMA OutCopy ==
  ASSUME TypeOK, OutStream, WriteCopy
  PROVE  OutStream' /\ OutMove
<1> DEFINE n == AtMost(WriteRoom, call.left)
           l == Len(wfifo)
<1>1. UNCHANGED <<wfifo, got, tx_in, tx_out, wrote, isr>>
  BY DEF WriteCopy, device, host
<1>2. n \in Nat /\ n <= WriteRoom /\ TxHeld + WriteRoom < BUF_LEN /\ tx_in + WriteRoom <= BUF_LEN
      /\ WriteRoom \in Nat /\ TxHeld \in Nat /\ tx_in \in Slot /\ tx_out \in Slot
      /\ call \in CallStates /\ tx_in \in Nat /\ got \in Nat /\ wrote \in Byte /\ l \in Nat
      /\ wrote \in Nat
  BY Rooms, Sizes, Types DEF Slot
<1>3. OutMove
  BY <1>1, OutStill
<1>4. isr'.space <= WSPACE
  BY <1>1 DEF OutStream
<1>5. CASE n = 0
  <2>1. tx_buf' = tx_buf /\ call'.at = "w_kick"
    BY <1>2, <1>5 DEF WriteCopy, CallStates
  <2> QED  BY <1>1, <1>3, <1>4, <2>1, OutKept
<1>6. CASE n # 0
  <2>1. /\ tx_buf' = [i \in Slot |-> IF i \in tx_in..(tx_in + n - 1)
                                     THEN Plus(wrote, i - tx_in) ELSE tx_buf[i]]
        /\ call' = Holding(call, "w_publish", From(wrote, n))
    BY <1>6 DEF WriteCopy, Holding
  <2> HIDE DEF n, l
  <2>2. Len(call'.data) = n
    <3>1. From(wrote, n) \in Seq(Byte) /\ Len(From(wrote, n)) = n /\ "w_publish" \in Places
      BY <1>2, FromType DEF Places
    <3>2. call'.data = From(wrote, n)
      BY <1>2, <2>1, <3>1, CallHolds
    <3> QED  BY <3>1, <3>2
  <2>3. Room(tx_in, tx_out, n) /\ InRing(tx_in, tx_out) + n < BUF_LEN /\ tx_in + n <= BUF_LEN
    BY <1>2 DEF Room, TxHeld
  <2>4. ASSUME NEW k \in 1..n PROVE tx_buf'[tx_in + k - 1] = Plus(wrote, k - 1)
    <3>1. tx_in + k - 1 \in Slot /\ tx_in + k - 1 \in tx_in..(tx_in + n - 1)
          /\ (tx_in + k - 1) - tx_in = k - 1
      BY <1>2, <2>3 DEF Slot
    <3> QED  BY <2>1, <3>1
  <2>5. Publishing'
    BY <1>1, <1>2, <1>6, <2>2, <2>3, <2>4 DEF Publishing, Room, InRing
  <2>6. Holds(tx_buf', tx_in, tx_out, Plus(got, l))
    <3>1. Holds(tx_buf, tx_in, tx_out, Plus(got, l)) /\ Plus(got, l) \in Nat
      BY <1>2, PlusByte DEF OutStream, l, Byte
    <3>2. \A s \in Slot : s \notin tx_in..(tx_in + n - 1) => tx_buf'[s] = tx_buf[s]
      BY <2>1
    <3> QED  BY <1>2, <2>3, <3>1, <3>2, RingFill
  <2>7. Holds(tx_buf, tx_in, tx_out, Plus(got, Len(wfifo)))'
    BY <1>1, <2>6 DEF Holds, InRing, l
  <2> QED  BY <1>1, <1>3, <1>4, <2>5, <2>7 DEF OutStream, TxHeld, InRing, WSPACE
<1> QED  BY <1>5, <1>6

\* And publishes them.
LEMMA OutPublish ==
  ASSUME TypeOK, OutStream, WritePublish
  PROVE  OutStream' /\ OutMove
<1> DEFINE n == Len(call.data)
           l == Len(wfifo)
           h == TxHeld
<1>1. UNCHANGED <<wfifo, got, tx_buf, tx_out, isr>> /\ tx_in' = (tx_in + n) % BUF_LEN
      /\ wrote' = Plus(wrote, n)
  BY DEF WritePublish, device, host
<1>2. n \in Nat /\ l \in Nat /\ h \in Nat /\ got \in Nat /\ tx_in \in Slot /\ tx_out \in Slot
  BY Sizes, Types DEF CallStates
<1>3. /\ n > 0 /\ Room(tx_in, tx_out, n)
      /\ \A k \in 1..n : tx_buf[tx_in + k - 1] = Plus(wrote, k - 1)
  BY DEF OutStream, Publishing, WritePublish, At
<1>4. /\ wfifo = From(got, l) /\ Holds(tx_buf, tx_in, tx_out, Plus(got, l))
      /\ wrote = Plus(got, l + h) /\ isr.space <= WSPACE
  BY DEF OutStream
<1>5. call'.at # "w_publish"
  BY SetAside DEF Working, WritePublish, WriteCopy, At
<1> HIDE DEF n, l, h
<1>6. Plus(got, l) \in Nat /\ Plus(Plus(got, l), h) = wrote /\ Plus(got, (l + h) + n) = wrote'
  <2>1. Plus(got, l) \in Nat
    BY <1>2, PlusByte DEF Byte
  <2>2. Plus(Plus(got, l), h) = Plus(got, l + h)
    BY <1>2, PlusPlus
  <2>3. l + h \in Nat
    BY <1>2
  <2>4. Plus(Plus(got, l + h), n) = Plus(got, (l + h) + n)
    BY <1>2, <2>3, PlusPlus
  <2> QED  BY <1>1, <1>4, <2>1, <2>2, <2>4
<1>7. InRing((tx_in + n) % BUF_LEN, tx_out) = h + n
      /\ Holds(tx_buf, (tx_in + n) % BUF_LEN, tx_out, Plus(got, l))
  <2> DEFINE b == Plus(got, l)
             i == InRing(tx_in, tx_out)
  <2>1. h = i /\ i + n < BUF_LEN /\ tx_in + n <= BUF_LEN
    BY <1>3 DEF Room, TxHeld, h
  <2>2. b \in Nat /\ Holds(tx_buf, tx_in, tx_out, b) /\ Plus(b, i) = wrote
    BY <1>4, <1>6, <2>1
  <2> HIDE DEF b, i
  <2>3. \A k \in 1..n : tx_buf[tx_in + k - 1] = Plus(Plus(b, i), k - 1)
    BY <1>3, <2>2
  <2>4. InRing((tx_in + n) % BUF_LEN, tx_out) = i + n
        /\ Holds(tx_buf, (tx_in + n) % BUF_LEN, tx_out, b)
    BY <1>2, <2>1, <2>2, <2>3, RingEnter DEF i
  <2> QED  BY <2>1, <2>4 DEF b
<1>8. TxHeld' = h + n /\ Holds(tx_buf, tx_in, tx_out, Plus(got, Len(wfifo)))'
  BY <1>1, <1>7 DEF TxHeld, InRing, Holds, l
<1>9. wrote' = Plus(got', Len(wfifo') + TxHeld')
  <2>1. (l + h) + n = l + (h + n)
    BY <1>2
  <2> QED  BY <1>1, <1>6, <1>8, <2>1 DEF l
<1>10. OutMove
  <2>1. OutLen' = OutLen + n
    BY <1>1, <1>2, <1>8 DEF OutLen, l, h
  <2> QED  BY <1>1, <1>2, <1>3, <2>1 DEF OutMove
<1> QED
  BY <1>1, <1>4, <1>5, <1>8, <1>9, <1>10 DEF OutStream, Publishing, WSPACE, l

-----------------------------------------------------------------------------
(***************************************************************************)
(* The way in.                                                             *)
(***************************************************************************)
InMove ==
  \/ reads' = reads /\ InLen' = InLen
  \/ reads' = reads /\ InLen' = InLen + 1
  \/ \E n \in 1..InLen : reads' = Plus(reads, n) /\ InLen' = InLen - n

\* Nothing on the way moves.
LEMMA InStill ==
  ASSUME UNCHANGED <<rfifo, reads, rx_in, rx_out>> PROVE InMove
BY DEF InMove, InLen, RxHeld, InRing

\* The host sends a byte.
LEMMA InSend ==
  ASSUME TypeOK, InStream, Host, Send
  PROVE  InStream' /\ InMove
<1> DEFINE l == Len(rfifo)
           h == RxHeld
           b == Plus(reads, h)
<1>1. UNCHANGED <<rx_buf, rx_in, rx_out, reads, call>>
  BY DEF Host, rings, program
<1>2. rfifo' = Append(rfifo, sent) /\ sent' = Plus(sent, 1)
  BY DEF Send
<1>3. l \in Nat /\ h \in Nat /\ reads \in Nat
  BY Sizes
<1>4. rfifo = From(b, l) /\ sent = Plus(reads, h + l) /\ h' = h
  BY <1>1 DEF InStream, RxHeld, InRing
<1> HIDE DEF l, h
<1>5. b \in Nat /\ sent = Plus(b, l) /\ sent' = Plus(reads, (h + l) + 1)
  <2>1. b \in Nat
    BY <1>3, PlusByte DEF Byte
  <2>2. h + l \in Nat
    BY <1>3
  <2>3. Plus(Plus(reads, h), l) = Plus(reads, h + l)
    BY <1>3, PlusPlus
  <2>4. Plus(Plus(reads, h + l), 1) = Plus(reads, (h + l) + 1)
    BY <1>3, <2>2, PlusPlus
  <2> QED  BY <1>2, <1>4, <2>1, <2>3, <2>4
<1> HIDE DEF b
<1>6. rfifo' = From(b, l + 1) /\ Len(rfifo') = l + 1
  <2>1. Append(From(b, l), Plus(b, l)) = From(b, l + 1)
    BY <1>3, <1>5, FromAppend
  <2>2. l + 1 \in Nat
    BY <1>3
  <2>3. Len(From(b, l + 1)) = l + 1
    BY <1>5, <2>2, FromIs
  <2> QED  BY <1>2, <1>4, <1>5, <2>1, <2>3
<1>7. rfifo' = From(Plus(reads', RxHeld'), Len(rfifo')) /\ sent' = Plus(reads', RxHeld' + Len(rfifo'))
  <2>1. h + (l + 1) = (h + l) + 1
    BY <1>3
  <2>2. RxHeld' = h
    BY <1>4 DEF h
  <2> QED  BY <1>1, <1>5, <1>6, <2>1, <2>2 DEF b
<1>8. Holds(rx_buf, rx_in, rx_out, reads)' /\ Consuming'
  BY <1>1 DEF InStream, Holds, Consuming, RxHeld, InRing, From
<1>9. InMove
  <2>1. InLen' = InLen + 1
    BY <1>3, <1>4, <1>6 DEF InLen, h, l
  <2> QED  BY <1>1, <2>1 DEF InMove
<1> QED  BY <1>7, <1>8, <1>9 DEF InStream

\* The routine moves a byte from the FIFO to the ring, which has a slot to
\* spare, or finds none.
LEMMA InReceive ==
  ASSUME TypeOK, InStream, ReceiveByte
  PROVE  InStream' /\ InMove
<1> DEFINE l == Len(rfifo)
           h == RxHeld
           b == Plus(reads, h)
<1>1. UNCHANGED <<rx_out, reads, sent, call>> /\ NextSlot(rx_in) # rx_out
  BY DEF ReceiveByte, IORD_DATA, host, program
<1>2. CASE ~RVALID
  <2>1. UNCHANGED <<rfifo, rx_buf, rx_in>>
    BY <1>2 DEF ReceiveByte, IORD_DATA
  <2> QED  BY <1>1, <2>1, InKept, InStill
<1>3. CASE RVALID
  <2>1. rfifo # <<>> /\ rfifo' = Tail(rfifo) /\ rx_in' = (rx_in + 1) % BUF_LEN
        /\ rx_buf' = [rx_buf EXCEPT ![rx_in] = Head(rfifo)]
    BY <1>3 DEF ReceiveByte, IORD_DATA, RVALID, NextSlot
  <2>2. l \in Nat /\ l > 0 /\ h \in Nat /\ h <= BUF_LEN - 1 /\ reads \in Nat /\ rx_in \in Slot
        /\ rx_out \in Slot /\ rx_buf \in [Slot -> Byte]
    BY <2>1, Sizes, Types
  <2>3. rfifo = From(b, l) /\ sent = Plus(reads, h + l) /\ Holds(rx_buf, rx_in, rx_out, reads)
    BY DEF InStream
  <2>4. h + 1 < BUF_LEN /\ rx_in + 1 <= BUF_LEN
    <3>1. h = IF rx_in >= rx_out THEN rx_in - rx_out ELSE rx_in + BUF_LEN - rx_out
      BY <2>2, InRingIs DEF RxHeld
    <3>2. NextSlot(rx_in) = IF rx_in + 1 = BUF_LEN THEN 0 ELSE rx_in + 1
      <4>1. rx_in + 1 <= BUF_LEN
        BY <2>2 DEF Slot
      <4> QED  BY <2>2, <4>1, RoundSlot DEF NextSlot
    <3> QED  BY <1>1, <2>2, <3>1, <3>2 DEF Slot
  <2> HIDE DEF l
  <2>5. b \in Byte /\ b \in Nat
    <3> HIDE DEF h
    <3>1. b \in Byte
      BY <2>2, PlusByte
    <3> QED  BY <3>1 DEF Byte
  <2> HIDE DEF b
  <2>6. Head(rfifo) = b /\ rfifo' = From(Plus(b, 1), l - 1) /\ Len(rfifo') = l - 1
    <3>1. Head(From(b, l)) = b /\ Tail(From(b, l)) = From(Plus(b, 1), l - 1)
      BY <2>2, <2>5, FromTail
    <3>2. l - 1 \in Nat /\ Plus(b, 1) \in Nat
      <4>1. Plus(b, 1) \in Byte
        BY <2>5, BytePlus
      <4> QED  BY <2>2, <4>1 DEF Byte
    <3>3. Len(From(Plus(b, 1), l - 1)) = l - 1
      BY <3>2, FromIs
    <3> QED  BY <2>1, <2>3, <3>1, <3>3
  <2>7. Holds(rx_buf', rx_in, rx_out, reads)
    <3>1. \A s \in Slot : s \notin rx_in..(rx_in + 1 - 1) => rx_buf'[s] = rx_buf[s]
      <4>1. rx_in \in rx_in..(rx_in + 1 - 1)
        BY <2>2 DEF Slot
      <4> QED  BY <2>1, <2>2, <4>1
    <3>2. InRing(rx_in, rx_out) + 1 < BUF_LEN /\ 1 \in Nat
      BY <2>4 DEF RxHeld
    <3> QED  BY <2>2, <2>3, <2>4, <3>1, <3>2, RingFill
  <2>8. InRing((rx_in + 1) % BUF_LEN, rx_out) = InRing(rx_in, rx_out) + 1
        /\ Holds(rx_buf', (rx_in + 1) % BUF_LEN, rx_out, reads)
    <3>1. \A k \in 1..1 : rx_buf'[rx_in + k - 1] = Plus(Plus(reads, InRing(rx_in, rx_out)), k - 1)
      <4>1. rx_buf'[rx_in] = b
        BY <2>1, <2>2, <2>6
      <4>2. Plus(b, 1 - 1) = b
        BY <2>5, PlusZero
      <4>3. rx_in + 1 - 1 = rx_in /\ \A k \in 1..1 : k = 1
        BY <2>2 DEF Slot
      <4> QED  BY <4>1, <4>2, <4>3 DEF b, RxHeld
    <3>2. InRing(rx_in, rx_out) + 1 < BUF_LEN /\ 1 \in Nat
      BY <2>4 DEF RxHeld
    <3> DEFINE new == rx_buf'
    <3>3. /\ Holds(new, rx_in, rx_out, reads)
          /\ \A k \in 1..1 : new[rx_in + k - 1] = Plus(Plus(reads, InRing(rx_in, rx_out)), k - 1)
      BY <2>7, <3>1
    <3> HIDE DEF new
    <3>4. InRing((rx_in + 1) % BUF_LEN, rx_out) = InRing(rx_in, rx_out) + 1
          /\ Holds(new, (rx_in + 1) % BUF_LEN, rx_out, reads)
      BY <2>2, <2>4, <3>2, <3>3, RingEnter
    <3> QED  BY <3>4 DEF new
  <2>9. RxHeld' = h + 1 /\ Holds(rx_buf, rx_in, rx_out, reads)'
    BY <1>1, <2>1, <2>8 DEF RxHeld, InRing, Holds
  <2> HIDE DEF h
  <2>10. Plus(b, 1) = Plus(reads, h + 1) /\ (h + 1) + (l - 1) = h + l
    <3>1. Plus(Plus(reads, h), 1) = Plus(reads, h + 1)
      BY <2>2, PlusPlus
    <3> QED  BY <2>2, <3>1 DEF b
  <2>11. rfifo' = From(Plus(reads', RxHeld'), Len(rfifo')) /\ sent' = Plus(reads', RxHeld' + Len(rfifo'))
    BY <1>1, <2>3, <2>6, <2>9, <2>10
  <2>12. Consuming'
    <3> SUFFICES ASSUME call.at = "r_publish"
                 PROVE  /\ Len(call.data) \in 1..RxHeld' /\ rx_out + Len(call.data) <= BUF_LEN
                        /\ call.data = From(reads, Len(call.data))
      BY <1>1 DEF Consuming, From
    <3>1. Len(call.data) \in 1..h /\ rx_out + Len(call.data) <= BUF_LEN
          /\ call.data = From(reads, Len(call.data))
      BY DEF InStream, Consuming, h
    <3> QED  BY <2>2, <2>9, <3>1
  <2>13. InMove
    <3>1. InLen' = InLen
      BY <2>2, <2>6, <2>9, <2>10 DEF InLen, h, l
    <3> QED  BY <1>1, <3>1 DEF InMove
  <2> QED  BY <2>9, <2>11, <2>12, <2>13 DEF InStream
<1> QED  BY <1>2, <1>3

\* read looks at the oldest bytes of the ring.
LEMMA InCopy ==
  ASSUME TypeOK, InStream, ReadCopy
  PROVE  InStream' /\ InMove
<1> DEFINE n == AtMost(ReadRoom, call.left)
           chunk == [k \in 1..n |-> rx_buf[rx_out + k - 1]]
<1>1. UNCHANGED <<rfifo, sent, rx_buf, rx_in, rx_out, reads>>
  BY DEF ReadCopy, device, host, rings
<1>2. InMove
  BY <1>1, InStill
<1>3. n \in Nat /\ n <= RxHeld /\ rx_out + n <= BUF_LEN /\ RxHeld \in Nat
      /\ rx_out \in Slot /\ reads \in Nat /\ call \in CallStates
  <2>1. ReadRoom \in Nat /\ ReadRoom <= RxHeld /\ rx_out + ReadRoom <= BUF_LEN /\ n \in 0..call.left
        /\ n <= ReadRoom /\ call.left \in Nat /\ rx_out \in Nat /\ RxHeld \in Nat
    BY Rooms, Sizes, Types DEF Slot
  <2> QED  BY <2>1, Sizes, Types, SMTT(40)
<1>4. CASE n > 0
  <2>1. call' = Holding(call, "r_publish", chunk) /\ "r_publish" \in Places
    BY <1>4 DEF ReadCopy, Holding, Places
  <2> HIDE DEF n
  <2>2. chunk = From(reads, n)
    <3>1. ASSUME NEW k \in 1..n PROVE rx_buf[rx_out + k - 1] = Plus(reads, k - 1)
      <4>1. k \in 1..InRing(rx_in, rx_out) /\ rx_out + k - 1 \in 0..(BUF_LEN - 1)
            /\ rx_out + k - 1 \in 0..(2 * BUF_LEN - 1)
        BY <1>3 DEF RxHeld, Slot
      <4>2. (rx_out + k - 1) % BUF_LEN = rx_out + k - 1
        BY <4>1, ModSlot
      <4>3. rx_buf[(rx_out + k - 1) % BUF_LEN] = Plus(reads, k - 1)
        BY <4>1 DEF InStream, Holds
      <4> QED  BY <4>2, <4>3
    <3> QED  BY <3>1 DEF From
  <2> HIDE DEF chunk
  <2>3. From(reads, n) \in Seq(Byte) /\ Len(From(reads, n)) = n
    BY <1>3, FromIs
  <2>4. call'.data = From(reads, n)
    BY <1>3, <2>1, <2>2, <2>3, CallHolds
  <2>5. Len(call'.data) = n /\ call'.data = From(reads', Len(call'.data)) /\ RxHeld' = RxHeld
    BY <1>1, <2>3, <2>4 DEF RxHeld, InRing
  <2>6. Consuming'
    <3>1. Len(call'.data) \in 1..RxHeld' /\ rx_out' + Len(call'.data) <= BUF_LEN
      BY <1>1, <1>3, <1>4, <2>5 DEF n
    <3>2. Consuming' = (call'.at = "r_publish" =>
            /\ Len(call'.data) \in 1..RxHeld' /\ rx_out' + Len(call'.data) <= BUF_LEN
            /\ call'.data = From(reads', Len(call'.data)))
      BY DEF Consuming, From, Plus, RxHeld, InRing
    <3> QED  BY <2>5, <3>1, <3>2
  <2> QED  BY <1>1, <1>2, <2>6 DEF InStream, Holds, RxHeld, InRing, From
<1>5. CASE ~(n > 0)
  <2>1. call'.at # "r_publish"
    <3>1. \/ Goto("r_kick") \/ Return
          \/ call' = Watching(call, "r_spin", rx_in)
      BY <1>5 DEF ReadCopy, Watching
    <3>2. Watching(call, "r_spin", rx_in).at = "r_spin" /\ "r_kick" \in Places
      <4>1. "r_kick" \in Places /\ "r_spin" \in Places
        BY DEF Places
      <4> QED  BY <1>3, <4>1, Types, CallWaits
    <3> QED  BY <3>1, <3>2, CallTypes DEF Return
  <2> QED  BY <1>1, <1>2, <2>1, InKept
<1> QED  BY <1>4, <1>5

\* And takes them.
LEMMA InPublish ==
  ASSUME TypeOK, InStream, ReadPublish
  PROVE  InStream' /\ InMove
<1> DEFINE n == Len(call.data)
           l == Len(rfifo)
           h == RxHeld
<1>1. UNCHANGED <<rfifo, sent, rx_buf, rx_in>> /\ rx_out' = (rx_out + n) % BUF_LEN
      /\ reads' = Plus(call.data[n], 1)
  BY DEF ReadPublish, device, host
<1>2. n \in 1..h /\ rx_out + n <= BUF_LEN /\ call.data = From(reads, n)
  BY DEF InStream, Consuming, ReadPublish, At
<1>3. n \in Nat /\ l \in Nat /\ h \in Nat /\ reads \in Nat /\ rx_in \in Slot /\ rx_out \in Slot
  BY Sizes, Types DEF CallStates
<1>4. rfifo = From(Plus(reads, h), l) /\ sent = Plus(reads, h + l)
      /\ Holds(rx_buf, rx_in, rx_out, reads)
  BY DEF InStream
<1>5. call'.at # "r_publish"
  BY SetAside DEF Working, ReadPublish, ReadCopy, At
<1> HIDE DEF n, l, h
<1>6. reads' = Plus(reads, n)
  <2>1. n \in 1..n /\ n - 1 \in Nat /\ (n - 1) + 1 = n
    BY <1>2, <1>3
  <2>2. call.data[n] = Plus(reads, n - 1)
    <3>1. From(reads, n)[n] = Plus(reads, n - 1)
      BY <1>3, <2>1, FromIs
    <3> QED  BY <1>2, <3>1
  <2>3. Plus(Plus(reads, n - 1), 1) = Plus(reads, (n - 1) + 1)
    BY <1>3, <2>1, PlusPlus
  <2> QED  BY <1>1, <2>1, <2>2, <2>3
<1>7. InRing(rx_in, (rx_out + n) % BUF_LEN) = InRing(rx_in, rx_out) - n
      /\ Holds(rx_buf, rx_in, (rx_out + n) % BUF_LEN, Plus(reads, n))
  <2>1. n <= InRing(rx_in, rx_out)
    BY <1>2, <1>3 DEF h, RxHeld
  <2> QED  BY <1>2, <1>3, <1>4, <2>1, RingLeave
<1>8. RxHeld' = h - n /\ Holds(rx_buf, rx_in, rx_out, reads)'
  BY <1>1, <1>6, <1>7 DEF RxHeld, InRing, Holds, h
<1>9. Plus(reads', h - n) = Plus(reads, h) /\ Plus(reads', (h - n) + l) = Plus(reads, h + l)
  <2>1. h - n \in Nat /\ (h - n) + l \in Nat /\ n + (h - n) = h /\ n + ((h - n) + l) = h + l
    BY <1>2, <1>3
  <2>2. Plus(Plus(reads, n), h - n) = Plus(reads, n + (h - n))
    BY <1>3, <2>1, PlusPlus
  <2>3. Plus(Plus(reads, n), (h - n) + l) = Plus(reads, n + ((h - n) + l))
    BY <1>3, <2>1, PlusPlus
  <2> QED  BY <1>6, <2>1, <2>2, <2>3
<1>10. rfifo' = From(Plus(reads', RxHeld'), Len(rfifo')) /\ sent' = Plus(reads', RxHeld' + Len(rfifo'))
  BY <1>1, <1>4, <1>8, <1>9 DEF l
<1>11. InMove
  <2>1. InLen' = InLen - n /\ n \in 1..InLen
    BY <1>1, <1>2, <1>3, <1>8 DEF InLen, h, l
  <2> QED  BY <1>6, <2>1 DEF InMove
<1> QED  BY <1>5, <1>8, <1>10, <1>11 DEF InStream, Consuming

-----------------------------------------------------------------------------
(***************************************************************************)
(* Every step.                                                             *)
(***************************************************************************)
LEMMA StreamInit == Init => StreamInv
<1> SUFFICES ASSUME Init PROVE StreamInv
  OBVIOUS
<1>1. TypeOK
  BY TypeInit
<1>2. InRing(0, 0) = 0
  <2>1. 0 \in Slot
    BY DEF Slot
  <2> QED  BY <2>1, InRingIs
<1>3. TxHeld = 0 /\ RxHeld = 0
  BY <1>2 DEF Init, TxHeld, RxHeld
<1>4. Plus(0, 0) = 0
  <2>1. 0 \in Byte
    BY DEF Byte
  <2> QED  BY <2>1, PlusZero
<1>5. \A b : From(b, 0) = <<>>
  BY DEF From
<1>6. call.at = "idle" /\ isr.space = 0
  <2>1. call.at = "idle"
    BY DEF Init, Idle
  <2>2. NoIsr.space = 0
    BY RoutineTypes DEF NoIsr, AtControl
  <2> QED  BY <2>1, <2>2 DEF Init
<1>7. OutStream
  BY <1>2, <1>3, <1>4, <1>5, <1>6 DEF Init, OutStream, Holds, Publishing, WSPACE
<1>8. InStream
  BY <1>2, <1>3, <1>4, <1>5, <1>6 DEF Init, InStream, Holds, Consuming
<1> QED  BY <1>1, <1>7, <1>8 DEF StreamInv

\* Types.
LEMMA TypeStep == ASSUME StreamInv, Next PROVE TypeOK'
<1>1. TypeOK
  BY DEF StreamInv
<1>2. CASE Working
  <2>1. CASE ReadPublish
    <3>1. Len(call.data) > 0
      BY <1>1, <2>1, Sizes, SMTT(40) DEF StreamInv, InStream, Consuming, ReadPublish, At
    <3> QED  BY <1>1, <2>1, <3>1, TypeReadPublish
  <2> QED
    BY <1>1, <1>2, <2>1, TypeWriteCopy, TypeWritePublish, TypeReadCopy, TypeMoves DEF Working
<1> QED  BY <1>1, <1>2, TypeHost, TypeIsr, TypeAlarm, TypeCalling DEF Next

\* The way out.
LEMMA OutStep == ASSUME StreamInv, Next PROVE OutStream' /\ OutMove
<1> USE DEF StreamInv
<1>1. CASE Host
  <2>1. CASE Take
    BY <1>1, <2>1, OutTake
  <2>2. CASE Plug \/ Send \/ Pause
    <3>1. UNCHANGED <<wfifo, got, tx_buf, tx_in, tx_out, wrote, isr, call>>
      BY <1>1, <2>2 DEF Host, Plug, Send, Pause, host, rings, program
    <3> QED  BY <3>1, OutKept, OutStill DEF OutStream
  <2> QED  BY <1>1, <2>1, <2>2 DEF Host, HostNext
<1>2. CASE HostCheck
  <2>1. UNCHANGED <<wfifo, got, tx_buf, tx_in, tx_out, wrote, isr, call>>
    BY <1>2 DEF HostCheck, IOWR_CONTROL_AC, device, host, rings, program
  <2> QED  BY <2>1, OutKept, OutStill DEF OutStream
<1>3. CASE Isr
  <2>1. CASE TransmitByte
    BY <2>1, OutTransmit
  <2>2. CASE ~TransmitByte
    <3>1. UNCHANGED <<wfifo, got, tx_buf, tx_in, tx_out, wrote, call>>
      BY <1>3, <2>2 DEF Isr, Interrupt, ReadControl, ReceiveByte, StopReceiving, StopTransmitting,
         Enable, IOWR_CONTROL, IORD_DATA, device, host, rings, program
    <3>2. isr.space <= WSPACE /\ WSPACE \in Nat /\ isr \in Routines
      BY Types, Sizes DEF OutStream, WSPACE
    <3>3. isr'.space <= WSPACE
      <4>1. CASE Interrupt \/ StopReceiving \/ StopTransmitting
        <5>1. isr' \in {AtControl, AfterRx}
          BY <4>1 DEF Interrupt, StopReceiving, StopTransmitting
        <5> QED  BY <3>2, <5>1, SpaceKept
      <4>2. CASE ReadControl
        <5>1. isr' = NoIsr \/ isr'.space = IF WI THEN WSPACE ELSE 0
          BY <4>2 DEF ReadControl
        <5> QED  BY <3>2, <5>1, SpaceKept
      <4>3. CASE ReceiveByte
        <5>1. isr' = AfterRx \/ \E n \in 0..FIFO_DEPTH : isr' = [isr EXCEPT !.avail = n]
          <6>1. RVALID => Len(rfifo) - 1 \in 0..FIFO_DEPTH
            BY Types DEF RVALID
          <6> QED  BY <4>3, <6>1 DEF ReceiveByte
        <5> QED  BY <3>2, <5>1, SpaceKept
      <4> QED  BY <1>3, <2>2, <4>1, <4>2, <4>3 DEF Isr
    <3> QED  BY <3>1, <3>3, OutKept, OutStill
  <2> QED  BY <2>1, <2>2
<1>4. CASE Working \/ Calling
  <2>1. CASE WriteCopy
    BY <2>1, OutCopy
  <2>2. CASE WritePublish
    BY <2>2, OutPublish
  <2>3. CASE ~WriteCopy /\ ~WritePublish
    <3>1. UNCHANGED <<wfifo, got, tx_buf, tx_in, tx_out, wrote, isr>>
      <4>1. CASE Working
        BY <2>3, <4>1 DEF Working, WriteKick, WriteSpin, WriteCheck, ReadCopy, ReadPublish, ReadKick,
           ReadSpin, ReadCheck, Close, Enable, IOWR_CONTROL, device, host, rings
      <4>2. CASE Calling
        BY <4>2 DEF Calling, Invoke, SetTimeout, device, host, rings
      <4> QED  BY <1>4, <4>1, <4>2
    <3>2. call'.at # "w_publish"
      BY <1>4, <2>3, SetAside
    <3> QED  BY <3>1, <3>2, OutKept, OutStill DEF OutStream
  <2> QED  BY <2>1, <2>2, <2>3
<1> QED  BY <1>1, <1>2, <1>3, <1>4 DEF Next

\* The way in.
LEMMA InStep == ASSUME StreamInv, Next PROVE InStream' /\ InMove
<1> USE DEF StreamInv
<1>1. CASE Host
  <2>1. CASE Send
    BY <1>1, <2>1, InSend
  <2>2. CASE Plug \/ Take \/ Pause
    <3>1. UNCHANGED <<rfifo, sent, rx_buf, rx_in, rx_out, reads, call>>
      BY <1>1, <2>2 DEF Host, Plug, Take, Pause, host, rings, program
    <3> QED  BY <3>1, InKept, InStill
  <2> QED  BY <1>1, <2>1, <2>2 DEF Host, HostNext
<1>2. CASE HostCheck
  <2>1. UNCHANGED <<rfifo, sent, rx_buf, rx_in, rx_out, reads, call>>
    BY <1>2 DEF HostCheck, IOWR_CONTROL_AC, device, host, rings, program
  <2> QED  BY <2>1, InKept, InStill
<1>3. CASE Isr
  <2>1. CASE ReceiveByte
    BY <2>1, InReceive
  <2>2. CASE ~ReceiveByte
    <3>1. UNCHANGED <<rfifo, sent, rx_buf, rx_in, rx_out, reads, call>>
      BY <1>3, <2>2 DEF Isr, Interrupt, ReadControl, TransmitByte, StopReceiving, StopTransmitting,
         Enable, IOWR_CONTROL, IOWR_DATA, device, host, rings, program
    <3> QED  BY <3>1, InKept, InStill
  <2> QED  BY <2>1, <2>2
<1>4. CASE Working \/ Calling
  <2>1. CASE ReadCopy
    BY <2>1, InCopy
  <2>2. CASE ReadPublish
    BY <2>2, InPublish
  <2>3. CASE ~ReadCopy /\ ~ReadPublish
    <3>1. UNCHANGED <<rfifo, sent, rx_buf, rx_in, rx_out, reads>>
      <4>1. CASE Working
        BY <2>3, <4>1 DEF Working, WriteCopy, WritePublish, WriteKick, WriteSpin, WriteCheck,
           ReadKick, ReadSpin, ReadCheck, Close, Enable, IOWR_CONTROL, device, host, rings
      <4>2. CASE Calling
        BY <4>2 DEF Calling, Invoke, SetTimeout, device, host, rings
      <4> QED  BY <1>4, <4>1, <4>2
    <3>2. call'.at # "r_publish"
      BY <1>4, <2>3, SetAside
    <3> QED  BY <3>1, <3>2, InKept, InStill
  <2> QED  BY <2>1, <2>2, <2>3
<1> QED  BY <1>1, <1>2, <1>3, <1>4 DEF Next

\* A step of nobody.
LEMMA StreamStutter == ASSUME StreamInv, UNCHANGED vars PROVE StreamInv'
<1>1. UNCHANGED <<wfifo, got, tx_buf, tx_in, tx_out, wrote, isr, call>>
      /\ UNCHANGED <<rfifo, sent, rx_buf, rx_in, rx_out, reads>>
  BY DEF vars, device, host, rings, program
<1>2. OutStream' /\ InStream'
  BY <1>1, OutKept, InKept DEF StreamInv, OutStream
<1>3. TypeOK'
  BY DEF StreamInv, vars, device, host, rings, watch, program, TypeOK, DeviceTypeOK
<1> QED  BY <1>2, <1>3 DEF StreamInv

\* The invariant.
LEMMA StreamAlways == Spec => []StreamInv
<1>1. StreamInv /\ [Next]_vars => StreamInv'
  <2>1. ASSUME StreamInv, Next PROVE StreamInv'
    BY <2>1, TypeStep, OutStep, InStep DEF StreamInv
  <2> QED  BY <2>1, StreamStutter
<1> QED  BY StreamInit, <1>1, PTL DEF Spec

-----------------------------------------------------------------------------
(***************************************************************************)
(* A direction is a bounded pipe: initial states and steps.                *)
(***************************************************************************)
LEMMA SameBytes ==
  /\ \A b, n : Output!ByteAt(b, n) = Plus(b, n) /\ Input!ByteAt(b, n) = Plus(b, n)
BY DEF Output!ByteAt, Input!ByteAt, Plus

\* Initial states are empty pipes.
LEMMA OutPipeInit == Init /\ OutFacts => Output!StreamInit
<1> SUFFICES ASSUME Init, OutFacts PROVE Output!StreamInit
  OBVIOUS
<1>1. TxRing = <<>>
  <2>1. 0 \in Slot /\ tx_in = 0 /\ tx_out = 0
    BY DEF Init, Slot
  <2>2. (0 + BUF_LEN - 0) % BUF_LEN = 0
    BY <2>1, InRingIs DEF InRing
  <2> QED  BY <2>1, <2>2 DEF TxRing, Ring
<1>2. wfifo \o TxRing = <<>>
  BY <1>1 DEF Init
<1> QED  BY <1>2 DEF Init, Output!StreamInit

LEMMA InPipeInit == Init /\ InFacts => Input!StreamInit
<1> SUFFICES ASSUME Init, InFacts PROVE Input!StreamInit
  OBVIOUS
<1>1. RxRing = <<>>
  <2>1. 0 \in Slot /\ rx_in = 0 /\ rx_out = 0
    BY DEF Init, Slot
  <2>2. (0 + BUF_LEN - 0) % BUF_LEN = 0
    BY <2>1, InRingIs DEF InRing
  <2> QED  BY <2>1, <2>2 DEF RxRing, Ring
<1>2. RxRing \o rfifo = <<>>
  BY <1>1 DEF Init
<1> QED  BY <1>2 DEF Init, Input!StreamInit

\* Of any pipe that holds the bytes between its ends: what enters, and what
\* leaves.
LEMMA PipeGrows ==
  ASSUME NEW o \in Byte, NEW m \in Nat, NEW n \in Nat
  PROVE  /\ From(o, m + n) = From(o, m) \o From(Plus(o, m), n)
         /\ Plus(o, m + n) = Plus(Plus(o, m), n)
         /\ Len(From(o, m)) = m
<1>1. o \in Nat  BY DEF Byte
<1>2. Len(From(o, m)) = m  BY <1>1, FromIs
<1> QED  BY <1>1, <1>2, StreamEnter, ZenonT(60)

LEMMA PipeShrinks ==
  ASSUME NEW o \in Byte, NEW m \in Nat, NEW n \in 1..m
  PROVE  /\ \A k \in 1..n : From(o, m)[k] = Plus(o, k - 1)
         /\ From(Plus(o, n), m - n) = SubSeq(From(o, m), n + 1, Len(From(o, m)))
         /\ Plus(Plus(o, n), m - n) = Plus(o, m)
         /\ Len(From(o, m)) = m
<1>1. o \in Nat /\ n \in Nat /\ n <= m /\ m - n \in Nat /\ n + (m - n) = m  BY DEF Byte
<1>2. Plus(Plus(o, n), m - n) = Plus(o, m)
  <2>1. Plus(Plus(o, n), m - n) = Plus(o, n + (m - n))
    BY <1>1, PlusPlus
  <2> QED  BY <1>1, <2>1
<1>3. /\ \A k \in 1..n : From(o, m)[k] = Plus(o, k - 1)
      /\ From(Plus(o, n), m - n) = SubSeq(From(o, m), n + 1, Len(From(o, m)))
      /\ Len(From(o, m)) = m
  BY <1>1, StreamLeave
<1> QED  BY <1>2, <1>3

\* A step of the driver is a step of the pipe out, or none ...
LEMMA OutPipeStep ==
  ASSUME OutFacts, OutFacts', OutMove
  PROVE  [Output!Enter \/ Output!Leave]_<<wfifo \o TxRing, wrote, got>>
<1> DEFINE pipe == wfifo \o TxRing
           m == OutLen
<1>1. pipe = From(got, m) /\ wrote = Plus(got, m) /\ m \in Nat /\ got \in Byte
  BY DEF OutFacts
<1>2. pipe' = From(got', m') /\ wrote' = Plus(got', m') /\ m' \in 0..(BUF_LEN - 1 + FIFO_DEPTH)
      /\ got' \in Byte
  BY DEF OutFacts, From, Plus, Byte
<1> SUFFICES Output!Enter \/ Output!Leave \/ UNCHANGED <<pipe, wrote, got>>
  OBVIOUS
<1>3. CASE got' = got /\ OutLen' = OutLen
  <2> HIDE DEF pipe, m
  <2> QED  BY <1>1, <1>2, <1>3 DEF m
<1>4. CASE got' = got /\ \E n \in Nat \ {0} : OutLen' = OutLen + n
  <2>1. PICK n \in Nat \ {0} : m' = m + n
    BY <1>4
  <2> HIDE DEF pipe, m
  <2>2. pipe' = pipe \o From(wrote, n) /\ wrote' = Plus(wrote, n) /\ Len(pipe) = m
    BY <1>1, <1>2, <1>4, <2>1, PipeGrows, ZenonT(60)
  <2>3. n \in 1..((BUF_LEN - 1 + FIFO_DEPTH) - Len(pipe))
    BY <1>1, <1>2, <2>1, <2>2
  <2>4. From(wrote, n) = [k \in 1..n |-> Output!ByteAt(wrote, k - 1)]
        /\ Plus(wrote, n) = Output!ByteAt(wrote, n)
    BY SameBytes DEF From
  <2>5. Output!Enter
    BY <1>4, <2>2, <2>3, <2>4 DEF Output!Enter, pipe
  <2> QED  BY <2>5
<1>5. CASE got' = Plus(got, 1) /\ OutLen' = OutLen - 1
  <2>1. m' = m - 1 /\ 1 \in 1..m
    BY <1>1, <1>2, <1>5
  <2> HIDE DEF pipe, m
  <2>2. /\ \A k \in 1..1 : pipe[k] = Plus(got, k - 1)
        /\ pipe' = SubSeq(pipe, 1 + 1, Len(pipe)) /\ wrote' = wrote /\ Len(pipe) = m
    BY <1>1, <1>2, <1>5, <2>1, PipeShrinks, ZenonT(60)
  <2>3. Output!Leave
    BY <1>5, <2>1, <2>2, SameBytes DEF Output!Leave, pipe
  <2> QED  BY <2>3
<1> QED  BY <1>3, <1>4, <1>5 DEF OutMove

\* ... and of the pipe in.
LEMMA InPipeStep ==
  ASSUME InFacts, InFacts', InMove
  PROVE  [Input!Enter \/ Input!Leave]_<<RxRing \o rfifo, sent, reads>>
<1> DEFINE pipe == RxRing \o rfifo
           m == InLen
<1>1. pipe = From(reads, m) /\ sent = Plus(reads, m) /\ m \in Nat /\ reads \in Byte
  BY DEF InFacts
<1>2. pipe' = From(reads', m') /\ sent' = Plus(reads', m') /\ m' \in 0..(BUF_LEN - 1 + FIFO_DEPTH)
      /\ reads' \in Byte
  BY DEF InFacts, From, Plus, Byte
<1> SUFFICES Input!Enter \/ Input!Leave \/ UNCHANGED <<pipe, sent, reads>>
  OBVIOUS
<1>3. CASE reads' = reads /\ InLen' = InLen
  <2> HIDE DEF pipe, m
  <2> QED  BY <1>1, <1>2, <1>3 DEF m
<1>4. CASE reads' = reads /\ InLen' = InLen + 1
  <2>1. m' = m + 1 /\ 1 \in Nat
    BY <1>4
  <2> HIDE DEF pipe, m
  <2>2. pipe' = pipe \o From(sent, 1) /\ sent' = Plus(sent, 1) /\ Len(pipe) = m
    BY <1>1, <1>2, <1>4, <2>1, PipeGrows, ZenonT(60)
  <2>3. 1 \in 1..((BUF_LEN - 1 + FIFO_DEPTH) - Len(pipe))
    BY <1>1, <1>2, <2>1, <2>2
  <2>4. From(sent, 1) = [k \in 1..1 |-> Input!ByteAt(sent, k - 1)]
        /\ Plus(sent, 1) = Input!ByteAt(sent, 1)
    BY SameBytes DEF From
  <2>5. Input!Enter
    BY <1>4, <2>2, <2>3, <2>4 DEF Input!Enter, pipe
  <2> QED  BY <2>5
<1>5. CASE \E n \in 1..InLen : reads' = Plus(reads, n) /\ InLen' = InLen - n
  <2>1. PICK n \in 1..m : reads' = Plus(reads, n) /\ m' = m - n
    BY <1>5
  <2> HIDE DEF pipe, m
  <2>2. /\ \A k \in 1..n : pipe[k] = Plus(reads, k - 1)
        /\ pipe' = SubSeq(pipe, n + 1, Len(pipe)) /\ sent' = sent /\ Len(pipe) = m
    BY <1>1, <1>2, <2>1, PipeShrinks, ZenonT(60)
  <2>3. Input!Leave
    BY <2>1, <2>2, SameBytes DEF Input!Leave, pipe
  <2> QED  BY <2>3
<1> QED  BY <1>3, <1>4, <1>5 DEF InMove

(***************************************************************************)
(* Types of the console of A: no interleaving of write, read, the routine, *)
(* the alarm and the host takes an index out of its ring, a count below 0  *)
(* or the FIFOs past their depth.                                          *)
(***************************************************************************)
THEOREM ConsoleTypes == Spec => []TypeOK
<1>1. StreamInv => TypeOK
  BY DEF StreamInv
<1> QED  BY StreamAlways, <1>1, PTL

(***************************************************************************)
(* Whatever the sizes of the rings (altera_avalon_jtag_uart.h) and FIFOs,  *)
(* however the routine and the program interleave: what is written comes   *)
(* out at the host, and what the host sends is read, each byte once and in *)
(* order, and nothing is dropped at a full ring or FIFO.                   *)
(***************************************************************************)
THEOREM ConsoleStreams == Spec => Streams
<1>1. StreamInv /\ [Next]_vars =>
        /\ OutMove \/ UNCHANGED <<wfifo \o TxRing, wrote, got>>
        /\ InMove \/ UNCHANGED <<RxRing \o rfifo, sent, reads>>
  <2>1. UNCHANGED vars => UNCHANGED <<wfifo \o TxRing, wrote, got>>
                          /\ UNCHANGED <<RxRing \o rfifo, sent, reads>>
    BY DEF vars, device, host, rings, program, TxRing, RxRing, Ring
  <2> QED  BY <2>1, OutStep, InStep
<1>2. OutFacts /\ OutFacts' /\ (OutMove \/ UNCHANGED <<wfifo \o TxRing, wrote, got>>)
        => [Output!Enter \/ Output!Leave]_<<wfifo \o TxRing, wrote, got>>
  BY OutPipeStep
<1>3. InFacts /\ InFacts' /\ (InMove \/ UNCHANGED <<RxRing \o rfifo, sent, reads>>)
        => [Input!Enter \/ Input!Leave]_<<RxRing \o rfifo, sent, reads>>
  BY InPipeStep
<1>4. Spec => OutputIsStream
  BY <1>1, <1>2, StreamAlways, OutPipe, OutPipeInit, PTL
     DEF Spec, OutputIsStream, Output!StreamSpec
<1>5. Spec => InputIsStream
  BY <1>1, <1>3, StreamAlways, InPipe, InPipeInit, PTL
     DEF Spec, InputIsStream, Input!StreamSpec
<1> QED  BY <1>4, <1>5 DEF Streams
=============================================================================
