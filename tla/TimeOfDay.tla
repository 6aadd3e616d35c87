----------------------------- MODULE TimeOfDay -----------------------------
(***************************************************************************)
(* settimeofday and gettimeofday of the HAL: the wall clock as an offset   *)
(* to the tick counter.  The offset's seconds and microseconds are set     *)
(* separately, each by a subtraction of 32-bit numbers that may borrow,    *)
(* and put together again when the time is read.                           *)
(***************************************************************************)
EXTENDS Integers

CONSTANTS
  U32,             (* 32-bit numbers count modulo U32.                     *)
  ALT_US,          (* Microseconds in a second.                            *)
  tick_rate,       (* Ticks in a second.                                   *)
  MaxTicks,        (* Ticks until the model's clock stops.                 *)
  MaxSec           (* The latest second the clock is set to.               *)

ClockAssumption ==
  /\ U32 \in Nat /\ U32 % 2 = 0
  /\ tick_rate \in Nat \ {0} /\ ALT_US \in Nat \ {0} /\ ALT_US % tick_rate = 0
  /\ 2 * ALT_US < U32 \div 2
  /\ MaxTicks \in 0..(U32 - 1)
  /\ MaxSec \in Nat /\ MaxSec + U32 \div tick_rate < U32 \div 2

VARIABLES
  nticks, alt_resettime,
  wall,            (* history: microseconds the wall clock should show     *)
  fresh            (* history: the clock has just been set                 *)

vars == <<nticks, alt_resettime, wall, fresh>>

\* An alt_u32, and what is stored in a long.
U(x) == x % U32
S(x) == IF U(x) >= U32 \div 2 THEN U(x) - U32 ELSE U(x)

Time == [tv_sec : Int, tv_usec : Int]
TickUs == ALT_US \div tick_rate

\* The microseconds of a tick count, as settimeofday computes them in 32
\* bits, and gettimeofday in 64.
Micros32(n) == U(n * TickUs) % ALT_US
Micros64(n) == (n * TickUs) % ALT_US

\* The loops that bring tv_usec into a second.
\* Mutant: a negative number of microseconds is left.
Borrow_None(t) == t
Borrow(t) ==
  IF t.tv_usec >= 0 THEN t
  ELSE IF t.tv_sec <= 0 THEN [tv_sec |-> 0, tv_usec |-> 0]
  ELSE [tv_sec |-> t.tv_sec - 1, tv_usec |-> t.tv_usec + ALT_US]
Carry(t) ==
  IF t.tv_usec < ALT_US THEN t ELSE [tv_sec |-> t.tv_sec + 1, tv_usec |-> t.tv_usec - ALT_US]

gettimeofday ==
  Carry(Borrow([tv_sec  |-> S(alt_resettime.tv_sec + nticks \div tick_rate),
                tv_usec |-> S(alt_resettime.tv_usec + Micros64(nticks))]))

settimeofday(t) ==
  /\ alt_resettime' = [tv_sec  |-> S(t.tv_sec - nticks \div tick_rate),
                       tv_usec |-> S(t.tv_usec - Micros32(nticks))]
  /\ wall' = t.tv_sec * ALT_US + t.tv_usec
  /\ fresh' = TRUE
  /\ UNCHANGED nticks

Tick ==
  /\ nticks < MaxTicks
  /\ nticks' = nticks + 1 /\ wall' = wall + TickUs /\ fresh' = FALSE
  /\ UNCHANGED alt_resettime

Init ==
  /\ nticks = 0 /\ alt_resettime = [tv_sec |-> 0, tv_usec |-> 0]
  /\ wall = 0 /\ fresh = FALSE

Next == \/ Tick
        \/ \E sec \in 0..MaxSec, usec \in 0..(ALT_US - 1) :
             settimeofday([tv_sec |-> sec, tv_usec |-> usec])
Spec == Init /\ [][Next]_vars

-----------------------------------------------------------------------------
\* The parts of the offset are small enough for a sum not to overflow.
TypeOK ==
  /\ nticks \in 0..MaxTicks /\ alt_resettime \in Time
  /\ alt_resettime.tv_usec \in (1 - ALT_US)..(ALT_US - 1)
  /\ wall \in Nat /\ fresh \in BOOLEAN

Shows(t) == gettimeofday = [tv_sec |-> t \div ALT_US, tv_usec |-> t % ALT_US]

\* However often the clock is set, and whichever of the parts borrows or
\* carries, gettimeofday shows the time set and the ticks since.
WallClock == Shows(wall)

\* alt_settod.c:61-63: "an immediate call to gettimeofday() would return the
\* value specified by "t" and "tz"".
JustSet == fresh => Shows(wall)
=============================================================================
