------------------------------ MODULE Support ------------------------------
(***************************************************************************)
(* The support code in which calls follow one another, and two parts of    *)
(* the hardware.  These parts do not talk to one another: a behaviour runs *)
(* one of them, part, from its start, and the others keep still.  The heap *)
(* has the variables and constants of Sbrk, the others their own.          *)
(***************************************************************************)
EXTENDS Sbrk, FiniteSets

Parts == {"heap", "files", "clock", "sleep", "cache", "addresses", "oscillator"}
VARIABLE part      \* the part that runs

CONSTANT ALT_MAX_FD
VARIABLES alt_fd_list, alt_max_fd, redirected, held, result
fileVars == <<alt_fd_list, alt_max_fd, redirected, held, result>>
Files == INSTANCE FileDescriptors

CONSTANTS U32, ALT_US, tick_rate, MaxTicks, MaxSec
VARIABLES ticks, alt_resettime, wall, fresh
clockVars == <<ticks, alt_resettime, wall, fresh>>
Clock == INSTANCE TimeOfDay WITH nticks <- ticks

CONSTANTS SleepU32, CyclesPerUs, cycles_per_loop
VARIABLES sleep_asked, us, big_loops, at, spent
sleepVars == <<sleep_asked, us, big_loops, at, spent>>
Sleep == INSTANCE BusySleep WITH asked <- sleep_asked, U32 <- SleepU32

CONSTANTS Line, Sets, Top, Lengths, DropsAnywhere
VARIABLES cache, dirty, staleLine, staleMem, uncached, flush, handed
cacheVars == <<cache, dirty, staleLine, staleMem, uncached, flush, handed>>
Cache == INSTANCE DataCache WITH blocks <- uncached

VARIABLES master, transfer, reached
addressVars == <<master, transfer, reached>>
Addresses == INSTANCE AddressMap

CONSTANTS OSC_CNT, CNT_WIDTH, Undriven, MaxFalls
VARIABLES enable, reset, osc_out, count, clocked, monitor_count, falls
oscillatorVars == <<enable, reset, osc_out, count, clocked, monitor_count, falls>>
Oscillator == INSTANCE RingOscillator

ASSUME SupportAssumption ==
  /\ Files!PoolAssumption /\ Clock!ClockAssumption /\ Sleep!SleepAssumption
  /\ Cache!CacheAssumption /\ Oscillator!OscillatorAssumption

-----------------------------------------------------------------------------
heapVars == vars
supportVars == <<part, heapVars, fileVars, clockVars, sleepVars, cacheVars, addressVars, oscillatorVars>>

\* A step of part p.
In(p) ==
  /\ part = p /\ UNCHANGED part
  /\ p # "heap" => UNCHANGED heapVars
  /\ p # "files" => UNCHANGED fileVars
  /\ p # "clock" => UNCHANGED clockVars
  /\ p # "sleep" => UNCHANGED sleepVars
  /\ p # "cache" => UNCHANGED cacheVars
  /\ p # "addresses" => UNCHANGED addressVars
  /\ p # "oscillator" => UNCHANGED oscillatorVars

\* Of the several starts of a part one will do when another part runs.
SupportInit ==
  /\ part \in Parts
  /\ Init /\ Files!Init /\ Clock!Init /\ Sleep!Init /\ Cache!Init /\ Addresses!Init
  /\ Oscillator!Init
  /\ part # "sleep" => sleep_asked = 0
  /\ part # "addresses" => master = "A"

\* Bound: at most one descriptor is non-blocking.
Files_Next ==
  /\ Files!Next
  /\ Cardinality({fd \in Files!Descriptor : alt_fd_list'[fd].nonblock}) <= 1

SupportNext ==
  \/ In("heap") /\ Next
  \/ In("files") /\ Files_Next
  \/ In("clock") /\ Clock!Next
  \/ In("sleep") /\ Sleep!Next
  \/ In("cache") /\ Cache!Next
  \/ In("addresses") /\ Addresses!Next
  \/ In("oscillator") /\ Oscillator!Next
SupportSpec == SupportInit /\ [][SupportNext]_supportVars

-----------------------------------------------------------------------------
(***************************************************************************)
(* Properties: those of the parts, where their modules explain them.       *)
(***************************************************************************)

\* No part leaves its types: no end of the heap past the last word, no
\* descriptor with a device it was not given, no offset of the clock out of its
\* range, no stale line that the cache does not hold, no count left under reset.
SupportTypeOK ==
  TypeOK /\ Files!TypeOK /\ Clock!TypeOK /\ Sleep!TypeOK /\ Cache!TypeOK /\ Oscillator!TypeOK

\* Heap: what sbrk gives, to whoever breaks into whose call, never overlaps and
\* lies in the heap.
HeapSound == Disjoint /\ InHeap

\* Files: descriptors neither change meaning nor leak, all in use are below the
\* mark, and what a granted lock keeps out stays out.
DescriptorsSound ==
  [](Files!KeepsMeaning /\ Files!NoLeak /\ Files!MarkAbove) /\ Files!LockedOut

\* Time: the clock shows the time set and the ticks since; a sleep is short by less
\* than a loop for each microsecond.
TimeKept == Clock!WallClock /\ Sleep!NotMuchShorter

\* Cache: loads find the last store, and a flushed region is in the memory.
MemoryCurrent == Cache!Coherent /\ Cache!HandedOver

\* Addresses: system.h is what the decoders do, and no device has two names.
AddressesAgree ==
  part = "addresses" => Addresses!DeclaredReached /\ Addresses!NoAlias

\* Oscillator: counters and carries hold the falls of the rings since the last clear.
CountsExact == Oscillator!CountsExact
=============================================================================
