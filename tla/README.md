# A specification of the AES accelerator, its driver and what they run on

The repository is a DE-series FPGA project. A Nios II processor ("Nios2_A")
encrypts a message in C and has it decrypted by an AES-128 core written in
(System)Verilog, which it drives through sixteen memory-mapped registers. Beside
it are a second processor ("Nios2_B", which prints a line) with a ring-oscillator
monitor on its bus, the board support packages (BSPs) that both programs are
linked with, a power virus, and a good deal of generated material.

The project models two things: the path a message takes (the C program, the bus
registers, the core clock by clock, the bytes that both ends compute), and the
support code it runs on, wherever that keeps state that an order of steps could
spoil (console driver, interrupts, alarms, descriptors, time, heap, cache).

## 1. Inventory

Paths of the support code are below `software/Nios2_A_bsp/`, for processor A.

| Part | Source | State | Operations | Module |
|---|---|---|---|---|
| AES decryption core | `AES.sv`, `control.sv`, `counters.sv`, `mux.sv`, `SR_128b.v`, `AddRoundKey.sv` | state machine, four counters, message register, registers of S-box, columns and key schedule | one clock: the action of the current state | `AesCore` |
| Its datapath | `SubBytes.v`, `InvShiftRows.v`, `InvMixColumns.v`, `KeyExpansion.v` | ROM output registers (timed in `AesCore`) | one function of a block each | `AesDatapath` |
| Avalon-MM interface | `avalon_aes_interface.sv` | `reg_sys[0..15]` | one clock: a write or none, RESET, arrival of DONE | `AvalonAes`, `AesSystem` |
| Software encryption | `software/Nios2_A/hello_world.c`, `aes.h` | the locals of `encrypt` | convert, keyExpansion, rounds, pack | `SoftwareAes` |
| Driver program | `software/Nios2_A/hello_world.c` | program counter, locals of `main` and `decrypt` | one bus transfer or console call a step | `NiosAes`, `NiosSystem` |
| Subsystem of Nios II A | `unsaved/...`, `system.h` | data cache, reset network, memory map | a transfer; load, store, eviction | `AddressMap`, `CachedAes`, `NiosAes` |
| Console of A | `drivers/src/altera_avalon_jtag_uart_*.c`, the JTAG UART | device FIFOs and enables, two rings, host watch | write, read, close, ioctl; interrupt routine; alarm; host | `JtagUart`, `JtagUartDriver` |
| Console of B | the small driver in `Nios2_B_bsp` | device FIFOs | write, read | `JtagUartPolled` |
| Tick and alarms | `alt_tick.c`, `alt_alarm_start.c`, `alt_llist.h` | tick counter, linked list of alarms | tick, callback, start, stop | `Alarms` |
| Interrupt layer, system clock | `alt_irq_handler.c`, `alt_iic*.c`, `alt_legacy_irq.h`, `altera_avalon_timer_sc.c` | status.PIE, ienable, the table of routines, the timer | dispatch, register, enable, lock, clear | `Interrupts` |
| File descriptors | `alt_open.c` ... `alt_fd_lock.c`, `alt_io_redirect.c` | pool, high-water mark, flags | open, close, read, write, ioctl, fcntl, lock, unlock | `FileDescriptors` |
| Wall clock | `alt_gettod.c`, `alt_settod.c` | offset to the ticks | get, set | `TimeOfDay` |
| Busy sleep | `alt_busy_sleep.c` | loop counters | sleep | `BusySleep` |
| Heap | `alt_sbrk.c` | `heap_end` | sbrk, also from a routine | `Sbrk` |
| Data cache | `alt_dcache_flush*.c`, `alt_uncached_malloc.c`, ... | tags, dirty bits, uncached blocks | load, store, flush, drop, malloc, free | `DataCache` |
| Profiler | `alt_mcount.S`, `alt_gmon.c` | functions and arcs in lists | mcount, also from a routine | `Profiling` |
| Ring oscillator | `ring_osc_top.v`, `RO_counter.v`, `adder_tree.v`, ... | ripple counters, the sample | oscillate, carry, clear, sample | `RingOscillator` |
| Older register file, alternative control unit | `reg_file.v`, `aes.v`, `controlUnit.v` | | | not modelled |
| Power virus, HEX decoder, board top | `power_virus.v`, `hexdriver.v`, `Homework4.v` | | | not modelled |
| Start-up, exceptions, rest of the BSPs, generated code | `alt_main.c`, `alt_log_printf.c`, ... | | | not modelled |

How they interact. `main` writes key (registers 0-3), cipher text (4-7) and START
(14); the interface wires those registers straight to the core's inputs, with no
copy; the core, in `finished`, raises DONE, and the interface stores the result
(8-11) and all ones in register 15 at every clock for which DONE is up; `decrypt`
polls register 15, reads 8-11 and writes START low. Nothing but RESET lowers
register 15, and RESET comes from the debugger only. `printf` and `scanf` reach
the console through the descriptors; the console driver is written to by its
interrupt routine, which the interrupt layer dispatches, and by an alarm, which
the routine of the system clock calls. Otherwise the parts of the support code
share nothing but the lock on interrupts, which each of their models has as what
may come between its steps.

What is hard here:

* Units that answer late. The S-box ROMs latch on the falling edge, the key
  schedule takes ten falling edges and has no "ready", inverse MixColumns is
  put together a word per rising edge. The control unit only counts clocks.
* Nothing but the state is reset. After RESET or an early start the counters
  and unit registers hold whatever an interrupted run left.
* Shared registers. The bus may rewrite key, message and START while a run uses
  them; a write and a result can come in the same clock, and so can RESET.
* A handshake on levels. START is a level that both starts a run and
  acknowledges the last; DONE is sticky. Which result does a poll see?
* Two independent implementations of one cipher, in C and Verilog, each with its
  own tables, byte order and index arithmetic, that must be inverses.
* Rings shared by a program and an interrupt routine without a lock, and one
  register of enables that four of them rewrite: a wake-up can be lost.
* A host that goes away, comes back, or takes bytes late; calls that give up.
* Lists that callbacks and routines change while somebody walks them.
* Counters at their width: ticks, microseconds, loops, profile counts.
* Writes that are posted, lines that stay in the cache: a device that does not yet
  know what the program has told it.

For each of these PROJECT.json's `hazards` names the line and the properties.

What makes each part correct:

* Core: a run with steady inputs yields the decryption of them; it ends; it is
  never a mixture of blocks; it takes and releases a job on START as promised.
* Registers: what they publish is one whole result of one job; no result is lost.
* Driver: what is printed is the answer to what was typed; `decrypt` returns, and
  waits for a run of the hardware.
* Bytes: `encrypt` is AES-128, and the datapath is its inverse.
* Console: a bounded pipe each way, nobody asleep over bytes, calls come back.
* Alarms and interrupts: called when due and only then, once for each cause, whole,
  not nested, none starved.
* Descriptors: none leaks or changes its meaning; a lock excludes.
* Heap, cache, clock: blocks disjoint and within the heap; a load finds the last
  store; the time shown is the time set and the ticks since; a sleep is about as long as asked.
* Ring oscillator: the counters hold the falls since the last clear, and no others.

## 2. Modules

    AesDevice      what a core promises           GF256      FIPS 197, by definition
     ^      ^                                     AesTables  the look-up tables
     |      |                                       |
     |   AvalonAes  <------- NiosAes              SoftwareAes   encrypt
     |      ^                                       |
    AesCore |                                       |
     | ^    |                                       |
     | AesSystem   both of them, clocked            |
     |      ^                                       |
     | NiosSystem  and NiosAes on top of them       |
     |                                              |
    InverseCipher  <-----------------------------  AesDatapath  the core's units
       (the order of the operations)

    ByteStream      a bounded pipe of bytes        the other parts, one module each:
       ^        ^                                  Alarms  Interrupts  Profiling
    JtagUartDriver JtagUartPolled                  CachedAes            (in Runtime)
       |        |                                  Sbrk  FileDescriptors  TimeOfDay
       JtagUart   the device                       BusySleep  DataCache  AddressMap
                                                   RingOscillator       (in Support)

**AesCore** -- one action per state of `control_unit` (`control.sv`); every action
ends in `Edge`, one period of the clock: counters (add wins over clear),
message register, column registers at the rising edge, then S-box and key
schedule at the falling edge. Data is symbolic: a 128-bit value is the message it
came from and the sequence of operations applied since. `Unknown` is anything
else: a cleared register, a round key not yet settled, columns of different
blocks. The inputs RESET, START, key and message are free at every clock.
`sub[i]` stands for the register in the i-th `KeyExpansionOne`'s four S-boxes: it is
right when it latched with the stages before it right. The history variables
`run` and `held` say which inputs a run started with and whether they stayed
(the message until it is loaded, the key to the end).

**AesDevice** -- the same core to its user: four phases, a job, a result. An
outcome is promised only if the inputs were held. `AesCore` implements it with
`phase <- Phase`, `job <- run`, `result <- cur_msg`; `AvalonAes` and `NiosAes` use it.

**AvalonAes** -- the `always_ff` block over `reg_sys`, statement order included
(the assignments for DONE stand outside the reset's `else` and win), the wires
from registers to the core, and an instance of AesDevice as the core. `Outcome` is what
a run of the core can end in, `Decrypt` what it should, `Garbage` what the result wires
carry until then. A 128-bit result in four registers is four `Part`s of it, so that
mixtures are seen. `origin` (history) says for which job registers 8-11 were loaded.

**AesSystem** -- the same registers with the clocked core in them: `AesCore` with its
START, key and message on the wires of `AvalonAes`. Its steps are the clocks of both at
once. It implements `AvalonAes` with `phase <- Core!Phase`, `job <- run` and, for
`result`, the message register where the registers can see it: while DONE is up.

**NiosAes** -- `main` and `decrypt` over `AvalonAes`, one bus transfer per step; the
hardware also makes steps of its own (`Compute`). `encrypt` is taken by what it leaves
(`Inputs`). `Restart` is a reset of the board: the program begins again with the AES
slave untouched, because `unsaved_Nios2_A.v` wires the slave's RESET to the
processor's debug reset. The console (`printf`, `scanf`) is external. The actions of the
program (`Moves`, `Rests`) and the transfer each makes (`BusWrite`) are kept apart from the
clock of the slave, so that the same program runs over another slave.

**NiosSystem** -- that program over `AesSystem`: `main` and `decrypt`, registers and clocked
control unit, one clock a step. The console is measured in clocks: `since` is how many a call
has lasted, and a slow console is one whose calls last `CallTime` = 2 * 113 + 3 of them.
It implements `NiosAes` (`ImplementsProgram`), with the phases of the control unit for those of
`AesDevice`. So what `NiosAes` assumes of core and console, that the core is an `AesDevice` and
that a slow call outlasts a run begun after it, is here a property of the circuit and a number.

**GF256** -- GF(2^8) by polynomials, the S-box by inverse and affine map, the
rounds of FIPS 197. It is the reference; nothing in it is the program's.
**AesTables** -- `aes_sbox`, the columns of `gf_mul` that are read, both ROMs.
**SoftwareAes** -- `encrypt`, from the characters to the packed words: one step for
the conversion, one per word of the key schedule, one per round.
**InverseCipher** -- the forty operations in order: what `AesCore` must carry out, and
what `AesDatapath` gives meaning on bytes.
**AesDatapath** -- the bytes: starts from the words `encrypt` left, computes the
key schedule a stage at a time and applies the forty operations. Doubling and
round constants are parameters, because the coded ones are wrong (see Findings).

Together `AesCore` (right operations, right order, right time) and `AesDatapath`
(each operation right on bytes) say that the core decrypts -- up to the two
findings in its datapath.

**JtagUart** -- the device: two FIFOs, CONTROL with its enables, the pause timer that
asks for an interrupt below the receive threshold, the activity bit, and the host,
which plugs, unplugs, takes and sends. Bytes are numbered in the order they were put
in (modulo `Period`, more than fit into ring and FIFO), so that a byte lost, repeated
or out of order shows.
**JtagUartDriver** -- the driver of A. A step of the program or of the routine is what
no interrupt, scan or alarm can come in the middle of with effect: `WriteCopy` fills
slots nobody looks at, `WritePublish` moves `tx_in`, `WriteKick` is the part of write
that runs with interrupts off. The routine starts between any two steps of the
program. `HostCheck` is the alarm. BSP A is built single-threaded: the semaphores are
empty macros, and there is one call at a time.
**ByteStream** -- what a console promises: bytes come out in the order they went in,
each once, with at most `Capacity` on the way. Both drivers implement it in both
directions (`Output`, `Input`: the pipe is ring and FIFO together).
**JtagUartPolled** -- the driver of B: one byte, one look at CONTROL at a time.
**Alarms** -- the list with its links, so that a pass of `alt_tick` over a list that is
being changed is a pass over those links; the counter wraps at `Wrap`. `left` (history)
counts the ticks an alarm has still to wait.
**Interrupts** -- a stack of frames (program, dispatcher, routine), one step for each
access that matters: the read of ipending, the search, the load and store of
`alt_irq_active`, the two stores into the table. The timer's clear is `posted` and
arrives later; the dummy read after it waits for it.
**FileDescriptors** -- the pool, `alt_max_fd` and the flags. `held` (history) is what the
program opened each descriptor as.
**TimeOfDay**, **BusySleep** -- the arithmetic at word sizes that are parameters. A sleep
is measured in cycles: `CyclesPerUs` are asked for each microsecond, `cycles_per_loop` go
by in each loop, and `PerUs`, rounded down as in the code, are the loops counted.
**Sbrk** -- sbrk of the program and of a routine that breaks into it, step by step.
**DataCache** -- a direct-mapped write-back cache as tags and dirty bits; instead of
values, which copy of a unit of memory is stale. The flush routines are loops of steps.
**CachedAes** -- the poll of DONE through such a cache: register 14 (START) and 15
(DONE) are in one line.
**AddressMap** -- both decoders, in the order of their `if`s, and both `system.h`.
**Profiling** -- mcount as run by the program and by a routine that breaks into it.
**RingOscillator** -- rings, ripple stages whose carry arrives a step later, the
asynchronous clear, and the sample at the fall of enable. The adder tree between counters
and sample does not drive its output, so the sample is any of `Undriven`, and the property
is about the counters. `falls` (history) is what each ring did since its last clear.

**Runtime**, **Support** -- several parts each that do not talk to one another: the
variable `part` says which one a behaviour is about, the others keep still, so that the
state space is the sum of the parts' and not the product. `Runtime` has those in which
something comes in between, `Support` those in which calls follow one another. Their
constants are those of the parts; `Runtime.cfg` and `Support.cfg` give the sizes.

The MC modules hold what is only for TLC. `MCConsole` runs `JtagUartDriver` in three
scripts (below).

## 3. Runs

| Run | Question | Instance |
|---|---|---|
| `core` | Does every run of the core, under any change of inputs at any clock, give the decryption, whole blocks, and end, 113 clocks after it began, also when it follows a run that RESET cut short? Does the core implement AesDevice? Is `Inv` an invariant? | 2 keys, 2 messages, at most 2 changes of the inputs; 5 if key and message stay |
| `registers` | With the clocked core behind them, do the registers publish whole results of one job and lose none? Does a master that keeps START up get its result, and does the core come to rest when START goes down? Do registers and core together implement `AvalonAes`? | `AesSystem`: 3 words, 5 registers (one per role), 4 events, of which a write is one and a RESET two |
| `driver_test` | Does the test loop print the right answer every time, and does `decrypt` return? Is DONE enough for the first job, with any console, in either mode? | 2 inputs, 2 jobs (1 with a fast console), 1 reset of the board, 2 calls of the benchmark |
| `whole_system` | Over the clocked core, is a console call of 229 clocks what `NiosAes` calls a slow one, is every clock one that `NiosAes` allows, and does `decrypt` return? That the answers are right follows (section 5). | `NiosSystem`: test loop, 2 inputs, 2 jobs, 1 reset of the board while `decrypt` waits |
| `bench_hardware` | "Perform AES decryption in hardware" | benchmark of 3 calls; violated |
| `datapath` | Is `encrypt` AES, and are the core's operations its inverse? | 18 inputs |
| `xtime` | "Inverse MixColumns transformation" | `Doubling <- xtime`; violated |
| `rcon` | "Rcon table" | `RoundConstants <- RconWire`; violated |
| `console` | Is the console of A a bounded pipe each way, is neither interrupt left off with work to do, do calls come back, is what was accepted delivered? | FIFOs of 2, rings of 3, calls of up to 3 bytes, timeout of 2 or 3 seconds |
| `runtime` | What may come in between: polling of console B, alarms and callbacks, interrupts at any instruction, the cache before DONE, mcount in mcount | below |
| `support` | Sequences of calls: heap, descriptors, clock, sleep, cache, decoders, oscillator | below |
| `aes_pointer` | "make sure it matches Qsys" | all addresses at a boundary; violated |

A property of `runtime` and `support` that is named for a whole part is the conjunction
of that part's properties (as are `StartGoverns` and `NeitherAsleep`), which its module
states and explains one by one: `HeapSound` (`Disjoint`, `InHeap`), `AlarmsOnTime`
(`ListIntact`, `OnTime`), `InterruptsSafe` (`NotNested`, `AlwaysFound`, `RoutineWhole`,
`EnabledAsAsked`, `CountedOnce`), `CallsReturn`, `NothingForgotten`, `DescriptorsSound`
(`KeepsMeaning`, `NoLeak`, `MarkAbove`, `LockedOut`), `MemoryCurrent`,
`AddressesAgree`. `TimeKept` is `WallClock` and `NotMuchShorter`. Each conjunct has a mutant of the code that breaks it.

### Bounds, and why they are enough

* `MaxChanges`, `MaxControls`: start needs one change of the inputs and a disturbance in
  the run another, at any of the run's clocks; that is every single disturbance, and
  every pair of changes. Reset of a first run and a start of a second need
  start, reset up, reset down with whatever start, which five changes give. The
  theorems hold without a bound.
* Two keys and two messages: a wrong term is one of *another* key or message.
* `MaxEvents`, `MaxResets`, `WriteAddr`: a start, a stop and two writes that
  disturb, or two writes and a RESET, each at any clock of the core; registers 0, 4, 9, 14,
  15 are one of each role, and words other than the first of a block behave as it does. Words: zero, all ones, and one even other.
* `MaxJobs`, `MaxRestarts`: the second job is the one that can see the first one's
  DONE; a restart can fall at any step of either. The two inputs differ in every
  word, so any mixture of two answers is neither. `BenchCalls` (128 in the code)
  is 2 or 3: the third call begins as the second does. A restart before the first
  START costs none of the bound on jobs.
* `whole_system`: the board is reset while `decrypt` waits, so that the next job's console call
  finds the core at any clock of a run: after the end of that one comes a whole second run.
  This is the longest wait, and `CallTime` is exact: with one clock less
  `CallsOutlastRuns` fails in this instance. The theorems have any inputs, modes, jobs and resets.
* Datapath: the sixteen messages under key 0 send every byte value through the
  S-box in the first round; the others are the benchmark's input and FIPS 197 C.1,
  whose cipher text is compared with the one published. Each letter case of the
  text is tried.
* Console: a ring of 3 slots wraps, fills and has each of the three cases of
  `WriteRoom`; a FIFO of 2 can be empty, half full and full; 3 bytes are more than a
  ring holds. `Period` 6 is more than ring and FIFO hold together, so that no lost or
  repeated byte hides behind a wrap. The scripts: writing and closing (at most 2
  bytes a call) while the host comes and goes; reading; and both, with a host that is
  there and `MaxSent` bytes each way, which shows that neither direction disturbs the
  other through the shared enables.
* Alarms: three of them (one before and one after the one being called), a counter
  that wraps at 4, delays up to 2.
* Interrupts: two sources, the timer and one of lower priority, and two routines.
* Profiler: two functions, two call sites, two calls in each context.
* Descriptors: five (three streams and two of the program's), at most one of them
  non-blocking. Heap: fifteen bytes from an address off a word, increments below, at and
  above a word. Clock: 64 ticks of 3 in 6 microsecond-like units, set at any of them.
  Sleep: every argument of an 8-bit word, at 50 cycles a microsecond and three a loop, which
  are the code's. Cache: two lines of two units over eight.
  Decoders: both sides of every boundary. Oscillator: two rings of two bits, up to five falls between clears, one more than
  a turn, so that a carry also runs out of the last stage; two words for the undriven net.

### Fairness

The clock does not stop: `WF(Next)` on `AesSystem` (`MCSpec` has it on the bounded step),
where this is the only fairness: that a run ends (`StartGoverns`) comes of the counters
of the control unit. `AesDevice` alone could stay in a phase for ever, so `NiosAes` over it assumes that loading becomes
busy and busy becomes done: of `AesCore` this is `RunsOnTime`. The
processor executes: weak fairness on the program's clocks (`ProgramClock`). `NiosSystem` needs
that and the clock, and nothing of phases: there the core's part is its counters. No
fairness is assumed of the bus master, of RESET, or of input changes.

Support code: the processor goes on with a routine that runs, and with the program when
none does (`Isr`, `Working`, `Pass`, `Callback`, `Dispatching`, ...); the timer goes on
ticking (`Tick`, `HostCheck`); a posted write arrives (`Deliver`); the device's pause
ends (`Pause`); a host that is plugged in takes what it is sent (`Take`). Nothing
obliges a host to be there, to send (console A), a program to call, an
interrupt to come, or a cache to evict: `NothingForgotten` has the eviction as a
hypothesis of its third part.

`slow_console`: a line through the JTAG UART takes far longer than the 229 clocks of
50 MHz, five microseconds, that `NiosSystem` shows to be enough. The test loop's answers depend on
it: START is still high when the next input is stored, or the previous DONE is
still up, and it is the `printf` between START and `decrypt` (hello_world.c:465) that
gives the core time. The mutant `ConsoleCall_Scan` shows the dependence. The second half
of `AnswerCorrect`, on the first job, does without the assumption.

## 4. Findings

1. `decrypt` in the benchmark does not run the hardware after the first call: DONE is
   never cleared and START is written once before 128 calls (`hello_world.c:503-509`).
   The printed "hardware" speed is that of register reads: run `bench_hardware`.
2. `InvMixColumns.v:78-99`: `xtime` reverses bits; inverse MixColumns is not the inverse:
   run `xtime`. The `.bak` file has the same body with an input `[0:7]`, and was right.
3. `KeyExpansion.v:20`: the `Rcon` list is assigned to a wire of ten bits, so each stage
   gets one bit; the synthesis log (`db/Homework4.map.qmsg`) warns of the truncation.
   Round keys differ from the software's: run `rcon`.
4. `hello_world.c:16-17` has `AES_PTR` at 0x40, "make sure it matches Qsys"; `system.h:429`
   and the decoder have the registers at 0x00-0x3f, and 0x40-0x7f go by default to the
   SDRAM: run `aes_pointer`.

With 2 and 3 in place the hardware does not decrypt what the software encrypts.
All the rest of the datapath does (`datapath`).

The registers and the support code differ from their own comments in some corners, too. The property that
states the comment is kept in the module; it has no run of its own, and TLC refutes it
in the instance given here (`SPECIFICATION Spec` of the module, or the part of
`Runtime` or `Support`):

| Property | Where | What the code does | Instance |
|---|---|---|---|
| `ResetClearsAll` of `AesSystem` | `avalon_aes_interface.sv:67` "clear all 16 registers on reset" | the block for DONE (line 91) is not under the reset's `else`: a result that arrives in the clock of RESET stays in registers 8-11, and 15 is all ones | that of `registers` |
| `EIOMeansNotConnected` of `JtagUartDriver` | `altera_avalon_jtag_uart_write.c:187`, comment on line 214 | the wait for room ends with -EIO when the host was inactive at all, also if room has just come | that of `console` |
| `NoBoundsCheck` of `Sbrk` | `alt_sbrk.c:46-48, 88` | "does not perform any bounds checking. Memory will be allocated, even if the request [...] overflows": the code compares the new end with the limit and refuses | that of `support` |
| `TickReturns` of `Alarms` | `alt_tick.c:102`, `alt_llist.h:115-116` | if a callback stops the next alarm, the saved `next` is an entry whose links lead to itself: `alt_tick` goes round it for ever, with interrupts off | `FairSpec`, `StopsOthers <- TRUE` |
| `NotCalledOnceStopped` of `Alarms` | `alt_tick.c:102`; `alt_alarm.h:73` | the next alarm is saved before the callback; if that stops it, it may be called all the same | `StopsOthers <- TRUE` |
| `NeverEarly` of `Alarms` | `alt_alarm_start.c:82-88` | with the longest delay the time wraps to the current tick, the flag stays clear, and the alarm is called at once | `MaxDelay <- Wrap - 1` |
| `LockExclusive` of `FileDescriptors` | `alt_fd_lock.c:43-44, 61` | the search stops before `alt_max_fd`, the highest descriptor in use: that one may share the device | that of `support` |
| `JustSet` of `TimeOfDay` | `alt_settod.c:61-63, 84` | the microseconds since reset are multiplied in 32 bits, those of gettimeofday in 64: after 71.6 minutes the time read back is not the one set | `MaxTicks <- 127` |
| `LongEnough` of `BusySleep` | `alt_busy_sleep.c:28, 75, 112, 129` | "Microsecond delay": the loops in a microsecond are rounded down, at 50 MHz from 16 2/3 to 16, so sleeps are up to 4% shorter than asked | that of `support` |
| `NotMuchLonger` of `BusySleep` | `alt_busy_sleep.c:36-40, 112` | a remainder of zero after long counts is counted from zero all the way round | that of `support` |
| `Coherent` of `DataCache` | `alt_dcache_flush_no_writeback.c:60-67` | for an unaligned region "one more line" is dropped whether or not the region reaches it | `DropsAnywhere <- TRUE` |
| `PollEnds` of `CachedAes` | `hello_world.c:388` | the poll reads the cached DONE until something evicts the line | `Spec` |
| `CountsOscillations` of `RingOscillator` | `RO_counter.v:34-35`, `adder_tree.v:2` | "counts the number of oscillations", "adds together 16 numbers of width 32 bits": the tree drives no output (`unsaved/synthesis/submodules/adder_tree.v:22, 54` assigns a name that is not its port), takes 28 of the 32 bits (lines 5-20), and carries on their way when enable falls would be missing from the sum | that of `support` |
| `CountsCalls` of `Profiling` | `alt_mcount.S:118`, `alt_gmon.c:52-53` | load, increment and store of a count with interrupts on lose the count of a routine | that of `runtime` |
| `TwoCopies` of `Profiling` | `alt_gmon.c:178-179` | a third copy of an arc is possible, interrupts come on again after a record | `MaxCalls <- 2`, that of `runtime` |

## 5. Proofs

Checked by TLAPS, for any sets of keys, messages and words, and with no bound on
changes, writes or resets.

`AesCore_proofs` -- from `UnknownAssumption` (Unknown is neither key nor message):

* `TypeCorrect`: `TypeOK`.
* `Invariance`: `Inv`, the conjunction of `TypeOK`;
  `Control` (which counter values each state can have: without it the equality tests
  of the counters could be passed over);
  `Units` (S-box and column registers are of the present block when they are
  selected: what makes "late" answers right);
  `KeyProgress` (stage i of the schedule settles at the i-th clock, so 24 clocks
  suffice) and `MsgProgress` (the message register holds exactly the first
  `Position` operations of the inverse cipher). `ResultCorrect` alone says nothing of
  the states before `finished`, so it needs all of these. Each conjunct has its step
  lemma (`ControlStep`, `UnitsStep`, `KeyStep`, `MsgStep`, `ScheduleStep`); `PrefixStep`
  extends the sequence of operations by one.
* `Correctness` (`ResultCorrect`), `WholeBlocks` (`NoTornColumns`),
  `ReturnsFromMix` (`MixColumnsReturns`; no run lists it, `Inv` has it in `Control`) follow from `Inv`.
* `WholeSchedule` (`RunsWholeSchedule`): the core has carried out forty operations when it
  says DONE. `ScheduleProgress`, a conjunct of `Inv`, ties their number to the state and
  the counters; `Advance` and `ShapeStep` are its steps.
* `Refinement`: every clock of the core is a step of AesDevice or a stutter.
* `TimedRuns` (`RunsOnTime`): unless it is reset, a run is finished 113 clocks after it began,
  whatever an interrupted one left in the counters. `ClocksLeft` is computed from state and
  counters, `Control` keeps it within the run (`ClocksRange`), and each clock takes one off
  (`CountsDown`). That every run ends, under a clock that does not stop, is a consequence.

`AvalonAes_proofs` -- from `WordAssumption` (zero and all ones are words, the latter
odd): `RegisterTypes`; `Published` by way of `PublishedInv`, which adds to
`PublishedCorrect` that the core's result in `done` is the one due (`DueResult`);
`NothingLost`, an action property that holds of every step.

`AesSystem_proofs` -- from `SystemAssumption`, the two above on its words: `SystemRefinement`
(`ImplementsRegisters`), and by way of it `SystemPublished` (`PublishedCorrect`) and
`SystemNothingLost` (`NoResultLost`), which are then about the clocked core and any
bus master. No invariant is proved anew. The two proof modules are instantiated, `Inv` of the
core holds of the core that the registers drive (`CoreInvariance`), under it a clock of
the core is one of `AesDevice` between the wires (`DeviceClock`), hence one of the system is
one of `AvalonAes` (`BusClock`). The lemmas called `Same...` say that a definition
reached through two instances is one and the same.

The same module, about `NiosSystem` and from the assumptions of all its parts:
`CallsLongEnough` (`CallsOutlastRuns`), `WholeRefinement` (`ImplementsProgram`) and
`WholeAnswers` (`AnswerCorrect`). `Waited` is the inductive invariant: while a call is on, the
clocks it has lasted and those the core may still need (`Need`: to the end of the run it is in,
through `finished` and `Halted`, and to the end of the next) are at most `CallTime`.
`ClocksLeft` of `TimedRuns` counts them, so that the bound is exact. With that every clock
of the program is one of `NiosAes` (`ProgStep`), whose safety is proved there, and
`AnswerCorrect` comes over by refinement.

`NiosAes_proofs` -- from `InputsAssumption` and `WordAssumption`, for any inputs, any number of
jobs, calls and resets of the board, and with no bound but those the module has:
`SystemTypes` (`SysTypeOK`), `AnswersRight` (`AnswerCorrect`), and `TestLoopRunsHardware`
(`DecryptRunsHardware`, if the test loop is the only mode: the benchmark is finding 1). `AnswerCorrect` speaks of the end
of a job; `SysInv` follows it from the start: `Stored` (what the loops have put into
registers 0-7), `Handshake` (before the first START the core rests and DONE is low; START is
high while the test loop waits), then the two reasons for which DONE may be believed.
`FirstJob`: DONE was low, so that it is this run's. `SlowJob`: since the console call after START
began, the core has taken the input (`OwnRun`) and shown a run of it (`Shown`). `Reading` is
what the four loads have got. That a core which takes a job goes on with it undisturbed
(`OwnRunStep`) and publishes it (`ShownStep`) is used by both.

`JtagUartDriver_proofs` -- `ConsoleAwake` (`NeitherAsleep`: `TransmitterAwake` and `ReceiverAwake`), for rings and
FIFOs of any size, any host and any sequence of calls. `AwakeInv` strengthens the two:
`Written` (the enables in CONTROL are those in `irq_enable`), `TransmitOn` (it holds while
the routine runs, too: the routine turns its interrupt off with the ring empty only) and
`ReceiveOn`. Only whether a ring is empty, or full, matters, so that no index is computed
and of the types only `Shape` is needed, the fields of `isr` and `call`.

The same module, from `DeviceAssumption` and `DriverAssumption`, for rings and FIFOs of any
size, calls of any length and any host: `ConsoleTypes` and
`ConsoleStreams`, that either direction of the console implements `ByteStream`. By
`StreamInv`: FIFO and ring hold the bytes from the next the far end takes (`OutStream`,
`InStream`); the routine never has more space in mind than the FIFO has, so that no byte
is dropped; what write is about to publish is in slots nobody looks at (`Publishing`),
and what read is about to take is still the oldest of the ring (`Consuming`), whatever
the routine did in between. `OutMove` and `InMove` say what a step does to the bytes on
the way; with `OutFacts` and `InFacts` each is a step of the pipe or none. The
arithmetic of indices modulo `BUF_LEN` and of bytes modulo `Period` comes before it, and so do
the types, step by step.

`Runtime_proofs` -- about `Runtime`, so for any mixture of its parts' constants. Each part has
its invariant, a lemma for each of its actions, and one for the steps of the other parts,
which leave it alone (`PartsStart`, `PartsStep`).

* `InterruptLayer` (`InterruptsSafe`), for any number of sources and routines. `IrqInv` says
  for each place a frame can be at whether interrupts are on there and what its locals hold:
  a routine is only ever above a program outside the locks, so that at most one frame, the
  top, is within them, and a loaded `alt_irq_active` is still the one to store.
* `PolledStreams` (`Streams`), for FIFOs of any depth: `PolledInv` has the bytes of both FIFOs
  consecutive up to what was sent or taken, and the local copies of CONTROL never too high.
* `AlarmsKeepTime` (`AlarmsOnTime`), for any number of alarms and a counter of any width, from
  `~StopsOthers` and `MaxDelay + 1 < Wrap`: without either it is false (section 4).
  `AlarmInv` gives the list as a sequence that the links of list head and alarms go round,
  with the pass of `alt_tick` at a place in it, and for each alarm ties `time`, `rollover` and
  the ticks left, before and behind that place. Insertion and removal in the middle are
  lemmas on such sequences.
* `ArcsRecorded` (`Recorded`), for any functions, call sites, calls and interrupts. `ProfilerInv`:
  lists lead to older blocks only, an entry without an arc is about to get one with
  interrupts off, an arc counts no more than the calls that have counted themselves.
  `RecordInv` adds that each arc belongs to one entry, that the first `fn_head` entries and the
  first so many arcs are exactly those on the lists, that a frame's pointer is to what it
  searches for, and that the counts of one call's copies, as a running sum, are at most the
  calls made and in flight. `Behind` is what lets the lost update of `CountsCalls` go down
  and never up. What the host reads is defined by recursion over links (`Entries`, `Arcs`) and
  by a fold (`Counted`): such functions are shown to exist, by induction with a set in
  place of a predicate (`SetInduction`), and the sums to be bounded (`SumBound`), both in
  `SetSums_proofs`.
* `RuntimeTypes` (`RuntimeTypeOK`), from the same two hypotheses, by the four invariants.

`Support_proofs` -- about `Support`, in the same way.

* `SbrkSound` (`HeapSound`: `Disjoint` and `InHeap`), from `HeapAssumption`, by way of `Exclusion` (who is past the
  lock excludes the other), `Progress` (what a call has computed) and `Below` (every block
  ends at or before `heap_end`).
* `DescriptorsKept` (`DescriptorsSound`), for a pool of any size. `FilesInv`: a descriptor has a
  device exactly if it was opened or is one of the three streams, all of them are below
  the mark, and before `main` none is locked. That a granted lock excludes is then an
  action property of each call (`LockKeeps`).
* `TimeIsKept` (`TimeKept`), at any word size, while the microseconds since reset fit a word
  (`MaxTicks * TickUs < U32`: after 71.6 minutes `JustSet` fails). `ClockInv`: the offset that
  was stored, and the ticks since, are the time shown. `SleepInv`: what is left is the long
  counts to come and the rest, and the loops gone cover what was taken off; `SleepShort`: a
  loop rounded off each microsecond is all that can be missing.
* `MemoryIsCurrent` (`MemoryCurrent`), for a cache of any number of lines and words, if only
  whole lines are dropped unwritten (`DropsAnywhere = FALSE`, section 4). `CacheInv`: no line
  misses a store; an address at which the memory misses one is in a dirty line, and
  if it was handed to a device, ahead of a flush that is under way; no line holds an
  uncached block, nor the part of one that a flush has passed.
* `CountersAreExact` (`CountsExact`), for any number of rings and stages. `OscInv` is the property
  with the types: the stages that are set and the carries on their way (a carry is worth the
  stage it will toggle, one out of the last stage a turn) are worth the falls of the ring. What
  the stages are worth is a sum over a set (`ValueWith`, `ValueWithout`), of weights that
  double (`WeightIs`).
* `AddressesMatch` (`AddressesAgree`), which TLC checks at the words on both sides of every
  boundary; `EveryAddress` and `OneName` have all 2^29. Each range is a multiple of its size, a
  power of two, so that comparing the high bits finds exactly the range (`SizedIs`); the ranges
  follow one another and each slave has one (`Sound`), so that of the decoder's `if`s one at
  most matches (`OneRange`) and the last is not another than the first.
* `SupportTypes` (`SupportTypeOK`), by the six invariants and so from the same two hypotheses.

`SetSums_proofs` -- the folds of the community modules are recursive functions: that a finite set
has a sum, that it may begin with any element, and its bounds.

Model-checked only:

* liveness (`StartGoverns`, `DecryptReturns`, `CallsReturn`, `Delivered`, `NothingForgotten`):
  beyond this prover; for a run of the core the number of clocks is proved (`TimedRuns`);
* `ScheduleCorrect`, `EncryptsCorrectly`, `DatapathInverts`, `SchedulesAgree`: what a recursive
  definition computes on bytes, and tables, are checked by evaluation;
* the findings, and that each property is broken by its mutant.

## 6. What the models assume and leave out

* Registers power up at zero, as the FPGA's do. No metastability or timing: what
  is combinational settles within half a period.
* `NiosAes` takes `AES_PTR` to point at the slave, and each access to be a bus transfer. The
  address (finding 4) and the cache (`CachedAes`) are modelled by themselves.
* A bus read changes nothing, hence is no action of the registers. Byte enables: the
  word a write leaves behind is any word.
* `EXPORT_DATA` is a combinational view of registers 0 and 3.
* Numbers of bytes typed other than 32 digits are not modelled; `aes_invsbox` and
  four columns of `gf_mul` are read by nothing.
* `write` and `read` of no bytes (they return -EIO), negative increments of sbrk, an ioctl
  that would set a timeout of `INT_MAX - 1` (wait for ever), and settimeofday without a
  zone are not modelled.
* A callback that stops another's alarm is left out of the `runtime` run
  (`StopsOthers <- FALSE`), as is the longest delay: section 4 has what becomes of them.
  `CallsReturn` and `AlarmsOnTime` are about callbacks that stop their own alarm or start another.
* No copy of the ring oscillator compiles as committed (`adder_tree.v` ends within a comment
  that begins on line 40, `unsaved/synthesis/submodules/ring_osc.v` does not parse at line 72, and
  the one in `ring_osc.v` takes its inverter from another vendor's library). Ring and counters are
  modelled as their statements say, and the sample as what an undriven net may be read as. One
  fall of a ring is seen by its first stage before the next comes.
* A sleep is measured by the three cycles a loop takes in the reckoning of
  `alt_busy_sleep.c:40`; what the processor and its caches make of them is not modelled.

Not modelled, and why:

* Start-up (`alt_main`, `alt_load`, constructors), exceptions for instructions the
  processor has, and exit: straight-line code before or after everything else.
* `alt_log_printf.c` and its header (a sixth of the lines of the BSPs): compiled out.
  Stubs (`alt_fork`, `alt_link`, `alt_kill`, ...) set errno and return. `lseek`, `fstat` and
  `isatty` change nothing with the devices of these systems.
* Headers of register offsets and access macros, `system.h` but its bases and spans, and
  `linker.h`: names for numbers.
* Arbitration, width adapters and clock crossings: generated, and taken for a bus that
  carries out one transfer at a time.
* The histogram of the profiler, written by one routine alone, and its output.
* The older register file and the alternative control unit: instantiated by nothing, and
  the latter names modules that do not exist. Power virus: no function. HEX decoder and
  board top: combinational.

The BSP of B holds the same HAL sources as that of A, file by file; the map names the
copy of A. So most lines of C that no definition stands for are such copies,
headers, stubs and the log.

## 7. Plan

Done: the memory map, the cache, the ring oscillator, the support code of both
processors, registers, core and program as one system; and proofs of the core, the registers,
their system, the driver program over the registers and over the clocked core, both consoles,
and the safety of all parts of `Runtime` and `Support`. Left, in order of worth:

1. `RegFile` (`reg_file.v`) as an earlier implementation of the same registers;
   `ControlUnit` (`controlUnit.v`), the control unit for three key sizes.
