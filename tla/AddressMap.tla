----------------------------- MODULE AddressMap -----------------------------
(***************************************************************************)
(* The address decoders of the two subsystems' interconnects beside the    *)
(* addresses the software is compiled with: system.h of each program, and  *)
(* AES_PTR of hello_world.c.  One step is one transfer of a data master.   *)
(***************************************************************************)
EXTENDS Integers, FiniteSets, FiniteSetsExt, SequencesExt

\* One slave of a decoder: where its range begins and its size, a power of two.
Port(slave, base, size) == [slave |-> slave, base |-> base, size |-> size, readonly |-> FALSE]
ReadPort(slave, base, size) == [slave |-> slave, base |-> base, size |-> size, readonly |-> TRUE]

Hex(n) == <<"hex0", "hex1", "hex2", "hex3", "hex4", "hex5", "hex6", "hex7">>[n + 1]
DisplayPorts == [n \in 1..8 |-> Port(Hex(8 - n), \h10001060 + 16 * (n - 1), 16)]

DecoderA ==
  << Port("aes", 0, 64), Port("sdram", \h8000000, \h8000000), Port("debug", \h10000800, \h800),
     Port("highres", \h10001000, 32), Port("timer", \h10001020, 32), Port("key", \h10001040, 16),
     ReadPort("switches", \h10001050, 16) >>
  \o DisplayPorts \o
  << Port("ledg", \h100010e0, 16), Port("ledr", \h100010f0, 16),
     ReadPort("sysid", \h10001100, 8), Port("jtag", \h10001108, 8) >>
DecoderB ==
  << ReadPort("sysid", 0, 8), ReadPort("oscillator", 8, 4), Port("debug", \h2800, \h800),
     Port("timer", \h3000, 32), Port("jtag", \h3020, 8), Port("memory", \h10000, \h8000) >>

System == [A |-> [ports |-> DecoderA, default |-> 2, top |-> \h20000000],
           B |-> [ports |-> DecoderB, default |-> 6, top |-> \h20000]]

VARIABLES master, transfer, reached
vars == <<master, transfer, reached>>

\* Mutant: one address bit more than the range has is left out of the comparison.
Within_OneBitMore(p, addr) == addr \div (2 * p.size) = p.base \div (2 * p.size)
Within(p, addr) == addr \div p.size = p.base \div p.size

\* The if statements follow one another: the last that matches counts, and the
\* default where none does.  The slave sees the low bits of the address.
Route(m, t) ==
  LET ports == System[m].ports
      hits == {n \in DOMAIN ports : Within(ports[n], t.addr) /\ (ports[n].readonly => t.read)}
      p == ports[IF hits = {} THEN System[m].default ELSE Max(hits)]
  IN [slave |-> p.slave, offset |-> t.addr % p.size]

-----------------------------------------------------------------------------
\* BASE and SPAN in system.h.
Device(slave, base, span) == [slave |-> slave, base |-> base, span |-> span]
Displays == {Device(Hex(n), \h100010d0 - 16 * n, 16) : n \in 0..7}
Leds == {Device("ledg", \h100010e0, 16), Device("ledr", \h100010f0, 16)}
Rest == {Device("aes", 0, 64), Device("highres", \h10001000, 32), Device("jtag", \h10001108, 8),
         Device("key", \h10001040, 16), Device("sdram", \h8000000, 134217728),
         Device("switches", \h10001050, 16), Device("sysid", \h10001100, 8),
         Device("timer", \h10001020, 32)}
DeclaredA == Displays \cup Leds \cup Rest
DeclaredB == {Device("jtag", \h3020, 8), Device("memory", \h10000, 20400),
              Device("sysid", 0, 8), Device("timer", \h3000, 32)}
Declared == [A |-> DeclaredA, B |-> DeclaredB]

AES_PTR(i) == \h40 + 4 * i

\* The words at both sides of every boundary, and those of AES_PTR.
Probes(m) ==
  {a \in UNION {{d.base - 4, d.base, d.base + d.span - 4, d.base + d.span} : d \in Declared[m]}
         \cup {AES_PTR(i) : i \in 0..15} : a \in 0..(System[m].top - 4)}

Transfer(a, read) ==
  /\ transfer' = [addr |-> a, read |-> read]
  /\ reached' = Route(master, transfer')
  /\ UNCHANGED master

Init ==
  /\ master \in {"A", "B"} /\ transfer = [addr |-> 0, read |-> TRUE]
  /\ reached = Route(master, transfer)
Next == \E a \in Probes(master), read \in BOOLEAN : Transfer(a, read)
Spec == Init /\ [][Next]_vars

-----------------------------------------------------------------------------
Of(t) == {d \in Declared[master] : t.addr \in d.base..(d.base + d.span - 1)}
ReadOnly == {"switches", "sysid"}

\* Whatever address of system.h the software reads, and whatever it writes that
\* can be written, the transfer arrives at the device of that name, at the
\* offset from its base.
DeclaredReached ==
  \A d \in Of(transfer) :
    transfer.read \/ d.slave \notin ReadOnly =>
      reached = [slave |-> d.slave, offset |-> transfer.addr - d.base]

\* An address that system.h gives to no device is not another name of one,
\* the memory apart: the decoder's ranges are no wider than what is declared.
NoAlias ==
  \A a \in Probes(master) : Route(master, [transfer EXCEPT !.addr = a]) = reached =>
    a = transfer.addr \/ reached.slave \in {"sdram", "memory", "debug", "oscillator"}

\* "Pointer to base address of AES module, make sure it matches Qsys"
\* (hello_world.c:16): AES_PTR[i] is register i of the AES module.
PointerMatches ==
  \A i \in 0..15 : master = "A" /\ transfer.addr = AES_PTR(i) =>
    reached = [slave |-> "aes", offset |-> 4 * i]
=============================================================================
