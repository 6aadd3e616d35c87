------------------------------ MODULE DataCache ------------------------------
(***************************************************************************)
(* The data cache of Nios II and the HAL's routines about it: flushing a   *)
(* region with and without write-back, flushing everything, and blocks of  *)
(* memory that are reached past the cache (alt_uncached_malloc and back).  *)
(* The cache is direct-mapped, allocates on a store and writes back; an    *)
(* address with bit 31 set goes past it.  Of the data only this is kept:   *)
(* at which addresses the line, and at which the memory, does not hold     *)
(* what was stored last.                                                   *)
(***************************************************************************)
EXTENDS Integers, FiniteSets

CONSTANTS
  Line,           (* NIOS2_DCACHE_LINE_SIZE                                 *)
  Sets,           (* lines of the cache: NIOS2_DCACHE_SIZE \div Line        *)
  Top,            (* size of the memory, whole lines                        *)
  Lengths,        (* the sizes asked for                                    *)
  DropsAnywhere   (* regions given up need not be whole lines               *)

CacheAssumption ==
  /\ Line \in Nat /\ Line > 0 /\ Line % 2 = 0 /\ Sets \in Nat \ {0}
  /\ Top \in Nat /\ Top % Line = 0 /\ Lengths \subseteq Nat
  /\ DropsAnywhere \in BOOLEAN

None == -1
Addr == 0..(Top - 1)
Set == 0..(Sets - 1)
LineOf(a) == a \div Line
SetOf(l) == l % Sets
Unit(l) == {a \in Addr : LineOf(a) = l}
Span(start, len) == start..(start + len - 1)
Touched(start, len) == {a \in Addr : \E b \in Span(start, len) : LineOf(b) = LineOf(a)}

VARIABLES
  cache,           (* the line that each set holds, or None                *)
  dirty,           (* the sets whose line is to be written back            *)
  staleLine,       (* addresses whose cached line misses the last store    *)
  staleMem,        (* addresses at which the memory misses it              *)
  blocks,          (* uncached blocks: [start, len], len as reserved       *)
  flush,           (* the loop of the flush that is under way              *)
  handed           (* history: region flushed last and not touched since   *)
vars == <<cache, dirty, staleLine, staleMem, blocks, flush, handed>>

NoFlush == [op |-> "none", i |-> 0, end |-> 0, start |-> 0, block |-> FALSE]
Resident(a) == cache[SetOf(LineOf(a))] = LineOf(a)

\* The memory once the line in set s has been written back, if it is dirty.
MemAfter(s) ==
  IF s \in dirty THEN (staleMem \ Unit(cache[s])) \cup (staleLine \cap Unit(cache[s]))
                 ELSE staleMem

\* The addresses some caller has for itself, past the cache.
BlockUnits == UNION {Span(b.start, b.len) : b \in blocks}
Reserved == BlockUnits \cup
  (IF flush.block THEN Span(flush.start, flush.end - flush.start) ELSE {})

-----------------------------------------------------------------------------
(* Loads and stores, of the program, the heap or an interrupt routine.       *)

Fill(l, stored) ==
  LET s == SetOf(l) IN
  /\ cache' = [cache EXCEPT ![s] = l]
  /\ staleMem' = MemAfter(s) \cup stored
  /\ staleLine' = ((staleLine \ UNION {Unit(cache[s])}) \cup (MemAfter(s) \cap Unit(l))) \ stored

Load(a) ==
  /\ a \notin Reserved /\ ~Resident(a)
  /\ Fill(LineOf(a), {}) /\ dirty' = dirty \ {SetOf(LineOf(a))}
  /\ handed' = handed \ {a}
  /\ UNCHANGED <<blocks, flush>>

Store(a) ==
  /\ a \notin Reserved
  /\ IF Resident(a)
     THEN /\ staleLine' = staleLine \ {a} /\ staleMem' = staleMem \cup {a}
          /\ UNCHANGED cache
     ELSE Fill(LineOf(a), {a})
  /\ dirty' = dirty \cup {SetOf(LineOf(a))}
  /\ handed' = handed \ {a}
  /\ UNCHANGED <<blocks, flush>>

\* Bit 31 set: the memory is written, whatever the cache holds.
StoreUncached(a) ==
  /\ a \in BlockUnits
  /\ staleMem' = staleMem \ {a}
  /\ staleLine' = IF Resident(a) THEN staleLine \cup {a} ELSE staleLine
  /\ UNCHANGED <<cache, dirty, blocks, flush, handed>>

-----------------------------------------------------------------------------
(* The flush instructions, on the line of an address.                        *)

Empty(s) ==
  /\ cache' = [cache EXCEPT ![s] = None] /\ dirty' = dirty \ {s}
  /\ staleLine' = staleLine \ Unit(cache[s])

\* flushda: if the line is in the cache, write it back and drop it.
\* flushd: the same with whatever line has its place.
Writeback(s) == Empty(s) /\ staleMem' = MemAfter(s)

\* initda: drop it if it is in the cache.  What was stored in the region is
\* forgone: there its memory is what counts from now on.
Drop(s) ==
  /\ Empty(s)
  /\ staleMem' = staleMem \ (Unit(cache[s]) \cap Touched(flush.start, flush.end - flush.start))

Keep == UNCHANGED <<cache, dirty, staleLine, staleMem>>

Instruction(i) ==
  LET s == SetOf(LineOf(i))
  IN CASE flush.op = "flushd" -> Writeback(s)
       [] flush.op = "flushda" -> IF Resident(i) THEN Writeback(s) ELSE Keep
       [] flush.op = "initda" -> IF Resident(i) THEN Drop(s) ELSE Keep

-----------------------------------------------------------------------------
(* The loops of the three flush routines.                                    *)

Region(op, start, len) ==
  /\ flush = NoFlush
  /\ flush' = [NoFlush EXCEPT !.op = op, !.i = start, !.end = start + len, !.start = start]
  /\ UNCHANGED <<cache, dirty, staleLine, staleMem, blocks>>

alt_dcache_flush(start, len) ==
  /\ Region("flushda", start, len)
  /\ handed' = Span(start, len) \ Reserved

alt_dcache_flush_no_writeback(start, len) ==
  /\ DropsAnywhere \/ (start % Line = 0 /\ len % Line = 0)
  /\ Region("initda", start, len) /\ handed' = {}

alt_dcache_flush_all == Region("flushd", 0, Sets * Line) /\ handed' = {}

FlushLine ==
  /\ flush # NoFlush /\ flush.i < flush.end
  /\ Instruction(flush.i)
  /\ flush' = [flush EXCEPT !.i = @ + Line]
  /\ UNCHANGED <<blocks, handed>>

\* Mutant: the loop is taken to have reached the last line.
Unaligned_Never(start) == FALSE
Unaligned(start) == start % Line # 0

\* One line more if the start was not that of a line; then the routine is done
\* and, under alt_uncached_malloc, the block belongs to its caller.
FlushLast ==
  /\ flush # NoFlush /\ flush.i >= flush.end
  /\ IF Unaligned(flush.start) THEN Instruction(flush.i) ELSE Keep
  /\ blocks' = IF flush.block
               THEN blocks \cup {[start |-> flush.start, len |-> flush.end - flush.start]}
               ELSE blocks
  /\ flush' = NoFlush /\ UNCHANGED handed

-----------------------------------------------------------------------------
(* Uncached blocks.                                                          *)

\* Mutant: the size as it was asked for.
Aligned_AsAsked(size) == size
Aligned(size) == ((size + Line - 1) \div Line) * Line

\* The rest of the memory belongs to the heap and its other callers, who go
\* through the cache.
alt_uncached_malloc(start, size) ==
  /\ flush = NoFlush /\ start % Line = 0 /\ start + Aligned(size) <= Top
  /\ Span(start, Aligned(size)) \cap Reserved = {}
  /\ flush' = [op |-> "flushda", i |-> start, end |-> start + Aligned(size),
               start |-> start, block |-> TRUE]
  /\ handed' = {}
  /\ UNCHANGED <<cache, dirty, staleLine, staleMem, blocks>>

\* Bit 31 is cleared, and the block goes back to the heap or is used through
\* the cache.
alt_uncached_free(b) ==
  /\ blocks' = blocks \ {b}
  /\ UNCHANGED <<cache, dirty, staleLine, staleMem, flush, handed>>
alt_remap_cached(b) == alt_uncached_free(b)

-----------------------------------------------------------------------------
Init ==
  /\ cache = [s \in Set |-> None] /\ dirty = {} /\ staleLine = {} /\ staleMem = {}
  /\ blocks = {} /\ flush = NoFlush /\ handed = {}

Next ==
  \/ \E a \in Addr : Load(a) \/ Store(a) \/ StoreUncached(a)
  \/ \E start \in Addr, len \in Lengths :
       \/ start + len <= Top
          /\ (alt_dcache_flush(start, len) \/ alt_dcache_flush_no_writeback(start, len))
       \/ alt_uncached_malloc(start, len)
  \/ alt_dcache_flush_all \/ FlushLine \/ FlushLast
  \/ \E b \in blocks : alt_uncached_free(b) \/ alt_remap_cached(b)

Spec == Init /\ [][Next]_vars

-----------------------------------------------------------------------------
\* Every set holds a line of its own, and only a line it holds is dirty or stale.
TypeOK ==
  /\ \A s \in Set : cache[s] = None \/ (cache[s] \in 0..(Top \div Line - 1) /\ SetOf(cache[s]) = s)
  /\ dirty \subseteq {s \in Set : cache[s] # None}
  /\ staleLine \subseteq {a \in Addr : Resident(a)} /\ staleMem \subseteq Addr
  /\ \A b \in blocks : Span(b.start, b.len) \subseteq Addr

\* Whoever loads gets what was stored last: through the cache outside the
\* uncached blocks, from the memory within, whatever lines the cache evicts or
\* routines flush in between (alt_uncached_malloc.c:49-63: "cacheable and
\* non-cacheable data won't be mixed on the same cache line").
Coherent ==
  \A a \in Addr :
    IF a \notin BlockUnits /\ Resident(a) THEN a \notin staleLine ELSE a \notin staleMem

\* After alt_dcache_flush another master of the bus finds in the memory what
\* was stored in the region, wherever the region begins and ends.
HandedOver == flush = NoFlush => handed \cap staleMem = {}
=============================================================================
