----------------------------- MODULE ByteStream -----------------------------
(***************************************************************************)
(* What a console promises of either direction: a bounded pipe.  Bytes go  *)
(* in at one end, any number at a time, and come out at the other, one or  *)
(* several at a time, each once and in order.                              *)
(***************************************************************************)
EXTENDS Naturals, Sequences

CONSTANTS Capacity, Period
VARIABLES pipe, in, out    (* bytes on the way, the next to enter, to leave *)

ByteAt(b, n) == (b + n) % Period

Enter == \E n \in 1..(Capacity - Len(pipe)) :
  /\ pipe' = pipe \o [k \in 1..n |-> ByteAt(in, k - 1)]
  /\ in' = ByteAt(in, n)
  /\ UNCHANGED out

Leave == \E n \in 1..Len(pipe) :
  /\ \A k \in 1..n : pipe[k] = ByteAt(out, k - 1)
  /\ pipe' = SubSeq(pipe, n + 1, Len(pipe))
  /\ out' = ByteAt(out, n)
  /\ UNCHANGED in

StreamInit == pipe = <<>> /\ in = 0 /\ out = 0
StreamSpec == StreamInit /\ [][Enter \/ Leave]_<<pipe, in, out>>
=============================================================================
