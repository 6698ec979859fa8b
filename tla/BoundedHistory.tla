--------------------------- MODULE BoundedHistory ---------------------------
(***************************************************************************)
(* What fsw/core/ring_buffer.hpp promises, with no indices in it: a queue  *)
(* of at most Capacity items that makes room for a new one by discarding   *)
(* the oldest, and counts what it discarded (modulo 2^32).                 *)
(***************************************************************************)
EXTENDS Integers, Sequences

CONSTANTS Items, Capacity, CountModulus

VARIABLES contents, lost

history == <<contents, lost>>

Init == contents = <<>> /\ lost = 0

Push(v) ==
  IF Len(contents) < Capacity
  THEN contents' = Append(contents, v) /\ lost' = lost
  ELSE contents' = Append(Tail(contents), v) /\ lost' = (lost + 1) % CountModulus

Pop   == contents # <<>> /\ contents' = Tail(contents) /\ lost' = lost
Clear == contents' = <<>> /\ lost' = lost

Next == (\E v \in Items : Push(v)) \/ Pop \/ Clear

Spec == Init /\ [][Next]_history
=============================================================================
