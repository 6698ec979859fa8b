------------------------------ MODULE RingBuffer ------------------------------
(***************************************************************************)
(* fsw/core/ring_buffer.hpp: a queue in an array used cyclically.          *)
(***************************************************************************)
EXTENDS Integers, Sequences

CONSTANTS
  Items,          \* the values stored
  Capacity,       \* the template parameter of the same name
  CountModulus,   \* 2^32: dropped_count_ is uint32
  NoItem          \* what a slot holds before it is first written

ASSUME RingAssumption ==
  Capacity \in Nat \ {0} /\ CountModulus \in Nat \ {0} /\ NoItem \notin Items

VARIABLES items, head, size, dropped_count

ring == <<items, head, size, dropped_count>>

RingInit ==
  /\ items = [i \in 0 .. Capacity - 1 |-> NoItem]
  /\ head = 0 /\ size = 0 /\ dropped_count = 0

\* Mutants of Push: a full buffer overwrites its newest item; or forgets to
\* count what it discards; or its head runs off the end of the array.
PushKeepsHead(v) ==
  LET full == size = Capacity
      s    == IF full THEN size - 1 ELSE size
  IN /\ size' = s + 1 /\ head' = head
     /\ dropped_count' = IF full THEN (dropped_count + 1) % CountModulus ELSE dropped_count
     /\ items' = [items EXCEPT ![(head + s) % Capacity] = v]
PushUncounted(v) ==
  LET full == size = Capacity
      h    == IF full THEN (head + 1) % Capacity ELSE head
      s    == IF full THEN size - 1 ELSE size
  IN /\ head' = h /\ size' = s + 1 /\ UNCHANGED dropped_count
     /\ items' = [items EXCEPT ![(h + s) % Capacity] = v]

PushUnwrapped(v) ==
  LET full == size = Capacity
      h    == IF full THEN head + 1 ELSE head
      s    == IF full THEN size - 1 ELSE size
  IN /\ head' = h /\ size' = s + 1
     /\ dropped_count' = IF full THEN (dropped_count + 1) % CountModulus ELSE dropped_count
     /\ items' = [items EXCEPT ![(h + s) % Capacity] = v]

\* push(): when full the oldest item goes first, then the new one is stored.
Push(v) ==
  LET full == size = Capacity
      h    == IF full THEN (head + 1) % Capacity ELSE head
      s    == IF full THEN size - 1 ELSE size
  IN /\ head' = h
     /\ size' = s + 1
     /\ dropped_count' = IF full THEN (dropped_count + 1) % CountModulus ELSE dropped_count
     /\ items' = [items EXCEPT ![(h + s) % Capacity] = v]

Pop ==
  /\ size # 0
  /\ head' = (head + 1) % Capacity
  /\ size' = size - 1
  /\ UNCHANGED <<items, dropped_count>>

Clear == head' = 0 /\ size' = 0 /\ UNCHANGED <<items, dropped_count>>

\* Mutant of At: one item too far.
AtNext(index) == items[(head + index + 1) % Capacity]

\* at(index): index 0 is the oldest retained item.
At(index) == items[(head + index) % Capacity]

Retained == [k \in 1 .. size |-> At(k - 1)]

RingNext == (\E v \in Items : Push(v)) \/ Pop \/ Clear

RingSpec == RingInit /\ [][RingNext]_ring

-----------------------------------------------------------------------------
TypeOK ==
  /\ items \in [0 .. Capacity - 1 -> Items \cup {NoItem}]
  /\ head \in 0 .. Capacity - 1 /\ size \in 0 .. Capacity
  /\ dropped_count \in 0 .. CountModulus - 1

\* Walking the buffer, across the wrap-around too, only meets written slots.
OnlyWrittenSlots == \A k \in 1 .. size : Retained[k] # NoItem

\* The cyclic array implements the queue that discards its oldest item.
History == INSTANCE BoundedHistory WITH contents <- Retained, lost <- dropped_count
ImplementsHistory == History!Spec
=============================================================================
