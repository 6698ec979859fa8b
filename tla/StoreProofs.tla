------------------------------ MODULE StoreProofs ------------------------------
(***************************************************************************)
(* Theorems about what the flight software keeps.  The event log, for      *)
(* every capacity, dictionary and counter width: the cyclic array is the   *)
(* bounded queue BoundedHistory describes; the history holds the newest    *)
(* events, the counters describe it, and the sink is given every event.    *)
(* The parameter store, for every set of dictionaries, every grid of       *)
(* representable values and every sequence of boots, writes, errors,       *)
(* resets and uploads.                                                     *)
(***************************************************************************)
EXTENDS EventLog, ParamStore, SequenceTheorems, TLAPS

-----------------------------------------------------------------------------
\* The ring buffer by itself.

\* The inductive invariant: the indices are in range and what they reach is
\* written.
RingInv == TypeOK /\ OnlyWrittenSlots

\* The slot index steps behind h, without a modulus.
Slot(h, index) == IF h + index < Capacity THEN h + index ELSE h + index - Capacity

\* The remainder of an index that has wrapped at most once.
LEMMA ModBelow == ASSUME NEW C \in Nat \ {0}, NEW x \in 0 .. C - 1 PROVE x % C = x
  BY SMT
LEMMA ModAbove == ASSUME NEW C \in Nat \ {0}, NEW x \in C .. 2 * C - 1 PROVE x % C = x - C
  BY SMT

\* Every index the buffer computes is such a one.
LEMMA WrapsOnce ==
  ASSUME NEW h \in 0 .. Capacity - 1, NEW index \in 0 .. Capacity
  PROVE  (h + index) % Capacity = Slot(h, index) /\ Slot(h, index) \in 0 .. Capacity - 1
<1>1. Capacity \in Nat \ {0}
  BY RingAssumption
<1>2. CASE h + index < Capacity
  <2>1. h + index \in 0 .. Capacity - 1
    BY <1>1, <1>2
  <2> QED
    BY <1>1, <1>2, <2>1, ModBelow DEF Slot
<1>3. CASE h + index >= Capacity
  <2>1. h + index \in Capacity .. 2 * Capacity - 1
    BY <1>1, <1>3
  <2>2. (h + index) % Capacity = h + index - Capacity
    BY <1>1, <2>1, ModAbove
  <2> QED
    BY <1>1, <1>3, <2>1, <2>2 DEF Slot
<1> QED
  BY <1>1, <1>2, <1>3

\* The k-th retained item, without a modulus.
RetainedBySlot == \A k \in 1 .. size : Retained[k] = items[Slot(head, k - 1)]

LEMMA RetainedItem == TypeOK => RetainedBySlot
<1>1. Capacity \in Nat \ {0}
  BY RingAssumption
<1>2. SUFFICES ASSUME TypeOK, NEW k \in 1 .. size PROVE Retained[k] = items[Slot(head, k - 1)]
  BY DEF RetainedBySlot
<1>3. head \in 0 .. Capacity - 1 /\ k - 1 \in 0 .. Capacity
  BY <1>1, <1>2 DEF TypeOK
<1>4. (head + (k - 1)) % Capacity = Slot(head, k - 1)
  BY <1>3, WrapsOnce
<1> QED
  BY <1>2, <1>4 DEF Retained, At

\* What is retained is a sequence of stored items.
RetainedIsSeq ==
  Retained \in Seq(Items) /\ Len(Retained) = size /\ DOMAIN Retained = 1 .. size

LEMMA RetainedIsASequence == RingInv => RetainedIsSeq
<1> SUFFICES ASSUME RingInv PROVE RetainedIsSeq
  OBVIOUS
<1>1. size \in Nat /\ Capacity \in Nat \ {0}
  BY RingAssumption DEF RingInv, TypeOK
<1>2. ASSUME NEW k \in 1 .. size PROVE Retained[k] \in Items
  <2>1. Slot(head, k - 1) \in 0 .. Capacity - 1
    <3>1. head \in 0 .. Capacity - 1 /\ k - 1 \in 0 .. Capacity
      BY <1>1 DEF RingInv, TypeOK
    <3> QED
      BY <3>1, WrapsOnce
  <2>2. Retained[k] = items[Slot(head, k - 1)]
    BY RetainedItem DEF RingInv, RetainedBySlot
  <2>3. Retained[k] \in Items \cup {NoItem}
    BY <2>1, <2>2 DEF RingInv, TypeOK
  <2> QED
    BY <2>3 DEF RingInv, OnlyWrittenSlots
<1>3. Retained = [k \in 1 .. size |-> Retained[k]]
  BY DEF Retained
<1> DEFINE s == Retained
<1>4. s \in [1 .. size -> Items]
  BY <1>2, <1>3
<1> HIDE DEF s
<1>5. s \in Seq(Items) /\ Len(s) = size /\ DOMAIN s = 1 .. size
  BY <1>1, <1>4
<1> QED
  BY <1>5 DEF s, RetainedIsSeq

-----------------------------------------------------------------------------
\* What each operation leaves in the buffer, slot by slot.
LEMMA PushSlots ==
  ASSUME TypeOK, NEW v \in Items, Push(v)
  PROVE  /\ TypeOK'
         /\ size < Capacity =>
              /\ size' = size + 1 /\ dropped_count' = dropped_count
              /\ \A k \in 1 .. size : Retained'[k] = Retained[k]
         /\ size = Capacity =>
              /\ size' = size /\ dropped_count' = (dropped_count + 1) % CountModulus
              /\ \A k \in 1 .. size - 1 : Retained'[k] = Retained[k + 1]
         /\ Retained'[size'] = v
<1>1. /\ Capacity \in Nat \ {0} /\ CountModulus \in Nat \ {0}
      /\ items \in [0 .. Capacity - 1 -> Items \cup {NoItem}]
      /\ head \in 0 .. Capacity - 1 /\ size \in 0 .. Capacity
      /\ dropped_count \in 0 .. CountModulus - 1
  BY RingAssumption DEF TypeOK
<1>2. (dropped_count + 1) % CountModulus \in 0 .. CountModulus - 1
  BY <1>1
<1>3. CASE size < Capacity
  <2> DEFINE at == Slot(head, size)
  <2>1. at \in 0 .. Capacity - 1 /\ (head + size) % Capacity = at
    BY <1>1, WrapsOnce
  <2> HIDE DEF at
  <2>0. size # Capacity
    BY <1>1, <1>3
  <2>2. /\ head' = head /\ size' = size + 1 /\ dropped_count' = dropped_count
        /\ items' = [items EXCEPT ![at] = v]
    BY <2>1, <2>0, Zenon DEF Push
  <2>3. TypeOK'
    BY <1>1, <1>3, <2>1, <2>2 DEF TypeOK
  <2>4. \A k \in 1 .. size' : Retained'[k] = items'[Slot(head', k - 1)]
    <3>1. (TypeOK => RetainedBySlot)'
      BY RetainedItem, PTL
    <3> QED
      BY <2>3, <3>1 DEF RetainedBySlot
  <2>5. ASSUME NEW k \in 1 .. size PROVE Retained'[k] = Retained[k]
    <3>1. Slot(head, k - 1) # at /\ Slot(head, k - 1) \in 0 .. Capacity - 1
      BY <1>1, <1>3 DEF at, Slot
    <3>2. Retained[k] = items[Slot(head, k - 1)]
      BY RetainedItem DEF RetainedBySlot
    <3> QED
      BY <1>1, <2>1, <2>2, <2>4, <3>1, <3>2
  <2>6. Retained'[size'] = v
    <3>1. size' \in 1 .. size' /\ Slot(head', size' - 1) = at
      BY <1>1, <2>2 DEF at
    <3> QED
      BY <1>1, <2>1, <2>2, <2>4, <3>1
  <2> QED
    BY <1>1, <1>3, <2>2, <2>3, <2>5, <2>6
<1>4. CASE size = Capacity
  <2> DEFINE h == Slot(head, 1)
  <2>1. h \in 0 .. Capacity - 1 /\ (head + 1) % Capacity = h
    BY <1>1, WrapsOnce
  <2>2. Slot(h, size - 1) = head /\ (h + (size - 1)) % Capacity = Slot(h, size - 1)
    <3>1. Slot(h, size - 1) = head
      BY <1>1, <1>4 DEF Slot
    <3>2. (h + (size - 1)) % Capacity = Slot(h, size - 1)
      <4>1. size - 1 \in 0 .. Capacity
        BY <1>1, <1>4
      <4> HIDE DEF h
      <4> QED
        BY <2>1, <4>1, WrapsOnce
    <3> QED
      BY <3>1, <3>2
  <2>3. /\ head' = h /\ size' = size
        /\ dropped_count' = (dropped_count + 1) % CountModulus
        /\ items' = [items EXCEPT ![head] = v]
    <3> HIDE DEF h
    <3>1. /\ head' = h /\ size' = (size - 1) + 1
          /\ dropped_count' = (dropped_count + 1) % CountModulus
          /\ items' = [items EXCEPT ![head] = v]
      BY <1>4, <2>1, <2>2, Zenon DEF Push
    <3> QED
      BY <1>1, <3>1
  <2>4. TypeOK'
    <3> HIDE DEF h
    <3> QED
      BY <1>1, <1>2, <1>4, <2>1, <2>3 DEF TypeOK
  <2>5. \A k \in 1 .. size' : Retained'[k] = items'[Slot(head', k - 1)]
    <3>1. (TypeOK => RetainedBySlot)'
      BY RetainedItem, PTL
    <3> QED
      BY <2>4, <3>1 DEF RetainedBySlot
  <2>6. ASSUME NEW k \in 1 .. size - 1 PROVE Retained'[k] = Retained[k + 1]
    <3>1. /\ Slot(h, k - 1) = Slot(head, k) /\ Slot(head, k) # head
          /\ Slot(head, k) \in 0 .. Capacity - 1
      BY <1>1, <1>4 DEF Slot
    <3>2. Retained[k + 1] = items[Slot(head, (k + 1) - 1)]
      BY <1>1, RetainedItem DEF RetainedBySlot
    <3>3. (k + 1) - 1 = k
      BY <1>1
    <3> HIDE DEF h
    <3> QED
      BY <1>1, <2>3, <2>5, <3>1, <3>2, <3>3
  <2>7. Retained'[size'] = v
    <3>1. size' \in 1 .. size' /\ Slot(head', size' - 1) = head
      BY <1>1, <1>4, <2>2, <2>3
    <3> QED
      BY <1>1, <2>3, <2>5, <3>1
  <2> QED
    BY <1>1, <1>4, <2>3, <2>4, <2>6, <2>7
<1> QED
  BY <1>1, <1>3, <1>4

LEMMA PopSlots ==
  ASSUME TypeOK, Pop
  PROVE  /\ TypeOK' /\ size' = size - 1
         /\ \A k \in 1 .. size' : Retained'[k] = Retained[k + 1]
<1>1. /\ Capacity \in Nat \ {0}
      /\ head \in 0 .. Capacity - 1 /\ size \in 1 .. Capacity
  BY RingAssumption DEF TypeOK, Pop
<1>2. Slot(head, 1) \in 0 .. Capacity - 1 /\ (head + 1) % Capacity = Slot(head, 1)
  BY <1>1, WrapsOnce
<1>3. /\ head' = Slot(head, 1) /\ size' = size - 1
      /\ items' = items /\ dropped_count' = dropped_count
  BY <1>2 DEF Pop
<1>4. TypeOK'
  BY <1>1, <1>2, <1>3 DEF TypeOK
<1>5. ASSUME NEW k \in 1 .. size' PROVE Retained'[k] = Retained[k + 1]
  <2>1. Slot(Slot(head, 1), k - 1) = Slot(head, (k + 1) - 1)
    BY <1>1, <1>3 DEF Slot
  <2>2. Retained'[k] = items'[Slot(head', k - 1)]
    <3>1. (TypeOK => RetainedBySlot)'
      BY RetainedItem, PTL
    <3> QED
      BY <1>4, <3>1 DEF RetainedBySlot
  <2>3. Retained[k + 1] = items[Slot(head, (k + 1) - 1)]
    BY <1>1, <1>3, RetainedItem DEF RetainedBySlot
  <2> QED
    BY <1>3, <2>1, <2>2, <2>3
<1> QED
  BY <1>3, <1>4, <1>5

-----------------------------------------------------------------------------
\* RingInit => RingInv, RingInv /\ [RingNext]_ring => RingInv'.
LEMMA RingInitIsSafe == RingInit => RingInv
<1> SUFFICES ASSUME RingInit PROVE RingInv
  OBVIOUS
<1>1. TypeOK
  BY RingAssumption DEF RingInit, TypeOK
<1>2. OnlyWrittenSlots
  BY DEF RingInit, OnlyWrittenSlots
<1> QED
  BY <1>1, <1>2 DEF RingInv

LEMMA RingStepIsSafe == RingInv /\ [RingNext]_ring => RingInv'
<1> SUFFICES ASSUME RingInv, [RingNext]_ring PROVE RingInv'
  OBVIOUS
<1>1. Capacity \in Nat \ {0} /\ size \in 0 .. Capacity /\ TypeOK
  BY RingAssumption DEF RingInv, TypeOK
<1>2. \A k \in 1 .. size : Retained[k] # NoItem
  BY DEF RingInv, OnlyWrittenSlots
<1>3. ASSUME NEW v \in Items, Push(v) PROVE RingInv'
  <2>1. v # NoItem
    BY RingAssumption
  <2>2. CASE size < Capacity
    BY <1>1, <1>2, <1>3, <2>1, <2>2, PushSlots DEF RingInv, OnlyWrittenSlots
  <2>3. CASE size = Capacity
    <3>1. /\ TypeOK' /\ size' = size /\ Retained'[size] = v
          /\ \A k \in 1 .. size - 1 : Retained'[k] = Retained[k + 1]
      BY <1>1, <1>3, <2>3, PushSlots
    <3>2. ASSUME NEW k \in 1 .. size PROVE Retained'[k] # NoItem
      <4>1. k = size \/ (k \in 1 .. size - 1 /\ k + 1 \in 1 .. size)
        BY <1>1
      <4> QED
        BY <1>2, <2>1, <3>1, <4>1
    <3> QED
      BY <3>1, <3>2 DEF RingInv, OnlyWrittenSlots
  <2> QED
    BY <1>1, <2>2, <2>3
<1>4. CASE Pop
  <2>1. TypeOK' /\ size' = size - 1 /\ \A k \in 1 .. size' : Retained'[k] = Retained[k + 1]
    BY <1>1, <1>4, PopSlots
  <2>2. \A k \in 1 .. size' : k + 1 \in 1 .. size
    BY <1>1, <2>1
  <2> QED
    BY <1>2, <2>1, <2>2 DEF RingInv, OnlyWrittenSlots
<1>5. CASE Clear
  <2>1. TypeOK'
    BY <1>1, <1>5, RingAssumption DEF Clear, TypeOK
  <2> QED
    BY <1>5, <2>1 DEF Clear, RingInv, OnlyWrittenSlots
<1>6. CASE UNCHANGED ring
  BY <1>6 DEF ring, RingInv, TypeOK, OnlyWrittenSlots, Retained, At
<1> QED
  BY <1>3, <1>4, <1>5, <1>6 DEF RingNext

LEMMA RingInductive == RingSpec => []RingInv
<1> QED
  BY RingInitIsSafe, RingStepIsSafe, PTL DEF RingSpec

\* The index arithmetic of ring_buffer.hpp never leaves the array, and size and
\* head keep to their ranges, for every capacity.
THEOREM TypeCorrect == RingSpec => []TypeOK
<1>1. RingInv => TypeOK
  BY DEF RingInv
<1> QED
  BY <1>1, RingInductive, PTL

\* Walking the buffer through at() only meets slots that push() has written.
THEOREM WalksOnlyWrittenSlots == RingSpec => []OnlyWrittenSlots
<1>1. RingInv => OnlyWrittenSlots
  BY DEF RingInv
<1> QED
  BY <1>1, RingInductive, PTL

-----------------------------------------------------------------------------
\* The initial state and each operation are those of the abstract queue.
LEMMA InitMaps == RingInit => History!Init
<1> SUFFICES ASSUME RingInit PROVE History!Init
  OBVIOUS
<1>1. RingInv
  BY RingInitIsSafe
<1>2. Retained \in Seq(Items) /\ Len(Retained) = 0
  BY <1>1, RetainedIsASequence DEF RetainedIsSeq, RingInit
<1>3. Retained = <<>>
  BY <1>2, EmptySeq
<1> QED
  BY <1>3 DEF RingInit, History!Init

LEMMA PushMaps ==
  ASSUME RingInv, NEW v \in Items, Push(v), RingInv' PROVE History!Push(v)
<1>1. /\ Retained \in Seq(Items) /\ Len(Retained) = size
      /\ DOMAIN Retained = 1 .. size
  BY RetainedIsASequence DEF RetainedIsSeq
<1>2. /\ Retained' \in Seq(Items) /\ Len(Retained') = size'
      /\ DOMAIN Retained' = 1 .. size'
  <2>1. (RingInv => RetainedIsSeq)'
    BY RetainedIsASequence, PTL
  <2> QED
    BY <2>1 DEF RetainedIsSeq
<1>3. TypeOK /\ size \in 0 .. Capacity /\ Capacity \in Nat \ {0}
  BY RingAssumption DEF RingInv, TypeOK
<1>4. CASE size < Capacity
  <2>1. /\ size' = size + 1 /\ dropped_count' = dropped_count
        /\ \A k \in 1 .. size : Retained'[k] = Retained[k]
        /\ Retained'[size'] = v
    BY <1>3, <1>4, PushSlots
  <2>2. /\ Append(Retained, v) \in Seq(Items)
        /\ Len(Append(Retained, v)) = size + 1
        /\ \A k \in 1 .. size : Append(Retained, v)[k] = Retained[k]
        /\ Append(Retained, v)[size + 1] = v
    BY <1>1, AppendProperties
  <2>3. Retained' = Append(Retained, v)
    <3>1. \A k \in 1 .. size + 1 : Retained'[k] = Append(Retained, v)[k]
      BY <1>3, <2>1, <2>2
    <3> QED
      BY <1>2, <2>1, <2>2, <3>1, SeqEqual
  <2> QED
    BY <1>1, <1>4, <2>1, <2>3 DEF History!Push
<1>5. CASE size = Capacity
  <2>1. /\ size' = size /\ dropped_count' = (dropped_count + 1) % CountModulus
        /\ \A k \in 1 .. size - 1 : Retained'[k] = Retained[k + 1]
        /\ Retained'[size] = v
    BY <1>3, <1>5, PushSlots
  <2>2. Retained # <<>>
    BY <1>1, <1>3, <1>5
  <2>3. /\ Tail(Retained) \in Seq(Items) /\ Len(Tail(Retained)) = size - 1
        /\ \A k \in 1 .. size - 1 : Tail(Retained)[k] = Retained[k + 1]
    BY <1>1, <2>2, HeadTailProperties
  <2>4. /\ Append(Tail(Retained), v) \in Seq(Items)
        /\ Len(Append(Tail(Retained), v)) = size
        /\ \A k \in 1 .. size - 1 : Append(Tail(Retained), v)[k] = Tail(Retained)[k]
        /\ Append(Tail(Retained), v)[size] = v
    BY <1>3, <2>3, AppendProperties
  <2>5. Retained' = Append(Tail(Retained), v)
    <3>1. ASSUME NEW k \in 1 .. size PROVE Retained'[k] = Append(Tail(Retained), v)[k]
      <4>1. k = size \/ k \in 1 .. size - 1
        BY <1>3
      <4> QED
        BY <2>1, <2>3, <2>4, <4>1
    <3> QED
      BY <1>2, <2>1, <2>4, <3>1, SeqEqual
  <2> QED
    BY <1>1, <1>3, <1>5, <2>1, <2>5 DEF History!Push
<1> QED
  BY <1>3, <1>4, <1>5

LEMMA PopMaps ==
  ASSUME RingInv, Pop, RingInv' PROVE History!Pop
<1>1. Retained \in Seq(Items) /\ Len(Retained) = size
  BY RetainedIsASequence DEF RetainedIsSeq
<1>2. Retained' \in Seq(Items) /\ Len(Retained') = size'
  <2>1. (RingInv => RetainedIsSeq)'
    BY RetainedIsASequence, PTL
  <2> QED
    BY <2>1 DEF RetainedIsSeq
<1>3. TypeOK /\ size \in 0 .. Capacity /\ Capacity \in Nat \ {0} /\ size # 0
  BY RingAssumption DEF RingInv, TypeOK, Pop
<1>4. size' = size - 1 /\ \A k \in 1 .. size' : Retained'[k] = Retained[k + 1]
  BY <1>3, PopSlots
<1>5. Retained # <<>>
  BY <1>1, <1>3
<1>6. /\ Tail(Retained) \in Seq(Items) /\ Len(Tail(Retained)) = size - 1
      /\ \A k \in 1 .. size - 1 : Tail(Retained)[k] = Retained[k + 1]
  BY <1>1, <1>5, HeadTailProperties
<1>7. Retained' = Tail(Retained)
  BY <1>2, <1>4, <1>6, SeqEqual
<1> QED
  BY <1>5, <1>7 DEF Pop, History!Pop

LEMMA ClearMaps ==
  ASSUME Clear, RingInv' PROVE History!Clear
<1>1. Retained' \in Seq(Items) /\ Len(Retained') = 0
  <2>1. (RingInv => RetainedIsSeq)'
    BY RetainedIsASequence, PTL
  <2> QED
    BY <2>1 DEF RetainedIsSeq, Clear
<1>2. Retained' = <<>>
  BY <1>1, EmptySeq
<1> QED
  BY <1>2 DEF Clear, History!Clear

\* Every ring buffer, of any capacity, is the queue that makes room by
\* discarding its oldest item and counts what it discarded: push, pop and clear
\* each do what the abstract operation of that name does.
THEOREM ImplementsTheQueue == RingSpec => ImplementsHistory
<1>1. RingInv /\ RingInv' /\ [RingNext]_ring => [History!Next]_<<Retained, dropped_count>>
  <2> SUFFICES ASSUME RingInv, RingInv', [RingNext]_ring
               PROVE  [History!Next]_<<Retained, dropped_count>>
    OBVIOUS
  <2>1. ASSUME NEW v \in Items, Push(v) PROVE History!Next
    BY <2>1, PushMaps DEF History!Next
  <2>2. CASE Pop
    BY <2>2, PopMaps DEF History!Next
  <2>3. CASE Clear
    BY <2>3, ClearMaps DEF History!Next
  <2>4. CASE UNCHANGED ring
    BY <2>4 DEF ring, Retained, At
  <2> QED
    BY <2>1, <2>2, <2>3, <2>4 DEF RingNext
<1> QED
  BY <1>1, InitMaps, RingInductive, PTL DEF RingSpec, ImplementsHistory, History!Spec, History!history

-----------------------------------------------------------------------------
\* The event log.

\* What is retained is the end of what was raised, item by item.
NewestInv ==
  /\ size = IF Len(all) < Capacity THEN Len(all) ELSE Capacity
  /\ \A k \in 1 .. size : Retained[k] = all[Len(all) - size + k]

\* The counters of SYS_HK, in terms of the buffer.
CountInv ==
  /\ raised = (size + dropped_count) % CountModulus
  /\ size > 0 => Retained[size].id = last_id

\* What the sink got is the end of what was raised, from `before` on.
SinkInv ==
  /\ before \in 0 .. Len(all) /\ sink_set \in BOOLEAN
  /\ Len(sunk) = Len(all) - before
  /\ \A k \in 1 .. Len(sunk) : sunk[k] = all[before + k]
  /\ ~sink_set => before = Len(all)

\* The inductive invariant of the event log.
LogInv ==
  /\ RingInv
  /\ all \in Seq(Items) /\ sunk \in Seq(Items)
  /\ NewestInv /\ CountInv /\ SinkInv

-----------------------------------------------------------------------------
\* Counting modulo M commutes with taking the remainder.
LEMMA Remainder ==
  ASSUME NEW M \in Nat \ {0}, NEW q \in Nat, NEW r \in 0 .. M - 1
  PROVE  (q * M + r) % M = r
  BY SMT
LEMMA QuotientAndRemainder ==
  ASSUME NEW M \in Nat \ {0}, NEW x \in Nat
  PROVE  \E q \in Nat, r \in 0 .. M - 1 : x = q * M + r /\ x % M = r
  BY SMTT(30)
LEMMA AddModulo ==
  ASSUME NEW M \in Nat \ {0}, NEW x \in Nat, NEW y \in Nat
  PROVE  (x + (y % M)) % M = (x + y) % M
<1>1. PICK q \in Nat, r \in 0 .. M - 1 : y = q * M + r /\ y % M = r
  BY QuotientAndRemainder
<1>2. x + r \in Nat
  OBVIOUS
<1>3. PICK p \in Nat, z \in 0 .. M - 1 : x + r = p * M + z /\ (x + r) % M = z
  BY <1>2, QuotientAndRemainder
<1>4. x + y = (q + p) * M + z
  BY <1>1, <1>3
<1>5. ((q + p) * M + z) % M = z
  <2>1. q + p \in Nat
    OBVIOUS
  <2> QED
    BY <2>1, Remainder
<1> QED
  BY <1>1, <1>3, <1>4, <1>5

-----------------------------------------------------------------------------
\* raise() stores a record with the identifier it was given.
LEMMA RecordIsAnItem ==
  ASSUME NEW id \in EventIds, NEW aux \in Aux PROVE Record(id, aux) \in Items /\ Record(id, aux).id = id
<1> DEFINE severity == IF id \in DOMAIN Severity THEN Severity[id] ELSE LOW
<1>1. severity \in 1 .. 4
  BY EventAssumption DEF LOW
<1> HIDE DEF severity
<1>2. Record(id, aux) = [id |-> id, severity |-> severity, aux |-> aux]
  BY DEF Record, severity
<1> QED
  BY <1>1, <1>2, EventAssumption

LEMMA LogInitIsSafe == LogInit => LogInv
<1> SUFFICES ASSUME LogInit PROVE LogInv
  OBVIOUS
<1>1. RingInv
  BY RingInitIsSafe DEF LogInit
<1>2. all \in Seq(Items) /\ sunk \in Seq(Items) /\ Len(all) = 0 /\ Len(sunk) = 0
  BY EmptySeq DEF LogInit
<1>3. size = 0 /\ dropped_count = 0 /\ raised = 0
  BY DEF LogInit, RingInit
<1>4. Capacity \in Nat \ {0} /\ CountModulus \in Nat \ {0}
  BY RingAssumption
<1>5. NewestInv
  BY <1>2, <1>3, <1>4 DEF NewestInv
<1>6. CountInv
  <2>1. 0 \in 0 .. CountModulus - 1
    BY <1>4
  <2>2. 0 % CountModulus = 0
    BY <1>4, <2>1, ModBelow
  <2> QED
    BY <1>3, <2>2 DEF CountInv
<1>7. SinkInv
  <2>1. sink_set \in BOOLEAN
    BY Zenon DEF LogInit
  <2>2. before = 0
    BY DEF LogInit
  <2> QED
    BY <1>2, <2>1, <2>2 DEF SinkInv
<1> QED
  BY <1>1, <1>2, <1>5, <1>6, <1>7 DEF LogInv

\* raise() keeps the invariant: the buffer by PushSlots, the counters by
\* AddModulo, history and sink item by item.
LEMMA RaiseIsSafe ==
  ASSUME LogInv, NEW id \in EventIds, NEW aux \in Aux, Raise(id, aux) PROVE LogInv'
<1> DEFINE v == Record(id, aux)
<1>1. v \in Items /\ v.id = id
  BY RecordIsAnItem
<1>2. /\ Push(v)
      /\ raised' = (raised + 1) % CountModulus /\ last_id' = id
      /\ sunk' = IF sink_set THEN Append(sunk, v) ELSE sunk
      /\ all' = Append(all, v)
      /\ before' = IF sink_set THEN before ELSE before + 1
      /\ sink_set' = sink_set
  BY DEF Raise
<1> HIDE DEF v
<1>3. /\ TypeOK /\ RingInv
      /\ Capacity \in Nat \ {0} /\ CountModulus \in Nat \ {0}
      /\ size \in 0 .. Capacity /\ dropped_count \in Nat
      /\ all \in Seq(Items) /\ sunk \in Seq(Items)
  BY RingAssumption DEF LogInv, RingInv, TypeOK
<1>4. RingInv'
  <2>1. Push(v) => [RingNext]_ring
    BY <1>1 DEF RingNext
  <2> QED
    BY <1>2, <1>3, <2>1, RingStepIsSafe
<1>5. /\ all' \in Seq(Items) /\ Len(all') = Len(all) + 1 /\ Len(all) \in Nat
      /\ \A k \in 1 .. Len(all) : all'[k] = all[k]
      /\ all'[Len(all) + 1] = v
  BY <1>1, <1>2, <1>3, AppendProperties, LenProperties
<1>6. NewestInv /\ CountInv /\ SinkInv
  BY DEF LogInv
<1>7. /\ size < Capacity =>
            /\ size' = size + 1 /\ dropped_count' = dropped_count
            /\ \A k \in 1 .. size : Retained'[k] = Retained[k]
      /\ size = Capacity =>
            /\ size' = size /\ dropped_count' = (dropped_count + 1) % CountModulus
            /\ \A k \in 1 .. size - 1 : Retained'[k] = Retained[k + 1]
      /\ Retained'[size'] = v
  BY <1>1, <1>2, <1>3, PushSlots
<1>8. NewestInv'
  <2>1. size' = IF Len(all') < Capacity THEN Len(all') ELSE Capacity
    BY <1>3, <1>5, <1>6, <1>7 DEF NewestInv
  <2>2. ASSUME NEW k \in 1 .. size' PROVE Retained'[k] = all'[Len(all') - size' + k]
    <3>1. CASE k = size'
      <4>1. Len(all') - size' + k = Len(all) + 1
        BY <1>3, <1>5, <2>1, <3>1
      <4> QED
        BY <1>5, <1>7, <3>1, <4>1
    <3>2. CASE k # size' /\ size < Capacity
      <4>1. k \in 1 .. size /\ size' = size + 1 /\ size = Len(all)
        BY <1>3, <1>5, <1>6, <1>7, <3>2 DEF NewestInv
      <4>2. Len(all') - size' + k = k /\ Len(all) - size + k = k /\ k \in 1 .. Len(all)
        BY <1>3, <1>5, <4>1
      <4>3. Retained'[k] = Retained[k] /\ Retained[k] = all[Len(all) - size + k]
        BY <1>6, <1>7, <3>2, <4>1 DEF NewestInv
      <4> QED
        BY <1>5, <4>2, <4>3
    <3>3. CASE k # size' /\ size = Capacity
      <4>1. /\ k \in 1 .. size - 1 /\ k + 1 \in 1 .. size /\ size' = size
            /\ size <= Len(all)
        BY <1>3, <1>5, <1>6, <1>7, <3>3 DEF NewestInv
      <4>2. /\ Len(all') - size' + k = Len(all) - size + (k + 1)
            /\ Len(all) - size + (k + 1) \in 1 .. Len(all)
        BY <1>3, <1>5, <4>1
      <4>3. Retained'[k] = Retained[k + 1] /\ Retained[k + 1] = all[Len(all) - size + (k + 1)]
        BY <1>6, <1>7, <3>3, <4>1 DEF NewestInv
      <4> QED
        BY <1>5, <4>2, <4>3
    <3> QED
      BY <1>3, <3>1, <3>2, <3>3
  <2> QED
    BY <2>1, <2>2 DEF NewestInv
<1>9. CountInv'
  <2>1. raised' = (size + dropped_count + 1) % CountModulus
    <3>1. size + dropped_count \in Nat
      BY <1>3
    <3>2. (1 + ((size + dropped_count) % CountModulus)) % CountModulus
            = (1 + (size + dropped_count)) % CountModulus
      BY <1>3, <3>1, AddModulo
    <3>3. raised = (size + dropped_count) % CountModulus /\ raised \in Nat
      BY <1>3, <1>6, <3>1 DEF CountInv
    <3>4. 1 + raised = raised + 1 /\ 1 + (size + dropped_count) = size + dropped_count + 1
      BY <1>3, <3>3
    <3>5. (1 + raised) % CountModulus = (1 + (size + dropped_count)) % CountModulus
      BY <3>2, <3>3, Zenon
    <3> QED
      BY <1>2, <3>4, <3>5, Zenon
  <2>2. CASE size < Capacity
    <3>1. size' + dropped_count' = size + dropped_count + 1
      BY <1>3, <1>7, <2>2
    <3> QED
      BY <1>1, <1>2, <1>7, <2>1, <3>1 DEF CountInv
  <2>3. CASE size = Capacity
    <3>1. (size + ((dropped_count + 1) % CountModulus)) % CountModulus
            = (size + (dropped_count + 1)) % CountModulus
      <4>1. size \in Nat /\ dropped_count + 1 \in Nat
        BY <1>3
      <4> QED
        BY <1>3, <4>1, AddModulo
    <3>2. size + (dropped_count + 1) = size + dropped_count + 1
      BY <1>3
    <3>3. size' = size /\ dropped_count' = (dropped_count + 1) % CountModulus
      BY <1>7, <2>3
    <3>4. raised' = (size' + dropped_count') % CountModulus
      BY <2>1, <3>1, <3>2, <3>3, Zenon
    <3> QED
      BY <1>1, <1>2, <1>7, <3>4 DEF CountInv
  <2> QED
    BY <1>3, <2>2, <2>3
<1>10. sunk' \in Seq(Items) /\ SinkInv'
  <2>1. CASE sink_set
    <3>1. /\ sunk' \in Seq(Items) /\ Len(sunk') = Len(sunk) + 1
          /\ \A k \in 1 .. Len(sunk) : sunk'[k] = sunk[k]
          /\ sunk'[Len(sunk) + 1] = v /\ Len(sunk) \in Nat
      BY <1>1, <1>2, <1>3, <2>1, AppendProperties, LenProperties
    <3>2. /\ before' = before /\ before \in 0 .. Len(all)
          /\ Len(sunk) = Len(all) - before
          /\ \A k \in 1 .. Len(sunk) : sunk[k] = all[before + k]
      BY <1>2, <1>6, <2>1 DEF SinkInv
    <3>3. ASSUME NEW k \in 1 .. Len(sunk') PROVE sunk'[k] = all'[before' + k]
      <4>1. CASE k = Len(sunk) + 1
        BY <1>5, <3>1, <3>2, <4>1
      <4>2. CASE k \in 1 .. Len(sunk)
        <5>1. before + k \in 1 .. Len(all)
          BY <1>5, <3>1, <3>2, <4>2
        <5> QED
          BY <1>5, <3>1, <3>2, <4>2, <5>1
      <4> QED
        BY <3>1, <4>1, <4>2
    <3>4. Len(sunk') = Len(all') - before' /\ before' \in 0 .. Len(all')
      BY <1>5, <3>1, <3>2
    <3> QED
      BY <1>2, <1>6, <2>1, <3>1, <3>3, <3>4 DEF SinkInv
  <2>2. CASE ~sink_set
    <3>1. sunk' = sunk /\ before' = before + 1 /\ before = Len(all) /\ Len(sunk) = 0
      BY <1>2, <1>5, <1>6, <2>2 DEF SinkInv
    <3> QED
      BY <1>2, <1>3, <1>5, <1>6, <2>2, <3>1 DEF SinkInv
  <2> QED
    BY <2>1, <2>2
<1> QED
  BY <1>4, <1>5, <1>8, <1>9, <1>10 DEF LogInv

LEMMA LogStepIsSafe == LogInv /\ [LogNext]_logVars => LogInv'
<1> SUFFICES ASSUME LogInv, [LogNext]_logVars PROVE LogInv'
  OBVIOUS
<1>1. ASSUME NEW id \in EventIds, NEW aux \in Aux, Raise(id, aux) PROVE LogInv'
  BY <1>1, RaiseIsSafe
<1>2. CASE UNCHANGED <<ring, raised, last_id, sunk, all, before>> /\ sink_set' \in {TRUE, sink_set}
  <2>1. /\ items' = items /\ head' = head /\ size' = size /\ dropped_count' = dropped_count
        /\ raised' = raised /\ last_id' = last_id /\ sunk' = sunk /\ all' = all
        /\ before' = before
    BY <1>2 DEF ring
  <2>2. Retained' = Retained
    BY <2>1 DEF Retained, At
  <2>3. RingInv'
    BY <2>1, <2>2 DEF LogInv, RingInv, TypeOK, OnlyWrittenSlots
  <2>4. NewestInv' /\ CountInv'
    BY <2>1, <2>2 DEF LogInv, NewestInv, CountInv
  <2>5. SinkInv'
    <3>1. sink_set' \in BOOLEAN /\ (~sink_set' => ~sink_set)
      BY <1>2, Zenon DEF LogInv, SinkInv
    <3> QED
      BY <2>1, <3>1 DEF LogInv, SinkInv
  <2> QED
    BY <2>1, <2>3, <2>4, <2>5 DEF LogInv
<1>3. SetSink \/ UNCHANGED logVars
        => UNCHANGED <<ring, raised, last_id, sunk, all, before>> /\ sink_set' \in {TRUE, sink_set}
  BY Zenon DEF SetSink, logVars, eventVars
<1> QED
  BY <1>1, <1>2, <1>3 DEF LogNext

\* Everything below is read off this invariant of the event log.
LEMMA LogInductive == LogSpec => []LogInv
<1> QED
  BY LogInitIsSafe, LogStepIsSafe, PTL DEF LogSpec

\* The end of a sequence, item by item.
LEMMA LastIsTheEnd ==
  ASSUME NEW s \in Seq(Items), NEW t \in Seq(Items), Len(t) <= Len(s),
         \A k \in 1 .. Len(t) : t[k] = s[Len(s) - Len(t) + k]
  PROVE  t = Last(s, Len(t))
<1> DEFINE m == Len(s) - Len(t) + 1
<1>1. Len(s) \in Nat /\ Len(t) \in Nat /\ m \in 1 .. Len(s) + 1
  BY LenProperties
<1>2. /\ SubSeq(s, m, Len(s)) \in Seq(Items)
      /\ Len(SubSeq(s, m, Len(s))) = Len(t)
      /\ \A k \in 1 .. Len(t) : SubSeq(s, m, Len(s))[k] = s[m + k - 1]
  BY <1>1, SubSeqProperties
<1>3. \A k \in 1 .. Len(t) : m + k - 1 = Len(s) - Len(t) + k
  BY <1>1
<1>4. t = SubSeq(s, m, Len(s))
  BY <1>2, <1>3, SeqEqual
<1> QED
  BY <1>4 DEF Last

\* However many events were raised, the history holds exactly the newest of
\* them, in the order of raise().
THEOREM HistoryIsRight == LogSpec => []HistoryIsTheNewest
<1>1. LogInv => HistoryIsTheNewest
  <2> SUFFICES ASSUME LogInv PROVE HistoryIsTheNewest
    OBVIOUS
  <2>1. RetainedIsSeq /\ all \in Seq(Items) /\ NewestInv /\ Capacity \in Nat /\ size \in Nat
    BY RetainedIsASequence, RingAssumption DEF LogInv, RingInv, TypeOK
  <2>2. Len(Retained) = size /\ size <= Len(all)
    BY <2>1, LenProperties DEF RetainedIsSeq, NewestInv
  <2>3. Retained = Last(all, Len(Retained))
    BY <2>1, <2>2, LastIsTheEnd DEF RetainedIsSeq, NewestInv
  <2> QED
    BY <2>1, <2>2, <2>3 DEF HistoryIsTheNewest, NewestInv
<1> QED
  BY <1>1, LogInductive, PTL

\* events_logged and last_event_id describe the history they are reported with,
\* also after both counters have wrapped.
THEOREM CountersAreRight == LogSpec => []CountersAgree
<1>1. LogInv => CountersAgree
  <2> SUFFICES ASSUME LogInv PROVE CountersAgree
    OBVIOUS
  <2>1. size \in Nat /\ CountInv
    BY RingAssumption DEF LogInv, RingInv, TypeOK
  <2>2. size > 0 => Retained[size] = At(size - 1)
    BY <2>1 DEF Retained
  <2> QED
    BY <2>1, <2>2 DEF CountersAgree, CountInv
<1> QED
  BY <1>1, LogInductive, PTL

\* The sink, TtcApp's ST[5] reports, is handed every event raised since it was
\* installed, in order.
THEOREM SinkIsComplete == LogSpec => []SinkMissesNothing
<1>1. LogInv => SinkMissesNothing
  <2> SUFFICES ASSUME LogInv PROVE SinkMissesNothing
    OBVIOUS
  <2>1. all \in Seq(Items) /\ sunk \in Seq(Items) /\ SinkInv /\ Len(all) \in Nat
    BY LenProperties DEF LogInv
  <2>2. /\ Len(sunk) = Len(all) - before /\ Len(sunk) <= Len(all)
        /\ Len(all) - Len(sunk) = before
    BY <2>1 DEF SinkInv
  <2>3. sunk = Last(all, Len(sunk))
    BY <2>1, <2>2, LastIsTheEnd DEF SinkInv
  <2> QED
    BY <2>2, <2>3 DEF SinkMissesNothing
<1> QED
  BY <1>1, LogInductive, PTL

-----------------------------------------------------------------------------
\* The parameter store.
OnGrid(v) == v % Grid = 0

Entry == [type : Types, min : Nat, max : Nat, default : Nat]

\* A table of this build: one value per parameter, exactly representable, each
\* what the type makes of a value within the limits.
IsTable(vs) ==
  /\ vs \in Seq(Int) /\ Len(vs) = Len(build)
  /\ \A i \in DOMAIN build : OnGrid(vs[i]) /\ Vouched(i, vs[i])

TypeInv ==
  /\ build \in Builds /\ IsTable(values)
  /\ dirty \in BOOLEAN /\ phase \in {"off", "running", "saving"}
  /\ nvm \in [count : Nat, values : Seq(Int), crc : {<<>>} \cup (Nat \X Seq(Int))]
  /\ kept \in Seq(Int)

\* Tables that were saved are exactly representable, and a CRC in the storage
\* is that of one of them, whatever became of the content since.
StoredInv ==
  /\ \A t \in saved : t \in Seq(Int) /\ \A i \in DOMAIN t : OnGrid(t[i])
  /\ nvm.crc = <<>> \/ \E t \in saved : nvm.crc = <<Len(t), t>>

\* A clean table that was loaded is the one in the storage.
LoadedInv ==
  phase = "running" /\ status = "Ok" /\ ~dirty => nvm = Block(values)

\* A promised table is in the storage and will pass every check of the load.
KeptInv ==
  kept # <<>> /\ Representable =>
    /\ nvm = Block(kept) /\ IsTable(kept)
    /\ phase # "off" => status = "Ok"

StoreInv == TypeInv /\ StoredInv /\ LoadedInv /\ KeptInv /\ CleanMeansUnchanged

-----------------------------------------------------------------------------
\* Quotient and remainder, and that they are unique.
LEMMA Divided ==
  ASSUME NEW v \in Int
  PROVE  \E q \in Int, r \in 0 .. Grid - 1 : v = (q * Grid) + r /\ v % Grid = r
BY StoreAssumption, SMTT(30)

LEMMA RemainderOf ==
  ASSUME NEW q \in Int, NEW r \in 0 .. Grid - 1
  PROVE  ((q * Grid) + r) % Grid = r
BY StoreAssumption, SMTT(30)

\* Truncating gives the next representable value at or below.
LEMMA TruncateIsBelow ==
  ASSUME NEW v \in Int
  PROVE  /\ Truncate(v) \in Int /\ OnGrid(Truncate(v))
         /\ Truncate(v) <= v /\ v < Truncate(v) + Grid
<1>1. PICK q \in Int, r \in 0 .. Grid - 1 : v = (q * Grid) + r /\ v % Grid = r
  BY Divided
<1>2. PICK p \in Int : p = q * Grid
  BY StoreAssumption
<1>3. Truncate(v) = p
  BY <1>1, <1>2, StoreAssumption DEF Truncate
<1>4. ((q * Grid) + 0) % Grid = 0
  BY RemainderOf, StoreAssumption
<1>5. p % Grid = 0
  BY <1>2, <1>4
<1> QED
  BY <1>1, <1>2, <1>3, <1>5, StoreAssumption DEF OnGrid

\* A representable value stays what it is, also with less than a step added.
LEMMA TruncateKeepsGrid ==
  ASSUME NEW v \in Int, OnGrid(v), NEW h \in 0 .. Grid - 1
  PROVE  Truncate(v + h) = v
<1>1. PICK q \in Int, r \in 0 .. Grid - 1 : v = (q * Grid) + r /\ v % Grid = r
  BY Divided
<1>2. v = q * Grid
  BY <1>1, StoreAssumption DEF OnGrid
<1>3. ((q * Grid) + h) % Grid = h
  BY RemainderOf
<1>4. (v + h) % Grid = h
  BY <1>2, <1>3
<1> QED
  BY <1>4, StoreAssumption DEF Truncate

\* Two representable values lie a whole number of steps apart.
LEMMA GridIsSpaced ==
  ASSUME NEW v \in Int, NEW w \in Int, OnGrid(v), OnGrid(w), v < w + Grid
  PROVE  v <= w
<1>1. PICK q \in Int, r \in 0 .. Grid - 1 : v = (q * Grid) + r /\ v % Grid = r
  BY Divided
<1>2. PICK p \in Int, t \in 0 .. Grid - 1 : w = (p * Grid) + t /\ w % Grid = t
  BY Divided
<1>3. v = q * Grid /\ w = p * Grid
  BY <1>1, <1>2, StoreAssumption DEF OnGrid
<1>4. q < p + 1
  BY <1>3, StoreAssumption
<1>5. q <= p
  BY <1>4
<1> QED
  BY <1>3, <1>5, StoreAssumption

\* Rounding and truncating keep the order of values.
LEMMA TruncateIsMonotone ==
  ASSUME NEW v \in Int, NEW w \in Int, v <= w
  PROVE  Truncate(v) <= Truncate(w)
BY TruncateIsBelow, GridIsSpaced, StoreAssumption, SMTT(30)

LEMMA HalfGrid == Grid \div 2 \in 0 .. Grid - 1
BY StoreAssumption

\* What a type makes of a value is representable; of a representable value it is
\* the value; and limits that are representable are not crossed.
LEMMA QuantiseFacts ==
  ASSUME NEW type, NEW v \in Int
  PROVE  /\ Quantise(type, v) \in Int /\ OnGrid(Quantise(type, v))
         /\ OnGrid(v) => Quantise(type, v) = v
         /\ \A w \in Int : v <= w => Quantise(type, v) <= Quantise(type, w)
<1> DEFINE h == Grid \div 2
<1>1. h \in 0 .. Grid - 1 /\ h \in Int
  BY HalfGrid, StoreAssumption
<1> HIDE DEF h
<1>2. CASE type = "U32"
  <2>1. Truncate(v) \in Int /\ OnGrid(Truncate(v))
    BY TruncateIsBelow
  <2>2. OnGrid(v) => Truncate(v + 0) = v
    BY TruncateKeepsGrid, StoreAssumption
  <2>3. v + 0 = v
    OBVIOUS
  <2> QED
    BY <1>2, <2>1, <2>2, <2>3, TruncateIsMonotone DEF Quantise
<1>3. CASE type # "U32"
  <2>1. Round(v) = Truncate(v + h) /\ \A w \in Int : Round(w) = Truncate(w + h)
    BY DEF Round, h
  <2>2. Truncate(v + h) \in Int /\ OnGrid(Truncate(v + h))
    BY <1>1, TruncateIsBelow
  <2>3. OnGrid(v) => Truncate(v + h) = v
    BY <1>1, TruncateKeepsGrid
  <2>4. \A w \in Int : v <= w => Truncate(v + h) <= Truncate(w + h)
    BY <1>1, TruncateIsMonotone
  <2> QED
    BY <1>3, <2>1, <2>2, <2>3, <2>4 DEF Quantise
<1> QED
  BY <1>2, <1>3

-----------------------------------------------------------------------------
LEMMA Dictionary ==
  ASSUME build \in Builds
  PROVE  /\ build \in Seq(Entry)
         /\ \A i \in DOMAIN build :
              /\ build[i].min \in Nat /\ build[i].max \in Nat /\ build[i].default \in Nat
              /\ build[i].min <= build[i].default /\ build[i].default <= build[i].max
              /\ OnGrid(build[i].default)
              /\ NaN \notin build[i].min .. build[i].max
<1>1. build \in Seq(Entry)
  BY BuildsAssumption DEF Entry
<1>2. \A i \in DOMAIN build : build[i] \in Entry
  BY <1>1
<1> QED
  BY <1>1, <1>2, BuildsAssumption DEF Entry, OnGrid

\* A value that passes the range check, and is a number, lies within the limits.
LEMMA InLimits ==
  ASSUME build \in Builds, NEW i \in DOMAIN build, NEW v \in Int
  PROVE  v # NaN /\ ~OutOfLimits(build[i], v) <=> v \in build[i].min .. build[i].max
<1>1. /\ build[i].min \in Nat /\ build[i].max \in Nat
      /\ build[i].min # NaN /\ build[i].max # NaN
      /\ NaN \notin build[i].min .. build[i].max
  BY Dictionary
<1> QED
  BY <1>1, StoreAssumption DEF OutOfLimits, Less

LEMMA DefaultsAreATable ==
  ASSUME build \in Builds
  PROVE  IsTable(Defaults(build))
<1> DEFINE d == Defaults(build)
<1>1. build \in Seq(Entry) /\ Len(build) \in Nat /\ DOMAIN build = 1 .. Len(build)
  BY Dictionary
<1>2. \A i \in DOMAIN build : build[i].default \in Int
  BY Dictionary
<1>3. d \in Seq(Int) /\ Len(d) = Len(build) /\ \A i \in DOMAIN build : d[i] = build[i].default
  BY <1>1, <1>2 DEF Defaults
<1>4. ASSUME NEW i \in DOMAIN build
      PROVE  OnGrid(d[i]) /\ Vouched(i, d[i])
  <2>1. OnGrid(build[i].default) /\ build[i].default \in build[i].min .. build[i].max
    BY Dictionary
  <2>2. Quantise(build[i].type, build[i].default) = build[i].default
    BY <1>2, <2>1, QuantiseFacts
  <2> QED
    BY <1>3, <2>1, <2>2 DEF Vouched
<1> QED
  BY <1>3, <1>4 DEF IsTable

\* A block that passes the load was saved whole, and loading it gives that table.
LEMMA LoadGivesASavedTable ==
  ASSUME TypeInv, StoredInv, LoadStatus(nvm) = "Ok"
  PROVE  /\ nvm.values \in saved /\ Load(nvm) = nvm.values
         /\ IsTable(nvm.values) /\ nvm = Block(nvm.values)
<1> DEFINE t == nvm.values
<1>1. /\ Intact(nvm) /\ nvm.count = Len(build)
      /\ \A i \in DOMAIN build : t[i] # NaN /\ ~OutOfLimits(build[i], t[i])
  BY DEF LoadStatus
<1>2. PICK s \in saved : nvm.crc = <<Len(s), s>>
  BY <1>1 DEF StoredInv, Intact
<1>3. nvm.count = Len(t) /\ t \in saved /\ nvm.crc = <<Len(t), t>>
  BY <1>1, <1>2 DEF Intact
<1>4. nvm = Block(t)
  BY <1>3 DEF TypeInv, Block
<1>5. t \in Seq(Int) /\ Len(t) = Len(build) /\ \A i \in DOMAIN t : OnGrid(t[i])
  BY <1>1, <1>3 DEF StoredInv
<1>6. /\ build \in Seq(Entry) /\ Len(build) \in Nat
      /\ DOMAIN build = 1 .. Len(build) /\ DOMAIN t = DOMAIN build
  BY <1>5, Dictionary DEF TypeInv
<1>7. \A i \in DOMAIN build : t[i] \in Int /\ Quantise(build[i].type, t[i]) = t[i]
  BY <1>5, <1>6, QuantiseFacts
<1>8. \A i \in DOMAIN build : t[i] \in build[i].min .. build[i].max
  BY <1>1, <1>7, InLimits DEF TypeInv
<1>9. IsTable(t)
  BY <1>5, <1>6, <1>7, <1>8 DEF IsTable, Vouched
<1>10. Load(nvm) = t
  BY <1>5, <1>6, <1>7, SMTT(30) DEF Load
<1> QED
  BY <1>3, <1>4, <1>9, <1>10

\* A block that holds a table of this build passes the load, when the limits are
\* representable: no rounding then leaves them.
LEMMA TablesPassTheLoad ==
  ASSUME build \in Builds, Representable, NEW t, IsTable(t)
  PROVE  LoadStatus(Block(t)) = "Ok" /\ Load(Block(t)) = t
<1>1. /\ build \in Seq(Entry) /\ Len(build) \in Nat
      /\ DOMAIN build = 1 .. Len(build) /\ DOMAIN t = DOMAIN build
      /\ t \in Seq(Int) /\ Len(t) = Len(build)
  BY Dictionary DEF IsTable
<1>2. ASSUME NEW i \in DOMAIN build
      PROVE  /\ t[i] \in build[i].min .. build[i].max
             /\ Quantise(build[i].type, t[i]) = t[i]
  <2>1. /\ build[i].min \in Int /\ build[i].max \in Int
        /\ OnGrid(build[i].min) /\ OnGrid(build[i].max)
    BY Dictionary DEF Representable, OnGrid
  <2>2. PICK x \in build[i].min .. build[i].max : t[i] = Quantise(build[i].type, x)
    BY DEF IsTable, Vouched
  <2>3. x \in Int /\ build[i].min <= x /\ x <= build[i].max
    BY <2>1, <2>2
  <2>4. /\ Quantise(build[i].type, build[i].min) = build[i].min
        /\ Quantise(build[i].type, build[i].max) = build[i].max
    BY <2>1, QuantiseFacts
  <2>5. build[i].min <= t[i] /\ t[i] <= build[i].max /\ t[i] \in Int /\ OnGrid(t[i])
    BY <2>1, <2>2, <2>3, <2>4, QuantiseFacts
  <2> QED
    BY <2>1, <2>5, QuantiseFacts
<1>3. \A i \in DOMAIN build : t[i] # NaN /\ ~OutOfLimits(build[i], t[i])
  BY <1>1, <1>2, InLimits
<1>4. Block(t).values = t /\ Block(t).count = Len(build) /\ Intact(Block(t))
  BY <1>1 DEF Block, Intact
<1>5. LoadStatus(Block(t)) = "Ok"
  BY <1>3, <1>4 DEF LoadStatus
<1>6. Load(Block(t)) = t
  BY <1>1, <1>2, <1>4 DEF Load
<1> QED
  BY <1>5, <1>6

-----------------------------------------------------------------------------
LEMMA InitInv == Init => StoreInv
<1> SUFFICES ASSUME Init PROVE StoreInv
  OBVIOUS
<1> USE DEF Init
<1>1. IsTable(values)
  BY DefaultsAreATable
<1>2. nvm \in [count : Nat, values : Seq(Int), crc : {<<>>} \cup (Nat \X Seq(Int))]
  BY DEF Blank
<1>3. <<>> \in Seq(Int)
  OBVIOUS
<1>4. TypeInv
  BY <1>1, <1>2, <1>3 DEF TypeInv
<1>5. StoredInv /\ LoadedInv /\ KeptInv /\ CleanMeansUnchanged
  BY DEF StoredInv, LoadedInv, KeptInv, CleanMeansUnchanged, Blank
<1> QED
  BY <1>4, <1>5 DEF StoreInv

\* What a boot runs on, in the words of the theorems below.
LEMMA BootEffect ==
  ASSUME StoreInv, Boot
  PROVE  /\ IsTable(values') /\ values' \in saved \cup {Defaults(build)}
         /\ status' = "Ok" => values' = nvm.values /\ nvm = Block(values')
         /\ kept' # <<>> /\ Representable =>
              status' = "Ok" /\ kept' = kept /\ values' = kept
<1>1. TypeInv /\ StoredInv /\ KeptInv /\ build \in Builds
  BY DEF StoreInv, TypeInv
<1>2. PICK readable \in BOOLEAN :
        LET s == IF readable THEN LoadStatus(nvm) ELSE "IoError"
        IN /\ status' = s /\ values' = BootTable(s)
           /\ kept' = IF readable THEN kept ELSE <<>>
  BY DEF Boot
<1>3. CASE status' = "Ok"
  <2>1. LoadStatus(nvm) = "Ok" /\ values' = Load(nvm)
    BY <1>2, <1>3 DEF BootTable
  <2>2. /\ values' \in saved /\ IsTable(values')
        /\ values' = nvm.values /\ nvm = Block(values')
    BY <1>1, <2>1, LoadGivesASavedTable
  <2>3. kept' # <<>> /\ Representable => kept' = kept /\ values' = kept
    BY <1>1, <1>2, <2>1, TablesPassTheLoad DEF KeptInv
  <2> QED
    BY <1>3, <2>2, <2>3
<1>4. CASE status' # "Ok"
  <2>1. values' = Defaults(build) /\ IsTable(values')
    BY <1>1, <1>2, <1>4, DefaultsAreATable DEF BootTable
  <2>2. ~(kept' # <<>> /\ Representable)
    BY <1>1, <1>2, <1>4, TablesPassTheLoad DEF KeptInv
  <2> QED
    BY <1>4, <2>1, <2>2
<1> QED
  BY <1>3, <1>4

\* A written value leaves a table of this build.
LEMMA SetEffect ==
  ASSUME TypeInv, NEW i \in 1 .. Len(build) + 1, NEW v \in Inputs, Set(i, v)
  PROVE  IsTable(values')
<1>1. build \in Builds /\ IsTable(values) /\ v \in Int
  BY StoreAssumption DEF TypeInv
<1>2. /\ build \in Seq(Entry) /\ Len(build) \in Nat
      /\ DOMAIN build = 1 .. Len(build) /\ DOMAIN values = DOMAIN build
      /\ values \in Seq(Int) /\ Len(values) = Len(build)
  BY <1>1, Dictionary DEF IsTable
<1>3. i \in DOMAIN build /\ ~OutOfLimits(build[i], v) /\ v # NaN
  BY DEF Set, SetStatus
<1>4. v \in build[i].min .. build[i].max
  BY <1>1, <1>3, InLimits
<1> DEFINE w == Quantise(build[i].type, v)
<1>5. w \in Int /\ OnGrid(w) /\ Vouched(i, w)
  BY <1>1, <1>4, QuantiseFacts DEF Vouched
<1>6. values' = [values EXCEPT ![i] = w]
  BY DEF Set
<1> HIDE DEF w
<1>7. values' \in Seq(Int) /\ Len(values') = Len(build)
  BY <1>2, <1>3, <1>5, <1>6
<1>8. \A j \in DOMAIN build : values'[j] = IF j = i THEN w ELSE values[j]
  BY <1>2, <1>6
<1>9. \A j \in DOMAIN build : OnGrid(values'[j]) /\ Vouched(j, values'[j])
  BY <1>1, <1>5, <1>8 DEF IsTable
<1> QED
  BY <1>7, <1>9 DEF IsTable

-----------------------------------------------------------------------------
\* A table stays a table, and limits representable, until an upload.
LEMMA TablesStay ==
  ASSUME UNCHANGED build
  PROVE  /\ Representable' <=> Representable
         /\ IsTable(values') => IsTable(values)'
         /\ kept' # <<>> => (IsTable(kept') => IsTable(kept)')
BY DEF Representable, IsTable, Vouched

LEMMA Step == StoreInv /\ [Next]_vars => StoreInv'
<1> SUFFICES ASSUME StoreInv, [Next]_vars PROVE StoreInv'
  OBVIOUS
<1>0. TypeInv /\ StoredInv /\ LoadedInv /\ KeptInv /\ CleanMeansUnchanged
  BY DEF StoreInv
<1>1. CASE Boot
  <2>1. /\ UNCHANGED <<build, nvm, saved>>
        /\ booted' = values' /\ dirty' = FALSE /\ phase' = "running"
    BY <1>1 DEF Boot
  <2>2. kept' = kept \/ kept' = <<>>
    BY <1>1 DEF Boot
  <2>3. TypeInv'
    <3>1. <<>> \in Seq(Int)
      OBVIOUS
    <3>2. kept' \in Seq(Int)
      BY <1>0, <2>2, <3>1 DEF TypeInv
    <3> QED
      BY <1>0, <1>1, <2>1, <3>2, BootEffect, TablesStay DEF TypeInv
  <2>4. StoredInv' /\ CleanMeansUnchanged'
    BY <1>0, <2>1 DEF StoredInv, CleanMeansUnchanged
  <2>5. LoadedInv'
    BY <1>1, <2>1, BootEffect DEF LoadedInv, Block
  <2>6. KeptInv'
    <3>1. SUFFICES ASSUME kept' # <<>>, Representable'
                   PROVE  nvm' = Block(kept') /\ IsTable(kept)' /\ status' = "Ok"
      BY DEF KeptInv, Block
    <3>2. Representable
      BY <2>1, <3>1, TablesStay
    <3>3. status' = "Ok" /\ kept' = values' /\ nvm = Block(values') /\ IsTable(values')
      BY <1>1, <3>1, <3>2, BootEffect
    <3> QED
      BY <2>1, <3>1, <3>3, TablesStay
  <2> QED
    BY <2>3, <2>4, <2>5, <2>6 DEF StoreInv
<1>2. CASE Shutdown
  <2>1. UNCHANGED <<build, values, dirty, nvm, status, booted, saved>> /\ phase = "running"
    BY <1>2 DEF Shutdown
  <2>2. /\ phase' \in {"off", "saving"}
        /\ \/ ~dirty /\ status = "Ok" /\ kept' = values
           \/ kept' = kept
    BY <1>2 DEF Shutdown
  <2>3. TypeInv'
    <3>1. kept' \in Seq(Int)
      BY <1>0, <2>2 DEF TypeInv, IsTable
    <3> QED
      BY <1>0, <2>1, <2>2, <3>1, TablesStay DEF TypeInv
  <2>4. StoredInv' /\ LoadedInv' /\ CleanMeansUnchanged'
    BY <1>0, <2>1, <2>2 DEF StoredInv, LoadedInv, CleanMeansUnchanged
  <2>5. KeptInv'
    <3>1. SUFFICES ASSUME kept' # <<>>, Representable'
                   PROVE  nvm' = Block(kept') /\ IsTable(kept)' /\ status' = "Ok"
      BY DEF KeptInv, Block
    <3>2. Representable
      BY <2>1, <3>1, TablesStay
    <3>3. nvm = Block(kept') /\ IsTable(kept') /\ status = "Ok"
      <4>1. CASE ~dirty /\ status = "Ok" /\ kept' = values
        BY <1>0, <2>1, <4>1 DEF LoadedInv, TypeInv
      <4>2. CASE kept' = kept
        BY <1>0, <2>1, <3>1, <3>2, <4>2 DEF KeptInv
      <4> QED
        BY <2>2, <4>1, <4>2
    <3> QED
      BY <2>1, <3>1, <3>3, TablesStay
  <2> QED
    BY <2>3, <2>4, <2>5 DEF StoreInv
<1>3. CASE Save
  <2>1. /\ UNCHANGED <<build, values, dirty, status, booted>>
        /\ nvm' = Block(values) /\ phase' = "off"
        /\ saved' = saved \cup {values} /\ kept' = values
    BY <1>3 DEF Save
  <2>2. IsTable(values)' /\ values \in Seq(Int) /\ Len(values) \in Nat
    BY <1>0, <2>1, TablesStay DEF TypeInv, IsTable
  <2>3. TypeInv'
    BY <1>0, <2>1, <2>2 DEF TypeInv, Block
  <2>4. StoredInv'
    <3>1. \A i \in DOMAIN values : OnGrid(values[i])
      <4>1. DOMAIN values = DOMAIN build
        BY <1>0, Dictionary DEF TypeInv, IsTable
      <4> QED
        BY <1>0, <4>1 DEF TypeInv, IsTable
    <3>2. nvm'.crc = <<Len(values), values>>
      BY <2>1 DEF Block
    <3> QED
      BY <1>0, <2>1, <2>2, <3>1, <3>2 DEF StoredInv
  <2>5. LoadedInv' /\ CleanMeansUnchanged'
    BY <2>1 DEF LoadedInv, CleanMeansUnchanged
  <2>6. KeptInv'
    BY <2>1, <2>2 DEF KeptInv, Block, IsTable, Vouched
  <2> QED
    BY <2>3, <2>4, <2>5, <2>6 DEF StoreInv
<1>4. CASE SaveTorn
  <2>1. /\ UNCHANGED <<build, values, dirty, status, booted, saved>>
        /\ phase' = "off" /\ kept' = <<>>
        /\ nvm' \in {nvm} \cup {Torn(nvm, Block(values), k) : k \in 0 .. Len(values)}
    BY <1>4 DEF SaveTorn
  <2>2. values \in Seq(Int) /\ Len(values) \in Nat /\ IsTable(values)'
    BY <1>0, <2>1, TablesStay DEF TypeInv, IsTable
  <2>3. /\ nvm' \in [count : Nat, values : Seq(Int), crc : {<<>>} \cup (Nat \X Seq(Int))]
        /\ nvm'.crc = nvm.crc
    <3>1. ASSUME NEW k \in 0 .. Len(values), nvm' = Torn(nvm, Block(values), k)
          PROVE  /\ nvm' \in [count : Nat, values : Seq(Int), crc : {<<>>} \cup (Nat \X Seq(Int))]
                 /\ nvm'.crc = nvm.crc
      <4> DEFINE w == [i \in DOMAIN values |->
                         IF i <= k THEN values[i]
                         ELSE IF i \in DOMAIN nvm.values THEN nvm.values[i] ELSE 0]
      <4>1. nvm' = [count |-> Len(values), values |-> w, crc |-> nvm.crc]
        BY <3>1 DEF Torn, Block
      <4>2. /\ nvm.values \in Seq(Int) /\ nvm.crc \in {<<>>} \cup (Nat \X Seq(Int))
            /\ DOMAIN values = 1 .. Len(values)
        BY <1>0, <2>2 DEF TypeInv
      <4>3. \A i \in 1 .. Len(values) : w[i] \in Int
        BY <2>2, <4>2
      <4>4. w \in Seq(Int)
        BY <2>2, <4>2, <4>3
      <4> HIDE DEF w
      <4> QED
        BY <2>2, <4>1, <4>2, <4>4
    <3> QED
      BY <1>0, <2>1, <3>1 DEF TypeInv
  <2>4. TypeInv'
    <3>1. <<>> \in Seq(Int)
      OBVIOUS
    <3> QED
      BY <1>0, <2>1, <2>2, <2>3, <3>1 DEF TypeInv
  <2>5. StoredInv' /\ LoadedInv' /\ KeptInv' /\ CleanMeansUnchanged'
    BY <1>0, <2>1, <2>3 DEF StoredInv, LoadedInv, KeptInv, CleanMeansUnchanged
  <2> QED
    BY <2>4, <2>5 DEF StoreInv
<1>5. CASE Crash
  <2>1. /\ UNCHANGED <<build, values, dirty, nvm, status, booted, saved>>
        /\ phase' = "off" /\ kept' = <<>>
    BY <1>5 DEF Crash
  <2>2. TypeInv'
    <3>1. <<>> \in Seq(Int) /\ IsTable(values)'
      BY <1>0, <2>1, TablesStay DEF TypeInv
    <3> QED
      BY <1>0, <2>1, <3>1 DEF TypeInv
  <2>3. StoredInv' /\ LoadedInv' /\ KeptInv' /\ CleanMeansUnchanged'
    BY <1>0, <2>1 DEF StoredInv, LoadedInv, KeptInv, CleanMeansUnchanged
  <2> QED
    BY <2>2, <2>3 DEF StoreInv
<1>6. CASE Corrupt
  <2>1. /\ UNCHANGED <<build, values, dirty, phase, status, booted, saved>>
        /\ phase = "off" /\ kept' = <<>>
    BY <1>6 DEF Corrupt
  <2>2. PICK k \in DOMAIN nvm.values, v \in Inputs : nvm' = [nvm EXCEPT !.values[k] = v]
    BY <1>6 DEF Corrupt
  <2>3. /\ nvm' \in [count : Nat, values : Seq(Int), crc : {<<>>} \cup (Nat \X Seq(Int))]
        /\ nvm'.crc = nvm.crc
    <3>1. v \in Int /\ nvm.values \in Seq(Int)
      BY <1>0, StoreAssumption DEF TypeInv
    <3>2. [nvm.values EXCEPT ![k] = v] \in Seq(Int)
      BY <3>1
    <3> QED
      BY <1>0, <2>2, <3>2 DEF TypeInv
  <2>4. TypeInv'
    <3>1. <<>> \in Seq(Int) /\ IsTable(values)'
      BY <1>0, <2>1, TablesStay DEF TypeInv
    <3> QED
      BY <1>0, <2>1, <2>3, <3>1 DEF TypeInv
  <2>5. StoredInv' /\ LoadedInv' /\ KeptInv' /\ CleanMeansUnchanged'
    BY <1>0, <2>1, <2>3 DEF StoredInv, LoadedInv, KeptInv, CleanMeansUnchanged
  <2> QED
    BY <2>4, <2>5 DEF StoreInv
<1>7. CASE Upload
  <2>1. /\ UNCHANGED <<nvm, phase, saved>> /\ phase = "off" /\ build' \in Builds
        /\ values' = Defaults(build') /\ booted' = values'
        /\ dirty' = FALSE /\ status' = "IoError" /\ kept' = <<>>
    BY <1>7 DEF Upload
  <2>2. (build \in Builds => IsTable(Defaults(build)))'
    BY DefaultsAreATable, PTL
  <2>3. IsTable(values)'
    BY <2>1, <2>2 DEF IsTable, Vouched, Defaults
  <2>4. TypeInv'
    <3>1. <<>> \in Seq(Int)
      OBVIOUS
    <3> QED
      BY <1>0, <2>1, <2>3, <3>1 DEF TypeInv
  <2>5. StoredInv' /\ LoadedInv' /\ KeptInv' /\ CleanMeansUnchanged'
    BY <1>0, <2>1 DEF StoredInv, LoadedInv, KeptInv, CleanMeansUnchanged
  <2> QED
    BY <2>4, <2>5 DEF StoreInv
<1>8. ASSUME NEW i \in 1 .. Len(build) + 1, NEW v \in Inputs, Set(i, v)
      PROVE  StoreInv'
  <2>1. /\ UNCHANGED <<build, nvm, phase, status, booted, saved, kept>>
        /\ dirty' = TRUE /\ phase = "running"
    BY <1>8 DEF Set
  <2>2. IsTable(values)'
    BY <1>0, <1>8, <2>1, SetEffect, TablesStay
  <2>3. TypeInv' /\ StoredInv' /\ LoadedInv' /\ CleanMeansUnchanged'
    BY <1>0, <2>1, <2>2 DEF TypeInv, StoredInv, LoadedInv, CleanMeansUnchanged
  <2>4. KeptInv'
    BY <1>0, <2>1, TablesStay DEF KeptInv, IsTable, Vouched, Block
  <2> QED
    BY <2>3, <2>4 DEF StoreInv
<1>9. CASE UNCHANGED vars
  <2>1. UNCHANGED <<build, values, dirty, nvm, phase, status, booted, saved, kept>>
    BY <1>9 DEF vars
  <2>2. TypeInv' /\ KeptInv'
    BY <1>0, <2>1, TablesStay DEF TypeInv, KeptInv, Block, IsTable, Vouched
  <2>3. StoredInv' /\ LoadedInv' /\ CleanMeansUnchanged'
    BY <1>0, <2>1 DEF StoredInv, LoadedInv, CleanMeansUnchanged, Block
  <2> QED
    BY <2>2, <2>3 DEF StoreInv
<1> QED
  BY <1>1, <1>2, <1>3, <1>4, <1>5, <1>6, <1>7, <1>8, <1>9 DEF Next

-----------------------------------------------------------------------------
\* StoreInv is an inductive invariant of the parameter store.
THEOREM StoreInductive == Spec => []StoreInv
BY InitInv, Step, PTL DEF Spec

\* Whatever was written, loaded, torn, damaged or uploaded, every value that flight
\* code can read is what its type makes of a value within the limits of the build
\* that runs (ParameterStore::set, load and reset_to_defaults).
THEOREM EveryValueIsVouched == Spec => []ValuesAreVouched
<1>1. StoreInv => ValuesAreVouched
  BY DEF StoreInv, TypeInv, IsTable, ValuesAreVouched
<1> QED
  BY <1>1, StoreInductive, PTL

\* When is_dirty() is false, the table is the one of the boot: the shutdown that
\* then saves nothing (main.cpp) loses nothing.
THEOREM CleanIsUnchanged == Spec => []CleanMeansUnchanged
<1>1. StoreInv => CleanMeansUnchanged
  BY DEF StoreInv
<1> QED
  BY <1>1, StoreInductive, PTL

\* Only Boot leads from "off" to "running".
LEMMA StartsWithBoot ==
  ASSUME [Next]_vars, phase = "off", phase' = "running"
  PROVE  Boot
BY DEF Next, vars, Shutdown, Save, SaveTorn, Crash, Corrupt, Upload, Set

\* A boot ends on the defaults or on a table that was saved whole, although a save
\* may be torn at any value, the storage may be damaged, and its block may be that
\* of another build (the checks of ParameterStore::load).
THEOREM BootsOnlyOnASavedTable == Spec => BootsOnASavedTable
<1>1. StoreInv /\ [Next]_vars =>
        [phase = "off" /\ phase' = "running" => values' \in saved \cup {Defaults(build)}]_vars
  BY StartsWithBoot, BootEffect
<1> QED
  BY <1>1, StoreInductive, PTL DEF Spec, BootsOnASavedTable

\* With limits the type holds exactly, the boot after a clean shutdown brings back
\* the table of that shutdown, saved then or left in the storage by an earlier one.
THEOREM RestartsKeepTheTable == Spec => RestartKeepsTheTable
<1>1. StoreInv /\ [Next]_vars =>
        [phase = "off" /\ phase' = "running" /\ kept' # <<>> /\ Representable
           => values' = kept]_vars
  BY StartsWithBoot, BootEffect
<1> QED
  BY <1>1, StoreInductive, PTL DEF Spec, RestartKeepsTheTable
=============================================================================
