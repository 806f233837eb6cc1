----------------------------- MODULE RingBuffer -----------------------------
(***************************************************************************)
(* RingBuffer<T> of core/component/ReorderBuffer.h: the array behind the   *)
(* reorder buffer.  Entries are pushed at the tail, invalidated in any     *)
(* order, and leave at the head once everything older is invalid.  The     *)
(* array has one slot more than the capacity, so that begin() = end() only *)
(* when the buffer is empty.  A buffer is a record and each method a       *)
(* function of it.                                                         *)
(***************************************************************************)
EXTENDS Integers

CONSTANT Capacity   \* m_capacity: rob_size of the configuration

ASSUME CapacityAssumption == Capacity \in Nat \ {0}

Slot == 0..Capacity                     \* m_array_capacity = Capacity + 1
After(i, n) == (i + n) % (Capacity + 1)

Buffer(T) == [data: [Slot -> [value: T, valid: BOOLEAN]],
              head: Slot, tail: Slot, size: 0..Capacity]

NewBuffer(v) ==
  [data |-> [i \in Slot |-> [value |-> v, valid |-> FALSE]],
   head |-> 0, tail |-> 0, size |-> 0]

\* Mutant: off by one.
FullLate(b) == b.size > Capacity

Full(b) == b.size = Capacity

Push(b, v) ==
  [b EXCEPT !.data[b.tail] = [value |-> v, valid |-> TRUE],
            !.tail = After(b.tail, 1),
            !.size = @ + 1]

\* The entry at distance i from the head.
Entry(b, i) == b.data[After(b.head, i)]

\* Distance of the first entry that holds v, from the head.
Holds(b, i, v) == i \in 0..(b.size - 1) /\ Entry(b, i).value = v
Find(b, v) ==
  CHOOSE i \in 0..(b.size - 1) :
    Holds(b, i, v) /\ \A j \in 0..(i - 1) : ~Holds(b, j, v)
Contains(b, v) == \E i \in 0..(b.size - 1) : Holds(b, i, v)

\* How many invalid entries the buffer starts with.
Spent(b) ==
  CHOOSE k \in 0..b.size :
    /\ \A i \in 0..(k - 1) : ~Entry(b, i).valid
    /\ k = b.size \/ Entry(b, k).valid

\* Pop the invalid entries at the head.
Advance(b) == [b EXCEPT !.head = After(b.head, Spent(b)), !.size = @ - Spent(b)]

\* retire(value): invalidate it, and advance if it was the head.
Retire(b, v) ==
  LET i == Find(b, v)
      marked == [b EXCEPT !.data[After(b.head, i)].valid = FALSE]
  IN IF i = 0 THEN Advance(marked) ELSE marked

\* lastRetired(value): the newest of the entries this retire popped.
Pops(b, v) == Retire(b, v).size # b.size
LastRetired(b, v) ==
  LET r == Retire(b, v) IN r.data[After(r.head, Capacity)].value

\* What the iterators from begin() to end() go through, as distances from the head.
Span(b) == After(b.tail - b.head + Capacity + 1, 0)
ValidEntries(b) == {Entry(b, i).value : i \in {j \in 0..(Span(b) - 1) : Entry(b, j).valid}}
=============================================================================
