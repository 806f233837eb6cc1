--------------------------- MODULE PipelineProofs ---------------------------
(***************************************************************************)
(* What holds of the pipeline of a core whatever its programs, its         *)
(* registers, its array groups and the size of its reorder buffer.         *)
(***************************************************************************)
EXTENDS PipelineProps, SequenceTheorems, FiniteSetTheorems, WellFoundedInduction, TLAPS

-----------------------------------------------------------------------------
(* The ring buffer *)

LEMMA LeastElement ==
  ASSUME NEW T \in SUBSET Nat, T # {}
  PROVE  \E n \in T : \A m \in T : n <= m
<1> DEFINE R == {ss \in Nat \X Nat : ss[1] < ss[2]}
<1>1. IsWellFoundedOn(R, Nat)
  BY NatLessThanWellFounded DEF OpToRel
<1> HIDE DEF R
<1>2. PICK n \in T : \A m \in T : ~(<<m, n>> \in R)
  BY <1>1, WFMin
<1>3. \A m \in T : ~(m < n)
  BY <1>2 DEF R
<1> QED BY <1>3

LEMMA Remainder ==
  ASSUME NEW d \in Nat \ {0}, NEW x \in Nat
  PROVE  /\ x < d => x % d = x
         /\ d <= x /\ x < 2 * d => x % d = x - d
  BY SMT

\* One round of the array.
LEMMA AfterIs ==
  ASSUME NEW i \in Slot, NEW n \in 0..(Capacity + 1)
  PROVE  /\ After(i, n) \in Slot
         /\ i + n <= Capacity => After(i, n) = i + n
         /\ i + n > Capacity => After(i, n) = i + n - (Capacity + 1)
<1> DEFINE d == Capacity + 1
           x == i + n
<1>1. Capacity \in Nat /\ d \in Nat \ {0} /\ x \in Nat /\ x < 2 * d
  BY CapacityAssumption DEF Slot
<1>2. /\ x < d => x % d = x
      /\ d <= x => x % d = x - d
  BY <1>1, Remainder
<1>3. After(i, n) = x % d
  BY DEF After
<1> HIDE DEF x
<1>4. /\ After(i, n) \in Slot
      /\ x < d => After(i, n) = x
      /\ d <= x => After(i, n) = x - d
  BY <1>1, <1>2, <1>3 DEF Slot
<1> QED BY <1>1, <1>4 DEF x, Slot

LEMMA AfterAfter ==
  ASSUME NEW i \in Slot, NEW m \in Nat, NEW n \in Nat, m + n <= Capacity + 1
  PROVE  After(After(i, m), n) = After(i, m + n)
<1>1. Capacity \in Nat /\ {m, n, m + n} \subseteq 0..(Capacity + 1)
  BY CapacityAssumption
<1>2. After(i, m) \in Slot /\ After(After(i, m), n) \in Slot /\ After(i, m + n) \in Slot
  BY <1>1, AfterIs
<1>3. /\ i + m <= Capacity => After(i, m) = i + m
      /\ i + m > Capacity => After(i, m) = i + m - (Capacity + 1)
  BY <1>1, AfterIs
<1>4. /\ i + (m + n) <= Capacity => After(i, m + n) = i + (m + n)
      /\ i + (m + n) > Capacity => After(i, m + n) = i + (m + n) - (Capacity + 1)
  BY <1>1, AfterIs
<1>5. /\ After(i, m) + n <= Capacity => After(After(i, m), n) = After(i, m) + n
      /\ After(i, m) + n > Capacity => After(After(i, m), n) = After(i, m) + n - (Capacity + 1)
  BY <1>1, <1>2, AfterIs
<1> QED BY <1>1, <1>2, <1>3, <1>4, <1>5 DEF Slot

LEMMA AfterInjective ==
  ASSUME NEW i \in Slot, NEW m \in Slot, NEW n \in Slot, After(i, m) = After(i, n)
  PROVE  m = n
<1>1. Capacity \in Nat /\ m \in 0..(Capacity + 1) /\ n \in 0..(Capacity + 1)
  BY CapacityAssumption DEF Slot
<1>2. /\ i + m <= Capacity => After(i, m) = i + m
      /\ i + m > Capacity => After(i, m) = i + m - (Capacity + 1)
  BY <1>1, AfterIs
<1>3. /\ i + n <= Capacity => After(i, n) = i + n
      /\ i + n > Capacity => After(i, n) = i + n - (Capacity + 1)
  BY <1>1, AfterIs
<1> QED BY <1>1, <1>2, <1>3 DEF Slot

\* The slot before the head is the one popped last.
LEMMA BeforeHead ==
  ASSUME NEW i \in Slot, NEW k \in 1..Capacity
  PROVE  After(After(i, k), Capacity) = After(i, k - 1)
<1>1. Capacity \in Nat /\ {k, k - 1, Capacity} \subseteq 0..(Capacity + 1)
  BY CapacityAssumption
<1>2. After(i, k) \in Slot
  BY <1>1, AfterIs
<1>3. /\ i + k <= Capacity => After(i, k) = i + k
      /\ i + k > Capacity => After(i, k) = i + k - (Capacity + 1)
  BY <1>1, AfterIs
<1>4. /\ i + (k - 1) <= Capacity => After(i, k - 1) = i + (k - 1)
      /\ i + (k - 1) > Capacity => After(i, k - 1) = i + (k - 1) - (Capacity + 1)
  BY <1>1, AfterIs
<1>5. /\ After(i, k) + Capacity <= Capacity => After(After(i, k), Capacity) = After(i, k) + Capacity
      /\ After(i, k) + Capacity > Capacity =>
           After(After(i, k), Capacity) = After(i, k) + Capacity - (Capacity + 1)
  BY <1>1, <1>2, AfterIs
<1> QED BY <1>1, <1>2, <1>3, <1>4, <1>5 DEF Slot

WellFormed(b, T) == b \in Buffer(T) /\ b.tail = After(b.head, b.size)

LEMMA SpanIsSize ==
  ASSUME NEW T, NEW b, WellFormed(b, T)
  PROVE  Span(b) = b.size
<1> DEFINE d == Capacity + 1
           x == b.tail - b.head + Capacity + 1
<1>1. /\ Capacity \in Nat /\ b.head \in Slot /\ b.tail \in Slot
      /\ b.size \in 0..Capacity /\ b.size \in 0..(Capacity + 1)
  BY CapacityAssumption DEF WellFormed, Buffer
<1>2. /\ b.head + b.size <= Capacity => b.tail = b.head + b.size
      /\ b.head + b.size > Capacity => b.tail = b.head + b.size - (Capacity + 1)
  BY <1>1, AfterIs DEF WellFormed
<1>3. /\ d \in Nat \ {0} /\ x \in Nat /\ x < 2 * d
      /\ x < d => b.size = x
      /\ d <= x => b.size = x - d
  BY <1>1, <1>2 DEF Slot
<1>4. Span(b) = x % d
  BY <1>1, <1>3 DEF Span, After
<1> HIDE DEF x, d
<1>5. /\ x < d => x % d = x
      /\ d <= x => x % d = x - d
  BY <1>3, Remainder
<1> QED BY <1>3, <1>4, <1>5

LEMMA EntryType ==
  ASSUME NEW T, NEW b, WellFormed(b, T), NEW i \in Slot
  PROVE  /\ After(b.head, i) \in Slot
         /\ Entry(b, i) = b.data[After(b.head, i)]
         /\ Entry(b, i) \in [value: T, valid: BOOLEAN]
<1>1. i \in 0..(Capacity + 1) /\ b.head \in Slot
  BY CapacityAssumption DEF WellFormed, Buffer, Slot
<1>2. After(b.head, i) \in Slot
  BY <1>1, AfterIs
<1> QED BY <1>2 DEF Entry, WellFormed, Buffer

LEMMA PushEffect ==
  ASSUME NEW T, NEW b, WellFormed(b, T), NEW v \in T, ~Full(b), NEW r, r = Push(b, v)
  PROVE  /\ WellFormed(r, T)
         /\ r.size = b.size + 1
         /\ Entry(r, b.size) = [value |-> v, valid |-> TRUE]
         /\ \A i \in 0..(b.size - 1) : Entry(r, i) = Entry(b, i)
<1>1. /\ Capacity \in Nat /\ b.head \in Slot /\ b.tail \in Slot
      /\ b.size \in 0..(Capacity - 1) /\ b.tail = After(b.head, b.size)
      /\ b.data \in [Slot -> [value: T, valid: BOOLEAN]]
  BY CapacityAssumption DEF WellFormed, Buffer, Full
<1>2. After(b.tail, 1) = After(b.head, b.size + 1) /\ After(b.tail, 1) \in Slot
  BY <1>1, AfterAfter, AfterIs
<1>3. /\ r.data = [b.data EXCEPT ![b.tail] = [value |-> v, valid |-> TRUE]]
      /\ r.head = b.head /\ r.tail = After(b.tail, 1) /\ r.size = b.size + 1
  <2>1. b = [data |-> b.data, head |-> b.head, tail |-> b.tail, size |-> b.size]
    BY DEF WellFormed, Buffer
  <2> QED BY <2>1 DEF Push
<1>4. WellFormed(r, T)
  <2>1. [value |-> v, valid |-> TRUE] \in [value: T, valid: BOOLEAN]
    OBVIOUS
  <2>2. r.data \in [Slot -> [value: T, valid: BOOLEAN]]
    BY <1>1, <1>3, <2>1
  <2>3. r = [data |-> r.data, head |-> r.head, tail |-> r.tail, size |-> r.size]
    BY DEF Push, WellFormed, Buffer
  <2>4. r.head \in Slot /\ r.tail \in Slot /\ r.size \in 0..Capacity
    BY <1>1, <1>2, <1>3
  <2>5. r \in Buffer(T)
    BY <2>2, <2>3, <2>4 DEF Buffer
  <2> QED BY <1>2, <1>3, <2>5 DEF WellFormed
<1>5. Entry(r, b.size) = [value |-> v, valid |-> TRUE]
  BY <1>1, <1>3 DEF Entry
<1>6. ASSUME NEW i \in 0..(b.size - 1) PROVE Entry(r, i) = Entry(b, i)
  <2>1. i \in Slot /\ b.size \in Slot /\ i # b.size
    BY <1>1 DEF Slot
  <2>2. After(b.head, i) \in Slot /\ After(b.head, i) # b.tail
    BY <1>1, <2>1, AfterInjective, EntryType
  <2> QED BY <1>1, <1>3, <2>2 DEF Entry
<1> QED BY <1>3, <1>4, <1>5, <1>6

LEMMA SpentIs ==
  ASSUME NEW b, b.size \in Nat
  PROVE  /\ Spent(b) \in 0..b.size
         /\ \A i \in 0..(Spent(b) - 1) : ~Entry(b, i).valid
         /\ Spent(b) = b.size \/ Entry(b, Spent(b)).valid
<1> DEFINE S == {k \in 0..b.size : k = b.size \/ Entry(b, k).valid}
<1>1. PICK n \in S : \A m \in S : n <= m
  <2>1. S \in SUBSET Nat /\ b.size \in S
    OBVIOUS
  <2> QED BY <2>1, LeastElement
<1>2. n \in 0..b.size /\ \A i \in 0..(n - 1) : ~Entry(b, i).valid
  BY <1>1
<1>3. \E k \in 0..b.size : /\ \A i \in 0..(k - 1) : ~Entry(b, i).valid
                           /\ k = b.size \/ Entry(b, k).valid
  BY <1>1, <1>2
<1> QED BY <1>3 DEF Spent

LEMMA FindIs ==
  ASSUME NEW b, NEW v, b.size \in Nat, Contains(b, v)
  PROVE  /\ Find(b, v) \in 0..(b.size - 1)
         /\ Entry(b, Find(b, v)).value = v
<1> DEFINE S == {i \in 0..(b.size - 1) : Entry(b, i).value = v}
<1>1. PICK n \in S : \A m \in S : n <= m
  <2>1. S \in SUBSET Nat /\ S # {}
    BY DEF Contains, Holds
  <2> QED BY <2>1, LeastElement
<1>2. \E i \in 0..(b.size - 1) : Holds(b, i, v) /\ \A j \in 0..(i - 1) : ~Holds(b, j, v)
  BY <1>1 DEF Holds
<1>3. Find(b, v) \in 0..(b.size - 1) /\ Holds(b, Find(b, v), v)
  BY <1>2 DEF Find
<1> QED BY <1>3 DEF Holds

\* Popping k entries.
LEMMA PopEffect ==
  ASSUME NEW T, NEW b, WellFormed(b, T), NEW k \in 0..b.size,
         NEW r, r = [data |-> b.data, head |-> After(b.head, k), tail |-> b.tail,
                     size |-> b.size - k]
  PROVE  /\ WellFormed(r, T) /\ r.size = b.size - k
         /\ \A i \in 0..(r.size - 1) : Entry(r, i) = Entry(b, i + k)
         /\ k > 0 => r.data[After(r.head, Capacity)] = Entry(b, k - 1)
<1>1. /\ Capacity \in Nat /\ b.head \in Slot /\ b.tail \in Slot
      /\ b.size \in 0..Capacity /\ b.tail = After(b.head, b.size)
      /\ b.data \in [Slot -> [value: T, valid: BOOLEAN]]
  BY CapacityAssumption DEF WellFormed, Buffer
<1>2. /\ r.data = b.data /\ r.tail = b.tail
      /\ r.head = After(b.head, k) /\ r.size = b.size - k
      /\ r = [data |-> r.data, head |-> r.head, tail |-> r.tail, size |-> r.size]
  BY DEF WellFormed, Buffer
<1>3. After(b.head, k) \in Slot /\ r.size \in 0..Capacity
  <2>1. k \in 0..(Capacity + 1) /\ r.size \in 0..Capacity
    BY <1>1, <1>2
  <2> QED BY <1>1, <2>1, AfterIs
<1>4. After(r.head, r.size) = b.tail
  BY <1>1, <1>2, AfterAfter
<1>5. WellFormed(r, T)
  BY <1>1, <1>2, <1>3, <1>4 DEF WellFormed, Buffer
<1>6. ASSUME NEW i \in 0..(r.size - 1) PROVE Entry(r, i) = Entry(b, i + k)
  <2>1. After(r.head, i) = After(b.head, k + i)
    BY <1>1, <1>2, AfterAfter
  <2>2. k + i = i + k
    BY <1>1, <1>2
  <2> QED BY <1>2, <2>1, <2>2 DEF Entry
<1>7. ASSUME k > 0 PROVE r.data[After(r.head, Capacity)] = Entry(b, k - 1)
  BY <1>1, <1>2, <1>7, BeforeHead DEF Entry
<1> QED BY <1>2, <1>5, <1>6, <1>7

\* Retiring one of the values: its entry, f from the head, is invalidated, and if it
\* was the first, k entries leave, all of them invalid by then.
LEMMA RetireEffect ==
  ASSUME NEW T, NEW b, WellFormed(b, T), NEW v, Contains(b, v), NEW r, r = Retire(b, v)
  PROVE  /\ WellFormed(r, T)
         /\ \E k \in 0..b.size, f \in 0..(b.size - 1) :
              /\ Entry(b, f).value = v
              /\ r.size = b.size - k
              /\ \A i \in 0..(r.size - 1) :
                   /\ Entry(r, i).value = Entry(b, i + k).value
                   /\ Entry(r, i).valid <=> Entry(b, i + k).valid /\ i + k # f
              /\ \A i \in 0..(k - 1) : i = f \/ ~Entry(b, i).valid
              /\ k > 0 => LastRetired(b, v) = Entry(b, k - 1).value
              /\ Pops(b, v) => k > 0
              /\ f = 0 => k > 0
              /\ k > 0 /\ r.size > 0 => Entry(r, 0).valid
<1> DEFINE f == Find(b, v)
<1>1. /\ Capacity \in Nat /\ b.head \in Slot /\ b.tail \in Slot
      /\ b.size \in 0..Capacity /\ b.tail = After(b.head, b.size)
      /\ b.data \in [Slot -> [value: T, valid: BOOLEAN]]
  BY CapacityAssumption DEF WellFormed, Buffer
<1>2. f \in 0..(b.size - 1) /\ Entry(b, f).value = v
  BY <1>1, FindIs
<1> HIDE DEF f
<1>3. PICK marked : marked = [b EXCEPT !.data[After(b.head, f)].valid = FALSE]
  OBVIOUS
<1>4. f \in Slot
  BY <1>1, <1>2 DEF Slot
<1>5. /\ After(b.head, f) \in Slot /\ Entry(b, f) = b.data[After(b.head, f)]
      /\ Entry(b, f) \in [value: T, valid: BOOLEAN]
  BY <1>4, EntryType
<1>6. /\ marked.data = [b.data EXCEPT ![After(b.head, f)].valid = FALSE]
      /\ marked.head = b.head /\ marked.tail = b.tail /\ marked.size = b.size
      /\ marked = [data |-> marked.data, head |-> marked.head,
                   tail |-> marked.tail, size |-> marked.size]
  BY <1>3 DEF WellFormed, Buffer
<1>7. marked.data \in [Slot -> [value: T, valid: BOOLEAN]]
  BY <1>1, <1>5, <1>6
<1>8. WellFormed(marked, T)
  BY <1>1, <1>6, <1>7 DEF WellFormed, Buffer
<1>9. ASSUME NEW i \in 0..(b.size - 1)
       PROVE  /\ Entry(marked, i).value = Entry(b, i).value
              /\ Entry(marked, i).valid <=> Entry(b, i).valid /\ i # f
  <2>1. i \in Slot
    BY <1>1 DEF Slot
  <2>2. After(b.head, i) \in Slot /\ (After(b.head, i) = After(b.head, f) => i = f)
    BY <1>1, <1>4, <2>1, AfterInjective, EntryType
  <2> QED BY <1>1, <1>5, <1>6, <2>2 DEF Entry
<1>10. r = IF f = 0 THEN Advance(marked) ELSE marked
  BY <1>3 DEF Retire, f
<1>11. CASE f # 0
  <2>1. r = marked
    BY <1>10, <1>11
  <2>2. /\ WellFormed(r, T)
        /\ r.size = b.size - 0
        /\ \A i \in 0..(r.size - 1) :
              /\ Entry(r, i).value = Entry(b, i + 0).value
              /\ Entry(r, i).valid <=> Entry(b, i + 0).valid /\ i + 0 # f
        /\ ~Pops(b, v)
    BY <1>1, <1>6, <1>8, <1>9, <2>1 DEF Pops
  <2> QED BY <1>1, <1>2, <1>11, <2>2
<1>12. CASE f = 0
  <2> DEFINE k == Spent(marked)
  <2>1. /\ k \in 0..b.size
        /\ \A i \in 0..(k - 1) : ~Entry(marked, i).valid
        /\ k = b.size \/ Entry(marked, k).valid
    BY <1>1, <1>6, SpentIs
  <2>2. r = [data |-> marked.data, head |-> After(marked.head, k), tail |-> marked.tail,
             size |-> marked.size - k]
    BY <1>6, <1>10, <1>12 DEF Advance
  <2> HIDE DEF k
  <2>3. /\ WellFormed(r, T) /\ r.size = b.size - k
        /\ \A i \in 0..(r.size - 1) : Entry(r, i) = Entry(marked, i + k)
        /\ k > 0 => r.data[After(r.head, Capacity)] = Entry(marked, k - 1)
    <3>1. k \in 0..marked.size /\ marked.size = b.size
      BY <1>6, <2>1
    <3>2. /\ WellFormed(r, T) /\ r.size = marked.size - k
          /\ \A i \in 0..(r.size - 1) : Entry(r, i) = Entry(marked, i + k)
          /\ k > 0 => r.data[After(r.head, Capacity)] = Entry(marked, k - 1)
      BY <1>8, <2>2, <3>1, PopEffect
    <3> QED BY <3>1, <3>2
  <2>4. k > 0
    BY <1>2, <1>9, <1>12, <2>1
  <2>5. \A i \in 0..(r.size - 1) :
          /\ Entry(r, i).value = Entry(b, i + k).value
          /\ Entry(r, i).valid <=> Entry(b, i + k).valid /\ i + k # f
    BY <1>1, <1>9, <2>1, <2>3
  <2>6. \A i \in 0..(k - 1) : i = f \/ ~Entry(b, i).valid
    BY <1>1, <1>9, <2>1
  <2>7. LastRetired(b, v) = Entry(b, k - 1).value
    <3>1. LastRetired(b, v) = Entry(marked, k - 1).value
      BY <2>3, <2>4 DEF LastRetired
    <3>2. Entry(marked, k - 1).value = Entry(b, k - 1).value
      BY <1>1, <1>2, <1>9, <2>1, <2>4
    <3> QED BY <3>1, <3>2
  <2>8. r.size > 0 => Entry(r, 0).valid
    BY <1>1, <2>1, <2>3
  <2> QED BY <1>2, <2>1, <2>3, <2>4, <2>5, <2>6, <2>7, <2>8
<1> QED BY <1>11, <1>12

-----------------------------------------------------------------------------

Values(b) == {Entry(b, i).value : i \in 0..(b.size - 1)}
Sorted(b) ==
  \A i, j \in 0..(b.size - 1) : i < j => Entry(b, i).value.pc < Entry(b, j).value.pc

\* The oldest entry has not been committed yet.
HeadIsValid(b) == b.size > 0 => Entry(b, 0).valid

\* What has left b on the way to r is older than all that is left.
Keeps(b, r) ==
  /\ r.size <= b.size
  /\ \A i \in 0..(r.size - 1) : Entry(r, i).value = Entry(b, i + (b.size - r.size)).value
  /\ \A w \in Values(b) : (\E u \in Values(r) : u.pc <= w.pc) => w \in Values(r)

\* The valid entries, without the iterators.
LEMMA ValidEntriesAre ==
  ASSUME NEW T, NEW b, WellFormed(b, T)
  PROVE  /\ b.size \in 0..Capacity
         /\ Values(b) \subseteq T
         /\ ValidEntries(b) \subseteq Values(b)
         /\ \A w : w \in ValidEntries(b) <=>
               \E i \in 0..(b.size - 1) : Entry(b, i).valid /\ Entry(b, i).value = w
<1>1. Capacity \in Nat /\ b.size \in 0..Capacity
  BY CapacityAssumption DEF WellFormed, Buffer
<1>2. \A i \in 0..(b.size - 1) : Entry(b, i) \in [value: T, valid: BOOLEAN]
  BY <1>1, EntryType DEF Slot
<1>3. Span(b) = b.size
  BY SpanIsSize
<1> QED BY <1>1, <1>2, <1>3 DEF Values, ValidEntries

LEMMA PushValues ==
  ASSUME NEW T, \A v \in T : v.pc \in Int,
         NEW b, WellFormed(b, T), Sorted(b), ~Full(b),
         NEW v \in T, \A w \in Values(b) : w.pc < v.pc,
         NEW r, r = Push(b, v)
  PROVE  /\ WellFormed(r, T) /\ Sorted(r)
         /\ Values(r) = Values(b) \cup {v}
         /\ ValidEntries(r) = ValidEntries(b) \cup {v}
         /\ r.size = b.size + 1
         /\ HeadIsValid(b) => HeadIsValid(r)
<1>1. /\ WellFormed(r, T)
      /\ r.size = b.size + 1
      /\ Entry(r, b.size) = [value |-> v, valid |-> TRUE]
      /\ \A i \in 0..(b.size - 1) : Entry(r, i) = Entry(b, i)
  BY PushEffect
<1>2. b.size \in Nat
  BY ValidEntriesAre
<1>3. \A i \in 0..(r.size - 1) : i = b.size \/ i \in 0..(b.size - 1)
  BY <1>1, <1>2
<1>4. \A i \in 0..(b.size - 1) : i \in 0..(r.size - 1)
  BY <1>1, <1>2
<1>5. b.size \in 0..(r.size - 1)
  BY <1>1, <1>2
<1>6. Entry(r, b.size).value = v /\ Entry(r, b.size).valid
  BY <1>1
<1>7. Values(r) = Values(b) \cup {v}
  BY <1>1, <1>3, <1>4, <1>5, <1>6 DEF Values
<1>8. \A w : w \in ValidEntries(b) <=>
              \E i \in 0..(b.size - 1) : Entry(b, i).valid /\ Entry(b, i).value = w
  BY ValidEntriesAre
<1>9. \A w : w \in ValidEntries(r) <=>
              \E i \in 0..(r.size - 1) : Entry(r, i).valid /\ Entry(r, i).value = w
  BY <1>1, ValidEntriesAre
<1>10. ValidEntries(r) = ValidEntries(b) \cup {v}
  BY <1>1, <1>3, <1>4, <1>5, <1>6, <1>8, <1>9
<1>11. Sorted(r)
  <2> SUFFICES ASSUME NEW i \in 0..(r.size - 1), NEW j \in 0..(r.size - 1), i < j
               PROVE  Entry(r, i).value.pc < Entry(r, j).value.pc
    BY DEF Sorted
  <2>1. i \in 0..(b.size - 1)
    BY <1>1, <1>2
  <2>2. Entry(r, i) = Entry(b, i) /\ Entry(b, i).value \in Values(b)
    BY <1>1, <2>1 DEF Values
  <2>3. CASE j = b.size
    BY <1>6, <2>2, <2>3
  <2>4. CASE j \in 0..(b.size - 1)
    BY <1>1, <2>1, <2>4 DEF Sorted
  <2> QED BY <1>3, <2>3, <2>4
<1>12. HeadIsValid(b) => HeadIsValid(r)
  BY <1>1, <1>2, <1>6 DEF HeadIsValid
<1> QED BY <1>1, <1>7, <1>10, <1>11, <1>12

\* What has left the buffer is older than what is still in it.
LEMMA RetireValues ==
  ASSUME NEW T, \A v \in T : v.pc \in Int,
         NEW b, WellFormed(b, T), Sorted(b),
         NEW v \in ValidEntries(b),
         NEW r, r = Retire(b, v)
  PROVE  /\ Contains(b, v)
         /\ WellFormed(r, T) /\ Sorted(r)
         /\ Values(r) \subseteq Values(b)
         /\ ValidEntries(r) = ValidEntries(b) \ {v}
         /\ Pops(b, v) => /\ LastRetired(b, v) \in Values(b)
                          /\ \A w \in Values(r) : LastRetired(b, v).pc < w.pc
         /\ Keeps(b, r)
         /\ HeadIsValid(b) => HeadIsValid(r)
<1>1. b.size \in Nat /\ Values(b) \subseteq T
  BY ValidEntriesAre
<1>2. \A w : w \in ValidEntries(b) <=>
              \E i \in 0..(b.size - 1) : Entry(b, i).valid /\ Entry(b, i).value = w
  BY ValidEntriesAre
<1>3. Contains(b, v)
  BY <1>2 DEF Contains, Holds
<1>4. WellFormed(r, T)
  BY <1>3, RetireEffect
<1>5. PICK k \in 0..b.size, f \in 0..(b.size - 1) :
         /\ Entry(b, f).value = v
         /\ r.size = b.size - k
         /\ \A i \in 0..(r.size - 1) :
              /\ Entry(r, i).value = Entry(b, i + k).value
              /\ Entry(r, i).valid <=> Entry(b, i + k).valid /\ i + k # f
         /\ \A i \in 0..(k - 1) : i = f \/ ~Entry(b, i).valid
         /\ k > 0 => LastRetired(b, v) = Entry(b, k - 1).value
         /\ Pops(b, v) => k > 0
         /\ f = 0 => k > 0
         /\ k > 0 /\ r.size > 0 => Entry(r, 0).valid
  BY <1>3, RetireEffect
<1>6. \A i \in 0..(r.size - 1) : i + k \in 0..(b.size - 1)
  BY <1>1, <1>5
<1>7. \A i, j \in 0..(b.size - 1) : Entry(b, i).value = Entry(b, j).value => i = j
  <2> SUFFICES ASSUME NEW i \in 0..(b.size - 1), NEW j \in 0..(b.size - 1), i < j
               PROVE  Entry(b, i).value # Entry(b, j).value
    BY <1>1
  <2>1. Entry(b, i).value.pc < Entry(b, j).value.pc
    BY DEF Sorted
  <2>2. Entry(b, i).value.pc \in Int
    BY <1>1 DEF Values
  <2> QED BY <2>1, <2>2
<1>8. \A w : w \in ValidEntries(r) <=>
              \E i \in 0..(r.size - 1) : Entry(r, i).valid /\ Entry(r, i).value = w
  BY <1>4, ValidEntriesAre
<1>9. ValidEntries(r) = ValidEntries(b) \ {v}
  <2>1. ASSUME NEW w \in ValidEntries(r) PROVE w \in ValidEntries(b) \ {v}
    BY <1>2, <1>5, <1>6, <1>7, <1>8
  <2>2. ASSUME NEW w \in ValidEntries(b), w # v PROVE w \in ValidEntries(r)
    <3>1. PICK i \in 0..(b.size - 1) : Entry(b, i).valid /\ Entry(b, i).value = w
      BY <1>2
    <3>2. i # f /\ i - k \in 0..(r.size - 1) /\ (i - k) + k = i
      BY <1>1, <1>5, <2>2, <3>1
    <3> QED BY <1>5, <1>8, <3>1, <3>2
  <2> QED BY <2>1, <2>2
<1>10. Values(r) \subseteq Values(b)
  BY <1>5, <1>6 DEF Values
<1>11. Sorted(r)
  <2> SUFFICES ASSUME NEW i \in 0..(r.size - 1), NEW j \in 0..(r.size - 1), i < j
               PROVE  Entry(r, i).value.pc < Entry(r, j).value.pc
    BY DEF Sorted
  <2>1. i + k < j + k /\ i + k \in 0..(b.size - 1) /\ j + k \in 0..(b.size - 1)
    BY <1>1, <1>5, <1>6
  <2> QED BY <1>5, <2>1 DEF Sorted
<1>12. ASSUME Pops(b, v)
       PROVE  /\ LastRetired(b, v) \in Values(b)
              /\ \A w \in Values(r) : LastRetired(b, v).pc < w.pc
  <2>1. k - 1 \in 0..(b.size - 1) /\ LastRetired(b, v) = Entry(b, k - 1).value
    BY <1>1, <1>5, <1>12
  <2>2. ASSUME NEW i \in 0..(r.size - 1)
        PROVE  Entry(b, k - 1).value.pc < Entry(r, i).value.pc
    <3>1. k - 1 < i + k /\ i + k \in 0..(b.size - 1)
      BY <1>1, <1>5, <1>6
    <3> QED BY <1>5, <2>1, <3>1 DEF Sorted
  <2> QED BY <2>1, <2>2 DEF Values
<1>13. ASSUME NEW w \in Values(b), NEW u \in Values(r), u.pc <= w.pc PROVE w \in Values(r)
  <2>1. PICK j \in 0..(b.size - 1) : Entry(b, j).value = w
    BY DEF Values
  <2>2. PICK i \in 0..(r.size - 1) : Entry(r, i).value = u
    BY DEF Values
  <2>3. i + k \in 0..(b.size - 1) /\ Entry(b, i + k).value = u
    BY <1>5, <1>6, <2>2
  <2>4. w.pc \in Int /\ u.pc \in Int
    BY <1>1, <1>10
  <2>5. ~(j < i + k)
    <3> SUFFICES ASSUME j < i + k PROVE FALSE
      OBVIOUS
    <3>1. w.pc < u.pc
      BY <2>1, <2>3 DEF Sorted
    <3> QED BY <1>13, <2>4, <3>1
  <2>6. j - k \in 0..(r.size - 1) /\ (j - k) + k = j
    BY <1>1, <1>5, <2>3, <2>5
  <2>7. Entry(r, j - k).value = w
    BY <1>5, <2>1, <2>6
  <2> QED BY <2>6, <2>7 DEF Values
<1>14. Keeps(b, r)
  <2>1. r.size <= b.size /\ b.size - r.size = k
    BY <1>1, <1>5
  <2> QED BY <1>5, <1>13, <2>1 DEF Keeps
<1>15. ASSUME HeadIsValid(b), r.size > 0 PROVE Entry(r, 0).valid
  <2>1. CASE k > 0
    BY <1>5, <1>15, <2>1
  <2>2. CASE k = 0
    <3>1. f # 0 /\ 0 \in 0..(r.size - 1) /\ 0 + k = 0 /\ b.size > 0
      BY <1>1, <1>5, <1>15, <2>2
    <3>2. Entry(b, 0).valid
      BY <1>15, <3>1 DEF HeadIsValid
    <3> QED BY <1>5, <3>1, <3>2
  <2> QED BY <1>5, <2>1, <2>2
<1> QED BY <1>3, <1>4, <1>9, <1>10, <1>11, <1>12, <1>14, <1>15 DEF HeadIsValid

-----------------------------------------------------------------------------
(* The inductive invariant *)

\* The program, and whether it is repeated, are chosen once.
ProgramChosen == prog \in IF Looping THEN LoopPrograms ELSE Programs

\* The instructions of the pipeline are in program order, and the reorder
\* buffer is a sound ring of them.
InOrder ==
  /\ ring_buffer.tail = After(ring_buffer.head, ring_buffer.size)
  /\ Sorted(ring_buffer)
  /\ \A e \in Values(ring_buffer) :
       /\ 0 <= e.pc /\ e.pc < pc
       /\ decode # NoPc => e.pc < decode
       /\ dispatcher_reg # NoExec => e.pc < dispatcher_reg.pc
  /\ dispatcher_reg # NoExec =>
       /\ 0 <= dispatcher_reg.pc /\ dispatcher_reg.pc < pc
       /\ decode # NoPc => dispatcher_reg.pc < decode
  /\ decode # NoPc => decode < pc

\* The executing instructions of a unit, and where they can be.
Of(unit) == {e \in ValidEntries(ring_buffer) : ExecUnit(e) = unit}

Executing(x) == IF fsm[x].state # "ready" THEN {fsm[x].value} ELSE {}
Busy(g) == IF fsm[g].state = "busy" THEN {fsm[g].value} ELSE {}
Waiting == {ag_reg} \ {NoExec}
Queued == {commit_queue[k] : k \in DOMAIN commit_queue}
Committed(p) == {commit[p]} \ {NoExec}

\* The vector and the transfer unit hold one instruction each, which is in the unit
\* or, for the cycle after it has finished, at its port.
SingleUnits ==
  \A x \in {"vector", "transfer"} :
    /\ Of(x) = Executing(x) \cup Committed(x)
    /\ commit[x] # NoExec => fsm[x].state = "ready"

\* The matrix unit holds its own in an array group, in the register before them, in
\* the commit queue or at its port,
MatrixUnit ==
  /\ Of("matrix") = (UNION {Busy(g) : g \in ArrayGroup}) \cup Waiting \cup Queued
                    \cup Committed("matrix")
  /\ \A g \in ArrayGroup : \A e \in Busy(g) : Inst(e.pc).group = g

\* and in one of these places, once.
PlacedOnce ==
  /\ \A g \in ArrayGroup : Busy(g) \cap (Waiting \cup Queued \cup Committed("matrix")) = {}
  /\ Waiting \cap (Queued \cup Committed("matrix")) = {}
  /\ Queued \cap Committed("matrix") = {}
  /\ \A j, k \in DOMAIN commit_queue : commit_queue[j] = commit_queue[k] => j = k

Tracked ==
  ~thrown /\ inst_map = ValidEntries(ring_buffer) /\ SingleUnits /\ MatrixUnit /\ PlacedOnce

\* No two executing instructions are in conflict.
NoConflict == \A e, f \in ValidEntries(ring_buffer) : e # f => ~IsConflict(e, f)

\* A send with one address register has one address.
SendsAreSingle ==
  \A e \in {dispatcher_reg} \cup Values(ring_buffer) :
    e # NoExec /\ Inst(e.pc).op = "send" /\ Inst(e.pc).rd = Inst(e.pc).rs1
      => e.rd_value = e.rs1_value

\* A program whose last instruction goes through the reorder buffer reports its end
\* when there is nothing left of it.
EndIsReached ==
  finish_running =>
    ~Looping /\ ring_buffer.size = 0 /\ dispatcher_reg = NoExec /\ decode = NoPc
    /\ pc = inst_buffer_size

\* What every step of the pipeline preserves. BufferNeverThrows is not inductive: that
\* a commit finds its entry follows from where the executing instructions are
\* (Tracked), and that a push finds room and a pop the oldest entry from the ring
\* (InOrder).
IInv == TypeOK /\ ProgramChosen /\ InOrder /\ Tracked
-----------------------------------------------------------------------------
(* The program *)

LEMMA Fixed ==
  ASSUME UNCHANGED configVars
  PROVE  /\ Looping' = Looping /\ inst_buffer_size' = inst_buffer_size
         /\ Fetchable' = Fetchable /\ Pc' = Pc /\ ExecInfo' = ExecInfo
         /\ \A i : Inst(i)' = Inst(i)
         /\ \A e : ExecUnit(e)' = ExecUnit(e)
         /\ \A e, f : IsConflict(e, f)' = IsConflict(e, f)
<1>1. prog' = prog /\ Looping' = Looping
  BY DEF configVars, Looping
<1>2. inst_buffer_size' = inst_buffer_size /\ Fetchable' = Fetchable
  BY <1>1 DEF inst_buffer_size, Fetchable
<1>3. Pc' = Pc /\ ExecInfo' = ExecInfo
  BY <1>2 DEF Pc, ExecInfo
<1>4. \A i : Inst(i)' = Inst(i)
  BY <1>1, <1>2 DEF Inst, CodePc
<1>5. \A e : ExecUnit(e)' = ExecUnit(e)
  BY <1>4 DEF ExecUnit
<1>6. \A e : Size(e)' = Size(e)
  BY <1>4, <1>5 DEF Size
<1>7. \A e : MemoryReadAddr(e)' = MemoryReadAddr(e) /\ MemoryWriteAddr(e)' = MemoryWriteAddr(e)
  BY <1>4, <1>6 DEF MemoryReadAddr, MemoryWriteAddr
<1>8. \A e, f : IsConflict(e, f)' = IsConflict(e, f)
  BY <1>7 DEF IsConflict
<1> QED BY <1>1, <1>2, <1>3, <1>4, <1>5, <1>8

LEMMA LapBound ==
  ASSUME NEW n \in Nat \ {0}, NEW laps \in Nat, NEW p \in Nat, (p + 1) \div n < laps
  PROVE  p + 1 <= laps * n
<1> DEFINE q == (p + 1) \div n
<1>1. q \in Nat /\ p + 1 < (q + 1) * n
  BY SMT
<1>2. q + 1 <= laps
  BY <1>1
<1> HIDE DEF q
<1>3. (q + 1) * n <= laps * n
  BY <1>1, <1>2
<1> QED BY <1>1, <1>3

LEMMA ProgramType ==
  ASSUME TypeOK, ProgramChosen
  PROVE  /\ inst_buffer_size \in Nat
         /\ Looping => inst_buffer_size >= 2
         /\ Fetchable \in Nat
         /\ \A i \in Pc : i \in Nat /\ CodePc(i) \in 0..(inst_buffer_size - 1) /\ Inst(i) \in Instr
<1>1. prog \in Seq(Instr) /\ inst_buffer_size \in Nat
  BY DEF TypeOK, inst_buffer_size
<1>2. Looping => inst_buffer_size >= 2
  BY FrontEndAssumption DEF ProgramChosen, inst_buffer_size
<1>3. Fetchable \in Nat
  BY <1>1, FrontEndAssumption DEF Fetchable
<1>4. ASSUME NEW i \in Pc
      PROVE  i \in Nat /\ CodePc(i) \in 0..(inst_buffer_size - 1) /\ Inst(i) \in Instr
  <2>1. i \in 0..(Fetchable - 1)
    BY DEF Pc
  <2>2. CodePc(i) \in 0..(inst_buffer_size - 1)
    <3>1. CASE Looping
      <4>1. CodePc(i) = i % inst_buffer_size /\ inst_buffer_size \in Nat \ {0}
        BY <1>1, <1>2, <3>1 DEF CodePc
      <4> QED BY <1>3, <2>1, <4>1
    <3>2. CASE ~Looping
      BY <1>1, <2>1, <3>2 DEF CodePc, Fetchable
    <3> QED BY <3>1, <3>2
  <2>3. prog[CodePc(i) + 1] \in Instr
    <3>1. CodePc(i) + 1 \in 1..Len(prog)
      BY <1>1, <2>2 DEF inst_buffer_size
    <3> QED BY <1>1, <3>1, ElementOfSeq
  <2> QED BY <1>3, <2>1, <2>2, <2>3 DEF Inst
<1> QED BY <1>1, <1>2, <1>3, <1>4

-----------------------------------------------------------------------------
(* The front end *)

LEMMA NoExecType ==
  NoExec \in ExecInfo /\ NoExec.pc = NoPc /\ NoPc \notin Nat /\ NoPc \in Int
BY DEF NoExec, ExecInfo, NoPc, Word

LEMMA ReadType ==
  ASSUME TypeOK, NEW r \in Register PROVE Read(r) \in Word
BY DEF TypeOK, Read

LEMMA ExecInfoOfType ==
  ASSUME TypeOK, ProgramChosen, decode # NoPc
  PROVE  /\ decode \in Pc /\ decode \in Nat /\ Inst(decode) \in Instr
         /\ ExecInfoOf(decode) \in ExecInfo
         /\ ExecInfoOf(decode).pc = decode
<1>1. decode \in Pc
  BY DEF TypeOK
<1>2. decode \in Nat /\ Inst(decode) \in Instr
  BY <1>1, ProgramType
<1>3. /\ Inst(decode).rs1 \in Register /\ Inst(decode).rs2 \in Register
      /\ Inst(decode).rd \in Register
  BY <1>2 DEF Instr
<1>4. /\ Read(Inst(decode).rs1) \in Word /\ Read(Inst(decode).rs2) \in Word
      /\ Read(Inst(decode).rd) \in Word
  BY <1>3, ReadType
<1>5. bitwidth \in Nat /\ 0 \in Word
  BY DEF TypeOK, Word
<1> QED BY <1>1, <1>2, <1>4, <1>5 DEF ExecInfoOf, ExecInfo

LEMMA DispatchedType ==
  ASSUME TypeOK, ProgramChosen
  PROVE  /\ ToDispatcher \in ExecInfo
         /\ ToDispatcher # NoExec =>
              /\ decode # NoPc /\ ToDispatcher = ExecInfoOf(decode)
              /\ Inst(decode).op \notin ScalarOp \cup {"setbw"}
BY ExecInfoOfType, NoExecType DEF ToDispatcher, DecodeHas

LEMMA ScalarType ==
  ASSUME TypeOK, ProgramChosen
  PROVE  /\ ToScalar \in ExecInfo
         /\ ToScalar # NoExec =>
              /\ decode # NoPc /\ ToScalar = ExecInfoOf(decode)
              /\ Inst(decode).op \in ScalarOp
BY ExecInfoOfType, NoExecType DEF ToScalar, DecodeHas

LEMMA WriteType ==
  ASSUME TypeOK, ProgramChosen, ScalarRuns
  PROVE  RegFileWrite(ToScalar) \in [rd_addr: Register, rd_value: Word]
<1> DEFINE s == ToScalar
           inst == Inst(s.pc)
<1>1. s \in ExecInfo /\ s.pc = decode /\ inst \in Instr /\ inst.op \in ScalarOp
  BY ScalarType, ExecInfoOfType DEF ScalarRuns
<1>2. s.rs1_value \in Int /\ s.rs2_value \in Int /\ inst.imm \in Nat /\ inst.rd \in Register
  BY <1>1 DEF ExecInfo, Word, Instr
<1> HIDE DEF s
<1>3. /\ s.rs1_value + inst.imm \in Int /\ s.rs1_value * inst.imm \in Int
      /\ s.rs1_value + s.rs2_value \in Int /\ s.rs1_value - s.rs2_value \in Int
      /\ s.rs1_value * s.rs2_value \in Int /\ inst.imm \in Int /\ 0 \in Int
  BY <1>2
<1> HIDE DEF inst
<1> DEFINE result == [sldi  |-> inst.imm,
                 saddi |-> s.rs1_value + inst.imm,
                 smuli |-> s.rs1_value * inst.imm,
                 sadd  |-> s.rs1_value + s.rs2_value,
                 ssub  |-> s.rs1_value - s.rs2_value,
                 smul  |-> s.rs1_value * s.rs2_value,
                 sld   |-> 0]
<1>4. result[inst.op] \in Int
  BY <1>1, <1>3 DEF ScalarOp
<1> HIDE DEF result
<1>5. RegFileWrite(s) = [rd_addr  |-> IF inst.op = "sld" THEN 0 ELSE inst.rd,
                         rd_value |-> result[inst.op]]
  BY DEF RegFileWrite, result, inst
<1>6. 0 \in Register
  BY FrontEndAssumption
<1> QED BY <1>2, <1>4, <1>5, <1>6 DEF s, Word

FrontTypes ==
  /\ sim_mode \in {0, 1} /\ prog \in Seq(Instr)
  /\ pc \in 0..Fetchable
  /\ decode \in Pc \cup {NoPc}
  /\ bitwidth \in Nat
  /\ scalar \in ExecInfo
  /\ cur_write \in [rd_addr: Register, rd_value: Word]
  /\ last_write \in [rd_addr: Register, rd_value: Word]
  /\ reg_data \in [Register -> Word]

LEMMA FrontStep ==
  ASSUME TypeOK, ProgramChosen, PosEdge, UNCHANGED configVars
  PROVE  FrontTypes' /\ ProgramChosen'
<1> USE DEF TypeOK
<1>1. FrontEdge(IsDispatchable) /\ (Looping => run_rounds < Laps)
  BY DEF PosEdge
<1>2. prog' = prog /\ sim_mode' = sim_mode
  BY DEF configVars
<1>3. Fetchable' = Fetchable /\ Pc' = Pc /\ ExecInfo' = ExecInfo /\ Looping' = Looping
  BY Fixed
<1>4. /\ inst_buffer_size \in Nat /\ (Looping => inst_buffer_size >= 2)
      /\ Fetchable \in Nat
  BY ProgramType
<1>5. pc \in 0..Fetchable /\ pc \in Nat
  BY <1>4
<1>6. More => pc + 1 \in 0..Fetchable
  <2>1. CASE Looping
    <3>1. (pc + 1) \div inst_buffer_size < Laps
      BY <1>1, <2>1 DEF run_rounds
    <3>2. pc + 1 <= Laps * inst_buffer_size
      <4>1. inst_buffer_size \in Nat \ {0} /\ Laps \in Nat
        BY <1>4, <2>1, FrontEndAssumption
      <4> HIDE DEF TypeOK
      <4> QED BY <1>5, <3>1, <4>1, LapBound
    <3> QED BY <1>5, <1>4, <2>1, <3>2 DEF Fetchable
  <2>2. CASE ~Looping
    BY <1>4, <1>5, <2>2 DEF More, Fetchable
  <2> QED BY <2>1, <2>2
<1>7. pc' \in 0..Fetchable
  BY <1>1, <1>5, <1>6 DEF FrontEdge, NextPc
<1>8. decode' \in Pc \cup {NoPc}
  <2>1. Fetched \in Pc \cup {NoPc}
    BY <1>4, <1>5, <1>6 DEF Fetched, Pc
  <2> QED BY <1>1, <2>1 DEF FrontEdge, Latched
<1>9. bitwidth' \in Nat
  <2>1. DecodeHas({"setbw"}) => Inst(decode).imm \in Nat
    BY ExecInfoOfType DEF DecodeHas, Instr
  <2> QED BY <1>1, <2>1 DEF FrontEdge, Latched
<1>10. scalar' \in ExecInfo
  BY <1>1, ScalarType DEF FrontEdge
<1>11. cur_write' \in [rd_addr: Register, rd_value: Word]
  BY <1>1, WriteType DEF FrontEdge
<1>12. last_write' \in [rd_addr: Register, rd_value: Word]
  BY <1>1 DEF FrontEdge
<1>13. reg_data' \in [Register -> Word]
  BY <1>1 DEF FrontEdge
<1>14. ProgramChosen'
  BY <1>2, <1>3 DEF ProgramChosen
<1> QED BY <1>2, <1>3, <1>7, <1>8, <1>9, <1>10, <1>11, <1>12, <1>13, <1>14 DEF FrontTypes

-----------------------------------------------------------------------------
(* The reorder buffer *)

Ring(b) == WellFormed(b, ExecInfo) /\ Sorted(b)

LEMMA ExecInfoPc ==
  \A e \in ExecInfo : e.pc \in Int
<1>1. Pc \subseteq Int /\ NoPc \in Int
  BY DEF Pc, NoPc
<1> QED BY <1>1 DEF ExecInfo

\* The retirement of what a port has committed.
LEMMA RetireStep ==
  ASSUME NEW b, Ring(b), NoExec \notin Values(b), NEW p \in Port,
         commit[p] = NoExec \/ commit[p] \in ValidEntries(b),
         NEW r, r = RetireFrom(b, p)
  PROVE  /\ Ring(r)
         /\ Values(r) \subseteq Values(b)
         /\ ValidEntries(r) = ValidEntries(b) \ {commit[p]}
         /\ commit[p] # NoExec => Contains(b, commit[p])
         /\ StepFinishes(b, p) =>
              /\ ~Looping
              /\ \E l \in Values(b) : l.pc = max_pc /\ \A w \in Values(r) : l.pc < w.pc
         /\ Keeps(b, r)
         /\ HeadIsValid(b) => HeadIsValid(r)
<1>1. ValidEntries(b) \subseteq Values(b) /\ b.size \in 0..Capacity
  BY ValidEntriesAre DEF Ring
<1>2. CASE commit[p] = NoExec
  <2>1. r = b /\ ~StepFinishes(b, p)
    BY <1>2 DEF RetireFrom, Commits, StepFinishes
  <2>2. b.size <= b.size /\ \A i \in 0..(b.size - 1) : i + (b.size - b.size) = i
    BY <1>1, CapacityAssumption
  <2> QED BY <1>1, <1>2, <2>1, <2>2 DEF Keeps
<1>3. CASE commit[p] # NoExec
  <2> DEFINE v == commit[p]
  <2>1. v \in ValidEntries(b)
    BY <1>3
  <2>2. PICK q : q = Retire(b, v)
    OBVIOUS
  <2> HIDE DEF v
  <2>3. /\ Contains(b, v)
        /\ WellFormed(q, ExecInfo) /\ Sorted(q)
        /\ Values(q) \subseteq Values(b)
        /\ ValidEntries(q) = ValidEntries(b) \ {v}
        /\ Pops(b, v) => /\ LastRetired(b, v) \in Values(b)
                         /\ \A w \in Values(q) : LastRetired(b, v).pc < w.pc
        /\ Keeps(b, q)
        /\ HeadIsValid(b) => HeadIsValid(q)
    BY <2>1, <2>2, ExecInfoPc, RetireValues DEF Ring
  <2>4. r = q
    BY <1>3, <2>2, <2>3 DEF RetireFrom, Commits, v
  <2>5. StepFinishes(b, p) => ~Looping /\ Pops(b, v) /\ LastRetired(b, v).pc = max_pc
    BY DEF StepFinishes, v
  <2> QED BY <2>3, <2>4, <2>5 DEF Ring, v
<1> QED BY <1>2, <1>3

LEMMA KeepsTransitive ==
  ASSUME NEW b, Ring(b), NEW q, Ring(q), NEW r, Ring(r),
         Keeps(b, q), Keeps(q, r), Values(r) \subseteq Values(q)
  PROVE  Keeps(b, r)
<1>1. /\ b.size \in Nat /\ q.size \in Nat /\ r.size \in Nat
      /\ r.size <= q.size /\ q.size <= b.size
  BY CapacityAssumption DEF Ring, WellFormed, Buffer, Keeps
<1>2. ASSUME NEW i \in 0..(r.size - 1)
      PROVE  Entry(r, i).value = Entry(b, i + (b.size - r.size)).value
  <2>1. i + (q.size - r.size) \in 0..(q.size - 1)
    BY <1>1
  <2>2. (i + (q.size - r.size)) + (b.size - q.size) = i + (b.size - r.size)
    BY <1>1
  <2> QED BY <2>1, <2>2 DEF Keeps
<1>3. ASSUME NEW w \in Values(b), NEW u \in Values(r), u.pc <= w.pc PROVE w \in Values(r)
  BY <1>3 DEF Keeps
<1> QED BY <1>1, <1>2, <1>3 DEF Keeps

\* What is at a port is in the buffer.
LEMMA CommittedIsValid ==
  ASSUME IInv, NEW p \in Port, commit[p] # NoExec
  PROVE  commit[p] \in ValidEntries(ring_buffer) /\ ExecUnit(commit[p]) = p
<1>1. commit[p] \in Committed(p)
  BY DEF Committed
<1>2. Committed(p) \subseteq Of(p)
  <2>1. CASE p \in {"vector", "transfer"}
    BY <2>1 DEF IInv, Tracked, SingleUnits
  <2>2. CASE p = "matrix"
    <3>1. Of("matrix") = (UNION {Busy(g) : g \in ArrayGroup}) \cup Waiting \cup Queued
                        \cup Committed("matrix")
      BY DEF IInv, Tracked, MatrixUnit
    <3>2. Committed("matrix") \subseteq Of("matrix")
      BY <3>1
    <3> QED BY <2>2, <3>2
  <2> QED BY <2>1, <2>2 DEF Port
<1> QED BY <1>1, <1>2 DEF Of

LEMMA RingIs ==
  ASSUME IInv
  PROVE  /\ Ring(ring_buffer)
         /\ \A e \in Values(ring_buffer) : e \in ExecInfo /\ e # NoExec /\ 0 <= e.pc
         /\ ValidEntries(ring_buffer) \subseteq Values(ring_buffer)
<1>1. Ring(ring_buffer)
  BY DEF IInv, TypeOK, InOrder, Ring, WellFormed
<1>2. \A e \in Values(ring_buffer) : 0 <= e.pc
  BY DEF IInv, InOrder
<1>3. /\ Values(ring_buffer) \subseteq ExecInfo
      /\ ValidEntries(ring_buffer) \subseteq Values(ring_buffer)
  BY <1>1, ValidEntriesAre DEF Ring
<1>4. ~(0 <= NoPc)
  BY DEF NoPc
<1> QED BY <1>1, <1>2, <1>3, <1>4, NoExecType

\* The instruction that is issued is younger than all in the buffer, which has room.
LEMMA IssuedIs ==
  ASSUME IInv
  PROVE  /\ Issued \in ExecInfo
         /\ Issued # NoExec =>
              /\ IsDispatchable /\ Issued = dispatcher_reg
              /\ ~Full(ring_buffer)
              /\ \A e \in Values(ring_buffer) : e.pc < Issued.pc
              /\ Issued \notin Values(ring_buffer)
<1>1. Issued \in ExecInfo
  BY NoExecType DEF IInv, TypeOK, Issued
<1>2. ASSUME Issued # NoExec
      PROVE  /\ IsDispatchable /\ Issued = dispatcher_reg
             /\ ~Full(ring_buffer)
             /\ \A e \in Values(ring_buffer) : e.pc < Issued.pc
  BY <1>2 DEF Issued, IsDispatchable, RobReady, IInv, InOrder
<1>3. \A e \in Values(ring_buffer) : e.pc \in Int
  BY RingIs, ExecInfoPc
<1> QED BY <1>1, <1>2, <1>3

NewlyIssued == {Issued} \ {NoExec}

LEMMA PushedIs ==
  ASSUME IInv, NEW b, b = Pushed
  PROVE  /\ Ring(b)
         /\ Values(b) = Values(ring_buffer) \cup NewlyIssued
         /\ ValidEntries(b) = ValidEntries(ring_buffer) \cup NewlyIssued
         /\ NoExec \notin Values(b)
         /\ b.size = ring_buffer.size + IF Issued = NoExec THEN 0 ELSE 1
         /\ HeadIsValid(ring_buffer) => HeadIsValid(b)
<1>0. ring_buffer.size \in Int
  BY CapacityAssumption DEF IInv, TypeOK, Buffer
<1>1. CASE Issued = NoExec
  BY <1>0, <1>1, RingIs DEF Pushed, NewlyIssued
<1>2. CASE Issued # NoExec
  <2>1. b = Push(ring_buffer, Issued) /\ NewlyIssued = {Issued}
    BY <1>2 DEF Pushed, NewlyIssued
  <2>2. /\ Issued \in ExecInfo /\ ~Full(ring_buffer)
        /\ \A e \in Values(ring_buffer) : e.pc < Issued.pc
    BY <1>2, IssuedIs
  <2>3. WellFormed(ring_buffer, ExecInfo) /\ Sorted(ring_buffer)
    BY RingIs DEF Ring
  <2>4. /\ WellFormed(b, ExecInfo) /\ Sorted(b)
        /\ Values(b) = Values(ring_buffer) \cup {Issued}
        /\ ValidEntries(b) = ValidEntries(ring_buffer) \cup {Issued}
        /\ b.size = ring_buffer.size + 1
        /\ HeadIsValid(ring_buffer) => HeadIsValid(b)
    BY <2>1, <2>2, <2>3, ExecInfoPc, PushValues
  <2> QED BY <1>2, <2>1, <2>4, RingIs DEF Ring
<1> QED BY <1>1, <1>2

AllCommitted == {commit[p] : p \in Port}

LEMMA RobEffect ==
  ASSUME IInv, PosEdge
  PROVE  /\ thrown' = FALSE
         /\ Ring(ring_buffer')
         /\ Values(ring_buffer') \subseteq Values(ring_buffer) \cup NewlyIssued
         /\ ValidEntries(ring_buffer') = (ValidEntries(ring_buffer) \cup NewlyIssued) \ AllCommitted
         /\ inst_map' = ValidEntries(ring_buffer')
         /\ finish_running' => \/ finish_running
                               \/ ScalarFinishes
                               \/ /\ ~Looping
                                  /\ \E l \in Values(ring_buffer) \cup NewlyIssued :
                                       /\ l.pc = max_pc
                                       /\ \A w \in Values(ring_buffer') : l.pc < w.pc
         /\ ring_buffer'.size <= ring_buffer.size + IF Issued = NoExec THEN 0 ELSE 1
         /\ \A w \in Values(ring_buffer) \cup NewlyIssued :
              (\E u \in Values(ring_buffer') : u.pc <= w.pc) => w \in Values(ring_buffer')
         /\ HeadIsValid(ring_buffer) => HeadIsValid(ring_buffer')
         /\ Keeps(Pushed, ring_buffer')
<1>1. UpdateROB /\ thrown = FALSE
  BY DEF PosEdge, BackEdge, IInv, TypeOK
<1>2. PICK b1 : b1 = Pushed
  OBVIOUS
<1>3. PICK b2 : b2 = RetireFrom(b1, "matrix")
  OBVIOUS
<1>4. PICK b3 : b3 = RetireFrom(b2, "vector")
  OBVIOUS
<1>5. PICK b4 : b4 = RetireFrom(b3, "transfer")
  OBVIOUS
<1>6. /\ Ring(b1)
      /\ Values(b1) = Values(ring_buffer) \cup NewlyIssued
      /\ ValidEntries(b1) = ValidEntries(ring_buffer) \cup NewlyIssued
      /\ NoExec \notin Values(b1)
      /\ b1.size = ring_buffer.size + IF Issued = NoExec THEN 0 ELSE 1
      /\ HeadIsValid(ring_buffer) => HeadIsValid(b1)
  BY <1>2, PushedIs
<1>7. {"matrix", "vector", "transfer"} = Port
  BY DEF Port
<1>8. \A p \in Port : commit[p] # NoExec =>
        commit[p] \in ValidEntries(ring_buffer) /\ ExecUnit(commit[p]) = p
  BY CommittedIsValid
<1>9. \A p, q \in Port : p # q /\ commit[p] # NoExec => commit[p] # commit[q]
  BY <1>8
<1>10. /\ Ring(b2) /\ Values(b2) \subseteq Values(b1)
       /\ ValidEntries(b2) = ValidEntries(b1) \ {commit["matrix"]}
       /\ commit["matrix"] # NoExec => Contains(b1, commit["matrix"])
       /\ StepFinishes(b1, "matrix") =>
              /\ ~Looping
              /\ \E l \in Values(b1) : l.pc = max_pc /\ \A w \in Values(b2) : l.pc < w.pc
       /\ Keeps(b1, b2) /\ (HeadIsValid(b1) => HeadIsValid(b2))
  BY <1>3, <1>6, <1>7, <1>8, RetireStep
<1>11. commit["vector"] = NoExec \/ commit["vector"] \in ValidEntries(b2)
  BY <1>6, <1>7, <1>8, <1>9, <1>10
<1>12. /\ Ring(b3) /\ Values(b3) \subseteq Values(b2)
       /\ ValidEntries(b3) = ValidEntries(b2) \ {commit["vector"]}
       /\ commit["vector"] # NoExec => Contains(b2, commit["vector"])
       /\ StepFinishes(b2, "vector") =>
              /\ ~Looping
              /\ \E l \in Values(b2) : l.pc = max_pc /\ \A w \in Values(b3) : l.pc < w.pc
       /\ Keeps(b2, b3) /\ (HeadIsValid(b2) => HeadIsValid(b3))
  BY <1>4, <1>6, <1>7, <1>10, <1>11, RetireStep
<1>13. commit["transfer"] = NoExec \/ commit["transfer"] \in ValidEntries(b3)
  BY <1>6, <1>7, <1>8, <1>9, <1>10, <1>12
<1>14. /\ Ring(b4) /\ Values(b4) \subseteq Values(b3)
       /\ ValidEntries(b4) = ValidEntries(b3) \ {commit["transfer"]}
       /\ commit["transfer"] # NoExec => Contains(b3, commit["transfer"])
       /\ StepFinishes(b3, "transfer") =>
              /\ ~Looping
              /\ \E l \in Values(b3) : l.pc = max_pc /\ \A w \in Values(b4) : l.pc < w.pc
       /\ Keeps(b3, b4) /\ (HeadIsValid(b3) => HeadIsValid(b4))
  BY <1>5, <1>6, <1>7, <1>10, <1>12, <1>13, RetireStep
<1>15. Started = ValidEntries(ring_buffer) \cup NewlyIssued
  BY DEF Started, NewlyIssued, IInv, Tracked
<1>16. ~PushThrows
  BY IssuedIs, RingIs DEF PushThrows, IInv, Tracked
<1>17. ~StepThrows(b1, "matrix") /\ ~StepThrows(b2, "vector") /\ ~StepThrows(b3, "transfer")
  BY <1>7, <1>8, <1>10, <1>12, <1>14, <1>15 DEF StepThrows
<1>18. ~CommittedTwice
  BY <1>9 DEF CommittedTwice
<1>19. /\ thrown' = thrown
       /\ ring_buffer' = b4
       /\ inst_map' = Started \ AllCommitted
       /\ finish_running' = (\/ finish_running
                             \/ \/ StepFinishes(b1, "matrix")
                                \/ StepFinishes(b2, "vector")
                                \/ StepFinishes(b3, "transfer")
                             \/ ScalarFinishes)
  BY <1>1, <1>2, <1>3, <1>4, <1>5, <1>16, <1>17, <1>18 DEF UpdateROB, AllCommitted
<1>20. AllCommitted = {commit["matrix"], commit["vector"], commit["transfer"]}
  BY <1>7 DEF AllCommitted
<1>21. ValidEntries(b4) = (ValidEntries(ring_buffer) \cup NewlyIssued) \ AllCommitted
  BY <1>6, <1>10, <1>12, <1>14, <1>20
<1>22. Values(b4) \subseteq Values(ring_buffer) \cup NewlyIssued
  BY <1>6, <1>10, <1>12, <1>14
<1>23. ASSUME finish_running', ~finish_running, ~ScalarFinishes
       PROVE  /\ ~Looping
              /\ \E l \in Values(ring_buffer) \cup NewlyIssued :
                   l.pc = max_pc /\ \A w \in Values(ring_buffer') : l.pc < w.pc
  BY <1>6, <1>10, <1>12, <1>14, <1>19, <1>23
<1>24. Keeps(b1, b4)
  <2>1. Keeps(b1, b3)
    BY <1>6, <1>10, <1>12, KeepsTransitive
  <2> QED BY <1>6, <1>12, <1>14, <2>1, KeepsTransitive
<1>25. ring_buffer'.size <= ring_buffer.size + IF Issued = NoExec THEN 0 ELSE 1
  BY <1>6, <1>19, <1>24 DEF Keeps
<1>26. HeadIsValid(ring_buffer) => HeadIsValid(b4)
  BY <1>6, <1>10, <1>12, <1>14
<1>27. \A w \in Values(ring_buffer) \cup NewlyIssued :
         (\E u \in Values(b4) : u.pc <= w.pc) => w \in Values(b4)
  BY <1>6, <1>24 DEF Keeps
<1> QED BY <1>1, <1>2, <1>6, <1>14, <1>15, <1>19, <1>21, <1>22, <1>23, <1>24, <1>25, <1>26, <1>27

LEMMA OrderStep ==
  ASSUME IInv, PosEdge, UNCHANGED configVars, FrontTypes'
  PROVE  InOrder'
<1>1. /\ FrontEdge(IsDispatchable)
      /\ dispatcher_reg' = Latched(IsDispatchable, ToDispatcher, dispatcher_reg)
  BY DEF PosEdge, BackEdge
<1>2. Ring(ring_buffer') /\ Values(ring_buffer') \subseteq Values(ring_buffer) \cup NewlyIssued
  BY RobEffect
<1>3. /\ \A e \in Values(ring_buffer) : e.pc \in Int
      /\ Issued.pc \in Int /\ ToDispatcher.pc \in Int /\ dispatcher_reg.pc \in Int
  BY RingIs, IssuedIs, DispatchedType, ExecInfoPc DEF IInv, TypeOK
<1>4. pc \in Nat /\ pc' \in Nat /\ decode \in Int /\ (decode # NoPc => decode \in Nat)
  <2>1. Fetchable \in Nat
    BY ProgramType DEF IInv
  <2>2. Fetchable' \in Nat
    BY <2>1, Fixed
  <2> QED BY <2>1, <2>2 DEF FrontTypes, IInv, TypeOK, Pc, NoPc
<1>5. /\ ring_buffer'.tail = After(ring_buffer'.head, ring_buffer'.size)
      /\ Sorted(ring_buffer')
  BY <1>2 DEF Ring, WellFormed
<1>6. CASE IsDispatchable
  <2>1. /\ pc' = IF More THEN pc + 1 ELSE pc
        /\ decode' = Fetched
        /\ dispatcher_reg' = ToDispatcher
    BY <1>1, <1>6 DEF FrontEdge, NextPc, Latched
  <2>2. pc <= pc' /\ (decode' # NoPc => decode' = pc /\ decode' < pc')
    BY <1>4, <2>1 DEF Fetched
  <2>3. dispatcher_reg' # NoExec => decode # NoPc /\ dispatcher_reg'.pc = decode
    BY <2>1, DispatchedType, ExecInfoOfType DEF IInv
  <2>4. decode # NoPc => 0 <= decode /\ decode < pc
    BY <1>4 DEF IInv, InOrder
  <2>5. ASSUME NEW e \in Values(ring_buffer) \cup NewlyIssued
        PROVE  0 <= e.pc /\ e.pc < pc /\ (decode # NoPc => e.pc < decode)
    <3>1. CASE e \in Values(ring_buffer)
      BY <3>1 DEF IInv, InOrder
    <3>2. CASE e \in NewlyIssued
      <4>1. e = dispatcher_reg /\ e # NoExec
        BY <3>2, IssuedIs DEF NewlyIssued
      <4> QED BY <4>1 DEF IInv, InOrder
    <3> QED BY <3>1, <3>2
  <2>6. \A e \in Values(ring_buffer') :
          /\ 0 <= e.pc /\ e.pc < pc'
          /\ decode' # NoPc => e.pc < decode'
          /\ dispatcher_reg' # NoExec => e.pc < dispatcher_reg'.pc
    <3> SUFFICES ASSUME NEW e \in Values(ring_buffer')
                 PROVE  /\ 0 <= e.pc /\ e.pc < pc'
                        /\ decode' # NoPc => e.pc < decode'
                        /\ dispatcher_reg' # NoExec => e.pc < dispatcher_reg'.pc
      OBVIOUS
    <3>1. 0 <= e.pc /\ e.pc < pc /\ (decode # NoPc => e.pc < decode) /\ e.pc \in Int
      BY <1>2, <1>3, <2>5 DEF NewlyIssued
    <3> QED BY <1>4, <2>2, <2>3, <3>1
  <2>7. dispatcher_reg' # NoExec =>
          /\ 0 <= dispatcher_reg'.pc /\ dispatcher_reg'.pc < pc'
          /\ decode' # NoPc => dispatcher_reg'.pc < decode'
    BY <1>4, <2>2, <2>3, <2>4
  <2> QED BY <1>5, <2>2, <2>6, <2>7 DEF InOrder, NoExec, NoPc
<1>7. CASE ~IsDispatchable
  <2>1. pc' = pc /\ decode' = decode /\ dispatcher_reg' = dispatcher_reg
    BY <1>1, <1>7 DEF FrontEdge, NextPc, Latched
  <2>2. NewlyIssued = {}
    BY <1>7 DEF NewlyIssued, Issued
  <2> QED BY <1>2, <1>5, <2>1, <2>2 DEF InOrder, IInv, NoExec, NoPc
<1> QED BY <1>6, <1>7

-----------------------------------------------------------------------------
(* The units *)

LEMMA InputType ==
  ASSUME IInv, NEW x \in Executor
  PROVE  FsmInput(x) \in ExecInfo
<1>1. IssuedTo(x) \in ExecInfo /\ ag_reg \in ExecInfo
  BY IssuedIs, NoExecType DEF IssuedTo, IInv, TypeOK
<1> QED BY <1>1, NoExecType DEF FsmInput

UnitTypes ==
  /\ dispatcher_reg \in ExecInfo /\ ag_reg \in ExecInfo
  /\ fsm \in [Executor -> [state: {"ready", "busy", "finishing"}, value: ExecInfo]]
  /\ commit_queue \in Seq(ExecInfo)
  /\ commit \in [Port -> ExecInfo]

\* What the edge does to a state machine and its port.
LEMMA FsmStep ==
  ASSUME IInv, PosEdge, NEW x \in Executor
  PROVE  /\ fsm[x].state = "ready" /\ FsmInput(x) = NoExec => fsm'[x] = fsm[x]
         /\ fsm[x].state = "ready" /\ FsmInput(x) # NoExec =>
              fsm'[x].state = "busy" /\ fsm'[x].value = FsmInput(x)
         /\ fsm[x].state = "finishing" =>
              fsm'[x].state = "ready" /\ fsm'[x].value = fsm[x].value
         /\ fsm[x].state = "busy" => fsm'[x] = fsm[x]
         /\ fsm'[x] \in [state: {"ready", "busy", "finishing"}, value: ExecInfo]
<1>1. fsm[x] \in [state: {"ready", "busy", "finishing"}, value: ExecInfo]
  BY DEF IInv, TypeOK
<1>2. FsmInput(x) \in ExecInfo
  BY InputType
<1>3. fsm'[x] = FsmAfter(fsm[x], FsmInput(x), NoExec)
  BY DEF PosEdge, BackEdge, FsmEdge
<1> QED BY <1>1, <1>2, <1>3 DEF FsmAfter

LEMMA UnitTypesStep ==
  ASSUME IInv, PosEdge, UNCHANGED configVars
  PROVE  UnitTypes'
<1>1. ExecInfo' = ExecInfo
  BY Fixed
<1>2. /\ dispatcher_reg \in ExecInfo /\ ag_reg \in ExecInfo
      /\ fsm \in [Executor -> [state: {"ready", "busy", "finishing"}, value: ExecInfo]]
      /\ commit_queue \in Seq(ExecInfo)
      /\ commit \in [Port -> ExecInfo]
  BY DEF IInv, TypeOK
<1>3. dispatcher_reg' \in ExecInfo
  BY <1>2, DispatchedType DEF PosEdge, BackEdge, Latched, IInv
<1>4. ag_reg' \in ExecInfo
  BY <1>2, IssuedIs, NoExecType DEF PosEdge, BackEdge, Latched, IssuedTo
<1>5. fsm' \in [Executor -> [state: {"ready", "busy", "finishing"}, value: ExecInfo]]
  <2>1. fsm' = [x \in Executor |-> FsmEdge(x)]
    BY DEF PosEdge, BackEdge
  <2>2. \A x \in Executor : fsm'[x] \in [state: {"ready", "busy", "finishing"}, value: ExecInfo]
    BY FsmStep
  <2> QED BY <2>1, <2>2
<1>6. commit_queue' \in Seq(ExecInfo) /\ Offered(commit_queue, NoExec) \in ExecInfo
  <2>1. commit_queue' = Popped(commit_queue)
    BY DEF PosEdge, BackEdge, CommitEdge
  <2> QED BY <1>2, <2>1, NoExecType, HeadTailProperties DEF Popped, Offered
<1>7. commit' \in [Port -> ExecInfo]
  <2>1. commit' = [p \in Port |-> IF p = "matrix" THEN Offered(commit_queue, NoExec) ELSE Pulse(p)]
    BY DEF PosEdge, BackEdge, CommitEdge
  <2>2. \A p \in {"vector", "transfer"} : Pulse(p) \in ExecInfo
    BY <1>2, NoExecType DEF Pulse, PulseAfter, Executor
  <2> QED BY <1>6, <2>1, <2>2 DEF Port
<1> QED BY <1>1, <1>3, <1>4, <1>5, <1>6, <1>7 DEF UnitTypes

\* What a unit has in execution after the edge.
LEMMA OfStep ==
  ASSUME IInv, PosEdge, UNCHANGED configVars, NEW p \in Port
  PROVE  /\ Of(p)' = (Of(p) \cup ({IssuedTo(p)} \ {NoExec})) \ {commit[p]}
         /\ IssuedTo(p) # NoExec => IssuedTo(p) \notin Of(p) /\ IssuedTo(p) # commit[p]
         /\ IssuedTo(p) # NoExec => ExecUnit(IssuedTo(p)) = p
<1>1. ValidEntries(ring_buffer') = (ValidEntries(ring_buffer) \cup NewlyIssued) \ AllCommitted
  BY RobEffect
<1>2. \A e : ExecUnit(e)' = ExecUnit(e)
  BY Fixed
<1>3. Of(p)' = {e \in ValidEntries(ring_buffer') : ExecUnit(e) = p}
  BY <1>2 DEF Of
<1>4. \A q \in Port : commit[q] # NoExec =>
        commit[q] \in ValidEntries(ring_buffer) /\ ExecUnit(commit[q]) = q
  BY CommittedIsValid
<1>5. {e \in NewlyIssued : ExecUnit(e) = p} = {IssuedTo(p)} \ {NoExec}
  BY DEF NewlyIssued, IssuedTo
<1>6. NoExec \notin ValidEntries(ring_buffer) \cup NewlyIssued
  BY RingIs DEF NewlyIssued
<1>7. \A e \in ValidEntries(ring_buffer) \cup NewlyIssued :
        ExecUnit(e) = p => (e \in AllCommitted <=> e = commit[p])
  BY <1>4, <1>6 DEF AllCommitted
<1>8. Of(p)' = (Of(p) \cup ({IssuedTo(p)} \ {NoExec})) \ {commit[p]}
  BY <1>1, <1>3, <1>5, <1>7 DEF Of
<1>9. ASSUME IssuedTo(p) # NoExec
      PROVE  /\ IssuedTo(p) \notin Of(p) /\ IssuedTo(p) # commit[p]
             /\ ExecUnit(IssuedTo(p)) = p
  <2>1. IssuedTo(p) = Issued /\ ExecUnit(Issued) = p /\ Issued # NoExec
    BY <1>9 DEF IssuedTo
  <2>2. Issued \notin ValidEntries(ring_buffer)
    BY <2>1, IssuedIs, RingIs
  <2> QED BY <1>4, <2>1, <2>2 DEF Of
<1> QED BY <1>8, <1>9

LEMMA NamesApart ==
  /\ "vector" \notin ArrayGroup /\ "transfer" \notin ArrayGroup /\ "matrix" \notin ArrayGroup
  /\ "nop" \notin Executor /\ "none" \notin Executor /\ "matrix" \notin Executor
BY FrontEndAssumption DEF Executor

LEMMA SingleUnitsStep ==
  ASSUME IInv, PosEdge, UNCHANGED configVars
  PROVE  SingleUnits'
<1> SUFFICES ASSUME NEW x \in {"vector", "transfer"}
             PROVE  /\ Of(x)' = Executing(x)' \cup Committed(x)'
                    /\ commit'[x] # NoExec => fsm'[x].state = "ready"
  BY DEF SingleUnits, NoExec, NoPc
<1>1. x \in Port /\ x \in Executor /\ x # "matrix" /\ x \notin ArrayGroup
  BY NamesApart DEF Port, Executor
<1>2. /\ Of(x) = Executing(x) \cup Committed(x)
      /\ commit[x] # NoExec => fsm[x].state = "ready"
  BY DEF IInv, Tracked, SingleUnits
<1>3. commit'[x] = PulseAfter(fsm[x], commit[x], NoExec)
  BY <1>1 DEF PosEdge, BackEdge, CommitEdge, Pulse
<1>4. FsmInput(x) = IssuedTo(x)
  BY <1>1 DEF FsmInput
<1>5. IssuedTo(x) # NoExec => fsm[x].state = "ready"
  <2>1. ASSUME IssuedTo(x) # NoExec
        PROVE  IsDispatchable /\ dispatcher_reg # NoExec /\ ExecUnit(dispatcher_reg) = x
    BY <2>1 DEF IssuedTo, Issued
  <2>2. x \in DOMAIN fsm
    BY <1>1 DEF IInv, TypeOK
  <2> QED BY <2>1, <2>2 DEF IsDispatchable
<1>6. /\ Of(x)' = (Of(x) \cup ({IssuedTo(x)} \ {NoExec})) \ {commit[x]}
      /\ IssuedTo(x) # NoExec => IssuedTo(x) \notin Of(x) /\ IssuedTo(x) # commit[x]
  BY <1>1, OfStep
<1>7. /\ fsm[x].state = "ready" /\ FsmInput(x) = NoExec => fsm'[x] = fsm[x]
      /\ fsm[x].state = "ready" /\ FsmInput(x) # NoExec =>
              fsm'[x].state = "busy" /\ fsm'[x].value = FsmInput(x)
      /\ fsm[x].state = "finishing" =>
              fsm'[x].state = "ready" /\ fsm'[x].value = fsm[x].value
      /\ fsm[x].state = "busy" => fsm'[x] = fsm[x]
  BY <1>1, FsmStep
<1>8. NoExec \notin Of(x)
  BY RingIs DEF Of
<1>9. /\ Executing(x)' = IF fsm'[x].state # "ready" THEN {fsm'[x].value} ELSE {}
      /\ Committed(x)' = {commit'[x]} \ {NoExec}
  BY DEF Executing, Committed, NoExec, NoPc
<1>10. fsm[x].state \in {"ready", "busy", "finishing"}
  BY <1>1 DEF IInv, TypeOK
<1>11. CASE fsm[x].state = "ready"
  <2>1. commit'[x] = NoExec
    BY <1>3, <1>11 DEF PulseAfter
  <2>2. Of(x) = Committed(x)
    BY <1>2, <1>11 DEF Executing
  <2>3. Of(x)' = {IssuedTo(x)} \ {NoExec}
    BY <1>6, <2>2 DEF Committed
  <2> QED BY <1>4, <1>7, <1>9, <1>11, <2>1, <2>3
<1>12. CASE fsm[x].state = "busy"
  <2>1. commit[x] = NoExec /\ commit'[x] = NoExec /\ IssuedTo(x) = NoExec
    BY <1>2, <1>3, <1>5, <1>12 DEF PulseAfter
  <2>2. Of(x)' = {fsm[x].value}
    BY <1>2, <1>6, <1>8, <1>12, <2>1 DEF Executing, Committed
  <2> QED BY <1>7, <1>9, <1>12, <2>1, <2>2
<1>13. CASE fsm[x].state = "finishing"
  <2>1. commit[x] = NoExec /\ commit'[x] = fsm[x].value /\ IssuedTo(x) = NoExec
    BY <1>2, <1>3, <1>5, <1>13 DEF PulseAfter
  <2>2. Of(x) = {fsm[x].value} /\ Of(x)' = {fsm[x].value}
    BY <1>2, <1>6, <1>8, <1>13, <2>1 DEF Executing, Committed
  <2> QED BY <1>7, <1>8, <1>9, <1>13, <2>1, <2>2
<1> QED BY <1>10, <1>11, <1>12, <1>13

\* What is in a place of the matrix unit is in execution.
LEMMA MatrixIs ==
  ASSUME IInv
  PROVE  /\ Of("matrix") = (UNION {Busy(g) : g \in ArrayGroup}) \cup Waiting \cup Queued
                           \cup Committed("matrix")
         /\ NoExec \notin Of("matrix")
         /\ \A e \in Of("matrix") : e.pc \in Pc /\ Inst(e.pc).group \in ArrayGroup
<1>1. Of("matrix") = (UNION {Busy(g) : g \in ArrayGroup}) \cup Waiting \cup Queued
                     \cup Committed("matrix")
  BY DEF IInv, Tracked, MatrixUnit
<1>2. ASSUME NEW e \in Of("matrix") PROVE e # NoExec /\ e.pc \in Pc
  <2>1. e \in Values(ring_buffer) /\ e \in ExecInfo /\ e # NoExec /\ 0 <= e.pc
    BY RingIs DEF Of
  <2>2. e.pc \in Pc \cup {NoPc} /\ ~(0 <= NoPc)
    BY <2>1 DEF ExecInfo, NoPc
  <2> QED BY <2>1, <2>2
<1>3. \A i \in Pc : Inst(i).group \in ArrayGroup
  BY ProgramType DEF IInv, Instr
<1> QED BY <1>1, <1>2, <1>3

LEMMA QueueStep ==
  ASSUME IInv, PosEdge
  PROVE  /\ Queued' \cup Committed("matrix")' = Queued
         /\ Queued' \cap Committed("matrix")' = {}
         /\ \A j, k \in DOMAIN commit_queue' : commit_queue'[j] = commit_queue'[k] => j = k
<1> DEFINE q == commit_queue
<1>1. q \in Seq(ExecInfo)
  BY DEF IInv, TypeOK
<1>2. commit_queue' = Popped(q) /\ commit'["matrix"] = Offered(q, NoExec)
  BY DEF PosEdge, BackEdge, CommitEdge, Port
<1>3. \A j, k \in DOMAIN q : q[j] = q[k] => j = k
  BY DEF IInv, Tracked, PlacedOnce
<1>4. NoExec \notin Queued
  BY MatrixIs
<1>5. /\ Queued' = {commit_queue'[k] : k \in DOMAIN commit_queue'}
      /\ Committed("matrix")' = {commit'["matrix"]} \ {NoExec}
  BY DEF Queued, Committed, NoExec, NoPc
<1>6. Queued = {q[k] : k \in DOMAIN q}
  BY DEF Queued
<1>7. CASE q = <<>>
  <2>1. commit_queue' = <<>> /\ commit'["matrix"] = NoExec /\ DOMAIN <<>> = {}
    BY <1>2, <1>7 DEF Popped, Offered
  <2> QED BY <1>5, <1>6, <1>7, <2>1
<1>8. CASE q # <<>>
  <2>1. /\ commit_queue' = Tail(q) /\ commit'["matrix"] = q[1]
        /\ Len(q) \in Nat \ {0} /\ DOMAIN q = 1..Len(q)
    BY <1>1, <1>2, <1>8, HeadTailProperties, EmptySeq, LenProperties DEF Popped, Offered
  <2>2. /\ DOMAIN Tail(q) = 1..(Len(q) - 1)
        /\ \A k \in 1..(Len(q) - 1) : Tail(q)[k] = q[k + 1]
    BY <1>1, <1>8, <2>1, HeadTailProperties, LenProperties
  <2>3. \A k \in DOMAIN q : k = 1 \/ (k - 1 \in 1..(Len(q) - 1) /\ (k - 1) + 1 = k)
    BY <2>1
  <2>4. \A k \in 1..(Len(q) - 1) : k + 1 \in DOMAIN q /\ k + 1 # 1
    BY <2>1
  <2>5. 1 \in DOMAIN q /\ q[1] # NoExec
    BY <1>4, <1>6, <2>1
  <2> HIDE DEF q
  <2>6. Queued' = {q[k + 1] : k \in 1..(Len(q) - 1)} /\ Committed("matrix")' = {q[1]}
    <3>1. Queued' = {commit_queue'[k] : k \in 1..(Len(q) - 1)}
      BY <1>5, <2>1, <2>2
    <3>2. \A k \in 1..(Len(q) - 1) : commit_queue'[k] = q[k + 1]
      BY <2>1, <2>2
    <3>3. Queued' = {q[k + 1] : k \in 1..(Len(q) - 1)}
      BY <3>1, <3>2
    <3>4. Committed("matrix")' = {q[1]}
      BY <1>5, <2>1, <2>5
    <3> QED BY <3>3, <3>4
  <2>7. Queued' \cup Committed("matrix")' = Queued
    BY <1>6, <2>3, <2>4, <2>5, <2>6
  <2>8. Queued' \cap Committed("matrix")' = {}
    BY <1>3, <2>4, <2>5, <2>6
  <2>9. \A j, k \in 1..(Len(q) - 1) : q[j + 1] = q[k + 1] => j = k
    BY <1>3, <2>1, <2>4
  <2> QED BY <2>1, <2>2, <2>7, <2>8, <2>9
<1> QED BY <1>7, <1>8

\* What leaves the register before the array groups at the edge.
Moving == IF MatrixReady THEN Waiting ELSE {}

LEMMA WaitingStep ==
  ASSUME IInv, PosEdge
  PROVE  Waiting' = (Waiting \ Moving) \cup ({IssuedTo("matrix")} \ {NoExec})
<1>1. ag_reg' = IF MatrixReady THEN IssuedTo("matrix") ELSE ag_reg
  BY DEF PosEdge, BackEdge, Latched
<1>2. IssuedTo("matrix") # NoExec => MatrixReady
  BY DEF IssuedTo, Issued, IsDispatchable
<1>3. Waiting' = {ag_reg'} \ {NoExec}
  BY DEF Waiting, NoExec, NoPc
<1> QED BY <1>1, <1>2, <1>3 DEF Moving, Waiting

LEMMA BusyStep ==
  ASSUME IInv, PosEdge, NEW g \in ArrayGroup
  PROVE  Busy(g)' = Busy(g) \cup {e \in Moving : Inst(e.pc).group = g}
<1>1. g \in Executor
  BY DEF Executor
<1>2. /\ fsm[g].state = "ready" /\ FsmInput(g) = NoExec => fsm'[g] = fsm[g]
      /\ fsm[g].state = "ready" /\ FsmInput(g) # NoExec =>
              fsm'[g].state = "busy" /\ fsm'[g].value = FsmInput(g)
      /\ fsm[g].state = "finishing" =>
              fsm'[g].state = "ready" /\ fsm'[g].value = fsm[g].value
      /\ fsm[g].state = "busy" => fsm'[g] = fsm[g]
  BY <1>1, FsmStep
<1>3. FsmInput(g) = IF ag_reg # NoExec /\ Inst(ag_reg.pc).group = g THEN ag_reg ELSE NoExec
  BY DEF FsmInput
<1>4. Busy(g)' = IF fsm'[g].state = "busy" THEN {fsm'[g].value} ELSE {}
  BY DEF Busy
<1>5. fsm[g].state \in {"ready", "busy", "finishing"}
  BY <1>1 DEF IInv, TypeOK
<1>6. CASE ag_reg # NoExec /\ Inst(ag_reg.pc).group = g
  <2>1. MatrixReady <=> fsm[g].state = "ready"
    BY <1>6 DEF MatrixReady
  <2>2. Waiting = {ag_reg}
    BY <1>6 DEF Waiting
  <2>3. {e \in Moving : Inst(e.pc).group = g} = IF fsm[g].state = "ready" THEN {ag_reg} ELSE {}
    BY <1>6, <2>1, <2>2 DEF Moving
  <2>4. FsmInput(g) = ag_reg
    BY <1>3, <1>6
  <2> QED BY <1>2, <1>4, <1>5, <1>6, <2>3, <2>4 DEF Busy
<1>7. CASE ~(ag_reg # NoExec /\ Inst(ag_reg.pc).group = g)
  <2>1. {e \in Moving : Inst(e.pc).group = g} = {}
    BY <1>7 DEF Moving, Waiting
  <2>2. FsmInput(g) = NoExec
    BY <1>3, <1>7
  <2> QED BY <1>2, <1>4, <1>5, <2>1, <2>2 DEF Busy
<1> QED BY <1>6, <1>7

LEMMA MatrixStep ==
  ASSUME IInv, PosEdge, UNCHANGED configVars
  PROVE  MatrixUnit' /\ PlacedOnce'
<1> DEFINE I == {IssuedTo("matrix")} \ {NoExec}
           AllBusy == UNION {Busy(g) : g \in ArrayGroup}
           C == Committed("matrix")
<1>1. /\ Of("matrix") = AllBusy \cup Waiting \cup Queued \cup C
      /\ NoExec \notin Of("matrix")
      /\ \A e \in Of("matrix") : e.pc \in Pc /\ Inst(e.pc).group \in ArrayGroup
  BY MatrixIs
<1>2. /\ \A g \in ArrayGroup : \A e \in Busy(g) : Inst(e.pc).group = g
      /\ \A g \in ArrayGroup : Busy(g) \cap (Waiting \cup Queued \cup C) = {}
      /\ Waiting \cap (Queued \cup C) = {}
      /\ Queued \cap C = {}
  BY DEF IInv, Tracked, MatrixUnit, PlacedOnce
<1>3. /\ Of("matrix")' = (Of("matrix") \cup I) \ C
      /\ I \cap Of("matrix") = {}
  <2>1. "matrix" \in Port
    BY DEF Port
  <2>2. /\ Of("matrix")' = (Of("matrix") \cup I) \ {commit["matrix"]}
        /\ I \cap Of("matrix") = {}
    BY <2>1, OfStep
  <2>3. NoExec \notin Of("matrix") \cup I
    BY <1>1
  <2> QED BY <2>2, <2>3 DEF Committed
<1>4. /\ Queued' \cup C' = Queued
      /\ Queued' \cap C' = {}
      /\ \A j, k \in DOMAIN commit_queue' : commit_queue'[j] = commit_queue'[k] => j = k
  BY QueueStep
<1>5. Waiting' = (Waiting \ Moving) \cup I
  BY WaitingStep
<1>6. \A g \in ArrayGroup : Busy(g)' = Busy(g) \cup {e \in Moving : Inst(e.pc).group = g}
  BY BusyStep
<1>7. Moving \subseteq Waiting
  BY DEF Moving
<1>8. \A e \in Moving : Inst(e.pc).group \in ArrayGroup
  BY <1>1, <1>7
<1>9. AllBusy' = AllBusy \cup Moving
  <2>1. AllBusy' = UNION {Busy(g)' : g \in ArrayGroup}
    OBVIOUS
  <2>2. \A e : e \in AllBusy' <=> \E g \in ArrayGroup : e \in Busy(g)'
    BY <2>1
  <2>3. \A e : e \in AllBusy <=> \E g \in ArrayGroup : e \in Busy(g)
    OBVIOUS
  <2> HIDE DEF AllBusy
  <2> QED BY <1>6, <1>8, <2>2, <2>3
<1>10. \A g \in ArrayGroup : Busy(g) \subseteq AllBusy
  OBVIOUS
<1>11. AllBusy \cap (Waiting \cup Queued \cup C) = {}
  BY <1>2
<1> HIDE DEF I, AllBusy, C
<1>12. Of("matrix")' = AllBusy' \cup Waiting' \cup Queued' \cup C'
  BY <1>1, <1>2, <1>3, <1>4, <1>5, <1>7, <1>9, <1>11
<1>13. \A i : Inst(i)' = Inst(i)
  BY Fixed
<1>14. \A g \in ArrayGroup : \A e \in Busy(g)' : Inst(e.pc)' = Inst(e.pc) /\ Inst(e.pc).group = g
  BY <1>2, <1>6, <1>13
<1>15. MatrixUnit'
  BY <1>12, <1>14 DEF MatrixUnit, AllBusy, C
<1>16. \A g \in ArrayGroup : Busy(g)' \cap (Waiting' \cup Queued' \cup C') = {}
  <2> SUFFICES ASSUME NEW g \in ArrayGroup, NEW e \in Busy(g)'
               PROVE  e \notin Waiting' /\ e \notin Queued' \cup C'
    OBVIOUS
  <2>1. e \in Busy(g) \/ e \in Moving
    BY <1>6
  <2>2. e \in Of("matrix") /\ e \notin Queued
    BY <1>1, <1>2, <1>7, <1>10, <2>1
  <2>3. e \notin Waiting \ Moving
    BY <1>2, <2>1
  <2> QED BY <1>3, <1>4, <1>5, <2>2, <2>3
<1>17. Waiting' \cap (Queued' \cup C') = {}
  BY <1>1, <1>2, <1>3, <1>4, <1>5
<1> QED BY <1>4, <1>15, <1>16, <1>17 DEF PlacedOnce, C

-----------------------------------------------------------------------------
(* The invariant is preserved *)

LEMMA EdgeStep ==
  ASSUME IInv, PosEdge, UNCHANGED configVars
  PROVE  IInv'
<1>1. FrontTypes' /\ ProgramChosen'
  BY FrontStep DEF IInv
<1>2. InOrder'
  BY <1>1, OrderStep
<1>3. UnitTypes' /\ SingleUnits' /\ MatrixUnit' /\ PlacedOnce'
  BY UnitTypesStep, SingleUnitsStep, MatrixStep
<1>4. /\ thrown' = FALSE /\ Ring(ring_buffer')
      /\ inst_map' = ValidEntries(ring_buffer')
  BY RobEffect
<1>5. ExecInfo' = ExecInfo
  BY Fixed
<1>6. inst_map' \subseteq ExecInfo
  BY <1>4, ValidEntriesAre DEF Ring
<1>7. finish_running' \in BOOLEAN
  BY DEF PosEdge, BackEdge, UpdateROB, IInv, TypeOK
<1>9. TypeOK'
  <2>1. thrown' \in BOOLEAN /\ inst_map' \subseteq ExecInfo' /\ ring_buffer' \in Buffer(ExecInfo')
    BY <1>4, <1>5, <1>6 DEF Ring, WellFormed
  <2> QED BY <1>1, <1>3, <1>7, <2>1 DEF FrontTypes, UnitTypes, TypeOK
<1> QED BY <1>1, <1>2, <1>3, <1>4, <1>9 DEF IInv, Tracked

LEMMA CompleteStep ==
  ASSUME IInv, NEW x \in Executor, Finishes(x), UNCHANGED configVars
  PROVE  IInv'
<1>1. /\ fsm[x].state = "busy"
      /\ fsm' = [fsm EXCEPT ![x].state = "finishing"]
      /\ commit_queue' = IF x \in ArrayGroup THEN Append(commit_queue, fsm[x].value) ELSE commit_queue
      /\ UNCHANGED <<dispatcher_reg, ring_buffer, inst_map, ag_reg, commit, finish_running, thrown>>
      /\ UNCHANGED frontVars
  BY DEF Finishes, Complete
<1>2. /\ Fetchable' = Fetchable /\ Pc' = Pc /\ ExecInfo' = ExecInfo /\ Looping' = Looping
      /\ \A i : Inst(i)' = Inst(i)
      /\ \A e : ExecUnit(e)' = ExecUnit(e)
  BY Fixed
<1>3. FrontTypes' /\ ProgramChosen' /\ InOrder'
  BY <1>1, <1>2 DEF IInv, TypeOK, FrontTypes, ProgramChosen, InOrder, frontVars, configVars, NoExec, NoPc
<1>4. /\ fsm \in [Executor -> [state: {"ready", "busy", "finishing"}, value: ExecInfo]]
      /\ commit_queue \in Seq(ExecInfo)
  BY DEF IInv, TypeOK
<1>5. /\ fsm'[x].state = "finishing" /\ fsm'[x].value = fsm[x].value
      /\ \A y \in Executor : y # x => fsm'[y] = fsm[y]
      /\ fsm' \in [Executor -> [state: {"ready", "busy", "finishing"}, value: ExecInfo]]
  BY <1>1, <1>4
<1>6. commit_queue' \in Seq(ExecInfo)
  BY <1>1, <1>4, AppendProperties
<1>7. UnitTypes'
  BY <1>1, <1>2, <1>5, <1>6 DEF UnitTypes, IInv, TypeOK
<1>8. TypeOK'
  BY <1>1, <1>2, <1>3, <1>7 DEF IInv, TypeOK, FrontTypes, UnitTypes
<1>9. \A p : Of(p)' = Of(p)
  BY <1>1, <1>2 DEF Of
<1>10. /\ Waiting' = Waiting
       /\ \A p : Committed(p)' = Committed(p)
  BY <1>1 DEF Waiting, Committed, NoExec, NoPc
<1>11. SingleUnits'
  <2> SUFFICES ASSUME NEW y \in {"vector", "transfer"}
               PROVE  /\ Of(y)' = Executing(y)' \cup Committed(y)'
                      /\ commit'[y] # NoExec => fsm'[y].state = "ready"
    BY DEF SingleUnits, NoExec, NoPc
  <2>1. /\ Of(y) = Executing(y) \cup Committed(y)
        /\ commit[y] # NoExec => fsm[y].state = "ready"
        /\ y \in Executor
    BY DEF IInv, Tracked, SingleUnits, Executor
  <2>2. Executing(y)' = IF fsm'[y].state # "ready" THEN {fsm'[y].value} ELSE {}
    BY DEF Executing
  <2>3. Executing(y)' = Executing(y)
    BY <1>1, <1>5, <2>1, <2>2 DEF Executing
  <2> QED BY <1>1, <1>5, <1>9, <1>10, <2>1, <2>3
<1>12. MatrixUnit' /\ PlacedOnce'
  <2>1. \A g \in ArrayGroup : Busy(g)' = IF fsm'[g].state = "busy" THEN {fsm'[g].value} ELSE {}
    BY DEF Busy
  <2>2. CASE x \notin ArrayGroup
    <3>1. \A g \in ArrayGroup : Busy(g)' = Busy(g)
      BY <1>5, <2>1, <2>2 DEF Busy, Executor
    <3>2. commit_queue' = commit_queue
      BY <1>1, <2>2
    <3>3. Queued' = Queued
      BY <3>2 DEF Queued
    <3> QED BY <1>2, <1>9, <1>10, <3>1, <3>2, <3>3 DEF MatrixUnit, PlacedOnce, IInv, Tracked
  <2>3. CASE x \in ArrayGroup
    <3> DEFINE v == fsm[x].value
               AllBusy == UNION {Busy(g) : g \in ArrayGroup}
    <3>1. Busy(x) = {v} /\ Busy(x)' = {}
      BY <1>1, <1>5, <2>1, <2>3 DEF Busy
    <3>2. \A g \in ArrayGroup : g # x => Busy(g)' = Busy(g)
      BY <1>5, <2>1 DEF Busy, Executor
    <3>3. commit_queue' = Append(commit_queue, v)
      BY <1>1, <2>3
    <3> HIDE DEF v
    <3>4. Inst(v.pc).group = x
      BY <2>3, <3>1 DEF IInv, Tracked, MatrixUnit
    <3>5. \A g \in ArrayGroup : g # x => v \notin Busy(g)
      BY <3>4 DEF IInv, Tracked, MatrixUnit
    <3>6. v \notin Waiting \cup Queued \cup Committed("matrix")
      BY <2>3, <3>1 DEF IInv, Tracked, PlacedOnce
    <3>7. /\ DOMAIN commit_queue' = 1..(Len(commit_queue) + 1)
          /\ DOMAIN commit_queue = 1..Len(commit_queue) /\ Len(commit_queue) \in Nat
          /\ commit_queue'[Len(commit_queue) + 1] = v
          /\ \A k \in 1..Len(commit_queue) : commit_queue'[k] = commit_queue[k]
      <4>1. v \in ExecInfo
        BY <1>4 DEF v
      <4> QED BY <1>4, <1>6, <3>3, <4>1, AppendProperties, LenProperties
    <3>8. Queued' = Queued \cup {v}
      <4>1. Queued' = {commit_queue'[k] : k \in DOMAIN commit_queue'}
        BY DEF Queued
      <4>2. \A k \in 1..(Len(commit_queue) + 1) : k \in 1..Len(commit_queue) \/ k = Len(commit_queue) + 1
        BY <3>7
      <4>3. /\ Len(commit_queue) + 1 \in DOMAIN commit_queue'
            /\ DOMAIN commit_queue \subseteq DOMAIN commit_queue'
        BY <3>7
      <4> QED BY <3>7, <4>1, <4>2, <4>3 DEF Queued
    <3>9. \A j, k \in DOMAIN commit_queue' : commit_queue'[j] = commit_queue'[k] => j = k
      <4>1. \A j, k \in DOMAIN commit_queue : commit_queue[j] = commit_queue[k] => j = k
        BY DEF IInv, Tracked, PlacedOnce
      <4>2. \A k \in DOMAIN commit_queue : commit_queue[k] # v
        BY <3>6 DEF Queued
      <4>3. \A k \in DOMAIN commit_queue' : k \in DOMAIN commit_queue \/ k = Len(commit_queue) + 1
        BY <3>7
      <4> QED BY <3>7, <4>1, <4>2, <4>3
    <3>10. AllBusy' = AllBusy \ {v}
      <4>1. AllBusy' = UNION {Busy(g)' : g \in ArrayGroup}
        OBVIOUS
      <4>2. \A e : e \in AllBusy' <=> \E g \in ArrayGroup : e \in Busy(g)'
        BY <4>1
      <4>3. \A e : e \in AllBusy <=> \E g \in ArrayGroup : e \in Busy(g)
        OBVIOUS
      <4> HIDE DEF AllBusy
      <4> QED BY <2>3, <3>1, <3>2, <3>5, <4>2, <4>3
    <3>11. v \in AllBusy
      BY <2>3, <3>1
    <3>12. Of("matrix") = AllBusy \cup Waiting \cup Queued \cup Committed("matrix")
      BY MatrixIs
    <3>13. \A g \in ArrayGroup : Busy(g)' \subseteq Busy(g)
      BY <3>1, <3>2
    <3> HIDE DEF AllBusy
    <3>14. Of("matrix")' = AllBusy' \cup Waiting' \cup Queued' \cup Committed("matrix")'
      BY <1>9, <1>10, <3>8, <3>10, <3>11, <3>12
    <3>15. MatrixUnit'
      BY <1>2, <3>13, <3>14 DEF MatrixUnit, AllBusy, IInv, Tracked
    <3>16. \A g \in ArrayGroup : Busy(g)' \cap (Waiting' \cup Queued' \cup Committed("matrix")') = {}
      BY <1>10, <3>1, <3>2, <3>5, <3>8 DEF IInv, Tracked, PlacedOnce
    <3>17. /\ Waiting' \cap (Queued' \cup Committed("matrix")') = {}
           /\ Queued' \cap Committed("matrix")' = {}
      BY <1>10, <3>6, <3>8 DEF IInv, Tracked, PlacedOnce
    <3> QED BY <3>9, <3>15, <3>16, <3>17 DEF PlacedOnce
  <2> QED BY <2>2, <2>3
<1> QED BY <1>1, <1>3, <1>8, <1>11, <1>12 DEF IInv, Tracked

LEMMA InitInv == Init => IInv
<1> SUFFICES ASSUME Init PROVE IInv
  OBVIOUS
<1> USE DEF Init, FrontInit, BackInit
<1>1. ProgramChosen
  BY DEF ProgramChosen
<1>2. prog \in Seq(Instr)
  BY <1>1, FrontEndAssumption DEF ProgramChosen
<1>3. Fetchable \in Nat
  BY <1>2, FrontEndAssumption DEF Fetchable, inst_buffer_size
<1>4. NoExec \in ExecInfo /\ 0 \in Register /\ 0 \in Word
  BY NoExecType, FrontEndAssumption DEF Word
<1>5. WellFormed(ring_buffer, ExecInfo) /\ ring_buffer.size = 0
  <2>1. Capacity \in Nat /\ 0 \in Slot /\ 0 \in 0..(Capacity + 1)
    BY CapacityAssumption DEF Slot
  <2>2. After(0, 0) = 0
    BY <2>1, AfterIs
  <2> QED BY <1>4, <2>1, <2>2 DEF NewBuffer, WellFormed, Buffer
<1>6. Values(ring_buffer) = {} /\ ValidEntries(ring_buffer) = {}
  BY <1>5, ValidEntriesAre DEF Values
<1>7. Sorted(ring_buffer)
  BY <1>5 DEF Sorted
<1>8. fsm \in [Executor -> [state: {"ready", "busy", "finishing"}, value: ExecInfo]]
  BY <1>4 DEF Idle
<1>9. /\ commit_queue \in Seq(ExecInfo) /\ DOMAIN commit_queue = {}
      /\ commit \in [Port -> ExecInfo]
  BY <1>4, EmptySeq
<1>10. FrontTypes
  BY <1>2, <1>3, <1>4 DEF FrontTypes
<1>11. TypeOK
  BY <1>4, <1>5, <1>8, <1>9, <1>10 DEF FrontTypes, TypeOK, WellFormed
<1>12. InOrder
  BY <1>5, <1>6, <1>7 DEF InOrder, WellFormed
<1>13. /\ \A p \in Port : Of(p) = {} /\ Committed(p) = {}
       /\ \A x \in Executor : Executing(x) = {} /\ Busy(x) = {}
       /\ Waiting = {} /\ Queued = {}
  BY <1>6, <1>9 DEF Of, Committed, Executing, Busy, Waiting, Queued, Idle
<1>14. SingleUnits /\ MatrixUnit /\ PlacedOnce
  <2>1. {"matrix", "vector", "transfer"} \subseteq Port /\ {"vector", "transfer"} \subseteq Executor
        /\ ArrayGroup \subseteq Executor
    BY DEF Port, Executor
  <2>2. SingleUnits
    BY <1>13, <2>1 DEF SingleUnits
  <2>3. \A g \in ArrayGroup : Busy(g) = {}
    BY <1>13, <2>1
  <2>4. (UNION {Busy(g) : g \in ArrayGroup}) = {}
    BY <2>3
  <2>5. MatrixUnit
    BY <1>13, <2>1, <2>3, <2>4 DEF MatrixUnit
  <2>6. PlacedOnce
    BY <1>9, <1>13, <2>1, <2>3 DEF PlacedOnce
  <2> QED BY <2>2, <2>5, <2>6
<1> QED BY <1>1, <1>6, <1>11, <1>12, <1>14 DEF IInv, Tracked

LEMMA StutterStep ==
  ASSUME IInv, UNCHANGED vars PROVE IInv'
<1>1. /\ Fetchable' = Fetchable /\ Pc' = Pc /\ ExecInfo' = ExecInfo /\ Looping' = Looping
      /\ \A i : Inst(i)' = Inst(i)
      /\ \A e : ExecUnit(e)' = ExecUnit(e)
  BY Fixed DEF vars
<1>2. TypeOK' /\ ProgramChosen' /\ InOrder'
  BY <1>1 DEF IInv, TypeOK, ProgramChosen, InOrder, vars, frontVars, backVars, configVars, NoExec, NoPc
<1>3. /\ \A p : Of(p)' = Of(p)
      /\ \A p : Committed(p)' = Committed(p)
      /\ \A x : Executing(x)' = Executing(x) /\ Busy(x)' = Busy(x)
      /\ Waiting' = Waiting /\ Queued' = Queued
  BY <1>1 DEF Of, Committed, Executing, Busy, Waiting, Queued, vars, backVars, NoExec, NoPc
<1>4. SingleUnits' /\ MatrixUnit' /\ PlacedOnce'
  BY <1>1, <1>3 DEF IInv, Tracked, SingleUnits, MatrixUnit, PlacedOnce, vars, backVars, NoExec, NoPc
<1> QED BY <1>2, <1>4 DEF IInv, Tracked, vars, backVars

\* The invariant holds in every state of every program: no edge of the clock, and no
\* order in which the units finish between two edges, loses an instruction, starts
\* one twice or takes the buffer out of program order.
THEOREM Invariant == Spec => []IInv
<1>1. Init => IInv
  BY InitInv
<1>2. IInv /\ [Next]_vars => IInv'
  BY CompleteStep, EdgeStep, StutterStep DEF Next
<1> QED BY <1>1, <1>2, PTL DEF Spec

\* Every signal and register keeps a value of its type, and the indices of the reorder
\* buffer stay inside its array.
THEOREM TypeCorrect == Spec => []TypeOK
<1>1. IInv => TypeOK
  BY DEF IInv
<1> QED BY <1>1, Invariant, PTL

\* ReorderBuffer throws neither "buffer is full" nor "instruction not found": rob_ready,
\* which the dispatcher reads a cycle late, still means that there is room, and every
\* commit is of an entry that is there, with any program and any capacity.
THEOREM NeverThrows == Spec => []BufferNeverThrows
<1>1. IInv => BufferNeverThrows
  BY DEF IInv, Tracked, BufferNeverThrows
<1> QED BY <1>1, Invariant, PTL

-----------------------------------------------------------------------------
(* Conflicts *)

\* An instruction as the back end handles it.
Decoded(e) == e \in ExecInfo /\ e.pc \in Pc

LEMMA DecodedIs ==
  ASSUME IInv
  PROVE  /\ \A e \in Values(ring_buffer) : Decoded(e)
         /\ dispatcher_reg # NoExec => Decoded(dispatcher_reg)
<1>1. \A e \in ExecInfo : 0 <= e.pc => e.pc \in Pc
  BY DEF ExecInfo, NoPc
<1>2. dispatcher_reg # NoExec => 0 <= dispatcher_reg.pc
  BY DEF IInv, InOrder
<1> QED BY <1>1, <1>2, RingIs DEF Decoded, IInv, TypeOK

\* The ranges of an instruction, and that they hold the bytes of all instructions
\* but a send with two address registers and a longer lmv.
LEMMA RangesAre ==
  ASSUME TypeOK, ProgramChosen, NEW e, Decoded(e)
  PROVE  /\ \A r \in MemoryReadAddr(e) \cup MemoryWriteAddr(e) : r[1] \in Int /\ r[2] \in Int
         /\ Inst(e.pc).op # "lmv" \/ Inst(e.pc).imm <= 1 =>
              \A a \in Writes(e) : \E w \in MemoryWriteAddr(e) : w[1] <= a /\ a <= w[2] /\ a \in Int
         /\ /\ Inst(e.pc).op = "lmv" => Inst(e.pc).imm <= 1
            /\ Inst(e.pc).op = "send" => e.rd_value = e.rs1_value
            => \A a \in Reads(e) : \E r \in MemoryReadAddr(e) : r[1] <= a /\ a <= r[2] /\ a \in Int
<1> DEFINE inst == Inst(e.pc)
           n == IF inst.op \in TransferOp THEN inst.imm ELSE e.bytes
<1>1. inst \in Instr /\ e.pc # NoPc /\ e.pc \in Pc
  BY ProgramType DEF Decoded, Pc, NoPc
<1>2. /\ inst.imm \in Nat /\ e.bytes \in Nat
      /\ e.rs1_value \in Int /\ e.rs2_value \in Int /\ e.rd_value \in Int
      /\ inst.op \in Op
  BY <1>1 DEF Decoded, ExecInfo, Word, Instr
<1>3. e # NoExec
  BY <1>1, NoExecType
<1>4. Size(e) = n
  BY <1>3 DEF Size, ExecUnit, VectorOp, TransferOp
<1> DEFINE rs1 == e.rs1_value
           rs2 == e.rs2_value
           rd == e.rd_value
<1>5. /\ inst.op \in {"mvmul", "vrelu", "st", "send"} => MemoryReadAddr(e) = {<<rs1, rs1 + n>>}
      /\ inst.op = "vvadd" => MemoryReadAddr(e) = {<<rs1, rs1 + n>>, <<rs2, rs2 + n>>}
      /\ inst.op = "lmv" => MemoryReadAddr(e) = {<<rs1, rs1 + 0>>}
      /\ inst.op \notin {"mvmul", "vrelu", "st", "send", "vvadd", "lmv"} => MemoryReadAddr(e) = {}
  BY <1>4 DEF MemoryReadAddr, Bounds
<1>6. /\ inst.op \in {"mvmul", "vrelu", "vvadd", "ld", "recv"} =>
           MemoryWriteAddr(e) = {<<rd, rd + n>>}
      /\ inst.op = "lmv" => MemoryWriteAddr(e) = {<<rd, rd + 0>>}
      /\ inst.op \notin {"mvmul", "vrelu", "vvadd", "ld", "recv", "lmv"} => MemoryWriteAddr(e) = {}
  BY <1>4 DEF MemoryWriteAddr, Bounds
<1>7. /\ inst.op \in {"mvmul", "vrelu", "st", "lmv"} => Reads(e) = rs1..(rs1 + n - 1)
      /\ inst.op = "vvadd" => Reads(e) = (rs1..(rs1 + n - 1)) \cup (rs2..(rs2 + n - 1))
      /\ inst.op = "send" => Reads(e) = rd..(rd + n - 1)
      /\ inst.op \notin {"mvmul", "vrelu", "st", "send", "vvadd", "lmv"} => Reads(e) = {}
  BY DEF Reads, ReadBytes, Bytes
<1>8. /\ inst.op \in {"mvmul", "vrelu", "vvadd", "ld", "recv", "lmv"} =>
           Writes(e) = rd..(rd + n - 1)
      /\ inst.op \notin {"mvmul", "vrelu", "vvadd", "ld", "recv", "lmv"} => Writes(e) = {}
  BY DEF Writes, WrittenBytes, Bytes
<1>9. n \in Nat /\ (inst.op = "lmv" => n = inst.imm)
  BY <1>2 DEF TransferOp
<1> HIDE DEF inst, n, rs1, rs2, rd
<1>10. rs1 \in Int /\ rs2 \in Int /\ rd \in Int
  BY <1>2 DEF rs1, rs2, rd
<1>11. \A r \in MemoryReadAddr(e) \cup MemoryWriteAddr(e) : r[1] \in Int /\ r[2] \in Int
  BY <1>5, <1>6, <1>9, <1>10
<1>12. ASSUME inst.op # "lmv" \/ inst.imm <= 1, NEW a \in Writes(e)
       PROVE  \E w \in MemoryWriteAddr(e) : w[1] <= a /\ a <= w[2] /\ a \in Int
  <2>1. inst.op \in {"mvmul", "vrelu", "vvadd", "ld", "recv", "lmv"} /\ a \in rd..(rd + n - 1)
    BY <1>8, <1>12
  <2>2. CASE inst.op = "lmv"
    <3>1. MemoryWriteAddr(e) = {<<rd, rd + 0>>} /\ n <= 1
      BY <1>6, <1>9, <1>12, <2>2
    <3> QED BY <1>9, <1>10, <2>1, <3>1
  <2>3. CASE inst.op # "lmv"
    <3>1. MemoryWriteAddr(e) = {<<rd, rd + n>>}
      BY <1>6, <2>1, <2>3
    <3> QED BY <1>9, <1>10, <2>1, <3>1
  <2> QED BY <2>2, <2>3
<1>13. ASSUME inst.op = "lmv" => inst.imm <= 1, inst.op = "send" => rd = rs1,
              NEW a \in Reads(e)
       PROVE  \E r \in MemoryReadAddr(e) : r[1] <= a /\ a <= r[2] /\ a \in Int
  <2>1. CASE inst.op \in {"mvmul", "vrelu", "st"}
    <3>1. MemoryReadAddr(e) = {<<rs1, rs1 + n>>} /\ a \in rs1..(rs1 + n - 1)
      BY <1>5, <1>7, <1>13, <2>1
    <3> QED BY <1>9, <1>10, <3>1
  <2>2. CASE inst.op = "vvadd"
    <3>1. /\ MemoryReadAddr(e) = {<<rs1, rs1 + n>>, <<rs2, rs2 + n>>}
          /\ a \in rs1..(rs1 + n - 1) \/ a \in rs2..(rs2 + n - 1)
      BY <1>5, <1>7, <1>13, <2>2
    <3> QED BY <1>9, <1>10, <3>1
  <2>3. CASE inst.op = "send"
    <3>1. MemoryReadAddr(e) = {<<rs1, rs1 + n>>} /\ a \in rs1..(rs1 + n - 1)
      BY <1>5, <1>7, <1>13, <2>3
    <3> QED BY <1>9, <1>10, <3>1
  <2>4. CASE inst.op = "lmv"
    <3>1. MemoryReadAddr(e) = {<<rs1, rs1 + 0>>} /\ a \in rs1..(rs1 + n - 1) /\ n <= 1
      BY <1>5, <1>7, <1>9, <1>13, <2>4
    <3> QED BY <1>9, <1>10, <3>1
  <2> QED BY <1>7, <1>13, <2>1, <2>2, <2>3, <2>4
<1> QED BY <1>11, <1>12, <1>13 DEF inst, rs1, rd

LEMMA ConflictIsSymmetric ==
  ASSUME TypeOK, ProgramChosen, NEW e, Decoded(e), NEW f, Decoded(f), IsConflict(e, f)
  PROVE  IsConflict(f, e)
<1>1. /\ \A r \in MemoryReadAddr(e) \cup MemoryWriteAddr(e) : r[1] \in Int /\ r[2] \in Int
      /\ \A r \in MemoryReadAddr(f) \cup MemoryWriteAddr(f) : r[1] \in Int /\ r[2] \in Int
  BY RangesAre
<1>2. \A a, b : a[1] \in Int /\ a[2] \in Int /\ b[1] \in Int /\ b[2] \in Int /\ IsOverlap(a, b)
                  => IsOverlap(b, a)
  BY DEF IsOverlap
<1> QED BY <1>1, <1>2 DEF IsConflict, Meet

LEMMA NoConflictStep ==
  ASSUME IInv, NoConflict, PosEdge, UNCHANGED configVars
  PROVE  NoConflict'
<1>1. ValidEntries(ring_buffer') \subseteq ValidEntries(ring_buffer) \cup NewlyIssued
  BY RobEffect
<1>2. \A e, f : IsConflict(e, f)' = IsConflict(e, f)
  BY Fixed
<1>3. ASSUME NEW e \in NewlyIssued, NEW f \in ValidEntries(ring_buffer)
      PROVE  ~IsConflict(e, f) /\ ~IsConflict(f, e)
  <2>1. e = dispatcher_reg /\ e # NoExec /\ IsDispatchable
    BY IssuedIs DEF NewlyIssued
  <2>2. ~IsConflict(e, f)
    BY <2>1 DEF IsDispatchable, CheckConflict
  <2>3. Decoded(e) /\ Decoded(f)
    BY <2>1, DecodedIs, RingIs
  <2> QED BY <2>2, <2>3, ConflictIsSymmetric DEF IInv
<1>4. \A e, f \in ValidEntries(ring_buffer) \cup NewlyIssued : e # f => ~IsConflict(e, f)
  BY <1>3 DEF NoConflict, NewlyIssued
<1>5. \A e, f \in ValidEntries(ring_buffer') : e # f => ~IsConflict(e, f)'
  BY <1>1, <1>2, <1>4
<1> QED BY <1>5 DEF NoConflict

\* A step between two edges moves nothing in the front end or the buffer.
LEMMA BetweenEdges ==
  ASSUME IInv, [Next]_vars, ~(PosEdge /\ UNCHANGED configVars)
  PROVE  UNCHANGED <<configVars, frontVars, dispatcher_reg, ring_buffer, finish_running>>
<1>1. CASE UNCHANGED vars
  BY <1>1 DEF vars, backVars
<1>2. CASE (\E x \in Executor : Finishes(x)) /\ UNCHANGED configVars
  BY <1>2 DEF Finishes, Complete
<1> QED BY <1>1, <1>2 DEF Next

LEMMA SendsStep ==
  ASSUME IInv, SendsAreSingle, PosEdge, UNCHANGED configVars
  PROVE  SendsAreSingle'
<1> DEFINE Single(e) == e # NoExec /\ Inst(e.pc).op = "send" /\ Inst(e.pc).rd = Inst(e.pc).rs1
                          => e.rd_value = e.rs1_value
<1>1. \A i : Inst(i)' = Inst(i)
  BY Fixed
<1>2. \A e \in {dispatcher_reg} \cup Values(ring_buffer) : Single(e)
  BY DEF SendsAreSingle
<1>3. Values(ring_buffer') \subseteq {dispatcher_reg} \cup Values(ring_buffer)
  BY RobEffect, IssuedIs DEF NewlyIssued
<1>4. Single(dispatcher_reg')
  <2>1. dispatcher_reg' = IF IsDispatchable THEN ToDispatcher ELSE dispatcher_reg
    BY DEF PosEdge, BackEdge, Latched
  <2>2. Single(ToDispatcher)
    <3> SUFFICES ASSUME ToDispatcher # NoExec, Inst(ToDispatcher.pc).op = "send",
                        Inst(ToDispatcher.pc).rd = Inst(ToDispatcher.pc).rs1
                 PROVE  ToDispatcher.rd_value = ToDispatcher.rs1_value
      OBVIOUS
    <3>1. ToDispatcher = ExecInfoOf(decode) /\ ToDispatcher.pc = decode
      BY DispatchedType, ExecInfoOfType DEF IInv
    <3>2. ~DoubleWord(decode)
      BY <3>1 DEF DoubleWord
    <3> QED BY <3>1, <3>2 DEF ExecInfoOf
  <2> QED BY <1>2, <2>1, <2>2
<1>5. \A e \in {dispatcher_reg'} \cup Values(ring_buffer') : Single(e)
  BY <1>2, <1>3, <1>4
<1> QED BY <1>1, <1>5 DEF SendsAreSingle, NoExec, NoPc

LEMMA InProgram ==
  ASSUME TypeOK, ProgramChosen, NEW i \in Pc
  PROVE  \E p \in Programs \cup LoopPrograms : \E k \in DOMAIN p : Inst(i) = p[k]
<1>1. CodePc(i) \in 0..(inst_buffer_size - 1) /\ inst_buffer_size \in Nat
  BY ProgramType
<1>2. prog \in Seq(Instr) /\ CodePc(i) + 1 \in 1..Len(prog)
  BY <1>1 DEF TypeOK, inst_buffer_size
<1>3. CodePc(i) + 1 \in DOMAIN prog
  BY <1>2, LenProperties
<1>4. prog \in Programs \cup LoopPrograms
  BY DEF ProgramChosen
<1> QED BY <1>3, <1>4 DEF Inst

\* Two instructions without conflict touch no byte in common that one of them writes
\* and the other reads.
LEMMA Independent ==
  ASSUME RangesSuffice, IInv, SendsAreSingle,
         NEW e \in {dispatcher_reg} \cup Values(ring_buffer),
         NEW f \in {dispatcher_reg} \cup Values(ring_buffer),
         e # NoExec, f # NoExec, ~IsConflict(e, f)
  PROVE  Writes(e) \cap Reads(f) = {}
<1> SUFFICES ASSUME NEW a \in Writes(e) \cap Reads(f) PROVE FALSE
  OBVIOUS
<1>1. Decoded(e) /\ Decoded(f)
  BY DecodedIs
<1>2. /\ Inst(e.pc).op = "lmv" => Inst(e.pc).imm <= 1
      /\ Inst(f.pc).op = "lmv" => Inst(f.pc).imm <= 1
      /\ Inst(f.pc).op = "send" => Inst(f.pc).rd = Inst(f.pc).rs1
  BY <1>1, InProgram DEF RangesSuffice, IInv, Decoded
<1>3. Inst(f.pc).op = "send" => f.rd_value = f.rs1_value
  BY <1>2 DEF SendsAreSingle
<1>4. Inst(e.pc).op # "lmv" \/ Inst(e.pc).imm <= 1
  BY <1>2
<1>5. PICK w \in MemoryWriteAddr(e) : w[1] <= a /\ a <= w[2] /\ a \in Int
  BY <1>1, <1>4, RangesAre DEF IInv
<1>6. PICK r \in MemoryReadAddr(f) : r[1] <= a /\ a <= r[2]
  BY <1>1, <1>2, <1>3, RangesAre DEF IInv
<1>7. w[1] \in Int /\ w[2] \in Int /\ r[1] \in Int /\ r[2] \in Int
  BY <1>1, RangesAre DEF IInv
<1>8. IsOverlap(w, r)
  BY <1>5, <1>6, <1>7 DEF IsOverlap
<1> QED BY <1>8 DEF IsConflict, Meet

LEMMA HazardFree ==
  ASSUME RangesSuffice, IInv, NoConflict, SendsAreSingle
  PROVE  NoDataHazard
BY Independent, RingIs DEF NoDataHazard, NoConflict

\* The instructions that execute together are pairwise without conflict: the dispatcher
\* holds what isConflict finds against any valid entry, those of the same edge included.
THEOREM NoConflictInvariant == Spec => []NoConflict
<1>1. Init => NoConflict
  <2> SUFFICES ASSUME Init PROVE NoConflict
    OBVIOUS
  <2>1. Values(ring_buffer) = {}
    BY DEF Init, BackInit, NewBuffer, Values
  <2>2. ValidEntries(ring_buffer) = {}
    BY <2>1, InitInv, RingIs
  <2> QED BY <2>2 DEF NoConflict
<1>2. IInv /\ NoConflict /\ [Next]_vars => NoConflict'
  <2> SUFFICES ASSUME IInv, NoConflict, [Next]_vars PROVE NoConflict'
    OBVIOUS
  <2>1. CASE PosEdge /\ UNCHANGED configVars
    BY <2>1, NoConflictStep
  <2>2. CASE ~(PosEdge /\ UNCHANGED configVars)
    <3>1. UNCHANGED <<configVars, ring_buffer>>
      BY <2>2, BetweenEdges
    <3>2. \A e, f : IsConflict(e, f)' = IsConflict(e, f)
      BY <3>1, Fixed
    <3> QED BY <3>1, <3>2 DEF NoConflict
  <2> QED BY <2>1, <2>2
<1> QED BY <1>1, <1>2, Invariant, PTL DEF Spec

\* A send whose two address registers are one was decoded with one address, and no write
\* after that reaches its operands.
LEMMA SendsInvariant == Spec => []SendsAreSingle
<1>1. Init => SendsAreSingle
  BY DEF Init, BackInit, NewBuffer, SendsAreSingle, Values
<1>2. IInv /\ SendsAreSingle /\ [Next]_vars => SendsAreSingle'
  <2> SUFFICES ASSUME IInv, SendsAreSingle, [Next]_vars PROVE SendsAreSingle'
    OBVIOUS
  <2>1. CASE PosEdge /\ UNCHANGED configVars
    BY <2>1, SendsStep
  <2>2. CASE ~(PosEdge /\ UNCHANGED configVars)
    <3>1. UNCHANGED <<configVars, ring_buffer, dispatcher_reg>>
      BY <2>2, BetweenEdges
    <3>2. \A i : Inst(i)' = Inst(i)
      BY <3>1, Fixed
    <3> QED BY <3>1, <3>2 DEF SendsAreSingle, NoExec, NoPc
  <2> QED BY <2>1, <2>2
<1> QED BY <1>1, <1>2, Invariant, PTL DEF Spec

\* No instruction executes together with an older one whose bytes it reads, nor with
\* one that still reads bytes it writes. The ranges of isConflict are those of
\* the units, but for the programs that RangesSuffice leaves out.
THEOREM DataHazardFree ==
  ASSUME RangesSuffice PROVE Spec => []NoDataHazard
<1>1. IInv /\ NoConflict /\ SendsAreSingle => NoDataHazard
  BY HazardFree
<1> QED BY <1>1, Invariant, NoConflictInvariant, SendsInvariant, PTL

-----------------------------------------------------------------------------
(* The end of a program *)


LEMMA ScalarNeverFinishes ==
  ASSUME EndsInBuffer, IInv PROVE ~ScalarFinishes
<1> SUFFICES ASSUME ScalarFinishes PROVE FALSE
  OBVIOUS
<1>1. ToScalar # NoExec /\ ~Looping /\ ToScalar.pc = max_pc
  BY DEF ScalarFinishes, ScalarRuns
<1>2. decode # NoPc /\ decode = max_pc /\ Inst(decode).op \in ScalarOp /\ decode \in Pc
  BY <1>1, ScalarType, ExecInfoOfType DEF IInv
<1>3. CodePc(decode) = Len(prog) - 1 /\ Len(prog) \in Nat
  BY <1>1, <1>2, ProgramType DEF CodePc, max_pc, inst_buffer_size, IInv
<1>4. CodePc(decode) \in 0..(Len(prog) - 1)
  BY <1>2, ProgramType DEF IInv, inst_buffer_size
<1>5. Inst(decode) = prog[Len(prog)]
  BY <1>3 DEF Inst
<1>6. prog # <<>> /\ prog \in Programs
  <2>1. Len(prog) # 0
    BY <1>3, <1>4
  <2> QED BY <1>1, <2>1 DEF IInv, ProgramChosen
<1> QED BY <1>2, <1>5, <1>6 DEF EndsInBuffer

LEMMA EndStep ==
  ASSUME EndsInBuffer, IInv, EndIsReached, PosEdge, UNCHANGED configVars
  PROVE  EndIsReached'
<1> SUFFICES ASSUME finish_running'
             PROVE  /\ ~Looping' /\ ring_buffer'.size = 0 /\ dispatcher_reg' = NoExec
                    /\ decode' = NoPc /\ pc' = inst_buffer_size'
  BY DEF EndIsReached, NoExec, NoPc
<1>1. /\ Looping' = Looping /\ inst_buffer_size' = inst_buffer_size
      /\ inst_buffer_size \in Nat
  BY Fixed, ProgramType DEF IInv
<1>2. /\ FrontEdge(IsDispatchable)
      /\ dispatcher_reg' = Latched(IsDispatchable, ToDispatcher, dispatcher_reg)
  BY DEF PosEdge, BackEdge
<1>3. /\ Ring(ring_buffer')
      /\ Values(ring_buffer') \subseteq Values(ring_buffer) \cup NewlyIssued
      /\ \/ finish_running
         \/ /\ ~Looping
            /\ \E l \in Values(ring_buffer) \cup NewlyIssued :
                 l.pc = max_pc /\ \A w \in Values(ring_buffer') : l.pc < w.pc
  BY RobEffect, ScalarNeverFinishes
<1>4. ring_buffer'.size \in Nat /\ (Values(ring_buffer') = {} => ring_buffer'.size = 0)
  <2>1. ring_buffer'.size \in Nat
    BY <1>3, ValidEntriesAre DEF Ring
  <2>2. ring_buffer'.size > 0 => Entry(ring_buffer', 0).value \in Values(ring_buffer')
    BY <2>1 DEF Values
  <2> QED BY <2>1, <2>2
\* When the last instruction is fetched there is nothing more to come.
<1>5. ASSUME ~Looping, pc = inst_buffer_size, decode = NoPc, dispatcher_reg = NoExec \/ IsDispatchable
      PROVE  dispatcher_reg' = NoExec /\ decode' = NoPc /\ pc' = inst_buffer_size
  <2>1. ~More /\ Fetched = NoPc /\ ToDispatcher = NoExec
    BY <1>1, <1>5 DEF More, Fetched, ToDispatcher, DecodeHas
  <2> QED BY <1>2, <1>5, <2>1 DEF FrontEdge, NextPc, Latched
<1>6. CASE finish_running
  <2>1. /\ ~Looping /\ ring_buffer.size = 0 /\ dispatcher_reg = NoExec /\ decode = NoPc
        /\ pc = inst_buffer_size
    BY <1>6 DEF EndIsReached
  <2>2. Values(ring_buffer) = {}
    BY <2>1 DEF Values
  <2>3. NewlyIssued = {}
    BY <2>1 DEF NewlyIssued, Issued
  <2> QED BY <1>1, <1>3, <1>4, <1>5, <2>1, <2>2, <2>3
<1>7. CASE ~finish_running
  <2>1. PICK l \in Values(ring_buffer) \cup NewlyIssued :
          l.pc = max_pc /\ \A w \in Values(ring_buffer') : l.pc < w.pc
    BY <1>3, <1>7
  <2>2. ~Looping /\ max_pc = inst_buffer_size - 1 /\ pc \in 0..inst_buffer_size
    BY <1>3, <1>7 DEF IInv, TypeOK, Fetchable, max_pc
  <2>3. /\ dispatcher_reg.pc \in Int /\ decode \in Int
        /\ \A e \in Values(ring_buffer) \cup NewlyIssued : e.pc \in Int /\ e.pc < pc
    <3>1. \A e \in Values(ring_buffer) : e.pc \in Int /\ e.pc < pc
      BY RingIs, ExecInfoPc DEF IInv, InOrder
    <3>2. dispatcher_reg.pc \in Int /\ (dispatcher_reg # NoExec => dispatcher_reg.pc < pc)
      BY ExecInfoPc DEF IInv, TypeOK, InOrder
    <3>3. decode \in Int
      BY DEF IInv, TypeOK, Pc, NoPc
    <3> QED BY <3>1, <3>2, <3>3, IssuedIs DEF NewlyIssued
  <2>4. pc = inst_buffer_size
    BY <1>1, <2>1, <2>2, <2>3
  <2>5. decode = NoPc
    <3> SUFFICES ASSUME decode # NoPc PROVE FALSE
      OBVIOUS
    <3>1. decode < pc /\ l.pc < decode
      BY <2>1, IssuedIs DEF IInv, InOrder, NewlyIssued
    <3> QED BY <1>1, <2>1, <2>2, <2>3, <3>1
  <2>6. dispatcher_reg = NoExec \/ IsDispatchable
    <3> SUFFICES ASSUME dispatcher_reg # NoExec, ~IsDispatchable PROVE FALSE
      OBVIOUS
    <3>1. NewlyIssued = {}
      BY DEF NewlyIssued, Issued
    <3>2. l.pc < dispatcher_reg.pc /\ dispatcher_reg.pc < pc
      BY <2>1, <3>1 DEF IInv, InOrder
    <3> QED BY <1>1, <2>1, <2>2, <2>3, <3>2
  <2>7. Values(ring_buffer') = {}
    <3> SUFFICES ASSUME NEW w \in Values(ring_buffer') PROVE FALSE
      OBVIOUS
    <3>1. w.pc \in Int /\ w.pc < pc /\ l.pc < w.pc
      BY <1>3, <2>1, <2>3
    <3> QED BY <1>1, <2>1, <2>2, <2>3, <3>1
  <2> QED BY <1>1, <1>4, <1>5, <2>2, <2>4, <2>5, <2>6, <2>7
<1> QED BY <1>6, <1>7

\* A core that reports its end (finish_running) has an empty reorder buffer, if the
\* last instruction of its program is not one of the scalar unit.
THEOREM FinishesLast ==
  ASSUME EndsInBuffer PROVE Spec => []FinishIsLast
<1>1. Init => EndIsReached
  <2> SUFFICES ASSUME Init, finish_running PROVE EndIsReached
    BY DEF EndIsReached
  <2>1. prog = <<>> /\ Len(prog) = 0
    BY DEF Init, BackInit
  <2>2. ~Looping
    BY <2>1, FrontEndAssumption DEF Init, FrontInit
  <2> QED BY <2>1, <2>2 DEF Init, FrontInit, BackInit, NewBuffer, EndIsReached, inst_buffer_size
<1>2. IInv /\ EndIsReached /\ [Next]_vars => EndIsReached'
  <2> SUFFICES ASSUME IInv, EndIsReached, [Next]_vars PROVE EndIsReached'
    OBVIOUS
  <2>1. CASE PosEdge /\ UNCHANGED configVars
    BY <2>1, EndStep
  <2>2. CASE ~(PosEdge /\ UNCHANGED configVars)
    <3>1. UNCHANGED <<configVars, frontVars, dispatcher_reg, ring_buffer, finish_running>>
      BY <2>2, BetweenEdges
    <3>2. Looping' = Looping /\ inst_buffer_size' = inst_buffer_size
      BY <3>1, Fixed
    <3> QED BY <3>1, <3>2 DEF EndIsReached, frontVars, NoExec, NoPc
  <2> QED BY <2>1, <2>2
<1>3. IInv /\ EndIsReached => FinishIsLast
  <2> SUFFICES ASSUME IInv, ring_buffer.size = 0 PROVE InBuffer = {}
    BY DEF EndIsReached, FinishIsLast
  <2>1. Values(ring_buffer) = {}
    BY DEF Values
  <2> QED BY <2>1, RingIs DEF InBuffer
<1> QED BY <1>1, <1>2, <1>3, Invariant, PTL DEF Spec

-----------------------------------------------------------------------------
(* One place for each instruction *)

\* An instruction is known by its pc.
LEMMA SamePc ==
  ASSUME IInv, NEW e \in ValidEntries(ring_buffer), NEW f \in ValidEntries(ring_buffer),
         e.pc = f.pc
  PROVE  e = f
<1>1. WellFormed(ring_buffer, ExecInfo) /\ Sorted(ring_buffer)
  BY RingIs DEF Ring
<1>2. /\ ring_buffer.size \in Nat
      /\ \A w : w \in ValidEntries(ring_buffer) <=>
           \E i \in 0..(ring_buffer.size - 1) :
             Entry(ring_buffer, i).valid /\ Entry(ring_buffer, i).value = w
  BY <1>1, ValidEntriesAre
<1>3. PICK i \in 0..(ring_buffer.size - 1) : Entry(ring_buffer, i).value = e
  BY <1>2
<1>4. PICK j \in 0..(ring_buffer.size - 1) : Entry(ring_buffer, j).value = f
  BY <1>2
<1>5. e.pc \in Int
  BY RingIs, ExecInfoPc
<1>6. ~(i < j) /\ ~(j < i)
  BY <1>1, <1>3, <1>4, <1>5 DEF Sorted
<1> QED BY <1>2, <1>3, <1>4, <1>6

\* What holds the instruction of a pc holds a valid entry of the buffer.
LEMMA PlaceIs ==
  ASSUME IInv, NEW i \in Pc
  PROVE  /\ \A x \in HeldBy(i) :
              /\ fsm[x].value \in ValidEntries(ring_buffer) /\ fsm[x].value.pc = i
              /\ x \in ArrayGroup => fsm[x].value \in Busy(x) /\ ExecUnit(fsm[x].value) = "matrix"
              /\ x \notin ArrayGroup =>
                   x \in {"vector", "transfer"} /\ fsm[x].value \in Executing(x)
                   /\ ExecUnit(fsm[x].value) = x
         /\ \A k \in QueuedAt(i) :
              /\ commit_queue[k] \in ValidEntries(ring_buffer) /\ commit_queue[k].pc = i
              /\ k \in DOMAIN commit_queue /\ commit_queue[k] \in Queued
              /\ ExecUnit(commit_queue[k]) = "matrix"
         /\ \A p \in CommittedAt(i) :
              /\ commit[p] \in ValidEntries(ring_buffer) /\ commit[p].pc = i
              /\ p \in Port /\ commit[p] \in Committed(p) /\ ExecUnit(commit[p]) = p
         /\ ag_reg.pc = i =>
              /\ ag_reg \in ValidEntries(ring_buffer)
              /\ ag_reg \in Waiting /\ ExecUnit(ag_reg) = "matrix"
<1>1. i # NoPc /\ NoExec.pc = NoPc
  BY NoExecType DEF Pc, NoPc
<1>2. ASSUME NEW x \in HeldBy(i)
      PROVE  /\ fsm[x].value \in ValidEntries(ring_buffer) /\ fsm[x].value.pc = i
             /\ x \in ArrayGroup => fsm[x].value \in Busy(x) /\ ExecUnit(fsm[x].value) = "matrix"
             /\ x \notin ArrayGroup =>
                  x \in {"vector", "transfer"} /\ fsm[x].value \in Executing(x)
                  /\ ExecUnit(fsm[x].value) = x
  <2>1. CASE x \in ArrayGroup
    <3>1. fsm[x].state = "busy" /\ fsm[x].value.pc = i
      BY <2>1 DEF HeldBy
    <3>2. fsm[x].value \in Busy(x)
      BY <3>1 DEF Busy
    <3>3. fsm[x].value \in Of("matrix")
      BY <2>1, <3>2, MatrixIs
    <3> QED BY <2>1, <3>1, <3>2, <3>3 DEF Of
  <2>2. CASE x \notin ArrayGroup
    <3>1. fsm[x].state # "ready" /\ fsm[x].value.pc = i /\ x \in {"vector", "transfer"}
      BY <2>2 DEF HeldBy, Executor
    <3>2. fsm[x].value \in Executing(x)
      BY <3>1 DEF Executing
    <3>3. fsm[x].value \in Of(x)
      BY <3>1, <3>2 DEF IInv, Tracked, SingleUnits
    <3> QED BY <2>2, <3>1, <3>2, <3>3 DEF Of
  <2> QED BY <2>1, <2>2
<1>3. ASSUME NEW k \in QueuedAt(i)
      PROVE  /\ commit_queue[k] \in ValidEntries(ring_buffer) /\ commit_queue[k].pc = i
             /\ k \in DOMAIN commit_queue /\ commit_queue[k] \in Queued
             /\ ExecUnit(commit_queue[k]) = "matrix"
  <2>1. k \in DOMAIN commit_queue /\ commit_queue[k].pc = i
    BY DEF QueuedAt
  <2>2. commit_queue[k] \in Queued
    BY <2>1 DEF Queued
  <2>3. commit_queue[k] \in Of("matrix")
    BY <2>2, MatrixIs
  <2> QED BY <2>1, <2>2, <2>3 DEF Of
<1>4. ASSUME NEW p \in CommittedAt(i)
      PROVE  /\ commit[p] \in ValidEntries(ring_buffer) /\ commit[p].pc = i
             /\ p \in Port /\ commit[p] \in Committed(p) /\ ExecUnit(commit[p]) = p
  BY <1>1, CommittedIsValid DEF CommittedAt, Committed
<1>5. ASSUME ag_reg.pc = i
      PROVE  /\ ag_reg \in ValidEntries(ring_buffer)
             /\ ag_reg \in Waiting /\ ExecUnit(ag_reg) = "matrix"
  <2>1. ag_reg \in Waiting
    BY <1>1, <1>5 DEF Waiting
  <2>2. ag_reg \in Of("matrix")
    BY <2>1, MatrixIs
  <2> QED BY <2>1, <2>2 DEF Of
<1> QED BY <1>2, <1>3, <1>4, <1>5

\* There is one place for a valid entry, and none for a pc without one.
LEMMA PlacesAre ==
  ASSUME IInv, NEW i \in Pc
  PROVE  /\ i \notin InBuffer => Places(i) = 0
         /\ \A e \in ValidEntries(ring_buffer) :
              e.pc = i /\ ExecUnit(e) \in Port => Places(i) = 1
<1> DEFINE V == ValidEntries(ring_buffer)
<1>1. /\ \A x \in HeldBy(i) :
           /\ fsm[x].value \in V /\ fsm[x].value.pc = i
           /\ x \in ArrayGroup => fsm[x].value \in Busy(x) /\ ExecUnit(fsm[x].value) = "matrix"
           /\ x \notin ArrayGroup =>
                x \in {"vector", "transfer"} /\ fsm[x].value \in Executing(x)
                /\ ExecUnit(fsm[x].value) = x
      /\ \A k \in QueuedAt(i) :
           /\ commit_queue[k] \in V /\ commit_queue[k].pc = i
           /\ k \in DOMAIN commit_queue /\ commit_queue[k] \in Queued
           /\ ExecUnit(commit_queue[k]) = "matrix"
      /\ \A p \in CommittedAt(i) :
           /\ commit[p] \in V /\ commit[p].pc = i
           /\ p \in Port /\ commit[p] \in Committed(p) /\ ExecUnit(commit[p]) = p
      /\ ag_reg.pc = i =>
           ag_reg \in V /\ ag_reg \in Waiting /\ ExecUnit(ag_reg) = "matrix"
  BY PlaceIs
<1>2. Cardinality({}) = 0 /\ \A x : Cardinality({x}) = 1
  BY FS_EmptySet, FS_Singleton
<1>3. ASSUME i \notin InBuffer PROVE Places(i) = 0
  <2>1. \A e \in V : e.pc # i
    BY <1>3 DEF InBuffer
  <2>2. HeldBy(i) = {} /\ QueuedAt(i) = {} /\ CommittedAt(i) = {} /\ ag_reg.pc # i
    BY <1>1, <2>1
  <2> QED BY <1>2, <2>2 DEF Places
<1>4. ASSUME NEW e \in V, e.pc = i, ExecUnit(e) \in Port
      PROVE  Places(i) = 1
  <2> DEFINE u == ExecUnit(e)
  <2>1. /\ \A x \in HeldBy(i) : fsm[x].value = e
        /\ \A k \in QueuedAt(i) : commit_queue[k] = e
        /\ \A p \in CommittedAt(i) : commit[p] = e
        /\ ag_reg.pc = i => ag_reg = e
    BY <1>1, <1>4, SamePc
  <2>2. CommittedAt(i) = IF commit[u] = e THEN {u} ELSE {}
    <3>1. \A p \in CommittedAt(i) : p = u /\ commit[u] = e
      BY <1>1, <2>1
    <3>2. commit[u] = e => u \in CommittedAt(i)
      BY <1>4 DEF CommittedAt
    <3> QED BY <3>1, <3>2
  <2>3. e # NoExec
    BY RingIs
  <2>4. CASE u \in {"vector", "transfer"}
    <3>1. u # "matrix" /\ u \notin ArrayGroup /\ u \in Executor
      BY <2>4, NamesApart DEF Executor
    <3>2. QueuedAt(i) = {} /\ ag_reg.pc # i
      BY <1>1, <2>1, <3>1
    <3>3. /\ e \in Executing(u) \cup Committed(u)
          /\ commit[u] # NoExec => fsm[u].state = "ready"
      BY <2>4 DEF IInv, Tracked, SingleUnits, Of
    <3>4. \A x \in HeldBy(i) : x = u /\ e \in Executing(u)
      BY <1>1, <2>1, <3>1
    <3>5. CASE commit[u] = e
      <4>1. Executing(u) = {}
        BY <2>3, <3>3, <3>5 DEF Executing
      <4>2. HeldBy(i) = {} /\ CommittedAt(i) = {u}
        BY <2>2, <3>4, <3>5, <4>1
      <4>3. /\ Cardinality(HeldBy(i)) = 0 /\ Cardinality(QueuedAt(i)) = 0
            /\ Cardinality(CommittedAt(i)) = 1
        BY <1>2, <3>2, <4>2
      <4> QED BY <3>2, <4>3 DEF Places
    <3>6. CASE commit[u] # e
      <4>1. e \in Executing(u)
        BY <3>3, <3>6 DEF Committed
      <4>2. fsm[u].value = e /\ fsm[u].state # "ready"
        BY <4>1 DEF Executing
      <4>3. fsm[u].state \in {"busy", "finishing"}
        BY <3>1, <4>2 DEF IInv, TypeOK
      <4>4. u \in HeldBy(i)
        BY <1>4, <3>1, <4>2, <4>3 DEF HeldBy
      <4>5. HeldBy(i) = {u} /\ CommittedAt(i) = {}
        BY <2>2, <3>4, <3>6, <4>4
      <4> QED BY <1>2, <3>2, <4>5 DEF Places
    <3> QED BY <3>5, <3>6
  <2>5. CASE u = "matrix"
    <3>1. \A x \in HeldBy(i) : x \in ArrayGroup /\ e \in Busy(x)
      <4>1. \A x \in {"vector", "transfer"} : x # u
        BY <2>5
      <4> QED BY <1>1, <2>1, <4>1
    <3>2. \A g \in ArrayGroup : e \in Busy(g) => g \in HeldBy(i)
      BY <1>4 DEF Busy, HeldBy, Executor
    <3>3. \A g \in ArrayGroup : e \in Busy(g) => Inst(e.pc).group = g
      BY DEF IInv, Tracked, MatrixUnit
    <3>4. \A k \in QueuedAt(i) : e \in Queued
      BY <1>1, <2>1
    <3>5. \A k \in DOMAIN commit_queue : commit_queue[k] = e => k \in QueuedAt(i)
      BY <1>4 DEF QueuedAt
    <3>6. \A j, k \in QueuedAt(i) : j = k
      BY <1>1, <2>1 DEF IInv, Tracked, PlacedOnce
    <3>7. ag_reg.pc = i <=> e \in Waiting
      BY <1>1, <1>4, <2>1 DEF Waiting
    <3>8. CommittedAt(i) = IF e \in Committed("matrix") THEN {"matrix"} ELSE {}
      BY <2>2, <2>3, <2>5 DEF Committed
    <3>9. \/ \E g \in ArrayGroup : e \in Busy(g)
          \/ e \in Waiting \/ e \in Queued \/ e \in Committed("matrix")
      <4>1. e \in Of("matrix")
        BY <2>5 DEF Of
      <4> QED BY <4>1, MatrixIs
    <3>10. /\ \A g \in ArrayGroup : Busy(g) \cap (Waiting \cup Queued \cup Committed("matrix")) = {}
           /\ Waiting \cap (Queued \cup Committed("matrix")) = {}
           /\ Queued \cap Committed("matrix") = {}
      BY DEF IInv, Tracked, PlacedOnce
    <3>11. CASE \E g \in ArrayGroup : e \in Busy(g)
      <4>1. PICK g \in ArrayGroup : e \in Busy(g)
        BY <3>11
      <4>2. HeldBy(i) = {g}
        BY <3>1, <3>2, <3>3, <4>1
      <4>3. QueuedAt(i) = {} /\ CommittedAt(i) = {} /\ ag_reg.pc # i
        BY <3>4, <3>7, <3>8, <3>10, <4>1
      <4> QED BY <1>2, <4>2, <4>3 DEF Places
    <3>12. CASE e \in Waiting
      <4>1. HeldBy(i) = {} /\ QueuedAt(i) = {} /\ CommittedAt(i) = {} /\ ag_reg.pc = i
        BY <3>1, <3>4, <3>7, <3>8, <3>10, <3>12
      <4>2. /\ Cardinality(HeldBy(i)) = 0 /\ Cardinality(QueuedAt(i)) = 0
            /\ Cardinality(CommittedAt(i)) = 0
        BY <1>2, <4>1
      <4> QED BY <4>1, <4>2 DEF Places
    <3>13. CASE e \in Queued
      <4>1. PICK k \in DOMAIN commit_queue : commit_queue[k] = e
        BY <3>13 DEF Queued
      <4>2. QueuedAt(i) = {k}
        BY <3>5, <3>6, <4>1
      <4>3. HeldBy(i) = {} /\ CommittedAt(i) = {} /\ ag_reg.pc # i
        BY <3>1, <3>7, <3>8, <3>10, <3>13
      <4> QED BY <1>2, <4>2, <4>3 DEF Places
    <3>14. CASE e \in Committed("matrix")
      <4>1. /\ HeldBy(i) = {} /\ QueuedAt(i) = {}
            /\ CommittedAt(i) = {"matrix"} /\ ag_reg.pc # i
        BY <3>1, <3>4, <3>7, <3>8, <3>10, <3>14
      <4>2. /\ Cardinality(HeldBy(i)) = 0 /\ Cardinality(QueuedAt(i)) = 0
            /\ Cardinality(CommittedAt(i)) = 1
        BY <1>2, <4>1
      <4> QED BY <4>1, <4>2 DEF Places
    <3> QED BY <3>9, <3>11, <3>12, <3>13, <3>14
  <2> QED BY <1>4, <2>4, <2>5 DEF Port
<1> QED BY <1>3, <1>4

\* An instruction with a valid entry is at one place - a unit, an array group, the register
\* before them, the commit queue or a commit port - and what is at one of these has
\* a valid entry, so none is started twice, lost at a port or committed twice.
THEOREM EachInOnePlace ==
  ASSUME NoNop PROVE Spec => []BufferTracksUnits
<1>1. IInv => BufferTracksUnits
  <2> SUFFICES ASSUME IInv PROVE BufferTracksUnits
    OBVIOUS
  <2>1. inst_map = ValidEntries(ring_buffer)
    BY DEF IInv, Tracked
  <2>2. ASSUME NEW i \in ExecPc
        PROVE  Places(i) = IF i \in InBuffer THEN 1 ELSE 0
    <3>1. i \in Pc
      BY DEF ExecPc
    <3>2. CASE i \in InBuffer
      <4>1. PICK e \in ValidEntries(ring_buffer) : e.pc = i
        BY <3>2 DEF InBuffer
      <4>2. Inst(i).op # "nop" /\ e # NoExec
        BY <3>1, RingIs, InProgram DEF NoNop, IInv
      <4>3. ExecUnit(e) \in Port
        BY <4>1, <4>2 DEF ExecUnit, Port
      <4> QED BY <3>1, <3>2, <4>1, <4>3, PlacesAre
    <3>3. CASE i \notin InBuffer
      BY <3>1, <3>3, PlacesAre
    <3> QED BY <3>2, <3>3
  <2> QED BY <2>1, <2>2 DEF BufferTracksUnits
<1> QED BY <1>1, Invariant, PTL


-----------------------------------------------------------------------------
(* Rounds *)

\* In throughput mode the stages hold instructions that follow each other.
Consecutive ==
  /\ decode # NoPc => pc = decode + 1
  /\ decode = NoPc => pc = 0
  /\ dispatcher_reg # NoExec => decode # NoPc /\ decode = dispatcher_reg.pc + 1

\* Only what has an ExecInfo of its own is dispatched,
OnlyExecuted ==
  \A e \in Values(ring_buffer) \cup ({dispatcher_reg} \ {NoExec}) : e.pc \in ExecPc

\* and nothing of that is left out.
NoneSkipped ==
  \A i \in ExecPc : \A u \in Values(ring_buffer) :
    u.pc <= i /\ i < NextToIssue => \E v \in Values(ring_buffer) : v.pc = i

\* Behind a full buffer everything stands still.
FullStalls ==
  Full(ring_buffer) =>
    \E v \in Values(ring_buffer) :
      pc <= v.pc + 3 /\ \A w \in Values(ring_buffer) : w.pc <= v.pc

RoundsInv ==
  /\ HeadIsValid(ring_buffer) /\ OnlyExecuted
  /\ Looping => Consecutive /\ NoneSkipped /\ FullStalls

\* What is in the pipeline is a natural number.
LEMMA PcsAre ==
  ASSUME IInv
  PROVE  /\ pc \in Nat /\ (decode # NoPc => decode \in Nat)
         /\ dispatcher_reg.pc \in Int
         /\ dispatcher_reg # NoExec => dispatcher_reg.pc \in Nat
         /\ \A e \in Values(ring_buffer) : e \in ExecInfo /\ e.pc \in Nat
         /\ ring_buffer.size \in 0..Capacity
         /\ ExecPc \subseteq Nat
<1>1. Fetchable \in Nat
  BY ProgramType DEF IInv
<1>2. pc \in Nat /\ (decode # NoPc => decode \in Nat)
  BY <1>1 DEF IInv, TypeOK, Pc
<1>3. dispatcher_reg.pc \in Int /\ (dispatcher_reg # NoExec => 0 <= dispatcher_reg.pc)
  BY ExecInfoPc DEF IInv, TypeOK, InOrder
<1>4. \A e \in Values(ring_buffer) : e \in ExecInfo /\ e.pc \in Int /\ 0 <= e.pc
  BY RingIs, ExecInfoPc
<1>5. ring_buffer.size \in 0..Capacity
  BY DEF IInv, TypeOK, Buffer
<1>6. ExecPc \subseteq Nat
  BY <1>1 DEF ExecPc, Pc
<1> QED BY <1>2, <1>3, <1>4, <1>5, <1>6

\* What the edge does to the pcs.
LEMMA EdgeMoves ==
  ASSUME IInv, RoundsInv, PosEdge, UNCHANGED configVars, Looping
  PROVE  /\ IsDispatchable =>
              /\ pc' = pc + 1 /\ decode' = pc /\ decode' # NoPc
              /\ \/ /\ dispatcher_reg' # NoExec /\ decode # NoPc
                    /\ dispatcher_reg'.pc = decode /\ NextToIssue' = decode
                 \/ /\ dispatcher_reg' = NoExec /\ decode \notin ExecPc
                    /\ NextToIssue' = pc
         /\ ~IsDispatchable =>
              /\ pc' = pc /\ decode' = decode /\ dispatcher_reg' = dispatcher_reg
              /\ NextToIssue' = NextToIssue
<1>1. /\ FrontEdge(IsDispatchable)
      /\ dispatcher_reg' = Latched(IsDispatchable, ToDispatcher, dispatcher_reg)
  BY DEF PosEdge, BackEdge
<1>2. pc \in Nat /\ NoPc \notin Nat
  BY PcsAre, NoExecType
<1>3. CASE IsDispatchable
  <2>1. pc' = pc + 1 /\ decode' = pc /\ decode' # NoPc /\ dispatcher_reg' = ToDispatcher
    BY <1>1, <1>2, <1>3 DEF FrontEdge, NextPc, Latched, More, Fetched
  <2>2. CASE ToDispatcher # NoExec
    <3>1. decode # NoPc /\ ToDispatcher.pc = decode
      BY <2>2, DispatchedType, ExecInfoOfType DEF IInv
    <3> QED BY <1>3, <2>1, <2>2, <3>1 DEF NextToIssue, NoExec, NoPc
  <2>3. CASE ToDispatcher = NoExec
    <3>1. decode \notin ExecPc
      <4> SUFFICES ASSUME decode \in ExecPc PROVE FALSE
        OBVIOUS
      <4>1. decode \in Nat /\ decode # NoPc
        BY <1>2, PcsAre
      <4>2. decode \in Pc /\ Inst(decode) \in Instr /\ Inst(decode).op \notin ScalarOp \cup {"setbw"}
        BY <4>1, ExecInfoOfType DEF IInv, ExecPc
      <4>3. ToDispatcher = ExecInfoOf(decode)
        BY <4>1, <4>2 DEF ToDispatcher, DecodeHas, Instr
      <4> QED BY <2>3, <4>1, <4>3 DEF ExecInfoOf, NoExec
    <3> QED BY <1>3, <2>1, <2>3, <3>1 DEF NextToIssue, NoExec, NoPc
  <2> QED BY <1>3, <2>1, <2>2, <2>3
<1>4. CASE ~IsDispatchable
  <2>1. pc' = pc /\ decode' = decode /\ dispatcher_reg' = dispatcher_reg
    BY <1>1, <1>4 DEF FrontEdge, NextPc, Latched
  <2> QED BY <1>4, <2>1 DEF NextToIssue, NoExec, NoPc
<1> QED BY <1>3, <1>4

LEMMA OnlyExecutedStep ==
  ASSUME IInv, RoundsInv, PosEdge, UNCHANGED configVars
  PROVE  OnlyExecuted'
<1>1. ExecPc' = ExecPc
  BY Fixed DEF ExecPc
<1>2. Values(ring_buffer') \subseteq Values(ring_buffer) \cup ({dispatcher_reg} \ {NoExec})
  BY RobEffect, IssuedIs DEF NewlyIssued
<1>3. ASSUME dispatcher_reg' # NoExec PROVE dispatcher_reg'.pc \in ExecPc
  <2>1. dispatcher_reg' = IF IsDispatchable THEN ToDispatcher ELSE dispatcher_reg
    BY DEF PosEdge, BackEdge, Latched
  <2>2. ToDispatcher # NoExec => ToDispatcher.pc \in ExecPc
    BY DispatchedType, ExecInfoOfType DEF IInv, ExecPc
  <2> QED BY <1>3, <2>1, <2>2 DEF RoundsInv, OnlyExecuted
<1>4. \A e \in Values(ring_buffer') \cup ({dispatcher_reg'} \ {NoExec}) : e.pc \in ExecPc
  BY <1>2, <1>3 DEF RoundsInv, OnlyExecuted
<1> QED BY <1>1, <1>4 DEF OnlyExecuted, NoExec, NoPc

LEMMA NoneSkippedStep ==
  ASSUME IInv, RoundsInv, PosEdge, UNCHANGED configVars, Looping
  PROVE  NoneSkipped'
<1>1. ExecPc' = ExecPc
  BY Fixed DEF ExecPc
<1>2. /\ Values(ring_buffer') \subseteq Values(ring_buffer) \cup NewlyIssued
      /\ \A w \in Values(ring_buffer) \cup NewlyIssued :
           (\E u \in Values(ring_buffer') : u.pc <= w.pc) => w \in Values(ring_buffer')
  BY RobEffect
<1>3. ASSUME NEW i \in ExecPc, NEW u \in Values(ring_buffer'), u.pc <= i, i < NextToIssue'
      PROVE  \E v \in Values(ring_buffer') : v.pc = i
  <2>1. i \in Nat /\ pc \in Nat /\ (decode # NoPc => decode \in Nat) /\ NoPc = -1
    BY PcsAre DEF NoPc
  <2>2. /\ dispatcher_reg # NoExec => dispatcher_reg.pc \in Nat
        /\ \A e \in Values(ring_buffer) : e.pc \in Nat
    BY PcsAre
  <2>3. Consecutive /\ NoneSkipped
    BY DEF RoundsInv
  <2>4. ASSUME i < NextToIssue, u \in Values(ring_buffer)
        PROVE  \E v \in Values(ring_buffer') : v.pc = i
    <3>1. PICK v \in Values(ring_buffer) : v.pc = i
      BY <1>3, <2>3, <2>4 DEF NoneSkipped
    <3> QED BY <1>2, <1>3, <3>1
  <2>5. CASE ~IsDispatchable
    <3>1. NextToIssue' = NextToIssue /\ NewlyIssued = {}
      BY <2>5, EdgeMoves DEF NewlyIssued, Issued
    <3> QED BY <1>2, <1>3, <2>4, <3>1
  <2>6. CASE IsDispatchable
    <3>1. decode # NoPc /\ i < decode
      <4>1. \/ decode # NoPc /\ NextToIssue' = decode
            \/ decode \notin ExecPc /\ NextToIssue' = pc
        BY <2>6, EdgeMoves
      <4>2. i # decode \/ decode \in ExecPc
        BY <1>3
      <4> QED BY <1>3, <2>1, <2>3, <4>1, <4>2 DEF Consecutive
    <3>2. CASE dispatcher_reg = NoExec
      <4>1. NextToIssue = decode /\ NewlyIssued = {}
        BY <3>1, <3>2 DEF NextToIssue, NewlyIssued, Issued
      <4> QED BY <1>2, <1>3, <2>4, <3>1, <4>1
    <3>3. CASE dispatcher_reg # NoExec
      <4>1. /\ NextToIssue = dispatcher_reg.pc /\ decode = dispatcher_reg.pc + 1
            /\ NewlyIssued = {dispatcher_reg}
        BY <2>3, <2>6, <3>3 DEF NextToIssue, NewlyIssued, Issued, Consecutive
      <4>2. CASE i = dispatcher_reg.pc
        BY <1>2, <1>3, <4>1, <4>2
      <4>3. CASE i < dispatcher_reg.pc
        <5>1. u \in Values(ring_buffer)
          BY <1>2, <1>3, <2>1, <2>2, <3>3, <4>1, <4>3
        <5> QED BY <2>4, <4>1, <4>3, <5>1
      <4> QED BY <2>1, <2>2, <3>1, <3>3, <4>1, <4>2, <4>3
    <3> QED BY <3>2, <3>3
  <2> QED BY <2>5, <2>6
<1> QED BY <1>1, <1>3 DEF NoneSkipped

LEMMA FullStallsStep ==
  ASSUME IInv, RoundsInv, PosEdge, UNCHANGED configVars, Looping
  PROVE  FullStalls'
<1>1. /\ Values(ring_buffer') \subseteq Values(ring_buffer) \cup NewlyIssued
      /\ \A w \in Values(ring_buffer) \cup NewlyIssued :
           (\E u \in Values(ring_buffer') : u.pc <= w.pc) => w \in Values(ring_buffer')
      /\ ring_buffer'.size <= ring_buffer.size + IF Issued = NoExec THEN 0 ELSE 1
      /\ Ring(ring_buffer')
  BY RobEffect
<1>2. /\ pc \in Nat /\ ring_buffer.size \in 0..Capacity /\ Capacity \in Nat \ {0}
      /\ \A e \in Values(ring_buffer) : e.pc \in Nat
      /\ dispatcher_reg # NoExec => dispatcher_reg.pc \in Nat
  BY PcsAre, CapacityAssumption
<1>3. Consecutive /\ FullStalls
  BY DEF RoundsInv
<1> SUFFICES ASSUME Full(ring_buffer')
             PROVE  \E v \in Values(ring_buffer') :
                      pc' <= v.pc + 3 /\ \A w \in Values(ring_buffer') : w.pc <= v.pc
  BY DEF FullStalls
<1>4. PICK u : u \in Values(ring_buffer')
  <2>1. ring_buffer'.size = Capacity
    BY DEF Full
  <2> QED BY <1>2, <2>1 DEF Values
<1>5. CASE Issued = NoExec
  <2>1. Full(ring_buffer) /\ NewlyIssued = {} /\ ~IsDispatchable
    BY <1>1, <1>2, <1>5 DEF Full, NewlyIssued, IsDispatchable, RobReady
  <2>2. PICK v \in Values(ring_buffer) :
          pc <= v.pc + 3 /\ \A w \in Values(ring_buffer) : w.pc <= v.pc
    BY <1>3, <2>1 DEF FullStalls
  <2>3. v \in Values(ring_buffer') /\ pc' = pc
    BY <1>1, <1>4, <2>1, <2>2, EdgeMoves
  <2> QED BY <1>1, <2>1, <2>2, <2>3
<1>6. CASE Issued # NoExec
  <2>1. /\ IsDispatchable /\ Issued = dispatcher_reg /\ NewlyIssued = {Issued}
        /\ \A e \in Values(ring_buffer) : e.pc < Issued.pc
    BY <1>6, IssuedIs DEF NewlyIssued
  <2>2. pc' = pc + 1 /\ decode # NoPc /\ pc = decode + 1 /\ decode = Issued.pc + 1
    BY <1>3, <1>6, <2>1, EdgeMoves DEF Consecutive
  <2>3. \A w \in Values(ring_buffer') : w.pc <= Issued.pc
    BY <1>1, <1>2, <1>6, <2>1
  <2>4. Issued \in Values(ring_buffer')
    BY <1>1, <1>4, <2>1, <2>3
  <2>5. pc' <= Issued.pc + 3
    BY <1>2, <1>6, <2>1, <2>2
  <2> QED BY <2>3, <2>4, <2>5
<1> QED BY <1>5, <1>6

LEMMA RoundsStep ==
  ASSUME IInv, RoundsInv, PosEdge, UNCHANGED configVars
  PROVE  RoundsInv'
<1>1. Looping' = Looping
  BY Fixed
<1>2. HeadIsValid(ring_buffer')
  BY RobEffect DEF RoundsInv
<1>3. OnlyExecuted'
  BY OnlyExecutedStep
<1>4. ASSUME Looping PROVE Consecutive' /\ NoneSkipped' /\ FullStalls'
  <2>1. Consecutive'
    <3>1. CASE IsDispatchable
      <4>1. /\ pc \in Nat /\ pc' = pc + 1 /\ decode' = pc /\ decode' # NoPc
            /\ dispatcher_reg' # NoExec => decode # NoPc /\ dispatcher_reg'.pc = decode
        BY <1>4, <3>1, EdgeMoves, PcsAre
      <4>2. dispatcher_reg' # NoExec => decode' = dispatcher_reg'.pc + 1
        BY <1>4, <4>1 DEF RoundsInv, Consecutive
      <4> QED BY <4>1, <4>2 DEF Consecutive, NoExec, NoPc
    <3>2. CASE ~IsDispatchable
      <4>1. pc' = pc /\ decode' = decode /\ dispatcher_reg' = dispatcher_reg
        BY <1>4, <3>2, EdgeMoves
      <4> QED BY <1>4, <4>1 DEF RoundsInv, Consecutive, NoExec, NoPc
    <3> QED BY <3>1, <3>2
  <2> QED BY <1>4, <2>1, NoneSkippedStep, FullStallsStep
<1> QED BY <1>1, <1>2, <1>3, <1>4 DEF RoundsInv

\* The same instruction comes again a lap later.
LEMMA NextLap ==
  ASSUME NEW n \in Nat \ {0}, NEW i \in Nat
  PROVE  (i + n) % n = i % n
<1> DEFINE q == i \div n
           m == i % n
<1>1. i = q * n + m /\ q \in Nat /\ m \in 0..(n - 1) /\ m = i % n
  BY SMT
<1> HIDE DEF q, m
<1>2. i + n = (q + 1) * n + m
  BY <1>1, SMT
<1>3. \A a, b \in Nat : a < n => (b * n + a) % n = a
  BY SMT
<1>4. m \in Nat /\ m < n /\ q + 1 \in Nat
  BY <1>1
<1>5. ((q + 1) * n + m) % n = m
  BY <1>3, <1>4
<1> QED BY <1>1, <1>2, <1>5

LEMMA AgainIn ==
  ASSUME IInv, Looping, NEW i \in ExecPc, NEW j \in Pc, j = i + inst_buffer_size
  PROVE  j \in ExecPc
<1>1. inst_buffer_size \in Nat \ {0} /\ i \in Nat
  BY ProgramType, PcsAre DEF IInv
<1>2. Inst(j) = Inst(i)
  BY <1>1, NextLap DEF Inst, CodePc
<1> QED BY <1>2 DEF ExecPc

\* Neighbours in the buffer are at most one lap apart, and so is what comes next.
LEMMA BufferSpan ==
  ASSUME IInv, RoundsInv, Looping, ring_buffer.size > 0,
         NEW k \in 0..ring_buffer.size
  PROVE  LET p == IF k = ring_buffer.size THEN NextToIssue ELSE Entry(ring_buffer, k).value.pc
         IN p <= Entry(ring_buffer, 0).value.pc + k * inst_buffer_size
            \/ k = 0
<1> DEFINE size == ring_buffer.size
           E(i) == Entry(ring_buffer, i).value.pc
           P(i) == IF i = size THEN NextToIssue ELSE E(i)
           L == inst_buffer_size
           T == {i \in 1..size : ~(P(i) <= E(0) + i * L)}
<1>1. /\ size \in Nat /\ L \in Nat \ {0} /\ NextToIssue \in Nat /\ NextToIssue <= pc
      /\ pc \in 0..Fetchable /\ Fetchable \in Nat
      /\ \A i \in 0..(size - 1) : E(i) \in Nat /\ E(i) \in ExecPc /\ E(i) < NextToIssue
      /\ \A i, j \in 0..(size - 1) : i < j => E(i) < E(j)
  <2>1. size \in Nat
    BY PcsAre
  <2>2. L \in Nat \ {0} /\ Fetchable \in Nat /\ pc \in 0..Fetchable
    BY ProgramType DEF IInv, TypeOK
  <2>3. NextToIssue \in Nat /\ NextToIssue <= pc
    BY PcsAre DEF NextToIssue, IInv, InOrder
  <2>4. ASSUME NEW i \in 0..(size - 1)
        PROVE  E(i) \in Nat /\ E(i) \in ExecPc /\ E(i) < NextToIssue
    <3>1. Entry(ring_buffer, i).value \in Values(ring_buffer)
      BY DEF Values
    <3> QED BY <3>1, PcsAre DEF RoundsInv, OnlyExecuted, IInv, InOrder, NextToIssue
  <2>5. \A i, j \in 0..(size - 1) : i < j => E(i) < E(j)
    BY DEF IInv, InOrder, Sorted
  <2> QED BY <2>1, <2>2, <2>3, <2>4, <2>5
<1>2. \A i \in ExecPc : E(0) <= i /\ i < NextToIssue => \E j \in 0..(size - 1) : E(j) = i
  <2>1. Entry(ring_buffer, 0).value \in Values(ring_buffer)
    BY <1>1 DEF Values
  <2> QED BY <2>1 DEF RoundsInv, NoneSkipped, Values
<1> HIDE DEF size, E, L
<1>3. \A i \in 1..size : P(i) \in Nat
  BY <1>1
<1>4. T = {}
  <2> SUFFICES ASSUME T # {} PROVE FALSE
    OBVIOUS
  <2>1. PICK i \in T : \A j \in T : i <= j
    <3>1. T \in SUBSET Nat
      BY <1>1
    <3> QED BY <3>1, LeastElement
  <2>2. i \in 1..size /\ i - 1 \in 0..(size - 1) /\ ~(P(i) <= E(0) + i * L)
    BY <1>1, <2>1
  <2>3. E(i - 1) <= E(0) + (i - 1) * L
    <3>1. CASE i = 1
      <4>1. i - 1 = 0 /\ 0 * L = 0
        BY <1>1, <3>1
      <4> QED BY <1>1, <2>2, <3>1, <4>1
    <3>2. CASE i # 1
      <4>1. i - 1 \in 1..size /\ i - 1 \notin T /\ i - 1 # size
        BY <1>1, <2>1, <2>2, <3>2
      <4> QED BY <4>1
    <3> QED BY <3>1, <3>2
  <2>4. (i - 1) * L + L = i * L /\ i * L \in Nat /\ (i - 1) * L \in Nat
    <3>1. i - 1 \in Nat /\ i \in Nat
      BY <2>2
    <3> QED BY <1>1, <3>1, SMT
  <2>5. E(i - 1) + L < P(i) /\ E(0) <= E(i - 1) + L
    <3>1. /\ E(i - 1) \in Nat /\ E(0) \in Nat /\ P(i) \in Nat
          /\ E(0) <= E(i - 1)
      BY <1>1, <1>3, <2>2
    <3> HIDE DEF P
    <3> QED BY <1>1, <2>2, <2>3, <2>4, <3>1
  <2>6. P(i) <= NextToIssue
    BY <1>1, <2>2
  <2>7. E(i - 1) + L \in Pc /\ E(i - 1) + L < NextToIssue
    <3>1. P(i) \in Nat /\ E(i - 1) \in Nat
      BY <1>1, <1>3, <2>2
    <3> HIDE DEF P
    <3> QED BY <1>1, <2>5, <2>6, <3>1 DEF Pc
  <2>8. E(i - 1) + L \in ExecPc
    BY <1>1, <2>2, <2>7, AgainIn DEF L
  <2>9. PICK j \in 0..(size - 1) : E(j) = E(i - 1) + L
    BY <1>2, <2>5, <2>7, <2>8
  <2>10. i - 1 < j
    <3> SUFFICES ASSUME j <= i - 1 PROVE FALSE
      BY <1>1, <2>2
    <3>1. E(j) <= E(i - 1)
      BY <1>1, <2>2
    <3> QED BY <1>1, <2>2, <2>9, <3>1
  <2>11. i < size /\ ~(i = size) /\ P(i) = E(i)
    BY <1>1, <2>2, <2>10
  <2>12. E(i) <= E(j) /\ E(j) < E(i)
    BY <1>1, <2>2, <2>5, <2>9, <2>10, <2>11
  <2> QED BY <1>1, <2>2, <2>11, <2>12
<1>5. k = 0 \/ P(k) <= E(0) + k * L
  BY <1>1, <1>4 DEF size
<1> QED BY <1>5 DEF P, E, L, size

\* The minimum of a set of numbers that has a least element is that element.
LEMMA MinIs ==
  ASSUME NEW S \in SUBSET Nat, NEW i \in S, \A j \in S : i <= j
  PROVE  Sets!Min(S) = i
<1> DEFINE m == CHOOSE x \in S : \A y \in S : x <= y
<1>1. \E x \in S : \A y \in S : x <= y
  OBVIOUS
<1>2. m \in S /\ \A y \in S : m <= y
  BY <1>1
<1>3. Sets!Min(S) = m
  BY DEF Sets!Min
<1> HIDE DEF m
<1>4. m <= i /\ i <= m
  BY <1>2
<1> QED BY <1>2, <1>3, <1>4

\* From the oldest instruction that is not finished to the pc.
LEMMA OldestIs ==
  ASSUME IInv, RoundsInv, Looping
  PROVE  /\ Sets!Min(Unfinished) \in Nat
         /\ pc + 1 <= Sets!Min(Unfinished) + (Capacity - 1) * inst_buffer_size + 4
<1> DEFINE L == inst_buffer_size
           min == Sets!Min(Unfinished)
           size == ring_buffer.size
<1>1. /\ L \in Nat \ {0} /\ Capacity \in Nat \ {0} /\ size \in 0..Capacity
      /\ pc \in Nat /\ (decode # NoPc => decode \in Nat) /\ NoPc = -1
      /\ dispatcher_reg # NoExec => dispatcher_reg.pc \in Nat
      /\ dispatcher_reg = NoExec => dispatcher_reg.pc = NoPc
      /\ \A e \in Values(ring_buffer) : e.pc \in Nat
  BY ProgramType, PcsAre, NoExecType, CapacityAssumption DEF IInv, NoPc
<1>2. Consecutive
  BY DEF RoundsInv
<1>3. /\ NextToIssue \in Nat /\ pc <= NextToIssue + 2
      /\ dispatcher_reg = NoExec => pc <= NextToIssue + 1
      /\ NextToIssue \in Unfinished
      /\ \A i \in Unfinished : i \in InBuffer \/ NextToIssue <= i
  <2>1. CASE dispatcher_reg # NoExec
    BY <1>1, <1>2, <2>1 DEF NextToIssue, Consecutive, Unfinished
  <2>2. CASE dispatcher_reg = NoExec /\ decode # NoPc
    BY <1>1, <1>2, <2>2 DEF NextToIssue, Consecutive, Unfinished
  <2>3. CASE dispatcher_reg = NoExec /\ decode = NoPc
    BY <1>1, <1>2, <2>3 DEF NextToIssue, Consecutive, Unfinished
  <2> QED BY <2>1, <2>2, <2>3
<1>4. \A i \in Unfinished : (\A j \in Unfinished : i <= j) /\ i \in Nat => min = i
  <2>1. Unfinished \subseteq Nat
    <3>1. InBuffer \subseteq Nat
      BY <1>1, RingIs DEF InBuffer
    <3> QED BY <1>1, <3>1 DEF Unfinished
  <2> QED BY <2>1, MinIs
<1>5. \A n \in Nat : n * L \in Nat
  BY <1>1
<1>6. (Capacity - 1) * L \in Nat
  BY <1>1, <1>5
<1> HIDE DEF min, L
<1>7. CASE size = 0
  <2>1. Values(ring_buffer) = {} /\ InBuffer = {}
    BY <1>7, RingIs DEF Values, InBuffer
  <2>2. min = NextToIssue
    BY <1>3, <1>4, <2>1
  <2> QED BY <1>1, <1>3, <1>6, <2>2 DEF min, L
<1>8. CASE size > 0
  <2> DEFINE head == Entry(ring_buffer, 0).value.pc
             last == Entry(ring_buffer, size - 1).value.pc
  <2>1. Entry(ring_buffer, 0).value \in ValidEntries(ring_buffer) /\ head \in InBuffer
    <3>1. Entry(ring_buffer, 0).valid /\ 0 \in 0..(size - 1)
      BY <1>1, <1>8 DEF RoundsInv, HeadIsValid
    <3>2. Entry(ring_buffer, 0).value \in ValidEntries(ring_buffer)
      BY <3>1, RingIs, ValidEntriesAre DEF Ring
    <3> QED BY <3>2 DEF InBuffer
  <2>2. /\ head \in Nat /\ last \in Nat /\ last < NextToIssue /\ head <= last
        /\ \A e \in Values(ring_buffer) : head <= e.pc /\ e.pc <= last
    <3>1. \A e \in Values(ring_buffer) : e.pc < NextToIssue
      BY DEF IInv, InOrder, NextToIssue
    <3>2. Entry(ring_buffer, 0).value \in Values(ring_buffer)
          /\ Entry(ring_buffer, size - 1).value \in Values(ring_buffer)
      BY <1>1, <1>8 DEF Values
    <3>3. ASSUME NEW i \in 0..(size - 1)
          PROVE  head <= Entry(ring_buffer, i).value.pc /\ Entry(ring_buffer, i).value.pc <= last
      <4>1. /\ i = 0 \/ head < Entry(ring_buffer, i).value.pc
            /\ i = size - 1 \/ Entry(ring_buffer, i).value.pc < last
        BY <1>1, <1>8 DEF IInv, InOrder, Sorted
      <4>2. Entry(ring_buffer, i).value \in Values(ring_buffer)
        BY DEF Values
      <4> QED BY <1>1, <3>2, <4>1, <4>2
    <3>4. \A e \in Values(ring_buffer) : head <= e.pc /\ e.pc <= last
      BY <3>3 DEF Values
    <3> QED BY <1>1, <3>1, <3>2, <3>4
  <2>3. min = head
    <3>1. \A i \in InBuffer : head <= i
      BY <2>2, RingIs DEF InBuffer
    <3>2. \A i \in Unfinished : head <= i
      <4>1. head <= NextToIssue
        BY <1>3, <2>2
      <4>2. Unfinished \subseteq InBuffer \cup Nat
        BY <1>1 DEF Unfinished
      <4>3. ASSUME NEW i \in Unfinished, i \notin InBuffer PROVE head <= i
        BY <1>3, <2>2, <4>1, <4>2, <4>3
      <4> QED BY <3>1, <4>3
    <3>3. head \in Unfinished
      BY <1>1, <2>1, <2>2 DEF Unfinished
    <3> QED BY <1>4, <2>2, <3>2, <3>3
  <2>4. \A k \in 0..size : k * L \in Nat /\ (k <= Capacity - 1 => k * L <= (Capacity - 1) * L)
    BY <1>1, SMT
  <2>5. CASE Full(ring_buffer)
    <3>1. size = Capacity /\ size - 1 \in 0..size /\ size - 1 = Capacity - 1 /\ size - 1 # size
      BY <1>1, <1>8, <2>5 DEF Full
    <3>2. size - 1 = 0 \/ last <= head + (size - 1) * L
      BY <1>8, <3>1, BufferSpan DEF L
    <3>3. last <= head + (Capacity - 1) * L
      BY <1>1, <1>6, <2>2, <3>1, <3>2
    <3>4. PICK v \in Values(ring_buffer) : pc <= v.pc + 3
      BY <2>5 DEF RoundsInv, FullStalls
    <3>5. v.pc <= last /\ v.pc \in Nat
      BY <1>1, <2>2
    <3> HIDE DEF last, head
    <3> QED BY <1>1, <1>6, <2>2, <2>3, <3>3, <3>4, <3>5 DEF min, L
  <2>6. CASE ~Full(ring_buffer)
    <3>1. size <= Capacity - 1 /\ size \in 0..size /\ size # 0
      BY <1>1, <1>8, <2>6 DEF Full
    <3>2. NextToIssue <= head + size * L
      BY <1>8, <3>1, BufferSpan DEF L
    <3>3. size * L \in Nat /\ size * L <= (Capacity - 1) * L
      BY <2>4, <3>1
    <3> HIDE DEF last, head, size
    <3> QED BY <1>1, <1>3, <1>6, <2>2, <2>3, <3>2, <3>3 DEF min, L
  <2> QED BY <2>5, <2>6
<1> QED BY <1>1, <1>7, <1>8

LEMMA RoundsApart ==
  ASSUME NEW n \in Nat, n >= 2, NEW c \in Nat \ {0}, NEW m \in Nat, NEW p \in Nat,
         p <= m + (c - 1) * n + 4
  PROVE  p \div n - m \div n <= c + 1
<1> DEFINE q == m \div n
           r == p \div n
<1>1. /\ q \in Nat /\ m + 1 <= (q + 1) * n
      /\ r \in Nat /\ r * n <= p
  BY SMT
<1> HIDE DEF q, r
<1>2. (q + 1) * n + (c - 1) * n = (q + c) * n /\ (q + c + 2) * n = (q + c) * n + 2 * n
  BY <1>1, SMT
<1>3. {(q + 1) * n, (c - 1) * n, (q + c) * n, (q + c + 2) * n, r * n} \subseteq Int
  BY <1>1, SMT
<1>4. r * n < (q + c + 2) * n
  BY <1>1, <1>2, <1>3
<1>5. r <= q + c + 1
  <2> SUFFICES ASSUME q + c + 2 <= r PROVE FALSE
    BY <1>1
  <2>1. (q + c + 2) * n <= r * n
    BY <1>1, SMT
  <2> QED BY <1>3, <1>4, <2>1
<1>6. r - q <= c + 1
  BY <1>1, <1>5
<1> QED BY <1>6 DEF q, r

LEMMA RoundsInit == Init => RoundsInv
<1> SUFFICES ASSUME Init PROVE RoundsInv
  OBVIOUS
<1>1. ring_buffer.size = 0 /\ dispatcher_reg = NoExec /\ decode = NoPc /\ pc = 0
  BY DEF Init, FrontInit, BackInit, NewBuffer
<1>2. Values(ring_buffer) = {} /\ ~Full(ring_buffer)
  BY <1>1, CapacityAssumption DEF Values, Full
<1> QED BY <1>1, <1>2
        DEF RoundsInv, HeadIsValid, OnlyExecuted, Consecutive, NoneSkipped, FullStalls

LEMMA RoundsAlways == Spec => []RoundsInv
<1>1. IInv /\ RoundsInv /\ [Next]_vars => RoundsInv'
  <2> SUFFICES ASSUME IInv, RoundsInv, [Next]_vars PROVE RoundsInv'
    OBVIOUS
  <2>1. CASE PosEdge /\ UNCHANGED configVars
    BY <2>1, RoundsStep
  <2>2. CASE ~(PosEdge /\ UNCHANGED configVars)
    <3>1. UNCHANGED <<configVars, frontVars, dispatcher_reg, ring_buffer>>
      BY <2>2, BetweenEdges
    <3>2. Looping' = Looping /\ ExecPc' = ExecPc
      BY <3>1, Fixed DEF ExecPc
    <3>3. NextToIssue' = NextToIssue
      BY <3>1 DEF NextToIssue, frontVars, NoExec, NoPc
    <3> QED BY <3>1, <3>2, <3>3
            DEF RoundsInv, HeadIsValid, OnlyExecuted, Consecutive, NoneSkipped, FullStalls,
                frontVars, NoExec, NoPc
  <2> QED BY <2>1, <2>2
<1> QED BY <1>1, RoundsInit, Invariant, PTL DEF Spec

\* The rounds that a core has counted and not executed yet are at most one more than
\* the reorder buffer has entries: instructions of one lap may be spread over few
\* entries, but every lap that lies between two of them has one of its own.
THEOREM RoundsNearlyDone == Spec => []RoundsAreNearlyDone
<1>1. IInv /\ RoundsInv => RoundsAreNearlyDone
  <2> SUFFICES ASSUME IInv, RoundsInv, Looping
               PROVE  run_rounds - Sets!Min(Unfinished) \div inst_buffer_size <= Capacity + 1
    BY DEF RoundsAreNearlyDone
  <2>1. PICK m : m = Sets!Min(Unfinished)
    OBVIOUS
  <2>2. m \in Nat /\ pc + 1 <= m + (Capacity - 1) * inst_buffer_size + 4 /\ pc + 1 \in Nat
    BY <2>1, OldestIs, PcsAre
  <2>3. (pc + 1) \div inst_buffer_size - m \div inst_buffer_size <= Capacity + 1
    BY <2>2, RoundsApart, ProgramType, CapacityAssumption DEF IInv
  <2> QED BY <2>1, <2>3 DEF run_rounds
<1> QED BY <1>1, RoundsAlways, Invariant, PTL

-----------------------------------------------------------------------------
(* Operands *)

\* Registers and byte width before instruction i of the stream.
Before(i) == Stream[i + 1].before

\* The function that Executions defines exists.
LEMMA ExecutedExists ==
  ASSUME NEW n \in Nat, NEW code
  PROVE  \E f : f = [i \in 0..n |-> IF i = 0 THEN Reset ELSE Executed(f[i - 1], code[i - 1])]
<1> DEFINE P(m) ==
      \E f : f = [i \in 0..m |-> IF i = 0 THEN Reset ELSE Executed(f[i - 1], code[i - 1])]
           T == {m \in Nat : ~P(m)}
<1>1. CASE T = {}
  BY <1>1
<1>2. CASE T # {}
  <2>1. PICK m \in T : \A l \in T : m <= l
    <3> HIDE DEF P
    <3> QED BY <1>2, LeastElement
  <2>2. CASE m = 0
    <3> DEFINE f == [i \in 0..0 |-> Reset]
    <3>1. f = [i \in 0..0 |-> IF i = 0 THEN Reset ELSE Executed(f[i - 1], code[i - 1])]
      OBVIOUS
    <3>2. P(0)
      <4> HIDE DEF f
      <4> QED BY <3>1
    <3> QED BY <2>1, <2>2, <3>2
  <2>3. CASE m # 0
    <3>1. m \in Nat /\ m - 1 \in Nat /\ m - 1 \notin T
      <4> HIDE DEF P
      <4> QED BY <2>1, <2>3
    <3>2. PICK g : g = [i \in 0..(m - 1) |->
                          IF i = 0 THEN Reset ELSE Executed(g[i - 1], code[i - 1])]
      BY <3>1
    <3> DEFINE f == [i \in 0..m |-> IF i = m THEN Executed(g[m - 1], code[m - 1]) ELSE g[i]]
    <3>3. /\ \A i \in 0..(m - 1) : f[i] = g[i]
          /\ f[m] = Executed(g[m - 1], code[m - 1])
      <4>1. m \in 0..m /\ \A i \in 0..(m - 1) : i \in 0..m /\ i # m
        BY <3>1
      <4> QED BY <4>1
    <3>4. ASSUME NEW i \in 0..m
          PROVE  f[i] = IF i = 0 THEN Reset ELSE Executed(f[i - 1], code[i - 1])
      <4>1. CASE i = m
        <5>1. m - 1 \in 0..(m - 1)
          BY <3>1
        <5> QED BY <2>3, <3>3, <4>1, <5>1
      <4>2. CASE i # m /\ i # 0
        <5>1. i \in 0..(m - 1) /\ i - 1 \in 0..(m - 1)
          BY <3>1, <4>2
        <5>2. g[i] = Executed(g[i - 1], code[i - 1])
          BY <3>2, <4>2, <5>1
        <5> QED BY <3>3, <4>2, <5>1, <5>2
      <4>3. CASE i # m /\ i = 0
        <5>1. 0 \in 0..(m - 1)
          BY <3>1
        <5>2. g[0] = Reset
          BY <3>2, <5>1
        <5> QED BY <3>3, <4>3, <5>1, <5>2
      <4> QED BY <4>1, <4>2, <4>3
    <3>5. f = [i \in 0..m |-> f[i]]
      OBVIOUS
    <3>6. f = [i \in 0..m |-> IF i = 0 THEN Reset ELSE Executed(f[i - 1], code[i - 1])]
      <4> HIDE DEF f
      <4> QED BY <3>4, <3>5
    <3>7. P(m)
      <4> HIDE DEF f
      <4> QED BY <3>6
    <3> QED BY <2>1, <3>7
  <2> QED BY <2>2, <2>3
<1> QED BY <1>1, <1>2

\* What a program does, instruction after instruction.
LEMMA ExecutionsAre ==
  ASSUME NEW p, NEW times \in Nat, Len(p) \in Nat
  PROVE  /\ DOMAIN Executions(p, times) = 1..(times * Len(p))
         /\ \E m : /\ m[0] = Reset
                   /\ \A i \in 0..(times * Len(p) - 1) :
                        /\ m[i + 1] = Executed(m[i], p[(i % Len(p)) + 1])
                        /\ Executions(p, times)[i + 1] =
                             Execution(i, m[i], p[(i % Len(p)) + 1])
<1> DEFINE n == times * Len(p)
           code == [i \in 0..n |-> p[(i % Len(p)) + 1]]
           before[i \in 0..n] ==
             IF i = 0 THEN Reset ELSE Executed(before[i - 1], p[((i - 1) % Len(p)) + 1])
<1>1. n \in Nat
  BY SMT
<1>2. PICK g : g = [i \in 0..n |-> IF i = 0 THEN Reset ELSE Executed(g[i - 1], code[i - 1])]
  <2> HIDE DEF n, code
  <2> QED BY <1>1, ExecutedExists
<1> HIDE DEF n
<1>3. g = [i \in 0..n |->
             IF i = 0 THEN Reset ELSE Executed(g[i - 1], p[((i - 1) % Len(p)) + 1])]
  <2>1. \A i \in 0..n : i # 0 => code[i - 1] = p[((i - 1) % Len(p)) + 1]
    BY <1>1
  <2> HIDE DEF code
  <2> QED BY <1>2, <2>1
<1>4. before = [i \in 0..n |->
             IF i = 0 THEN Reset ELSE Executed(before[i - 1], p[((i - 1) % Len(p)) + 1])]
  BY <1>3 DEF before
<1>5. Executions(p, times) =
        [i \in 1..n |-> Execution(i - 1, before[i - 1], p[((i - 1) % Len(p)) + 1])]
  BY DEF Executions, before, n
<1> HIDE DEF before
<1>6. before[0] = Reset
  BY <1>1, <1>4
<1>7. ASSUME NEW i \in 0..(n - 1)
      PROVE  /\ before[i + 1] = Executed(before[i], p[(i % Len(p)) + 1])
             /\ Executions(p, times)[i + 1] = Execution(i, before[i], p[(i % Len(p)) + 1])
  <2>1. i + 1 \in 1..n /\ i + 1 \in 0..n /\ i + 1 # 0 /\ (i + 1) - 1 = i
    BY <1>1
  <2>2. before[i + 1] = Executed(before[i], p[(i % Len(p)) + 1])
    BY <1>4, <2>1
  <2> QED BY <1>5, <2>1, <2>2
<1>8. DOMAIN Executions(p, times) = 1..n
  BY <1>5
<1> QED BY <1>6, <1>7, <1>8 DEF n

LEMMA StreamIs ==
  ASSUME TypeOK, ProgramChosen
  PROVE  /\ DOMAIN Stream = 1..Fetchable /\ Len(Stream) = Fetchable
         /\ Fetchable > 0 => Before(0) = Reset
         /\ \A i \in Pc : /\ Stream[i + 1] = Execution(i, Before(i), Inst(i))
                          /\ i + 1 \in Pc => Before(i + 1) = Executed(Before(i), Inst(i))
<1> DEFINE times == IF Looping THEN Laps ELSE 1
           n == times * Len(prog)
           code(i) == prog[(i % Len(prog)) + 1]
<1>1. Len(prog) \in Nat /\ times \in Nat /\ Fetchable \in Nat
  BY ProgramType, FrontEndAssumption DEF inst_buffer_size
<1>2. n = Fetchable
  BY <1>1 DEF Fetchable, inst_buffer_size
<1>3. Stream = Executions(prog, times)
  <2>1. <<prog, times>> \in {<<p, 1>> : p \in Programs} \cup {<<p, Laps>> : p \in LoopPrograms}
    BY DEF ProgramChosen
  <2> QED BY <2>1 DEF Stream, Sequential
<1>4. \A i \in Pc : code(i) = Inst(i)
  <2> SUFFICES ASSUME NEW i \in Pc PROVE code(i) = Inst(i)
    OBVIOUS
  <2>1. CASE Looping
    BY <2>1 DEF Inst, CodePc, inst_buffer_size
  <2>2. CASE ~Looping
    <3>1. i \in Nat /\ i < Len(prog) /\ Len(prog) \in Nat \ {0}
      BY <1>1, <2>2 DEF Pc, Fetchable, inst_buffer_size
    <3>2. i % Len(prog) = i
      BY <3>1, Remainder
    <3> QED BY <2>2, <3>2 DEF Inst, CodePc
  <2> QED BY <2>1, <2>2
<1>5. /\ DOMAIN Stream = 1..n
      /\ \E m : /\ m[0] = Reset
                /\ \A i \in 0..(n - 1) : /\ m[i + 1] = Executed(m[i], code(i))
                                       /\ Stream[i + 1] = Execution(i, m[i], code(i))
  <2> HIDE DEF times
  <2> QED BY <1>1, <1>3, ExecutionsAre
<1> HIDE DEF n, code
<1>6. PICK m : /\ m[0] = Reset
               /\ \A i \in 0..(n - 1) : /\ m[i + 1] = Executed(m[i], code(i))
                                      /\ Stream[i + 1] = Execution(i, m[i], code(i))
  BY <1>5
<1>7. ASSUME NEW i \in Pc
      PROVE  /\ Stream[i + 1] = Execution(i, m[i], Inst(i)) /\ Before(i) = m[i]
             /\ m[i + 1] = Executed(m[i], Inst(i))
  <2>1. i + 1 \in 1..n /\ i \in 0..(n - 1) /\ (i + 1) - 1 = i
    BY <1>1, <1>2 DEF Pc
  <2>2. Stream[i + 1] = Execution(i, m[i], Inst(i))
    BY <1>4, <1>6, <2>1
  <2> QED BY <1>4, <1>6, <2>1, <2>2 DEF Before, Execution
<1>8. Fetchable > 0 => 0 \in Pc
  BY <1>1 DEF Pc
<1>9. DOMAIN Stream = 1..Fetchable
  BY <1>2, <1>5
<1>10. Len(Stream) = Fetchable
  BY <1>1, <1>2, <1>5, <1>9
<1> QED BY <1>6, <1>7, <1>8, <1>9, <1>10

\* What is expected of instruction i.
LEMMA SequentialIs ==
  ASSUME TypeOK, ProgramChosen, NEW i \in Pc
  PROVE  /\ SequentialExec(i) = InfoOf(i, Before(i), Inst(i)) /\ SequentialExec(i).pc = i
         /\ Stream[i + 1].exec = (i \in ExecPc)
         /\ Stream[i + 1].reads = ReadBytes(Inst(i), SequentialExec(i))
         /\ Stream[i + 1].writes = WrittenBytes(Inst(i), SequentialExec(i))
<1>1. Stream[i + 1] = Execution(i, Before(i), Inst(i))
  BY StreamIs
<1>2. /\ Stream[i + 1].info = InfoOf(i, Before(i), Inst(i))
      /\ Stream[i + 1].exec = (Inst(i).op \notin ScalarOp \cup {"setbw"})
      /\ Stream[i + 1].reads = ReadBytes(Inst(i), InfoOf(i, Before(i), Inst(i)))
      /\ Stream[i + 1].writes = WrittenBytes(Inst(i), InfoOf(i, Before(i), Inst(i)))
  BY <1>1 DEF Execution
<1>3. InfoOf(i, Before(i), Inst(i)).pc = i
  BY DEF InfoOf
<1>4. Inst(i).op \notin ScalarOp \cup {"setbw"} <=> i \in ExecPc
  BY DEF ExecPc
<1> QED BY <1>2, <1>3, <1>4 DEF SequentialExec

\* All three copies of the registers taken together.
Registers == [r \in Register |-> Read(r)]

\* What the decoder reads is what the program leaves there. A scalar instruction that
\* stays in the decoder for more than a cycle has been executed before it leaves.
RegistersAre ==
  /\ reg_data[last_write.rd_addr] = last_write.rd_value
  /\ decode = NoPc => pc = 0 \/ ~More
  /\ decode = NoPc /\ pc = 0 => Registers = Reset.regs /\ bitwidth = 0 /\ scalar = NoExec
  /\ decode # NoPc =>
       /\ pc = decode + 1
       /\ bitwidth = Before(decode).bytes
       /\ \/ /\ Registers = Before(decode).regs
             /\ scalar # NoExec => scalar.pc \in Nat /\ scalar.pc = decode - 1
          \/ /\ Inst(decode).op \in ScalarOp /\ ~Accumulates(Inst(decode))
             /\ Before(decode).regs \in [Register -> Int]
             /\ Registers = Executed(Before(decode), Inst(decode)).regs

OperandsInv ==
  /\ RegistersAre
  /\ \A e \in {dispatcher_reg} \cup Values(ring_buffer) : e # NoExec => e = SequentialExec(e.pc)

LEMMA RegistersType ==
  ASSUME TypeOK
  PROVE  Registers \in [Register -> Int] /\ \A r \in Register : Registers[r] = Read(r)
BY ReadType DEF Registers, Word

\* The write of a cycle goes to the copies one after the other.
LEMMA ReadNext ==
  ASSUME IInv, RegistersAre, PosEdge
  PROVE  /\ Registers' = [Registers EXCEPT ![cur_write'.rd_addr] = cur_write'.rd_value]
         /\ cur_write' = cur_write => Registers' = Registers
         /\ (reg_data[last_write.rd_addr] = last_write.rd_value)'
<1>1. /\ last_write' = cur_write
      /\ reg_data' = [reg_data EXCEPT ![cur_write.rd_addr] = cur_write.rd_value]
  BY DEF PosEdge, FrontEdge
<1>2. /\ cur_write.rd_addr \in Register /\ reg_data \in [Register -> Word]
      /\ reg_data[last_write.rd_addr] = last_write.rd_value
  BY DEF IInv, TypeOK, RegistersAre
<1>3. \A r \in Register : Read(r)' = IF r = cur_write'.rd_addr THEN cur_write'.rd_value ELSE Read(r)
  BY <1>1, <1>2 DEF Read
<1>4. Registers' = [r \in Register |-> Read(r)']
  BY DEF Registers
<1>5. cur_write' = cur_write => \A r \in Register : Read(r)' = Read(r)
  BY <1>3 DEF Read
<1> QED BY <1>1, <1>2, <1>3, <1>4, <1>5 DEF Registers

LEMMA ComputedIs ==
  ASSUME NEW regs, NEW inst
  PROVE  /\ inst.op = "sldi"  => Computed(regs, inst) = [regs EXCEPT ![inst.rd] = inst.imm]
         /\ inst.op = "saddi" =>
              Computed(regs, inst) = [regs EXCEPT ![inst.rd] = regs[inst.rs1] + inst.imm]
         /\ inst.op = "smuli" =>
              Computed(regs, inst) = [regs EXCEPT ![inst.rd] = regs[inst.rs1] * inst.imm]
         /\ inst.op = "sadd" =>
              Computed(regs, inst) = [regs EXCEPT ![inst.rd] = regs[inst.rs1] + regs[inst.rs2]]
         /\ inst.op = "ssub" =>
              Computed(regs, inst) = [regs EXCEPT ![inst.rd] = regs[inst.rs1] - regs[inst.rs2]]
         /\ inst.op = "smul" =>
              Computed(regs, inst) = [regs EXCEPT ![inst.rd] = regs[inst.rs1] * regs[inst.rs2]]
         /\ inst.op = "sld"   => Computed(regs, inst) = [regs EXCEPT ![0] = 0]
         /\ inst.op \notin ScalarOp => Computed(regs, inst) = regs
BY DEF Computed, ScalarOp

\* What the scalar unit writes is what the instruction computes.
LEMMA WriteIs ==
  ASSUME IInv, decode # NoPc, Inst(decode).op \in ScalarOp,
         NEW w, w = RegFileWrite(ExecInfoOf(decode))
  PROVE  Computed(Registers, Inst(decode)) = [Registers EXCEPT ![w.rd_addr] = w.rd_value]
<1> DEFINE inst == Inst(decode)
           s == ExecInfoOf(decode)
<1>1. /\ inst \in Instr /\ s.pc = decode
      /\ inst.rs1 \in Register /\ inst.rs2 \in Register
  BY ExecInfoOfType DEF IInv, Instr
<1>2. /\ inst.op # "sld" => s.rs1_value = Registers[inst.rs1]
      /\ s.rs2_value = Registers[inst.rs2]
  BY <1>1, RegistersType DEF ExecInfoOf, DoubleWord, ScalarOp, IInv
<1> HIDE DEF s
<1>3. Inst(s.pc) = inst
  BY <1>1
<1> HIDE DEF inst
<1> DEFINE result == [sldi  |-> inst.imm,
                 saddi |-> s.rs1_value + inst.imm,
                 smuli |-> s.rs1_value * inst.imm,
                 sadd  |-> s.rs1_value + s.rs2_value,
                 ssub  |-> s.rs1_value - s.rs2_value,
                 smul  |-> s.rs1_value * s.rs2_value,
                 sld   |-> 0]
<1>4. /\ w.rd_addr = IF inst.op = "sld" THEN 0 ELSE inst.rd
      /\ w.rd_value = result[inst.op]
  BY <1>3 DEF RegFileWrite, s
<1>5. /\ inst.op = "sldi"  => result[inst.op] = inst.imm
      /\ inst.op = "saddi" => result[inst.op] = s.rs1_value + inst.imm
      /\ inst.op = "smuli" => result[inst.op] = s.rs1_value * inst.imm
      /\ inst.op = "sadd"  => result[inst.op] = s.rs1_value + s.rs2_value
      /\ inst.op = "ssub"  => result[inst.op] = s.rs1_value - s.rs2_value
      /\ inst.op = "smul"  => result[inst.op] = s.rs1_value * s.rs2_value
      /\ inst.op = "sld"   => result[inst.op] = 0
  OBVIOUS
<1> HIDE DEF result
<1>6. inst.op \in ScalarOp
  BY DEF inst
<1>7. Computed(Registers, inst) = [Registers EXCEPT ![w.rd_addr] = w.rd_value]
  BY <1>2, <1>4, <1>5, <1>6, ComputedIs DEF ScalarOp
<1> QED BY <1>7 DEF inst

\* Executed a second time, an instruction that does not accumulate changes nothing.
LEMMA ComputedTwice ==
  ASSUME NEW regs \in [Register -> Int], NEW inst \in Instr, ~Accumulates(inst)
  PROVE  Computed(Computed(regs, inst), inst) = Computed(regs, inst)
<1>1. inst.rd \in Register /\ inst.rs1 \in Register /\ inst.rs2 \in Register /\ 0 \in Register
  BY FrontEndAssumption DEF Instr
<1>2. \A v : \A r \in Register :
        /\ [regs EXCEPT ![r] = v][r] = v
        /\ [[regs EXCEPT ![r] = v] EXCEPT ![r] = v] = [regs EXCEPT ![r] = v]
        /\ \A q \in Register \ {r} : [regs EXCEPT ![r] = v][q] = regs[q]
  OBVIOUS
<1>3. CASE inst.op = "sldi"
  BY <1>1, <1>2, <1>3, ComputedIs
<1>4. CASE inst.op = "saddi"
  BY <1>1, <1>2, <1>4, ComputedIs DEF Accumulates
<1>5. CASE inst.op = "smuli"
  BY <1>1, <1>2, <1>5, ComputedIs DEF Accumulates
<1>6. CASE inst.op = "sadd"
  BY <1>1, <1>2, <1>6, ComputedIs DEF Accumulates
<1>7. CASE inst.op = "ssub"
  BY <1>1, <1>2, <1>7, ComputedIs DEF Accumulates
<1>8. CASE inst.op = "smul"
  BY <1>1, <1>2, <1>8, ComputedIs DEF Accumulates
<1>9. CASE inst.op = "sld"
  BY <1>1, <1>2, <1>9, ComputedIs
<1>10. CASE inst.op \notin {"sldi", "saddi", "smuli", "sadd", "ssub", "smul", "sld"}
  BY <1>10, ComputedIs DEF ScalarOp
<1> QED BY <1>3, <1>4, <1>5, <1>6, <1>7, <1>8, <1>9, <1>10

LEMMA NextRemainder ==
  ASSUME NEW n \in Nat, n >= 2, NEW i \in Nat
  PROVE  (i + 1) % n # i % n
<1> DEFINE q == i \div n
           m == i % n
<1>1. i = q * n + m /\ q \in Nat /\ m \in 0..(n - 1) /\ m = i % n
  BY SMT
<1> HIDE DEF q, m
<1>2. \A a, b \in Nat : a < n => (b * n + a) % n = a
  BY SMT
<1>3. CASE m + 1 < n
  <2>1. i + 1 = q * n + (m + 1) /\ m + 1 \in Nat
    BY <1>1, SMT
  <2>2. (i + 1) % n = m + 1
    BY <1>1, <1>2, <1>3, <2>1
  <2> QED BY <1>1, <2>2
<1>4. CASE m + 1 = n
  <2>1. i + 1 = (q + 1) * n + 0 /\ q + 1 \in Nat
    BY <1>1, <1>4, SMT
  <2>2. (i + 1) % n = 0
    BY <1>2, <2>1
  <2> QED BY <1>1, <1>4, <2>2
<1> QED BY <1>1, <1>3, <1>4

\* What the scalar unit has before it is another instruction than the one it had.
LEMMA ScalarIsNew ==
  ASSUME IInv, decode # NoPc, Inst(decode).op \in ScalarOp,
         scalar # NoExec => scalar.pc \in Nat /\ scalar.pc = decode - 1
  PROVE  ToScalar = ExecInfoOf(decode) /\ ScalarRuns
<1>1. decode \in Pc /\ decode \in Nat /\ Inst(decode) \in Instr /\ ExecInfoOf(decode).pc = decode
  BY ExecInfoOfType DEF IInv
<1>2. ToScalar = ExecInfoOf(decode) /\ ToScalar # NoExec
  BY <1>1, NoExecType DEF ToScalar, DecodeHas
<1>3. ASSUME scalar # NoExec PROVE ScalarInfo(ToScalar) # ScalarInfo(scalar)
  <2>1. scalar.pc \in Nat /\ scalar.pc + 1 = decode
    BY <1>1, <1>3
  <2>2. CodePc(decode) # CodePc(scalar.pc)
    <3>1. CASE Looping
      <4>1. inst_buffer_size \in Nat /\ inst_buffer_size >= 2
        BY <3>1, ProgramType DEF IInv
      <4>2. (scalar.pc + 1) % inst_buffer_size # scalar.pc % inst_buffer_size
        BY <2>1, <4>1, NextRemainder
      <4> QED BY <2>1, <3>1, <4>2 DEF CodePc
    <3>2. CASE ~Looping
      BY <2>1, <3>2 DEF CodePc
    <3> QED BY <3>1, <3>2
  <2> QED BY <1>1, <1>2, <2>2 DEF ScalarInfo
<1> QED BY <1>2, <1>3 DEF ScalarRuns

\* Whether the decoder keeps its instruction or not, the registers are those after it.
LEMMA RegistersNext ==
  ASSUME IInv, RegistersAre, PosEdge, decode # NoPc
  PROVE  Registers' = Executed(Before(decode), Inst(decode)).regs
<1> DEFINE inst == Inst(decode)
           m == Before(decode)
<1>1. inst \in Instr /\ ExecInfoOf(decode).pc = decode
  BY ExecInfoOfType DEF IInv
<1>2. /\ cur_write' = IF ScalarRuns THEN RegFileWrite(ToScalar) ELSE cur_write
      /\ Registers' = [Registers EXCEPT ![cur_write'.rd_addr] = cur_write'.rd_value]
      /\ cur_write' = cur_write => Registers' = Registers
  BY ReadNext DEF PosEdge, FrontEdge
<1>3. Executed(m, inst).regs = Computed(m.regs, inst)
  BY DEF Executed
<1>4. Registers \in [Register -> Int]
  BY RegistersType DEF IInv
<1>5. CASE inst.op \notin ScalarOp
  <2>1. Registers = m.regs
    BY <1>5 DEF RegistersAre
  <2>2. cur_write' = cur_write
    BY <1>2, <1>5 DEF ScalarRuns, ToScalar, DecodeHas
  <2>3. Computed(m.regs, inst) = m.regs
    BY <1>5, ComputedIs
  <2> QED BY <1>2, <1>3, <2>1, <2>2, <2>3
<1>6. CASE inst.op \in ScalarOp
  <2>1. ToScalar = ExecInfoOf(decode)
    BY <1>6 DEF ToScalar, DecodeHas
  <2>2. ScalarRuns => Registers' = Computed(Registers, inst)
    <3>1. PICK w : w = RegFileWrite(ExecInfoOf(decode))
      OBVIOUS
    <3>2. Computed(Registers, inst) = [Registers EXCEPT ![w.rd_addr] = w.rd_value]
      BY <1>6, <3>1, WriteIs
    <3> QED BY <1>2, <2>1, <3>1, <3>2
  <2>3. CASE Registers = m.regs /\ (scalar # NoExec => scalar.pc \in Nat /\ scalar.pc = decode - 1)
    BY <1>3, <1>6, <2>2, <2>3, ScalarIsNew
  <2>4. CASE ~Accumulates(inst) /\ m.regs \in [Register -> Int] /\ Registers = Executed(m, inst).regs
    <3>1. Computed(Registers, inst) = Registers
      BY <1>1, <1>3, <2>4, ComputedTwice
    <3> QED BY <1>2, <1>3, <2>2, <2>4, <3>1
  <2> QED BY <2>3, <2>4 DEF RegistersAre
<1> QED BY <1>5, <1>6

LEMMA RegistersStep ==
  ASSUME IInv, RegistersAre, NoneStalls, PosEdge, UNCHANGED configVars
  PROVE  RegistersAre'
<1>1. /\ pc' = NextPc(IsDispatchable)
      /\ decode' = Latched(IsDispatchable, Fetched, decode)
      /\ bitwidth' = Latched(IsDispatchable /\ DecodeHas({"setbw"}), Inst(decode).imm, bitwidth)
      /\ scalar' = ToScalar
      /\ cur_write' = IF ScalarRuns THEN RegFileWrite(ToScalar) ELSE cur_write
  BY DEF PosEdge, FrontEdge
<1>2. /\ Looping' = Looping /\ inst_buffer_size' = inst_buffer_size /\ Pc' = Pc
      /\ \A i : Inst(i)' = Inst(i)
      /\ \A i : Before(i)' = Before(i)
  BY Fixed DEF Before, Stream, configVars
<1>3. TypeOK /\ ProgramChosen /\ FrontTypes'
  BY FrontStep DEF IInv
<1>4. /\ pc \in Nat /\ NoPc \notin Nat /\ (decode # NoPc => decode \in Pc /\ decode \in Nat)
      /\ decode' # NoPc => decode' \in Pc
      /\ inst_buffer_size \in Nat
  BY <1>2, <1>3, PcsAre, NoExecType, ProgramType, ExecInfoOfType DEF FrontTypes
<1>5. (reg_data[last_write.rd_addr] = last_write.rd_value)'
  BY ReadNext
<1>6. ASSUME pc' = pc PROVE More' = More
  BY <1>2, <1>6 DEF More
<1>7. CASE decode = NoPc
  <2>1. cur_write' = cur_write /\ scalar' = NoExec /\ bitwidth' = bitwidth
    BY <1>1, <1>7 DEF ScalarRuns, ToScalar, DecodeHas, Latched
  <2>2. Registers' = Registers
    BY <2>1, ReadNext
  <2>3. CASE IsDispatchable /\ More
    <3>1. pc = 0 /\ decode' = 0 /\ pc' = 1 /\ decode' # NoPc
      BY <1>1, <1>4, <1>7, <2>3 DEF RegistersAre, NextPc, Latched, Fetched
    <3>2. Before(0) = Reset
      <4>1. 0 \in Pc
        BY <1>4, <3>1
      <4>2. Fetchable > 0
        BY <4>1, <1>3, ProgramType DEF Pc
      <4> QED BY <1>3, <4>2, StreamIs
    <3>3. Registers' = Before(0).regs /\ bitwidth' = Before(0).bytes /\ scalar' = NoExec
      BY <1>7, <2>1, <2>2, <3>1, <3>2 DEF RegistersAre, Reset
    <3> QED BY <1>2, <1>5, <3>1, <3>3 DEF RegistersAre, NoExec, NoPc
  <2>4. CASE ~(IsDispatchable /\ More)
    <3>1. pc' = pc /\ decode' = NoPc
      BY <1>1, <1>7, <2>4 DEF NextPc, Latched, Fetched
    <3> QED BY <1>5, <1>6, <1>7, <2>1, <2>2, <3>1 DEF RegistersAre, NoExec, NoPc, Reset
  <2> QED BY <2>3, <2>4
<1>8. CASE decode # NoPc
  <2> DEFINE inst == Inst(decode)
             m == Before(decode)
  <2>1. /\ pc = decode + 1 /\ bitwidth = m.bytes
        /\ Registers' = Executed(m, inst).regs
    BY <1>8, RegistersNext DEF RegistersAre
  <2>2. scalar' # NoExec => scalar'.pc = decode /\ inst.op \in ScalarOp
    BY <1>1, <1>3, ScalarType, ExecInfoOfType
  <2>3. CASE IsDispatchable /\ More
    <3>1. decode' = decode + 1 /\ pc' = decode' + 1 /\ decode' # NoPc
      BY <1>1, <1>4, <1>8, <2>1, <2>3 DEF NextPc, Latched, Fetched
    <3>2. Before(decode + 1) = Executed(m, inst)
      <4>1. decode \in Pc /\ decode + 1 \in Pc
        BY <1>4, <1>8, <3>1
      <4> QED BY <1>3, <4>1, StreamIs
    <3>3. bitwidth' = Executed(m, inst).bytes
      BY <1>1, <1>8, <2>1, <2>3 DEF Executed, Latched, DecodeHas
    <3>4. scalar' # NoExec => scalar'.pc \in Nat /\ scalar'.pc = decode' - 1
      BY <1>4, <1>8, <2>2, <3>1
    <3> QED BY <1>2, <1>5, <2>1, <3>1, <3>2, <3>3, <3>4 DEF RegistersAre, NoExec, NoPc
  <2>4. CASE IsDispatchable /\ ~More
    <3>1. decode' = NoPc /\ pc' = pc /\ pc # 0 /\ ~More'
      BY <1>1, <1>4, <1>6, <1>8, <2>1, <2>4 DEF NextPc, Latched, Fetched
    <3> QED BY <1>5, <3>1 DEF RegistersAre, NoExec, NoPc
  <2>5. CASE ~IsDispatchable
    <3>1. decode' = decode /\ pc' = pc /\ bitwidth' = bitwidth
      BY <1>1, <2>5 DEF NextPc, Latched
    <3>2. \/ /\ Registers' = m.regs
             /\ scalar' # NoExec => scalar'.pc \in Nat /\ scalar'.pc = decode - 1
          \/ /\ inst.op \in ScalarOp /\ ~Accumulates(inst)
             /\ m.regs \in [Register -> Int]
             /\ Registers' = Executed(m, inst).regs
      <4>1. CASE inst.op \notin ScalarOp
        <5>1. Computed(m.regs, inst) = m.regs
          BY <4>1, ComputedIs
        <5> QED BY <2>1, <2>2, <4>1, <5>1 DEF Executed
      <4>2. CASE inst.op \in ScalarOp
        <5>1. ~Accumulates(inst)
          BY <1>8, <2>5 DEF NoneStalls
        <5>2. m.regs \in [Register -> Int]
          BY <1>3, <1>8, RegistersType DEF RegistersAre
        <5> QED BY <2>1, <4>2, <5>1, <5>2
      <4> QED BY <4>1, <4>2
    <3> QED BY <1>2, <1>5, <1>8, <2>1, <3>1, <3>2 DEF RegistersAre, NoExec, NoPc
  <2> QED BY <2>3, <2>4, <2>5
<1> QED BY <1>7, <1>8

LEMMA OperandsStep ==
  ASSUME IInv, OperandsInv, NoneStalls, PosEdge, UNCHANGED configVars
  PROVE  OperandsInv'
<1>1. RegistersAre'
  BY RegistersStep DEF OperandsInv
<1>2. \A i : SequentialExec(i)' = SequentialExec(i)
  BY Fixed DEF SequentialExec, Stream, configVars
<1>3. Values(ring_buffer') \subseteq {dispatcher_reg} \cup Values(ring_buffer)
  BY RobEffect, IssuedIs DEF NewlyIssued
<1>4. dispatcher_reg' = IF IsDispatchable THEN ToDispatcher ELSE dispatcher_reg
  BY DEF PosEdge, BackEdge, Latched
<1>5. ASSUME ToDispatcher # NoExec PROVE ToDispatcher = SequentialExec(ToDispatcher.pc)
  <2> DEFINE inst == Inst(decode)
  <2>1. /\ decode \in Pc /\ inst \in Instr
        /\ ToDispatcher = ExecInfoOf(decode) /\ ToDispatcher.pc = decode
        /\ decode # NoPc /\ inst.op \notin ScalarOp
    BY <1>5, DispatchedType, ExecInfoOfType DEF IInv
  <2>2. Registers = Before(decode).regs /\ bitwidth = Before(decode).bytes
    BY <2>1 DEF OperandsInv, RegistersAre
  <2>3. SequentialExec(decode) = InfoOf(decode, Before(decode), inst)
    BY <2>1, SequentialIs DEF IInv
  <2>4. /\ Registers[inst.rs1] = Read(inst.rs1) /\ Registers[inst.rs2] = Read(inst.rs2)
        /\ Registers[inst.rd] = Read(inst.rd)
    BY <2>1, RegistersType DEF IInv, Instr
  <2>5. InfoOf(decode, Before(decode), inst) = ExecInfoOf(decode)
    BY <2>2, <2>4 DEF InfoOf, ExecInfoOf, DoubleWord
  <2> QED BY <2>1, <2>3, <2>5
<1>6. \A e \in {dispatcher_reg'} \cup Values(ring_buffer') : e # NoExec => e = SequentialExec(e.pc)
  BY <1>3, <1>4, <1>5 DEF OperandsInv
<1> QED BY <1>1, <1>2, <1>6 DEF OperandsInv, NoExec, NoPc

LEMMA OperandsInit == Init => OperandsInv
<1> SUFFICES ASSUME Init PROVE OperandsInv
  OBVIOUS
<1> USE DEF Init, FrontInit, BackInit
<1>1. Registers = Reset.regs
  BY DEF Registers, Read, Reset
<1>2. 0 \in Register
  BY FrontEndAssumption
<1>3. Values(ring_buffer) = {}
  BY DEF Values, NewBuffer
<1> QED BY <1>1, <1>2, <1>3 DEF OperandsInv, RegistersAre

LEMMA OperandsBetween ==
  ASSUME IInv, OperandsInv, [Next]_vars, ~(PosEdge /\ UNCHANGED configVars)
  PROVE  OperandsInv'
<1>1. UNCHANGED <<configVars, frontVars, dispatcher_reg, ring_buffer>>
  BY BetweenEdges
<1>2. /\ Looping' = Looping /\ inst_buffer_size' = inst_buffer_size
      /\ \A i : Inst(i)' = Inst(i)
      /\ Stream' = Stream /\ More' = More
  BY <1>1, Fixed DEF Stream, More, configVars, frontVars
<1>3. /\ \A i : Before(i)' = Before(i) /\ SequentialExec(i)' = SequentialExec(i)
      /\ Registers' = Registers
  BY <1>1, <1>2 DEF Before, SequentialExec, Registers, Read, frontVars
<1>4. RegistersAre'
  BY <1>1, <1>2, <1>3 DEF OperandsInv, RegistersAre, frontVars, NoExec, NoPc, Reset
<1> QED BY <1>1, <1>3, <1>4 DEF OperandsInv, NoExec, NoPc

LEMMA OperandsAlways == Spec /\ []NoneStalls => []OperandsInv
<1>1. IInv /\ OperandsInv /\ NoneStalls /\ [Next]_vars => OperandsInv'
  BY OperandsStep, OperandsBetween
<1> QED BY <1>1, OperandsInit, Invariant, PTL DEF Spec

\* Where everything before is passed over, the dispatcher is empty and the buffer too.
LEMMA NoneAccumulates ==
  ASSUME AccumulatesFirst, IInv, RoundsInv PROVE NoneStalls
<1> SUFFICES ASSUME decode # NoPc, Accumulates(Inst(decode)) PROVE IsDispatchable
  BY DEF NoneStalls
<1>1. ASSUME NEW e \in Values(ring_buffer) \cup ({dispatcher_reg} \ {NoExec}) PROVE FALSE
  <2>1. e.pc \in Pc /\ decode \in Pc /\ Inst(e.pc).op \notin ScalarOp \cup {"setbw"}
    BY ExecInfoOfType DEF IInv, RoundsInv, OnlyExecuted, ExecPc
  <2>2. e.pc < decode
    BY DEF IInv, InOrder
  <2>3. /\ inst_buffer_size \in Nat
        /\ CodePc(e.pc) \in 0..(inst_buffer_size - 1)
        /\ CodePc(decode) \in 0..(inst_buffer_size - 1)
    BY <2>1, ProgramType DEF IInv
  <2>4. PICK i, j \in DOMAIN prog : /\ i = CodePc(decode) + 1 /\ Inst(decode) = prog[i]
                                   /\ j = CodePc(e.pc) + 1 /\ Inst(e.pc) = prog[j]
    <3>1. prog \in Seq(Instr) /\ Len(prog) = inst_buffer_size
      BY DEF IInv, TypeOK, inst_buffer_size
    <3>2. CodePc(decode) + 1 \in DOMAIN prog /\ CodePc(e.pc) + 1 \in DOMAIN prog
      BY <2>3, <3>1, LenProperties
    <3> QED BY <3>2 DEF Inst
  <2>5. CASE Looping
    BY <2>1, <2>4, <2>5 DEF AccumulatesFirst, IInv, ProgramChosen
  <2>6. CASE ~Looping
    <3>1. j < i
      <4>1. CodePc(decode) = decode /\ CodePc(e.pc) = e.pc
        BY <2>6 DEF CodePc
      <4> QED BY <2>2, <2>3, <2>4, <4>1
    <3>2. prog \in Programs
      BY <2>6 DEF IInv, ProgramChosen
    <3> QED BY <2>1, <2>4, <3>1, <3>2 DEF AccumulatesFirst
  <2> QED BY <2>5, <2>6
<1>2. ring_buffer.size = 0
  <2> SUFFICES ASSUME ring_buffer.size # 0 PROVE FALSE
    OBVIOUS
  <2>1. 0 \in 0..(ring_buffer.size - 1)
    BY PcsAre
  <2>2. Entry(ring_buffer, 0).value \in Values(ring_buffer)
    BY <2>1 DEF Values
  <2> QED BY <1>1, <2>2
<1>3. dispatcher_reg = NoExec
  BY <1>1
<1> QED BY <1>2, <1>3, CapacityAssumption DEF IsDispatchable, RobReady, Full

\* Every instruction is issued with the operands and the byte width that the program
\* read in order gives it, through any stalls and in any order of completion: in an
\* execution in which no instruction that accumulates is in the decoder of a
\* stalled core,
THEOREM OperandsInOrder == Spec /\ []NoneStalls => []OperandsAreSequential
<1>1. IInv /\ OperandsInv => OperandsAreSequential
  BY RingIs DEF OperandsInv, OperandsAreSequential
<1> QED BY <1>1, OperandsAlways, Invariant, PTL

\* and so in every execution of programs in which none comes after an instruction
\* that can stall.
THEOREM OperandsOfPrograms ==
  ASSUME AccumulatesFirst PROVE Spec => []OperandsAreSequential
<1>1. IInv /\ RoundsInv => NoneStalls
  BY NoneAccumulates
<1> QED BY <1>1, OperandsInOrder, Invariant, RoundsAlways, PTL
-----------------------------------------------------------------------------
(* The pipeline implements ProgramOrder *)

\* The instructions of a buffer, and those of them that are completed.
WindowOf(b) == [k \in 1..b.size |-> Entry(b, k - 1).value.pc + 1]
DoneOf(b) ==
  {Entry(b, k).value.pc + 1 : k \in {j \in 0..(b.size - 1) : ~Entry(b, j).valid}}

LEMMA WindowIs ==
  ASSUME NEW b, Ring(b)
  PROVE  /\ WindowOf(b) \in Seq(Int) /\ Len(WindowOf(b)) = b.size
         /\ Order!Members(WindowOf(b)) = {w.pc + 1 : w \in Values(b)}
         /\ DoneOf(b) = {w.pc + 1 : w \in Values(b) \ ValidEntries(b)}
         /\ \A v, w \in Values(b) : v.pc = w.pc => v = w
         /\ \A w \in Values(b) : w.pc \in Int
         /\ \A i \in 0..(b.size - 1) : Entry(b, i).valid <=> Entry(b, i).value \in ValidEntries(b)
<1>1. /\ b.size \in Nat /\ Values(b) \subseteq ExecInfo
      /\ \A w : w \in ValidEntries(b) <=>
            \E i \in 0..(b.size - 1) : Entry(b, i).valid /\ Entry(b, i).value = w
  BY ValidEntriesAre DEF Ring
<1>2. \A w \in Values(b) : w.pc \in Int
  BY <1>1, ExecInfoPc
<1>3. \A i \in 0..(b.size - 1) : Entry(b, i).value \in Values(b)
  BY DEF Values
<1>4. \A i, j \in 0..(b.size - 1) : Entry(b, i).value.pc = Entry(b, j).value.pc => i = j
  <2> SUFFICES ASSUME NEW i \in 0..(b.size - 1), NEW j \in 0..(b.size - 1), i < j
               PROVE  Entry(b, i).value.pc # Entry(b, j).value.pc
    BY <1>1
  <2>1. Entry(b, i).value.pc < Entry(b, j).value.pc
    BY DEF Ring, Sorted
  <2> QED BY <1>2, <1>3, <2>1
<1>5. \A i \in 0..(b.size - 1) : Entry(b, i).valid <=> Entry(b, i).value \in ValidEntries(b)
  BY <1>1, <1>4
<1>6. \A v, w \in Values(b) : v.pc = w.pc => v = w
  BY <1>4 DEF Values
<1>7. \A k \in 1..b.size : k - 1 \in 0..(b.size - 1)
  BY <1>1
<1>8. WindowOf(b) \in Seq(Int) /\ Len(WindowOf(b)) = b.size /\ DOMAIN WindowOf(b) = 1..b.size
  <2>1. \A k \in 1..b.size : Entry(b, k - 1).value.pc + 1 \in Int
    BY <1>2, <1>3, <1>7
  <2>2. WindowOf(b) \in [1..b.size -> Int]
    BY <2>1 DEF WindowOf
  <2>3. WindowOf(b) \in Seq(Int)
    BY <1>1, <2>2, SeqDef
  <2> QED BY <1>1, <2>2, <2>3
<1>9. Order!Members(WindowOf(b)) = {w.pc + 1 : w \in Values(b)}
  <2>1. \A i \in 0..(b.size - 1) : i + 1 \in 1..b.size /\ WindowOf(b)[i + 1] = Entry(b, i).value.pc + 1
    BY <1>1 DEF WindowOf
  <2>2. \A k \in 1..b.size : WindowOf(b)[k] = Entry(b, k - 1).value.pc + 1
    BY DEF WindowOf
  <2>3. ASSUME NEW x \in Order!Members(WindowOf(b)) PROVE \E w \in Values(b) : x = w.pc + 1
    <3>1. PICK k \in 1..b.size : x = WindowOf(b)[k]
      BY <1>8 DEF Order!Members
    <3> QED BY <1>3, <1>7, <2>2, <3>1
  <2>4. ASSUME NEW w \in Values(b) PROVE w.pc + 1 \in Order!Members(WindowOf(b))
    <3>1. PICK i \in 0..(b.size - 1) : w = Entry(b, i).value
      BY DEF Values
    <3> QED BY <1>8, <2>1, <3>1 DEF Order!Members
  <2> QED BY <2>3, <2>4
<1>10. DoneOf(b) = {w.pc + 1 : w \in Values(b) \ ValidEntries(b)}
  BY <1>3, <1>5 DEF DoneOf, Values
<1> QED BY <1>2, <1>5, <1>6, <1>8, <1>9, <1>10

LEMMA RetiredIs ==
  ASSUME NEW s \in Seq(Int), NEW D, NEW n \in 0..Len(s),
         \A i \in 1..n : s[i] \in D, n = Len(s) \/ s[n + 1] \notin D
  PROVE  Order!Retired(s, D) = SubSeq(s, n + 1, Len(s))
<1> DEFINE Is(k) == (\A i \in 1..k : s[i] \in D) /\ (k = Len(s) \/ s[k + 1] \notin D)
<1>1. Len(s) \in Nat
  BY LenProperties
<1>2. ASSUME NEW k \in 0..Len(s), Is(k) PROVE k = n
  <2>1. ~(k < n)
    <3> SUFFICES ASSUME k < n PROVE FALSE
      OBVIOUS
    <3>1. k + 1 \in 1..n /\ k # Len(s)
      BY <1>1
    <3> QED BY <1>2, <3>1
  <2>2. ~(n < k)
    <3> SUFFICES ASSUME n < k PROVE FALSE
      OBVIOUS
    <3>1. n + 1 \in 1..k /\ n # Len(s)
      BY <1>1
    <3> QED BY <1>2, <3>1
  <2> QED BY <2>1, <2>2
<1>3. n = CHOOSE k \in 0..Len(s) : Is(k)
  <2>1. Is(n)
    OBVIOUS
  <2> HIDE DEF Is
  <2> QED BY <1>2, <2>1
<1> QED BY <1>3 DEF Order!Retired

\* What an edge adds to ProgramOrder's done, and to its window.
NewlyCommitted == {c.pc + 1 : c \in AllCommitted \ {NoExec}}
IssuedIndex == IF Issued = NoExec THEN <<>> ELSE <<Issued.pc + 1>>

\* The window of ProgramOrder grows by what is issued,
LEMMA PushedWindow ==
  ASSUME IInv
  PROVE  WindowOf(Pushed) = WindowOf(ring_buffer) \o IssuedIndex
<1>1. /\ WindowOf(ring_buffer) \in Seq(Int) /\ Len(WindowOf(ring_buffer)) = ring_buffer.size
      /\ ring_buffer.size \in Nat
  BY RingIs, WindowIs, PcsAre
<1>2. CASE Issued = NoExec
  BY <1>1, <1>2, ConcatEmptySeq DEF Pushed, IssuedIndex
<1>3. CASE Issued # NoExec
  <2>1. PICK b : b = Pushed
    OBVIOUS
  <2>2. /\ b.size = ring_buffer.size + 1
        /\ Entry(b, ring_buffer.size) = [value |-> Issued, valid |-> TRUE]
        /\ \A i \in 0..(ring_buffer.size - 1) : Entry(b, i) = Entry(ring_buffer, i)
    <3>1. b = Push(ring_buffer, Issued) /\ Issued \in ExecInfo /\ ~Full(ring_buffer)
      BY <1>3, <2>1, IssuedIs DEF Pushed
    <3> QED BY <3>1, RingIs, PushEffect DEF Ring
  <2>3. Ring(b)
    BY <2>1, PushedIs
  <2>4. WindowOf(b) \in Seq(Int) /\ Len(WindowOf(b)) = ring_buffer.size + 1
    BY <2>2, <2>3, WindowIs
  <2>5. IssuedIndex \in Seq(Int) /\ Len(IssuedIndex) = 1 /\ IssuedIndex[1] = Issued.pc + 1
    <3>1. Issued.pc + 1 \in Int
      BY IssuedIs, ExecInfoPc
    <3> QED BY <1>3, <3>1 DEF IssuedIndex
  <2> DEFINE s == WindowOf(ring_buffer) \o IssuedIndex
  <2>6. /\ s \in Seq(Int) /\ Len(s) = ring_buffer.size + 1
        /\ \A k \in 1..(ring_buffer.size + 1) :
             s[k] = IF k <= ring_buffer.size THEN WindowOf(ring_buffer)[k]
                                             ELSE IssuedIndex[k - ring_buffer.size]
    <3>1. PICK w : w = WindowOf(ring_buffer)
      OBVIOUS
    <3>2. PICK t : t = IssuedIndex
      OBVIOUS
    <3>3. w \in Seq(Int) /\ t \in Seq(Int) /\ Len(w) = ring_buffer.size /\ Len(t) = 1
      BY <1>1, <2>5, <3>1, <3>2
    <3>4. /\ w \o t \in Seq(Int) /\ Len(w \o t) = Len(w) + Len(t)
          /\ \A k \in 1..(Len(w) + Len(t)) :
               (w \o t)[k] = IF k <= Len(w) THEN w[k] ELSE t[k - Len(w)]
      BY <3>3, ConcatProperties
    <3> QED BY <3>1, <3>2, <3>3, <3>4
  <2> HIDE DEF s
  <2>7. ASSUME NEW k \in 1..(ring_buffer.size + 1) PROVE WindowOf(b)[k] = s[k]
    <3>1. WindowOf(b)[k] = Entry(b, k - 1).value.pc + 1
      BY <2>2 DEF WindowOf
    <3>2. CASE k <= ring_buffer.size
      <4>1. k \in 1..ring_buffer.size /\ k - 1 \in 0..(ring_buffer.size - 1)
        BY <1>1, <3>2
      <4>2. WindowOf(ring_buffer)[k] = Entry(ring_buffer, k - 1).value.pc + 1
        BY <4>1 DEF WindowOf
      <4> QED BY <2>2, <2>6, <3>1, <3>2, <4>1, <4>2
    <3>3. CASE k = ring_buffer.size + 1
      <4>1. k - 1 = ring_buffer.size /\ k - ring_buffer.size = 1 /\ ~(k <= ring_buffer.size)
        BY <1>1, <3>3
      <4> QED BY <2>2, <2>5, <2>6, <3>1, <4>1
    <3> QED BY <1>1, <3>2, <3>3
  <2>8. WindowOf(b) = s
    BY <1>1, <2>4, <2>6, <2>7, SeqEqual
  <2> QED BY <2>1, <2>8 DEF s
<1> QED BY <1>2, <1>3

\* What has completed by the end of the edge.
LEMMA CompletedIs ==
  ASSUME IInv, PosEdge
  PROVE  /\ NewlyCommitted \subseteq Order!Members(WindowOf(ring_buffer)) \ DoneOf(ring_buffer)
         /\ \A w \in Values(Pushed) :
              w.pc + 1 \in DoneOf(ring_buffer) \cup NewlyCommitted <=>
                w \notin ValidEntries(ring_buffer')
<1>1. /\ Order!Members(WindowOf(ring_buffer)) = {w.pc + 1 : w \in Values(ring_buffer)}
      /\ DoneOf(ring_buffer) = {w.pc + 1 : w \in Values(ring_buffer) \ ValidEntries(ring_buffer)}
      /\ ValidEntries(ring_buffer) \subseteq Values(ring_buffer)
  BY RingIs, WindowIs
<1>2. PICK b : b = Pushed
  OBVIOUS
<1>3. /\ Ring(b) /\ Values(b) = Values(ring_buffer) \cup NewlyIssued
      /\ ValidEntries(b) = ValidEntries(ring_buffer) \cup NewlyIssued
  BY <1>2, PushedIs
<1>4. \A v, w \in Values(b) : v.pc \in Int /\ w.pc \in Int /\ (v.pc + 1 = w.pc + 1 => v = w)
  BY <1>3, WindowIs
<1>5. AllCommitted \ {NoExec} \subseteq ValidEntries(ring_buffer)
  BY CommittedIsValid DEF AllCommitted
<1>6. ValidEntries(ring_buffer') = ValidEntries(b) \ AllCommitted
  BY <1>3, RobEffect
<1>7. \A w \in Values(b) : w # NoExec
  BY <1>2, PushedIs
<1>8. NewlyCommitted \subseteq Order!Members(WindowOf(ring_buffer)) \ DoneOf(ring_buffer)
  BY <1>1, <1>3, <1>4, <1>5 DEF NewlyCommitted
<1>9. ASSUME NEW w \in Values(b), w \notin ValidEntries(ring_buffer')
      PROVE  w.pc + 1 \in DoneOf(ring_buffer) \cup NewlyCommitted
  <2>1. w \notin ValidEntries(b) \/ w \in AllCommitted \ {NoExec}
    BY <1>6, <1>7, <1>9
  <2>2. w \notin ValidEntries(b) => w \in Values(ring_buffer) \ ValidEntries(ring_buffer)
    BY <1>3, <1>9
  <2> QED BY <1>1, <2>1, <2>2 DEF NewlyCommitted
<1>10. ASSUME NEW w \in ValidEntries(ring_buffer'), w \in Values(b),
              w.pc + 1 \in DoneOf(ring_buffer) \cup NewlyCommitted
       PROVE  FALSE
  <2>1. w \in ValidEntries(b) /\ w \notin AllCommitted
    BY <1>6
  <2>2. CASE w.pc + 1 \in DoneOf(ring_buffer)
    <3>1. PICK v \in Values(ring_buffer) \ ValidEntries(ring_buffer) : v.pc + 1 = w.pc + 1
      BY <1>1, <2>2
    <3>2. v = w
      BY <1>3, <1>4, <1>10, <3>1
    <3> QED BY <1>3, <2>1, <3>1, <3>2, IssuedIs DEF NewlyIssued
  <2>3. CASE w.pc + 1 \in NewlyCommitted
    <3>1. PICK c \in AllCommitted \ {NoExec} : c.pc + 1 = w.pc + 1
      BY <2>3 DEF NewlyCommitted
    <3>2. c = w
      BY <1>1, <1>3, <1>4, <1>5, <1>10, <3>1
    <3> QED BY <2>1, <3>1, <3>2
  <2> QED BY <1>10, <2>2, <2>3
<1> QED BY <1>2, <1>8, <1>9, <1>10

\* and shrinks by the completed instructions it then starts with.
LEMMA WindowStep ==
  ASSUME IInv, HeadIsValid(ring_buffer), PosEdge,
         NEW D, D = DoneOf(ring_buffer) \cup NewlyCommitted
  PROVE  /\ WindowOf(ring_buffer') =
              Order!Retired(WindowOf(ring_buffer) \o IssuedIndex, D)
         /\ DoneOf(ring_buffer') = D \cap Order!Members(WindowOf(ring_buffer'))
<1>1. PICK b : b = Pushed
  OBVIOUS
<1>2. PICK r : r = ring_buffer'
  OBVIOUS
<1>3. /\ Ring(b) /\ Ring(r) /\ Keeps(b, r) /\ HeadIsValid(r)
  BY <1>1, <1>2, PushedIs, RobEffect
<1>4. b.size \in Nat /\ r.size \in Nat /\ r.size <= b.size
  BY <1>3, ValidEntriesAre DEF Ring, Keeps
<1> DEFINE n == b.size - r.size
           s == WindowOf(b)
<1>5. s \in Seq(Int) /\ Len(s) = b.size /\ \A k \in 1..b.size : s[k] = Entry(b, k - 1).value.pc + 1
  BY <1>3, WindowIs DEF WindowOf
<1>6. \A i \in 0..(r.size - 1) : i + n \in 0..(b.size - 1) /\ Entry(r, i).value = Entry(b, i + n).value
  BY <1>3, <1>4 DEF Keeps
<1>7. \A w \in Values(b) : w.pc + 1 \in D <=> w \notin ValidEntries(r)
  BY <1>1, <1>2, CompletedIs
<1>8. \A i, j \in 0..(b.size - 1) : Entry(b, i).value = Entry(b, j).value => i = j
  <2> SUFFICES ASSUME NEW i \in 0..(b.size - 1), NEW j \in 0..(b.size - 1), i < j
               PROVE  Entry(b, i).value # Entry(b, j).value
    BY <1>4
  <2>1. Entry(b, i).value.pc < Entry(b, j).value.pc
    BY <1>3 DEF Ring, Sorted
  <2>2. Entry(b, i).value.pc \in Int
    BY <1>3, WindowIs DEF Values
  <2> QED BY <2>1, <2>2
<1>9. ASSUME NEW i \in 1..n PROVE s[i] \in D
  <2>1. i \in 1..b.size /\ i - 1 \in 0..(b.size - 1) /\ i - 1 < n
    BY <1>4
  <2>2. Entry(b, i - 1).value \in Values(b)
    BY <2>1 DEF Values
  <2>3. Entry(b, i - 1).value \notin Values(r)
    <3> SUFFICES ASSUME Entry(b, i - 1).value \in Values(r) PROVE FALSE
      OBVIOUS
    <3>1. PICK j \in 0..(r.size - 1) : Entry(r, j).value = Entry(b, i - 1).value
      BY DEF Values
    <3>2. i - 1 = j + n
      BY <1>6, <1>8, <2>1, <3>1
    <3> QED BY <1>4, <2>1, <3>2
  <2>4. ValidEntries(r) \subseteq Values(r)
    BY <1>3, ValidEntriesAre DEF Ring
  <2> QED BY <1>5, <1>7, <2>1, <2>2, <2>3, <2>4
<1>10. n = Len(s) \/ s[n + 1] \notin D
  <2> SUFFICES ASSUME n # Len(s) PROVE s[n + 1] \notin D
    OBVIOUS
  <2>1. r.size > 0 /\ 0 \in 0..(r.size - 1) /\ 0 + n = n /\ n \in 0..(b.size - 1) /\ n + 1 \in 1..b.size
    BY <1>4, <1>5
  <2>2. Entry(r, 0).value = Entry(b, n).value /\ Entry(r, 0).value \in ValidEntries(r)
    <3>1. Entry(r, 0).valid
      BY <1>3, <2>1 DEF HeadIsValid
    <3> QED BY <1>3, <1>6, <2>1, <3>1, WindowIs
  <2>3. Entry(b, n).value \in Values(b)
    BY <2>1 DEF Values
  <2>4. (n + 1) - 1 = n
    BY <1>4
  <2>5. s[n + 1] = Entry(b, n).value.pc + 1
    BY <1>5, <2>1, <2>4
  <2> QED BY <1>7, <2>2, <2>3, <2>5
<1>11. n \in 0..Len(s) /\ Len(s) \in Nat
  BY <1>4, <1>5
<1>12. Order!Retired(s, D) = SubSeq(s, n + 1, Len(s))
  <2> HIDE DEF n, s
  <2> QED BY <1>5, <1>9, <1>10, <1>11, RetiredIs
<1>13. WindowOf(r) = SubSeq(s, n + 1, Len(s))
  <2> DEFINE t == SubSeq(s, n + 1, Len(s))
  <2>1. /\ t \in Seq(Int)
        /\ Len(t) = IF n + 1 <= Len(s) THEN Len(s) - (n + 1) + 1 ELSE 0
        /\ \A i \in 1..(Len(s) - (n + 1) + 1) : t[i] = s[(n + 1) + i - 1]
    <3>1. \A i \in (n + 1)..Len(s) : s[i] \in Int
      BY <1>4, <1>5, ElementOfSeq
    <3>2. n + 1 \in Int /\ Len(s) \in Int
      BY <1>11
    <3> HIDE DEF n, s
    <3> QED BY <3>1, <3>2, SubSeqProperties
  <2>2. Len(t) = r.size /\ \A i \in 1..r.size : t[i] = s[n + i]
    <3>1. Len(s) - (n + 1) + 1 = r.size /\ (n + 1 <= Len(s) <=> r.size > 0)
      BY <1>4, <1>5
    <3>2. \A i \in 1..r.size : (n + 1) + i - 1 = n + i
      BY <1>4
    <3>3. n \in Nat
      BY <1>4
    <3> HIDE DEF t, s, n
    <3>4. Len(t) = r.size
      BY <1>4, <2>1, <3>1
    <3>5. ASSUME NEW i \in 1..r.size PROVE t[i] = s[n + i]
      <4>1. t[i] = s[(n + 1) + i - 1]
        BY <2>1, <3>1
      <4> QED BY <3>2, <4>1
    <3> QED BY <3>4, <3>5
  <2>3. WindowOf(r) \in Seq(Int) /\ Len(WindowOf(r)) = r.size
    BY <1>3, WindowIs
  <2>4. ASSUME NEW i \in 1..r.size PROVE WindowOf(r)[i] = t[i]
    <3>1. i - 1 \in 0..(r.size - 1) /\ n + i \in 1..b.size /\ (i - 1) + n = (n + i) - 1
      BY <1>4
    <3>2. s[n + i] = Entry(b, (n + i) - 1).value.pc + 1
      BY <1>5, <3>1
    <3>3. WindowOf(r)[i] = Entry(r, i - 1).value.pc + 1
      BY DEF WindowOf
    <3>4. Entry(r, i - 1).value = Entry(b, (n + i) - 1).value
      BY <1>6, <3>1
    <3> QED BY <2>2, <3>2, <3>3, <3>4
  <2> HIDE DEF t
  <2>5. WindowOf(r) = t
    BY <2>1, <2>2, <2>3, <2>4, SeqEqual
  <2> QED BY <2>5 DEF t
<1>14. WindowOf(r) = Order!Retired(WindowOf(ring_buffer) \o IssuedIndex, D)
  BY <1>1, <1>12, <1>13, PushedWindow
<1>15. DoneOf(r) = D \cap Order!Members(WindowOf(r))
  <2>1. /\ Order!Members(WindowOf(r)) = {w.pc + 1 : w \in Values(r)}
        /\ DoneOf(r) = {w.pc + 1 : w \in Values(r) \ ValidEntries(r)}
    BY <1>3, WindowIs
  <2>2. Values(r) \subseteq Values(b)
    BY <1>6 DEF Values
  <2> QED BY <1>7, <2>1, <2>2
<1> QED BY <1>2, <1>14, <1>15

\* The instruction that follows the dispatcher's, in the decoder or still to be fetched.
Decoding == IF decode # NoPc THEN decode ELSE pc
Adjacent == dispatcher_reg # NoExec => Decoding = dispatcher_reg.pc + 1

LEMMA MovesOn ==
  ASSUME IInv, RegistersAre, Adjacent, PosEdge, UNCHANGED configVars, pc' \in 0..Fetchable
  PROVE  /\ Adjacent'
         /\ NextToIssue \in Nat /\ NextToIssue' \in NextToIssue..Fetchable
         /\ Issued # NoExec => Issued.pc = NextToIssue /\ NextToIssue < NextToIssue'
         /\ \A i \in Int :
              /\ NextToIssue <= i /\ (Issued # NoExec => NextToIssue < i)
              /\ i < NextToIssue'
              => i \in Pc \ ExecPc
<1>0. Fetchable \in Nat
  BY ProgramType DEF IInv
<1>1. /\ pc \in Nat /\ pc <= Fetchable /\ (decode # NoPc => decode \in Nat /\ decode \in Pc)
      /\ dispatcher_reg # NoExec => dispatcher_reg.pc \in Nat
  BY <1>0, PcsAre DEF IInv, TypeOK
<1>2. decode # NoPc => pc = decode + 1
  BY DEF RegistersAre
<1>3. NextToIssue = IF dispatcher_reg # NoExec THEN dispatcher_reg.pc ELSE Decoding
  BY DEF NextToIssue, Decoding
<1>4. NextToIssue' = IF dispatcher_reg' # NoExec THEN dispatcher_reg'.pc ELSE Decoding'
  BY DEF NextToIssue, Decoding, NoExec, NoPc
<1>5. /\ FrontEdge(IsDispatchable)
      /\ dispatcher_reg' = Latched(IsDispatchable, ToDispatcher, dispatcher_reg)
  BY DEF PosEdge, BackEdge
<1>6. Decoding \in Nat /\ Decoding <= pc
  BY <1>1, <1>2 DEF Decoding
<1>7. CASE ~IsDispatchable
  <2>1. pc' = pc /\ decode' = decode /\ dispatcher_reg' = dispatcher_reg
    BY <1>5, <1>7 DEF FrontEdge, NextPc, Latched
  <2>2. Decoding' = Decoding /\ NextToIssue' = NextToIssue
    BY <2>1, <1>3, <1>4 DEF Decoding, NoPc
  <2>3. Issued = NoExec
    BY <1>7 DEF Issued
  <2>4. NextToIssue \in Nat /\ NextToIssue <= Fetchable
    BY <1>0, <1>1, <1>3, <1>6 DEF Adjacent
  <2>5. Adjacent'
    BY <2>1, <2>2 DEF Adjacent, NoExec, NoPc
  <2> QED BY <1>0, <2>2, <2>3, <2>4, <2>5
<1>8. CASE IsDispatchable
  <2>1. Issued = dispatcher_reg
    BY <1>8 DEF Issued
  <2>2. NextToIssue \in Nat /\ (Issued = NoExec => NextToIssue = Decoding)
        /\ (Issued # NoExec => NextToIssue = Issued.pc /\ Decoding = Issued.pc + 1)
    BY <1>1, <1>3, <1>6, <2>1 DEF Adjacent
  <2>3. Decoding' = pc /\ dispatcher_reg' = ToDispatcher
    <3>1. /\ pc' = IF More THEN pc + 1 ELSE pc
          /\ decode' = IF More THEN pc ELSE NoPc
          /\ dispatcher_reg' = ToDispatcher
      BY <1>5, <1>8 DEF FrontEdge, NextPc, Latched, Fetched
    <3>2. pc # NoPc
      BY <1>1, NoExecType
    <3> QED BY <3>1, <3>2 DEF Decoding, NoPc
  <2>4. CASE ToDispatcher # NoExec
    <3>1. decode # NoPc /\ ToDispatcher.pc = decode
      BY <2>4, DispatchedType, ExecInfoOfType DEF IInv
    <3>2. Decoding = decode
      BY <3>1 DEF Decoding
    <3>3. NextToIssue' = decode
      BY <1>4, <2>3, <2>4, <3>1 DEF NoExec, NoPc
    <3>4. Adjacent'
      BY <1>2, <2>3, <3>1 DEF Adjacent
    <3> QED BY <1>0, <1>1, <1>2, <2>2, <3>1, <3>2, <3>3, <3>4
  <2>5. CASE ToDispatcher = NoExec
    <3>1. NextToIssue' = pc
      BY <1>4, <2>3, <2>5 DEF NoExec, NoPc
    <3>2. Adjacent'
      BY <2>3, <2>5 DEF Adjacent, NoExec, NoPc
    <3>3. decode # NoPc => decode \in Pc \ ExecPc
      <4> SUFFICES ASSUME decode # NoPc, decode \in ExecPc PROVE FALSE
        BY <1>1
      <4>1. decode \in Pc /\ Inst(decode) \in Instr /\ Inst(decode).op \notin ScalarOp \cup {"setbw"}
        BY ExecInfoOfType DEF IInv, ExecPc
      <4>2. ToDispatcher = ExecInfoOf(decode)
        BY <4>1 DEF ToDispatcher, DecodeHas, Instr
      <4> QED BY <2>5, <4>2 DEF ExecInfoOf, NoExec
    <3>4. decode # NoPc => Decoding = decode
      BY DEF Decoding
    <3>5. decode = NoPc => Decoding = pc
      BY DEF Decoding
    <3>6. \A i \in Int : Decoding <= i /\ i < pc => i \in Pc \ ExecPc
      BY <1>1, <1>2, <3>3, <3>4, <3>5
    <3> QED BY <1>0, <1>1, <1>6, <2>2, <3>1, <3>2, <3>6
  <2> QED BY <2>4, <2>5
<1> QED BY <1>7, <1>8

\* The dispatcher may issue what it issues.
LEMMA IssueIsAllowed ==
  ASSUME RangesSuffice, IInv, OperandsInv, RoundsInv, SendsAreSingle, Issued # NoExec,
         Issued.pc = NextToIssue
  PROVE  Order!Issue(NextToIssue + 1)
<1>1. /\ IsDispatchable /\ Issued = dispatcher_reg /\ dispatcher_reg # NoExec
      /\ ~Full(ring_buffer) /\ dispatcher_reg.pc = NextToIssue
  BY IssuedIs
<1>2. Decoded(dispatcher_reg) /\ dispatcher_reg.pc \in Pc /\ dispatcher_reg.pc \in ExecPc
  BY <1>1, DecodedIs DEF Decoded, RoundsInv, OnlyExecuted
<1>3. NextToIssue + 1 <= Len(Stream) /\ Stream[NextToIssue + 1].exec
  <2>1. Fetchable \in Nat
    BY ProgramType DEF IInv
  <2>2. Len(Stream) = Fetchable /\ Stream[dispatcher_reg.pc + 1].exec
    BY <1>2, StreamIs, SequentialIs DEF IInv
  <2> QED BY <1>1, <1>2, <2>1, <2>2 DEF Pc
<1>4. Len(WindowOf(ring_buffer)) < Capacity
  <2>1. Len(WindowOf(ring_buffer)) = ring_buffer.size /\ ring_buffer.size \in 0..Capacity
    BY RingIs, WindowIs, PcsAre
  <2> QED BY <1>1, <2>1, CapacityAssumption DEF Full
<1>5. ASSUME NEW j \in Order!Members(WindowOf(ring_buffer)) \ DoneOf(ring_buffer)
      PROVE  ~Order!Depends(NextToIssue + 1, j)
  <2>1. PICK e \in ValidEntries(ring_buffer) : j = e.pc + 1
    BY RingIs, WindowIs
  <2>2. e \in Values(ring_buffer) /\ e # NoExec /\ Decoded(e) /\ e.pc \in Pc
    BY RingIs, DecodedIs DEF Decoded
  <2>3. ~IsConflict(dispatcher_reg, e) /\ ~IsConflict(e, dispatcher_reg)
    <3>1. ~IsConflict(dispatcher_reg, e)
      BY <1>1 DEF IsDispatchable, CheckConflict
    <3> QED BY <1>2, <2>2, <3>1, ConflictIsSymmetric DEF IInv
  <2>4. /\ Writes(dispatcher_reg) \cap Reads(e) = {}
        /\ Writes(e) \cap Reads(dispatcher_reg) = {}
    BY <1>1, <2>2, <2>3, Independent
  <2>5. ASSUME NEW f \in {dispatcher_reg} \cup Values(ring_buffer), f # NoExec, f.pc \in Pc
        PROVE  Stream[f.pc + 1].reads = Reads(f) /\ Stream[f.pc + 1].writes = Writes(f)
    <3>1. f = SequentialExec(f.pc)
      BY <2>5 DEF OperandsInv
    <3>2. /\ Stream[f.pc + 1].reads = ReadBytes(Inst(f.pc), SequentialExec(f.pc))
          /\ Stream[f.pc + 1].writes = WrittenBytes(Inst(f.pc), SequentialExec(f.pc))
      BY <2>5, SequentialIs DEF IInv
    <3> QED BY <3>1, <3>2 DEF Reads, Writes
  <2>6. /\ Stream[NextToIssue + 1].reads = Reads(dispatcher_reg)
        /\ Stream[NextToIssue + 1].writes = Writes(dispatcher_reg)
        /\ Stream[j].reads = Reads(e) /\ Stream[j].writes = Writes(e)
    BY <1>1, <1>2, <2>1, <2>2, <2>5
  <2> QED BY <2>4, <2>6 DEF Order!Depends
<1>6. /\ WindowOf(ring_buffer) = [k \in 1..ring_buffer.size |-> Entry(ring_buffer, k - 1).value.pc + 1]
      /\ DoneOf(ring_buffer) =
           {Entry(ring_buffer, k).value.pc + 1 :
              k \in {j \in 0..(ring_buffer.size - 1) : ~Entry(ring_buffer, j).valid}}
  BY DEF WindowOf, DoneOf
<1> QED BY <1>3, <1>4, <1>5, <1>6 DEF Order!Issue

LEMMA OrderInit == Init => Order!Init
<1> SUFFICES ASSUME Init PROVE Order!Init
  OBVIOUS
<1>1. ring_buffer.size = 0 /\ dispatcher_reg = NoExec /\ decode = NoPc /\ pc = 0
  BY DEF Init, FrontInit, BackInit, NewBuffer
<1>2. NextToIssue + 1 = 1
  BY <1>1 DEF NextToIssue
<1>3. WindowOf(ring_buffer) = <<>> /\ DoneOf(ring_buffer) = {}
  <2>1. IInv
    BY InitInv
  <2>2. WindowOf(ring_buffer) \in Seq(Int) /\ Len(WindowOf(ring_buffer)) = 0
    BY <1>1, <2>1, RingIs, WindowIs
  <2> QED BY <1>1, <2>2, EmptySeq DEF DoneOf
<1> QED BY <1>2, <1>3 DEF Order!Init, WindowOf, DoneOf

\* A clock edge is one of ProgramOrder: it commits what the ports held, issues what the
\* dispatcher sends, and passes over what is decoded on the way.
LEMMA OrderEdge ==
  ASSUME RangesSuffice, IInv, IInv', OperandsInv, RoundsInv, SendsAreSingle, Adjacent,
         PosEdge, UNCHANGED configVars
  PROVE  Order!Edge
<1>1. PICK n : n = NextToIssue
  OBVIOUS
<1>2. PICK m : m = NextToIssue'
  OBVIOUS
<1>3. /\ n \in Nat /\ m \in n..Fetchable
      /\ Issued # NoExec => Issued.pc = n /\ n < m
      /\ \A i \in Int : n <= i /\ (Issued # NoExec => n < i) /\ i < m => i \in Pc \ ExecPc
  <2>1. pc' \in 0..Fetchable
    BY Fixed DEF IInv, TypeOK
  <2> QED BY <1>1, <1>2, <2>1, MovesOn DEF OperandsInv
<1>4. Fetchable \in Nat /\ Len(Stream) = Fetchable
  BY ProgramType, StreamIs DEF IInv
<1>5. PICK t : t = IssuedIndex
  OBVIOUS
<1>6. /\ Issued = NoExec => t = <<>> /\ Len(t) = 0
      /\ Issued # NoExec => t = <<n + 1>> /\ Len(t) = 1
  BY <1>3, <1>5 DEF IssuedIndex
<1>7. PICK C : C = NewlyCommitted
  OBVIOUS
<1>8. C \in SUBSET (Order!Members(WindowOf(ring_buffer)) \ DoneOf(ring_buffer))
  BY <1>7, CompletedIs
<1>9. /\ WindowOf(ring_buffer)' =
           Order!Retired(WindowOf(ring_buffer) \o t, DoneOf(ring_buffer) \cup C)
      /\ DoneOf(ring_buffer)' =
           (DoneOf(ring_buffer) \cup C) \cap Order!Members(WindowOf(ring_buffer)')
  <2>1. WindowOf(ring_buffer)' = WindowOf(ring_buffer') /\ DoneOf(ring_buffer)' = DoneOf(ring_buffer')
    BY DEF WindowOf, DoneOf
  <2> QED BY <1>5, <1>7, <2>1, WindowStep DEF RoundsInv
<1>10. Stream' = Stream
  BY Fixed DEF Stream, configVars
<1>11. t # <<>> => Order!Issue(NextToIssue + 1) /\ m + 1 > n + 1
  <2> SUFFICES ASSUME t # <<>> PROVE Order!Issue(NextToIssue + 1) /\ m + 1 > n + 1
    OBVIOUS
  <2>1. Issued # NoExec
    BY <1>6
  <2>2. Order!Issue(NextToIssue + 1)
    BY <1>1, <1>3, <2>1, IssueIsAllowed
  <2> QED BY <1>3, <1>4, <2>1, <2>2
<1>12. m + 1 \in (n + 1)..(Len(Stream) + 1)
  BY <1>3, <1>4
<1>13. Order!Passes(n + 1 + Len(t), m + 1)
  <2> SUFFICES ASSUME NEW i \in (n + 1 + Len(t))..((m + 1) - 1) PROVE ~Stream[i].exec
    BY DEF Order!Passes
  <2>1. Len(t) = IF Issued = NoExec THEN 0 ELSE 1
    BY <1>6
  <2>2. i \in Int /\ n + 1 + Len(t) <= i /\ i <= (m + 1) - 1
    BY <1>3, <1>4, <2>1
  <2>3. PICK k : k = i - 1
    OBVIOUS
  <2>4. k \in Int /\ i = k + 1 /\ n <= k /\ (Issued # NoExec => n < k) /\ k < m
    BY <1>3, <1>4, <2>1, <2>2, <2>3
  <2>5. k \in Pc /\ k \notin ExecPc
    BY <1>3, <2>4
  <2>6. Stream[k + 1].exec = (k \in ExecPc)
    BY <2>5, SequentialIs DEF IInv
  <2> QED BY <2>4, <2>5, <2>6
<1>14. t \in {<<>>, <<NextToIssue + 1>>}
  BY <1>1, <1>6
<1> QED
  BY <1>1, <1>2, <1>8, <1>9, <1>10, <1>11, <1>12, <1>13, <1>14 DEF Order!Edge, WindowOf, DoneOf

LEMMA OrderBetween ==
  ASSUME IInv, [Next]_vars, ~(PosEdge /\ UNCHANGED configVars)
  PROVE  UNCHANGED Order!vars /\ (Adjacent => Adjacent')
<1>1. UNCHANGED <<configVars, frontVars, dispatcher_reg, ring_buffer>>
  BY BetweenEdges
<1>2. Stream' = Stream
  BY <1>1, Fixed DEF Stream, configVars
<1>3. NextToIssue' = NextToIssue /\ (Adjacent => Adjacent')
  BY <1>1 DEF NextToIssue, Adjacent, Decoding, frontVars, NoExec, NoPc
<1>4. WindowOf(ring_buffer)' = WindowOf(ring_buffer) /\ DoneOf(ring_buffer)' = DoneOf(ring_buffer)
  BY <1>1 DEF WindowOf, DoneOf
<1> QED BY <1>2, <1>3, <1>4 DEF Order!vars, WindowOf, DoneOf

LEMMA AdjacentAlways == Spec /\ []NoneStalls => []Adjacent
<1>1. Init => Adjacent
  BY DEF Init, BackInit, Adjacent
<1>2. IInv /\ IInv' /\ OperandsInv /\ Adjacent /\ [Next]_vars => Adjacent'
  <2> SUFFICES ASSUME IInv, IInv', OperandsInv, Adjacent, [Next]_vars PROVE Adjacent'
    OBVIOUS
  <2>1. CASE PosEdge /\ UNCHANGED configVars
    <3>1. pc' \in 0..Fetchable
      BY <2>1, Fixed DEF IInv, TypeOK
    <3> QED BY <2>1, <3>1, MovesOn DEF OperandsInv
  <2>2. CASE ~(PosEdge /\ UNCHANGED configVars)
    BY <2>2, OrderBetween
  <2> QED BY <2>1, <2>2
<1> QED BY <1>1, <1>2, Invariant, OperandsAlways, PTL DEF Spec

\* The pipeline implements ProgramOrder: it issues in program order, one instruction per
\* edge, none with a RAW or WAR dependence on one that executes and none into a full
\* buffer, and it retires in program order whatever the order of completion. The bytes
\* are those of the program read in order, so that this rests on the operands.
THEOREM InProgramOrder ==
  ASSUME RangesSuffice PROVE Spec /\ []NoneStalls => ImplementsProgramOrder
<1>1. /\ IInv /\ IInv' /\ OperandsInv /\ RoundsInv /\ SendsAreSingle /\ Adjacent /\ [Next]_vars
      => [Order!Edge]_(Order!vars)
  <2> SUFFICES ASSUME IInv, IInv', OperandsInv, RoundsInv, SendsAreSingle, Adjacent, [Next]_vars
               PROVE  Order!Edge \/ UNCHANGED Order!vars
    OBVIOUS
  <2>1. CASE PosEdge /\ UNCHANGED configVars
    BY <2>1, OrderEdge
  <2>2. CASE ~(PosEdge /\ UNCHANGED configVars)
    BY <2>2, OrderBetween
  <2> QED BY <2>1, <2>2
<1> QED
  BY <1>1, OrderInit, Invariant, OperandsAlways, RoundsAlways, SendsInvariant, AdjacentAlways, PTL
  DEF Spec, ImplementsProgramOrder, Order!Spec

\* The same of every execution of programs in which no accumulating instruction comes
\* after one that can stall.
THEOREM InProgramOrderOfPrograms ==
  ASSUME RangesSuffice, AccumulatesFirst PROVE Spec => ImplementsProgramOrder
<1>1. IInv /\ RoundsInv => NoneStalls
  BY NoneAccumulates
<1> QED BY <1>1, InProgramOrder, Invariant, RoundsAlways, PTL
=============================================================================
