----------------------------- MODULE LRU_proofs -----------------------------
(***************************************************************************)
(* The LRU cache of lru.cpp is correct for every number of lines, every    *)
(* line size and every set of addresses.  Its set, its circular buffer and *)
(* their rotations implement an LRU cache: every step is one of            *)
(* AbstractLRU.                                                            *)
(***************************************************************************)
EXTENDS LRU, FiniteSetTheorems, TLAPS

-----------------------------------------------------------------------------
(* The circular buffer *)

IsBuffer(b, capacity) ==
  /\ b \in [v : Seq(Nat), head : Nat, tail : Nat]
  /\ Len(b.v) = capacity
  /\ b.head <= b.tail
  /\ b.tail <= capacity

\* Rotating by a count within the vector keeps its length and its type, and
\* moves the slots from count + 1 on to the front.
LEMMA RotateLeftSlots ==
  ASSUME NEW v \in Seq(Nat), NEW count \in 0 .. Len(v)
  PROVE  /\ RotateLeft(v, count) \in Seq(Nat)
         /\ Len(RotateLeft(v, count)) = Len(v)
         /\ \A i \in 1 .. Len(v) - count : RotateLeft(v, count)[i] = v[i + count]
<1>1. \A i \in 1 .. Len(v) : RotateLeft(v, count)[i] \in Nat
  BY DEF RotateLeft
<1>2. QED
  BY <1>1 DEF RotateLeft

\* Making room leaves a free slot after the window.  The elements stay as
\* they are, except that a window that fills the vector loses its oldest.
LEMMA MakeRoomWindow ==
  ASSUME NEW capacity \in Nat \ {0}, NEW b, IsBuffer(b, capacity)
  PROVE  LET r    == MakeRoom(b)
             lost == IF Size(b) = capacity THEN 1 ELSE 0
         IN  /\ IsBuffer(r, capacity)
             /\ r.tail < capacity
             /\ Size(r) = Size(b) - lost
             /\ \A i \in 1 .. Size(r) : r.v[r.head + i] = b.v[b.head + lost + i]
<1> DEFINE count == IF b.head > 1 THEN b.head ELSE 1
           lost == IF Size(b) = capacity THEN 1 ELSE 0
<1>1. CASE b.tail # Len(b.v)
  BY <1>1 DEF MakeRoom, IsBuffer, Size
<1>2. CASE b.tail = Len(b.v)
  <2>1. /\ b.v \in Seq(Nat) /\ Len(b.v) = capacity /\ b.tail = capacity
        /\ b.head \in Nat /\ b.head <= capacity
        /\ count \in 1 .. capacity
    BY <1>2 DEF IsBuffer
  <2>2. MakeRoom(b) = [v |-> RotateLeft(b.v, count), head |-> 0,
                       tail |-> capacity - count]
    BY <1>2, <2>1 DEF MakeRoom
  <2> HIDE DEF count
  <2>3. /\ RotateLeft(b.v, count) \in Seq(Nat)
        /\ Len(RotateLeft(b.v, count)) = capacity
        /\ \A i \in 1 .. capacity - count :
             RotateLeft(b.v, count)[i] = b.v[i + count]
    <3>1. b.v \in Seq(Nat) /\ count \in 0 .. Len(b.v)
      BY <2>1
    <3>2. QED
      BY <2>1, <3>1, RotateLeftSlots
  <2>4. IsBuffer(MakeRoom(b), capacity) /\ MakeRoom(b).tail < capacity
    BY <2>1, <2>2, <2>3 DEF IsBuffer
  <2>5. CASE b.head = 0
    <3>1. count = 1
      BY <2>5 DEF count
    <3>2. QED
      BY <2>1, <2>2, <2>3, <2>4, <2>5, <3>1 DEF Size
  <2>6. CASE b.head # 0
    <3>1. count = b.head
      BY <2>1, <2>6 DEF count
    <3>2. Size(b) = capacity - b.head /\ Size(b) # capacity
      BY <1>2, <2>1, <2>6 DEF Size
    <3>3. Size(MakeRoom(b)) = Size(b)
      BY <2>1, <2>2, <3>1, <3>2 DEF Size
    <3>4. \A i \in 1 .. Size(MakeRoom(b)) :
            MakeRoom(b).v[MakeRoom(b).head + i] = b.v[b.head + i]
      <4> TAKE i \in 1 .. Size(MakeRoom(b))
      <4>1. MakeRoom(b).head = 0 /\ MakeRoom(b).v = RotateLeft(b.v, count)
        BY <2>2
      <4>2. i \in 1 .. capacity - count
        BY <3>1, <3>2, <3>3
      <4>3. RotateLeft(b.v, count)[i] = b.v[i + count]
        BY <2>3, <4>2
      <4>4. 0 + i = i /\ i + count = b.head + i
        BY <2>1, <3>1, <4>2
      <4>5. QED
        BY <4>1, <4>3, <4>4
    <3>5. lost = 0
      BY <3>2 DEF lost
    <3>6. Size(MakeRoom(b)) = Size(b) - lost
      BY <3>2, <3>3, <3>5, <2>1
    <3>7. \A i \in 1 .. Size(MakeRoom(b)) :
            MakeRoom(b).v[MakeRoom(b).head + i] = b.v[b.head + lost + i]
      <4> HIDE DEF lost
      <4>1. b.head + lost = b.head
        BY <2>1, <3>5
      <4>2. QED
        BY <3>4, <4>1
    <3>8. QED
      BY <2>4, <3>6, <3>7 DEF lost
  <2>7. QED
    BY <2>5, <2>6
<1>3. QED
  BY <1>1, <1>2

\* emplace_back appends: the buffer's contents are the old ones and x, less
\* the oldest one if the buffer was full.
THEOREM EmplaceBackWindow ==
  ASSUME NEW capacity \in Nat \ {0}, NEW b, IsBuffer(b, capacity), NEW x \in Nat
  PROVE  LET r    == EmplaceBack(b, x)
             lost == IF Size(b) = capacity THEN 1 ELSE 0
         IN  /\ IsBuffer(r, capacity)
             /\ Size(r) = Size(b) - lost + 1
             /\ \A i \in 1 .. Size(b) - lost :
                  r.v[r.head + i] = b.v[b.head + lost + i]
             /\ r.v[r.tail] = x
<1> DEFINE m == MakeRoom(b)
           r == EmplaceBack(b, x)
           lost == IF Size(b) = capacity THEN 1 ELSE 0
<1>1. /\ IsBuffer(m, capacity)
      /\ m.tail < capacity
      /\ Size(m) = Size(b) - lost
      /\ \A i \in 1 .. Size(m) : m.v[m.head + i] = b.v[b.head + lost + i]
  BY MakeRoomWindow
<1>2. r = [m EXCEPT !.v[m.tail + 1] = x, !.tail = m.tail + 1]
  BY DEF EmplaceBack
<1> HIDE DEF m, r
<1>3. /\ m.v \in Seq(Nat) /\ Len(m.v) = capacity
      /\ m.head \in Nat /\ m.tail \in Nat /\ m.head <= m.tail
      /\ m = [v |-> m.v, head |-> m.head, tail |-> m.tail]
  BY <1>1 DEF IsBuffer
<1>4. r = [v |-> [m.v EXCEPT ![m.tail + 1] = x], head |-> m.head, tail |-> m.tail + 1]
  BY <1>2, <1>3
<1>5. IsBuffer(r, capacity)
  BY <1>1, <1>3, <1>4 DEF IsBuffer
<1>6. Size(r) = Size(m) + 1 /\ r.v[r.tail] = x
  BY <1>1, <1>3, <1>4 DEF Size
<1>7. \A i \in 1 .. Size(m) : r.v[r.head + i] = m.v[m.head + i]
  BY <1>1, <1>3, <1>4 DEF Size
<1>8. Size(b) \in Nat /\ lost \in {0, 1}
  BY DEF IsBuffer, Size
<1>9. QED
  BY <1>1, <1>5, <1>6, <1>7, <1>8 DEF r

-----------------------------------------------------------------------------
(* The cache *)

\* The inductive invariant: the set and the queue agree, and the queue is
\* a window of its vector that leaves at least half of it free.
IInv == TypeOK /\ SetMatchesQueue

LEMMA LinesAreNumbers == Lines \subseteq Nat
<1>1. \A x \in Nat : x \div CacheLineSize \in Nat
  BY CacheLineSizeAssumption
<1>2. QED
  BY <1>1, AddressesAssumption DEF Lines, Line

LEMMA CapacityIsPositive == Capacity \in Nat \ {0} /\ CacheLines < Capacity
BY CacheLinesAssumption DEF Capacity

\* The queue is as long as the set is large, so that the test of the set's
\* size against cache_lines is a test of the queue's length.
LEMMA CardinalityIsSize ==
  ASSUME IInv
  PROVE  IsFiniteSet(memory_references) /\ Cardinality(memory_references) = Size(q)
<1> DEFINE n == Size(q)
           f == [i \in 1 .. n |-> q.v[q.head + i]]
<1>1. /\ n \in Nat /\ q.head \in Nat /\ q.tail \in Nat
      /\ q.tail = q.head + n
  BY DEF IInv, TypeOK, Size
<1> HIDE DEF n
<1>2. \A i \in 1 .. n : q.head + i \in Window(q)
  BY <1>1 DEF Window
<1>3. \A k \in Window(q) : k - q.head \in 1 .. n /\ q.head + (k - q.head) = k
  BY <1>1 DEF Window
<1>4. f \in [1 .. n -> memory_references]
  BY <1>2 DEF IInv, SetMatchesQueue
<1>5. \A i, j \in 1 .. n : f[i] = f[j] => i = j
  BY <1>1, <1>2 DEF IInv, SetMatchesQueue
<1>6. \A y \in memory_references : \E i \in 1 .. n : f[i] = y
  BY <1>3 DEF IInv, SetMatchesQueue
<1> HIDE DEF f
<1>7. f \in Bijection(1 .. n, memory_references)
  BY <1>4, <1>5, <1>6 DEF Bijection, Injection, Surjection, IsInjective
<1>8. ExistsBijection(1 .. n, memory_references)
  BY <1>7 DEF ExistsBijection
<1>9. IsFiniteSet(1 .. n) /\ Cardinality(1 .. n) = n
  BY <1>1, FS_Interval
<1>10. QED
  BY <1>8, <1>9, FS_Bijection DEF n

\* The elements of a buffer in the order of its window, and what the
\* invariant says of them.
Slot(b, i) == b.v[b.head + i]

Lists(b, S) ==
  /\ S = {Slot(b, i) : i \in 1 .. Size(b)}
  /\ \A i, j \in 1 .. Size(b) : Slot(b, i) = Slot(b, j) => i = j

LEMMA SizeIsNatural ==
  ASSUME NEW b, IsBuffer(b, Capacity)
  PROVE  Size(b) \in Nat
<1>1. b.head \in Nat /\ b.tail \in Nat /\ b.head <= b.tail
  BY DEF IsBuffer
<1>2. QED
  BY <1>1 DEF Size

LEMMA InvariantBySlots ==
  ASSUME NEW b, IsBuffer(b, Capacity), NEW S
  PROVE  Lists(b, S) <=>
           /\ S = {b.v[i] : i \in Window(b)}
           /\ \A i, j \in Window(b) : b.v[i] = b.v[j] => i = j
<1>1. b.head \in Nat /\ b.tail \in Nat /\ b.head <= b.tail
  BY DEF IsBuffer
<1>2. \A i \in 1 .. Size(b) : b.head + i \in Window(b)
  BY <1>1 DEF Size, Window
<1>3. \A k \in Window(b) : k - b.head \in 1 .. Size(b) /\ b.head + (k - b.head) = k
  BY <1>1 DEF Size, Window
<1>4. {Slot(b, i) : i \in 1 .. Size(b)} = {b.v[i] : i \in Window(b)}
  BY <1>2, <1>3 DEF Slot
<1>5. ASSUME \A i, j \in 1 .. Size(b) : Slot(b, i) = Slot(b, j) => i = j
      PROVE  \A i, j \in Window(b) : b.v[i] = b.v[j] => i = j
  <2> SUFFICES ASSUME NEW i \in Window(b), NEW j \in Window(b), b.v[i] = b.v[j]
               PROVE  i = j
    OBVIOUS
  <2>1. Slot(b, i - b.head) = Slot(b, j - b.head)
    BY <1>3 DEF Slot
  <2>2. i - b.head = j - b.head
    BY <1>3, <1>5, <2>1
  <2>3. QED
    BY <1>3, <2>2
<1>6. ASSUME \A i, j \in Window(b) : b.v[i] = b.v[j] => i = j
      PROVE  \A i, j \in 1 .. Size(b) : Slot(b, i) = Slot(b, j) => i = j
  <2> SUFFICES ASSUME NEW i \in 1 .. Size(b), NEW j \in 1 .. Size(b),
                      Slot(b, i) = Slot(b, j)
               PROVE  i = j
    OBVIOUS
  <2>1. b.head + i = b.head + j
    BY <1>2, <1>6 DEF Slot
  <2>2. QED
    BY <1>1, <2>1
<1>7. QED
  BY <1>4, <1>5, <1>6 DEF Lists

\* The invariant, with the buffer's shape and its contents apart.
LEMMA InvariantIsLists ==
  IInv <=> /\ memory_references \in SUBSET Lines /\ ret \in {0, 1}
           /\ IsBuffer(q, Capacity)
           /\ Lists(q, memory_references)
           /\ Size(q) <= CacheLines
BY InvariantBySlots DEF IInv, TypeOK, SetMatchesQueue, IsBuffer

\* The same of the state after a step.
LEMMA ListsMakeInvariant ==
  ASSUME memory_references' \in SUBSET Lines, ret' \in {0, 1},
         IsBuffer(q', Capacity), Lists(q', memory_references'),
         Size(q') <= CacheLines
  PROVE  IInv'
<1>1. /\ memory_references' = {q'.v[i] : i \in Window(q')}
      /\ \A i, j \in Window(q') : q'.v[i] = q'.v[j] => i = j
  BY InvariantBySlots
<1>2. /\ q' \in [v : Seq(Nat), head : Nat, tail : Nat]
      /\ Len(q'.v) = Capacity /\ q'.head <= q'.tail /\ q'.tail <= Capacity
  BY DEF IsBuffer
<1>3. TypeOK'
  BY <1>2 DEF TypeOK, Capacity, Lines
<1>4. SetMatchesQueue'
  BY <1>1 DEF SetMatchesQueue
<1>5. QED
  BY <1>3, <1>4 DEF IInv

LEMMA InitEstablishes == Init => IInv
<1> SUFFICES ASSUME NEW n \in 0 .. CacheLines, NEW s \in [1 .. n -> Lines],
                    IsInjective(s), Constructed(s)
             PROVE  IInv
  BY DEF Init
<1>1. n \in Nat /\ n <= CacheLines /\ CacheLines \in Nat /\ DOMAIN s = 1 .. n
  BY CacheLinesAssumption
<1>2. Len(s) = n
  BY <1>1
<1>3. /\ q = [v |-> [i \in 1 .. Capacity |-> IF i <= n THEN s[i] ELSE 0],
              head |-> 0, tail |-> n]
      /\ Window(q) = 1 .. n
      /\ memory_references = {s[i] : i \in 1 .. n}
      /\ ret = 0
  BY <1>1, <1>2 DEF Window, Constructed
<1>4. \A i \in 1 .. n : q.v[i] = s[i]
  BY <1>1, <1>3, CapacityIsPositive
<1>5. TypeOK
  <2>1. \A i \in 1 .. Capacity : (IF i <= n THEN s[i] ELSE 0) \in Nat
    <3>1. \A i \in 1 .. Capacity : i <= n => s[i] \in Nat
      <4>1. \A i \in 1 .. n : s[i] \in Lines
        OBVIOUS
      <4>2. \A i \in 1 .. Capacity : i <= n => i \in 1 .. n
        BY <1>1, CapacityIsPositive
      <4>3. QED
        BY <4>1, <4>2, LinesAreNumbers
    <3>2. QED
      BY <3>1
  <2>2. q.v \in Seq(Nat) /\ Len(q.v) = Capacity
    BY <2>1, <1>3, CapacityIsPositive
  <2>3. memory_references \in SUBSET Lines
    BY <1>3
  <2>4. QED
    BY <1>1, <1>3, <2>2, <2>3, CapacityIsPositive DEF TypeOK
<1>6. SetMatchesQueue
  <2>1. memory_references = {q.v[i] : i \in Window(q)}
    BY <1>3, <1>4
  <2>2. \A i, j \in 1 .. n : s[i] = s[j] => i = j
    BY <1>1 DEF IsInjective
  <2>3. Size(q) <= CacheLines
    BY <1>1, <1>3 DEF Size
  <2>4. \A i, j \in Window(q) : q.v[i] = q.v[j] => i = j
    BY <1>3, <1>4, <2>2
  <2>5. QED
    BY <2>1, <2>3, <2>4 DEF SetMatchesQueue
<1>7. QED
  BY <1>5, <1>6 DEF IInv

-----------------------------------------------------------------------------
(* What each branch of allocate() does to the slots of the queue. *)

\* A hit on the line in slot k closes the gap and puts the line last.
Moved(b, r, k) ==
  /\ k \in 1 .. Size(b)
  /\ IsBuffer(r, Capacity) /\ Size(r) = Size(b)
  /\ \A i \in 1 .. Size(b) : i < k => Slot(r, i) = Slot(b, i)
  /\ \A i \in 1 .. Size(b) : k <= i /\ i < Size(b) => Slot(r, i) = Slot(b, i + 1)
  /\ Slot(r, Size(b)) = Slot(b, k)

\* The line y is added behind the others, of which the first lost ones go.
Appended(b, r, y, lost) ==
  /\ IsBuffer(r, Capacity) /\ Size(r) = Size(b) - lost + 1
  /\ \A i \in 1 .. Size(b) - lost : Slot(r, i) = Slot(b, i + lost)
  /\ Slot(r, Size(r)) = y

\* The search from the back finds the slot of y, since no other holds y.
LEMMA LastSlotFound ==
  ASSUME NEW b, IsBuffer(b, Capacity), NEW S, Lists(b, S),
         NEW k \in 1 .. Size(b)
  PROVE  (CHOOSE i \in Window(b) : IsLastSlotOf(i, b, Slot(b, k))) = b.head + k
<1> DEFINE y == Slot(b, k)
<1>1. /\ b.head \in Nat /\ b.tail \in Nat /\ b.head <= b.tail
      /\ Size(b) = b.tail - b.head
  BY DEF IsBuffer, Size
<1>2. \A i, j \in Window(b) : b.v[i] = b.v[j] => i = j
  BY InvariantBySlots
<1>3. b.head + k \in Window(b) /\ b.v[b.head + k] = y
  BY <1>1 DEF Window, Slot
<1>4. \A i \in Window(b) : b.v[i] = y => i = b.head + k
  BY <1>2, <1>3
<1>5. \A i \in b.head + k + 1 .. b.tail : i \in Window(b) /\ i # b.head + k
  BY <1>1 DEF Window
<1>6. IsLastSlotOf(b.head + k, b, y)
  BY <1>3, <1>4, <1>5 DEF IsLastSlotOf
<1>7. \A i \in Window(b) : IsLastSlotOf(i, b, y) => i = b.head + k
  BY <1>4 DEF IsLastSlotOf
<1>8. QED
  BY <1>3, <1>6, <1>7

LEMMA MoveToBackMoves ==
  ASSUME NEW b, IsBuffer(b, Capacity), NEW S, Lists(b, S),
         NEW k \in 1 .. Size(b)
  PROVE  Moved(b, MoveToBack(b, Slot(b, k)), k)
<1> DEFINE y == Slot(b, k)
           n == Size(b)
           r == MoveToBack(b, y)
           w == [i \in 1 .. Capacity |-> IF i \in b.head + k .. b.tail - 1
                                         THEN b.v[i + 1]
                                         ELSE IF i = b.tail THEN y ELSE b.v[i]]
<1>1. /\ b \in [v : Seq(Nat), head : Nat, tail : Nat] /\ Len(b.v) = Capacity
      /\ b.head \in Nat /\ b.tail \in Nat /\ Capacity \in Nat
      /\ b.head <= b.tail /\ b.tail <= Capacity
      /\ n \in Nat /\ b.tail = b.head + n
  BY CapacityIsPositive DEF IsBuffer, Size
<1>2. b.head + k \in Window(b) /\ b.v[b.head + k] = y
  BY <1>1 DEF Window, Slot
<1>3. r = [b EXCEPT !.v = w]
  BY <1>1, <1>2, LastSlotFound DEF MoveToBack
<1>4. r = [v |-> w, head |-> b.head, tail |-> b.tail]
  BY <1>1, <1>3
<1>5. \A i \in 1 .. Capacity : b.v[i] \in Nat
  BY <1>1
<1>6. \A i \in 1 .. Capacity : w[i] \in Nat
  <2> TAKE i \in 1 .. Capacity
  <2>1. y \in Nat
    BY <1>1, <1>2, <1>5 DEF Window
  <2>2. i \in b.head + k .. b.tail - 1 => i + 1 \in 1 .. Capacity
    BY <1>1
  <2>3. QED
    BY <1>5, <2>1, <2>2
<1>7. w \in Seq(Nat) /\ Len(w) = Capacity
  BY <1>1, <1>6
<1> HIDE DEF r, w
<1>8. IsBuffer(r, Capacity) /\ Size(r) = n
  BY <1>1, <1>4, <1>7 DEF IsBuffer, Size
<1>9. \A i \in 1 .. n : i < k => Slot(r, i) = Slot(b, i)
  <2> SUFFICES ASSUME NEW i \in 1 .. n, i < k PROVE w[b.head + i] = b.v[b.head + i]
    BY <1>4 DEF Slot
  <2>1. /\ b.head + i \in 1 .. Capacity /\ b.head + i # b.tail
        /\ b.head + i \notin b.head + k .. b.tail - 1
    BY <1>1
  <2>2. QED
    BY <2>1 DEF w
<1>10. \A i \in 1 .. n : k <= i /\ i < n => Slot(r, i) = Slot(b, i + 1)
  <2> SUFFICES ASSUME NEW i \in 1 .. n, k <= i, i < n
               PROVE  w[b.head + i] = b.v[b.head + (i + 1)]
    BY <1>4 DEF Slot
  <2>1. b.head + i \in 1 .. Capacity
    BY <1>1
  <2>2. b.head + i \in b.head + k .. b.tail - 1
    BY <1>1
  <2>3. (b.head + i) + 1 = b.head + (i + 1)
    BY <1>1
  <2>4. QED
    BY <2>1, <2>2, <2>3 DEF w
<1>11. Slot(r, n) = y
  <2>1. /\ b.head + n \in 1 .. Capacity /\ b.head + n = b.tail
        /\ b.head + n \notin b.head + k .. b.tail - 1
    BY <1>1
  <2>2. w[b.head + n] = y
    BY <2>1 DEF w
  <2>3. QED
    BY <1>4, <2>2 DEF Slot
<1>12. QED
  BY <1>8, <1>9, <1>10, <1>11 DEF Moved, r

LEMMA MovedKeepsLists ==
  ASSUME NEW b, IsBuffer(b, Capacity), NEW S, Lists(b, S),
         NEW r, NEW k, Moved(b, r, k)
  PROVE  Lists(r, S)
<1> DEFINE n == Size(b)
           from(i) == IF i < k THEN i ELSE IF i < n THEN i + 1 ELSE k
           to(i) == IF i < k THEN i ELSE IF i = k THEN n ELSE i - 1
<1>1. n \in Nat /\ Size(r) = n /\ k \in 1 .. n
  BY SizeIsNatural DEF Moved
<1>2. \A i \in 1 .. n : from(i) \in 1 .. n /\ to(from(i)) = i
  BY <1>1
<1>3. \A i \in 1 .. n : to(i) \in 1 .. n /\ from(to(i)) = i
  BY <1>1
<1>4. \A i \in 1 .. n : Slot(r, i) = Slot(b, from(i))
  <2> TAKE i \in 1 .. n
  <2>1. CASE i < k
    BY <2>1 DEF Moved
  <2>2. CASE k <= i /\ i < n
    BY <1>1, <2>2 DEF Moved
  <2>3. CASE i = n
    BY <1>1, <2>3 DEF Moved
  <2>4. QED
    BY <1>1, <2>1, <2>2, <2>3
<1> HIDE DEF n, from, to
<1>5. {Slot(r, i) : i \in 1 .. n} = {Slot(b, i) : i \in 1 .. n}
  BY <1>2, <1>3, <1>4
<1>6. \A i, j \in 1 .. n : Slot(b, i) = Slot(b, j) => i = j
  BY DEF Lists, n
<1>7. \A i, j \in 1 .. n : Slot(r, i) = Slot(r, j) => i = j
  BY <1>2, <1>4, <1>6
<1>8. QED
  BY <1>1, <1>5, <1>7 DEF Lists, n

LEMMA AppendedLists ==
  ASSUME NEW b, IsBuffer(b, Capacity), NEW S, Lists(b, S),
         NEW r, NEW y, y \notin S,
         NEW lost \in {0, 1}, lost <= Size(b), Appended(b, r, y, lost)
  PROVE  Lists(r, (S \cup {y}) \ {Slot(b, i) : i \in 1 .. lost})
<1> DEFINE n == Size(b)
           m == n - lost
           gone == {Slot(b, i) : i \in 1 .. lost}
<1>1. n \in Nat /\ m \in Nat /\ Size(r) = m + 1 /\ n = m + lost
  <2>1. n \in Nat /\ Size(r) = n - lost + 1
    BY SizeIsNatural DEF Appended
  <2>2. QED
    BY <2>1
<1>2. \A i \in 1 .. m : i + lost \in 1 .. n /\ i + lost \notin 1 .. lost
  BY <1>1
<1>3. \A i \in 1 .. n : i \in 1 .. lost \/ (i - lost \in 1 .. m /\ (i - lost) + lost = i)
  BY <1>1
<1>4. \A i \in 1 .. m : Slot(r, i) = Slot(b, i + lost)
  BY DEF Appended
<1>5. Slot(r, m + 1) = y
  BY <1>1 DEF Appended
<1>6. S = {Slot(b, i) : i \in 1 .. n} /\ \A i, j \in 1 .. n : Slot(b, i) = Slot(b, j) => i = j
  BY DEF Lists
<1>7. \A i \in 1 .. lost : i \in 1 .. n
  BY <1>1
<1>8. \A i \in 1 .. m + 1 : i \in 1 .. m \/ i = m + 1
  BY <1>1
<1>9. \A i \in 1 .. m : i \in 1 .. m + 1
  BY <1>1
<1>10. m + 1 \in 1 .. m + 1
  BY <1>1
<1> HIDE DEF n, m
<1>11. {Slot(r, i) : i \in 1 .. m + 1} = (S \cup {y}) \ gone
  <2>1. ASSUME NEW i \in 1 .. m + 1 PROVE Slot(r, i) \in (S \cup {y}) \ gone
    <3>1. CASE i \in 1 .. m
      <4>1. Slot(r, i) \in S
        BY <1>2, <1>4, <1>6, <3>1
      <4>2. Slot(r, i) \notin gone
        BY <1>2, <1>4, <1>6, <1>7, <3>1
      <4>3. QED
        BY <4>1, <4>2
    <3>2. CASE i = m + 1
      BY <1>5, <1>6, <1>7, <3>2
    <3>3. QED
      BY <1>8, <3>1, <3>2
  <2>2. ASSUME NEW z \in (S \cup {y}) \ gone
        PROVE  \E i \in 1 .. m + 1 : Slot(r, i) = z
    <3>1. CASE z = y
      BY <1>5, <1>10, <3>1
    <3>2. CASE z # y
      <4>1. PICK i \in 1 .. n : Slot(b, i) = z
        BY <1>6, <3>2
      <4>2. i \notin 1 .. lost
        BY <4>1
      <4>3. QED
        BY <1>3, <1>4, <1>9, <4>1, <4>2
    <3>3. QED
      BY <3>1, <3>2
  <2>3. QED
    BY <2>1, <2>2
<1>12. \A i, j \in 1 .. m + 1 : Slot(r, i) = Slot(r, j) => i = j
  <2> SUFFICES ASSUME NEW i \in 1 .. m + 1, NEW j \in 1 .. m + 1,
                      Slot(r, i) = Slot(r, j)
               PROVE  i = j
    OBVIOUS
  <2>1. \A h \in 1 .. m : Slot(r, h) \in S
    BY <1>2, <1>4, <1>6
  <2>2. CASE i \in 1 .. m /\ j \in 1 .. m
    <3>1. i + lost = j + lost
      BY <1>2, <1>4, <1>6, <2>2
    <3>2. QED
      BY <1>1, <2>2, <3>1
  <2>3. CASE ~(i \in 1 .. m /\ j \in 1 .. m)
    BY <1>5, <1>8, <2>1, <2>3
  <2>4. QED
    BY <2>2, <2>3
<1>13. QED
  BY <1>1, <1>11, <1>12 DEF Lists

\* emplace_back on a buffer that is not full loses nothing.
LEMMA EmplaceBackAppends ==
  ASSUME NEW b, IsBuffer(b, Capacity), Size(b) # Capacity, NEW x \in Nat
  PROVE  Appended(b, EmplaceBack(b, x), x, 0)
<1> DEFINE r == EmplaceBack(b, x)
           lost == IF Size(b) = Capacity THEN 1 ELSE 0
<1>1. Capacity \in Nat \ {0}
  BY CapacityIsPositive
<1>2. /\ IsBuffer(r, Capacity)
      /\ Size(r) = Size(b) - lost + 1
      /\ \A i \in 1 .. Size(b) - lost : r.v[r.head + i] = b.v[b.head + lost + i]
      /\ r.v[r.tail] = x
  BY <1>1, EmplaceBackWindow
<1>3. lost = 0
  OBVIOUS
<1> HIDE DEF r, lost
<1>4. b.head \in Nat /\ r.head \in Nat /\ r.tail \in Nat
  BY <1>2 DEF IsBuffer
<1>5. r.head + Size(r) = r.tail
  BY <1>4 DEF Size
<1>6. \A i \in 1 .. Size(b) - 0 : b.head + 0 + i = b.head + (i + 0)
  BY <1>4
<1>7. \A i \in 1 .. Size(b) - 0 : Slot(r, i) = Slot(b, i + 0)
  BY <1>2, <1>3, <1>6 DEF Slot
<1>8. QED
  BY <1>2, <1>3, <1>5, <1>7 DEF Appended, Slot, r

-----------------------------------------------------------------------------
(* The steps of allocate() keep the invariant. *)

\* What a step starts from: an invariant state and a line of the addresses.
LEMMA InvariantFacts ==
  ASSUME IInv
  PROVE  /\ IsBuffer(q, Capacity) /\ Lists(q, memory_references)
         /\ Size(q) \in Nat /\ Size(q) <= CacheLines /\ Size(q) # Capacity
         /\ IsFiniteSet(memory_references)
         /\ Cardinality(memory_references) = Size(q)
<1>1. IsBuffer(q, Capacity) /\ Lists(q, memory_references) /\ Size(q) <= CacheLines
  BY InvariantIsLists
<1>2. Size(q) \in Nat
  BY <1>1 DEF IsBuffer, Size
<1>3. Size(q) # Capacity
  BY <1>1, <1>2, CapacityIsPositive, CacheLinesAssumption
<1>4. QED
  BY <1>1, <1>2, <1>3, CardinalityIsSize

\* A hit: the line sits in some slot k, and moves from there to the back.
LEMMA HitMoves ==
  ASSUME IInv, NEW y \in Lines, Hit(y)
  PROVE  \E k \in 1 .. Size(q) : Slot(q, k) = y /\ Moved(q, q', k)
<1>1. PICK k \in 1 .. Size(q) : Slot(q, k) = y
  BY InvariantFacts DEF Hit, Lists
<1>2. Moved(q, MoveToBack(q, Slot(q, k)), k)
  BY InvariantFacts, MoveToBackMoves
<1>3. QED
  BY <1>1, <1>2 DEF Hit

\* A miss with room: the cache has fewer lines than it may hold.
LEMMA FillAppends ==
  ASSUME IInv, NEW y \in Lines, Fill(y)
  PROVE  Size(q) < CacheLines /\ Appended(q, q', y, 0)
<1>1. Cardinality(memory_references \cup {y}) = Size(q) + 1
  BY InvariantFacts, FS_AddElement DEF Fill
<1>2. Size(q) < CacheLines
  BY <1>1, InvariantFacts, CacheLinesAssumption DEF Fill
<1>3. q' = EmplaceBack(q, y) /\ y \in Nat
  BY LinesAreNumbers DEF Fill
<1>4. QED
  BY <1>2, <1>3, InvariantFacts, EmplaceBackAppends

\* A miss without room: the cache is full, the line in the first slot goes.
LEMMA EvictAppends ==
  ASSUME IInv, NEW y \in Lines, Evict(y)
  PROVE  /\ Size(q) = CacheLines /\ FrontOf(q) = Slot(q, 1)
         /\ Appended(q, q', y, 1)
<1> DEFINE p == PopFront(q)
<1>1. Cardinality(memory_references \cup {y}) = Size(q) + 1
  BY InvariantFacts, FS_AddElement DEF Evict
<1>2. Size(q) = CacheLines /\ Size(q) \in Nat /\ Size(q) >= 1
  BY <1>1, InvariantFacts, CacheLinesAssumption DEF Evict
<1>3. /\ q \in [v : Seq(Nat), head : Nat, tail : Nat]
      /\ Len(q.v) = Capacity /\ q.tail <= Capacity
      /\ q.head \in Nat /\ q.tail \in Nat /\ q.tail - q.head = Size(q)
  BY InvariantFacts DEF IsBuffer, Size
<1>4. p = [v |-> q.v, head |-> q.head + 1, tail |-> q.tail]
  BY <1>3 DEF PopFront
<1>5. q' = EmplaceBack(p, y) /\ y \in Nat
  BY LinesAreNumbers DEF Evict
<1> HIDE DEF p
<1>6. IsBuffer(p, Capacity) /\ Size(p) = Size(q) - 1
  BY <1>2, <1>3, <1>4 DEF IsBuffer, Size
<1>7. Size(p) # Capacity
  BY <1>2, <1>6, CapacityIsPositive
<1>8. /\ IsBuffer(q', Capacity)
      /\ Size(q') = Size(p) - 0 + 1
      /\ \A i \in 1 .. Size(p) - 0 : Slot(q', i) = Slot(p, i + 0)
      /\ Slot(q', Size(q')) = y
  BY <1>5, <1>6, <1>7, EmplaceBackAppends DEF Appended
<1>9. \A i \in 1 .. Size(q) - 1 : Slot(q', i) = Slot(q, i + 1)
  <2> TAKE i \in 1 .. Size(q) - 1
  <2>1. i \in 1 .. Size(p) - 0 /\ q.head + 1 + (i + 0) = q.head + (i + 1)
    BY <1>2, <1>3, <1>6
  <2>2. Slot(p, i + 0) = Slot(q, i + 1)
    BY <1>4, <2>1 DEF Slot
  <2>3. QED
    BY <1>8, <2>1, <2>2
<1>10. Size(q') = Size(q) - 1 + 1
  BY <1>2, <1>6, <1>8
<1>11. QED
  BY <1>2, <1>8, <1>9, <1>10 DEF Appended, FrontOf, Slot

LEMMA HitKeepsInvariant ==
  ASSUME IInv, NEW y \in Lines, Hit(y)
  PROVE  IInv'
<1>1. PICK k \in 1 .. Size(q) : Moved(q, q', k)
  BY HitMoves
<1>2. Lists(q', memory_references)
  BY <1>1, InvariantFacts, MovedKeepsLists
<1>3. memory_references' = memory_references /\ ret' = 0
  BY DEF Hit
<1>4. Size(q') <= CacheLines /\ IsBuffer(q', Capacity)
  BY <1>1, InvariantFacts DEF Moved
<1>5. memory_references \in SUBSET Lines
  BY InvariantIsLists
<1>6. /\ memory_references' \in SUBSET Lines /\ ret' \in {0, 1}
      /\ IsBuffer(q', Capacity) /\ Lists(q', memory_references')
      /\ Size(q') <= CacheLines
  BY <1>2, <1>3, <1>4, <1>5
<1>7. QED
  BY <1>6, ListsMakeInvariant

LEMMA FillKeepsInvariant ==
  ASSUME IInv, NEW y \in Lines, Fill(y)
  PROVE  IInv'
<1>1. Size(q) < CacheLines /\ Appended(q, q', y, 0)
  BY FillAppends
<1>2. Lists(q', (memory_references \cup {y}) \ {Slot(q, i) : i \in 1 .. 0})
  <2>1. /\ IsBuffer(q, Capacity) /\ Lists(q, memory_references)
        /\ y \notin memory_references /\ 0 \in {0, 1} /\ 0 <= Size(q)
    BY InvariantFacts DEF Fill
  <2>2. QED
    BY <1>1, <2>1, AppendedLists
<1>3. memory_references' = memory_references \cup {y} /\ ret' = 1
  BY DEF Fill
<1>4. Lists(q', memory_references')
  <2>1. {Slot(q, i) : i \in 1 .. 0} = {}
    OBVIOUS
  <2>2. (memory_references \cup {y}) \ {Slot(q, i) : i \in 1 .. 0} = memory_references'
    BY <1>3, <2>1
  <2>3. QED
    BY <1>2, <2>2
<1>5. Size(q') <= CacheLines /\ IsBuffer(q', Capacity)
  BY <1>1, InvariantFacts, CacheLinesAssumption DEF Appended
<1>6. memory_references \in SUBSET Lines
  BY InvariantIsLists
<1>7. /\ memory_references' \in SUBSET Lines /\ ret' \in {0, 1}
      /\ IsBuffer(q', Capacity) /\ Lists(q', memory_references')
      /\ Size(q') <= CacheLines
  BY <1>3, <1>4, <1>5, <1>6
<1>8. QED
  BY <1>7, ListsMakeInvariant

LEMMA EvictKeepsInvariant ==
  ASSUME IInv, NEW y \in Lines, Evict(y)
  PROVE  IInv'
<1>1. /\ Size(q) = CacheLines /\ FrontOf(q) = Slot(q, 1)
      /\ Appended(q, q', y, 1)
  BY EvictAppends
<1>2. 1 <= Size(q)
  BY <1>1, CacheLinesAssumption
<1>3. Lists(q', (memory_references \cup {y}) \ {Slot(q, i) : i \in 1 .. 1})
  BY <1>1, <1>2, InvariantFacts, AppendedLists DEF Evict
<1>4. /\ memory_references' = (memory_references \cup {y}) \ {FrontOf(q)}
      /\ ret' = 1
  BY DEF Evict
<1>5. Lists(q', memory_references')
  <2>1. {Slot(q, i) : i \in 1 .. 1} = {FrontOf(q)}
    BY <1>1
  <2>2. (memory_references \cup {y}) \ {Slot(q, i) : i \in 1 .. 1} = memory_references'
    BY <1>4, <2>1
  <2>3. QED
    BY <1>3, <2>2
<1>6. Size(q') <= CacheLines /\ IsBuffer(q', Capacity)
  BY <1>1, InvariantFacts, CacheLinesAssumption DEF Appended
<1>7. memory_references \in SUBSET Lines
  BY InvariantIsLists
<1>8. /\ memory_references' \in SUBSET Lines /\ ret' \in {0, 1}
      /\ IsBuffer(q', Capacity) /\ Lists(q', memory_references')
      /\ Size(q') <= CacheLines
  BY <1>4, <1>5, <1>6, <1>7
<1>9. QED
  BY <1>8, ListsMakeInvariant

LEMMA StepKeepsInvariant == IInv /\ [Next]_vars => IInv'
<1> SUFFICES ASSUME IInv, [Next]_vars PROVE IInv'
  OBVIOUS
<1>1. ASSUME NEW x \in Addresses, Allocate(x) PROVE IInv'
  <2>1. Line(x) \in Lines
    BY DEF Lines
  <2>2. QED
    BY <1>1, <2>1, HitKeepsInvariant, FillKeepsInvariant, EvictKeepsInvariant
       DEF Allocate
<1>2. CASE UNCHANGED vars
  BY <1>2 DEF vars, IInv, TypeOK, SetMatchesQueue, Window, Size
<1>3. QED
  BY <1>1, <1>2 DEF Next

\* In every reachable state of every LRU cache the lookup set and the queue
\* agree, and the queue stays inside its vector.
THEOREM Invariance == Spec => []IInv
BY InitEstablishes, StepKeepsInvariant, PTL DEF Spec

\* Type correctness of the LRU cache: the window of q stays within the
\* vector of 2 * cache_lines slots, whatever is referenced.
THEOREM TypeCorrect == Spec => []TypeOK
<1>1. IInv => TypeOK
  BY DEF IInv
<1>2. QED
  BY <1>1, Invariance, PTL

\* allocate() keeps the set and the queue in agreement for every size of
\* the cache: what is evicted from one is evicted from the other.
THEOREM SetAlwaysMatchesQueue == Spec => []SetMatchesQueue
<1>1. IInv => SetMatchesQueue
  BY DEF IInv
<1>2. QED
  BY <1>1, Invariance, PTL
-----------------------------------------------------------------------------
(* The queue from its back: a step by the ages of the lines. *)

\* The line behind which d others are: d = 0 is the youngest.
Back(b, d) == Slot(b, Size(b) - d)

\* The line y becomes the youngest; the lines younger than it was age by
\* one, the others stay where they are.
Refreshed(b, r, y) ==
  \E h \in 0 .. Size(b) - 1 :
    /\ Back(b, h) = y
    /\ Size(r) = Size(b)
    /\ Back(r, 0) = y
    /\ \A d \in 1 .. h : Back(r, d) = Back(b, d - 1)
    /\ \A d \in h + 1 .. Size(b) - 1 : Back(r, d) = Back(b, d)

\* The line y is new and the youngest; all lines age by one, and the oldest
\* goes if there are more than c.
Entered(b, r, y, c) ==
  /\ \A d \in 0 .. Size(b) - 1 : Back(b, d) # y
  /\ Size(r) = IF Size(b) < c THEN Size(b) + 1 ELSE c
  /\ Back(r, 0) = y
  /\ \A d \in 1 .. Size(r) - 1 : Back(r, d) = Back(b, d - 1)

\* The slots are the ages, counted from the other end.
LEMMA SlotsAreAges ==
  ASSUME NEW b, Size(b) \in Nat, NEW S, Lists(b, S)
  PROVE  /\ S = {Back(b, d) : d \in 0 .. Size(b) - 1}
         /\ \A d, e \in 0 .. Size(b) - 1 : Back(b, d) = Back(b, e) => d = e
<1> DEFINE n == Size(b)
<1>1. S = {Slot(b, i) : i \in 1 .. n}
      /\ \A i, j \in 1 .. n : Slot(b, i) = Slot(b, j) => i = j
  BY DEF Lists
<1>2. \A d \in 0 .. n - 1 : n - d \in 1 .. n
  OBVIOUS
<1>3. \A i \in 1 .. n : n - i \in 0 .. n - 1 /\ n - (n - i) = i
  OBVIOUS
<1>4. \A d, e \in 0 .. n - 1 : n - d = n - e => d = e
  OBVIOUS
<1> HIDE DEF n
<1>5. \A d \in 0 .. n - 1 : Back(b, d) = Slot(b, n - d)
  BY DEF Back, n
<1>6. \A i \in 1 .. n : Slot(b, i) = Back(b, n - i)
  BY <1>3 DEF Back, n
<1>7. S = {Back(b, d) : d \in 0 .. n - 1}
  BY <1>1, <1>2, <1>3, <1>5, <1>6
<1>8. \A d, e \in 0 .. n - 1 : Back(b, d) = Back(b, e) => d = e
  BY <1>1, <1>2, <1>4, <1>5
<1>9. QED
  BY <1>7, <1>8 DEF n

LEMMA MovedRefreshes ==
  ASSUME NEW b, Size(b) \in Nat, NEW r, NEW k \in 1 .. Size(b), Moved(b, r, k)
  PROVE  Refreshed(b, r, Slot(b, k))
<1> DEFINE n == Size(b)
           h == n - k
<1>1. /\ Size(r) = n
      /\ \A i \in 1 .. n : i < k => Slot(r, i) = Slot(b, i)
      /\ \A i \in 1 .. n : k <= i /\ i < n => Slot(r, i) = Slot(b, i + 1)
      /\ Slot(r, n) = Slot(b, k)
  BY DEF Moved
<1>2. h \in 0 .. n - 1 /\ n - h = k /\ n - 0 = n
  OBVIOUS
<1>3. \A d \in 1 .. h : /\ n - d \in 1 .. n /\ k <= n - d /\ n - d < n
                        /\ n - (d - 1) = (n - d) + 1
  OBVIOUS
<1>4. \A d \in h + 1 .. n - 1 : n - d \in 1 .. n /\ n - d < k
  OBVIOUS
<1> HIDE DEF n, h
<1>5. Back(b, h) = Slot(b, k) /\ Back(r, 0) = Slot(b, k)
  BY <1>1, <1>2 DEF Back, n
<1>6. \A d \in 1 .. h : Back(r, d) = Back(b, d - 1)
  <2> TAKE d \in 1 .. h
  <2>1. Slot(r, n - d) = Slot(b, n - (d - 1))
    BY <1>1, <1>3
  <2>2. QED
    BY <1>1, <2>1 DEF Back, n
<1>7. \A d \in h + 1 .. n - 1 : Back(r, d) = Back(b, d)
  <2> TAKE d \in h + 1 .. n - 1
  <2>1. Slot(r, n - d) = Slot(b, n - d)
    BY <1>1, <1>4
  <2>2. QED
    BY <1>1, <2>1 DEF Back, n
<1>8. QED
  BY <1>1, <1>2, <1>5, <1>6, <1>7 DEF Refreshed, n

LEMMA AppendedEnters ==
  ASSUME NEW b, Size(b) \in Nat, NEW S, Lists(b, S), NEW r, NEW y, y \notin S,
         NEW lost \in {0, 1}, Appended(b, r, y, lost),
         IF lost = 0 THEN Size(b) < CacheLines ELSE Size(b) = CacheLines
  PROVE  Entered(b, r, y, CacheLines)
<1> DEFINE n == Size(b)
           m == Size(r)
<1>1. /\ m = n - lost + 1
      /\ \A i \in 1 .. n - lost : Slot(r, i) = Slot(b, i + lost)
      /\ Slot(r, m) = y
  BY DEF Appended
<1>2. m = IF n < CacheLines THEN n + 1 ELSE CacheLines
  BY <1>1, CacheLinesAssumption
<1>3. \A d \in 0 .. n - 1 : Back(b, d) # y
  BY SlotsAreAges
<1>4. m - 0 = m
  BY <1>1
<1>5. \A d \in 1 .. m - 1 : m - d \in 1 .. n - lost /\ (m - d) + lost = n - (d - 1)
  BY <1>1
<1> HIDE DEF n, m
<1>6. Back(r, 0) = y
  BY <1>1, <1>4 DEF Back, m
<1>7. \A d \in 1 .. m - 1 : Back(r, d) = Back(b, d - 1)
  <2> TAKE d \in 1 .. m - 1
  <2>1. Slot(r, m - d) = Slot(b, n - (d - 1))
    BY <1>1, <1>5
  <2>2. QED
    BY <2>1 DEF Back, n, m
<1>8. QED
  BY <1>2, <1>3, <1>6, <1>7 DEF Entered, n, m

\* A call of allocate() returns 0 for a line that it finds at some age and
\* makes the youngest, and 1 for a line that enters the cache.
LEMMA AllocateByAge ==
  ASSUME IInv, NEW x \in Addresses, Allocate(x)
  PROVE  \/ ret' = 0 /\ Line(x) \in memory_references /\ Refreshed(q, q', Line(x))
         \/ /\ ret' = 1 /\ Line(x) \notin memory_references
            /\ Entered(q, q', Line(x), CacheLines)
<1> DEFINE y == Line(x)
<1>1. y \in Lines
  BY DEF Lines
<1>2. Size(q) \in Nat /\ Lists(q, memory_references)
  BY InvariantFacts
<1> HIDE DEF y
<1>3. CASE Hit(y)
  <2>1. PICK k \in 1 .. Size(q) : Slot(q, k) = y /\ Moved(q, q', k)
    BY <1>1, <1>3, HitMoves
  <2>2. Refreshed(q, q', Slot(q, k))
    BY <1>2, <2>1, MovedRefreshes
  <2>3. QED
    BY <1>3, <2>1, <2>2 DEF Hit, y
<1>4. CASE Fill(y)
  <2>1. Size(q) < CacheLines /\ Appended(q, q', y, 0)
    BY <1>1, <1>4, FillAppends
  <2>2. y \notin memory_references /\ ret' = 1
    BY <1>4 DEF Fill
  <2>3. Entered(q, q', y, CacheLines)
    BY <1>2, <2>1, <2>2, AppendedEnters
  <2>4. QED
    BY <2>2, <2>3 DEF y
<1>5. CASE Evict(y)
  <2>1. Size(q) = CacheLines /\ Appended(q, q', y, 1)
    BY <1>1, <1>5, EvictAppends
  <2>2. y \notin memory_references /\ ret' = 1
    BY <1>5 DEF Evict
  <2>3. Entered(q, q', y, CacheLines)
    BY <1>2, <2>1, <2>2, AppendedEnters
  <2>4. QED
    BY <2>2, <2>3 DEF y
<1>6. QED
  BY <1>3, <1>4, <1>5 DEF Allocate, y

-----------------------------------------------------------------------------
(* The refinement of AbstractLRU *)

\* The age of a line in the queue is the number of slots behind its own.
LEMMA AgeOfSlot ==
  ASSUME NEW b, IsBuffer(b, Capacity), NEW S, Lists(b, S),
         NEW k \in 1 .. Size(b)
  PROVE  Age(b, Slot(b, k)) = Size(b) - k
<1>1. b.head \in Nat /\ b.tail \in Nat /\ b.head <= b.tail
  BY DEF IsBuffer
<1>2. \A i, j \in Window(b) : b.v[i] = b.v[j] => i = j
  BY InvariantBySlots
<1>3. b.head + k \in Window(b) /\ b.v[b.head + k] = Slot(b, k)
  BY <1>1 DEF Window, Slot, Size
<1>4. (CHOOSE i \in Window(b) : b.v[i] = Slot(b, k)) = b.head + k
  BY <1>2, <1>3
<1>5. Age(b, Slot(b, k)) = b.tail - (b.head + k)
  BY <1>3, <1>4 DEF Age
<1>6. QED
  BY <1>1, <1>5 DEF Size

LEMMA AgeOfAbsent ==
  ASSUME NEW b, IsBuffer(b, Capacity), NEW S, Lists(b, S), NEW y, y \notin S
  PROVE  Age(b, y) = CacheLines
BY InvariantBySlots DEF Age

\* The two cases for the age of a line, in an invariant state.
LEMMA AgeCases ==
  ASSUME IInv, NEW z \in Lines
  PROVE  \/ \E k \in 1 .. Size(q) : z = Slot(q, k) /\ Age(q, z) = Size(q) - k
         \/ z \notin memory_references /\ Age(q, z) = CacheLines
<1>1. IsBuffer(q, Capacity) /\ Lists(q, memory_references)
  BY InvariantFacts
<1>2. CASE z \in memory_references
  <2>1. PICK k \in 1 .. Size(q) : z = Slot(q, k)
    BY <1>1, <1>2 DEF Lists
  <2>2. QED
    BY <1>1, <2>1, AgeOfSlot
<1>3. CASE z \notin memory_references
  BY <1>1, <1>3, AgeOfAbsent
<1>4. QED
  BY <1>2, <1>3

\* The constructor leaves the residents with the ages 0, 1, 2 ...
LEMMA InitRefines == IInv /\ ret = 0 => Abstract!Init
<1> SUFFICES ASSUME IInv, ret = 0 PROVE Abstract!Init
  OBVIOUS
<1> DEFINE n == Size(q)
           age == [y \in Lines |-> Age(q, y)]
<1>1. /\ IsBuffer(q, Capacity) /\ Lists(q, memory_references)
      /\ n \in Nat /\ n <= CacheLines /\ CacheLines \in Nat
      /\ memory_references \in SUBSET Lines
  BY InvariantFacts, InvariantIsLists, CacheLinesAssumption
<1>2. \A k \in 1 .. n : Slot(q, k) \in Lines /\ age[Slot(q, k)] = n - k
  BY <1>1, AgeOfSlot DEF Lists
<1>3. \A z \in Lines : \/ \E k \in 1 .. n : z = Slot(q, k) /\ age[z] = n - k
                       \/ age[z] = CacheLines
  BY AgeCases
<1>4. age \in [Lines -> 0 .. CacheLines]
  <2>1. \A z \in Lines : age[z] \in 0 .. CacheLines
    <3> TAKE z \in Lines
    <3> HIDE DEF n, age
    <3>1. CASE age[z] = CacheLines
      BY <1>1, <3>1
    <3>2. CASE \E k \in 1 .. n : z = Slot(q, k) /\ age[z] = n - k
      BY <1>1, <3>2
    <3>3. QED
      BY <1>3, <3>1, <3>2
  <2>2. QED
    BY <2>1
<1> DEFINE Resident == {y \in Lines : age[y] < CacheLines}
<1> HIDE DEF n, age
<1>5. \A y \in Resident : \E k \in 1 .. n : y = Slot(q, k) /\ age[y] = n - k
  BY <1>1, <1>3
<1>6. \A k \in 1 .. n : Slot(q, k) \in Resident
  BY <1>1, <1>2
<1> HIDE DEF Resident
<1>7. \A y \in Resident : \A z \in Resident : age[y] = age[z] => y = z
  <2> SUFFICES ASSUME NEW y \in Resident, NEW z \in Resident, age[y] = age[z]
               PROVE  y = z
    OBVIOUS
  <2>1. PICK k \in 1 .. n : y = Slot(q, k) /\ age[y] = n - k
    BY <1>5
  <2>2. PICK j \in 1 .. n : z = Slot(q, j) /\ age[z] = n - j
    BY <1>5
  <2>3. n - k = n - j
    BY <2>1, <2>2
  <2>4. k = j
    BY <1>1, <2>3
  <2>5. QED
    BY <2>1, <2>2, <2>4
<1>8. \A y \in Resident : \A a \in 0 .. age[y] : \E z \in Resident : age[z] = a
  <2> SUFFICES ASSUME NEW y \in Resident, NEW a \in 0 .. age[y]
               PROVE  \E z \in Resident : age[z] = a
    OBVIOUS
  <2>1. PICK k \in 1 .. n : y = Slot(q, k) /\ age[y] = n - k
    BY <1>5
  <2>2. n - a \in 1 .. n /\ n - (n - a) = a
    BY <1>1, <2>1
  <2>3. QED
    BY <1>2, <1>6, <2>2
<1>9. QED
  BY <1>4, <1>7, <1>8 DEF Abstract!Init, Abstract!Resident, Resident, age

\* What a step has to do to the ages to be a reference to y.
Referenced(y) ==
  /\ ret' = IF Age(q, y) < CacheLines THEN 0 ELSE 1
  /\ \A z \in Lines :
       Age(q', z) = IF z = y THEN 0
                    ELSE IF Age(q, z) < Age(q, y) THEN Age(q, z) + 1
                    ELSE Age(q, z)

LEMMA ReferencedRefines ==
  ASSUME NEW y \in Lines, Referenced(y)
  PROVE  Abstract!Next
<1>1. [z \in Lines |-> Age(q', z)] =
        [z \in Lines |-> IF z = y THEN 0
                         ELSE IF Age(q, z) < Age(q, y) THEN Age(q, z) + 1
                         ELSE Age(q, z)]
  BY DEF Referenced
<1>2. [z \in Lines |-> IF z = y THEN 0
                       ELSE IF Age(q, z) < Age(q, y) THEN Age(q, z) + 1
                       ELSE Age(q, z)]
      = [z \in Lines |-> IF z = y THEN 0
                         ELSE IF [x \in Lines |-> Age(q, x)][z]
                                   < [x \in Lines |-> Age(q, x)][y]
                         THEN [x \in Lines |-> Age(q, x)][z] + 1
                         ELSE [x \in Lines |-> Age(q, x)][z]]
  OBVIOUS
<1>3. ret' = IF [x \in Lines |-> Age(q, x)][y] < CacheLines THEN 0 ELSE 1
  BY DEF Referenced
<1>4. Abstract!Reference(y)
  BY <1>1, <1>2, <1>3 DEF Abstract!Reference
<1>5. QED
  BY <1>4 DEF Abstract!Next

\* A hit in slot k: the lines behind it age by one, the others keep theirs.
LEMMA HitRefines ==
  ASSUME IInv, NEW y \in Lines, Hit(y)
  PROVE  Referenced(y)
<1> DEFINE n == Size(q)
<1>1. PICK k \in 1 .. n : Slot(q, k) = y /\ Moved(q, q', k)
  BY HitMoves
<1>2. /\ IsBuffer(q, Capacity) /\ Lists(q, memory_references)
      /\ n \in Nat /\ n <= CacheLines /\ CacheLines \in Nat
  BY InvariantFacts, CacheLinesAssumption
<1>3. IsBuffer(q', Capacity) /\ Lists(q', memory_references) /\ Size(q') = n
  BY <1>1, <1>2, MovedKeepsLists DEF Moved
<1>4. Age(q, y) = n - k
  BY <1>1, <1>2, AgeOfSlot
<1>5. \A i \in 1 .. n : Age(q, Slot(q, i)) = n - i /\ Age(q', Slot(q', i)) = n - i
  BY <1>2, <1>3, AgeOfSlot
<1>6. /\ \A i \in 1 .. n : i < k => Slot(q', i) = Slot(q, i)
      /\ \A i \in 1 .. n : k <= i /\ i < n => Slot(q', i) = Slot(q, i + 1)
      /\ Slot(q', n) = y
  BY <1>1 DEF Moved
<1>7. n \in 1 .. n
  BY <1>2
<1> HIDE DEF n
<1>8. ASSUME NEW z \in Lines
      PROVE  Age(q', z) = IF z = y THEN 0
                          ELSE IF Age(q, z) < Age(q, y) THEN Age(q, z) + 1
                          ELSE Age(q, z)
  <2>1. CASE z = y
    <3>1. Age(q', y) = n - n
      BY <1>5, <1>6, <1>7
    <3>2. QED
      BY <1>2, <2>1, <3>1
  <2>2. CASE z \in memory_references /\ z # y
    <3>1. PICK i \in 1 .. n : z = Slot(q, i)
      BY <1>2, <2>2 DEF Lists, n
    <3>2. i # k
      BY <1>1, <2>2, <3>1
    <3>3. CASE i < k
      <4>1. Age(q', z) = n - i /\ Age(q, z) = n - i
        BY <1>5, <1>6, <3>1, <3>3
      <4>2. ~ (n - i < n - k)
        BY <1>2, <3>3
      <4>3. QED
        BY <1>4, <2>2, <4>1, <4>2
    <3>4. CASE k < i
      <4>1. i - 1 \in 1 .. n /\ k <= i - 1 /\ i - 1 < n /\ (i - 1) + 1 = i
        BY <1>2, <3>4
      <4>2. Slot(q', i - 1) = z
        BY <1>6, <3>1, <4>1
      <4>3. Age(q', z) = n - (i - 1) /\ Age(q, z) = n - i
        BY <1>5, <3>1, <4>1, <4>2
      <4>4. n - (i - 1) = n - i + 1 /\ n - i < n - k
        BY <1>2, <3>4
      <4>5. QED
        BY <1>4, <2>2, <4>3, <4>4
    <3>5. QED
      BY <1>2, <3>2, <3>3, <3>4
  <2>3. CASE z \notin memory_references
    <3>1. Age(q, z) = CacheLines /\ Age(q', z) = CacheLines
      BY <1>2, <1>3, <2>3, AgeOfAbsent
    <3>2. ~ (CacheLines < n - k)
      BY <1>2
    <3>3. z # y
      BY <2>3 DEF Hit
    <3>4. QED
      BY <1>4, <3>1, <3>2, <3>3
  <2>4. QED
    BY <2>1, <2>2, <2>3
<1>9. ret' = IF Age(q, y) < CacheLines THEN 0 ELSE 1
  <2>1. n - k < CacheLines
    BY <1>2
  <2>2. QED
    BY <1>4, <2>1 DEF Hit
<1>10. QED
  BY <1>8, <1>9 DEF Referenced

\* A miss, of which the first lost slots are given up: every resident line
\* ages by one, and one that reaches cache_lines is no longer resident.
LEMMA MissRefines ==
  ASSUME IInv, NEW y \in Lines, y \notin memory_references, ret' = 1,
         NEW lost \in {0, 1}, Appended(q, q', y, lost), lost <= Size(q),
         lost = 1 => Size(q) = CacheLines
  PROVE  Referenced(y)
<1> DEFINE n == Size(q)
           S == (memory_references \cup {y}) \ {Slot(q, i) : i \in 1 .. lost}
<1>1. /\ IsBuffer(q, Capacity) /\ Lists(q, memory_references)
      /\ n \in Nat /\ n <= CacheLines /\ CacheLines \in Nat
  BY InvariantFacts, CacheLinesAssumption
<1>2. Lists(q', S)
  BY <1>1, AppendedLists
<1>3. IsBuffer(q', Capacity) /\ Size(q') = n - lost + 1
  BY DEF Appended
<1>4. Age(q, y) = CacheLines
  BY <1>1, AgeOfAbsent
<1>5. \A i \in 1 .. n : Age(q, Slot(q, i)) = n - i
  BY <1>1, AgeOfSlot
<1>6. \A i \in 1 .. n - lost + 1 : Age(q', Slot(q', i)) = (n - lost + 1) - i
  BY <1>2, <1>3, AgeOfSlot
<1>7. /\ \A i \in 1 .. n - lost : Slot(q', i) = Slot(q, i + lost)
      /\ Slot(q', n - lost + 1) = y
  BY <1>3 DEF Appended
<1>8. n = CacheLines \/ lost = 0
  OBVIOUS
<1>9. lost <= n
  OBVIOUS
<1> HIDE DEF n, S
<1>10. ASSUME NEW z \in Lines
       PROVE  Age(q', z) = IF z = y THEN 0
                           ELSE IF Age(q, z) < Age(q, y) THEN Age(q, z) + 1
                           ELSE Age(q, z)
  <2>1. CASE z = y
    <3>1. n - lost + 1 \in 1 .. n - lost + 1
      BY <1>1, <1>9
    <3>2. Age(q', y) = (n - lost + 1) - (n - lost + 1)
      BY <1>6, <1>7, <3>1
    <3>3. QED
      BY <1>1, <2>1, <3>2
  <2>2. CASE z \in memory_references
    <3>1. PICK i \in 1 .. n : z = Slot(q, i)
      BY <1>1, <2>2 DEF Lists, n
    <3>2. Age(q, z) = n - i /\ n - i < CacheLines /\ z # y
      BY <1>1, <1>5, <2>2, <3>1
    <3>3. CASE i <= lost
      <4>1. i = 1 /\ lost = 1 /\ n = CacheLines
        BY <1>8, <3>3
      <4>2. z \notin S
        BY <3>1, <4>1 DEF S
      <4>3. Age(q', z) = CacheLines
        BY <1>2, <1>3, <4>2, AgeOfAbsent
      <4>4. n - i + 1 = CacheLines
        BY <1>1, <4>1
      <4>5. QED
        BY <1>4, <3>2, <4>3, <4>4
    <3>4. CASE ~ (i <= lost)
      <4>1. /\ i - lost \in 1 .. n - lost /\ i - lost \in 1 .. n - lost + 1
            /\ (i - lost) + lost = i
            /\ (n - lost + 1) - (i - lost) = n - i + 1
        BY <1>1, <3>4
      <4>2. Slot(q', i - lost) = z
        BY <1>7, <3>1, <4>1
      <4>3. Age(q', z) = n - i + 1
        BY <1>6, <4>1, <4>2
      <4>4. QED
        BY <1>4, <3>2, <4>3
    <3>5. QED
      BY <3>3, <3>4
  <2>3. CASE z \notin memory_references /\ z # y
    <3>1. Age(q, z) = CacheLines
      BY <1>1, <2>3, AgeOfAbsent
    <3>2. z \notin S
      BY <2>3 DEF S
    <3>3. Age(q', z) = CacheLines
      BY <1>2, <1>3, <3>2, AgeOfAbsent
    <3>4. ~ (CacheLines < CacheLines)
      BY <1>1
    <3>5. QED
      BY <1>4, <2>3, <3>1, <3>3, <3>4
  <2>4. QED
    BY <2>1, <2>2, <2>3
<1>11. ret' = IF Age(q, y) < CacheLines THEN 0 ELSE 1
  BY <1>1, <1>4
<1>12. QED
  BY <1>10, <1>11 DEF Referenced

LEMMA StepRefines == IInv /\ [Next]_vars => [Abstract!Next]_(Abstract!vars)
<1> SUFFICES ASSUME IInv, [Next]_vars PROVE [Abstract!Next]_(Abstract!vars)
  OBVIOUS
<1>1. ASSUME NEW x \in Addresses, Allocate(x) PROVE Abstract!Next
  <2> DEFINE y == Line(x)
  <2>1. y \in Lines
    BY DEF Lines
  <2> HIDE DEF y
  <2>2. CASE Hit(y)
    BY <2>1, <2>2, HitRefines, ReferencedRefines
  <2>3. CASE Fill(y)
    <3>1. /\ y \notin memory_references /\ ret' = 1
          /\ Appended(q, q', y, 0) /\ 0 <= Size(q)
      BY <2>1, <2>3, FillAppends, InvariantFacts DEF Fill
    <3>2. Referenced(y)
      BY <2>1, <3>1, MissRefines
    <3>3. QED
      BY <2>1, <3>2, ReferencedRefines
  <2>4. CASE Evict(y)
    <3>1. /\ y \notin memory_references /\ ret' = 1
          /\ Appended(q, q', y, 1) /\ Size(q) = CacheLines
      BY <2>1, <2>4, EvictAppends DEF Evict
    <3>2. 1 <= Size(q)
      BY <3>1, CacheLinesAssumption
    <3>3. Referenced(y)
      BY <2>1, <3>1, <3>2, MissRefines
    <3>4. QED
      BY <2>1, <3>3, ReferencedRefines
  <2>5. QED
    BY <1>1, <2>2, <2>3, <2>4 DEF Allocate, y
<1>2. CASE UNCHANGED vars
  <2>1. UNCHANGED Abstract!vars
    BY <1>2 DEF vars, Abstract!vars
  <2>2. QED
    BY <2>1
<1>3. QED
  BY <1>1, <1>2 DEF Next

\* lru.cpp implements an LRU cache, for every number of lines, line size
\* and set of addresses: allocate() returns 1 exactly when the line is not
\* among the last cache_lines distinct lines referenced.
THEOREM ImplementsAbstractLRU == Spec => RefinesAbstractLRU
<1>1. Init => Abstract!Init
  <2>1. Init => ret = 0
    BY DEF Init, Constructed
  <2>2. QED
    BY <2>1, InitEstablishes, InitRefines
<1>2. QED
  BY <1>1, StepRefines, Invariance, PTL DEF Spec, RefinesAbstractLRU, Abstract!Spec
=============================================================================
