----------------------- MODULE CacheSimulation_proofs -----------------------
(***************************************************************************)
(* What holds of the two users of the caches in cache-simulation/, for all *)
(* sizes.  The comparison of policies (ReplacementPolicies): the stack     *)
(* property of LRU, the agreement of FIFO's set and queue, and the number  *)
(* of lines every policy holds.  The simulation of reference strings       *)
(* (TraceCacheMisses), whenever the alarm goes off: the progress reports   *)
(* neither kill the process nor stop coming, the cache keeps its set and   *)
(* its queue in agreement through both calls, and what the calls count is  *)
(* what the reuse distances in the strings say.  The two share the LRU     *)
(* cache and what LRU_proofs says of it.                                   *)
(***************************************************************************)
EXTENDS ReplacementPolicies, TraceCacheMisses, LRU_proofs, WellFoundedInduction

\* The smaller LRU cache is a second instance of lru.cpp, and the proof of
\* LRU_proofs holds of it too.
SP == INSTANCE LRU_proofs WITH
  CacheLines <- SmallerCacheLines,
  memory_references <- smaller_set, q <- smaller_q, ret <- smaller_ret

-----------------------------------------------------------------------------
(* The invariant of the comparison. *)

\* The queue a of a cache of SmallerCacheLines lines is the young end of the
\* queue b, and is shorter only for want of room.
YoungEnd(a, b) ==
  /\ Size(a) <= Size(b)
  /\ Size(a) < SmallerCacheLines => Size(a) = Size(b)
  /\ \A d \in 0 .. Size(a) - 1 : Back(a, d) = Back(b, d)

FifoInv ==
  /\ fifo_q \in Seq(Lines)
  /\ FifoSetMatchesQueue

\* A cache with the lines S that was given the lines U holds all of them,
\* or is full.
Filled(S, U) ==
  /\ S \subseteq U
  /\ Cardinality(S) <= CacheLines
  /\ Cardinality(S) = CacheLines \/ S = U

CompareInv ==
  /\ IInv /\ SP!IInv /\ YoungEnd(smaller_q, q)
  /\ FifoInv
  /\ seen \in SUBSET Lines /\ IsFiniteSet(seen)
  /\ Filled(memory_references, seen)
  /\ Filled(fifo_set, seen)
  /\ Filled(rand_set, seen)
  /\ fifo_ret \in {0, 1} /\ rand_ret \in {0, 1}

LEMMA SmallerIsACache ==
  /\ SmallerCacheLines \in Nat \ {0} /\ CacheLines \in Nat \ {0}
  /\ SmallerCacheLines <= CacheLines
BY SmallerAssumption, CacheLinesAssumption

-----------------------------------------------------------------------------
(* Two instances of lru.cpp *)

\* What LRU_proofs says of the smaller cache, in the terms of this module.
LEMMA SmallerFacts ==
  ASSUME SP!IInv
  PROVE  /\ Smaller!TypeOK
         /\ Lists(smaller_q, smaller_set)
         /\ Size(smaller_q) \in Nat /\ Size(smaller_q) <= SmallerCacheLines
<1>1. /\ SP!Lists(smaller_q, smaller_set)
      /\ SP!Size(smaller_q) \in Nat /\ SP!Size(smaller_q) <= SmallerCacheLines
  BY SP!InvariantFacts, SmallerIsACache, CacheLineSizeAssumption, AddressesAssumption
<1>2. Smaller!TypeOK
  BY DEF SP!IInv, SP!TypeOK, SP!Lines, SP!Line, SP!Capacity,
         Smaller!TypeOK, Smaller!Lines, Smaller!Line, Smaller!Capacity
<1>3. QED
  BY <1>1, <1>2 DEF SP!Lists, SP!Size, SP!Slot, Lists, Size, Slot

LEMMA SmallerStep ==
  ASSUME NEW x, Smaller!Allocate(x)
  PROVE  SP!Allocate(x)
<1>1. \A b, y : Smaller!MoveToBack(b, y) = SP!MoveToBack(b, y)
  BY DEF SP!MoveToBack, Smaller!MoveToBack, SP!IsLastSlotOf, Smaller!IsLastSlotOf,
         SP!Window, Smaller!Window
<1>2. \A b, y : Smaller!EmplaceBack(b, y) = SP!EmplaceBack(b, y)
  BY DEF SP!EmplaceBack, Smaller!EmplaceBack, SP!MakeRoom, Smaller!MakeRoom,
         SP!RotateLeft, Smaller!RotateLeft
<1>3. \A b : Smaller!PopFront(b) = SP!PopFront(b) /\ Smaller!FrontOf(b) = SP!FrontOf(b)
  BY DEF SP!PopFront, Smaller!PopFront, SP!FrontOf, Smaller!FrontOf
<1>4. Smaller!Line(x) = SP!Line(x)
  BY DEF Smaller!Line, SP!Line
<1>5. \A y : Smaller!Hit(y) => SP!Hit(y)
  BY <1>1 DEF Smaller!Hit, SP!Hit
<1>6. \A y : Smaller!Fill(y) => SP!Fill(y)
  BY <1>2 DEF Smaller!Fill, SP!Fill, Smaller!Cardinality, SP!Cardinality
<1>7. \A y : Smaller!Evict(y) => SP!Evict(y)
  BY <1>2, <1>3 DEF Smaller!Evict, SP!Evict, Smaller!Cardinality, SP!Cardinality
<1>8. QED
  BY <1>4, <1>5, <1>6, <1>7 DEF Smaller!Allocate, SP!Allocate

LEMMA SmallerKeepsInvariant ==
  ASSUME SP!IInv, NEW x \in Addresses, Smaller!Allocate(x)
  PROVE  SP!IInv'
<1>1. SP!Next
  BY SmallerStep DEF SP!Next
<1>2. QED
  BY <1>1, SP!StepKeepsInvariant, SmallerIsACache, CacheLineSizeAssumption,
     AddressesAssumption

LEMMA SmallerByAge ==
  ASSUME SP!IInv, NEW x \in Addresses, Smaller!Allocate(x)
  PROVE  \/ /\ smaller_ret' = 0 /\ Line(x) \in smaller_set
            /\ Refreshed(smaller_q, smaller_q', Line(x))
         \/ /\ smaller_ret' = 1 /\ Line(x) \notin smaller_set
            /\ Entered(smaller_q, smaller_q', Line(x), SmallerCacheLines)
<1>1. \/ /\ smaller_ret' = 0 /\ SP!Line(x) \in smaller_set
         /\ SP!Refreshed(smaller_q, smaller_q', SP!Line(x))
      \/ /\ smaller_ret' = 1 /\ SP!Line(x) \notin smaller_set
         /\ SP!Entered(smaller_q, smaller_q', SP!Line(x), SmallerCacheLines)
  BY SmallerStep, SP!AllocateByAge, SmallerIsACache, CacheLineSizeAssumption,
     AddressesAssumption
<1>2. SP!Line(x) = Line(x)
  BY DEF SP!Line, Line
<1>3. \A b, d : SP!Back(b, d) = Back(b, d) /\ SP!Size(b) = Size(b)
  BY DEF SP!Back, SP!Slot, SP!Size, Back, Slot, Size
<1>4. \A b, r, y : SP!Refreshed(b, r, y) => Refreshed(b, r, y)
  BY <1>3 DEF SP!Refreshed, Refreshed
<1>5. \A b, r, y, c : SP!Entered(b, r, y, c) => Entered(b, r, y, c)
  BY <1>3 DEF SP!Entered, Entered
<1>6. QED
  BY <1>1, <1>2, <1>4, <1>5

-----------------------------------------------------------------------------
(* The stack property: one reference leaves the smaller queue the young end *)
(* of the larger.                                                          *)

LEMMA BothRefreshed ==
  ASSUME NEW a, NEW b, NEW y, NEW a1, NEW b1,
         Size(a) \in Nat, Size(b) \in Nat, YoungEnd(a, b),
         \A d, e \in 0 .. Size(b) - 1 : Back(b, d) = Back(b, e) => d = e,
         Refreshed(a, a1, y), Refreshed(b, b1, y)
  PROVE  YoungEnd(a1, b1)
<1>1. PICK h \in 0 .. Size(a) - 1 :
        /\ Back(a, h) = y
        /\ Size(a1) = Size(a)
        /\ Back(a1, 0) = y
        /\ \A d \in 1 .. h : Back(a1, d) = Back(a, d - 1)
        /\ \A d \in h + 1 .. Size(a) - 1 : Back(a1, d) = Back(a, d)
  BY DEF Refreshed
<1>2. PICK g \in 0 .. Size(b) - 1 :
        /\ Back(b, g) = y
        /\ Size(b1) = Size(b)
        /\ Back(b1, 0) = y
        /\ \A d \in 1 .. g : Back(b1, d) = Back(b, d - 1)
        /\ \A d \in g + 1 .. Size(b) - 1 : Back(b1, d) = Back(b, d)
  BY DEF Refreshed
<1>3. /\ Size(a) <= Size(b)
      /\ Size(a) < SmallerCacheLines => Size(a) = Size(b)
      /\ \A d \in 0 .. Size(a) - 1 : Back(a, d) = Back(b, d)
  BY DEF YoungEnd
<1>4. h = g
  BY <1>1, <1>2, <1>3
<1>5. ASSUME NEW d \in 0 .. Size(a) - 1 PROVE Back(a1, d) = Back(b1, d)
  <2>1. CASE d = 0
    BY <1>1, <1>2, <2>1
  <2>2. CASE d \in 1 .. h
    <3>1. d - 1 \in 0 .. Size(a) - 1
      BY <2>2
    <3>2. QED
      BY <1>1, <1>2, <1>3, <1>4, <2>2, <3>1
  <2>3. CASE d \in h + 1 .. Size(a) - 1
    <3>1. d \in g + 1 .. Size(b) - 1
      BY <1>3, <1>4, <2>3
    <3>2. QED
      BY <1>1, <1>2, <1>3, <2>3, <3>1
  <2>4. QED
    BY <2>1, <2>2, <2>3
<1>6. QED
  BY <1>1, <1>2, <1>3, <1>5 DEF YoungEnd

\* The line left the smaller cache and the larger still has it: the smaller
\* one is full, and everything it holds is younger in the larger.
LEMMA EnteredAndRefreshed ==
  ASSUME NEW a, NEW b, NEW y, NEW a1, NEW b1,
         Size(a) \in Nat, Size(b) \in Nat, Size(a) <= SmallerCacheLines,
         YoungEnd(a, b),
         Entered(a, a1, y, SmallerCacheLines), Refreshed(b, b1, y)
  PROVE  YoungEnd(a1, b1)
<1>1. /\ \A d \in 0 .. Size(a) - 1 : Back(a, d) # y
      /\ Size(a1) = IF Size(a) < SmallerCacheLines THEN Size(a) + 1
                    ELSE SmallerCacheLines
      /\ Back(a1, 0) = y
      /\ \A d \in 1 .. Size(a1) - 1 : Back(a1, d) = Back(a, d - 1)
  BY DEF Entered
<1>2. PICK g \in 0 .. Size(b) - 1 :
        /\ Back(b, g) = y
        /\ Size(b1) = Size(b)
        /\ Back(b1, 0) = y
        /\ \A d \in 1 .. g : Back(b1, d) = Back(b, d - 1)
        /\ \A d \in g + 1 .. Size(b) - 1 : Back(b1, d) = Back(b, d)
  BY DEF Refreshed
<1>3. /\ Size(a) <= Size(b)
      /\ Size(a) < SmallerCacheLines => Size(a) = Size(b)
      /\ \A d \in 0 .. Size(a) - 1 : Back(a, d) = Back(b, d)
  BY DEF YoungEnd
<1>4. g >= Size(a)
  BY <1>1, <1>2, <1>3
<1>5. Size(a) = SmallerCacheLines /\ Size(a1) = Size(a)
  BY <1>1, <1>3, <1>4, SmallerIsACache
<1>6. ASSUME NEW d \in 0 .. Size(a) - 1 PROVE Back(a1, d) = Back(b1, d)
  <2>1. CASE d = 0
    BY <1>1, <1>2, <2>1
  <2>2. CASE d # 0
    <3>1. d \in 1 .. Size(a1) - 1 /\ d \in 1 .. g /\ d - 1 \in 0 .. Size(a) - 1
      BY <1>4, <1>5, <2>2
    <3>2. QED
      BY <1>1, <1>2, <1>3, <3>1
  <2>3. QED
    BY <2>1, <2>2
<1>7. QED
  BY <1>2, <1>3, <1>5, <1>6 DEF YoungEnd

LEMMA BothEntered ==
  ASSUME NEW a, NEW b, NEW y, NEW a1, NEW b1,
         Size(a) \in Nat, Size(b) \in Nat,
         Size(a) <= SmallerCacheLines, Size(b) <= CacheLines,
         YoungEnd(a, b),
         Entered(a, a1, y, SmallerCacheLines), Entered(b, b1, y, CacheLines)
  PROVE  YoungEnd(a1, b1)
<1>1. /\ Size(a1) = IF Size(a) < SmallerCacheLines THEN Size(a) + 1
                    ELSE SmallerCacheLines
      /\ Back(a1, 0) = y
      /\ \A d \in 1 .. Size(a1) - 1 : Back(a1, d) = Back(a, d - 1)
  BY DEF Entered
<1>2. /\ Size(b1) = IF Size(b) < CacheLines THEN Size(b) + 1 ELSE CacheLines
      /\ Back(b1, 0) = y
      /\ \A d \in 1 .. Size(b1) - 1 : Back(b1, d) = Back(b, d - 1)
  BY DEF Entered
<1>3. /\ Size(a) <= Size(b)
      /\ Size(a) < SmallerCacheLines => Size(a) = Size(b)
      /\ \A d \in 0 .. Size(a) - 1 : Back(a, d) = Back(b, d)
  BY DEF YoungEnd
<1>4. /\ Size(a1) \in Nat /\ Size(b1) \in Nat
      /\ Size(a1) <= Size(b1) /\ Size(a1) <= Size(a) + 1
      /\ Size(a1) < SmallerCacheLines => Size(a1) = Size(b1)
  BY <1>1, <1>2, <1>3, SmallerIsACache
<1>5. ASSUME NEW d \in 0 .. Size(a1) - 1 PROVE Back(a1, d) = Back(b1, d)
  <2>1. CASE d = 0
    BY <1>1, <1>2, <2>1
  <2>2. CASE d # 0
    <3>1. /\ d \in 1 .. Size(a1) - 1 /\ d \in 1 .. Size(b1) - 1
          /\ d - 1 \in 0 .. Size(a) - 1
      BY <1>4, <2>2
    <3>2. QED
      BY <1>1, <1>2, <1>3, <3>1
  <2>3. QED
    BY <2>1, <2>2
<1>6. QED
  BY <1>4, <1>5 DEF YoungEnd

\* What the smaller cache holds, the larger holds.
LEMMA YoungEndIsIncluded ==
  ASSUME IInv, SP!IInv, YoungEnd(smaller_q, q)
  PROVE  smaller_set \subseteq memory_references
<1>1. smaller_set = {Back(smaller_q, d) : d \in 0 .. Size(smaller_q) - 1}
  BY SmallerFacts, SlotsAreAges
<1>2. memory_references = {Back(q, d) : d \in 0 .. Size(q) - 1}
  BY InvariantFacts, SlotsAreAges
<1>3. \A d \in 0 .. Size(smaller_q) - 1 : d \in 0 .. Size(q) - 1
  BY SmallerFacts, InvariantFacts DEF YoungEnd
<1>4. QED
  BY <1>1, <1>2, <1>3 DEF YoungEnd

LEMMA YoungEndKept ==
  ASSUME IInv, SP!IInv, YoungEnd(smaller_q, q),
         NEW x \in Addresses, Allocate(x), Smaller!Allocate(x)
  PROVE  YoungEnd(smaller_q', q') /\ ret' <= smaller_ret'
<1> DEFINE y == Line(x)
<1>1. \/ ret' = 0 /\ y \in memory_references /\ Refreshed(q, q', y)
      \/ ret' = 1 /\ y \notin memory_references /\ Entered(q, q', y, CacheLines)
  BY AllocateByAge
<1>2. \/ smaller_ret' = 0 /\ y \in smaller_set /\ Refreshed(smaller_q, smaller_q', y)
      \/ /\ smaller_ret' = 1 /\ y \notin smaller_set
         /\ Entered(smaller_q, smaller_q', y, SmallerCacheLines)
  BY SmallerByAge
<1>3. /\ Size(q) \in Nat /\ Size(q) <= CacheLines
      /\ \A d, e \in 0 .. Size(q) - 1 : Back(q, d) = Back(q, e) => d = e
  BY InvariantFacts, SlotsAreAges
<1>4. Size(smaller_q) \in Nat /\ Size(smaller_q) <= SmallerCacheLines
  BY SmallerFacts
<1>5. smaller_set \subseteq memory_references
  BY YoungEndIsIncluded
<1> HIDE DEF y
<1>6. ASSUME Refreshed(smaller_q, smaller_q', y), Refreshed(q, q', y)
      PROVE  YoungEnd(smaller_q', q')
  BY <1>3, <1>4, <1>6, BothRefreshed
<1>7. ASSUME Entered(smaller_q, smaller_q', y, SmallerCacheLines),
             Refreshed(q, q', y)
      PROVE  YoungEnd(smaller_q', q')
  BY <1>3, <1>4, <1>7, EnteredAndRefreshed
<1>8. ASSUME Entered(smaller_q, smaller_q', y, SmallerCacheLines),
             Entered(q, q', y, CacheLines)
      PROVE  YoungEnd(smaller_q', q')
  BY <1>3, <1>4, <1>8, BothEntered
<1>9. YoungEnd(smaller_q', q')
  BY <1>1, <1>2, <1>5, <1>6, <1>7, <1>8
<1>10. ret' <= smaller_ret'
  BY <1>1, <1>2, <1>5
<1>11. QED
  BY <1>9, <1>10

-----------------------------------------------------------------------------
(* What a cache holds of the lines it was given *)

\* A policy that adds a line while there is room, and otherwise gives up one
\* line for it, holds everything or is full.
LEMMA StaysFilled ==
  ASSUME NEW S, NEW U, NEW T, NEW y, IsFiniteSet(U), Filled(S, U),
         \/ y \in S /\ T = S
         \/ y \notin S /\ Cardinality(S) # CacheLines /\ T = S \cup {y}
         \/ /\ y \notin S /\ Cardinality(S) = CacheLines
            /\ \E z \in S : T = (S \cup {y}) \ {z}
  PROVE  Filled(T, U \cup {y})
<1>1. IsFiniteSet(S) /\ Cardinality(S) \in Nat
  BY FS_Subset, FS_CardinalityType DEF Filled
<1>2. CASE y \in S /\ T = S
  <2>1. U \cup {y} = U
    BY <1>2 DEF Filled
  <2>2. QED
    BY <1>2, <2>1
<1>3. CASE y \notin S /\ Cardinality(S) # CacheLines /\ T = S \cup {y}
  <2>1. S = U
    BY <1>3 DEF Filled
  <2>2. Cardinality(T) = Cardinality(S) + 1
    BY <1>1, <1>3, FS_AddElement
  <2>3. QED
    BY <1>1, <1>3, <2>1, <2>2, CacheLinesAssumption DEF Filled
<1>4. CASE /\ y \notin S /\ Cardinality(S) = CacheLines
           /\ \E z \in S : T = (S \cup {y}) \ {z}
  <2>1. PICK z \in S : T = (S \cup {y}) \ {z}
    BY <1>4
  <2>2. IsFiniteSet(S \cup {y}) /\ Cardinality(S \cup {y}) = Cardinality(S) + 1
    BY <1>1, <1>4, FS_AddElement
  <2>3. Cardinality(T) = Cardinality(S)
    <3> DEFINE V == S \cup {y}
    <3>1. z \in V /\ IsFiniteSet(V) /\ Cardinality(V) = Cardinality(S) + 1 /\ T = V \ {z}
      BY <2>1, <2>2
    <3> HIDE DEF V
    <3>2. Cardinality(T) = Cardinality(V) - 1
      BY <3>1, FS_RemoveElement, Zenon
    <3>3. QED
      BY <1>1, <2>2, <3>2 DEF V
  <2>4. T \subseteq U \cup {y}
    BY <2>1 DEF Filled
  <2>5. QED
    BY <1>1, <1>4, <2>3, <2>4, CacheLinesAssumption DEF Filled
<1>5. QED
  BY <1>2, <1>3, <1>4

LEMMA MinOfTwo ==
  ASSUME NEW a \in Nat, NEW b \in Nat
  PROVE  Min({a, b}) = IF a <= b THEN a ELSE b
<1>1. /\ (IF a <= b THEN a ELSE b) \in {a, b}
      /\ \A m \in {a, b} : (IF a <= b THEN a ELSE b) <= m
  OBVIOUS
<1>2. \A m \in {a, b} : (\A k \in {a, b} : m <= k) => m = IF a <= b THEN a ELSE b
  OBVIOUS
<1>3. QED
  BY <1>1, <1>2 DEF Min

LEMMA FilledCount ==
  ASSUME NEW S, NEW U, IsFiniteSet(U), Filled(S, U)
  PROVE  Cardinality(S) = Min({CacheLines, Cardinality(U)})
<1>1. /\ Cardinality(S) \in Nat /\ Cardinality(U) \in Nat
      /\ Cardinality(S) <= Cardinality(U)
  BY FS_Subset, FS_CardinalityType DEF Filled
<1>2. Min({CacheLines, Cardinality(U)}) =
        IF CacheLines <= Cardinality(U) THEN CacheLines ELSE Cardinality(U)
  BY <1>1, MinOfTwo, CacheLinesAssumption
<1>3. QED
  BY <1>1, <1>2, CacheLinesAssumption DEF Filled

\* The instances bring the standard module's operator under their own names.
LEMMA SameCardinality ==
  \A S : Fifo!Cardinality(S) = Cardinality(S) /\ Rand!Cardinality(S) = Cardinality(S)
BY DEF Fifo!Cardinality, Rand!Cardinality, Cardinality

LEMMA LruStaysFilled ==
  ASSUME IInv, IsFiniteSet(seen), Filled(memory_references, seen),
         NEW x \in Addresses, Allocate(x)
  PROVE  Filled(memory_references', seen \cup {Line(x)})
<1> DEFINE y == Line(x)
<1>1. y \in Lines
  BY DEF Lines
<1> HIDE DEF y
<1>2. CASE Hit(y)
  BY <1>2, StaysFilled DEF Hit, y
<1>3. CASE Fill(y)
  <2>1. Cardinality(memory_references) # CacheLines
    BY <1>1, <1>3, FillAppends, InvariantFacts, CacheLinesAssumption
  <2>2. QED
    BY <1>3, <2>1, StaysFilled DEF Fill, y
<1>4. CASE Evict(y)
  <2>1. Size(q) = CacheLines /\ FrontOf(q) = Slot(q, 1)
    BY <1>1, <1>4, EvictAppends
  <2>2. FrontOf(q) \in memory_references
    BY <2>1, InvariantFacts, CacheLinesAssumption DEF Lists
  <2>3. Cardinality(memory_references) = CacheLines
    BY <2>1, InvariantFacts
  <2>4. QED
    BY <1>4, <2>2, <2>3, StaysFilled DEF Evict, y
<1>5. QED
  BY <1>2, <1>3, <1>4 DEF Allocate, y

LEMMA RandStaysFilled ==
  ASSUME IsFiniteSet(seen), Filled(rand_set, seen), NEW x, Rand!Allocate(x)
  PROVE  Filled(rand_set', seen \cup {Line(x)}) /\ rand_ret' \in {0, 1}
<1> DEFINE y == Line(x)
<1>1. Rand!Line(x) = y
  BY DEF Rand!Line, Line
<1> HIDE DEF y
<1>2. /\ \/ y \in rand_set /\ rand_set' = rand_set
         \/ /\ y \notin rand_set /\ Cardinality(rand_set) # CacheLines
            /\ rand_set' = rand_set \cup {y}
         \/ /\ y \notin rand_set /\ Cardinality(rand_set) = CacheLines
            /\ \E z \in rand_set : rand_set' = (rand_set \cup {y}) \ {z}
      /\ rand_ret' \in {0, 1}
  <2>1. CASE Rand!Hit(y)
    BY <2>1 DEF Rand!Hit
  <2>2. CASE Rand!Fill(y)
    BY <2>2, SameCardinality DEF Rand!Fill
  <2>3. CASE Rand!Evict(y)
    <3>1. PICK z \in rand_set : rand_set' = (rand_set \ {z}) \cup {y}
      BY <2>3 DEF Rand!Evict
    <3>2. rand_set' = (rand_set \cup {y}) \ {z} /\ y \notin rand_set
      BY <2>3, <3>1 DEF Rand!Evict
    <3>3. QED
      BY <2>3, <3>2, SameCardinality DEF Rand!Evict
  <2>4. QED
    BY <1>1, <2>1, <2>2, <2>3 DEF Rand!Allocate
<1>3. QED
  BY <1>2, StaysFilled DEF y

-----------------------------------------------------------------------------
(* FIFO *)

\* The queue without its oldest line, and with a new line behind it.
LEMMA FifoPop ==
  ASSUME NEW s \in Seq(Lines), IsInjective(s), Len(s) > 0
  PROVE  /\ Tail(s) \in Seq(Lines) /\ Len(Tail(s)) = Len(s) - 1
         /\ IsInjective(Tail(s))
         /\ Head(s) \in Range(s) /\ Range(Tail(s)) = Range(s) \ {Head(s)}
<1> DEFINE n == Len(s)
           rest == Tail(s)
<1>1. /\ n \in Nat /\ n > 0 /\ DOMAIN s = 1 .. n /\ Head(s) = s[1]
      /\ rest \in Seq(Lines) /\ Len(rest) = n - 1 /\ DOMAIN rest = 1 .. n - 1
      /\ \A i \in 1 .. n - 1 : rest[i] = s[i + 1]
  OBVIOUS
<1>2. \A i, j \in 1 .. n : s[i] = s[j] => i = j
  BY <1>1 DEF IsInjective
<1> HIDE DEF n, rest
<1>3. \A i \in 1 .. n - 1 : i + 1 \in 1 .. n /\ i + 1 # 1
  BY <1>1
<1>4. 1 \in 1 .. n /\ \A i \in 1 .. n : i = 1 \/ (i - 1 \in 1 .. n - 1 /\ (i - 1) + 1 = i)
  BY <1>1
<1>5. \A i, j \in 1 .. n - 1 : rest[i] = rest[j] => i = j
  <2> SUFFICES ASSUME NEW i \in 1 .. n - 1, NEW j \in 1 .. n - 1, rest[i] = rest[j]
               PROVE  i = j
    OBVIOUS
  <2>1. i + 1 = j + 1
    BY <1>1, <1>2, <1>3
  <2>2. QED
    BY <2>1
<1>6. IsInjective(rest)
  BY <1>1, <1>5 DEF IsInjective
<1>7. Range(s) = {s[i] : i \in 1 .. n} /\ Range(rest) = {rest[i] : i \in 1 .. n - 1}
  BY <1>1 DEF Range
<1>8. \A i \in 1 .. n - 1 : rest[i] \in Range(s) \ {s[1]}
  BY <1>1, <1>2, <1>3, <1>4, <1>7
<1>9. \A i \in 1 .. n : s[i] = s[1] \/ s[i] \in Range(rest)
  BY <1>1, <1>4, <1>7
<1>10. Range(rest) = Range(s) \ {s[1]}
  BY <1>7, <1>8, <1>9
<1>11. QED
  BY <1>1, <1>4, <1>6, <1>7, <1>10 DEF n, rest

LEMMA FifoPush ==
  ASSUME NEW s \in Seq(Lines), IsInjective(s), NEW y \in Lines, y \notin Range(s)
  PROVE  /\ Append(s, y) \in Seq(Lines) /\ Len(Append(s, y)) = Len(s) + 1
         /\ IsInjective(Append(s, y))
         /\ Range(Append(s, y)) = Range(s) \cup {y}
<1> DEFINE n == Len(s)
           rest == Append(s, y)
<1>1. /\ n \in Nat /\ DOMAIN s = 1 .. n
      /\ rest \in Seq(Lines) /\ Len(rest) = n + 1 /\ DOMAIN rest = 1 .. n + 1
      /\ \A i \in 1 .. n : rest[i] = s[i]
      /\ rest[n + 1] = y
  OBVIOUS
<1>2. \A i, j \in 1 .. n : s[i] = s[j] => i = j
  BY <1>1 DEF IsInjective
<1> HIDE DEF n, rest
<1>3. \A i \in 1 .. n + 1 : i \in 1 .. n \/ i = n + 1
  BY <1>1
<1>4. n + 1 \in 1 .. n + 1 /\ \A i \in 1 .. n : i \in 1 .. n + 1
  BY <1>1
<1>5. Range(s) = {s[i] : i \in 1 .. n} /\ Range(rest) = {rest[i] : i \in 1 .. n + 1}
  BY <1>1 DEF Range
<1>6. \A i, j \in 1 .. n + 1 : rest[i] = rest[j] => i = j
  BY <1>1, <1>2, <1>3, <1>5
<1>7. IsInjective(rest)
  BY <1>1, <1>6 DEF IsInjective
<1>8. Range(rest) = Range(s) \cup {y}
  BY <1>1, <1>3, <1>4, <1>5
<1>9. QED
  BY <1>1, <1>7, <1>8 DEF n, rest

\* The queue of distinct lines is as long as the set is large.
LEMMA FifoCardinality ==
  ASSUME FifoInv
  PROVE  IsFiniteSet(fifo_set) /\ Cardinality(fifo_set) = Len(fifo_q)
<1> DEFINE n == Len(fifo_q)
<1>1. /\ n \in Nat /\ DOMAIN fifo_q = 1 .. n
      /\ fifo_set = {fifo_q[i] : i \in 1 .. n}
      /\ \A i, j \in 1 .. n : fifo_q[i] = fifo_q[j] => i = j
  BY DEF FifoInv, FifoSetMatchesQueue, Range, IsInjective
<1>2. fifo_q \in [1 .. n -> fifo_set]
  BY <1>1 DEF FifoInv
<1> HIDE DEF n
<1>3. fifo_q \in Bijection(1 .. n, fifo_set)
  BY <1>1, <1>2 DEF Bijection, Injection, Surjection, IsInjective
<1>4. ExistsBijection(1 .. n, fifo_set)
  BY <1>3 DEF ExistsBijection
<1>5. IsFiniteSet(1 .. n) /\ Cardinality(1 .. n) = n
  BY <1>1, FS_Interval
<1>6. QED
  BY <1>4, <1>5, FS_Bijection DEF n

LEMMA FifoStep ==
  ASSUME FifoInv, IsFiniteSet(seen), Filled(fifo_set, seen),
         NEW x \in Addresses, Fifo!Allocate(x)
  PROVE  FifoInv' /\ Filled(fifo_set', seen \cup {Line(x)}) /\ fifo_ret' \in {0, 1}
<1> DEFINE y == Line(x)
<1>1. y \in Lines /\ Fifo!Line(x) = y
  BY DEF Lines, Line, Fifo!Line
<1>2. /\ fifo_q \in Seq(Lines) /\ IsInjective(fifo_q)
      /\ fifo_set = Range(fifo_q) /\ Len(fifo_q) <= CacheLines
      /\ Len(fifo_q) \in Nat
      /\ IsFiniteSet(fifo_set) /\ Cardinality(fifo_set) = Len(fifo_q)
  BY FifoCardinality DEF FifoInv, FifoSetMatchesQueue
<1>3. ASSUME fifo_q' \in Seq(Lines), IsInjective(fifo_q'),
             fifo_set' = Range(fifo_q'), Len(fifo_q') <= CacheLines
      PROVE  FifoInv'
  BY <1>3 DEF FifoInv, FifoSetMatchesQueue, Lines, Line
<1> HIDE DEF y
<1>4. y \notin fifo_set => Cardinality(fifo_set \cup {y}) = Len(fifo_q) + 1
  BY <1>2, FS_AddElement
<1>5. ASSUME Fifo!Hit(y)
      PROVE  FifoInv' /\ Filled(fifo_set', seen \cup {y}) /\ fifo_ret' \in {0, 1}
  <2>1. y \in fifo_set /\ fifo_set' = fifo_set /\ fifo_q' = fifo_q /\ fifo_ret' = 0
    BY <1>5 DEF Fifo!Hit
  <2>2. Filled(fifo_set', seen \cup {y})
    BY <2>1, StaysFilled
  <2>3. FifoInv'
    BY <1>2, <1>3, <2>1
  <2>4. QED
    BY <2>1, <2>2, <2>3
<1>6. ASSUME Fifo!Fill(y)
      PROVE  FifoInv' /\ Filled(fifo_set', seen \cup {y}) /\ fifo_ret' \in {0, 1}
  <2>1. /\ y \notin fifo_set /\ Cardinality(fifo_set \cup {y}) <= CacheLines
        /\ fifo_set' = fifo_set \cup {y} /\ fifo_q' = Append(fifo_q, y)
        /\ fifo_ret' = 1
    BY <1>6, SameCardinality DEF Fifo!Fill
  <2>2. Cardinality(fifo_set) # CacheLines /\ Len(fifo_q) + 1 <= CacheLines
    BY <1>2, <1>4, <2>1, CacheLinesAssumption
  <2>3. Filled(fifo_set', seen \cup {y})
    BY <2>1, <2>2, StaysFilled
  <2>4. FifoInv'
    BY <1>1, <1>2, <1>3, <2>1, <2>2, FifoPush
  <2>5. QED
    BY <2>1, <2>3, <2>4
<1>7. ASSUME Fifo!Evict(y)
      PROVE  FifoInv' /\ Filled(fifo_set', seen \cup {y}) /\ fifo_ret' \in {0, 1}
  <2>1. /\ y \notin fifo_set /\ Cardinality(fifo_set \cup {y}) > CacheLines
        /\ fifo_set' = (fifo_set \cup {y}) \ {Head(fifo_q)}
        /\ fifo_q' = Append(Tail(fifo_q), y)
        /\ fifo_ret' = 1
    BY <1>7, SameCardinality DEF Fifo!Evict
  <2>2. Cardinality(fifo_set) = CacheLines /\ Len(fifo_q) = CacheLines /\ Len(fifo_q) > 0
    BY <1>2, <1>4, <2>1, CacheLinesAssumption
  <2>3. /\ Tail(fifo_q) \in Seq(Lines) /\ Len(Tail(fifo_q)) = Len(fifo_q) - 1
        /\ IsInjective(Tail(fifo_q))
        /\ Head(fifo_q) \in fifo_set
        /\ Range(Tail(fifo_q)) = fifo_set \ {Head(fifo_q)}
    BY <1>2, <2>2, FifoPop
  <2>4. Filled(fifo_set', seen \cup {y})
    BY <2>1, <2>2, <2>3, StaysFilled
  <2>5. y \notin Range(Tail(fifo_q))
    BY <2>1, <2>3
  <2>6. /\ fifo_q' \in Seq(Lines) /\ Len(fifo_q') = Len(Tail(fifo_q)) + 1
        /\ IsInjective(fifo_q')
        /\ Range(fifo_q') = Range(Tail(fifo_q)) \cup {y}
    BY <1>1, <2>1, <2>3, <2>5, FifoPush
  <2>7. fifo_set' = Range(fifo_q')
    BY <2>1, <2>3, <2>6
  <2>8. Len(fifo_q') <= CacheLines
    BY <1>2, <2>2, <2>3, <2>6
  <2>9. FifoInv'
    BY <1>3, <2>6, <2>7, <2>8
  <2>10. QED
    BY <2>1, <2>4, <2>9
<1>8. QED
  BY <1>1, <1>5, <1>6, <1>7 DEF Fifo!Allocate, y

-----------------------------------------------------------------------------
(* The invariant holds *)

LEMMA CompareInitEstablishes == CompareInit => CompareInv
<1> SUFFICES ASSUME NEW n \in 0 .. SmallerCacheLines, NEW s \in [1 .. n -> Lines],
                    IsInjective(s), Constructed(s), Smaller!Constructed(s),
                    Fifo!Constructed(s), Rand!Constructed(Range(s)),
                    seen = Range(s)
             PROVE  CompareInv
  BY DEF CompareInit
<1>1. /\ n \in Nat /\ n <= SmallerCacheLines /\ n \in 0 .. CacheLines
      /\ DOMAIN s = 1 .. n /\ s \in Seq(Lines) /\ Len(s) = n
  BY SmallerIsACache
<1>2. Range(s) = {s[i] : i \in 1 .. n} /\ Range(s) \subseteq Lines
  BY <1>1 DEF Range
<1>3. IInv
  BY <1>1, InitEstablishes DEF Init
<1>4. SP!IInv
  <2>1. SP!Constructed(s) /\ SP!Lines = Lines /\ SP!IsInjective(s)
    BY DEF SP!Constructed, Smaller!Constructed, SP!Capacity, Smaller!Capacity,
           SP!Lines, SP!Line, Lines, Line, SP!IsInjective, IsInjective
  <2>2. SP!Init
    BY <2>1 DEF SP!Init
  <2>3. QED
    BY <2>2, SP!InitEstablishes, SmallerIsACache, CacheLineSizeAssumption,
       AddressesAssumption
<1>5. YoungEnd(smaller_q, q)
  <2>1. /\ q = [v |-> [i \in 1 .. Capacity |-> IF i <= n THEN s[i] ELSE 0],
                head |-> 0, tail |-> n]
        /\ smaller_q = [v |-> [i \in 1 .. Smaller!Capacity |->
                                 IF i <= n THEN s[i] ELSE 0],
                        head |-> 0, tail |-> n]
    BY <1>1 DEF Constructed, Smaller!Constructed
  <2>2. n <= Capacity /\ n <= Smaller!Capacity
    BY <1>1, SmallerIsACache DEF Capacity, Smaller!Capacity
  <2>3. Capacity \in Nat /\ Smaller!Capacity \in Nat
    BY SmallerIsACache DEF Capacity, Smaller!Capacity
  <2>4. Size(q) = n /\ Size(smaller_q) = n
    BY <1>1, <2>1 DEF Size
  <2>5. \A d \in 0 .. n - 1 : /\ n - d \in 1 .. n /\ 0 + (n - d) = n - d
                              /\ n - d \in 1 .. Capacity
                              /\ n - d \in 1 .. Smaller!Capacity
    BY <1>1, <2>2, <2>3
  <2>6. \A d \in 0 .. n - 1 : Back(q, d) = s[n - d] /\ Back(smaller_q, d) = s[n - d]
    BY <2>1, <2>4, <2>5 DEF Back, Slot
  <2>7. QED
    BY <1>1, <2>4, <2>6 DEF YoungEnd
<1>6. FifoInv
  BY <1>1, SmallerIsACache, <1>2 DEF Fifo!Constructed, FifoInv, FifoSetMatchesQueue
<1>7. fifo_set = seen /\ IsFiniteSet(seen) /\ Cardinality(seen) <= CacheLines
  BY <1>1, <1>6, FifoCardinality, SmallerIsACache
     DEF Fifo!Constructed, FifoInv, FifoSetMatchesQueue
<1>8. memory_references = seen /\ rand_set = seen
  BY <1>1, <1>2 DEF Constructed, Rand!Constructed
<1>9. fifo_ret = 0 /\ rand_ret = 0
  BY DEF Fifo!Constructed, Rand!Constructed
<1>10. QED
  BY <1>2, <1>3, <1>4, <1>5, <1>6, <1>7, <1>8, <1>9 DEF CompareInv, Filled

LEMMA ReferenceKeepsInvariant ==
  ASSUME CompareInv, NEW x \in Addresses, Reference(x)
  PROVE  CompareInv'
<1>1. /\ Allocate(x) /\ Smaller!Allocate(x) /\ Fifo!Allocate(x) /\ Rand!Allocate(x)
      /\ seen' = seen \cup {Line(x)}
  BY DEF Reference
<1>2. /\ IInv /\ SP!IInv /\ YoungEnd(smaller_q, q) /\ FifoInv
      /\ seen \in SUBSET Lines /\ IsFiniteSet(seen)
      /\ Filled(memory_references, seen) /\ Filled(fifo_set, seen)
      /\ Filled(rand_set, seen)
  BY DEF CompareInv
<1>3. IInv'
  BY <1>1, <1>2, StepKeepsInvariant DEF Next
<1>4. SP!IInv'
  BY <1>1, <1>2, SmallerKeepsInvariant
<1>5. YoungEnd(smaller_q', q')
  BY <1>1, <1>2, YoungEndKept
<1>6. FifoInv' /\ Filled(fifo_set', seen') /\ fifo_ret' \in {0, 1}
  BY <1>1, <1>2, FifoStep
<1>7. Filled(rand_set', seen') /\ rand_ret' \in {0, 1}
  BY <1>1, <1>2, RandStaysFilled
<1>8. Filled(memory_references', seen')
  BY <1>1, <1>2, LruStaysFilled
<1>9. seen' \in SUBSET Lines /\ IsFiniteSet(seen')
  BY <1>1, <1>2, FS_AddElement DEF Lines
<1>10. YoungEnd(smaller_q, q)' /\ Lines' = Lines
  BY <1>5 DEF YoungEnd, Back, Slot, Size, Lines
<1>11. QED
  BY <1>3, <1>4, <1>6, <1>7, <1>8, <1>9, <1>10 DEF CompareInv, Filled

LEMMA StutterKeepsInvariant == CompareInv /\ UNCHANGED compareVars => CompareInv'
<1> SUFFICES ASSUME CompareInv, UNCHANGED compareVars PROVE CompareInv'
  OBVIOUS
<1>1. UNCHANGED <<memory_references, q, ret, smaller_set, smaller_q, smaller_ret,
                  fifo_set, fifo_q, fifo_ret, rand_set, rand_ret, seen>>
  BY DEF compareVars, vars
<1>2. IInv'
  BY <1>1, StepKeepsInvariant DEF CompareInv, vars
<1>3. SP!IInv'
  <2>1. UNCHANGED SP!vars
    BY <1>1 DEF SP!vars
  <2>2. QED
    BY <2>1, SP!StepKeepsInvariant, SmallerIsACache, CacheLineSizeAssumption,
       AddressesAssumption DEF CompareInv
<1>4. YoungEnd(smaller_q, q)'
  BY <1>1 DEF CompareInv, YoungEnd, Back, Slot, Size
<1>5. FifoInv'
  BY <1>1 DEF CompareInv, FifoInv, FifoSetMatchesQueue, Lines, Line
<1>6. QED
  BY <1>1, <1>2, <1>3, <1>4, <1>5 DEF CompareInv, Filled, Lines, Line

\* After any references the smaller LRU queue is the young end of the larger
\* one, and each policy holds all lines it was given, or is full.
THEOREM CompareInvariance == CompareSpec => []CompareInv
<1>1. CompareInv /\ [CompareNext]_compareVars => CompareInv'
  BY ReferenceKeepsInvariant, StutterKeepsInvariant DEF CompareNext
<1>2. QED
  BY <1>1, CompareInitEstablishes, PTL DEF CompareSpec

-----------------------------------------------------------------------------
(* The properties the run checks *)

\* Type correctness of all four caches, for all sizes.
THEOREM PoliciesTypeCorrect == CompareSpec => []PoliciesTypeOK
<1>1. CompareInv => PoliciesTypeOK
  <2> SUFFICES ASSUME CompareInv PROVE PoliciesTypeOK
    OBVIOUS
  <2>1. TypeOK /\ Smaller!TypeOK
    BY SmallerFacts DEF CompareInv, IInv
  <2>2. fifo_set \subseteq seen /\ rand_set \subseteq seen /\ seen \subseteq Lines
    BY DEF CompareInv, Filled
  <2>3. QED
    BY <2>1, <2>2 DEF CompareInv, PoliciesTypeOK, FifoInv
<1>2. QED
  BY <1>1, CompareInvariance, PTL

\* The stack property: for every two sizes and every reference string, the
\* larger cache of lru.cpp holds what the smaller one holds.
THEOREM StackProperty == CompareSpec => []LargerLRUIncludesSmaller
<1>1. CompareInv => LargerLRUIncludesSmaller
  BY YoungEndIsIncluded DEF CompareInv, LargerLRUIncludesSmaller
<1>2. QED
  BY <1>1, CompareInvariance, PTL

\* The lookup set and the queue of fifo.cpp agree, for every size.
THEOREM FifoAgrees == CompareSpec => []FifoSetMatchesQueue
<1>1. CompareInv => FifoSetMatchesQueue
  BY DEF CompareInv, FifoInv
<1>2. QED
  BY <1>1, CompareInvariance, PTL

\* LRU, FIFO and RAND each hold min(lines seen, cache_lines) of the lines
\* they were given, for every size and every choice of RAND's victims.
THEOREM AlwaysFilled == CompareSpec => []FilledToCapacity
<1>1. CompareInv => FilledToCapacity
  <2> SUFFICES ASSUME CompareInv,
                      NEW S \in {memory_references, fifo_set, rand_set}
               PROVE  /\ S \subseteq seen
                      /\ Cardinality(S) = Min({CacheLines, Cardinality(seen)})
    BY DEF FilledToCapacity
  <2>1. Filled(S, seen) /\ IsFiniteSet(seen)
    BY DEF CompareInv
  <2>2. QED
    BY <2>1, FilledCount DEF Filled
<1>2. QED
  BY <1>1, CompareInvariance, PTL

\* A first reference misses everywhere, and the larger LRU cache misses only
\* where the smaller one does, for every two sizes.
THEOREM MissesShrinkWithSize == CompareSpec => FirstReferenceMisses
<1> DEFINE Step == /\ seen' # seen => {ret', smaller_ret', fifo_ret', rand_ret'} = {1}
                   /\ ret' <= smaller_ret'
<1>1. ASSUME CompareInv, NEW x \in Addresses, Reference(x) PROVE Step
  <2>1. /\ Allocate(x) /\ Smaller!Allocate(x) /\ Fifo!Allocate(x)
        /\ Rand!Allocate(x) /\ seen' = seen \cup {Line(x)}
    BY <1>1 DEF Reference
  <2>2. /\ IInv /\ SP!IInv /\ YoungEnd(smaller_q, q)
        /\ memory_references \subseteq seen /\ fifo_set \subseteq seen
        /\ rand_set \subseteq seen
    BY <1>1 DEF CompareInv, Filled
  <2>3. ret' <= smaller_ret'
    BY <1>1, <2>1, <2>2, YoungEndKept
  <2>4. Line(x) \notin memory_references => ret' = 1
    BY <1>1, <2>1, <2>2, AllocateByAge
  <2>5. Line(x) \notin smaller_set => smaller_ret' = 1
    BY <1>1, <2>1, <2>2, SmallerByAge
  <2>6. Line(x) \notin fifo_set => fifo_ret' = 1
    BY <2>1 DEF Fifo!Allocate, Fifo!Hit, Fifo!Fill, Fifo!Evict, Fifo!Line, Line
  <2>7. Line(x) \notin rand_set => rand_ret' = 1
    BY <2>1 DEF Rand!Allocate, Rand!Hit, Rand!Fill, Rand!Evict, Rand!Line, Line
  <2>8. smaller_set \subseteq memory_references
    BY <2>2, YoungEndIsIncluded
  <2>9. seen' # seen => {ret', smaller_ret', fifo_ret', rand_ret'} = {1}
    BY <2>1, <2>2, <2>4, <2>5, <2>6, <2>7, <2>8
  <2>10. QED
    BY <2>3, <2>9
<1>2. CompareInv /\ [CompareNext]_compareVars => [Step]_compareVars
  BY <1>1 DEF CompareNext
<1>3. QED
  BY <1>2, CompareInvariance, PTL DEF CompareSpec, FirstReferenceMisses

-----------------------------------------------------------------------------
\* Between the statements of one call, with progress reports on.
Reporting == {"arm", "loop", "clear", "rearm", "visit", "disarm"}

\* The alarm is armed only where its handler is installed, and the handler
\* is taken away only where the alarm is off.
SignalInv ==
  /\ pc # "killed"
  /\ alarm = "armed" => disposition = "handler"
  /\ ~ progress => alarm = "off"
  /\ pc \in {"install", "arm", "clear", "rearm", "disarm", "restore"} => progress
  /\ progress /\ pc \in Reporting => disposition = "handler"
  /\ pc \in {"reset", "install", "restore", "return", "done"} => alarm = "off"
  /\ ReportsKeepComing

\* The statements of the main program take nothing from the invariant: they
\* disarm before they restore, and clear the flag before they rearm.
LEMMA MainKeepsSignals ==
  ASSUME SignalInv, Main
  PROVE  SignalInv'
<1> USE DEF SignalInv, Reporting, ReportsKeepComing, Goto
<1>1. CASE ResetFlag
  BY <1>1 DEF ResetFlag
<1>2. CASE InstallHandler
  BY <1>2 DEF InstallHandler
<1>3. CASE ArmAlarm
  BY <1>3 DEF ArmAlarm
<1>4. CASE LoopHead
  <2>1. pc = "loop" /\ UNCHANGED <<progress, signalVars>>
    BY <1>4 DEF LoopHead
  <2>2. /\ pc' \in {"clear", "visit", "disarm", "return"}
        /\ pc' = "clear" => progress /\ print_progress = 1
        /\ pc' = "disarm" => progress
        /\ pc' = "return" => ~ progress
    BY <1>4 DEF LoopHead
  <2>3. QED
    BY <2>1, <2>2 DEF signalVars
<1>5. CASE ClearFlag
  BY <1>5 DEF ClearFlag
<1>6. CASE RearmAlarm
  BY <1>6 DEF RearmAlarm
<1>7. CASE Visit \/ SkipShort
  BY <1>7 DEF Visit, SkipShort, NextCPU, signalVars
<1>8. CASE DisarmAlarm
  BY <1>8 DEF DisarmAlarm
<1>9. CASE RestoreDefault
  BY <1>9 DEF RestoreDefault
<1>10. CASE ReturnWarmup \/ ReturnCount
  BY <1>10 DEF ReturnWarmup, ReturnCount, signalVars
<1>11. QED
  BY <1>1, <1>2, <1>3, <1>4, <1>5, <1>6, <1>7, <1>8, <1>9, <1>10 DEF Main

\* The signal may arrive anywhere: where it is armed, the handler runs, and the
\* flag it sets stands for the alarm that is no longer armed.
LEMMA SignalKeepsSignals ==
  ASSUME SignalInv, SigAlarm
  PROVE  SignalInv'
BY DEF SignalInv, SigAlarm, ReportsKeepComing, Reporting

\* In every reachable state of both calls, whatever the interval.
THEOREM SignalInvariance == TraceSpec => []SignalInv
<1>1. TraceInit => SignalInv
  BY DEF TraceInit, SignalInv, Reporting, ReportsKeepComing
<1>2. SignalInv /\ [TraceNext]_traceVars => SignalInv'
  <2> SUFFICES ASSUME SignalInv, [TraceNext]_traceVars PROVE SignalInv'
    OBVIOUS
  <2>1. CASE UNCHANGED traceVars
    BY <2>1 DEF traceVars, signalVars, SignalInv, Reporting, ReportsKeepComing
  <2>2. QED
    BY <2>1, MainKeepsSignals, SignalKeepsSignals DEF TraceNext
<1>3. QED
  BY <1>1, <1>2, PTL DEF TraceSpec

\* SIGALRM never ends the process: replacement.cpp disarms the alarm before it
\* restores the default disposition, and installs the handler before it arms it.
THEOREM TracingIsNeverKilled == TraceSpec => []NeverKilled
<1>1. SignalInv => NeverKilled
  BY DEF SignalInv, NeverKilled
<1>2. QED
  BY <1>1, SignalInvariance, PTL

\* No progress report is the last one: at every point of the loop the alarm is
\* armed, or its request waits to be seen, or it is about to be armed again.
THEOREM NoReportIsTheLast == TraceSpec => []ReportsKeepComing
<1>1. SignalInv => ReportsKeepComing
  BY DEF SignalInv
<1>2. QED
  BY <1>1, SignalInvariance, PTL

-----------------------------------------------------------------------------
(* The loops over the strings, and the cache that they share. *)

\* The greatest element that the loop bound is defined by exists: take a
\* smallest of the sets {y \in S : y >= x}.
LEMMA MaxOfBoundedSet ==
  ASSUME NEW n \in Nat, NEW S \in SUBSET (0 .. n), S # {}
  PROVE  Max(S) \in S /\ \A y \in S : Max(S) >= y
<1> DEFINE R == StrictSubsetOrdering(S)
           above(x) == {y \in S : y >= x}
           T == {above(x) : x \in S}
<1>1. IsFiniteSet(S)
  <2>1. IsFiniteSet(0 .. n)
    BY FS_Interval
  <2>2. QED
    BY <2>1, FS_Subset
<1>2. IsWellFoundedOn(R, SUBSET S)
  <2>1. FiniteSubsetsOf(S) = SUBSET S
    BY <1>1, FS_FiniteSubsetsOfFinite
  <2>2. IsWellFoundedOn(R, FiniteSubsetsOf(S))
    BY FS_StrictSubsetOrderingWellFounded
  <2>3. QED
    BY <2>1, <2>2
<1>3. T \subseteq SUBSET S /\ T # {}
  OBVIOUS
<1>4. PICK m \in T : \A y \in T : ~ (<<y, m>> \in R)
  <2> HIDE DEF R, T
  <2>1. QED
    BY <1>2, <1>3, WFMin
<1>5. PICK x \in S : m = above(x)
  BY <1>4
<1>6. ASSUME NEW z \in S, z > x PROVE FALSE
  <2>1. /\ above(z) \subseteq above(x) /\ x \in above(x) /\ x \notin above(z)
        /\ above(z) \in SUBSET S /\ above(x) \in SUBSET S
    <3>1. \A y \in S : y \in Nat
      OBVIOUS
    <3>2. x \in Nat /\ z \in Nat /\ z > x
      BY <1>6, <3>1
    <3>3. \A y \in S : y >= z => y >= x
      BY <3>1, <3>2
    <3>4. x >= x /\ ~ (x >= z)
      BY <3>2
    <3>5. QED
      BY <3>3, <3>4
  <2>2. <<above(z), m>> \in R
    <3> HIDE DEF above
    <3>1. above(z) # above(x)
      BY <2>1
    <3>2. QED
      BY <1>5, <2>1, <3>1 DEF StrictSubsetOrdering
  <2>3. above(z) \in T
    OBVIOUS
  <2>4. QED
    BY <1>4, <2>2, <2>3
<1>7. \A y \in S : x >= y
  BY <1>6
<1>8. QED
  BY <1>7 DEF Max

Strings == UNION {[1 .. n -> References] : n \in 0 .. MaxLength}

LEMMA StringsAreSequences ==
  ASSUME NEW s \in Strings
  PROVE  Len(s) \in 0 .. MaxLength /\ \A k \in 1 .. Len(s) : s[k] \in References
<1>1. PICK n \in 0 .. MaxLength : s \in [1 .. n -> References]
  BY DEF Strings
<1>2. n \in Nat /\ n <= MaxLength
  BY MaxLengthAssumption
<1>3. Len(s) = n
  BY <1>1, <1>2
<1>4. QED
  BY <1>1, <1>2, <1>3

LEMMA LongestString ==
  ASSUME ws \in [CPUs -> Strings]
  PROVE  TMax \in 0 .. MaxLength /\ \A c \in CPUs : Len(ws[c]) <= TMax
<1> DEFINE S == {Len(ws[c]) : c \in CPUs} \cup {0}
<1>1. S \in SUBSET (0 .. MaxLength) /\ S # {}
  BY StringsAreSequences, MaxLengthAssumption
<1>2. Max(S) \in S /\ \A y \in S : Max(S) >= y
  <2> HIDE DEF S
  <2>1. QED
    BY <1>1, MaxOfBoundedSet, MaxLengthAssumption
<1>3. TMax = Max(S)
  BY DEF TMax
<1>4. \A c \in CPUs : Len(ws[c]) \in S
  OBVIOUS
<1>5. QED
  BY <1>1, <1>2, <1>3, <1>4, MaxLengthAssumption

\* The invariant of the cache, the types, and where the loop over t can be.
TraceInv ==
  /\ IInv /\ TraceTypeOK
  /\ ws \in [CPUs -> Strings]
  /\ t <= TMax
  /\ pc \in {"clear", "rearm", "visit"} => t < TMax

LEMMA TraceInitEstablishes == TraceInit => TraceInv
<1> SUFFICES ASSUME TraceInit PROVE TraceInv
  OBVIOUS
<1>1. Init
  <2>1. <<>> \in [1 .. 0 -> Lines] /\ IsInjective(<<>>)
    BY DEF IsInjective
  <2>2. 0 \in 0 .. CacheLines
    BY CacheLinesAssumption
  <2>3. QED
    BY <2>1, <2>2 DEF TraceInit, Init
<1>2. IInv
  BY <1>1, InitEstablishes
<1>3. ws \in [CPUs -> Strings]
  BY DEF TraceInit, Strings
<1>4. NoMisses \in [CPUs -> [Domains -> Nat]]
  BY DEF NoMisses
<1>5. 0 \in CPUs /\ 0 \in 0 .. MaxLength
  BY PAssumption, MaxLengthAssumption DEF CPUs
<1>6. TraceTypeOK
  BY <1>2, <1>4, <1>5 DEF TraceInit, TraceTypeOK, IInv
<1>7. QED
  BY <1>2, <1>3, <1>6, LongestString DEF TraceInv, TraceInit

LEMMA NextCPUInRange ==
  ASSUME TraceInv, pc = "visit", NextCPU
  PROVE  /\ p' \in CPUs /\ t' \in 0 .. MaxLength /\ t' <= TMax
         /\ pc' \in {"loop", "visit"} /\ (pc' = "visit" => t' < TMax)
<1>1. /\ p \in 0 .. P - 1 /\ P \in Nat \ {0} /\ t \in 0 .. MaxLength /\ t < TMax
      /\ TMax \in 0 .. MaxLength
  BY PAssumption, LongestString DEF TraceInv, TraceTypeOK, CPUs
<1>2. QED
  BY <1>1, MaxLengthAssumption DEF NextCPU, CPUs

\* A reference goes through the cache as a step of the cache's own module.
LEMMA VisitKeepsInvariant ==
  ASSUME TraceInv, Visit
  PROVE  TraceInv'
<1>1. pc = "visit" /\ p \in CPUs /\ t \in 0 .. MaxLength /\ t < Len(ws[p])
  BY DEF Visit, TraceInv, TraceTypeOK
<1> DEFINE x == ws[p][t + 1]
<1>2. x \in References /\ x[1] \in Addresses /\ x[2] \in Domains
  <2>1. ws[p] \in Strings
    BY <1>1 DEF TraceInv
  <2>2. t + 1 \in 1 .. Len(ws[p])
    BY <1>1, <2>1, StringsAreSequences, MaxLengthAssumption
  <2>3. QED
    BY <2>1, <2>2, StringsAreSequences, ReferencesAssumption
<1>3. Next
  BY <1>2 DEF Visit, Next
<1>4. IInv'
  BY <1>3, StepKeepsInvariant DEF TraceInv
<1>5. cache_misses' \in [CPUs -> [Domains -> Nat]]
  <2>1. ret' \in {0, 1}
    BY <1>4 DEF IInv, TypeOK
  <2>2. cache_misses' = [cache_misses EXCEPT ![p][x[2]] = @ + ret']
    BY DEF Visit
  <2>3. cache_misses \in [CPUs -> [Domains -> Nat]]
    BY DEF TraceInv, TraceTypeOK
  <2>4. QED
    BY <1>1, <1>2, <2>1, <2>2, <2>3
<1>6. /\ p' \in CPUs /\ t' \in 0 .. MaxLength /\ t' <= TMax
      /\ pc' \in {"loop", "visit"} /\ (pc' = "visit" => t' < TMax)
  BY <1>1, NextCPUInRange DEF Visit
<1>7. TMax' = TMax
  BY DEF Visit, TMax
<1>8. TraceTypeOK'
  <2>1. TypeOK'
    BY <1>4 DEF IInv
  <2>2. UNCHANGED <<ws, progress, run, warmup_misses, print_progress, alarm, disposition>>
    BY DEF Visit, signalVars
  <2>3. QED
    BY <1>5, <1>6, <2>1, <2>2 DEF TraceInv, TraceTypeOK
<1>9. QED
  <2>1. ws' \in [CPUs -> Strings]
    BY DEF Visit, TraceInv
  <2>2. pc' \in {"clear", "rearm", "visit"} => pc' = "visit"
    BY <1>6
  <2>3. QED
    BY <1>4, <1>6, <1>7, <1>8, <2>1, <2>2 DEF TraceInv

\* Every other step leaves the cache alone.
LEMMA OtherStepsKeepInvariant ==
  ASSUME TraceInv, SigAlarm \/ (Main /\ ~ Visit)
  PROVE  TraceInv'
<1> USE DEF Goto
<1>1. UNCHANGED <<vars, ws, progress>>
  BY DEF Main, SigAlarm, ResetFlag, InstallHandler, ArmAlarm, LoopHead, ClearFlag,
         RearmAlarm, SkipShort, DisarmAlarm, RestoreDefault, ReturnWarmup, ReturnCount
<1>2. TMax' = TMax /\ TMax \in 0 .. MaxLength
  BY <1>1, LongestString DEF TMax, TraceInv
<1>3. IInv'
  <2>1. [Next]_vars
    BY <1>1
  <2>2. QED
    BY <2>1, StepKeepsInvariant DEF TraceInv
<1>4. TypeOK'
  BY <1>3 DEF IInv
<1>5. CASE SkipShort
  <2>1. /\ p' \in CPUs /\ t' \in 0 .. MaxLength /\ t' <= TMax
        /\ pc' \in {"loop", "visit"} /\ (pc' = "visit" => t' < TMax)
    BY <1>5, NextCPUInRange DEF SkipShort
  <2>2. UNCHANGED <<run, cache_misses, warmup_misses, print_progress, alarm, disposition>>
    BY <1>5 DEF SkipShort, signalVars
  <2>3. TraceTypeOK'
    BY <1>1, <1>4, <2>1, <2>2 DEF TraceInv, TraceTypeOK
  <2>4. pc' \in {"clear", "rearm", "visit"} => pc' = "visit"
    BY <2>1
  <2>5. QED
    BY <1>1, <1>2, <1>3, <2>1, <2>3, <2>4 DEF TraceInv
<1>6. CASE LoopHead
  BY <1>1, <1>2, <1>3, <1>4, <1>6 DEF LoopHead, TraceInv, TraceTypeOK, loopVars, signalVars
<1>7. CASE ReturnWarmup
  <2>1. 0 \in CPUs /\ 0 \in 0 .. MaxLength /\ NoMisses \in [CPUs -> [Domains -> Nat]]
    BY PAssumption, MaxLengthAssumption DEF CPUs, NoMisses
  <2>2. QED
    BY <1>1, <1>2, <1>3, <1>4, <1>7, <2>1 DEF ReturnWarmup, TraceInv, TraceTypeOK, signalVars
<1>8. CASE ReturnCount
  BY <1>1, <1>2, <1>3, <1>4, <1>8 DEF ReturnCount, TraceInv, TraceTypeOK, loopVars, signalVars
<1>9. CASE ResetFlag \/ InstallHandler \/ ArmAlarm
  BY <1>1, <1>2, <1>3, <1>4, <1>9
     DEF ResetFlag, InstallHandler, ArmAlarm, TraceInv, TraceTypeOK, loopVars
<1>10. CASE ClearFlag \/ RearmAlarm
  BY <1>1, <1>2, <1>3, <1>4, <1>10 DEF ClearFlag, RearmAlarm, TraceInv, TraceTypeOK, loopVars
<1>11. CASE DisarmAlarm \/ RestoreDefault
  BY <1>1, <1>2, <1>3, <1>4, <1>11
     DEF DisarmAlarm, RestoreDefault, TraceInv, TraceTypeOK, loopVars
<1>12. CASE SigAlarm
  BY <1>1, <1>2, <1>3, <1>4, <1>12 DEF SigAlarm, TraceInv, TraceTypeOK, loopVars
<1>13. QED
  BY <1>5, <1>6, <1>7, <1>8, <1>9, <1>10, <1>11, <1>12 DEF Main

THEOREM TraceInvariance == TraceSpec => []TraceInv
<1>1. TraceInit => TraceInv
  BY TraceInitEstablishes
<1>2. TraceInv /\ [TraceNext]_traceVars => TraceInv'
  <2> SUFFICES ASSUME TraceInv, [TraceNext]_traceVars PROVE TraceInv'
    OBVIOUS
  <2>1. CASE UNCHANGED traceVars
    <3>1. [Next]_vars
      BY <2>1 DEF traceVars
    <3>2. IInv'
      BY <3>1, StepKeepsInvariant DEF TraceInv
    <3>3. TMax' = TMax
      BY <2>1 DEF traceVars, TMax
    <3>4. QED
      BY <2>1, <3>2, <3>3 DEF traceVars, loopVars, signalVars, TraceInv, TraceTypeOK, IInv
  <2>2. QED
    BY <2>1, VisitKeepsInvariant, OtherStepsKeepInvariant DEF TraceNext
<1>3. QED
  BY <1>1, <1>2, PTL DEF TraceSpec

\* The loops never read past a string or a CPU, every miss is counted in a
\* domain that exists, and the cache that both calls share keeps its types.
THEOREM TraceTypeCorrect == TraceSpec => []TraceTypeOK
<1>1. TraceInv => TraceTypeOK
  BY DEF TraceInv
<1>2. QED
  BY <1>1, TraceInvariance, PTL

\* The cache that the strings of all CPUs go through, in both calls, keeps its
\* lookup set and its queue in agreement: what is proved of allocate() on its
\* own holds where replacement.cpp calls it.
THEOREM SharedCacheAgrees == TraceSpec => []SetMatchesQueue
<1>1. TraceInv => SetMatchesQueue
  BY DEF TraceInv, IInv
<1>2. QED
  BY <1>1, TraceInvariance, PTL

-----------------------------------------------------------------------------
(* Reuse distances: the perfectly interleaved string as an ordered set.    *)

Triples == Nat \X Nat \X Nat

LEMMA PrecedesIsAnOrder ==
  ASSUME NEW x \in Triples, NEW y \in Triples, NEW z \in Triples
  PROVE  /\ ~ Precedes(x, x)
         /\ Precedes(x, y) => ~ Precedes(y, x)
         /\ Precedes(x, y) /\ Precedes(y, z) => Precedes(x, z)
         /\ x = y \/ Precedes(x, y) \/ Precedes(y, x)
<1>1. /\ x[1] \in Nat /\ x[2] \in Nat /\ x[3] \in Nat
      /\ y[1] \in Nat /\ y[2] \in Nat /\ y[3] \in Nat
      /\ z[1] \in Nat /\ z[2] \in Nat /\ z[3] \in Nat
  BY DEF Triples
<1>2. x[1] = y[1] /\ x[2] = y[2] /\ x[3] = y[3] => x = y
  BY DEF Triples
<1>3. QED
  BY <1>1, <1>2 DEF Precedes

\* The strings that a call is given.
AreStrings(W) == W \in [CPUs -> Strings]

LEMMA StringOfCPU ==
  ASSUME NEW W, AreStrings(W), NEW c \in CPUs
  PROVE  /\ Len(W[c]) \in 0 .. MaxLength /\ Len(W[c]) \in Nat
         /\ \A i \in 1 .. Len(W[c]) : /\ W[c][i] \in References
                                      /\ W[c][i][1] \in Addresses
                                      /\ W[c][i][2] \in Domains
<1>1. W[c] \in Strings
  BY DEF AreStrings
<1>2. QED
  BY <1>1, StringsAreSequences, ReferencesAssumption, MaxLengthAssumption

LEMMA RefsAreTriples ==
  ASSUME NEW W, AreStrings(W), NEW r \in Nat
  PROVE  /\ RefsOf(W, r) \subseteq Triples
         /\ \A s \in Nat, i \in Nat, c \in Nat :
              <<s, i, c>> \in RefsOf(W, r) <=>
                s \in 1 .. r /\ c \in CPUs /\ i \in 1 .. Len(W[c])
<1>1. DOMAIN W = CPUs
  BY DEF AreStrings
<1>2. \A c \in CPUs : c \in Nat
  BY PAssumption DEF CPUs
<1>3. ASSUME NEW z \in RefsOf(W, r)
      PROVE  \E c \in CPUs : \E s \in 1 .. r : \E i \in 1 .. Len(W[c]) : z = <<s, i, c>>
  BY <1>1, <1>3 DEF RefsOf
<1>4. \A c \in CPUs : \A s \in 1 .. r : \A i \in 1 .. Len(W[c]) : <<s, i, c>> \in RefsOf(W, r)
  BY <1>1 DEF RefsOf
<1>5. RefsOf(W, r) \subseteq Triples
  <2> SUFFICES ASSUME NEW z \in RefsOf(W, r) PROVE z \in Triples
    OBVIOUS
  <2>1. PICK c \in CPUs : \E s \in 1 .. r : \E i \in 1 .. Len(W[c]) : z = <<s, i, c>>
    BY <1>3
  <2>2. PICK s \in 1 .. r : \E i \in 1 .. Len(W[c]) : z = <<s, i, c>>
    BY <2>1
  <2>3. PICK i \in 1 .. Len(W[c]) : z = <<s, i, c>>
    BY <2>2
  <2>4. c \in Nat /\ s \in Nat /\ i \in Nat
    BY <1>2, StringOfCPU
  <2>5. QED
    BY <2>3, <2>4 DEF Triples
<1>6. ASSUME NEW s \in Nat, NEW i \in Nat, NEW c \in Nat, <<s, i, c>> \in RefsOf(W, r)
      PROVE  s \in 1 .. r /\ c \in CPUs /\ i \in 1 .. Len(W[c])
  BY <1>3, <1>6
<1>7. QED
  BY <1>4, <1>5, <1>6

LEMMA RefsAreFinite ==
  ASSUME NEW W, AreStrings(W), NEW r \in Nat
  PROVE  IsFiniteSet(RefsOf(W, r))
<1> DEFINE box == (1 .. r) \X ((1 .. MaxLength) \X CPUs)
           f == [z \in box |-> <<z[1], z[2][1], z[2][2]>>]
           image == {f[z] : z \in box}
<1>1. IsFiniteSet(1 .. r) /\ IsFiniteSet(1 .. MaxLength) /\ IsFiniteSet(CPUs)
  BY FS_Interval, MaxLengthAssumption, PAssumption DEF CPUs
<1>2. IsFiniteSet((1 .. MaxLength) \X CPUs)
  BY <1>1, FS_Product
<1>3. IsFiniteSet(box)
  BY <1>1, <1>2, FS_Product
<1>4. f \in Surjection(box, image)
  BY DEF Surjection
<1>5. IsFiniteSet(image)
  <2> HIDE DEF box, f, image
  <2>1. QED
    BY <1>3, <1>4, FS_Surjection
<1>6. RefsOf(W, r) \subseteq image
  <2> SUFFICES ASSUME NEW z \in RefsOf(W, r) PROVE z \in image
    OBVIOUS
  <2>1. PICK s \in Nat, i \in Nat, c \in Nat : z = <<s, i, c>>
    BY RefsAreTriples DEF Triples
  <2>2. s \in 1 .. r /\ c \in CPUs /\ i \in 1 .. Len(W[c])
    BY <2>1, RefsAreTriples
  <2>3. i \in 1 .. MaxLength
    BY <2>2, StringOfCPU, MaxLengthAssumption
  <2>4. <<s, <<i, c>>>> \in box /\ f[<<s, <<i, c>>>>] = z
    BY <2>1, <2>2, <2>3
  <2>5. QED
    BY <2>4
<1>7. QED
  BY <1>5, <1>6, FS_Subset

\* The line of a reference, and those before the i-th of CPU c in run r.
LineAt(W, z) == Line(W[z[3]][z[2]][1])
Before(W, r, i, c) == {z \in RefsOf(W, r) : Precedes(z, <<r, i, c>>)}

\* The lines of the references of D that follow z.
Since(W, D, z) == {LineAt(W, v) : v \in {u \in D : Precedes(z, u)}}

\* A reference of D to the line y is followed by fewer than n other lines.
Near(W, D, y, n) ==
  \E z \in D : LineAt(W, z) = y /\ Cardinality(Since(W, D, z) \ {y}) < n

LEMMA IsHitByLines ==
  ASSUME NEW W, NEW r, NEW i, NEW c, NEW n
  PROVE  IsHit(W, <<r, i, c>>, n, CacheLineSize)
           <=> Near(W, Before(W, r, i, c), LineAt(W, <<r, i, c>>), n)
BY DEF IsHit, Near, Before, Since, LineAt, Line

-----------------------------------------------------------------------------
(* The queue of the cache against the history of references *)

\* The lines that are younger than the one of age d.
Younger(b, d) == {Back(b, e) : e \in 0 .. d - 1}

\* The queue b of a cache of n lines after the references D: each line's last
\* reference is followed by those of the younger lines, and a line that was
\* referenced and is gone is older than n others.
Recency(W, D, b, n) ==
  /\ \A d \in 0 .. Size(b) - 1 : \E z \in D :
       /\ LineAt(W, z) = Back(b, d)
       /\ Since(W, D, z) = Younger(b, d)
  /\ \A z \in D :
       \/ \E d \in 0 .. Size(b) - 1 : LineAt(W, z) = Back(b, d)
       \/ Size(b) = n /\ \A e \in 0 .. n - 1 : Back(b, e) \in Since(W, D, z)

DistinctLines(b) ==
  /\ Size(b) \in Nat
  /\ \A d, e \in 0 .. Size(b) - 1 : Back(b, d) = Back(b, e) => d = e

\* A line is in the queue just if its last reference is followed by fewer than
\* n other lines.
LEMMA InQueueIsNear ==
  ASSUME NEW W, NEW D, IsFiniteSet(D), NEW b, NEW n \in Nat,
         DistinctLines(b), Size(b) <= n, Recency(W, D, b, n), NEW y
  PROVE  (\E d \in 0 .. Size(b) - 1 : Back(b, d) = y) <=> Near(W, D, y, n)
<1>1. \A z : IsFiniteSet(Since(W, D, z))
  <2> TAKE z
  <2> DEFINE U == {u \in D : Precedes(z, u)}
             f == [v \in U |-> LineAt(W, v)]
  <2>1. IsFiniteSet(U)
    BY FS_Subset
  <2>2. f \in Surjection(U, Since(W, D, z))
    BY DEF Surjection, Since
  <2> HIDE DEF U, f
  <2>3. QED
    BY <2>1, <2>2, FS_Surjection
<1>2. ASSUME NEW d \in 0 .. Size(b) - 1, Back(b, d) = y
      PROVE  \E z \in D : LineAt(W, z) = y /\ Cardinality(Since(W, D, z) \ {y}) < n
  <2>1. PICK z \in D : /\ LineAt(W, z) = Back(b, d)
                       /\ Since(W, D, z) = Younger(b, d)
    BY DEF Recency
  <2> DEFINE T == {Back(b, e) : e \in 0 .. d - 1}
             f == [e \in 0 .. d - 1 |-> Back(b, e)]
  <2>2. f \in Surjection(0 .. d - 1, T)
    BY DEF Surjection
  <2>3. IsFiniteSet(0 .. d - 1) /\ Cardinality(0 .. d - 1) = d
    <3>1. d \in Nat /\ 0 \in Int /\ d - 1 \in Int
      BY DEF DistinctLines
    <3> HIDE DEF f, T
    <3>2. QED
      BY <3>1, FS_Interval
  <2>4. IsFiniteSet(T) /\ Cardinality(T) <= d
    <3> HIDE DEF f, T
    <3>1. QED
      BY <2>2, <2>3, FS_Surjection
  <2>5. Cardinality(T \ {y}) <= Cardinality(T) /\ Cardinality(T \ {y}) \in Nat
        /\ Cardinality(T) \in Nat
    <3> HIDE DEF T
    <3>1. T \ {y} \in SUBSET T
      OBVIOUS
    <3>2. QED
      BY <2>4, <3>1, FS_Subset, FS_CardinalityType
  <2>6. d \in Nat /\ d < n
    BY DEF DistinctLines
  <2> HIDE DEF T, f
  <2>7. Cardinality(T \ {y}) < n
    BY <2>4, <2>5, <2>6
  <2>8. Since(W, D, z) = T
    BY <2>1 DEF T, Younger
  <2>9. QED
    BY <1>2, <2>1, <2>7, <2>8
<1>3. ASSUME NEW z \in D, LineAt(W, z) = y, Cardinality(Since(W, D, z) \ {y}) < n,
             ~ \E d \in 0 .. Size(b) - 1 : Back(b, d) = y
      PROVE  FALSE
  <2> DEFINE T == Since(W, D, z) \ {y}
             f == [e \in 0 .. n - 1 |-> Back(b, e)]
  <2>1. Size(b) = n /\ \A e \in 0 .. n - 1 : Back(b, e) \in Since(W, D, z)
    BY <1>3 DEF Recency
  <2>2. \A e \in 0 .. n - 1 : Back(b, e) \in T
    BY <1>3, <2>1
  <2>3. \A d, e \in 0 .. n - 1 : Back(b, d) = Back(b, e) => d = e
    BY <2>1 DEF DistinctLines
  <2>4. IsFiniteSet(T)
    BY <1>1, FS_Subset
  <2> HIDE DEF T
  <2>5. f \in Injection(0 .. n - 1, T)
    BY <2>2, <2>3 DEF Injection, IsInjective
  <2>6. Cardinality(0 .. n - 1) = n
    BY FS_Interval
  <2> HIDE DEF f
  <2>7. n <= Cardinality(T)
    BY <2>4, <2>5, <2>6, FS_Injection
  <2>8. Cardinality(T) \in Nat
    BY <2>4, FS_CardinalityType
  <2>9. QED
    BY <1>3, <2>7, <2>8 DEF T
<1>4. QED
  BY <1>2, <1>3 DEF Near

\* E is D with x, which comes after all the references of D.
Extends(E, D, x) ==
  /\ D \subseteq Triples /\ x \in Triples
  /\ \A z \in D : Precedes(z, x)
  /\ E = D \cup {x}

\* A reference x after all those of D is one more line since each of them.
LEMMA SinceGrows ==
  ASSUME NEW W, NEW D, NEW E, NEW x, Extends(E, D, x), NEW z \in D
  PROVE  Since(W, E, z) = Since(W, D, z) \cup {LineAt(W, x)}
<1>1. {u \in E : Precedes(z, u)} = {u \in D : Precedes(z, u)} \cup {x}
  BY DEF Extends
<1>2. QED
  BY <1>1 DEF Since

LEMMA NoneSinceLast ==
  ASSUME NEW W, NEW D, NEW E, NEW x, Extends(E, D, x)
  PROVE  Since(W, E, x) = {}
<1>1. \A u \in E : ~ Precedes(x, u)
  BY PrecedesIsAnOrder DEF Extends
<1>2. QED
  BY <1>1 DEF Since

\* An earlier reference is followed by all the lines that a later one is
\* followed by, and by the later one's.
LEMMA SinceIsMonotone ==
  ASSUME NEW W, NEW D \in SUBSET Triples, NEW z \in D, NEW v \in D, Precedes(z, v)
  PROVE  Since(W, D, v) \subseteq Since(W, D, z) /\ LineAt(W, v) \in Since(W, D, z)
<1>1. \A u \in D : Precedes(v, u) => Precedes(z, u)
  BY PrecedesIsAnOrder
<1>2. QED
  BY <1>1 DEF Since

\* A line becomes one older when a line comes in behind it.
LEMMA OneYounger ==
  ASSUME NEW W, NEW D, NEW E, NEW x, Extends(E, D, x),
         NEW b, NEW r, NEW d \in Nat \ {0}, Back(r, 0) = LineAt(W, x),
         \A e \in 1 .. d : Back(r, e) = Back(b, e - 1),
         NEW z \in D, Since(W, D, z) = Younger(b, d - 1)
  PROVE  Since(W, E, z) = Younger(r, d)
<1>1. Since(W, E, z) = Since(W, D, z) \cup {Back(r, 0)}
  <2>1. Since(W, E, z) = Since(W, D, z) \cup {LineAt(W, x)}
    BY SinceGrows
  <2>2. QED
    BY <2>1
<1>2. Younger(r, d) = Younger(b, d - 1) \cup {Back(r, 0)}
  <2>1. ASSUME NEW e \in 0 .. (d - 1) - 1
        PROVE  \E g \in 0 .. d - 1 : Back(b, e) = Back(r, g)
    <3>1. e + 1 \in 1 .. d /\ e + 1 \in 0 .. d - 1 /\ (e + 1) - 1 = e
      OBVIOUS
    <3>2. QED
      BY <3>1
  <2>2. ASSUME NEW e \in 0 .. d - 1, e # 0
        PROVE  \E g \in 0 .. (d - 1) - 1 : Back(r, e) = Back(b, g)
    <3>1. e \in 1 .. d /\ e - 1 \in 0 .. (d - 1) - 1
      BY <2>2
    <3>2. QED
      BY <3>1
  <2>3. 0 \in 0 .. d - 1
    OBVIOUS
  <2>4. QED
    BY <2>1, <2>2, <2>3 DEF Younger
<1>3. QED
  BY <1>1, <1>2

LEMMA RefreshedKeepsRecency ==
  ASSUME NEW W, NEW D, NEW E, NEW x, Extends(E, D, x),
         NEW b, NEW r, NEW n \in Nat, DistinctLines(b), Size(b) <= n,
         Recency(W, D, b, n), Refreshed(b, r, LineAt(W, x))
  PROVE  Recency(W, E, r, n)
<1> DEFINE y == LineAt(W, x)
<1>1. PICK h \in 0 .. Size(b) - 1 :
        /\ Back(b, h) = y
        /\ Size(r) = Size(b)
        /\ Back(r, 0) = y
        /\ \A d \in 1 .. h : Back(r, d) = Back(b, d - 1)
        /\ \A d \in h + 1 .. Size(b) - 1 : Back(r, d) = Back(b, d)
  BY DEF Refreshed
<1>2. Size(b) \in Nat /\ h \in Nat /\ h < Size(b)
  BY DEF DistinctLines
<1>3. ASSUME NEW d \in 0 .. Size(r) - 1
      PROVE  \E z \in E :
               /\ LineAt(W, z) = Back(r, d)
               /\ Since(W, E, z) = Younger(r, d)
  <2>1. CASE d = 0
    <3>1. Since(W, E, x) = {} /\ Younger(r, d) = {}
      BY <2>1, NoneSinceLast DEF Younger
    <3>2. QED
      BY <1>1, <2>1, <3>1 DEF Extends
  <2>2. CASE d \in 1 .. h
    <3>1. d - 1 \in 0 .. Size(b) - 1 /\ d \in Nat \ {0}
      BY <1>1, <1>2, <2>2
    <3>2. PICK z \in D : /\ LineAt(W, z) = Back(b, d - 1)
                         /\ Since(W, D, z) = Younger(b, d - 1)
      BY <3>1 DEF Recency
    <3>3. \A e \in 1 .. d : Back(r, e) = Back(b, e - 1)
      BY <1>1, <1>2, <2>2
    <3>4. Since(W, E, z) = Younger(r, d)
      BY <1>1, <3>1, <3>2, <3>3, OneYounger
    <3>5. QED
      BY <1>1, <2>2, <3>2, <3>4 DEF Extends
  <2>3. CASE d \in h + 1 .. Size(b) - 1
    <3>1. d \in 0 .. Size(b) - 1 /\ d \in Nat /\ h < d
      BY <1>2, <2>3
    <3>2. PICK z \in D : /\ LineAt(W, z) = Back(b, d)
                         /\ Since(W, D, z) = Younger(b, d)
      BY <3>1 DEF Recency
    <3>3. Since(W, E, z) = Since(W, D, z) \cup {y}
      BY SinceGrows
    <3>4. Younger(b, d) \cup {y} = Younger(r, d)
      <4>1. \A e \in 0 .. d - 1 : \/ e = 0 /\ Back(r, e) = y
                                  \/ e - 1 \in 0 .. d - 1 /\ Back(r, e) = Back(b, e - 1)
                                  \/ Back(r, e) = Back(b, e)
        BY <1>1, <1>2, <2>3, <3>1
      <4>2. \A e \in 0 .. d - 1 : \/ e + 1 \in 0 .. d - 1 /\ Back(b, e) = Back(r, e + 1)
                                  \/ Back(b, e) = Back(r, 0)
                                  \/ Back(b, e) = Back(r, e)
        <5> TAKE e \in 0 .. d - 1
        <5>1. CASE e < h
          <6>1. e + 1 \in 1 .. h /\ (e + 1) - 1 = e /\ e + 1 \in 0 .. d - 1
            BY <1>2, <3>1, <5>1
          <6>2. QED
            BY <1>1, <6>1
        <5>2. CASE e = h
          BY <1>1, <5>2
        <5>3. CASE e > h
          <6>1. e \in h + 1 .. Size(b) - 1
            BY <1>2, <3>1, <5>3
          <6>2. QED
            BY <1>1, <6>1
        <5>4. QED
          BY <1>2, <3>1, <5>1, <5>2, <5>3
      <4>3. 0 \in 0 .. d - 1 /\ y = Back(r, 0)
        BY <1>1, <1>2, <3>1
      <4>4. QED
        BY <4>1, <4>2, <4>3 DEF Younger
    <3>5. QED
      BY <1>1, <2>3, <3>2, <3>3, <3>4 DEF Extends
  <2>4. d = 0 \/ d \in 1 .. h \/ d \in h + 1 .. Size(b) - 1
    BY <1>1, <1>2
  <2>5. QED
    BY <2>1, <2>2, <2>3, <2>4
<1>4. ASSUME NEW z \in E
      PROVE  \/ \E d \in 0 .. Size(r) - 1 : LineAt(W, z) = Back(r, d)
             \/ Size(r) = n /\ \A e \in 0 .. n - 1 : Back(r, e) \in Since(W, E, z)
  <2>1. CASE z = x
    <3>1. 0 \in 0 .. Size(r) - 1
      BY <1>1, <1>2
    <3>2. QED
      BY <1>1, <2>1, <3>1 DEF Extends
  <2>2. ASSUME z \in D, NEW d \in 0 .. Size(b) - 1, LineAt(W, z) = Back(b, d)
        PROVE  \E e \in 0 .. Size(r) - 1 : LineAt(W, z) = Back(r, e)
    <3>1. CASE d < h
      <4>1. d + 1 \in 1 .. h /\ (d + 1) - 1 = d /\ d + 1 \in 0 .. Size(r) - 1
        BY <1>1, <1>2, <3>1
      <4>2. Back(r, d + 1) = Back(b, d)
        BY <1>1, <4>1
      <4>3. QED
        BY <2>2, <4>1, <4>2
    <3>2. CASE d = h
      <4>1. 0 \in 0 .. Size(r) - 1
        BY <1>1, <1>2
      <4>2. QED
        BY <1>1, <2>2, <3>2, <4>1
    <3>3. CASE d > h
      <4>1. d \in h + 1 .. Size(b) - 1
        BY <1>2, <3>3
      <4>2. QED
        BY <1>1, <2>2, <4>1
    <3>4. QED
      BY <1>2, <3>1, <3>2, <3>3
  <2>3. ASSUME z \in D, Size(b) = n, \A e \in 0 .. n - 1 : Back(b, e) \in Since(W, D, z)
        PROVE  Size(r) = n /\ \A e \in 0 .. n - 1 : Back(r, e) \in Since(W, E, z)
    <3>1. Since(W, E, z) = Since(W, D, z) \cup {y}
      BY <2>3, SinceGrows
    <3>2. \A e \in 0 .. n - 1 : \/ Back(r, e) = y
                                \/ e - 1 \in 0 .. n - 1 /\ Back(r, e) = Back(b, e - 1)
                                \/ Back(r, e) = Back(b, e)
      BY <1>1, <1>2, <2>3
    <3>3. QED
      BY <1>1, <2>3, <3>1, <3>2
  <2>4. QED
    BY <2>1, <2>2, <2>3 DEF Recency, Extends
<1>5. QED
  BY <1>3, <1>4 DEF Recency

LEMMA EnteredKeepsRecency ==
  ASSUME NEW W, NEW D, NEW E, NEW x, Extends(E, D, x),
         NEW b, NEW r, NEW n \in Nat \ {0}, DistinctLines(b), Size(b) <= n,
         Recency(W, D, b, n), Entered(b, r, LineAt(W, x), n)
  PROVE  Recency(W, E, r, n)
<1> DEFINE y == LineAt(W, x)
<1>1. /\ Size(r) = IF Size(b) < n THEN Size(b) + 1 ELSE n
      /\ Back(r, 0) = y
      /\ \A d \in 1 .. Size(r) - 1 : Back(r, d) = Back(b, d - 1)
  BY DEF Entered
<1>2. /\ Size(b) \in Nat /\ Size(r) \in Nat \ {0}
      /\ Size(r) - 1 <= Size(b) /\ Size(r) <= n
      /\ Size(r) = Size(b) + 1 \/ (Size(r) = n /\ Size(b) = n)
  BY <1>1 DEF DistinctLines
<1>3. ASSUME NEW d \in 0 .. Size(r) - 1
      PROVE  \E z \in E :
               /\ LineAt(W, z) = Back(r, d)
               /\ Since(W, E, z) = Younger(r, d)
  <2>1. CASE d = 0
    <3>1. Since(W, E, x) = {} /\ Younger(r, d) = {}
      BY <2>1, NoneSinceLast DEF Younger
    <3>2. QED
      BY <1>1, <2>1, <3>1 DEF Extends
  <2>2. CASE d > 0
    <3>1. d - 1 \in 0 .. Size(b) - 1 /\ d \in Nat \ {0} /\ d \in 1 .. Size(r) - 1
      BY <1>2, <2>2
    <3>2. PICK z \in D : /\ LineAt(W, z) = Back(b, d - 1)
                         /\ Since(W, D, z) = Younger(b, d - 1)
      BY <3>1 DEF Recency
    <3>3. \A e \in 1 .. d : Back(r, e) = Back(b, e - 1)
      BY <1>1, <1>2, <3>1
    <3>4. Since(W, E, z) = Younger(r, d)
      BY <1>1, <3>1, <3>2, <3>3, OneYounger
    <3>5. QED
      BY <1>1, <3>1, <3>2, <3>4 DEF Extends
  <2>3. QED
    BY <1>2, <2>1, <2>2
<1>4. ASSUME NEW z \in D,
             Size(b) = n, \A e \in 0 .. n - 2 : Back(b, e) \in Since(W, D, z)
      PROVE  Size(r) = n /\ \A e \in 0 .. n - 1 : Back(r, e) \in Since(W, E, z)
  <2>1. Size(r) = n
    BY <1>1, <1>4
  <2>2. Since(W, E, z) = Since(W, D, z) \cup {y}
    BY SinceGrows
  <2>3. \A e \in 0 .. n - 1 : \/ Back(r, e) = y
                              \/ e - 1 \in 0 .. n - 2 /\ Back(r, e) = Back(b, e - 1)
    BY <1>1, <2>1
  <2>4. QED
    BY <1>4, <2>1, <2>2, <2>3
<1>5. ASSUME NEW z \in D, NEW d \in 0 .. Size(b) - 1, LineAt(W, z) = Back(b, d)
      PROVE  \A e \in 0 .. d - 1 : Back(b, e) \in Since(W, D, z)
  <2>1. PICK v \in D : /\ LineAt(W, v) = Back(b, d)
                       /\ Since(W, D, v) = Younger(b, d)
    BY DEF Recency
  <2>2. ASSUME Precedes(v, z) PROVE FALSE
    <3>1. Back(b, d) \in Younger(b, d)
      BY <1>5, <2>1, <2>2, SinceIsMonotone DEF Extends
    <3>2. PICK e \in 0 .. d - 1 : Back(b, e) = Back(b, d)
      BY <3>1 DEF Younger
    <3>3. e \in 0 .. Size(b) - 1 /\ e # d
      BY <1>2
    <3>4. QED
      BY <3>2, <3>3 DEF DistinctLines
  <2>3. z = v \/ Precedes(z, v)
    BY <2>2, PrecedesIsAnOrder DEF Extends
  <2>4. Since(W, D, v) \subseteq Since(W, D, z)
    BY <2>3, SinceIsMonotone DEF Extends
  <2>5. QED
    BY <2>1, <2>4 DEF Younger
<1>6. ASSUME NEW z \in E
      PROVE  \/ \E d \in 0 .. Size(r) - 1 : LineAt(W, z) = Back(r, d)
             \/ Size(r) = n /\ \A e \in 0 .. n - 1 : Back(r, e) \in Since(W, E, z)
  <2>1. CASE z = x
    <3>1. 0 \in 0 .. Size(r) - 1
      BY <1>2
    <3>2. QED
      BY <1>1, <2>1, <3>1 DEF Extends
  <2>2. ASSUME z \in D, NEW d \in 0 .. Size(b) - 1, LineAt(W, z) = Back(b, d),
               d + 1 < Size(r)
        PROVE  \E e \in 0 .. Size(r) - 1 : LineAt(W, z) = Back(r, e)
    <3>1. d + 1 \in 1 .. Size(r) - 1 /\ d + 1 \in 0 .. Size(r) - 1 /\ (d + 1) - 1 = d
      BY <1>2, <2>2
    <3>2. QED
      BY <1>1, <2>2, <3>1
  <2>3. ASSUME z \in D, NEW d \in 0 .. Size(b) - 1, LineAt(W, z) = Back(b, d),
               ~ (d + 1 < Size(r))
        PROVE  Size(r) = n /\ \A e \in 0 .. n - 1 : Back(r, e) \in Since(W, E, z)
    <3>1. Size(b) = n /\ d - 1 = n - 2
      BY <1>2, <2>3
    <3>2. QED
      BY <1>4, <1>5, <2>3, <3>1
  <2>4. ASSUME z \in D, Size(b) = n, \A e \in 0 .. n - 1 : Back(b, e) \in Since(W, D, z)
        PROVE  Size(r) = n /\ \A e \in 0 .. n - 1 : Back(r, e) \in Since(W, E, z)
    BY <1>4, <2>4
  <2>5. QED
    BY <2>1, <2>2, <2>3, <2>4 DEF Recency, Extends
<1>7. QED
  BY <1>3, <1>6 DEF Recency

-----------------------------------------------------------------------------
(* The two loops go through the references in their order.                 *)

\* <<j, e>> is where NextCPU takes the loops from index i and CPU c.
IsNext(j, e, i, c) ==
  /\ j = IF c = P - 1 THEN i + 1 ELSE i
  /\ e = IF c = P - 1 THEN 0 ELSE c + 1

\* The references D become E by the i-th one of CPU c, if its string has one.
Advances(W, r, E, D, i, c) ==
  IF i \in 1 .. Len(W[c]) THEN Extends(E, D, <<r, i, c>>) ELSE E = D

\* The reference that the loops come to next is the first of those that are not
\* before it: the loop over p runs inside the loop over t.
LEMMA OneMoreBefore ==
  ASSUME NEW W, AreStrings(W), NEW r \in Nat \ {0}, NEW i \in Nat \ {0}, NEW c \in CPUs,
         NEW j, NEW e, IsNext(j, e, i, c)
  PROVE  Advances(W, r, Before(W, r, j, e), Before(W, r, i, c), i, c)
<1>1. P \in Nat \ {0} /\ c \in 0 .. P - 1 /\ CPUs = 0 .. P - 1
  BY PAssumption DEF CPUs
<1>2. ASSUME NEW z \in RefsOf(W, r)
      PROVE  Precedes(z, <<r, j, e>>) <=> Precedes(z, <<r, i, c>>) \/ z = <<r, i, c>>
  <2>1. PICK s \in Nat, k \in Nat, g \in Nat : z = <<s, k, g>>
    BY RefsAreTriples DEF Triples
  <2>2. s \in 1 .. r /\ g \in 0 .. P - 1
    BY <1>1, <1>2, <2>1, RefsAreTriples
  <2>3. Precedes(z, <<r, j, e>>) <=> \/ s < r
                                     \/ s = r /\ k < j
                                     \/ s = r /\ k = j /\ g < e
    BY <2>1 DEF Precedes
  <2>4. Precedes(z, <<r, i, c>>) <=> \/ s < r
                                     \/ s = r /\ k < i
                                     \/ s = r /\ k = i /\ g < c
    BY <2>1 DEF Precedes
  <2>5. z = <<r, i, c>> <=> s = r /\ k = i /\ g = c
    BY <2>1
  <2>6. QED
    BY <1>1, <2>2, <2>3, <2>4, <2>5 DEF IsNext
<1>3. <<r, i, c>> \in RefsOf(W, r) <=> i \in 1 .. Len(W[c])
  <2>1. r \in Nat /\ i \in Nat /\ c \in Nat /\ r \in 1 .. r
    BY <1>1
  <2>2. QED
    BY <2>1, RefsAreTriples
<1>4. ASSUME i \in 1 .. Len(W[c])
      PROVE  Extends(Before(W, r, j, e), Before(W, r, i, c), <<r, i, c>>)
  <2>1. Before(W, r, i, c) \subseteq Triples /\ <<r, i, c>> \in Triples
    BY <1>1, RefsAreTriples DEF Before, Triples
  <2>2. \A z \in Before(W, r, i, c) : Precedes(z, <<r, i, c>>)
    BY DEF Before
  <2>3. Before(W, r, j, e) = Before(W, r, i, c) \cup {<<r, i, c>>}
    BY <1>2, <1>3, <1>4 DEF Before
  <2>4. QED
    BY <2>1, <2>2, <2>3 DEF Extends
<1>5. ASSUME i \notin 1 .. Len(W[c])
      PROVE  Before(W, r, j, e) = Before(W, r, i, c)
  <2>1. \A z \in RefsOf(W, r) : z # <<r, i, c>>
    BY <1>3, <1>5
  <2>2. QED
    BY <1>2, <2>1 DEF Before
<1>6. QED
  BY <1>4, <1>5 DEF Advances

\* Nothing comes before the first reference of the warmup call.
LEMMA NothingAtFirst ==
  ASSUME NEW W, AreStrings(W)
  PROVE  Before(W, 1, 1, 0) = {}
<1> SUFFICES ASSUME NEW z \in RefsOf(W, 1), Precedes(z, <<1, 1, 0>>) PROVE FALSE
  BY DEF Before
<1>1. PICK s \in Nat, k \in Nat, g \in Nat : z = <<s, k, g>>
  BY RefsAreTriples DEF Triples
<1>2. s = 1 /\ k >= 1 /\ g >= 0
  BY <1>1, RefsAreTriples
<1>3. s < 1 \/ (s = 1 /\ k < 1) \/ (s = 1 /\ k = 1 /\ g < 0)
  BY <1>1 DEF Precedes
<1>4. QED
  BY <1>2, <1>3

\* After the longest string's last index a run is over, and what comes before
\* the counted call is the warmup call.
LEMMA RunIsOver ==
  ASSUME NEW W, AreStrings(W), NEW m \in Nat, \A c \in CPUs : Len(W[c]) <= m,
         NEW r \in Nat
  PROVE  Before(W, r, m + 1, 0) = RefsOf(W, r) /\ Before(W, r + 1, 1, 0) = RefsOf(W, r)
<1>1. ASSUME NEW z \in RefsOf(W, r)
      PROVE  Precedes(z, <<r, m + 1, 0>>)
  <2>1. PICK s \in Nat, k \in Nat, g \in Nat : z = <<s, k, g>>
    BY <1>1, RefsAreTriples DEF Triples
  <2>2. g \in CPUs /\ s <= r /\ k \in 1 .. Len(W[g])
    BY <1>1, <2>1, RefsAreTriples
  <2>3. Len(W[g]) \in Nat /\ Len(W[g]) <= m
    BY <2>2, StringOfCPU
  <2>4. s < r \/ (s = r /\ k < m + 1)
    BY <2>2, <2>3
  <2>5. QED
    BY <2>1, <2>4 DEF Precedes
<1>2. ASSUME NEW z \in RefsOf(W, r)
      PROVE  z \in RefsOf(W, r + 1) /\ Precedes(z, <<r + 1, 1, 0>>)
  <2>1. PICK s \in Nat, k \in Nat, g \in Nat : z = <<s, k, g>>
    BY <1>2, RefsAreTriples DEF Triples
  <2>2. g \in CPUs /\ s \in 1 .. r /\ k \in 1 .. Len(W[g])
    BY <1>2, <2>1, RefsAreTriples
  <2>3. s \in 1 .. r + 1 /\ s < r + 1 /\ r + 1 \in Nat
    BY <2>2
  <2>4. <<s, k, g>> \in RefsOf(W, r + 1)
    BY <2>2, <2>3, RefsAreTriples
  <2>5. QED
    BY <2>1, <2>3, <2>4 DEF Precedes
<1>3. ASSUME NEW z \in RefsOf(W, r + 1), Precedes(z, <<r + 1, 1, 0>>)
      PROVE  z \in RefsOf(W, r)
  <2>1. PICK s \in Nat, k \in Nat, g \in Nat : z = <<s, k, g>>
    BY <1>3, RefsAreTriples DEF Triples
  <2>2. g \in CPUs /\ s \in 1 .. r + 1 /\ k \in 1 .. Len(W[g])
    BY <1>3, <2>1, RefsAreTriples
  <2>3. s < r + 1 \/ (s = r + 1 /\ k < 1) \/ (s = r + 1 /\ k = 1 /\ g < 0)
    BY <1>3, <2>1 DEF Precedes
  <2>4. s \in 1 .. r
    BY <2>2, <2>3
  <2>5. QED
    BY <2>1, <2>2, <2>4, RefsAreTriples
<1>4. QED
  BY <1>1, <1>2, <1>3 DEF Before

-----------------------------------------------------------------------------
(* Counting the misses *)

\* The references of CPU c to domain d among D that reuse distances call misses.
Misses(W, r, c, d, D) ==
  {i \in 1 .. Len(W[c]) : /\ <<r, i, c>> \in D
                          /\ W[c][i][2] = d
                          /\ ~ IsHit(W, <<r, i, c>>, CacheLines, CacheLineSize)}

LEMMA MissesAreFinite ==
  ASSUME NEW W, AreStrings(W), NEW r, NEW c \in CPUs, NEW d, NEW D
  PROVE  /\ IsFiniteSet(Misses(W, r, c, d, D))
         /\ Cardinality(Misses(W, r, c, d, D)) \in Nat
<1>1. IsFiniteSet(1 .. Len(W[c]))
  BY StringOfCPU, FS_Interval
<1>2. Misses(W, r, c, d, D) \subseteq 1 .. Len(W[c])
  BY DEF Misses
<1>3. IsFiniteSet(Misses(W, r, c, d, D))
  BY <1>1, <1>2, FS_Subset
<1>4. QED
  BY <1>3, FS_CardinalityType

\* One more reference is one more miss of its CPU and its domain, or none.
LEMMA MissesGrow ==
  ASSUME NEW W, AreStrings(W), NEW r, NEW g \in CPUs, NEW k \in 1 .. Len(W[g]),
         NEW D, NEW E, Extends(E, D, <<r, k, g>>), NEW c \in CPUs, NEW d
  PROVE  IF c = g /\ d = W[g][k][2] /\ ~ IsHit(W, <<r, k, g>>, CacheLines, CacheLineSize)
         THEN Cardinality(Misses(W, r, c, d, E)) = Cardinality(Misses(W, r, c, d, D)) + 1
         ELSE Cardinality(Misses(W, r, c, d, E)) = Cardinality(Misses(W, r, c, d, D))
<1> DEFINE A == Misses(W, r, c, d, D)
           B == Misses(W, r, c, d, E)
           counts == c = g /\ d = W[g][k][2]
                       /\ ~ IsHit(W, <<r, k, g>>, CacheLines, CacheLineSize)
<1>1. <<r, k, g>> \notin D
  BY PrecedesIsAnOrder DEF Extends
<1>2. \A i : <<r, i, c>> \in E <=> <<r, i, c>> \in D \/ (i = k /\ c = g)
  BY DEF Extends
<1>3. IsFiniteSet(A)
  BY MissesAreFinite
<1>4. ASSUME counts PROVE Cardinality(B) = Cardinality(A) + 1
  <2>1. k \notin A /\ B = A \cup {k}
    BY <1>1, <1>2, <1>4 DEF Misses
  <2> HIDE DEF A, B
  <2>2. QED
    BY <1>3, <2>1, FS_AddElement
<1>5. ASSUME ~ counts PROVE B = A
  BY <1>2, <1>5 DEF Misses
<1>6. QED
  BY <1>4, <1>5

\* At the end of a run all its misses are counted.
LEMMA AllMisses ==
  ASSUME NEW W, AreStrings(W), NEW r \in Nat \ {0}, NEW c \in CPUs, NEW d
  PROVE  Cardinality(Misses(W, r, c, d, RefsOf(W, r)))
           = MissesOf(W, r, c, d, CacheLines, CacheLineSize)
<1>1. \A i \in 1 .. Len(W[c]) : <<r, i, c>> \in RefsOf(W, r)
  <2> TAKE i \in 1 .. Len(W[c])
  <2>1. i \in Nat /\ c \in Nat /\ r \in 1 .. r
    BY StringOfCPU, PAssumption DEF CPUs
  <2>2. QED
    BY <2>1, RefsAreTriples
<1>2. Misses(W, r, c, d, RefsOf(W, r))
        = {i \in 1 .. Len(W[c]) :
             W[c][i][2] = d /\ ~ IsHit(W, <<r, i, c>>, CacheLines, CacheLineSize)}
  BY <1>1 DEF Misses
<1>3. QED
  BY <1>2 DEF MissesOf

-----------------------------------------------------------------------------
(* What the simulation has counted at every point of both calls            *)

\* The references that have gone through the cache.
Done == Before(ws, run, t + 1, p)

\* Where the loops are at each statement of a call.
LoopsInv ==
  /\ pc \notin {"visit", "killed"} => p = 0
  /\ pc \in {"reset", "install", "arm"} => t = 0
  /\ pc \in {"disarm", "restore", "return", "done"} => t = TMax

\* What has been counted is what reuse distances say of what is done.
CountsInv ==
  \A c \in CPUs, d \in Domains :
    cache_misses[c][d] = Cardinality(Misses(ws, run, c, d, Done))

\* What the warmup call counted, once it is over.
WarmupInv ==
  run = 2 => \A c \in CPUs, d \in Domains :
               warmup_misses[c][d] = MissesOf(ws, 1, c, d, CacheLines, CacheLineSize)

MissInv ==
  /\ TraceInv /\ SignalInv
  /\ LoopsInv /\ Recency(ws, Done, q, CacheLines) /\ CountsInv /\ WarmupInv

\* The facts about the state that the lemmas above ask for.
LEMMA StateOfLoops ==
  ASSUME TraceInv
  PROVE  /\ AreStrings(ws) /\ run \in {1, 2} /\ run \in Nat \ {0}
         /\ t \in Nat /\ p \in CPUs /\ p \in Nat /\ t + 1 \in Nat \ {0}
         /\ TMax \in Nat /\ t <= TMax /\ \A c \in CPUs : Len(ws[c]) <= TMax
         /\ IsFiniteSet(Done) /\ Done \subseteq Triples
         /\ DistinctLines(q) /\ Size(q) <= CacheLines /\ CacheLines \in Nat \ {0}
         /\ memory_references = {Back(q, d) : d \in 0 .. Size(q) - 1}
<1>1. AreStrings(ws) /\ run \in {1, 2} /\ t \in 0 .. MaxLength /\ p \in CPUs /\ t <= TMax
  BY DEF TraceInv, TraceTypeOK, AreStrings
<1>2. TMax \in 0 .. MaxLength /\ \A c \in CPUs : Len(ws[c]) <= TMax
  BY LongestString DEF TraceInv
<1>3. /\ run \in Nat \ {0} /\ t \in Nat /\ t + 1 \in Nat \ {0} /\ p \in Nat
      /\ TMax \in Nat /\ CacheLines \in Nat \ {0}
  BY <1>1, <1>2, MaxLengthAssumption, PAssumption, CacheLinesAssumption DEF CPUs
<1>4. Done \subseteq RefsOf(ws, run)
  BY DEF Done, Before
<1>5. IsFiniteSet(Done) /\ Done \subseteq Triples
  BY <1>1, <1>3, <1>4, RefsAreFinite, RefsAreTriples, FS_Subset
<1>6. Size(q) \in Nat /\ Size(q) <= CacheLines /\ Lists(q, memory_references)
  BY InvariantFacts DEF TraceInv
<1>7. DistinctLines(q) /\ memory_references = {Back(q, d) : d \in 0 .. Size(q) - 1}
  BY <1>6, SlotsAreAges DEF DistinctLines
<1>8. QED
  BY <1>1, <1>2, <1>3, <1>5, <1>6, <1>7

\* The lookup set holds the line of the next reference just if that reference is
\* a hit in the terms of reuse distances.
LEMMA ResidentIsHit ==
  ASSUME TraceInv, Recency(ws, Done, q, CacheLines)
  PROVE  LineAt(ws, <<run, t + 1, p>>) \in memory_references
           <=> IsHit(ws, <<run, t + 1, p>>, CacheLines, CacheLineSize)
<1> DEFINE y == LineAt(ws, <<run, t + 1, p>>)
<1>1. y \in memory_references <=> \E d \in 0 .. Size(q) - 1 : Back(q, d) = y
  BY StateOfLoops
<1>2. (\E d \in 0 .. Size(q) - 1 : Back(q, d) = y) <=> Near(ws, Done, y, CacheLines)
  <2> HIDE DEF y
  <2>1. /\ IsFiniteSet(Done) /\ CacheLines \in Nat
        /\ DistinctLines(q) /\ Size(q) <= CacheLines
    BY StateOfLoops
  <2>2. QED
    BY <2>1, InQueueIsNear
<1>3. IsHit(ws, <<run, t + 1, p>>, CacheLines, CacheLineSize)
        <=> Near(ws, Done, y, CacheLines)
  BY IsHitByLines DEF Done
<1>4. QED
  BY <1>1, <1>2, <1>3

\* A reference goes through the cache: the queue is in the order of the last
\* references again, and what allocate() returns is added where it belongs.
LEMMA VisitCounts ==
  ASSUME TraceInv, Recency(ws, Done, q, CacheLines), CountsInv, Visit
  PROVE  Recency(ws, Done, q, CacheLines)' /\ CountsInv'
<1> DEFINE x == <<run, t + 1, p>>
           k == t + 1
           a == ws[p][t + 1][1]
           b == ws[p][t + 1][2]
           D == Done
           E == Before(ws, run, t' + 1, p')
           hit == IsHit(ws, x, CacheLines, CacheLineSize)
<1>1. /\ t < Len(ws[p]) /\ NextCPU /\ UNCHANGED <<ws, run>> /\ Allocate(a)
      /\ cache_misses' = [cache_misses EXCEPT ![p][b] = @ + ret']
  BY DEF Visit
<1>2. Len(ws[p]) \in Nat /\ k \in 1 .. Len(ws[p])
  BY <1>1, StateOfLoops, StringOfCPU
<1>3. a \in Addresses /\ b \in Domains
  BY <1>2, StateOfLoops, StringOfCPU
<1>4. Extends(E, D, x)
  <2> DEFINE j == t' + 1
             e == p'
  <2>1. IsNext(j, e, k, p)
    BY <1>1 DEF NextCPU, IsNext
  <2>2. D = Before(ws, run, k, p)
    BY DEF Done
  <2> HIDE DEF k, D, j, e
  <2>3. /\ AreStrings(ws) /\ run \in Nat \ {0} /\ k \in Nat \ {0} /\ p \in CPUs
    BY StateOfLoops DEF k
  <2>4. Advances(ws, run, Before(ws, run, j, e), Before(ws, run, k, p), k, p)
    BY <2>1, <2>3, OneMoreBefore
  <2>5. k \in 1 .. Len(ws[p])
    BY <1>2 DEF k
  <2>6. Extends(Before(ws, run, j, e), Before(ws, run, k, p), <<run, k, p>>)
    BY <2>4, <2>5 DEF Advances
  <2>7. QED
    BY <2>2, <2>6 DEF k, j, e
<1>5. Done' = E
  BY <1>1 DEF Done
<1>6. Line(a) = LineAt(ws, x)
  BY DEF LineAt
<1>7. \/ ret' = 0 /\ hit /\ Refreshed(q, q', LineAt(ws, x))
      \/ ret' = 1 /\ ~ hit /\ Entered(q, q', LineAt(ws, x), CacheLines)
  BY <1>1, <1>3, <1>6, AllocateByAge, ResidentIsHit DEF TraceInv
<1>8. Recency(ws, E, q', CacheLines)
  <2> HIDE DEF E, D, x, hit
  <2>1. /\ DistinctLines(q) /\ Size(q) <= CacheLines /\ CacheLines \in Nat \ {0}
        /\ Recency(ws, D, q, CacheLines)
    BY StateOfLoops DEF D
  <2>2. CASE Refreshed(q, q', LineAt(ws, x))
    BY <1>4, <2>1, <2>2, RefreshedKeepsRecency
  <2>3. CASE Entered(q, q', LineAt(ws, x), CacheLines)
    BY <1>4, <2>1, <2>3, EnteredKeepsRecency
  <2>4. QED
    BY <1>7, <2>2, <2>3
<1>9. ASSUME NEW c \in CPUs, NEW d \in Domains
      PROVE  cache_misses'[c][d] = Cardinality(Misses(ws, run, c, d, E))
  <2> DEFINE old == Cardinality(Misses(ws, run, c, d, D))
             new == Cardinality(Misses(ws, run, c, d, E))
  <2>1. IF c = p /\ d = b /\ ~ hit THEN new = old + 1 ELSE new = old
    <3>1. /\ AreStrings(ws) /\ p \in CPUs /\ k \in 1 .. Len(ws[p])
          /\ Extends(E, D, <<run, k, p>>)
      BY <1>2, <1>4, StateOfLoops
    <3> HIDE DEF E, D
    <3>2. QED
      BY <3>1, MissesGrow
  <2>2. cache_misses[c][d] = old /\ old \in Nat
    BY StateOfLoops, MissesAreFinite DEF CountsInv
  <2>3. cache_misses'[c][d] = IF c = p /\ d = b THEN cache_misses[c][d] + ret' ELSE cache_misses[c][d]
    <3>1. cache_misses \in [CPUs -> [Domains -> Nat]] /\ p \in CPUs
      BY DEF TraceInv, TraceTypeOK
    <3> HIDE DEF b
    <3>2. QED
      BY <1>1, <1>3, <3>1
  <2> HIDE DEF old, new, hit, b
  <2>4. cache_misses'[c][d] = new
    BY <1>7, <2>1, <2>2, <2>3
  <2>5. QED
    BY <2>4 DEF new
<1>10. Recency(ws, Done, q, CacheLines)'
  <2>1. ws' = ws
    BY <1>1
  <2>2. Recency(ws', Done', q', CacheLines)
    BY <1>5, <1>8, <2>1
  <2>3. QED
    BY <2>2 DEF Recency, Since, LineAt, Line, Younger, Back, Slot, Size
<1>11. CountsInv'
  <2>1. ws' = ws /\ run' = run
    BY <1>1
  <2> HIDE DEF E
  <2>2. QED
    BY <1>5, <1>9, <2>1 DEF CountsInv, CPUs, Domains
<1>12. QED
  BY <1>10, <1>11

LEMMA InitCounts == TraceInit => MissInv
<1> SUFFICES ASSUME TraceInit PROVE MissInv
  OBVIOUS
<1>1. TraceInv /\ SignalInv
  BY TraceInitEstablishes DEF TraceInit, SignalInv, Reporting, ReportsKeepComing
<1>2. LoopsInv /\ WarmupInv
  BY DEF TraceInit, LoopsInv, WarmupInv
<1>3. run = 1 /\ t = 0 /\ p = 0 /\ Size(q) = 0
  BY DEF TraceInit, Constructed, Size
<1>4. Done = {}
  <2>1. Done = Before(ws, 1, 1, 0)
    BY <1>3 DEF Done
  <2>2. QED
    BY <1>1, <2>1, StateOfLoops, NothingAtFirst
<1>5. Recency(ws, Done, q, CacheLines)
  BY <1>3, <1>4 DEF Recency
<1>6. CountsInv
  <2>1. \A c \in CPUs, d \in Domains : cache_misses[c][d] = 0
    BY DEF TraceInit, NoMisses
  <2>2. \A c, d : Misses(ws, run, c, d, Done) = {}
    BY <1>4 DEF Misses
  <2>3. QED
    BY <2>1, <2>2, FS_EmptySet DEF CountsInv
<1>7. QED
  BY <1>1, <1>2, <1>5, <1>6 DEF MissInv

LEMMA StepKeepsLoops ==
  ASSUME TraceInv, SignalInv, LoopsInv, TraceNext
  PROVE  LoopsInv'
<1> USE DEF LoopsInv, Goto
<1>1. ws' = ws /\ TMax' = TMax
  <2>1. ws' = ws
    BY DEF TraceNext, Main, SigAlarm, ResetFlag, InstallHandler, ArmAlarm, LoopHead,
           ClearFlag, RearmAlarm, Visit, SkipShort, DisarmAlarm, RestoreDefault,
           ReturnWarmup, ReturnCount
  <2>2. QED
    BY <2>1 DEF TMax
<1>2. CASE Visit \/ SkipShort
  BY <1>2 DEF Visit, SkipShort, NextCPU
<1>3. CASE LoopHead
  <2>1. t = TMax \/ t < TMax
    BY StateOfLoops
  <2>2. pc = "loop" /\ UNCHANGED loopVars
        /\ pc' = IF t < TMax
                 THEN IF progress /\ print_progress = 1 THEN "clear" ELSE "visit"
                 ELSE IF progress THEN "disarm" ELSE "return"
    BY <1>3 DEF LoopHead
  <2>3. QED
    BY <1>1, <2>1, <2>2 DEF loopVars
<1>4. CASE ResetFlag \/ InstallHandler \/ ArmAlarm
  BY <1>1, <1>4 DEF ResetFlag, InstallHandler, ArmAlarm, loopVars
<1>5. CASE ClearFlag \/ RearmAlarm
  BY <1>1, <1>5 DEF ClearFlag, RearmAlarm, loopVars
<1>6. CASE DisarmAlarm \/ RestoreDefault
  BY <1>1, <1>6 DEF DisarmAlarm, RestoreDefault, loopVars
<1>7. CASE ReturnWarmup \/ ReturnCount
  BY <1>1, <1>7 DEF ReturnWarmup, ReturnCount, loopVars
<1>8. CASE SigAlarm
  <2>1. disposition = "handler"
    BY <1>8 DEF SigAlarm, SignalInv
  <2>2. pc' = pc /\ UNCHANGED loopVars
    BY <1>8, <2>1 DEF SigAlarm
  <2>3. QED
    BY <1>1, <2>2 DEF loopVars
<1>9. QED
  BY <1>2, <1>3, <1>4, <1>5, <1>6, <1>7, <1>8 DEF TraceNext, Main

\* Steps that take no reference and count no miss.
LEMMA SameHistory ==
  ASSUME Recency(ws, Done, q, CacheLines), CountsInv,
         UNCHANGED <<ws, q, run, cache_misses>>, Done' = Done
  PROVE  Recency(ws, Done, q, CacheLines)' /\ CountsInv'
<1>1. Recency(ws', Done', q', CacheLines)
  OBVIOUS
<1>2. Recency(ws, Done, q, CacheLines)'
  BY <1>1 DEF Recency, Since, LineAt, Line, Younger, Back, Slot, Size
<1>3. CountsInv'
  BY DEF CountsInv, CPUs, Domains
<1>4. QED
  BY <1>2, <1>3

\* The counted call starts on the history that the warmup call has left.
LEMMA WarmupIsHistory ==
  ASSUME MissInv, ReturnWarmup
  PROVE  Recency(ws, Done, q, CacheLines)' /\ CountsInv' /\ WarmupInv'
<1>1. /\ run = 1 /\ t = TMax /\ p = 0 /\ run' = 2 /\ t' = 0 /\ p' = 0
      /\ warmup_misses' = cache_misses /\ cache_misses' = NoMisses
      /\ UNCHANGED <<q, ws>>
  BY DEF ReturnWarmup, Goto, MissInv, LoopsInv, vars
<1>2. /\ AreStrings(ws) /\ TMax \in Nat /\ \A c \in CPUs : Len(ws[c]) <= TMax
  BY StateOfLoops DEF MissInv
<1>3. Done = RefsOf(ws, 1) /\ Done' = RefsOf(ws, 1)
  <2>1. Before(ws, 1, TMax + 1, 0) = RefsOf(ws, 1) /\ Before(ws, 1 + 1, 1, 0) = RefsOf(ws, 1)
    BY <1>2, RunIsOver
  <2>2. Done = Before(ws, 1, TMax + 1, 0) /\ Done' = Before(ws, 1 + 1, 1, 0)
    BY <1>1 DEF Done
  <2>3. QED
    BY <2>1, <2>2
<1>4. Recency(ws, Done, q, CacheLines)'
  <2>1. Recency(ws', Done', q', CacheLines)
    BY <1>1, <1>3 DEF MissInv
  <2>2. QED
    BY <2>1 DEF Recency, Since, LineAt, Line, Younger, Back, Slot, Size
<1>5. CountsInv'
  <2>1. \A c \in CPUs, d \in Domains : cache_misses'[c][d] = 0
    BY <1>1 DEF NoMisses
  <2>2. ASSUME NEW c \in CPUs, NEW d PROVE Misses(ws, 2, c, d, RefsOf(ws, 1)) = {}
    <3> SUFFICES ASSUME NEW i \in 1 .. Len(ws[c]), <<2, i, c>> \in RefsOf(ws, 1)
                 PROVE  FALSE
      BY DEF Misses
    <3>1. i \in Nat /\ c \in Nat
      BY <1>2, StringOfCPU, PAssumption DEF CPUs
    <3>2. 2 \in 1 .. 1
      BY <1>2, <3>1, RefsAreTriples
    <3>3. QED
      BY <3>2
  <2>3. QED
    BY <1>1, <1>3, <2>1, <2>2, FS_EmptySet DEF CountsInv, CPUs, Domains
<1>6. WarmupInv'
  <2> SUFFICES ASSUME NEW c \in CPUs, NEW d \in Domains
               PROVE  cache_misses[c][d] = MissesOf(ws, 1, c, d, CacheLines, CacheLineSize)
    BY <1>1 DEF WarmupInv, CPUs, Domains
  <2>1. cache_misses[c][d] = Cardinality(Misses(ws, 1, c, d, RefsOf(ws, 1)))
    BY <1>1, <1>3 DEF MissInv, CountsInv
  <2>2. QED
    BY <1>2, <2>1, AllMisses
<1>7. QED
  BY <1>4, <1>5, <1>6

LEMMA StepKeepsCounts ==
  ASSUME MissInv, TraceNext
  PROVE  Recency(ws, Done, q, CacheLines)' /\ CountsInv' /\ WarmupInv'
<1>1. TraceInv /\ Recency(ws, Done, q, CacheLines) /\ CountsInv /\ WarmupInv
  BY DEF MissInv
<1>2. ASSUME UNCHANGED <<ws, run, warmup_misses>> PROVE WarmupInv'
  BY <1>1, <1>2 DEF WarmupInv, CPUs, Domains
<1>3. CASE Visit
  BY <1>1, <1>2, <1>3, VisitCounts DEF Visit
<1>4. CASE SkipShort
  <2>1. /\ UNCHANGED <<ws, q, run, cache_misses, warmup_misses>>
        /\ NextCPU /\ t >= Len(ws[p])
    BY <1>4 DEF SkipShort, vars
  <2>2. Done' = Done
    <3> DEFINE k == t + 1
               j == t' + 1
               e == p'
    <3>1. IsNext(j, e, k, p)
      BY <2>1 DEF NextCPU, IsNext
    <3>2. /\ AreStrings(ws) /\ run \in Nat \ {0} /\ k \in Nat \ {0} /\ p \in CPUs
          /\ t \in Nat /\ Len(ws[p]) \in Nat
      BY <1>1, StateOfLoops, StringOfCPU
    <3>3. k \notin 1 .. Len(ws[p])
      BY <2>1, <3>2
    <3>4. Done = Before(ws, run, k, p) /\ Done' = Before(ws, run, j, e)
      BY <2>1 DEF Done
    <3> HIDE DEF k, j, e
    <3>5. Before(ws, run, j, e) = Before(ws, run, k, p)
      <4>1. Advances(ws, run, Before(ws, run, j, e), Before(ws, run, k, p), k, p)
        BY <3>1, <3>2, OneMoreBefore
      <4>2. QED
        BY <3>3, <4>1 DEF Advances
    <3>6. QED
      BY <3>4, <3>5
  <2>3. QED
    BY <1>1, <1>2, <2>1, <2>2, SameHistory
<1>5. CASE ReturnWarmup
  BY <1>5, WarmupIsHistory
<1>6. CASE UNCHANGED <<vars, ws, loopVars>>
  <2>1. UNCHANGED <<ws, q, run, cache_misses, warmup_misses, t, p>>
    BY <1>6 DEF vars, loopVars
  <2>2. Done' = Done
    BY <2>1 DEF Done
  <2>3. QED
    BY <1>1, <1>2, <2>1, <2>2, SameHistory
<1>7. Visit \/ SkipShort \/ ReturnWarmup \/ UNCHANGED <<vars, ws, loopVars>>
  BY DEF TraceNext, Main, SigAlarm, ResetFlag, InstallHandler, ArmAlarm, LoopHead,
         ClearFlag, RearmAlarm, DisarmAlarm, RestoreDefault, ReturnCount
<1>8. QED
  BY <1>3, <1>4, <1>5, <1>6, <1>7

\* At every point of both calls the queue is in the order of the last references
\* and the counts are those of the reuse distances so far.
THEOREM MissInvariance == TraceSpec => []MissInv
<1>1. TraceInit => MissInv
  BY InitCounts
<1>2. MissInv /\ [TraceNext]_traceVars => MissInv'
  <2> SUFFICES ASSUME MissInv, [TraceNext]_traceVars PROVE MissInv'
    OBVIOUS
  <2>1. TraceInv /\ SignalInv /\ LoopsInv
    BY DEF MissInv
  <2>2. CASE TraceNext
    <3>1. TraceInv' /\ SignalInv'
      BY <2>1, <2>2, VisitKeepsInvariant, OtherStepsKeepInvariant,
         MainKeepsSignals, SignalKeepsSignals DEF TraceNext
    <3>2. LoopsInv'
      BY <2>1, <2>2, StepKeepsLoops
    <3>3. Recency(ws, Done, q, CacheLines)' /\ CountsInv' /\ WarmupInv'
      BY <2>2, StepKeepsCounts
    <3>4. QED
      BY <3>1, <3>2, <3>3 DEF MissInv
  <2>3. CASE UNCHANGED traceVars
    <3>1. UNCHANGED <<vars, ws, progress, pc, run, t, p, cache_misses, warmup_misses, signalVars>>
      BY <2>3 DEF traceVars, loopVars
    <3>2. TraceInv'
      <4>1. [Next]_vars
        BY <3>1
      <4>2. IInv'
        BY <2>1, <4>1, StepKeepsInvariant DEF TraceInv
      <4>3. TMax' = TMax
        BY <3>1 DEF TMax
      <4>4. QED
        BY <2>1, <3>1, <4>2, <4>3 DEF signalVars, TraceInv, TraceTypeOK, IInv
    <3>3. SignalInv' /\ LoopsInv'
      BY <2>1, <3>1 DEF signalVars, SignalInv, Reporting, ReportsKeepComing, LoopsInv, TMax
    <3>4. Recency(ws, Done, q, CacheLines)' /\ CountsInv' /\ WarmupInv'
      <4>1. Done' = Done
        BY <3>1 DEF Done
      <4>2. UNCHANGED <<ws, q, run, cache_misses, warmup_misses>>
        BY <3>1 DEF vars
      <4>3. Recency(ws, Done, q, CacheLines)' /\ CountsInv'
        BY <4>1, <4>2, SameHistory DEF MissInv
      <4>4. WarmupInv'
        BY <4>2 DEF MissInv, WarmupInv, CPUs, Domains
      <4>5. QED
        BY <4>3, <4>4
    <3>5. QED
      BY <3>2, <3>3, <3>4 DEF MissInv
  <2>4. QED
    BY <2>2, <2>3
<1>3. QED
  BY <1>1, <1>2, PTL DEF TraceSpec

\* What trace_cache_misses returns, for strings of any number of CPUs and of any
\* length, on a cache of any size: for each CPU and each NUMA domain the number
\* of references whose line was not among the last CacheLines distinct ones of
\* the interleaved string; the counted call's include the warmup's history.
THEOREM MissesAreReuseDistances == TraceSpec => []MissesMatchReuseDistance
<1>1. MissInv => MissesMatchReuseDistance
  <2> SUFFICES ASSUME MissInv, pc = "return", NEW c \in CPUs, NEW d \in Domains
               PROVE  cache_misses[c][d] = MissesOf(ws, run, c, d, CacheLines, CacheLineSize)
    BY DEF MissesMatchReuseDistance
  <2>1. /\ AreStrings(ws) /\ run \in Nat \ {0} /\ TMax \in Nat
        /\ \A e \in CPUs : Len(ws[e]) <= TMax
    BY StateOfLoops DEF MissInv
  <2>2. p = 0 /\ t = TMax
    BY DEF MissInv, LoopsInv
  <2>3. Done = RefsOf(ws, run)
    <3>1. Before(ws, run, TMax + 1, 0) = RefsOf(ws, run)
      BY <2>1, RunIsOver
    <3>2. QED
      BY <2>2, <3>1 DEF Done
  <2>4. cache_misses[c][d] = Cardinality(Misses(ws, run, c, d, RefsOf(ws, run)))
    BY <2>3 DEF MissInv, CountsInv
  <2>5. QED
    BY <2>1, <2>4, AllMisses
<1>2. QED
  BY <1>1, MissInvariance, PTL

\* A reference that hits in the warmup call, on a cold cache, hits in the counted
\* call too: the same references since its line's last one are there again.
LEMMA HitsStayHits ==
  ASSUME NEW W, AreStrings(W), NEW c \in CPUs, NEW i \in 1 .. Len(W[c]),
         IsHit(W, <<1, i, c>>, CacheLines, CacheLineSize)
  PROVE  IsHit(W, <<2, i, c>>, CacheLines, CacheLineSize)
<1> DEFINE y == LineAt(W, <<1, i, c>>)
           D == Before(W, 1, i, c)
           E == Before(W, 2, i, c)
<1>1. y = LineAt(W, <<2, i, c>>)
  BY DEF LineAt
<1>2. PICK z \in D : LineAt(W, z) = y /\ Cardinality(Since(W, D, z) \ {y}) < CacheLines
  BY IsHitByLines DEF Near
<1>3. i \in Nat /\ c \in Nat
  BY StringOfCPU, PAssumption DEF CPUs
<1>4. PICK s \in Nat, k \in Nat, g \in Nat : z = <<s, k, g>>
  BY RefsAreTriples DEF Before, Triples
<1>5. /\ s = 1 /\ g \in CPUs /\ k \in 1 .. Len(W[g]) /\ Precedes(z, <<1, i, c>>)
  <2>1. z \in RefsOf(W, 1) /\ Precedes(z, <<1, i, c>>)
    BY DEF Before
  <2>2. s \in 1 .. 1 /\ g \in CPUs /\ k \in 1 .. Len(W[g])
    BY <1>4, <2>1, RefsAreTriples
  <2>3. QED
    BY <2>1, <2>2
<1> DEFINE v == <<2, k, g>>
<1>6. v \in E
  <2>1. v \in RefsOf(W, 2)
    BY <1>4, <1>5, RefsAreTriples
  <2>2. Precedes(v, <<2, i, c>>)
    BY <1>3, <1>4, <1>5 DEF Precedes
  <2>3. QED
    BY <2>1, <2>2 DEF Before
<1>7. LineAt(W, v) = y
  BY <1>2, <1>4 DEF LineAt
<1>8. Since(W, E, v) \subseteq Since(W, D, z)
  <2> SUFFICES ASSUME NEW u \in E, Precedes(v, u) PROVE LineAt(W, u) \in Since(W, D, z)
    BY DEF Since
  <2>1. u \in RefsOf(W, 2) /\ Precedes(u, <<2, i, c>>)
    BY DEF Before
  <2>2. PICK a \in Nat, j \in Nat, e \in Nat : u = <<a, j, e>>
    BY <2>1, RefsAreTriples DEF Triples
  <2>3. a \in 1 .. 2 /\ e \in CPUs /\ j \in 1 .. Len(W[e])
    BY <2>1, <2>2, RefsAreTriples
  <2>4. a = 2 /\ (k < j \/ (k = j /\ g < e)) /\ (j < i \/ (j = i /\ e < c))
    BY <1>3, <1>4, <2>1, <2>2, <2>3 DEF Precedes
  <2> DEFINE w == <<1, j, e>>
  <2>5. w \in RefsOf(W, 1)
    BY <2>2, <2>3, RefsAreTriples
  <2>6. Precedes(w, <<1, i, c>>) /\ Precedes(z, w)
    BY <1>3, <1>4, <1>5, <2>2, <2>4 DEF Precedes
  <2>7. LineAt(W, u) = LineAt(W, w)
    BY <2>2 DEF LineAt
  <2>8. w \in D
    BY <2>5, <2>6 DEF Before
  <2> HIDE DEF w, D
  <2>9. QED
    BY <2>6, <2>7, <2>8 DEF Since
<1>9. Cardinality(Since(W, E, v) \ {y}) < CacheLines
  <2> DEFINE A == Since(W, E, v) \ {y}
             B == Since(W, D, z) \ {y}
  <2>1. A \in SUBSET B
    BY <1>8
  <2>2. IsFiniteSet(B)
    <3>1. IsFiniteSet(D)
      BY RefsAreFinite, FS_Subset DEF Before
    <3> DEFINE U == {u \in D : Precedes(z, u)}
               f == [u \in U |-> LineAt(W, u)]
    <3>2. IsFiniteSet(U)
      BY <3>1, FS_Subset
    <3>3. f \in Surjection(U, Since(W, D, z))
      BY DEF Surjection, Since
    <3> HIDE DEF U, f, D
    <3>4. IsFiniteSet(Since(W, D, z))
      BY <3>2, <3>3, FS_Surjection
    <3>5. QED
      BY <3>4, FS_Subset
  <2> HIDE DEF A, B
  <2>3. IsFiniteSet(A) /\ Cardinality(A) <= Cardinality(B)
    BY <2>1, <2>2, FS_Subset
  <2>4. Cardinality(A) \in Nat /\ Cardinality(B) \in Nat
    BY <2>2, <2>3, FS_CardinalityType
  <2>5. Cardinality(B) < CacheLines
    BY <1>2 DEF B
  <2>6. Cardinality(A) < CacheLines
    BY <2>3, <2>4, <2>5, CacheLinesAssumption
  <2>7. QED
    BY <2>6 DEF A
<1> HIDE DEF v, y, E
<1>10. Near(W, E, y, CacheLines)
  BY <1>6, <1>7, <1>9 DEF Near
<1>11. QED
  BY <1>1, <1>10, IsHitByLines DEF E, y

\* No CPU ever misses more in the counted call than in the warmup call: running
\* the same strings on the cache that they have left can only turn misses into
\* hits, for strings and caches of any size.
THEOREM WarmupAddsNoMisses == TraceSpec => []WarmupNeverAddsMisses
<1>1. MissInv => WarmupNeverAddsMisses
  <2> SUFFICES ASSUME MissInv, run = 2, NEW c \in CPUs, NEW d \in Domains
               PROVE  cache_misses[c][d] <= warmup_misses[c][d]
    BY DEF WarmupNeverAddsMisses
  <2> DEFINE A == Misses(ws, 2, c, d, Done)
             B == Misses(ws, 1, c, d, RefsOf(ws, 1))
  <2>1. AreStrings(ws)
    BY StateOfLoops DEF MissInv
  <2>2. A \in SUBSET B
    <3> SUFFICES ASSUME NEW i \in A PROVE i \in B
      OBVIOUS
    <3>1. /\ i \in 1 .. Len(ws[c]) /\ ws[c][i][2] = d
          /\ ~ IsHit(ws, <<2, i, c>>, CacheLines, CacheLineSize)
      BY DEF Misses
    <3>2. ~ IsHit(ws, <<1, i, c>>, CacheLines, CacheLineSize)
      BY <2>1, <3>1, HitsStayHits
    <3>3. <<1, i, c>> \in RefsOf(ws, 1)
      <4>1. i \in Nat /\ c \in Nat /\ 1 \in 1 .. 1
        BY <2>1, <3>1, StringOfCPU, PAssumption DEF CPUs
      <4>2. QED
        BY <2>1, <3>1, <4>1, RefsAreTriples
    <3>4. QED
      BY <3>1, <3>2, <3>3 DEF Misses
  <2>3. cache_misses[c][d] = Cardinality(A)
    BY DEF MissInv, CountsInv
  <2>4. warmup_misses[c][d] = Cardinality(B)
    <3>1. warmup_misses[c][d] = MissesOf(ws, 1, c, d, CacheLines, CacheLineSize)
      BY DEF MissInv, WarmupInv
    <3>2. QED
      BY <2>1, <3>1, AllMisses
  <2>5. IsFiniteSet(B)
    BY <2>1, MissesAreFinite
  <2> HIDE DEF A, B
  <2>6. Cardinality(A) <= Cardinality(B)
    BY <2>2, <2>5, FS_Subset
  <2>7. QED
    BY <2>3, <2>4, <2>6
<1>2. QED
  BY <1>1, MissInvariance, PTL
=============================================================================
