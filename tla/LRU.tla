-------------------------------- MODULE LRU ---------------------------------
(***************************************************************************)
(* cache-simulation/lru.cpp: the replacement policy every simulated cache  *)
(* uses.  The resident lines are kept twice, as a hash set for the lookup  *)
(* (memory_references) and in recency order in a circular buffer (q) of    *)
(* twice the number of lines; allocate() keeps the two in step by hand.    *)
(***************************************************************************)
EXTENDS CircularBuffer, Integers, FiniteSets, Functions

CONSTANTS
  CacheLines,      \* cache_lines
  CacheLineSize,   \* cache_line_size, in bytes
  Addresses        \* the byte addresses that are referenced

ASSUME CacheLinesAssumption == CacheLines \in Nat \ {0}
ASSUME CacheLineSizeAssumption == CacheLineSize \in Nat \ {0}
ASSUME AddressesAssumption == Addresses \subseteq Nat

VARIABLES
  memory_references,   \* std::unordered_set of the resident lines
  q,                   \* CircularBuffer of the resident lines
  ret                  \* what the last call of allocate() returned

vars == <<memory_references, q, ret>>

\* The line an address lies in: x / cache_line_size.
Line(x) == x \div CacheLineSize

Lines == {Line(x) : x \in Addresses}

Capacity == 2 * CacheLines

\* The constructor emplaces initial_state into an empty q.  Its callers
\* pass distinct lines that fit in the cache.
Constructed(s) ==
  /\ memory_references = {s[i] : i \in DOMAIN s}
  /\ q = [v    |-> [i \in 1 .. Capacity |-> IF i <= Len(s) THEN s[i] ELSE 0],
          head |-> 0,
          tail |-> Len(s)]
  /\ ret = 0

Init ==
  \E n \in 0 .. CacheLines : \E s \in [1 .. n -> Lines] :
    IsInjective(s) /\ Constructed(s)

\* std::find over the reversed window: the last live slot that holds y.
IsLastSlotOf(k, b, y) ==
  /\ k \in Window(b)
  /\ b.v[k] = y
  /\ \A i \in k + 1 .. b.tail : b.v[i] # y

\* Mutants of MoveToBack: a hit leaves the order alone, as in FIFO; a hit
\* swaps the line with the youngest one.
MoveToBackForgotten(b, y) == b

SwapWithBack(b, y) ==
  LET k == CHOOSE i \in Window(b) : IsLastSlotOf(i, b, y)
  IN  [b EXCEPT !.v[k] = b.v[b.tail], !.v[b.tail] = y]

\* std::rotate(it, it + 1, end) within the window; nothing moves when y is
\* not found.
MoveToBack(b, y) ==
  IF \E k \in Window(b) : b.v[k] = y
  THEN LET k == CHOOSE i \in Window(b) : IsLastSlotOf(i, b, y)
       IN  [b EXCEPT !.v = [i \in 1 .. Len(b.v) |->
                              IF i \in k .. b.tail - 1 THEN b.v[i + 1]
                              ELSE IF i = b.tail THEN y
                              ELSE b.v[i]]]
  ELSE b

\* The branches of allocate(): the line is resident; it is not and there is
\* room for it; it is not and the oldest line makes room.
Hit(y) ==
  /\ y \in memory_references
  /\ q' = MoveToBack(q, y)
  /\ ret' = 0
  /\ UNCHANGED memory_references

Fill(y) ==
  /\ y \notin memory_references
  /\ Cardinality(memory_references \cup {y}) <= CacheLines
  /\ memory_references' = memory_references \cup {y}
  /\ q' = EmplaceBack(q, y)
  /\ ret' = 1

Evict(y) ==
  /\ y \notin memory_references
  /\ Cardinality(memory_references \cup {y}) > CacheLines
  /\ memory_references' = (memory_references \cup {y}) \ {FrontOf(q)}
  /\ q' = EmplaceBack(PopFront(q), y)
  /\ ret' = 1

Allocate(x) == Hit(Line(x)) \/ Fill(Line(x)) \/ Evict(Line(x))

Next == \E x \in Addresses : Allocate(x)

Spec == Init /\ [][Next]_vars

-----------------------------------------------------------------------------
(* Correctness *)

\* The buffer never leaves its vector, and the set holds referenced lines.
TypeOK ==
  /\ memory_references \in SUBSET Lines
  /\ q \in [v : Seq(Nat), head : Nat, tail : Nat]
  /\ Len(q.v) = Capacity
  /\ q.head <= q.tail /\ q.tail <= Capacity
  /\ ret \in {0, 1}

\* memory_references (the lookup set) and q (the recency order) hold the
\* same lines, each once, and no more than the cache has room for: what
\* allocate() evicts from one it evicts from the other.
SetMatchesQueue ==
  /\ memory_references = {q.v[i] : i \in Window(q)}
  /\ \A i, j \in Window(q) : q.v[i] = q.v[j] => i = j
  /\ Size(q) <= CacheLines

\* The age of a line, read off the queue: how many lines are behind it.
Age(b, y) ==
  IF \E i \in Window(b) : b.v[i] = y
  THEN b.tail - CHOOSE i \in Window(b) : b.v[i] = y
  ELSE CacheLines

Abstract == INSTANCE AbstractLRU
              WITH age <- [y \in Lines |-> Age(q, y)], Lines <- Lines

\* Set, buffer and rotations together behave as an LRU cache: the line
\* that leaves is the one referenced longest ago, and allocate() returns 1
\* exactly for the lines that are not among the last CacheLines distinct.
RefinesAbstractLRU == Abstract!Spec
=============================================================================
