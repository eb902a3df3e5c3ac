-------------------------------- MODULE FIFO --------------------------------
(***************************************************************************)
(* cache-simulation/fifo.cpp: a hash set for the lookup and a queue in the *)
(* order of insertion; a hit changes nothing.                              *)
(***************************************************************************)
EXTENDS Integers, Sequences, FiniteSets

CONSTANTS CacheLines, CacheLineSize

VARIABLES memory_references, q, ret

Line(x) == x \div CacheLineSize

Constructed(s) ==
  /\ memory_references = {s[i] : i \in DOMAIN s}
  /\ q = s
  /\ ret = 0

Hit(y) ==
  /\ y \in memory_references
  /\ ret' = 0
  /\ UNCHANGED <<memory_references, q>>

Fill(y) ==
  /\ y \notin memory_references
  /\ Cardinality(memory_references \cup {y}) <= CacheLines
  /\ memory_references' = memory_references \cup {y}
  /\ q' = Append(q, y)
  /\ ret' = 1

\* Mutant of Evict: the victim leaves the set and stays in the queue.
EvictWithoutPop(y) ==
  /\ y \notin memory_references
  /\ Cardinality(memory_references \cup {y}) > CacheLines
  /\ memory_references' = (memory_references \cup {y}) \ {Head(q)}
  /\ q' = Append(q, y)
  /\ ret' = 1

Evict(y) ==
  /\ y \notin memory_references
  /\ Cardinality(memory_references \cup {y}) > CacheLines
  /\ memory_references' = (memory_references \cup {y}) \ {Head(q)}
  /\ q' = Append(Tail(q), y)
  /\ ret' = 1

Allocate(x) == Hit(Line(x)) \/ Fill(Line(x)) \/ Evict(Line(x))
=============================================================================
