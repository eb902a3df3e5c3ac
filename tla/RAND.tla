-------------------------------- MODULE RAND --------------------------------
(***************************************************************************)
(* cache-simulation/rand.cpp: a hash set only.  A full cache gives up the  *)
(* line std::begin names, which depends on the hash table: any of them.    *)
(***************************************************************************)
EXTENDS Integers, FiniteSets

CONSTANTS CacheLines, CacheLineSize

VARIABLES memory_references, ret

Line(x) == x \div CacheLineSize

Constructed(S) == memory_references = S /\ ret = 0

Hit(y) ==
  /\ y \in memory_references
  /\ ret' = 0
  /\ UNCHANGED memory_references

Fill(y) ==
  /\ y \notin memory_references
  /\ Cardinality(memory_references) # CacheLines
  /\ memory_references' = memory_references \cup {y}
  /\ ret' = 1

\* Mutant of Evict: nothing is erased from a full cache.
EvictNothing(y) ==
  /\ y \notin memory_references
  /\ Cardinality(memory_references) = CacheLines
  /\ memory_references' = memory_references \cup {y}
  /\ ret' = 1

Evict(y) ==
  /\ y \notin memory_references
  /\ Cardinality(memory_references) = CacheLines
  /\ \E z \in memory_references :
       memory_references' = (memory_references \ {z}) \cup {y}
  /\ ret' = 1

Allocate(x) == Hit(Line(x)) \/ Fill(Line(x)) \/ Evict(Line(x))
=============================================================================
