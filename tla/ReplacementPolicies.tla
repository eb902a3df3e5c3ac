------------------------ MODULE ReplacementPolicies -------------------------
(***************************************************************************)
(* The three policies of cache-simulation/ and a second, smaller LRU cache,*)
(* all given the same memory reference string from the same initial state, *)
(* the way test_replacement.cpp and a multi-level cache trace use them.    *)
(* The extended LRU is the cache of CacheLines lines.                      *)
(***************************************************************************)
EXTENDS LRU, FiniteSetsExt

CONSTANT SmallerCacheLines

ASSUME SmallerAssumption == SmallerCacheLines \in 1 .. CacheLines

VARIABLES
  smaller_set, smaller_q, smaller_ret,   \* LRU with SmallerCacheLines lines
  fifo_set, fifo_q, fifo_ret,
  rand_set, rand_ret,
  seen     \* history: every line the caches were given or referenced

Smaller == INSTANCE LRU WITH
  CacheLines <- SmallerCacheLines,
  memory_references <- smaller_set, q <- smaller_q, ret <- smaller_ret

Fifo == INSTANCE FIFO WITH
  memory_references <- fifo_set, q <- fifo_q, ret <- fifo_ret

Rand == INSTANCE RAND WITH
  memory_references <- rand_set, ret <- rand_ret

compareVars ==
  <<vars, smaller_set, smaller_q, smaller_ret, fifo_set, fifo_q, fifo_ret,
    rand_set, rand_ret, seen>>

CompareInit ==
  \E n \in 0 .. SmallerCacheLines : \E s \in [1 .. n -> Lines] :
    /\ IsInjective(s)
    /\ Constructed(s)
    /\ Smaller!Constructed(s)
    /\ Fifo!Constructed(s)
    /\ Rand!Constructed(Range(s))
    /\ seen = Range(s)

Reference(x) ==
  /\ Allocate(x)
  /\ Smaller!Allocate(x)
  /\ Fifo!Allocate(x)
  /\ Rand!Allocate(x)
  /\ seen' = seen \cup {Line(x)}

CompareNext == \E x \in Addresses : Reference(x)

CompareSpec == CompareInit /\ [][CompareNext]_compareVars

-----------------------------------------------------------------------------
(* Correctness *)

PoliciesTypeOK ==
  /\ TypeOK
  /\ Smaller!TypeOK
  /\ fifo_q \in Seq(Lines)
  /\ {fifo_set, rand_set, seen} \subseteq SUBSET Lines
  /\ {fifo_ret, rand_ret} \subseteq {0, 1}

\* The stack property of LRU: a larger LRU cache holds everything a smaller
\* one holds after the same references, so its misses are never more.
LargerLRUIncludesSmaller == smaller_set \subseteq memory_references

\* FIFO's queue lists the lookup set once each, oldest insertion first.
FifoSetMatchesQueue ==
  /\ fifo_set = Range(fifo_q)
  /\ IsInjective(fifo_q)
  /\ Len(fifo_q) <= CacheLines

\* No policy evicts while there is room, none holds more than the cache
\* has room for, and none invents a line: after any references each holds
\* min(lines seen, cache_lines) of the lines seen.
FilledToCapacity ==
  \A S \in {memory_references, fifo_set, rand_set} :
    /\ S \subseteq seen
    /\ Cardinality(S) = Min({CacheLines, Cardinality(seen)})

\* A line is a miss for every policy the first time it is referenced, and a
\* line a smaller LRU cache has is never a miss for a larger one.
FirstReferenceMisses ==
  [][/\ seen' # seen => {ret', smaller_ret', fifo_ret', rand_ret'} = {1}
     /\ ret' <= smaller_ret']_compareVars
=============================================================================
