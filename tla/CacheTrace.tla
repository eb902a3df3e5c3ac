---------------------------- MODULE CacheTrace ------------------------------
(***************************************************************************)
(* trace-config.cpp and cache-trace.cpp: a configuration names caches with *)
(* their parents and the cache each thread starts at; trace_cache_misses   *)
(* simulates every cache in turn for the threads below it.  The simulation *)
(* of one cache is a single step here, given by ReuseDistance, which       *)
(* TraceCacheMisses shows the code's loops to compute.                     *)
(***************************************************************************)
EXTENDS ReuseDistance

CONSTANTS
  CacheOrder,       \* the names of the caches, in the order of the std::map
  CacheSize, LineSize,   \* per cache, in bytes
  NumThreads, NumNumaDomains,
  StringChoices,    \* memory_reference_string() of each thread: some choices
  NoCache,          \* the empty parent
  UnknownCache      \* a name that is not in the configuration

Caches == {CacheOrder[k] : k \in 1 .. Len(CacheOrder)}
Threads == 0 .. NumThreads - 1
Domains == 0 .. NumNumaDomains - 1

\* The keys of a std::map are distinct.
ASSUME OrderAssumption ==
  /\ CacheOrder \in Seq(Caches)
  /\ \A i, j \in 1 .. Len(CacheOrder) : CacheOrder[i] = CacheOrder[j] => i = j

ASSUME NamesAssumption == NoCache \notin Caches /\ UnknownCache \notin Caches \cup {NoCache}

\* The Cache constructor throws unless the size is a multiple of the lines'.
ASSUME CacheAssumption ==
  \A c \in Caches : /\ LineSize[c] \in Nat \ {0} /\ CacheSize[c] \in Nat
                    /\ CacheSize[c] % LineSize[c] = 0

ASSUME ThreadsAssumption == NumThreads \in Nat /\ NumNumaDomains \in Nat

\* A reference is an address and a NUMA domain.
ASSUME StringsAssumption == StringChoices \subseteq [Threads -> Seq(Nat \X Int)]

VARIABLES
  parent,         \* [Caches -> Caches \cup {NoCache, UnknownCache}]
  affinity,       \* the "cache" of each thread's affinity
  warmup,
  strings,
  pc,
  k,              \* the cache that is traced next, in CacheOrder
  thread,         \* active_threads: the thread that is looked at
  ancestor,       \* cache_has_ancestor: the argument a of the current call
  threads,        \* active_threads: the result so far
  cache_misses    \* the map of results

config == <<parent, affinity, warmup, strings>>
cacheTraceVars == <<config, pc, k, thread, ancestor, threads, cache_misses>>

Init ==
  /\ parent \in [Caches -> Caches \cup {NoCache, UnknownCache}]
  /\ affinity \in [Threads -> Caches \cup {UnknownCache}]
  /\ warmup \in BOOLEAN
  /\ strings \in StringChoices
  /\ pc = "config" /\ k = 1 /\ thread = 0 /\ ancestor = NoCache
  /\ threads = <<>> /\ cache_misses = <<>>

\* The checks of the TraceConfig constructor.
Accepted ==
  /\ \A c \in Caches : parent[c] = NoCache \/ parent[c] \in Caches
  /\ \A i \in Threads : affinity[i] \in Caches

Configure ==
  /\ pc = "config"
  /\ pc' = IF Accepted THEN "next" ELSE "rejected"
  /\ UNCHANGED <<config, k, thread, ancestor, threads, cache_misses>>

\* active_threads goes on to thread i, or returns after the last one.
LookAt(i) ==
  /\ thread' = i
  /\ ancestor' = IF i < NumThreads THEN affinity[i] ELSE NoCache
  /\ pc' = IF i < NumThreads THEN "climb" ELSE "trace"

NextCache ==
  /\ pc = "next" /\ k <= Len(CacheOrder)
  /\ LookAt(0)
  /\ threads' = <<>>
  /\ UNCHANGED <<config, k, cache_misses>>

\* cache_has_ancestor, one recursive call a step.
FoundAncestor ==
  /\ pc = "climb" /\ ancestor = CacheOrder[k]
  /\ threads' = Append(threads, thread)
  /\ LookAt(thread + 1)
  /\ UNCHANGED <<config, k, cache_misses>>

\* Mutant of NoAncestor: the loop over the threads does not advance.
NoAncestorStays ==
  /\ pc = "climb" /\ ancestor # CacheOrder[k]
  /\ parent[ancestor] = NoCache
  /\ LookAt(thread)
  /\ UNCHANGED <<config, k, threads, cache_misses>>

NoAncestor ==
  /\ pc = "climb" /\ ancestor # CacheOrder[k]
  /\ parent[ancestor] = NoCache
  /\ LookAt(thread + 1)
  /\ UNCHANGED <<config, k, threads, cache_misses>>

\* Mutant of ClimbToParent: the call skips a level of the hierarchy.
ClimbToGrandparent ==
  /\ pc = "climb" /\ ancestor # CacheOrder[k]
  /\ parent[ancestor] # NoCache
  /\ LET up == parent[ancestor]
     IN  ancestor' = IF parent[up] = NoCache THEN up ELSE parent[up]
  /\ UNCHANGED <<config, pc, k, thread, threads, cache_misses>>

ClimbToParent ==
  /\ pc = "climb" /\ ancestor # CacheOrder[k]
  /\ parent[ancestor] # NoCache
  /\ ancestor' = parent[ancestor]
  /\ UNCHANGED <<config, pc, k, thread, threads, cache_misses>>

NumCacheLines(c) == (CacheSize[c] + (LineSize[c] - 1)) \div LineSize[c]

\* What the last call of the simulation returns for the strings ws.
Simulate(c, ws) ==
  [n \in DOMAIN ws |->
     [d \in Domains |->
        MissesOf(ws, IF warmup THEN 2 ELSE 1, n, d, NumCacheLines(c), LineSize[c])]]

\* Mutants of Scatter: the rows stay in the order of the active threads;
\* the result has rows for the active threads only.
ScatterByPosition(active, rows) ==
  [i \in Threads |->
     IF i < Len(active) THEN rows[i + 1] ELSE [d \in Domains |-> 0]]

ScatterActiveOnly(active, rows) ==
  [i \in {active[n] : n \in 1 .. Len(active)} |->
     rows[CHOOSE n \in 1 .. Len(active) : active[n] = i]]

\* The row of each thread: that of its place among the active threads, or
\* zeros.
Scatter(active, rows) ==
  [i \in Threads |->
     IF \E n \in 1 .. Len(active) : active[n] = i
     THEN rows[CHOOSE n \in 1 .. Len(active) : active[n] = i]
     ELSE [d \in Domains |-> 0]]

\* std::map::emplace.
Emplace(map, c, result) ==
  [d \in DOMAIN map \cup {c} |-> IF d \in DOMAIN map THEN map[d] ELSE result]

\* trace_cache_misses_per_cache, once the active threads are known; a cache
\* that no thread uses has an empty result.
TraceCache ==
  /\ pc = "trace"
  /\ LET c == CacheOrder[k]
         rows == Simulate(c, [n \in 1 .. Len(threads) |-> strings[threads[n]]])
         result == IF threads = <<>> THEN <<>> ELSE Scatter(threads, rows)
     IN  cache_misses' = Emplace(cache_misses, c, result)
  /\ k' = k + 1
  /\ pc' = "next"
  /\ UNCHANGED <<config, thread, ancestor, threads>>

Finish ==
  /\ pc = "next" /\ k > Len(CacheOrder)
  /\ pc' = "done"
  /\ UNCHANGED <<config, k, thread, ancestor, threads, cache_misses>>

Next ==
  \/ Configure \/ NextCache \/ FoundAncestor \/ NoAncestor \/ ClimbToParent
  \/ TraceCache \/ Finish

\* A single thread that is always ready to take its next step.
Spec == Init /\ [][Next]_cacheTraceVars /\ WF_cacheTraceVars(Next)

-----------------------------------------------------------------------------
(* Correctness *)

TypeOK ==
  /\ pc \in {"config", "rejected", "next", "climb", "trace", "done"}
  /\ k \in 1 .. Len(CacheOrder) + 1
  /\ thread \in 0 .. NumThreads
  /\ ancestor \in Caches \cup {NoCache}
  /\ threads \in Seq(Threads)
  /\ DOMAIN cache_misses = {CacheOrder[j] : j \in 1 .. k - 1}
  /\ \A c \in DOMAIN cache_misses :
       cache_misses[c] = <<>> \/ cache_misses[c] \in [Threads -> [Domains -> Nat]]

\* The caches on the way from a cache to the root of its hierarchy: those that
\* are in every set with the cache that has the parents of its members.
HasParents(S) == \A c \in S : parent[c] \in Caches => parent[c] \in S
Above(c) ==
  {d \in Caches : \A S \in SUBSET Caches : c \in S /\ HasParents(S) => d \in S}

\* No cache is above itself.
Hierarchical ==
  Accepted /\ \A c \in Caches :
    parent[c] # NoCache => c \notin Above(parent[c])

ThreadsBelow(c) == {i \in Threads : c \in Above(affinity[i])}

\* Each thread's row, of each cache on its way to the root, counts the
\* thread's own references, interleaved with those of the other threads
\* below the cache; every other row is zero, and the result of a cache
\* without threads is empty.
RowsFollowHierarchy ==
  pc = "done" =>
    \A c \in Caches :
      LET below == ThreadsBelow(c)
          ws == [i \in Threads |-> IF i \in below THEN strings[i] ELSE <<>>]
      IN  cache_misses[c] = IF below = {} THEN <<>> ELSE Simulate(c, ws)

\* Where a parent has the same threads and the same lines as its child and
\* is no smaller, it misses no more, although both caches are simulated
\* from the full reference strings.
MissesShrinkTowardsRoot ==
  pc = "done" =>
    \A c \in Caches :
      /\ parent[c] # NoCache
      /\ cache_misses[c] # <<>> /\ cache_misses[parent[c]] # <<>>
      /\ ThreadsBelow(c) = ThreadsBelow(parent[c])
      /\ LineSize[c] = LineSize[parent[c]]
      /\ CacheSize[c] <= CacheSize[parent[c]]
      => \A i \in Threads, d \in Domains :
           cache_misses[parent[c]][i][d] <= cache_misses[c][i][d]

\* The trace of a configuration without cycles ends.
HierarchicalTraceTerminates ==
  Hierarchical => <>(pc = "done")

\* trace-config.cpp:96 "Check that the cache hierarchy is sensible": what
\* the constructor accepts can be traced.
AcceptedTraceTerminates == <>(pc \in {"done", "rejected"})
=============================================================================
