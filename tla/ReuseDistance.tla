--------------------------- MODULE ReuseDistance ----------------------------
(***************************************************************************)
(* A definition of the misses of a cache that simulates no cache: what     *)
(* trace_cache_misses promises (cache-simulation/replacement.hpp, after    *)
(* Aho, Denning and Ullman).  ws[p] is the memory reference string of      *)
(* CPU p, a sequence of <<address, NUMA domain>>.  The CPUs' strings are   *)
(* perfectly interleaved, and are processed a given number of times.       *)
(***************************************************************************)
EXTENDS Integers, Sequences, FiniteSets

\* The t-th reference of CPU p in a run, as <<run, t, p>>.
RefsOf(ws, runs) ==
  UNION {{<<r, t, p>> : r \in 1 .. runs, t \in 1 .. Len(ws[p])} : p \in DOMAIN ws}

\* Perfect interleaving: by run, then by index, then by CPU.
Precedes(x, y) ==
  \/ x[1] < y[1]
  \/ x[1] = y[1] /\ x[2] < y[2]
  \/ x[1] = y[1] /\ x[2] = y[2] /\ x[3] < y[3]

\* A reference hits an LRU cache of n lines when its line was referenced
\* before and fewer than n other lines were referenced since then.
IsHit(ws, x, n, lineSize) ==
  LET line(z) == ws[z[3]][z[2]][1] \div lineSize
      before  == {z \in RefsOf(ws, x[1]) : Precedes(z, x)}
      since(z) == {line(u) : u \in {v \in before : Precedes(z, v)}}
  IN  \E z \in before :
        line(z) = line(x) /\ Cardinality(since(z) \ {line(x)}) < n

\* The misses of CPU p on pages of a NUMA domain in one run.
MissesOf(ws, run, p, domain, n, lineSize) ==
  Cardinality({t \in 1 .. Len(ws[p]) :
                 ws[p][t][2] = domain /\ ~ IsHit(ws, <<run, t, p>>, n, lineSize)})
=============================================================================
