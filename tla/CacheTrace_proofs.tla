------------------------- MODULE CacheTrace_proofs --------------------------
(***************************************************************************)
(* What cache-trace.cpp computes for any hierarchy of caches, any number   *)
(* of threads and any strings: every cache is simulated for exactly the    *)
(* threads below it, each row of the result is put at its thread, and a    *)
(* parent with the lines and threads of its child misses no more.          *)
(***************************************************************************)
EXTENDS CacheTrace, FiniteSetTheorems, TLAPS

Tracing == {"climb", "trace"}

\* Where the loops over the caches and over the threads can be.
LoopsInv ==
  /\ parent \in [Caches -> Caches \cup {NoCache, UnknownCache}]
  /\ affinity \in [Threads -> Caches \cup {UnknownCache}]
  /\ warmup \in BOOLEAN /\ strings \in StringChoices
  /\ pc \in {"config", "rejected", "next", "climb", "trace", "done"}
  /\ pc \notin {"config", "rejected"} => Accepted
  /\ k \in Nat \ {0} /\ k <= Len(CacheOrder) + 1
  /\ pc \in Tracing => k <= Len(CacheOrder)
  /\ pc = "climb" => thread \in Threads /\ ancestor \in Caches
  /\ pc = "trace" => thread = NumThreads
  /\ pc = "done" => k = Len(CacheOrder) + 1
  /\ thread \in 0 .. NumThreads /\ ancestor \in Caches \cup {NoCache}
  /\ threads \in Seq(Threads)

\* ts lists the threads of a set that are below a limit, in ascending order.
ListsThreads(ts, below, limit) ==
  /\ \A n \in 1 .. Len(ts) : ts[n] \in below /\ ts[n] < limit
  /\ \A i \in below : i < limit => \E n \in 1 .. Len(ts) : ts[n] = i
  /\ \A n, l \in 1 .. Len(ts) : n < l => ts[n] < ts[l]

\* The active threads found so far are those below the cache that is traced,
\* and the climb from a thread's own cache has not passed that cache.
ThreadsInv ==
  pc \in Tracing => \A c \in Caches : c = CacheOrder[k] =>
    /\ ListsThreads(threads, ThreadsBelow(c), thread)
    /\ \A a \in Caches :
         pc = "climb" /\ ancestor = a => (thread \in ThreadsBelow(c) <=> c \in Above(a))

\* What RowsFollowHierarchy expects of a cache.
StringsBelow(c) == [i \in Threads |-> IF i \in ThreadsBelow(c) THEN strings[i] ELSE <<>>]
Expected(c) == IF ThreadsBelow(c) = {} THEN <<>> ELSE Simulate(c, StringsBelow(c))

RowsInv ==
  /\ DOMAIN cache_misses = {CacheOrder[j] : j \in 1 .. k - 1}
  /\ \A c \in Caches : \A j \in 1 .. k - 1 :
       c = CacheOrder[j] => cache_misses[c] = Expected(c)

IInv == LoopsInv /\ ThreadsInv /\ RowsInv

-----------------------------------------------------------------------------
(* The way from a cache to the root *)

LEMMA OrderIsList ==
  /\ Len(CacheOrder) \in Nat /\ DOMAIN CacheOrder = 1 .. Len(CacheOrder)
  /\ \A j \in 1 .. Len(CacheOrder) : CacheOrder[j] \in Caches
  /\ \A c \in Caches : \E j \in 1 .. Len(CacheOrder) : c = CacheOrder[j]
BY OrderAssumption DEF Caches

LEMMA AboveItself ==
  ASSUME NEW c \in Caches
  PROVE  c \in Above(c)
BY DEF Above

\* Above a cache without a parent there is only the cache itself.
LEMMA RootIsAlone ==
  ASSUME NEW a \in Caches, parent[a] \notin Caches, NEW c \in Above(a)
  PROVE  c = a
<1>1. {a} \in SUBSET Caches /\ a \in {a} /\ HasParents({a})
  BY DEF HasParents
<1>2. c \in {a}
  BY <1>1 DEF Above
<1>3. QED
  BY <1>2

\* Any other cache is above a cache just if it is above its parent.
LEMMA AboveTheParent ==
  ASSUME NEW a \in Caches, parent[a] \in Caches, NEW c \in Caches, c # a
  PROVE  c \in Above(a) <=> c \in Above(parent[a])
<1>1. ASSUME c \in Above(a), NEW S \in SUBSET Caches, parent[a] \in S, HasParents(S)
      PROVE  c \in S
  <2>1. S \cup {a} \in SUBSET Caches /\ a \in S \cup {a} /\ HasParents(S \cup {a})
    BY <1>1 DEF HasParents
  <2>2. c \in S \cup {a}
    BY <1>1, <2>1 DEF Above
  <2>3. QED
    BY <2>2
<1>2. ASSUME c \in Above(parent[a]), NEW S \in SUBSET Caches, a \in S, HasParents(S)
      PROVE  c \in S
  <2>1. parent[a] \in S
    BY <1>2 DEF HasParents
  <2>2. QED
    BY <1>2, <2>1 DEF Above
<1>3. c \in Above(a) => c \in Above(parent[a])
  BY <1>1 DEF Above
<1>4. c \in Above(parent[a]) => c \in Above(a)
  BY <1>2 DEF Above
<1>5. QED
  BY <1>3, <1>4

-----------------------------------------------------------------------------
(* A simulation of the active threads is that of all threads below *)

\* The strings ws1 are the strings ws2 without some that are empty.
Selects(f, ws1, ws2) ==
  /\ \A n \in DOMAIN ws1 : f[n] \in DOMAIN ws2 /\ ws2[f[n]] = ws1[n]
  /\ \A p \in DOMAIN ws2 : ws2[p] = <<>> \/ \E n \in DOMAIN ws1 : f[n] = p
  /\ \A n, l \in DOMAIN ws1 : n < l <=> f[n] < f[l]
  /\ \A n, l \in DOMAIN ws1 : f[n] = f[l] => n = l

LEMMA RefsAre ==
  ASSUME NEW ws, NEW runs
  PROVE  \A z : z \in RefsOf(ws, runs) <=>
           \E p \in DOMAIN ws : \E r \in 1 .. runs : \E t \in 1 .. Len(ws[p]) : z = <<r, t, p>>
<1>1. ASSUME NEW z, z \in RefsOf(ws, runs)
      PROVE  \E p \in DOMAIN ws : \E r \in 1 .. runs : \E t \in 1 .. Len(ws[p]) : z = <<r, t, p>>
  BY <1>1 DEF RefsOf
<1>2. \A p \in DOMAIN ws : \A r \in 1 .. runs : \A t \in 1 .. Len(ws[p]) :
        <<r, t, p>> \in RefsOf(ws, runs)
  BY DEF RefsOf
<1>3. QED
  BY <1>1, <1>2

\* The references that a string has before another one, and their lines.
LineOf(ws, z, L) == ws[z[3]][z[2]][1] \div L
Before(ws, r, t, p) == {z \in RefsOf(ws, r) : Precedes(z, <<r, t, p>>)}
Since(ws, r, t, p, z, L) == {LineOf(ws, u, L) : u \in {v \in Before(ws, r, t, p) : Precedes(z, v)}}

LEMMA IsHitByLines ==
  ASSUME NEW ws, NEW r, NEW t, NEW p, NEW n, NEW L
  PROVE  IsHit(ws, <<r, t, p>>, n, L) <=>
           \E z \in Before(ws, r, t, p) :
             /\ LineOf(ws, z, L) = LineOf(ws, <<r, t, p>>, L)
             /\ Cardinality(Since(ws, r, t, p, z, L) \ {LineOf(ws, <<r, t, p>>, L)}) < n
BY DEF IsHit, Before, Since, LineOf

\* The same references are before, whatever empty strings are left out.
LEMMA BeforeSelected ==
  ASSUME NEW f, NEW ws1, NEW ws2, Selects(f, ws1, ws2),
         NEW r, NEW p \in DOMAIN ws1, NEW t
  PROVE  /\ \A s, u : \A q \in DOMAIN ws1 :
              <<s, u, q>> \in Before(ws1, r, t, p) <=>
                <<s, u, f[q]>> \in Before(ws2, r, t, f[p])
         /\ \A z \in Before(ws1, r, t, p) : \E q \in DOMAIN ws1 : \E s, u : z = <<s, u, q>>
<1>1. ASSUME NEW q \in DOMAIN ws1, NEW s, NEW u
      PROVE  <<s, u, q>> \in RefsOf(ws1, r) <=> <<s, u, f[q]>> \in RefsOf(ws2, r)
  <2>1. <<s, u, q>> \in RefsOf(ws1, r) <=> s \in 1 .. r /\ u \in 1 .. Len(ws1[q])
    BY RefsAre
  <2>2. <<s, u, f[q]>> \in RefsOf(ws2, r) <=> s \in 1 .. r /\ u \in 1 .. Len(ws2[f[q]])
    BY RefsAre DEF Selects
  <2>3. QED
    BY <2>1, <2>2 DEF Selects
<1>2. ASSUME NEW q \in DOMAIN ws1, NEW s, NEW u
      PROVE  Precedes(<<s, u, q>>, <<r, t, p>>) <=> Precedes(<<s, u, f[q]>>, <<r, t, f[p]>>)
  BY DEF Precedes, Selects
<1>3. \A z \in RefsOf(ws1, r) : \E q \in DOMAIN ws1 : \E s, u : z = <<s, u, q>>
  BY RefsAre
<1>4. QED
  BY <1>1, <1>2, <1>3 DEF Before

LEMMA OnlySelected ==
  ASSUME NEW f, NEW ws1, NEW ws2, Selects(f, ws1, ws2),
         NEW r, NEW z \in RefsOf(ws2, r)
  PROVE  \E q \in DOMAIN ws1 : \E s, u : z = <<s, u, f[q]>>
<1>1. PICK g \in DOMAIN ws2 : \E s \in 1 .. r : \E u \in 1 .. Len(ws2[g]) : z = <<s, u, g>>
  BY RefsAre
<1>2. PICK s \in 1 .. r, u \in 1 .. Len(ws2[g]) : z = <<s, u, g>>
  BY <1>1
<1>3. ws2[g] # <<>>
  BY <1>2
<1>4. PICK q \in DOMAIN ws1 : f[q] = g
  BY <1>3 DEF Selects
<1>5. QED
  BY <1>2, <1>4

LEMMA SinceSelected ==
  ASSUME NEW f, NEW ws1, NEW ws2, Selects(f, ws1, ws2),
         NEW r, NEW p \in DOMAIN ws1, NEW t, NEW L,
         NEW q \in DOMAIN ws1, NEW s, NEW u
  PROVE  Since(ws1, r, t, p, <<s, u, q>>, L) = Since(ws2, r, t, f[p], <<s, u, f[q]>>, L)
<1> DEFINE S1 == Since(ws1, r, t, p, <<s, u, q>>, L)
           S2 == Since(ws2, r, t, f[p], <<s, u, f[q]>>, L)
<1>1. \A a, b : \A g \in DOMAIN ws1 :
        Precedes(<<s, u, q>>, <<a, b, g>>) <=> Precedes(<<s, u, f[q]>>, <<a, b, f[g]>>)
  BY DEF Precedes, Selects
<1>2. \A a, b : \A g \in DOMAIN ws1 : LineOf(ws1, <<a, b, g>>, L) = LineOf(ws2, <<a, b, f[g]>>, L)
  BY DEF LineOf, Selects
<1>3. ASSUME NEW y \in S1 PROVE y \in S2
  <2>1. PICK v \in Before(ws1, r, t, p) : Precedes(<<s, u, q>>, v) /\ y = LineOf(ws1, v, L)
    BY <1>3 DEF Since
  <2>2. PICK g \in DOMAIN ws1 : \E a, b : v = <<a, b, g>>
    BY BeforeSelected
  <2>3. PICK a, b : v = <<a, b, g>>
    BY <2>2
  <2>4. <<a, b, f[g]>> \in Before(ws2, r, t, f[p])
    BY <2>1, <2>3, BeforeSelected
  <2>5. Precedes(<<s, u, f[q]>>, <<a, b, f[g]>>) /\ y = LineOf(ws2, <<a, b, f[g]>>, L)
    BY <1>1, <1>2, <2>1, <2>3
  <2>6. QED
    BY <2>4, <2>5 DEF Since
<1>4. ASSUME NEW y \in S2 PROVE y \in S1
  <2>1. PICK v \in Before(ws2, r, t, f[p]) :
          Precedes(<<s, u, f[q]>>, v) /\ y = LineOf(ws2, v, L)
    BY <1>4 DEF Since
  <2> v \in RefsOf(ws2, r)
    BY DEF Before
  <2>2. PICK g \in DOMAIN ws1 : \E a, b : v = <<a, b, f[g]>>
    BY OnlySelected
  <2>3. PICK a, b : v = <<a, b, f[g]>>
    BY <2>2
  <2>4. <<a, b, g>> \in Before(ws1, r, t, p)
    BY <2>1, <2>3, BeforeSelected
  <2>5. Precedes(<<s, u, q>>, <<a, b, g>>) /\ y = LineOf(ws1, <<a, b, g>>, L)
    BY <1>1, <1>2, <2>1, <2>3
  <2>6. QED
    BY <2>4, <2>5 DEF Since
<1>5. QED
  BY <1>3, <1>4

LEMMA HitsSelected ==
  ASSUME NEW f, NEW ws1, NEW ws2, Selects(f, ws1, ws2),
         NEW r, NEW p \in DOMAIN ws1, NEW t, NEW n, NEW L
  PROVE  IsHit(ws1, <<r, t, p>>, n, L) <=> IsHit(ws2, <<r, t, f[p]>>, n, L)
<1> DEFINE x1 == <<r, t, p>>
           x2 == <<r, t, f[p]>>
           S1(z) == Since(ws1, r, t, p, z, L) \ {LineOf(ws1, x1, L)}
           S2(z) == Since(ws2, r, t, f[p], z, L) \ {LineOf(ws2, x2, L)}
<1>1. \A a, b : \A g \in DOMAIN ws1 : LineOf(ws1, <<a, b, g>>, L) = LineOf(ws2, <<a, b, f[g]>>, L)
  BY DEF LineOf, Selects
<1>2. ASSUME NEW g \in DOMAIN ws1, NEW a, NEW b
      PROVE  S1(<<a, b, g>>) = S2(<<a, b, f[g]>>)
  <2>1. Since(ws1, r, t, p, <<a, b, g>>, L) = Since(ws2, r, t, f[p], <<a, b, f[g]>>, L)
    BY SinceSelected
  <2>2. LineOf(ws1, x1, L) = LineOf(ws2, x2, L)
    BY <1>1
  <2>3. QED
    BY <2>1, <2>2
<1>3. /\ IsHit(ws1, x1, n, L) <=>
           \E z \in Before(ws1, r, t, p) :
             LineOf(ws1, z, L) = LineOf(ws1, x1, L) /\ Cardinality(S1(z)) < n
      /\ IsHit(ws2, x2, n, L) <=>
           \E z \in Before(ws2, r, t, f[p]) :
             LineOf(ws2, z, L) = LineOf(ws2, x2, L) /\ Cardinality(S2(z)) < n
  BY IsHitByLines
<1>4. LineOf(ws1, x1, L) = LineOf(ws2, x2, L)
  BY <1>1
<1> HIDE DEF x1, x2, S1, S2
<1>5. ASSUME NEW z \in Before(ws1, r, t, p),
             LineOf(ws1, z, L) = LineOf(ws1, x1, L), Cardinality(S1(z)) < n
      PROVE  \E v \in Before(ws2, r, t, f[p]) :
               LineOf(ws2, v, L) = LineOf(ws2, x2, L) /\ Cardinality(S2(v)) < n
  <2>1. PICK g \in DOMAIN ws1 : \E a, b : z = <<a, b, g>>
    BY BeforeSelected
  <2>2. PICK a, b : z = <<a, b, g>>
    BY <2>1
  <2>3. <<a, b, f[g]>> \in Before(ws2, r, t, f[p])
    BY <2>2, BeforeSelected
  <2>4. S1(z) = S2(<<a, b, f[g]>>) /\ LineOf(ws1, z, L) = LineOf(ws2, <<a, b, f[g]>>, L)
    BY <1>1, <1>2, <2>2
  <2>5. QED
    BY <1>4, <1>5, <2>3, <2>4
<1>6. ASSUME NEW z \in Before(ws2, r, t, f[p]),
             LineOf(ws2, z, L) = LineOf(ws2, x2, L), Cardinality(S2(z)) < n
      PROVE  \E v \in Before(ws1, r, t, p) :
               LineOf(ws1, v, L) = LineOf(ws1, x1, L) /\ Cardinality(S1(v)) < n
  <2> z \in RefsOf(ws2, r)
    BY DEF Before
  <2>1. PICK g \in DOMAIN ws1 : \E a, b : z = <<a, b, f[g]>>
    BY OnlySelected
  <2>2. PICK a, b : z = <<a, b, f[g]>>
    BY <2>1
  <2>3. <<a, b, g>> \in Before(ws1, r, t, p)
    BY <2>2, BeforeSelected
  <2>4. S1(<<a, b, g>>) = S2(z) /\ LineOf(ws1, <<a, b, g>>, L) = LineOf(ws2, z, L)
    BY <1>1, <1>2, <2>2
  <2>5. QED
    BY <1>4, <1>6, <2>3, <2>4
<1>7. QED
  BY <1>3, <1>5, <1>6 DEF x1, x2

LEMMA MissesSelected ==
  ASSUME NEW f, NEW ws1, NEW ws2, Selects(f, ws1, ws2),
         NEW r, NEW p \in DOMAIN ws1, NEW d, NEW n, NEW L
  PROVE  MissesOf(ws1, r, p, d, n, L) = MissesOf(ws2, r, f[p], d, n, L)
<1> DEFINE M1 == {t \in 1 .. Len(ws1[p]) : ws1[p][t][2] = d /\ ~ IsHit(ws1, <<r, t, p>>, n, L)}
           M2 == {t \in 1 .. Len(ws2[f[p]]) :
                    ws2[f[p]][t][2] = d /\ ~ IsHit(ws2, <<r, t, f[p]>>, n, L)}
<1>1. ws1[p] = ws2[f[p]]
  BY DEF Selects
<1>2. \A t : IsHit(ws1, <<r, t, p>>, n, L) <=> IsHit(ws2, <<r, t, f[p]>>, n, L)
  BY HitsSelected
<1>3. M1 = M2
  BY <1>1, <1>2
<1>4. QED
  BY <1>3 DEF MissesOf

LEMMA MissesAreNat ==
  ASSUME NEW ws, NEW r, NEW p, NEW d, NEW n, NEW L, Len(ws[p]) \in Nat
  PROVE  MissesOf(ws, r, p, d, n, L) \in Nat
<1> DEFINE missed == {t \in 1 .. Len(ws[p]) :
                        ws[p][t][2] = d /\ ~ IsHit(ws, <<r, t, p>>, n, L)}
<1>1. IsFiniteSet(1 .. Len(ws[p]))
  BY FS_Interval
<1>2. missed \subseteq 1 .. Len(ws[p])
  OBVIOUS
<1> HIDE DEF missed
<1>3. IsFiniteSet(missed)
  BY <1>1, <1>2, FS_Subset
<1>4. Cardinality(missed) \in Nat
  BY <1>3, FS_CardinalityType
<1>5. QED
  BY <1>4 DEF MissesOf, missed

LEMMA NoReferencesNoMisses ==
  ASSUME NEW ws, NEW r, NEW p, NEW d, NEW n, NEW L, ws[p] = <<>>
  PROVE  MissesOf(ws, r, p, d, n, L) = 0
<1> DEFINE missed == {t \in 1 .. Len(ws[p]) :
                        ws[p][t][2] = d /\ ~ IsHit(ws, <<r, t, p>>, n, L)}
<1>1. missed = {}
  OBVIOUS
<1>2. Cardinality(missed) = 0
  BY <1>1, FS_EmptySet
<1>3. QED
  BY <1>2 DEF MissesOf

-----------------------------------------------------------------------------
(* The result for one cache *)

ActiveStrings == [n \in 1 .. Len(threads) |-> strings[threads[n]]]

LEMMA StringsAreSequences ==
  ASSUME LoopsInv
  PROVE  /\ DOMAIN strings = Threads
         /\ \A i \in Threads : strings[i] \in Seq(Nat \X Int)
BY StringsAssumption DEF LoopsInv

LEMMA BelowAreThreads ==
  ASSUME NEW c
  PROVE  ThreadsBelow(c) \subseteq Threads /\ ThreadsBelow(c) \subseteq Nat
BY ThreadsAssumption DEF ThreadsBelow, Threads

LEMMA ActiveAreSelected ==
  ASSUME LoopsInv, NEW c, ListsThreads(threads, ThreadsBelow(c), NumThreads)
  PROVE  Selects(threads, ActiveStrings, StringsBelow(c))
<1>1. /\ DOMAIN ActiveStrings = 1 .. Len(threads) /\ Len(threads) \in Nat
      /\ DOMAIN StringsBelow(c) = Threads
  BY DEF ActiveStrings, StringsBelow, LoopsInv
<1>2. /\ \A n \in 1 .. Len(threads) : threads[n] \in ThreadsBelow(c)
      /\ \A n, l \in 1 .. Len(threads) : n < l => threads[n] < threads[l]
  BY DEF ListsThreads
<1>3. \A n \in 1 .. Len(threads) : threads[n] \in Threads /\ threads[n] \in Nat
  BY <1>2, BelowAreThreads
<1>4. \A n \in 1 .. Len(threads) :
        StringsBelow(c)[threads[n]] = strings[threads[n]] /\ ActiveStrings[n] = strings[threads[n]]
  BY <1>2, <1>3 DEF StringsBelow, ActiveStrings
<1>5. ASSUME NEW i \in Threads
      PROVE  StringsBelow(c)[i] = <<>> \/ \E n \in 1 .. Len(threads) : threads[n] = i
  <2>1. CASE i \in ThreadsBelow(c)
    <3>1. i < NumThreads
      BY ThreadsAssumption DEF Threads
    <3>2. QED
      BY <2>1, <3>1 DEF ListsThreads
  <2>2. CASE i \notin ThreadsBelow(c)
    BY <2>2 DEF StringsBelow
  <2>3. QED
    BY <2>1, <2>2
<1>6. \A n, l \in 1 .. Len(threads) :
        (n < l <=> threads[n] < threads[l]) /\ (threads[n] = threads[l] => n = l)
  BY <1>1, <1>2, <1>3
<1>7. QED
  BY <1>1, <1>3, <1>4, <1>5, <1>6 DEF Selects

\* The rows put at the threads are those of a simulation of every thread, with
\* an empty string for a thread that is not below the cache.
LEMMA ScatteredRows ==
  ASSUME LoopsInv, NEW c, ListsThreads(threads, ThreadsBelow(c), NumThreads)
  PROVE  Scatter(threads, Simulate(c, ActiveStrings)) = Simulate(c, StringsBelow(c))
<1> DEFINE runs == IF warmup THEN 2 ELSE 1
           lines == NumCacheLines(c)
           size == LineSize[c]
           rows == Simulate(c, ActiveStrings)
           all == Simulate(c, StringsBelow(c))
<1>1. Selects(threads, ActiveStrings, StringsBelow(c))
  BY ActiveAreSelected
<1>2. /\ DOMAIN ActiveStrings = 1 .. Len(threads)
      /\ DOMAIN StringsBelow(c) = Threads
  BY DEF ActiveStrings, StringsBelow
<1>3. \A n \in 1 .. Len(threads) :
        rows[n] = [d \in Domains |-> MissesOf(ActiveStrings, runs, n, d, lines, size)]
  BY <1>2 DEF Simulate
<1>4. /\ all = [i \in Threads |->
                  [d \in Domains |-> MissesOf(StringsBelow(c), runs, i, d, lines, size)]]
  BY <1>2 DEF Simulate
<1> HIDE DEF runs, lines, size, rows, all
<1>5. ASSUME NEW n \in 1 .. Len(threads), NEW d \in Domains
      PROVE  MissesOf(ActiveStrings, runs, n, d, lines, size)
               = MissesOf(StringsBelow(c), runs, threads[n], d, lines, size)
  BY <1>1, <1>2, MissesSelected
<1>6. ASSUME NEW n \in 1 .. Len(threads)
      PROVE  rows[n] = [d \in Domains |->
                          MissesOf(StringsBelow(c), runs, threads[n], d, lines, size)]
  BY <1>3, <1>5
<1>7. ASSUME NEW i \in Threads, ~ \E n \in 1 .. Len(threads) : threads[n] = i, NEW d \in Domains
      PROVE  MissesOf(StringsBelow(c), runs, i, d, lines, size) = 0
  <2>1. i < NumThreads
    BY ThreadsAssumption DEF Threads
  <2>2. i \notin ThreadsBelow(c)
    BY <1>7, <2>1 DEF ListsThreads
  <2>3. StringsBelow(c)[i] = <<>>
    BY <2>2 DEF StringsBelow
  <2>4. QED
    BY <2>3, NoReferencesNoMisses
<1>8. ASSUME NEW i \in Threads
      PROVE  Scatter(threads, rows)[i]
               = [d \in Domains |-> MissesOf(StringsBelow(c), runs, i, d, lines, size)]
  <2>1. CASE \E n \in 1 .. Len(threads) : threads[n] = i
    <3>1. Scatter(threads, rows)[i] = rows[CHOOSE n \in 1 .. Len(threads) : threads[n] = i]
      BY <2>1 DEF Scatter
    <3>2. PICK n \in 1 .. Len(threads) :
            threads[n] = i /\ n = CHOOSE m \in 1 .. Len(threads) : threads[m] = i
      BY <2>1
    <3>3. QED
      BY <1>6, <3>1, <3>2
  <2>2. CASE ~ \E n \in 1 .. Len(threads) : threads[n] = i
    <3>1. Scatter(threads, rows)[i] = [d \in Domains |-> 0]
      BY <2>2 DEF Scatter
    <3>2. QED
      BY <1>7, <2>2, <3>1
  <2>3. QED
    BY <2>1, <2>2
<1>9. Scatter(threads, rows) = all
  <2>1. Scatter(threads, rows) = [i \in Threads |-> Scatter(threads, rows)[i]]
    BY DEF Scatter
  <2>2. QED
    BY <1>4, <1>8, <2>1
<1>10. QED
  BY <1>9 DEF rows, all

LEMMA ResultIsExpected ==
  ASSUME LoopsInv, NEW c, ListsThreads(threads, ThreadsBelow(c), NumThreads)
  PROVE  (IF threads = <<>> THEN <<>> ELSE Scatter(threads, Simulate(c, ActiveStrings)))
           = Expected(c)
<1>1. ASSUME threads = <<>> PROVE ThreadsBelow(c) = {}
  <2>1. ASSUME NEW i \in ThreadsBelow(c) PROVE FALSE
    <3>1. i < NumThreads
      BY ThreadsAssumption DEF ThreadsBelow, Threads
    <3>2. \E n \in 1 .. Len(threads) : threads[n] = i
      BY <3>1 DEF ListsThreads
    <3>3. QED
      BY <1>1, <3>2
  <2>2. QED
    BY <2>1
<1>2. ASSUME threads # <<>> PROVE ThreadsBelow(c) # {}
  <2>1. threads \in Seq(Threads)
    BY DEF LoopsInv
  <2>2. 1 \in 1 .. Len(threads)
    BY <1>2, <2>1
  <2>3. QED
    BY <2>2 DEF ListsThreads
<1>3. QED
  BY <1>1, <1>2, ScatteredRows DEF Expected

\* Each row of it has a number of misses for each NUMA domain.
LEMMA ExpectedType ==
  ASSUME LoopsInv, NEW c
  PROVE  Expected(c) = <<>> \/ Expected(c) \in [Threads -> [Domains -> Nat]]
<1>1. DOMAIN StringsBelow(c) = Threads
  BY DEF StringsBelow
<1>2. \A i \in Threads : StringsBelow(c)[i] \in Seq(Nat \X Int)
  BY StringsAreSequences DEF StringsBelow
<1>3. \A i \in Threads : Len(StringsBelow(c)[i]) \in Nat
  BY <1>2
<1>4. ASSUME NEW i \in Threads, NEW d \in Domains, NEW r, NEW n, NEW L
      PROVE  MissesOf(StringsBelow(c), r, i, d, n, L) \in Nat
  BY <1>3, MissesAreNat
<1>5. Simulate(c, StringsBelow(c)) \in [Threads -> [Domains -> Nat]]
  BY <1>1, <1>4 DEF Simulate
<1>6. QED
  BY <1>5 DEF Expected

-----------------------------------------------------------------------------
(* The loops over the caches and the threads *)

LEMMA ConfigKept ==
  ASSUME UNCHANGED config
  PROVE  /\ \A c : Above(c)' = Above(c)
         /\ \A c : ThreadsBelow(c)' = ThreadsBelow(c)
         /\ \A c : Expected(c)' = Expected(c)
         /\ Accepted' = Accepted
BY DEF config, Above, HasParents, ThreadsBelow, Expected, StringsBelow, Simulate, Accepted

LEMMA NoThreadYet ==
  ASSUME NEW below \in SUBSET Nat
  PROVE  ListsThreads(<<>>, below, 0)
BY DEF ListsThreads

LEMMA ThreadFound ==
  ASSUME NEW ts \in Seq(Threads), NEW below \in SUBSET Nat, NEW i \in Threads, i \in below,
         ListsThreads(ts, below, i)
  PROVE  ListsThreads(Append(ts, i), below, i + 1)
<1> DEFINE ext == Append(ts, i)
<1>1. /\ Len(ts) \in Nat /\ Len(ext) = Len(ts) + 1
      /\ \A n \in 1 .. Len(ts) : ext[n] = ts[n] /\ ts[n] \in Nat
      /\ ext[Len(ts) + 1] = i
  BY ThreadsAssumption DEF Threads
<1> HIDE DEF ext
<1>2. \A n \in 1 .. Len(ext) : n \in 1 .. Len(ts) \/ n = Len(ts) + 1
  BY <1>1
<1>3. /\ \A n \in 1 .. Len(ts) : ts[n] \in below /\ ts[n] < i
      /\ \A j \in below : j < i => \E n \in 1 .. Len(ts) : ts[n] = j
      /\ \A n, l \in 1 .. Len(ts) : n < l => ts[n] < ts[l]
  BY DEF ListsThreads
<1>4. i \in Nat
  OBVIOUS
<1>5. \A n \in 1 .. Len(ext) : ext[n] \in below /\ ext[n] < i + 1
  BY <1>1, <1>2, <1>3, <1>4
<1>6. ASSUME NEW j \in below, j < i + 1
      PROVE  \E n \in 1 .. Len(ext) : ext[n] = j
  <2>1. CASE j = i
    BY <1>1, <2>1
  <2>2. CASE j < i
    <3>1. PICK n \in 1 .. Len(ts) : ts[n] = j
      BY <1>3, <2>2
    <3>2. n \in 1 .. Len(ext) /\ ext[n] = j
      BY <1>1, <3>1
    <3>3. QED
      BY <3>2
  <2>3. QED
    BY <1>4, <1>6, <2>1, <2>2
<1>7. ASSUME NEW n \in 1 .. Len(ext), NEW l \in 1 .. Len(ext), n < l
      PROVE  ext[n] < ext[l]
  <2>1. n \in 1 .. Len(ts)
    BY <1>1, <1>2, <1>7
  <2>2. CASE l \in 1 .. Len(ts)
    BY <1>1, <1>3, <1>7, <2>1, <2>2
  <2>3. CASE l = Len(ts) + 1
    BY <1>1, <1>3, <2>1, <2>3
  <2>4. QED
    BY <1>2, <2>2, <2>3
<1>8. QED
  BY <1>5, <1>6, <1>7 DEF ListsThreads, ext

LEMMA ThreadPassed ==
  ASSUME NEW ts, NEW below \in SUBSET Nat, NEW i \in Nat, i \notin below,
         ListsThreads(ts, below, i), \A n \in 1 .. Len(ts) : ts[n] \in Nat
  PROVE  ListsThreads(ts, below, i + 1)
<1>1. \A n \in 1 .. Len(ts) : ts[n] \in below /\ ts[n] < i + 1
  BY DEF ListsThreads
<1>2. ASSUME NEW j \in below, j < i + 1
      PROVE  \E n \in 1 .. Len(ts) : ts[n] = j
  <2>1. j < i
    BY <1>2
  <2>2. QED
    BY <2>1 DEF ListsThreads
<1>3. QED
  BY <1>1, <1>2 DEF ListsThreads

LEMMA InitEstablishes == Init => IInv
<1> SUFFICES ASSUME Init PROVE IInv
  OBVIOUS
<1>1. LoopsInv
  BY ThreadsAssumption, OrderIsList DEF Init, LoopsInv, Tracing
<1>2. ThreadsInv
  BY DEF Init, ThreadsInv, Tracing
<1>3. RowsInv
  BY DEF Init, RowsInv
<1>4. QED
  BY <1>1, <1>2, <1>3 DEF IInv

\* What LookAt needs: the threads below i are listed, and where it goes to.
LEMMA LookAtKeepsThreads ==
  ASSUME IInv, UNCHANGED config, k' = k, k <= Len(CacheOrder), pc \notin {"config", "rejected"},
         NEW i \in 0 .. NumThreads, LookAt(i), threads' \in Seq(Threads),
         \A c \in Caches : c = CacheOrder[k] => ListsThreads(threads', ThreadsBelow(c), i)
  PROVE  LoopsInv' /\ ThreadsInv'
<1> USE ThreadsAssumption
<1>1. /\ Accepted /\ Accepted' = Accepted
  BY ConfigKept DEF IInv, LoopsInv
<1>2. /\ pc' \in {"climb", "trace"} /\ thread' = i
      /\ pc' = "climb" => i \in Threads /\ ancestor' = affinity[i]
      /\ pc' = "trace" => i = NumThreads /\ ancestor' = NoCache
  BY DEF LookAt, Threads
<1>3. \A j \in Threads : affinity[j] \in Caches
  BY <1>1 DEF Accepted
<1>4. LoopsInv'
  <2>1. /\ parent' = parent /\ affinity' = affinity /\ warmup' = warmup /\ strings' = strings
    BY DEF config
  <2>2. ancestor' \in Caches \cup {NoCache} /\ (pc' = "climb" => ancestor' \in Caches)
    BY <1>2, <1>3
  <2>3. QED
    BY <1>1, <1>2, <2>1, <2>2 DEF IInv, LoopsInv, Tracing
<1>5. ThreadsInv'
  <2>1. ASSUME NEW c \in Caches, c = CacheOrder[k]'
        PROVE  /\ ListsThreads(threads', ThreadsBelow(c)', thread')
               /\ \A a \in Caches : pc' = "climb" /\ ancestor' = a =>
                    (thread' \in ThreadsBelow(c)' <=> c \in Above(a)')
    <3>1. c = CacheOrder[k] /\ ThreadsBelow(c)' = ThreadsBelow(c)
      BY <2>1, ConfigKept
    <3>2. ListsThreads(threads', ThreadsBelow(c)', thread')
      BY <1>2, <3>1
    <3>3. ASSUME NEW a \in Caches, pc' = "climb", ancestor' = a
          PROVE  thread' \in ThreadsBelow(c)' <=> c \in Above(a)'
      <4>1. Above(a)' = Above(a)
        BY ConfigKept
      <4>2. a = affinity[i] /\ i \in Threads
        BY <1>2, <3>3
      <4>3. i \in ThreadsBelow(c) <=> c \in Above(a)
        BY <4>2 DEF ThreadsBelow
      <4>4. QED
        BY <1>2, <3>1, <4>1, <4>3
    <3>4. QED
      BY <3>2, <3>3
  <2>2. QED
    BY <2>1 DEF ThreadsInv, ListsThreads
<1>6. QED
  BY <1>4, <1>5

LEMMA RowsKept ==
  ASSUME RowsInv, UNCHANGED <<config, k, cache_misses>>
  PROVE  RowsInv'
<1>1. \A c : Expected(c)' = Expected(c)
  BY ConfigKept
<1>2. k' = k /\ cache_misses' = cache_misses
  OBVIOUS
<1>3. /\ DOMAIN cache_misses' = {CacheOrder[j] : j \in 1 .. k' - 1}
      /\ \A c \in Caches : \A j \in 1 .. k' - 1 : c = CacheOrder[j] => cache_misses'[c] = Expected(c)'
  BY <1>1, <1>2 DEF RowsInv
<1>4. QED
  BY <1>3 DEF RowsInv

\* What the steps of a climb know of the thread and of the cache looked for.
LEMMA WhileClimbing ==
  ASSUME IInv, pc = "climb"
  PROVE  /\ k <= Len(CacheOrder) /\ CacheOrder[k] \in Caches
         /\ thread \in Threads /\ thread \in Nat /\ thread + 1 \in 0 .. NumThreads
         /\ ancestor \in Caches
         /\ threads \in Seq(Threads) /\ \A n \in 1 .. Len(threads) : threads[n] \in Nat
         /\ parent[ancestor] = NoCache \/ parent[ancestor] \in Caches
         /\ \A c \in Caches : c = CacheOrder[k] =>
              /\ ListsThreads(threads, ThreadsBelow(c), thread)
              /\ \A a \in Caches : a = ancestor => (thread \in ThreadsBelow(c) <=> c \in Above(a))
<1>1. /\ k \in Nat \ {0} /\ k <= Len(CacheOrder) /\ thread \in Threads /\ ancestor \in Caches
      /\ threads \in Seq(Threads) /\ Accepted
  BY DEF IInv, LoopsInv, Tracing
<1>2. CacheOrder[k] \in Caches
  BY <1>1, OrderIsList
<1>3. thread \in Nat /\ thread + 1 \in 0 .. NumThreads
  BY <1>1, ThreadsAssumption DEF Threads
<1>4. \A n \in 1 .. Len(threads) : threads[n] \in Nat
  BY <1>1, ThreadsAssumption DEF Threads
<1>5. parent[ancestor] = NoCache \/ parent[ancestor] \in Caches
  BY <1>1 DEF Accepted
<1>6. QED
  BY <1>1, <1>2, <1>3, <1>4, <1>5 DEF IInv, ThreadsInv, Tracing

LEMMA ConfigureKeepsInvariant == IInv /\ Configure => IInv'
<1> SUFFICES ASSUME IInv, Configure PROVE IInv'
  OBVIOUS
<1>1. /\ pc = "config" /\ UNCHANGED <<config, k, thread, ancestor, threads, cache_misses>>
      /\ Accepted' = Accepted /\ (pc' = "rejected" \/ (pc' = "next" /\ Accepted))
  BY ConfigKept DEF Configure
<1>2. LoopsInv'
  BY <1>1 DEF IInv, LoopsInv, Tracing, config
<1>3. ThreadsInv'
  BY <1>1 DEF ThreadsInv, Tracing
<1>4. RowsInv'
  BY <1>1, RowsKept DEF IInv
<1>5. QED
  BY <1>2, <1>3, <1>4 DEF IInv

LEMMA NextCacheKeepsInvariant == IInv /\ NextCache => IInv'
<1> SUFFICES ASSUME IInv, NextCache PROVE IInv'
  OBVIOUS
<1>1. /\ pc = "next" /\ k <= Len(CacheOrder) /\ LookAt(0) /\ threads' = <<>>
      /\ UNCHANGED <<config, k, cache_misses>>
  BY DEF NextCache
<1>2. 0 \in 0 .. NumThreads /\ threads' \in Seq(Threads)
  BY <1>1, ThreadsAssumption
<1>3. \A c \in Caches : c = CacheOrder[k] => ListsThreads(threads', ThreadsBelow(c), 0)
  BY <1>1, NoThreadYet, BelowAreThreads
<1>4. LoopsInv' /\ ThreadsInv'
  BY <1>1, <1>2, <1>3, LookAtKeepsThreads
<1>5. RowsInv'
  BY <1>1, RowsKept DEF IInv
<1>6. QED
  BY <1>4, <1>5 DEF IInv

LEMMA FoundAncestorKeepsInvariant == IInv /\ FoundAncestor => IInv'
<1> SUFFICES ASSUME IInv, FoundAncestor PROVE IInv'
  OBVIOUS
<1>1. /\ pc = "climb" /\ ancestor = CacheOrder[k] /\ threads' = Append(threads, thread)
      /\ LookAt(thread + 1) /\ UNCHANGED <<config, k, cache_misses>>
  BY DEF FoundAncestor
<1>2. /\ k <= Len(CacheOrder) /\ thread \in Threads /\ thread + 1 \in 0 .. NumThreads
      /\ threads \in Seq(Threads) /\ ancestor \in Caches
  BY <1>1, WhileClimbing
<1>3. ASSUME NEW c \in Caches, c = CacheOrder[k]
      PROVE  ListsThreads(threads', ThreadsBelow(c), thread + 1)
  <2>1. ListsThreads(threads, ThreadsBelow(c), thread)
    BY <1>1, <1>3, WhileClimbing
  <2>2. thread \in ThreadsBelow(c)
    BY <1>1, <1>3, WhileClimbing, AboveItself
  <2>3. ThreadsBelow(c) \in SUBSET Nat
    BY BelowAreThreads
  <2>4. QED
    BY <1>1, <1>2, <2>1, <2>2, <2>3, ThreadFound
<1>4. threads' \in Seq(Threads)
  BY <1>1, <1>2
<1>5. LoopsInv' /\ ThreadsInv'
  BY <1>1, <1>2, <1>3, <1>4, LookAtKeepsThreads
<1>6. RowsInv'
  BY <1>1, RowsKept DEF IInv
<1>7. QED
  BY <1>5, <1>6 DEF IInv

LEMMA NoAncestorKeepsInvariant == IInv /\ NoAncestor => IInv'
<1> SUFFICES ASSUME IInv, NoAncestor PROVE IInv'
  OBVIOUS
<1>1. /\ pc = "climb" /\ ancestor # CacheOrder[k] /\ parent[ancestor] = NoCache
      /\ LookAt(thread + 1) /\ UNCHANGED <<config, k, threads, cache_misses>>
  BY DEF NoAncestor
<1>2. /\ k <= Len(CacheOrder) /\ thread \in Nat /\ thread + 1 \in 0 .. NumThreads
      /\ threads \in Seq(Threads) /\ ancestor \in Caches
      /\ \A n \in 1 .. Len(threads) : threads[n] \in Nat
  BY <1>1, WhileClimbing
<1>3. ASSUME NEW c \in Caches, c = CacheOrder[k]
      PROVE  ListsThreads(threads, ThreadsBelow(c), thread + 1)
  <2>1. ListsThreads(threads, ThreadsBelow(c), thread)
    BY <1>1, <1>3, WhileClimbing
  <2>2. thread \notin ThreadsBelow(c)
    <3>1. PICK a \in Caches : a = ancestor
      BY <1>2
    <3>2. parent[a] \notin Caches /\ c # a
      BY <1>1, <1>3, <3>1, NamesAssumption
    <3>3. c \notin Above(a)
      BY <3>2, RootIsAlone
    <3>4. QED
      BY <1>1, <1>3, <3>1, <3>3, WhileClimbing
  <2>3. ThreadsBelow(c) \in SUBSET Nat
    BY BelowAreThreads
  <2>4. QED
    BY <1>2, <2>1, <2>2, <2>3, ThreadPassed
<1>4. LoopsInv' /\ ThreadsInv'
  <2>1. \A c \in Caches : c = CacheOrder[k] => ListsThreads(threads', ThreadsBelow(c), thread + 1)
    BY <1>1, <1>3
  <2>2. QED
    BY <1>1, <1>2, <2>1, LookAtKeepsThreads
<1>5. RowsInv'
  BY <1>1, RowsKept DEF IInv
<1>6. QED
  BY <1>4, <1>5 DEF IInv

LEMMA ClimbToParentKeepsInvariant == IInv /\ ClimbToParent => IInv'
<1> SUFFICES ASSUME IInv, ClimbToParent PROVE IInv'
  OBVIOUS
<1>1. /\ pc = "climb" /\ ancestor # CacheOrder[k] /\ parent[ancestor] # NoCache
      /\ ancestor' = parent[ancestor]
      /\ UNCHANGED <<config, pc, k, thread, threads, cache_misses>>
  BY DEF ClimbToParent
<1>2. ancestor \in Caches /\ ancestor' \in Caches
  BY <1>1, WhileClimbing
<1>3. LoopsInv'
  <2>1. Accepted' = Accepted
    BY <1>1, ConfigKept
  <2>2. QED
    BY <1>1, <1>2, <2>1 DEF IInv, LoopsInv, Tracing, config
<1>4. ThreadsInv'
  <2>1. ASSUME NEW c \in Caches, c = CacheOrder[k]'
        PROVE  /\ ListsThreads(threads', ThreadsBelow(c)', thread')
               /\ \A a \in Caches : ancestor' = a =>
                    (thread' \in ThreadsBelow(c)' <=> c \in Above(a)')
    <3>1. c = CacheOrder[k] /\ ThreadsBelow(c)' = ThreadsBelow(c)
      BY <1>1, <2>1, ConfigKept
    <3>2. ListsThreads(threads, ThreadsBelow(c), thread)
      BY <1>1, <3>1, WhileClimbing
    <3>3. ASSUME NEW a \in Caches, ancestor' = a
          PROVE  thread \in ThreadsBelow(c) <=> c \in Above(a)
      <4>1. PICK b \in Caches : b = ancestor
        BY <1>2
      <4>2. parent[b] = a /\ c # b
        BY <1>1, <3>1, <3>3, <4>1
      <4>3. c \in Above(b) <=> c \in Above(parent[b])
        BY <4>2, AboveTheParent
      <4>4. thread \in ThreadsBelow(c) <=> c \in Above(b)
        BY <1>1, <3>1, <4>1, WhileClimbing
      <4>5. QED
        BY <4>2, <4>3, <4>4
    <3>4. \A a \in Caches : Above(a)' = Above(a)
      BY <1>1, ConfigKept
    <3>5. QED
      BY <1>1, <3>1, <3>2, <3>3, <3>4
  <2>2. QED
    BY <2>1 DEF ThreadsInv, ListsThreads
<1>5. RowsInv'
  BY <1>1, RowsKept DEF IInv
<1>6. QED
  BY <1>3, <1>4, <1>5 DEF IInv

\* The result of the cache goes to its place, and those before it stay.
LEMMA TraceCacheKeepsInvariant == IInv /\ TraceCache => IInv'
<1> SUFFICES ASSUME IInv, TraceCache PROVE IInv'
  OBVIOUS
<1>1. /\ pc = "trace" /\ k' = k + 1 /\ pc' = "next"
      /\ UNCHANGED <<config, thread, ancestor, threads>>
  BY DEF TraceCache
<1>2. LoopsInv /\ k \in 1 .. Len(CacheOrder) /\ Accepted /\ thread = NumThreads
  BY <1>1, OrderIsList DEF IInv, LoopsInv, Tracing
<1>3. LoopsInv'
  <2>1. Accepted' = Accepted
    BY <1>1, ConfigKept
  <2>2. QED
    BY <1>1, <1>2, <2>1, OrderIsList DEF LoopsInv, Tracing, config
<1>4. ThreadsInv'
  BY <1>1 DEF ThreadsInv, Tracing
<1>5. RowsInv'
  <2>1. PICK c \in Caches : c = CacheOrder[k]
    BY <1>2, OrderIsList
  <2>2. ListsThreads(threads, ThreadsBelow(c), NumThreads)
    BY <1>1, <1>2, <2>1 DEF IInv, ThreadsInv, Tracing
  <2>3. cache_misses' = Emplace(cache_misses, c, Expected(c))
    BY <1>2, <2>1, <2>2, ResultIsExpected DEF TraceCache, ActiveStrings
  <2>4. /\ DOMAIN cache_misses = {CacheOrder[j] : j \in 1 .. k - 1}
        /\ \A e \in Caches : \A j \in 1 .. k - 1 :
             e = CacheOrder[j] => cache_misses[e] = Expected(e)
    BY DEF IInv, RowsInv
  <2>5. c \notin DOMAIN cache_misses
    BY <1>2, <2>1, <2>4, OrderAssumption
  <2>6. /\ DOMAIN cache_misses' = DOMAIN cache_misses \cup {c}
        /\ \A e \in DOMAIN cache_misses : cache_misses'[e] = cache_misses[e]
        /\ cache_misses'[c] = Expected(c)
    BY <2>3, <2>5 DEF Emplace
  <2>7. \A j : j \in 1 .. k' - 1 <=> j \in 1 .. k - 1 \/ j = k
    BY <1>1, <1>2
  <2>8. DOMAIN cache_misses' = {CacheOrder[j] : j \in 1 .. k' - 1}
    BY <2>1, <2>4, <2>6, <2>7
  <2>9. ASSUME NEW e \in Caches, NEW j \in 1 .. k' - 1, e = CacheOrder[j]
        PROVE  cache_misses'[e] = Expected(e)
    <3>1. CASE j \in 1 .. k - 1
      <4>1. e \in DOMAIN cache_misses
        BY <2>4, <2>9, <3>1
      <4>2. QED
        BY <2>4, <2>6, <2>9, <3>1, <4>1
    <3>2. CASE j = k
      BY <2>1, <2>6, <2>9, <3>2
    <3>3. QED
      BY <2>7, <3>1, <3>2
  <2>10. \A e : Expected(e)' = Expected(e)
    BY <1>1, ConfigKept
  <2>11. QED
    BY <2>8, <2>9, <2>10 DEF RowsInv
<1>6. QED
  BY <1>3, <1>4, <1>5 DEF IInv

LEMMA FinishKeepsInvariant == IInv /\ Finish => IInv'
<1> SUFFICES ASSUME IInv, Finish PROVE IInv'
  OBVIOUS
<1>1. /\ pc = "next" /\ k > Len(CacheOrder) /\ pc' = "done"
      /\ UNCHANGED <<config, k, thread, ancestor, threads, cache_misses>>
  BY DEF Finish
<1>2. Accepted' = Accepted
  BY <1>1, ConfigKept
<1>3. LoopsInv'
  BY <1>1, <1>2, OrderIsList DEF IInv, LoopsInv, Tracing, config
<1>4. ThreadsInv'
  BY <1>1 DEF ThreadsInv, Tracing
<1>5. RowsInv'
  BY <1>1, RowsKept DEF IInv
<1>6. QED
  BY <1>3, <1>4, <1>5 DEF IInv

LEMMA StutterKeepsInvariant == IInv /\ UNCHANGED cacheTraceVars => IInv'
<1> SUFFICES ASSUME IInv, UNCHANGED cacheTraceVars PROVE IInv'
  OBVIOUS
<1>1. UNCHANGED <<config, pc, k, thread, ancestor, threads, cache_misses>>
  BY DEF cacheTraceVars
<1>2. Accepted' = Accepted
  BY <1>1, ConfigKept
<1>3. LoopsInv'
  BY <1>1, <1>2 DEF IInv, LoopsInv, Tracing, config
<1>4. ThreadsInv'
  <2>1. \A c : ThreadsBelow(c)' = ThreadsBelow(c) /\ Above(c)' = Above(c)
    BY <1>1, ConfigKept
  <2>2. QED
    BY <1>1, <2>1 DEF IInv, ThreadsInv, Tracing, ListsThreads
<1>5. RowsInv'
  BY <1>1, RowsKept DEF IInv
<1>6. QED
  BY <1>3, <1>4, <1>5 DEF IInv

\* The active threads are those below the cache, and the results so far are
\* those of simulations of the threads below each cache.
THEOREM Invariance == Spec => []IInv
<1>1. Init => IInv
  BY InitEstablishes
<1>2. IInv /\ [Next]_cacheTraceVars => IInv'
  BY ConfigureKeepsInvariant, NextCacheKeepsInvariant, FoundAncestorKeepsInvariant,
     NoAncestorKeepsInvariant, ClimbToParentKeepsInvariant, TraceCacheKeepsInvariant,
     FinishKeepsInvariant, StutterKeepsInvariant DEF Next
<1>3. QED
  BY <1>1, <1>2, PTL DEF Spec

-----------------------------------------------------------------------------
(* What follows *)

\* TypeOK: the loops stay within the caches and the threads, and a result has
\* a number for each thread and NUMA domain, or is empty.
THEOREM TypeCorrect == Spec => []TypeOK
<1>1. IInv => TypeOK
  <2> SUFFICES ASSUME IInv PROVE TypeOK
    OBVIOUS
  <2>1. k \in 1 .. Len(CacheOrder) + 1
    BY OrderIsList DEF IInv, LoopsInv
  <2>2. ASSUME NEW c \in DOMAIN cache_misses
        PROVE  cache_misses[c] = <<>> \/ cache_misses[c] \in [Threads -> [Domains -> Nat]]
    <3>1. PICK j \in 1 .. k - 1 : c = CacheOrder[j]
      BY DEF IInv, RowsInv
    <3>2. c \in Caches
      BY <2>1, <3>1, OrderIsList
    <3>3. cache_misses[c] = Expected(c)
      BY <3>1, <3>2 DEF IInv, RowsInv
    <3>4. QED
      BY <3>3, ExpectedType DEF IInv
  <2>3. QED
    BY <2>1, <2>2 DEF IInv, LoopsInv, RowsInv, TypeOK
<1>2. QED
  BY <1>1, Invariance, PTL

\* At the end there is the result of every cache.
LEMMA AllAreTraced ==
  ASSUME IInv, pc = "done", NEW c \in Caches
  PROVE  LoopsInv /\ cache_misses[c] = Expected(c)
<1>1. k = Len(CacheOrder) + 1 /\ LoopsInv
  BY DEF IInv, LoopsInv
<1>2. PICK j \in 1 .. Len(CacheOrder) : c = CacheOrder[j]
  BY OrderIsList
<1>3. j \in 1 .. k - 1
  BY <1>1, OrderIsList
<1>4. QED
  BY <1>1, <1>2, <1>3 DEF IInv, RowsInv

\* RowsFollowHierarchy: the result of each cache is that of a simulation of the
\* strings of exactly the threads below it, each thread's row at the thread.
THEOREM RowsFollow == Spec => []RowsFollowHierarchy
<1>1. IInv => RowsFollowHierarchy
  BY AllAreTraced DEF RowsFollowHierarchy, Expected, StringsBelow
<1>2. QED
  BY <1>1, Invariance, PTL

\* The references of finitely many strings are finitely many.
LEMMA RefsAreFinite ==
  ASSUME NEW ws, IsFiniteSet(DOMAIN ws), \A p \in DOMAIN ws : Len(ws[p]) \in Nat, NEW r \in Nat
  PROVE  IsFiniteSet(RefsOf(ws, r))
<1> DEFINE part == [p \in DOMAIN ws |-> {<<q, t, p>> : q \in 1 .. r, t \in 1 .. Len(ws[p])}]
           parts == {part[p] : p \in DOMAIN ws}
<1>1. ASSUME NEW p \in DOMAIN ws PROVE IsFiniteSet(part[p])
  <2> DEFINE box == (1 .. r) \X (1 .. Len(ws[p]))
             f == [z \in box |-> <<z[1], z[2], p>>]
             image == {<<q, t, p>> : q \in 1 .. r, t \in 1 .. Len(ws[p])}
  <2>1. IsFiniteSet(1 .. r) /\ IsFiniteSet(1 .. Len(ws[p]))
    BY FS_Interval
  <2>2. IsFiniteSet(box)
    BY <2>1, FS_Product
  <2>3. f \in Surjection(box, image)
    <3>1. f \in [box -> image]
      OBVIOUS
    <3>2. \A y \in image : \E z \in box : f[z] = y
      <4>1. TAKE y \in image
      <4>2. PICK q \in 1 .. r, t \in 1 .. Len(ws[p]) : y = <<q, t, p>>
        OBVIOUS
      <4>3. <<q, t>> \in box /\ f[<<q, t>>] = <<q, t, p>>
        OBVIOUS
      <4>4. QED
        BY <4>2, <4>3
    <3> HIDE DEF box, f, image
    <3>3. QED
      BY <3>1, <3>2 DEF Surjection
  <2> HIDE DEF box, f, image
  <2>4. IsFiniteSet(image)
    BY <2>2, <2>3, FS_Surjection
  <2>5. QED
    BY <2>4 DEF image
<1>2. part \in Surjection(DOMAIN ws, parts)
  <2>1. part = [p \in DOMAIN ws |-> part[p]]
    OBVIOUS
  <2> HIDE DEF part
  <2>2. part \in [DOMAIN ws -> parts] /\ \A y \in parts : \E p \in DOMAIN ws : part[p] = y
    BY <2>1
  <2>3. QED
    BY <2>2 DEF Surjection
<1>3. RefsOf(ws, r) = UNION parts
  BY DEF RefsOf
<1> HIDE DEF part, parts
<1>4. IsFiniteSet(parts)
  BY <1>2, FS_Surjection
<1>5. \A T \in parts : IsFiniteSet(T)
  BY <1>1 DEF parts
<1>6. QED
  BY <1>3, <1>4, <1>5, FS_UNION

\* What hits a cache also hits one with at least as many lines.
LEMMA HitsGrow ==
  ASSUME NEW ws, NEW r, IsFiniteSet(RefsOf(ws, r)), NEW t, NEW p, NEW L,
         NEW n \in Int, NEW m \in Int, n <= m, IsHit(ws, <<r, t, p>>, n, L)
  PROVE  IsHit(ws, <<r, t, p>>, m, L)
<1>1. PICK z \in Before(ws, r, t, p) :
        /\ LineOf(ws, z, L) = LineOf(ws, <<r, t, p>>, L)
        /\ Cardinality(Since(ws, r, t, p, z, L) \ {LineOf(ws, <<r, t, p>>, L)}) < n
  BY IsHitByLines
<1> DEFINE later == {v \in Before(ws, r, t, p) : Precedes(z, v)}
           lines == Since(ws, r, t, p, z, L)
           f == [u \in later |-> LineOf(ws, u, L)]
<1>2. later \subseteq RefsOf(ws, r)
  BY DEF Before
<1>3. f \in Surjection(later, lines)
  BY DEF Surjection, Since
<1> HIDE DEF later, lines, f
<1>4. IsFiniteSet(lines)
  BY <1>2, <1>3, FS_Subset, FS_Surjection
<1>5. Cardinality(lines \ {LineOf(ws, <<r, t, p>>, L)}) \in Nat
  BY <1>4, FS_RemoveElement, FS_CardinalityType
<1>6. Cardinality(lines \ {LineOf(ws, <<r, t, p>>, L)}) < m
  BY <1>1, <1>5 DEF lines
<1>7. QED
  BY <1>1, <1>6, IsHitByLines DEF lines

LEMMA MissesShrink ==
  ASSUME NEW ws, NEW r, IsFiniteSet(RefsOf(ws, r)), NEW p, Len(ws[p]) \in Nat,
         NEW d, NEW L, NEW n \in Int, NEW m \in Int, n <= m
  PROVE  MissesOf(ws, r, p, d, m, L) <= MissesOf(ws, r, p, d, n, L)
<1> DEFINE missed(l) == {t \in 1 .. Len(ws[p]) :
                           ws[p][t][2] = d /\ ~ IsHit(ws, <<r, t, p>>, l, L)}
           A == missed(m)
           B == missed(n)
<1>1. \A t : IsHit(ws, <<r, t, p>>, n, L) => IsHit(ws, <<r, t, p>>, m, L)
  BY HitsGrow
<1>2. A \subseteq B /\ B \subseteq 1 .. Len(ws[p])
  BY <1>1
<1>3. /\ MissesOf(ws, r, p, d, m, L) = Cardinality(A)
      /\ MissesOf(ws, r, p, d, n, L) = Cardinality(B)
  BY DEF MissesOf
<1> HIDE DEF A, B
<1>4. IsFiniteSet(B)
  <2>1. IsFiniteSet(1 .. Len(ws[p]))
    BY FS_Interval
  <2>2. QED
    BY <1>2, <2>1, FS_Subset
<1>5. QED
  BY <1>2, <1>3, <1>4, FS_Subset

LEMMA QuotientsGrow ==
  ASSUME NEW L \in Nat \ {0}, NEW a \in Nat, NEW b \in Nat, a <= b
  PROVE  /\ a \div L \in Int /\ b \div L \in Int
         /\ a \div L <= b \div L
OBVIOUS

\* MissesShrinkTowardsRoot: a parent with the threads and the lines of its child
\* that is no smaller misses no more.
THEOREM ParentsMissNoMore == Spec => []MissesShrinkTowardsRoot
<1>1. IInv => MissesShrinkTowardsRoot
  <2> SUFFICES ASSUME IInv, pc = "done", NEW c \in Caches,
                      parent[c] # NoCache,
                      cache_misses[c] # <<>>, cache_misses[parent[c]] # <<>>,
                      ThreadsBelow(c) = ThreadsBelow(parent[c]),
                      LineSize[c] = LineSize[parent[c]],
                      CacheSize[c] <= CacheSize[parent[c]],
                      NEW i \in Threads, NEW d \in Domains
               PROVE  cache_misses[parent[c]][i][d] <= cache_misses[c][i][d]
    BY DEF MissesShrinkTowardsRoot
  <2>1. parent[c] \in Caches
    BY DEF IInv, LoopsInv, Accepted
  <2> DEFINE ws == StringsBelow(c)
             runs == IF warmup THEN 2 ELSE 1
             L == LineSize[c]
             n == NumCacheLines(c)
             m == NumCacheLines(parent[c])
  <2>2. StringsBelow(parent[c]) = ws
    BY DEF StringsBelow
  <2>3. cache_misses[c] = Simulate(c, ws) /\ cache_misses[parent[c]] = Simulate(parent[c], ws)
    BY <2>1, <2>2, AllAreTraced DEF Expected
  <2>4. DOMAIN ws = Threads
    BY DEF StringsBelow
  <2>5. /\ cache_misses[c][i][d] = MissesOf(ws, runs, i, d, n, L)
        /\ cache_misses[parent[c]][i][d] = MissesOf(ws, runs, i, d, m, L)
    BY <2>3, <2>4 DEF Simulate
  <2>6. n \in Int /\ m \in Int /\ n <= m
    <3>1. /\ L \in Nat \ {0} /\ CacheSize[c] \in Nat /\ CacheSize[parent[c]] \in Nat
      BY <2>1, CacheAssumption
    <3>2. /\ n = (CacheSize[c] + (L - 1)) \div L
          /\ m = (CacheSize[parent[c]] + (L - 1)) \div L
      BY DEF NumCacheLines
    <3>3. /\ CacheSize[c] + (L - 1) \in Nat /\ CacheSize[parent[c]] + (L - 1) \in Nat
          /\ CacheSize[c] + (L - 1) <= CacheSize[parent[c]] + (L - 1)
      BY <3>1
    <3>4. QED
      BY <3>1, <3>2, <3>3, QuotientsGrow
  <2>7. /\ \A j \in Threads : ws[j] \in Seq(Nat \X Int)
        /\ \A j \in Threads : Len(ws[j]) \in Nat
    BY StringsAreSequences DEF IInv, StringsBelow
  <2>8. IsFiniteSet(Threads)
    <3>1. 0 \in Int /\ NumThreads - 1 \in Int
      BY ThreadsAssumption
    <3>2. QED
      BY <3>1, FS_Interval DEF Threads
  <2>9. runs \in Nat
    OBVIOUS
  <2> HIDE DEF ws, runs, L, n, m
  <2>10. IsFiniteSet(RefsOf(ws, runs))
    BY <2>4, <2>7, <2>8, <2>9, RefsAreFinite
  <2>11. QED
    BY <2>5, <2>6, <2>7, <2>10, MissesShrink
<1>2. QED
  BY <1>1, Invariance, PTL
=============================================================================
