--------------------------- MODULE SpmvTeam_proofs --------------------------
(***************************************************************************)
(* The threads of a team do not race in any kernel, and every run adds the *)
(* product to y, for every matrix, any number of threads and a team of any *)
(* size: the schedules share out the rows and entries, the barriers keep   *)
(* apart the loops that do not, and an account of what is in each cell and *)
(* what is still to be added to it comes out even at every step.           *)
(***************************************************************************)
EXTENDS SpmvTeam, MatrixFormats_proofs

-----------------------------------------------------------------------------
(* The coordinates of the kernels *)

\* The rows of the coordinates are rows of the matrix.
ValidCoo(coo, mm) ==
  /\ coo.size \in Nat
  /\ \A k \in 0 .. coo.size - 1 : coo.row_index[k] \in Rows(mm)

LEMMA CooOfIsValid ==
  ASSUME NEW mm \in Matrices
  PROVE  ValidCoo(CooOf(mm), mm)
<1>1. CooOf(mm).size = Len(mm.entries)
  BY DEF CooOf
<1>2. \A k \in 0 .. Len(mm.entries) - 1 : CooOf(mm).row_index[k] = mm.entries[k + 1].i - 1
  BY DEF CooOf
<1>3. \A k \in 0 .. Len(mm.entries) - 1 : mm.entries[k + 1].i - 1 \in Rows(mm)
  <2>1. ASSUME NEW k \in 0 .. Len(mm.entries) - 1
        PROVE  mm.entries[k + 1].i - 1 \in Rows(mm)
    <3>1. k + 1 \in DOMAIN mm.entries
      BY MatricesAssumption, EntriesAre
    <3>2. mm.entries[k + 1].i \in 1 .. mm.rows /\ mm.rows \in Nat
      BY <3>1, MatricesAssumption, EntriesAre
    <3>3. QED
      BY <3>2 DEF Rows
  <2>2. QED
    BY <2>1
<1>4. Len(mm.entries) \in Nat
  BY MatricesAssumption, EntriesAre
<1>5. QED
  BY <1>1, <1>2, <1>3, <1>4 DEF ValidCoo

LEMMA HybridCooIsValid ==
  ASSUME NEW mm \in Matrices, NEW skip
  PROVE  ValidCoo(HybridOf(mm, skip).coo, mm)
<1> DEFINE H == HybridOf(mm, skip)
           n == Cardinality(Spilled(mm))
           rest == Ascending(Spilled(mm))
<1>1. IsMatrix(mm)
  BY MatricesAssumption
<1>2. n \in Nat /\ \A k \in 1 .. n : rest[k] \in DOMAIN mm.entries
  <2>1. rest \in [1 .. n -> Spilled(mm)] /\ Spilled(mm) \in SUBSET DOMAIN mm.entries /\ n \in Nat
    BY <1>1, SpilledIs DEF Bijection, Injection
  <2> HIDE DEF rest, n
  <2>2. QED
    BY <2>1
<1>3. \A p \in DOMAIN mm.entries : RowAt(mm, p) \in Rows(mm)
  BY <1>1, SortedFacts
<1>4. H.coo.size = n /\ \A k \in 0 .. n - 1 : H.coo.row_index[k] = RowAt(mm, rest[k + 1])
  <2> DEFINE coo == [size         |-> n,
                     row_index    |-> [k \in 0 .. n - 1 |-> RowAt(mm, rest[k + 1])],
                     column_index |-> [k \in 0 .. n - 1 |-> SortRowMajor(mm)[rest[k + 1]].j - 1],
                     value        |-> [k \in 0 .. n - 1 |-> SortRowMajor(mm)[rest[k + 1]].a]]
  <2>1. H.coo = coo
    BY <1>1, HybridIs
  <2>2. coo.size = n /\ coo.row_index = [k \in 0 .. n - 1 |-> RowAt(mm, rest[k + 1])]
    OBVIOUS
  <2> HIDE DEF n, rest, coo, H
  <2>3. QED
    BY <2>1, <2>2
<1> HIDE DEF n, rest, H
<1>5. \A k \in 0 .. n - 1 : H.coo.row_index[k] \in Rows(mm)
  <2>1. \A k \in 0 .. n - 1 : k + 1 \in 1 .. n
    BY <1>2
  <2>2. QED
    BY <1>2, <1>3, <1>4, <2>1
<1>6. QED
  BY <1>2, <1>4, <1>5 DEF ValidCoo, H

-----------------------------------------------------------------------------
(* The loops of a run and what they update *)

\* What stays as it was chosen, and the extent of the vectors.
OptionsInv ==
  /\ m \in Matrices /\ kernel \in Kernels /\ A = Converted(m, kernel)
  /\ num_threads \in 1 .. MaxThreads /\ team \in 1 .. num_threads
  /\ DOMAIN y = Rows(m) /\ DOMAIN workspace = 0 .. (num_threads * m.rows) - 1

HasCoo == kernel.format \in {"coo", "coo_atomic", "hybrid", "hybrid_skip"}

LEMMA OptionsAre ==
  ASSUME OptionsInv
  PROVE  /\ m.rows \in Nat \ {0} /\ team \in Nat \ {0} /\ num_threads \in Nat \ {0}
         /\ team <= num_threads /\ Team = 0 .. team - 1
         /\ kernel.unroll \in {1, 2, 4}
BY EntriesAre, MatricesAssumption, ThreadsAssumption DEF OptionsInv, Team, Kernels, Csr, Other

LEMMA CooIsValid ==
  ASSUME OptionsInv, HasCoo
  PROVE  ValidCoo(A.coo, m)
<1>1. m \in Matrices /\ A = Converted(m, kernel)
  BY DEF OptionsInv
<1>2. CASE kernel.format \in {"coo", "coo_atomic"}
  <2>1. A.coo = CooOf(m)
    BY <1>1, <1>2 DEF Converted
  <2>2. QED
    BY <1>1, <2>1, CooOfIsValid
<1>3. CASE kernel.format \in {"hybrid", "hybrid_skip"}
  <2>1. A = HybridOf(m, kernel.format = "hybrid_skip")
    BY <1>1, <1>3 DEF Converted
  <2>2. QED
    BY <1>1, <2>1, HybridCooIsValid
<1>4. QED
  BY <1>2, <1>3 DEF HasCoo

\* The kinds of runs there are.
LEMMA LoopForms ==
  ASSUME OptionsInv
  PROVE  \/ Loops = <<"direct">> /\ HasCoo /\ num_threads = 1
         \/ Loops = <<"atomic">> /\ HasCoo
         \/ Loops = <<"partial", "reduce">> /\ HasCoo
         \/ Loops = <<"rows", "direct">> /\ HasCoo /\ num_threads = 1
         \/ Loops = <<"rows", "partial", "reduce">> /\ HasCoo
         \/ Loops = <<"unrolled", "remainder">>
         \/ Loops = <<"rows">>
<1>1. num_threads = 1 \/ num_threads > 1
  BY OptionsAre
<1>2. kernel.format \in {"csr", "ell", "ell_skip"} \/ HasCoo
  BY DEF OptionsInv, Kernels, Csr, Other, HasCoo
<1>3. QED
  BY <1>1, <1>2 DEF Loops, HasCoo

\* The rows of the loop over the rows.
RowsOf(t) == IF kernel.inner = "scalar" THEN Scheduled(m.rows, RowsChunk, team, t)
             ELSE Block(m.rows, team, t)

\* The cells that a thread adds to in a loop, and that a loop reads besides.
Targets(name, t) ==
  CASE name = "partial" -> {Cell("workspace", (t * m.rows) + r) : r \in Rows(m)}
    [] name = "reduce" -> {Cell("y", i) : i \in Scheduled(m.rows, CooChunk, team, t)}
    [] name \in {"direct", "atomic"} -> {Cell("y", i) : i \in Rows(m)}
    [] name = "rows" -> {Cell("y", i) : i \in RowsOf(t)}
    [] name = "unrolled" ->
         {Cell("y", (g * kernel.unroll) + j) :
            g \in Block(Whole \div kernel.unroll, team, t), j \in 0 .. kernel.unroll - 1}
    [] name = "remainder" -> {Cell("y", i) : i \in Whole .. m.rows - 1}

Sources(name) ==
  IF name = "reduce" THEN {Cell("workspace", k) : k \in 0 .. (num_threads * m.rows) - 1}
  ELSE {}

IsList(s) == Len(s) \in Nat /\ s = [n \in 1 .. Len(s) |-> s[n]]

OwnList(name, t, s) ==
  /\ IsList(s)
  /\ \A n \in 1 .. Len(s) : s[n].to \in Targets(name, t) /\ s[n].from \subseteq Sources(name)

LEMMA EmptyIsOwn ==
  ASSUME NEW name, NEW t
  PROVE  OwnList(name, t, <<>>)
BY DEF OwnList, IsList

LEMMA TailIsOwn ==
  ASSUME NEW name, NEW t, NEW s, OwnList(name, t, s), s # <<>>
  PROVE  /\ OwnList(name, t, Tail(s))
         /\ Head(s).to \in Targets(name, t) /\ Head(s).from \subseteq Sources(name)
<1> DEFINE V == {s[n] : n \in 1 .. Len(s)}
<1>1. Len(s) \in Nat /\ s = [n \in 1 .. Len(s) |-> s[n]]
  BY DEF OwnList, IsList
<1>2. s \in Seq(V)
  BY <1>1
<1> HIDE DEF V
<1>3. /\ Len(Tail(s)) = Len(s) - 1 /\ Len(s) \in Nat \ {0}
      /\ \A n \in 1 .. Len(s) - 1 : Tail(s)[n] = s[n + 1]
      /\ Head(s) = s[1] /\ Tail(s) \in Seq(V)
  BY <1>2
<1>4. Tail(s) = [n \in 1 .. Len(Tail(s)) |-> Tail(s)[n]]
  <2> DEFINE u == Tail(s)
  <2>1. u \in Seq(V)
    BY <1>3
  <2> HIDE DEF u
  <2>2. u \in [1 .. Len(u) -> V]
    BY <2>1
  <2>3. u = [n \in 1 .. Len(u) |-> u[n]]
    BY <2>2
  <2>4. QED
    BY <2>3 DEF u
<1>5. QED
  BY <1>3, <1>4 DEF OwnList, IsList

LEMMA ListIsOwn ==
  ASSUME NEW N \in Nat, NEW s, s = [n \in 1 .. N |-> s[n]], NEW name, NEW t,
         \A n \in 1 .. N : s[n].to \in Targets(name, t) /\ s[n].from \subseteq Sources(name)
  PROVE  OwnList(name, t, s)
<1> DEFINE V == {s[n] : n \in 1 .. N}
<1>1. s \in [1 .. N -> V]
  OBVIOUS
<1> HIDE DEF V
<1>2. s \in Seq(V) /\ DOMAIN s = 1 .. N
  BY <1>1
<1>3. Len(s) = N
  BY <1>2
<1>4. QED
  BY <1>3 DEF OwnList, IsList

LEMMA NumberOfUpdates ==
  ASSUME NEW S \in SUBSET Int, IsFiniteSet(S), NEW w \in Nat \ {0}
  PROVE  w * Cardinality(S) \in Nat
<1>1. Cardinality(S) \in Nat
  BY FS_CardinalityType
<1>2. QED
  BY <1>1

LEMMA IntervalIsFinite ==
  ASSUME NEW a \in Int, NEW b \in Int
  PROVE  a .. b \in SUBSET Int /\ IsFiniteSet(a .. b)
BY FS_Interval

LEMMA ScheduledIsFinite ==
  ASSUME NEW n \in Nat, NEW c, NEW T, NEW t
  PROVE  /\ Scheduled(n, c, T, t) \in SUBSET Int /\ IsFiniteSet(Scheduled(n, c, T, t))
         /\ Scheduled(n, c, T, t) \subseteq 0 .. n - 1
<1>1. Scheduled(n, c, T, t) \subseteq 0 .. n - 1
  BY DEF Scheduled
<1>2. IsFiniteSet(0 .. n - 1) /\ 0 .. n - 1 \subseteq Int
  BY FS_Interval
<1>3. QED
  BY <1>1, <1>2, FS_Subset

LEMMA BlockIsFinite ==
  ASSUME NEW n \in Nat, NEW T \in Nat \ {0}, NEW t \in 0 .. T - 1
  PROVE  Block(n, T, t) \in SUBSET Int /\ IsFiniteSet(Block(n, T, t))
<1>1. IsFiniteSet(0 .. n - 1) /\ 0 .. n - 1 \subseteq Int
  BY FS_Interval
<1>2. QED
  BY <1>1, BlockIsWithin, FS_Subset

LEMMA PlaceOfSingle ==
  ASSUME NEW S \in SUBSET Int, IsFiniteSet(S), NEW n \in 1 .. 1 * Cardinality(S)
  PROVE  /\ Ascending(S)[((n - 1) \div 1) + 1] \in S
         /\ ((n - 1) % 1) + 1 = 1
<1>1. ((n - 1) % 1) + 1 \in 1 .. 1
  BY PlaceOfUpdate
<1>2. QED
  BY <1>1, PlaceOfUpdate

\* The updates that a thread is given for a loop are those of its share.
LEMMA PartialIsOwn ==
  ASSUME OptionsInv, HasCoo, NEW t \in Team
  PROVE  OwnList("partial", t, PartialLoop(t))
<1> DEFINE S == Scheduled(A.coo.size, CooChunk, team, t)
           U(k) == <<EntryUpdate(k, Cell("workspace", (t * m.rows) + A.coo.row_index[k]))>>
           s == PartialLoop(t)
<1>1. ValidCoo(A.coo, m)
  BY CooIsValid
<1>2. S \in SUBSET Int /\ IsFiniteSet(S) /\ S \subseteq 0 .. A.coo.size - 1
  BY <1>1, ScheduledIsFinite DEF ValidCoo
<1>3. s = [n \in 1 .. 1 * Cardinality(S) |->
             U(Ascending(S)[((n - 1) \div 1) + 1])[((n - 1) % 1) + 1]]
  BY DEF PartialLoop, InOrder
<1> HIDE DEF S, s
<1>4. ASSUME NEW n \in 1 .. 1 * Cardinality(S)
      PROVE  s[n].to \in Targets("partial", t) /\ s[n].from \subseteq Sources("partial")
  <2>1. PICK k \in S : s[n] = U(k)[1]
    BY <1>2, <1>3, PlaceOfSingle
  <2>2. s[n].to = Cell("workspace", (t * m.rows) + A.coo.row_index[k]) /\ s[n].from = {}
    BY <2>1 DEF EntryUpdate, AddTo
  <2>3. A.coo.row_index[k] \in Rows(m)
    BY <1>1, <1>2 DEF ValidCoo
  <2>4. QED
    BY <2>2, <2>3 DEF Targets
<1>5. 1 * Cardinality(S) \in Nat
  BY <1>2, NumberOfUpdates
<1>6. s = [n \in 1 .. 1 * Cardinality(S) |-> s[n]]
  BY <1>3
<1>7. OwnList("partial", t, s)
  BY <1>4, <1>5, <1>6, ListIsOwn
<1>8. QED
  BY <1>7 DEF s

LEMMA ReduceIsOwn ==
  ASSUME OptionsInv, NEW t \in Team
  PROVE  OwnList("reduce", t, ReduceLoop(t))
<1> DEFINE S == Scheduled(m.rows, CooChunk, team, t)
           s == ReduceLoop(t)
           N == num_threads * Cardinality(S)
<1>1. m.rows \in Nat \ {0} /\ num_threads \in Nat \ {0}
  BY OptionsAre
<1>2. S \in SUBSET Int /\ IsFiniteSet(S) /\ S \subseteq 0 .. m.rows - 1
  BY <1>1, ScheduledIsFinite
<1>3. s = [n \in 1 .. N |->
             ReduceUpdates(Ascending(S)[((n - 1) \div num_threads) + 1])[((n - 1) % num_threads) + 1]]
  BY DEF ReduceLoop, InOrder
<1>4. ASSUME NEW n \in 1 .. N
      PROVE  s[n].to \in Targets("reduce", t) /\ s[n].from \subseteq Sources("reduce")
  <2> HIDE DEF s
  <2>1. PICK i \in S, j \in 1 .. num_threads : s[n] = ReduceUpdates(i)[j]
    <3>1. /\ Ascending(S)[((n - 1) \div num_threads) + 1] \in S
          /\ ((n - 1) % num_threads) + 1 \in 1 .. num_threads
      <4> HIDE DEF S
      <4>1. QED
        BY <1>1, <1>2, PlaceOfUpdate
    <3>2. QED
      BY <1>3, <3>1
  <2>2. s[n].to = Cell("y", i) /\ s[n].from = {Cell("workspace", ((j - 1) * m.rows) + i)}
    BY <2>1 DEF ReduceUpdates
  <2>3. ((j - 1) * m.rows) + i \in 0 .. (num_threads * m.rows) - 1
    <3>1. i \in 0 .. m.rows - 1
      BY <1>2
    <3>2. (j - 1) * m.rows <= (num_threads - 1) * m.rows /\ (j - 1) * m.rows \in Nat
      BY <1>1
    <3>3. (num_threads - 1) * m.rows = (num_threads * m.rows) - m.rows
      BY <1>1
    <3>4. num_threads * m.rows \in Nat
      BY <1>1
    <3>5. QED
      BY <1>1, <3>1, <3>2, <3>3, <3>4
  <2>4. QED
    BY <2>2, <2>3 DEF Targets, Sources
<1> HIDE DEF S, s
<1>5. N \in Nat
  BY <1>1, <1>2, NumberOfUpdates
<1>6. s = [n \in 1 .. N |-> s[n]]
  BY <1>3
<1> HIDE DEF N
<1>7. OwnList("reduce", t, s)
  BY <1>4, <1>5, <1>6, ListIsOwn
<1>8. QED
  BY <1>7 DEF s

LEMMA DirectIsOwn ==
  ASSUME OptionsInv, HasCoo, NEW t \in Team
  PROVE  OwnList("direct", t, DirectLoop)
<1> DEFINE S == 0 .. A.coo.size - 1
           U(k) == <<EntryUpdate(k, Cell("y", A.coo.row_index[k]))>>
           s == DirectLoop
<1>1. ValidCoo(A.coo, m)
  BY CooIsValid
<1>2. S \in SUBSET Int /\ IsFiniteSet(S)
  <2>1. 0 \in Int /\ A.coo.size - 1 \in Int
    BY <1>1 DEF ValidCoo
  <2> HIDE DEF s
  <2>2. QED
    BY <2>1, IntervalIsFinite
<1>3. s = [n \in 1 .. 1 * Cardinality(S) |->
             U(Ascending(S)[((n - 1) \div 1) + 1])[((n - 1) % 1) + 1]]
  BY DEF DirectLoop, InOrder
<1>4. \A k \in S : A.coo.row_index[k] \in Rows(m)
  BY <1>1 DEF ValidCoo
<1> HIDE DEF S, s
<1>5. ASSUME NEW n \in 1 .. 1 * Cardinality(S)
      PROVE  s[n].to \in Targets("direct", t) /\ s[n].from \subseteq Sources("direct")
  <2>1. PICK k \in S : s[n] = U(k)[1]
    BY <1>2, <1>3, PlaceOfSingle
  <2>2. s[n].to = Cell("y", A.coo.row_index[k]) /\ s[n].from = {}
    BY <2>1 DEF EntryUpdate, AddTo
  <2>3. QED
    BY <1>4, <2>2 DEF Targets
<1>6. 1 * Cardinality(S) \in Nat
  BY <1>2, NumberOfUpdates
<1>7. s = [n \in 1 .. 1 * Cardinality(S) |-> s[n]]
  BY <1>3
<1>8. OwnList("direct", t, s)
  BY <1>5, <1>6, <1>7, ListIsOwn
<1>9. QED
  BY <1>8 DEF s

LEMMA AtomicIsOwn ==
  ASSUME OptionsInv, HasCoo, NEW t \in Team
  PROVE  OwnList("atomic", t, AtomicLoop(t))
<1> DEFINE S == Scheduled(A.coo.size, EntriesChunk, team, t)
           U(k) == <<EntryUpdate(k, Cell("y", A.coo.row_index[k]))>>
           s == AtomicLoop(t)
<1>1. ValidCoo(A.coo, m)
  BY CooIsValid
<1>2. S \in SUBSET Int /\ IsFiniteSet(S) /\ S \subseteq 0 .. A.coo.size - 1
  BY <1>1, ScheduledIsFinite DEF ValidCoo
<1>3. s = [n \in 1 .. 1 * Cardinality(S) |->
             U(Ascending(S)[((n - 1) \div 1) + 1])[((n - 1) % 1) + 1]]
  BY DEF AtomicLoop, InOrder
<1>4. \A k \in S : A.coo.row_index[k] \in Rows(m)
  BY <1>1, <1>2 DEF ValidCoo
<1> HIDE DEF S, s
<1>5. ASSUME NEW n \in 1 .. 1 * Cardinality(S)
      PROVE  s[n].to \in Targets("atomic", t) /\ s[n].from \subseteq Sources("atomic")
  <2>1. PICK k \in S : s[n] = U(k)[1]
    BY <1>2, <1>3, PlaceOfSingle
  <2>2. s[n].to = Cell("y", A.coo.row_index[k]) /\ s[n].from = {}
    BY <2>1 DEF EntryUpdate, AddTo
  <2>3. QED
    BY <1>4, <2>2 DEF Targets
<1>6. 1 * Cardinality(S) \in Nat
  BY <1>2, NumberOfUpdates
<1>7. s = [n \in 1 .. 1 * Cardinality(S) |-> s[n]]
  BY <1>3
<1>8. OwnList("atomic", t, s)
  BY <1>5, <1>6, <1>7, ListIsOwn
<1>9. QED
  BY <1>8 DEF s

LEMMA RowsIsOwn ==
  ASSUME OptionsInv, NEW t \in Team
  PROVE  OwnList("rows", t, RowsLoop(t))
<1> DEFINE S == RowsOf(t)
           U(i) == <<RowUpdate(i)>>
           s == RowsLoop(t)
<1>1. m.rows \in Nat /\ team \in Nat \ {0} /\ t \in 0 .. team - 1
  BY OptionsAre
<1>2. S \in SUBSET Int /\ IsFiniteSet(S)
  <2>1. /\ Scheduled(m.rows, RowsChunk, team, t) \in SUBSET Int
        /\ IsFiniteSet(Scheduled(m.rows, RowsChunk, team, t))
    BY <1>1, ScheduledIsFinite
  <2>2. Block(m.rows, team, t) \in SUBSET Int /\ IsFiniteSet(Block(m.rows, team, t))
    BY <1>1, BlockIsFinite
  <2>3. QED
    BY <2>1, <2>2 DEF RowsOf
<1>3. s = [n \in 1 .. 1 * Cardinality(S) |->
             U(Ascending(S)[((n - 1) \div 1) + 1])[((n - 1) % 1) + 1]]
  BY DEF RowsLoop, InOrder, RowsOf
<1>4. \A i : i \in S => Cell("y", i) \in Targets("rows", t)
  BY DEF Targets
<1> HIDE DEF S, s
<1>5. ASSUME NEW n \in 1 .. 1 * Cardinality(S)
      PROVE  s[n].to \in Targets("rows", t) /\ s[n].from \subseteq Sources("rows")
  <2>1. PICK i \in S : s[n] = U(i)[1]
    BY <1>2, <1>3, PlaceOfSingle
  <2>2. s[n].to = Cell("y", i) /\ s[n].from = {}
    BY <2>1 DEF RowUpdate, AddTo
  <2>3. QED
    BY <1>4, <2>2
<1>6. 1 * Cardinality(S) \in Nat
  BY <1>2, NumberOfUpdates
<1>7. s = [n \in 1 .. 1 * Cardinality(S) |-> s[n]]
  BY <1>3
<1>8. OwnList("rows", t, s)
  BY <1>5, <1>6, <1>7, ListIsOwn
<1>9. QED
  BY <1>8 DEF s

LEMMA WholeIs ==
  ASSUME OptionsInv
  PROVE  /\ Whole \in Nat /\ Whole <= m.rows
         /\ Whole \div kernel.unroll \in Nat
         /\ (Whole \div kernel.unroll) * kernel.unroll = Whole
<1> DEFINE r == m.rows
           u == kernel.unroll
<1>1. r \in Nat /\ u \in {1, 2, 4}
  BY OptionsAre
<1>2. Whole = (r \div u) * u
  BY DEF Whole
<1> HIDE DEF r, u
<1>3. CASE u = 1
  BY <1>1, <1>2, <1>3 DEF r, u
<1>4. CASE u = 2
  BY <1>1, <1>2, <1>4 DEF r, u
<1>5. CASE u = 4
  BY <1>1, <1>2, <1>5 DEF r, u
<1>6. QED
  BY <1>1, <1>3, <1>4, <1>5

LEMMA UnrolledIsOwn ==
  ASSUME OptionsInv, NEW t \in Team
  PROVE  OwnList("unrolled", t, UnrolledLoop(t))
<1> DEFINE S == Block(Whole \div kernel.unroll, team, t)
           w == kernel.unroll
           s == UnrolledLoop(t)
           N == w * Cardinality(S)
<1>1. w \in Nat \ {0} /\ team \in Nat \ {0} /\ t \in 0 .. team - 1
  BY OptionsAre
<1>2. S \in SUBSET Int /\ IsFiniteSet(S)
  BY <1>1, WholeIs, BlockIsFinite
<1>3. s = [n \in 1 .. N |->
             UnrolledUpdates(Ascending(S)[((n - 1) \div w) + 1])[((n - 1) % w) + 1]]
  BY DEF UnrolledLoop, InOrder
<1>4. \A g, j : g \in S /\ j \in 0 .. w - 1 => Cell("y", (g * w) + j) \in Targets("unrolled", t)
  BY DEF Targets
<1>5. ASSUME NEW n \in 1 .. N
      PROVE  s[n].to \in Targets("unrolled", t) /\ s[n].from \subseteq Sources("unrolled")
  <2> HIDE DEF s
  <2>1. PICK g \in S, j \in 1 .. w : s[n] = UnrolledUpdates(g)[j]
    <3>1. /\ Ascending(S)[((n - 1) \div w) + 1] \in S
          /\ ((n - 1) % w) + 1 \in 1 .. w
      <4> HIDE DEF S, w
      <4>1. QED
        BY <1>1, <1>2, PlaceOfUpdate DEF N
    <3>2. QED
      BY <1>3, <3>1
  <2>2. s[n].to = Cell("y", (g * w) + (j - 1)) /\ s[n].from = {}
    BY <2>1 DEF UnrolledUpdates, RowUpdate, AddTo
  <2>3. j - 1 \in 0 .. w - 1
    BY <1>1
  <2>4. QED
    BY <1>4, <2>2, <2>3
<1> HIDE DEF S, s, w
<1>6. N \in Nat
  BY <1>1, <1>2, NumberOfUpdates
<1>7. s = [n \in 1 .. N |-> s[n]]
  BY <1>3
<1> HIDE DEF N
<1>8. OwnList("unrolled", t, s)
  BY <1>5, <1>6, <1>7, ListIsOwn
<1>9. QED
  BY <1>8 DEF s

LEMMA RemainderIsOwn ==
  ASSUME OptionsInv, NEW t \in Team
  PROVE  OwnList("remainder", t, RemainderLoop)
<1> DEFINE S == Whole .. m.rows - 1
           U(i) == <<RowUpdate(i)>>
           s == RemainderLoop
<1>1. S \in SUBSET Int /\ IsFiniteSet(S)
  <2>1. Whole \in Int /\ m.rows - 1 \in Int
    BY WholeIs, OptionsAre
  <2> HIDE DEF s
  <2>2. QED
    BY <2>1, IntervalIsFinite
<1>2. s = [n \in 1 .. 1 * Cardinality(S) |->
             U(Ascending(S)[((n - 1) \div 1) + 1])[((n - 1) % 1) + 1]]
  BY DEF RemainderLoop, InOrder
<1>3. \A i : i \in S => Cell("y", i) \in Targets("remainder", t)
  BY DEF Targets
<1> HIDE DEF S, s
<1>4. ASSUME NEW n \in 1 .. 1 * Cardinality(S)
      PROVE  s[n].to \in Targets("remainder", t) /\ s[n].from \subseteq Sources("remainder")
  <2>1. PICK i \in S : s[n] = U(i)[1]
    BY <1>1, <1>2, PlaceOfSingle
  <2>2. s[n].to = Cell("y", i) /\ s[n].from = {}
    BY <2>1 DEF RowUpdate, AddTo
  <2>3. QED
    BY <1>3, <2>2
<1>5. 1 * Cardinality(S) \in Nat
  BY <1>1, NumberOfUpdates
<1>6. s = [n \in 1 .. 1 * Cardinality(S) |-> s[n]]
  BY <1>2
<1>7. OwnList("remainder", t, s)
  BY <1>4, <1>5, <1>6, ListIsOwn
<1>8. QED
  BY <1>7 DEF s

LEMMA UpdatesAreOwn ==
  ASSUME OptionsInv, NEW l \in 1 .. Len(Loops), NEW t \in Team
  PROVE  OwnList(Loops[l], t, Updates(Loops[l], t))
<1> DEFINE name == Loops[l]
<1>1. \/ name \in {"partial", "direct", "atomic"} /\ HasCoo
      \/ name \in {"reduce", "rows", "unrolled", "remainder"}
  BY LoopForms
<1> HIDE DEF name
<1>2. CASE name = "partial"
  BY <1>1, <1>2, PartialIsOwn DEF Updates, name
<1>3. CASE name = "direct"
  BY <1>1, <1>3, DirectIsOwn DEF Updates, name
<1>4. CASE name = "atomic"
  BY <1>1, <1>4, AtomicIsOwn DEF Updates, name
<1>5. CASE name = "reduce"
  BY <1>5, ReduceIsOwn DEF Updates, name
<1>6. CASE name = "rows"
  BY <1>6, RowsIsOwn DEF Updates, name
<1>7. CASE name = "unrolled"
  BY <1>7, UnrolledIsOwn DEF Updates, name
<1>8. CASE name = "remainder"
  BY <1>8, RemainderIsOwn DEF Updates, name
<1>9. QED
  BY <1>1, <1>2, <1>3, <1>4, <1>5, <1>6, <1>7, <1>8
-----------------------------------------------------------------------------
(* The inductive invariant *)

TypesInv ==
  /\ run \in 0 .. Runs /\ single \in Team \cup {NoThread}
  /\ loop \in [Team -> 1 .. EndOfRun] /\ waiting \in [Team -> BOOLEAN]
  /\ DOMAIN todo = Team

\* A thread waits with its share done, at the end of the run or of a loop with
\* a barrier; only the one that took the single construct has updates of it.
WaitsInv ==
  \A t \in Team :
    /\ loop[t] = EndOfRun => waiting[t]
    /\ waiting[t] => todo[t] = <<>>
    /\ waiting[t] /\ loop[t] # EndOfRun => EndsInBarrier(Loops[loop[t]])
    /\ loop[t] # EndOfRun /\ Loops[loop[t]] = "remainder" /\ todo[t] # <<>> => single = t

\* No thread is past a barrier that another has still to come to.
BarriersInv ==
  \A t, u \in Team : \A l \in loop[t] .. loop[u] - 1 : ~ EndsInBarrier(Loops[l])

\* What a thread has left of a loop is of its own share.
SharesInv ==
  \A t \in Team : loop[t] # EndOfRun =>
    \A name \in {Loops[loop[t]]}, s \in {todo[t]} : OwnList(name, t, s)

IInv == OptionsInv /\ TypesInv /\ WaitsInv /\ BarriersInv /\ SharesInv

LEMMA LoopsAre ==
  ASSUME OptionsInv
  PROVE  /\ Len(Loops) \in Nat \ {0} /\ EndOfRun = Len(Loops) + 1
         /\ \A l \in 1 .. Len(Loops) :
              Loops[l] = "remainder" => l > 1 /\ ~ EndsInBarrier(Loops[l - 1])
<1>1. CASE Loops = <<"unrolled", "remainder">>
  BY <1>1 DEF EndsInBarrier, EndOfRun
<1>2. CASE Loops # <<"unrolled", "remainder">>
  <2>1. /\ Len(Loops) \in {1, 2, 3}
        /\ \A l \in 1 .. Len(Loops) : Loops[l] # "remainder"
    BY <1>2, LoopForms
  <2>2. QED
    BY <2>1 DEF EndOfRun
<1>3. QED
  BY <1>1, <1>2

\* All of this follows from what no step changes.
LEMMA OptionsStay ==
  ASSUME OptionsInv, UNCHANGED options, DOMAIN y' = DOMAIN y, DOMAIN workspace' = DOMAIN workspace
  PROVE  /\ OptionsInv' /\ Team' = Team /\ Loops' = Loops /\ EndOfRun' = EndOfRun
         /\ \A name, t, s : OwnList(name, t, s)' <=> OwnList(name, t, s)
<1>1. m' = m /\ A' = A /\ kernel' = kernel /\ num_threads' = num_threads /\ team' = team
  BY DEF options
<1>2. OptionsInv'
  BY <1>1 DEF OptionsInv
<1>3. Team' = Team /\ Loops' = Loops /\ EndOfRun' = EndOfRun
  BY <1>1 DEF Team, Loops, EndOfRun
<1>4. Whole' = Whole /\ CooChunk' = CooChunk /\ RowsChunk' = RowsChunk
  BY <1>1 DEF Whole, CooChunk, EntriesChunk, HybridChunk, RowsChunk
<1>5. ASSUME NEW name, NEW t
      PROVE  Targets(name, t)' = Targets(name, t) /\ Sources(name)' = Sources(name)
  <2>1. RowsOf(t)' = RowsOf(t)
    BY <1>1, <1>4 DEF RowsOf
  <2>2. QED
    BY <1>1, <1>4, <2>1 DEF Targets, Sources
<1>6. \A name, t, s : OwnList(name, t, s)' <=> OwnList(name, t, s)
  BY <1>5 DEF OwnList
<1>7. QED
  BY <1>2, <1>3, <1>6

LEMMA InitEstablishes ==
  ASSUME Init
  PROVE  IInv
<1>1. OptionsInv
  BY DEF Init, OptionsInv
<1>2. EndOfRun \in Nat \ {0} /\ EndOfRun \in 1 .. EndOfRun
  BY <1>1, LoopsAre
<1>3. \A t \in Team : loop[t] = EndOfRun /\ waiting[t] = TRUE /\ todo[t] = <<>>
  BY DEF Init
<1>4. TypesInv
  BY <1>2, ThreadsAssumption DEF Init, TypesInv
<1>5. WaitsInv
  BY <1>3 DEF WaitsInv
<1>6. BarriersInv
  <2>1. \A t, u \in Team : loop[t] = EndOfRun /\ loop[u] = EndOfRun
    BY <1>3
  <2>2. \A t, u \in Team : loop[t] .. loop[u] - 1 = {}
    BY <1>2, <2>1
  <2>3. QED
    BY <2>2 DEF BarriersInv
<1>7. SharesInv
  BY <1>3 DEF SharesInv
<1>8. QED
  BY <1>1, <1>4, <1>5, <1>6, <1>7 DEF IInv

\* A step that changes sums, or nothing.
LEMMA SumsPreserve ==
  ASSUME IInv, UNCHANGED <<options, run, loop, todo, waiting, single>>,
         DOMAIN y' = DOMAIN y, DOMAIN workspace' = DOMAIN workspace
  PROVE  IInv'
<1>1. /\ run' = run /\ loop' = loop /\ todo' = todo /\ waiting' = waiting /\ single' = single
      /\ UNCHANGED options
  OBVIOUS
<1>2. /\ OptionsInv' /\ Team' = Team /\ Loops' = Loops /\ EndOfRun' = EndOfRun
      /\ \A name, t, s : OwnList(name, t, s)' <=> OwnList(name, t, s)
  BY <1>1, OptionsStay DEF IInv
<1>3. TypesInv'
  BY <1>1, <1>2 DEF IInv, TypesInv
<1>4. WaitsInv'
  BY <1>1, <1>2 DEF IInv, WaitsInv, EndsInBarrier
<1>5. BarriersInv'
  BY <1>1, <1>2 DEF IInv, BarriersInv, EndsInBarrier
<1>6. SharesInv'
  BY <1>1, <1>2 DEF IInv, SharesInv
<1>7. QED
  BY <1>2, <1>3, <1>4, <1>5, <1>6 DEF IInv

LEMMA StoreKeepsExtent ==
  ASSUME NEW cell, NEW sum, Store(cell, sum)
  PROVE  DOMAIN y' = DOMAIN y /\ DOMAIN workspace' = DOMAIN workspace
BY DEF Store

\* A step that makes the next update of a thread.
LEMMA UpdatePreserves ==
  ASSUME IInv, NEW t \in Team, Working(t), todo' = [todo EXCEPT ![t] = Tail(@)],
         UNCHANGED <<options, run, loop, waiting, single>>,
         DOMAIN y' = DOMAIN y, DOMAIN workspace' = DOMAIN workspace
  PROVE  IInv'
<1>1. /\ run' = run /\ loop' = loop /\ waiting' = waiting /\ single' = single
      /\ UNCHANGED options
  OBVIOUS
<1>2. /\ OptionsInv' /\ Team' = Team /\ Loops' = Loops /\ EndOfRun' = EndOfRun
      /\ \A name, u, s : OwnList(name, u, s)' <=> OwnList(name, u, s)
  BY <1>1, OptionsStay DEF IInv
<1>3. /\ DOMAIN todo' = Team /\ todo'[t] = Tail(todo[t])
      /\ \A u \in Team : u # t => todo'[u] = todo[u]
  BY DEF IInv, TypesInv
<1>4. TypesInv'
  BY <1>1, <1>2, <1>3 DEF IInv, TypesInv
<1>5. WaitsInv'
  <2>1. ASSUME NEW u \in Team
        PROVE  /\ loop[u] = EndOfRun => waiting[u]
               /\ waiting[u] => todo'[u] = <<>>
               /\ waiting[u] /\ loop[u] # EndOfRun => EndsInBarrier(Loops[loop[u]])
               /\ loop[u] # EndOfRun /\ Loops[loop[u]] = "remainder" /\ todo'[u] # <<>> => single = u
    <3>1. CASE u = t
      BY <1>3, <3>1 DEF IInv, WaitsInv, Working
    <3>2. CASE u # t
      BY <1>3, <3>2 DEF IInv, WaitsInv
    <3>3. QED
      BY <3>1, <3>2
  <2>2. QED
    BY <1>1, <1>2, <2>1 DEF WaitsInv, EndsInBarrier
<1>6. BarriersInv'
  BY <1>1, <1>2 DEF IInv, BarriersInv, EndsInBarrier
<1>7. SharesInv'
  <2>1. ASSUME NEW u \in Team, loop[u] # EndOfRun
        PROVE  OwnList(Loops[loop[u]], u, todo'[u])
    <3>1. OwnList(Loops[loop[u]], u, todo[u])
      BY <2>1 DEF IInv, SharesInv
    <3>2. CASE u = t
      BY <1>3, <3>1, <3>2, TailIsOwn DEF Working
    <3>3. CASE u # t
      BY <1>3, <3>1, <3>3
    <3>4. QED
      BY <3>2, <3>3
  <2>2. QED
    BY <1>1, <1>2, <2>1 DEF SharesInv
<1>8. QED
  BY <1>2, <1>4, <1>5, <1>6, <1>7 DEF IInv

LEMMA ArrivePreserves ==
  ASSUME IInv, NEW t \in Team, Arrive(t)
  PROVE  IInv'
<1>1. /\ run' = run /\ loop' = loop /\ todo' = todo /\ single' = single
      /\ UNCHANGED options /\ y' = y /\ workspace' = workspace
      /\ ~ waiting[t] /\ todo[t] = <<>> /\ EndsInBarrier(Loops[loop[t]])
      /\ waiting' = [waiting EXCEPT ![t] = TRUE]
  BY DEF Arrive
<1>2. /\ OptionsInv' /\ Team' = Team /\ Loops' = Loops /\ EndOfRun' = EndOfRun
      /\ \A name, u, s : OwnList(name, u, s)' <=> OwnList(name, u, s)
  BY <1>1, OptionsStay DEF IInv
<1>3. waiting \in [Team -> BOOLEAN]
  BY DEF IInv, TypesInv
<1>4. waiting' \in [Team -> BOOLEAN] /\ waiting'[t] /\ \A u \in Team : u # t => waiting'[u] = waiting[u]
  BY <1>1, <1>3
<1>5. TypesInv'
  BY <1>1, <1>2, <1>4 DEF IInv, TypesInv
<1>6. WaitsInv'
  <2>1. ASSUME NEW u \in Team
        PROVE  /\ loop[u] = EndOfRun => waiting'[u]
               /\ waiting'[u] => todo[u] = <<>>
               /\ waiting'[u] /\ loop[u] # EndOfRun => EndsInBarrier(Loops[loop[u]])
               /\ loop[u] # EndOfRun /\ Loops[loop[u]] = "remainder" /\ todo[u] # <<>> => single = u
    <3>1. CASE u = t
      BY <1>1, <1>4, <3>1
    <3>2. CASE u # t
      BY <1>4, <3>2 DEF IInv, WaitsInv
    <3>3. QED
      BY <3>1, <3>2
  <2>2. QED
    BY <1>1, <1>2, <2>1 DEF WaitsInv, EndsInBarrier
<1>7. BarriersInv'
  BY <1>1, <1>2 DEF IInv, BarriersInv, EndsInBarrier
<1>8. SharesInv'
  BY <1>1, <1>2 DEF IInv, SharesInv
<1>9. QED
  BY <1>2, <1>5, <1>6, <1>7, <1>8 DEF IInv

LEMMA GoOnPreserves ==
  ASSUME IInv, NEW t \in Team, GoOn(t)
  PROVE  IInv'
<1> DEFINE next == loop[t] + 1
           entered == next # EndOfRun
           taken == entered /\ Takes(t, Loops[next])
<1>1. /\ run' = run /\ UNCHANGED options /\ y' = y /\ workspace' = workspace
      /\ ~ waiting[t] /\ todo[t] = <<>> /\ ~ EndsInBarrier(Loops[loop[t]])
      /\ loop' = [loop EXCEPT ![t] = next]
      /\ waiting' = [waiting EXCEPT ![t] = ~ entered]
      /\ todo' = IF taken THEN [todo EXCEPT ![t] = Updates(Loops[next], t)] ELSE todo
      /\ single' = IF taken /\ Loops[next] = "remainder" THEN t ELSE single
  BY DEF GoOn
<1>2. /\ OptionsInv' /\ Team' = Team /\ Loops' = Loops /\ EndOfRun' = EndOfRun
      /\ \A name, u, s : OwnList(name, u, s)' <=> OwnList(name, u, s)
  BY <1>1, OptionsStay DEF IInv
<1>3. /\ loop \in [Team -> 1 .. EndOfRun] /\ waiting \in [Team -> BOOLEAN]
      /\ DOMAIN todo = Team /\ single \in Team \cup {NoThread}
  BY DEF IInv, TypesInv
<1>4. loop[t] # EndOfRun
  BY <1>1 DEF IInv, WaitsInv
<1>5. /\ Len(Loops) \in Nat \ {0} /\ EndOfRun = Len(Loops) + 1
      /\ loop[t] \in 1 .. Len(Loops) /\ next \in 1 .. EndOfRun
      /\ entered => next \in 1 .. Len(Loops)
  BY <1>3, <1>4, LoopsAre DEF IInv
<1>6. /\ loop' \in [Team -> 1 .. EndOfRun] /\ loop'[t] = next
      /\ \A u \in Team : u # t => loop'[u] = loop[u]
  BY <1>1, <1>3, <1>5
<1>7. /\ waiting' \in [Team -> BOOLEAN] /\ (waiting'[t] <=> ~ entered)
      /\ \A u \in Team : u # t => waiting'[u] = waiting[u]
  BY <1>1, <1>3
<1>8. /\ DOMAIN todo' = Team /\ todo'[t] = IF taken THEN Updates(Loops[next], t) ELSE <<>>
      /\ \A u \in Team : u # t => todo'[u] = todo[u]
  BY <1>1, <1>3
<1> HIDE DEF next, entered, taken
<1>9. TypesInv'
  <2>1. single' \in Team \cup {NoThread}
    BY <1>1, <1>3
  <2>2. run' \in 0 .. Runs
    BY <1>1 DEF IInv, TypesInv
  <2>3. QED
    BY <1>2, <1>6, <1>7, <1>8, <2>1, <2>2 DEF TypesInv
<1>10. WaitsInv'
  <2>1. ASSUME NEW u \in Team
        PROVE  /\ loop'[u] = EndOfRun => waiting'[u]
               /\ waiting'[u] => todo'[u] = <<>>
               /\ waiting'[u] /\ loop'[u] # EndOfRun => EndsInBarrier(Loops[loop'[u]])
               /\ (loop'[u] # EndOfRun /\ Loops[loop'[u]] = "remainder" /\ todo'[u] # <<>>)
                    => single' = u
    <3>1. CASE u = t
      <4>1. loop'[t] = EndOfRun <=> ~ entered
        BY <1>6 DEF entered
      <4>2. todo'[t] # <<>> => taken
        BY <1>8
      <4>3. taken => entered
        BY DEF taken
      <4>4. taken /\ Loops[next] = "remainder" => single' = t
        BY <1>1
      <4>5. QED
        BY <1>6, <1>7, <3>1, <4>1, <4>2, <4>3, <4>4
    <3>2. CASE u # t
      <4>1. /\ loop'[u] = loop[u] /\ waiting'[u] = waiting[u] /\ todo'[u] = todo[u]
        BY <1>6, <1>7, <1>8, <3>2
      <4>2. /\ loop[u] = EndOfRun => waiting[u]
            /\ waiting[u] => todo[u] = <<>>
            /\ waiting[u] /\ loop[u] # EndOfRun => EndsInBarrier(Loops[loop[u]])
            /\ (loop[u] # EndOfRun /\ Loops[loop[u]] = "remainder" /\ todo[u] # <<>>)
                 => single = u
        BY DEF IInv, WaitsInv
      <4>3. single = u => single' = u
        <5>1. single = u => single # NoThread
          BY OptionsAre DEF NoThread, IInv
        <5>2. QED
          BY <1>1, <5>1 DEF taken, Takes
      <4>4. QED
        BY <4>1, <4>2, <4>3
    <3>3. QED
      BY <3>1, <3>2
  <2>2. QED
    BY <1>2, <2>1 DEF WaitsInv, EndsInBarrier
<1>11. BarriersInv'
  <2>1. ASSUME NEW u \in Team, NEW v \in Team, NEW l \in loop'[u] .. loop'[v] - 1
        PROVE  ~ EndsInBarrier(Loops[l])
    <3>1. /\ loop[u] \in Int /\ loop[v] \in Int /\ loop[t] \in Int /\ next = loop[t] + 1
          /\ l \in Int /\ loop'[u] <= l /\ l < loop'[v] /\ loop'[u] \in Int /\ loop'[v] \in Int
      BY <1>3, <1>6 DEF next
    <3>2. CASE v = t /\ u = t
      BY <3>1, <3>2
    <3>3. CASE v = t /\ u # t
      <4>1. l = loop[t] \/ l \in loop[u] .. loop[t] - 1
        BY <1>6, <3>1, <3>3
      <4>2. QED
        BY <1>1, <4>1 DEF IInv, BarriersInv
    <3>4. CASE v # t
      <4>1. l \in loop[u] .. loop[v] - 1
        BY <1>6, <3>1, <3>4
      <4>2. QED
        BY <4>1 DEF IInv, BarriersInv
    <3>5. QED
      BY <3>2, <3>3, <3>4
  <2>2. QED
    BY <1>2, <2>1 DEF BarriersInv, EndsInBarrier
<1>12. SharesInv'
  <2>1. ASSUME NEW u \in Team, loop'[u] # EndOfRun
        PROVE  OwnList(Loops[loop'[u]], u, todo'[u])
    <3>1. CASE u = t
      <4>1. next \in 1 .. Len(Loops)
        BY <1>5, <1>6, <2>1, <3>1 DEF entered
      <4>2. OwnList(Loops[next], t, Updates(Loops[next], t))
        BY <4>1, UpdatesAreOwn DEF IInv
      <4>3. OwnList(Loops[next], t, <<>>)
        BY EmptyIsOwn
      <4>4. QED
        BY <1>6, <1>8, <3>1, <4>2, <4>3
    <3>2. CASE u # t
      <4>1. loop'[u] = loop[u] /\ todo'[u] = todo[u]
        BY <1>6, <1>8, <3>2
      <4>2. QED
        BY <2>1, <4>1 DEF IInv, SharesInv
    <3>3. QED
      BY <3>1, <3>2
  <2>2. QED
    BY <1>2, <2>1 DEF SharesInv
<1>13. QED
  BY <1>2, <1>9, <1>10, <1>11, <1>12 DEF IInv

\* The whole team goes to a loop, or to the end of the run.
LEMMA TeamPreserves ==
  ASSUME IInv, NEW next \in 1 .. EndOfRun,
         loop' = [t \in Team |-> next], waiting' = [t \in Team |-> next = EndOfRun],
         DOMAIN todo' = Team,
         \A t \in Team : todo'[t] = IF next = EndOfRun THEN <<>> ELSE Updates(Loops[next], t),
         next # EndOfRun => Loops[next] # "remainder",
         run' \in 0 .. Runs, single' \in Team \cup {NoThread},
         UNCHANGED <<options, y, workspace>>
  PROVE  IInv'
<1>1. UNCHANGED options /\ y' = y /\ workspace' = workspace
  OBVIOUS
<1>2. /\ OptionsInv' /\ Team' = Team /\ Loops' = Loops /\ EndOfRun' = EndOfRun
      /\ \A name, u, s : OwnList(name, u, s)' <=> OwnList(name, u, s)
  BY <1>1, OptionsStay DEF IInv
<1>3. Len(Loops) \in Nat \ {0} /\ EndOfRun = Len(Loops) + 1 /\ next \in Int
  BY LoopsAre DEF IInv
<1>4. \A t \in Team : loop'[t] = next /\ (waiting'[t] <=> next = EndOfRun)
  OBVIOUS
<1>5. loop' \in [Team -> 1 .. EndOfRun] /\ waiting' \in [Team -> BOOLEAN]
  OBVIOUS
<1>6. TypesInv'
  BY <1>2, <1>5 DEF TypesInv
<1>7. WaitsInv'
  BY <1>2, <1>4 DEF WaitsInv
<1>8. BarriersInv'
  <2>1. \A t, u \in Team : loop'[t] .. loop'[u] - 1 = {}
    BY <1>3, <1>4
  <2>2. QED
    BY <1>2, <2>1 DEF BarriersInv
<1>9. SharesInv'
  <2>1. ASSUME NEW u \in Team, next # EndOfRun
        PROVE  OwnList(Loops[next], u, todo'[u])
    <3>1. next \in 1 .. Len(Loops)
      BY <1>3, <2>1
    <3>2. QED
      BY <2>1, <3>1, UpdatesAreOwn DEF IInv
  <2>2. QED
    BY <1>2, <1>4, <2>1 DEF SharesInv
<1>10. QED
  BY <1>2, <1>6, <1>7, <1>8, <1>9 DEF IInv

LEMMA LeaveLoopPreserves ==
  ASSUME IInv, LeaveLoop
  PROVE  IInv'
<1> DEFINE next == loop[0] + 1
<1>1. 0 \in Team
  BY OptionsAre DEF IInv
<1>2. /\ loop \in [Team -> 1 .. EndOfRun] /\ DOMAIN todo = Team
      /\ run \in 0 .. Runs /\ single \in Team \cup {NoThread}
  BY DEF IInv, TypesInv
<1>3. waiting[0] /\ loop[0] < EndOfRun /\ \A t \in Team : waiting[t]
  BY <1>1 DEF LeaveLoop
<1>4. /\ Len(Loops) \in Nat \ {0} /\ EndOfRun = Len(Loops) + 1
      /\ \A l \in 1 .. Len(Loops) :
           Loops[l] = "remainder" => l > 1 /\ ~ EndsInBarrier(Loops[l - 1])
  BY LoopsAre DEF IInv
<1>5. loop[0] \in 1 .. Len(Loops) /\ next \in 1 .. EndOfRun /\ next - 1 = loop[0]
  BY <1>1, <1>2, <1>3, <1>4
<1>6. next # EndOfRun => Loops[next] # "remainder"
  <2>1. EndsInBarrier(Loops[loop[0]])
    BY <1>1, <1>3, <1>4, <1>5 DEF IInv, WaitsInv
  <2>2. next # EndOfRun => next \in 1 .. Len(Loops)
    BY <1>4, <1>5
  <2>3. QED
    BY <1>4, <1>5, <2>1, <2>2
<1>7. \A t \in Team : todo[t] = <<>>
  BY <1>3 DEF IInv, WaitsInv
<1>8. /\ loop' = [t \in Team |-> next] /\ waiting' = [t \in Team |-> next = EndOfRun]
      /\ todo' = IF next = EndOfRun THEN todo ELSE [t \in Team |-> Updates(Loops[next], t)]
      /\ UNCHANGED <<options, run, tmp, single, y, workspace>>
  BY DEF LeaveLoop
<1> HIDE DEF next
<1>9. /\ DOMAIN todo' = Team
      /\ \A t \in Team : todo'[t] = IF next = EndOfRun THEN <<>> ELSE Updates(Loops[next], t)
  BY <1>2, <1>7, <1>8
<1>10. /\ run' \in 0 .. Runs /\ single' \in Team \cup {NoThread}
       /\ UNCHANGED <<options, y, workspace>>
  BY <1>2, <1>8
<1>11. QED
  BY <1>5, <1>6, <1>8, <1>9, <1>10, TeamPreserves

LEMMA StartRunPreserves ==
  ASSUME IInv, StartRun
  PROVE  IInv'
<1>1. /\ Len(Loops) \in Nat \ {0} /\ EndOfRun = Len(Loops) + 1
      /\ \A l \in 1 .. Len(Loops) :
           Loops[l] = "remainder" => l > 1 /\ ~ EndsInBarrier(Loops[l - 1])
  BY LoopsAre DEF IInv
<1>2. 1 \in 1 .. EndOfRun /\ EndOfRun # 1 /\ 1 \in 1 .. Len(Loops)
  BY <1>1
<1>3. Loops[1] # "remainder"
  BY <1>1, <1>2
<1>4. /\ loop' = [t \in Team |-> 1] /\ waiting' = [t \in Team |-> FALSE]
      /\ todo' = [t \in Team |-> Updates(Loops[1], t)] /\ single' = NoThread
      /\ run < Runs /\ run' = run + 1 /\ UNCHANGED <<options, y, workspace>>
  BY DEF StartRun
<1>5. waiting' = [t \in Team |-> 1 = EndOfRun]
  BY <1>2, <1>4
<1>6. /\ DOMAIN todo' = Team
      /\ \A t \in Team : todo'[t] = IF 1 = EndOfRun THEN <<>> ELSE Updates(Loops[1], t)
  BY <1>2, <1>4
<1>7. run' \in 0 .. Runs
  BY <1>4, ThreadsAssumption DEF IInv, TypesInv
<1>8. QED
  BY <1>2, <1>3, <1>4, <1>5, <1>6, <1>7, TeamPreserves

LEMMA NextPreserves ==
  ASSUME IInv, [Next]_vars
  PROVE  IInv'
<1>1. ASSUME NEW t \in Team, LoadSum(t)
      PROVE  IInv'
  <2>1. UNCHANGED <<options, run, loop, todo, waiting, single>> /\ y' = y /\ workspace' = workspace
    BY <1>1 DEF LoadSum
  <2>2. QED
    BY <2>1, SumsPreserve
<1>2. ASSUME NEW t \in Team, StoreSum(t)
      PROVE  IInv'
  <2>1. /\ Working(t) /\ todo' = [todo EXCEPT ![t] = Tail(@)]
        /\ UNCHANGED <<options, run, loop, waiting, single>>
        /\ Store(Current(t).to, tmp[t][1])
    BY <1>2 DEF StoreSum
  <2>2. QED
    BY <2>1, StoreKeepsExtent, UpdatePreserves
<1>3. ASSUME NEW t \in Team, AtomicUpdate(t)
      PROVE  IInv'
  <2>1. /\ Working(t) /\ todo' = [todo EXCEPT ![t] = Tail(@)]
        /\ UNCHANGED <<options, run, loop, waiting, single>>
        /\ Store(Current(t).to, SumFor(t))
    BY <1>3 DEF AtomicUpdate
  <2>2. QED
    BY <2>1, StoreKeepsExtent, UpdatePreserves
<1>4. CASE UNCHANGED vars
  <2>1. UNCHANGED <<options, run, loop, todo, waiting, single>> /\ y' = y /\ workspace' = workspace
    BY <1>4 DEF vars, progress
  <2>2. QED
    BY <2>1, SumsPreserve
<1>5. QED
  BY <1>1, <1>2, <1>3, <1>4, ArrivePreserves, GoOnPreserves, LeaveLoopPreserves,
     StartRunPreserves DEF Next, Step

THEOREM Invariance == Spec => []IInv
<1>1. Init => IInv
  BY InitEstablishes
<1>2. IInv /\ [Next]_vars => IInv'
  BY NextPreserves
<1>3. QED
  BY <1>1, <1>2, PTL DEF Spec

-----------------------------------------------------------------------------
(* The shares of different threads *)

\* The rows of the groups are the rows before Whole, each of one group.
LEMMA GroupIsWhole ==
  ASSUME OptionsInv, NEW t \in Team, NEW g \in Block(Whole \div kernel.unroll, team, t),
         NEW j \in 0 .. kernel.unroll - 1
  PROVE  g \in Nat /\ (g * kernel.unroll) + j \in 0 .. Whole - 1
<1> DEFINE u == kernel.unroll
           groups == Whole \div u
<1>1. u \in {1, 2, 4} /\ team \in Nat \ {0} /\ t \in 0 .. team - 1
  BY OptionsAre
<1>2. groups \in Nat /\ Whole \in Nat /\ groups * u = Whole
  BY WholeIs
<1>3. g \in 0 .. groups - 1
  <2> HIDE DEF groups
  <2>1. QED
    BY <1>1, <1>2, BlockIsWithin DEF groups
<1> HIDE DEF groups, u
<1>4. j \in 0 .. u - 1
  BY DEF u
<1>5. CASE u = 1
  BY <1>2, <1>3, <1>4, <1>5 DEF u
<1>6. CASE u = 2
  BY <1>2, <1>3, <1>4, <1>6 DEF u
<1>7. CASE u = 4
  BY <1>2, <1>3, <1>4, <1>7 DEF u
<1>8. QED
  BY <1>1, <1>5, <1>6, <1>7

LEMMA UnrolledApart ==
  ASSUME OptionsInv, NEW t \in Team, NEW u \in Team, t # u
  PROVE  Targets("unrolled", t) \cap Targets("unrolled", u) = {}
<1> DEFINE w == kernel.unroll
           groups == Whole \div w
<1>1. groups \in Nat /\ team \in Nat \ {0} /\ t \in 0 .. team - 1 /\ u \in 0 .. team - 1
      /\ w \in {1, 2, 4}
  BY OptionsAre, WholeIs
<1>2. Block(groups, team, t) \cap Block(groups, team, u) = {}
  BY <1>1, BlocksDiffer
<1>3. ASSUME NEW g \in Block(groups, team, t), NEW j \in 0 .. w - 1,
             NEW h \in Block(groups, team, u), NEW k \in 0 .. w - 1
      PROVE  Cell("y", (g * w) + j) # Cell("y", (h * w) + k)
  <2>1. g # h /\ g \in Nat /\ h \in Nat
    BY <1>1, <1>2, GroupIsWhole
  <2> HIDE DEF w, groups
  <2>2. (g * w) + j # (h * w) + k
    <3>1. CASE w = 1
      BY <2>1, <3>1
    <3>2. CASE w = 2
      BY <2>1, <3>2
    <3>3. CASE w = 4
      BY <2>1, <3>3
    <3>4. QED
      BY <1>1, <3>1, <3>2, <3>3
  <2>3. QED
    BY <2>2 DEF Cell
<1>4. QED
  BY <1>3 DEF Targets

LEMMA RemainderIsApart ==
  ASSUME OptionsInv, NEW t \in Team, NEW u \in Team
  PROVE  Targets("unrolled", t) \cap Targets("remainder", u) = {}
<1>1. ASSUME NEW g \in Block(Whole \div kernel.unroll, team, t), NEW j \in 0 .. kernel.unroll - 1,
             NEW i \in Whole .. m.rows - 1
      PROVE  Cell("y", (g * kernel.unroll) + j) # Cell("y", i)
  <2>1. (g * kernel.unroll) + j \in 0 .. Whole - 1 /\ Whole \in Nat /\ m.rows \in Nat
    BY GroupIsWhole, WholeIs, OptionsAre
  <2>2. (g * kernel.unroll) + j # i
    BY <2>1
  <2>3. QED
    BY <2>2 DEF Cell
<1>2. QED
  BY <1>1 DEF Targets

LEMMA PartialApart ==
  ASSUME OptionsInv, NEW t \in Team, NEW u \in Team, t # u
  PROVE  Targets("partial", t) \cap Targets("partial", u) = {}
<1> DEFINE n == m.rows
<1>1. n \in Nat \ {0} /\ t \in Nat /\ u \in Nat
  BY OptionsAre
<1>2. ASSUME NEW a \in Nat, NEW b \in Nat, a < b, NEW q \in 0 .. n - 1, NEW r \in 0 .. n - 1
      PROVE  (a * n) + q < (b * n) + r
  <2> HIDE DEF n
  <2>1. (a + 1) * n <= b * n /\ (a + 1) * n = (a * n) + n /\ a * n \in Nat /\ b * n \in Nat
    BY <1>1, <1>2
  <2>2. QED
    BY <1>1, <2>1
<1>3. ASSUME NEW q \in Rows(m), NEW r \in Rows(m)
      PROVE  Cell("workspace", (t * n) + q) # Cell("workspace", (u * n) + r)
  <2>1. q \in 0 .. n - 1 /\ r \in 0 .. n - 1
    BY DEF Rows
  <2> HIDE DEF n
  <2>2. (t * n) + q \in Int /\ (u * n) + r \in Int
    BY <1>1, <2>1
  <2>3. (t * n) + q < (u * n) + r \/ (u * n) + r < (t * n) + q
    <3>1. t < u \/ u < t
      BY <1>1
    <3>2. QED
      BY <1>1, <1>2, <2>1, <3>1
  <2>4. QED
    BY <2>2, <2>3 DEF Cell
<1>4. QED
  BY <1>3 DEF Targets

LEMMA ReduceApart ==
  ASSUME NEW t, NEW u, t # u
  PROVE  Targets("reduce", t) \cap Targets("reduce", u) = {}
<1>1. ASSUME NEW i \in Scheduled(m.rows, CooChunk, team, t),
             NEW k \in Scheduled(m.rows, CooChunk, team, u)
      PROVE  Cell("y", i) # Cell("y", k)
  BY ScheduledApart DEF Cell
<1>2. QED
  BY <1>1 DEF Targets

LEMMA RowsApart ==
  ASSUME OptionsInv, NEW t \in Team, NEW u \in Team, t # u
  PROVE  Targets("rows", t) \cap Targets("rows", u) = {}
<1>1. m.rows \in Nat /\ team \in Nat \ {0} /\ t \in 0 .. team - 1 /\ u \in 0 .. team - 1
  BY OptionsAre
<1>2. Block(m.rows, team, t) \cap Block(m.rows, team, u) = {}
  BY <1>1, BlocksDiffer
<1>3. Scheduled(m.rows, RowsChunk, team, t) \cap Scheduled(m.rows, RowsChunk, team, u) = {}
  BY ScheduledApart
<1>4. ASSUME NEW i \in RowsOf(t), NEW k \in RowsOf(u)
      PROVE  Cell("y", i) # Cell("y", k)
  BY <1>2, <1>3 DEF Cell, RowsOf
<1>5. QED
  BY <1>4 DEF Targets

-----------------------------------------------------------------------------
(* The cells of the loops *)

\* What a thread adds to or reads in a loop are elements there are.
LEMMA CellsExist ==
  ASSUME OptionsInv, NEW l \in 1 .. Len(Loops), NEW t \in Team,
         NEW c \in Targets(Loops[l], t) \cup Sources(Loops[l])
  PROVE  c.index \in IF c.array = "y" THEN DOMAIN y ELSE DOMAIN workspace
<1> DEFINE name == Loops[l]
           W == 0 .. (num_threads * m.rows) - 1
<1>1. /\ m.rows \in Nat \ {0} /\ team \in Nat \ {0} /\ num_threads \in Nat \ {0}
      /\ team <= num_threads /\ t \in 0 .. team - 1
  BY OptionsAre
<1>2. DOMAIN y = 0 .. m.rows - 1 /\ DOMAIN workspace = W
  BY DEF OptionsInv, Rows
<1>3. name \in {"partial", "direct", "atomic", "reduce", "rows", "unrolled", "remainder"}
  BY LoopForms
<1> HIDE DEF name
<1>4. CASE c \in Sources(name)
  <2>1. PICK k \in W : c = Cell("workspace", k)
    BY <1>4 DEF Sources
  <2>2. QED
    BY <1>2, <2>1 DEF Cell
<1>5. CASE c \in Targets(name, t) /\ name = "partial"
  <2>1. PICK r \in Rows(m) : c = Cell("workspace", (t * m.rows) + r)
    BY <1>5 DEF Targets
  <2>2. r \in 0 .. m.rows - 1
    BY DEF Rows
  <2>3. t * m.rows \in Nat /\ t * m.rows <= (num_threads - 1) * m.rows
    BY <1>1
  <2>4. (num_threads - 1) * m.rows = (num_threads * m.rows) - m.rows /\ num_threads * m.rows \in Nat
    BY <1>1
  <2>5. (t * m.rows) + r \in W
    <3> DEFINE s == t * m.rows
               p == (num_threads - 1) * m.rows
               q == num_threads * m.rows
    <3>1. s \in Nat /\ s <= p /\ p = q - m.rows /\ q \in Nat
      BY <2>3, <2>4
    <3> HIDE DEF s, p, q
    <3>2. s + r \in 0 .. q - 1
      BY <1>1, <2>2, <3>1
    <3>3. QED
      BY <3>2 DEF s, q
  <2>6. QED
    BY <1>2, <2>1, <2>5 DEF Cell
<1>6. ASSUME NEW i \in 0 .. m.rows - 1, c = Cell("y", i)
      PROVE  c.index \in DOMAIN y /\ c.array = "y"
  BY <1>2, <1>6 DEF Cell
<1>7. CASE c \in Targets(name, t) /\ name = "reduce"
  <2>1. PICK i \in Scheduled(m.rows, CooChunk, team, t) : c = Cell("y", i)
    BY <1>7 DEF Targets
  <2>2. i \in 0 .. m.rows - 1
    BY <1>1, ScheduledIsFinite
  <2>3. QED
    BY <1>6, <2>1, <2>2
<1>8. CASE c \in Targets(name, t) /\ name \in {"direct", "atomic"}
  <2>1. PICK i \in Rows(m) : c = Cell("y", i)
    BY <1>8 DEF Targets
  <2>2. QED
    BY <1>6, <2>1 DEF Rows
<1>9. CASE c \in Targets(name, t) /\ name = "rows"
  <2>1. PICK i \in RowsOf(t) : c = Cell("y", i)
    BY <1>9 DEF Targets
  <2>2. /\ Scheduled(m.rows, RowsChunk, team, t) \subseteq 0 .. m.rows - 1
        /\ Block(m.rows, team, t) \subseteq 0 .. m.rows - 1
    BY <1>1, ScheduledIsFinite, BlockIsWithin
  <2>3. QED
    BY <1>6, <2>1, <2>2 DEF RowsOf
<1>10. CASE c \in Targets(name, t) /\ name = "unrolled"
  <2>1. PICK g \in Block(Whole \div kernel.unroll, team, t), j \in 0 .. kernel.unroll - 1 :
          c = Cell("y", (g * kernel.unroll) + j)
    BY <1>10 DEF Targets
  <2>2. (g * kernel.unroll) + j \in 0 .. Whole - 1
    BY GroupIsWhole
  <2>3. (g * kernel.unroll) + j \in 0 .. m.rows - 1
    BY <1>1, <2>2, WholeIs
  <2>4. QED
    BY <1>6, <2>1, <2>3
<1>11. CASE c \in Targets(name, t) /\ name = "remainder"
  <2>1. PICK i \in Whole .. m.rows - 1 : c = Cell("y", i)
    BY <1>11 DEF Targets
  <2>2. i \in 0 .. m.rows - 1
    BY <1>1, WholeIs
  <2>3. QED
    BY <1>6, <2>1, <2>2
<1>12. QED
  BY <1>3, <1>4, <1>5, <1>7, <1>8, <1>9, <1>10, <1>11 DEF name

\* What no two threads, one in each of these loops, are both at.
Apart(a, b, t, u) ==
  /\ Targets(a, t) \cap Targets(b, u) = {}
  /\ Targets(a, t) \cap Sources(b) = {} /\ Targets(b, u) \cap Sources(a) = {}

\* Threads that no barrier keeps apart are in loops of these kinds.
LEMMA LoopsTogether ==
  ASSUME OptionsInv, team # 1, NEW k \in 1 .. Len(Loops), NEW l \in 1 .. Len(Loops), k <= l,
         \A i \in k .. l - 1 : ~ EndsInBarrier(Loops[i])
  PROVE  \/ Loops[k] = Loops[l]
              /\ Loops[k] \in {"atomic", "partial", "reduce", "rows", "unrolled", "remainder"}
         \/ Loops[k] = "rows" /\ Loops[l] = "partial"
         \/ Loops[k] = "unrolled" /\ Loops[l] = "remainder"
<1>1. num_threads # 1
  BY OptionsAre
<1>2. k < l => ~ EndsInBarrier(Loops[k])
  BY LoopsAre
<1>3. CASE Loops = <<"rows", "partial", "reduce">>
  <2>1. k = 1 /\ l = 3 => EndsInBarrier(Loops[2])
    BY <1>3 DEF EndsInBarrier
  <2>2. k = 2 /\ l = 3 => EndsInBarrier(Loops[2])
    BY <1>3 DEF EndsInBarrier
  <2>3. k \in {1, 2, 3} /\ l \in {1, 2, 3}
    BY <1>3
  <2>4. ~ (k = 1 /\ l = 3) /\ ~ (k = 2 /\ l = 3)
    BY <2>1, <2>2
  <2>5. QED
    BY <1>3, <2>3, <2>4
<1>4. CASE Loops = <<"partial", "reduce">>
  BY <1>2, <1>4 DEF EndsInBarrier
<1>5. CASE Loops = <<"unrolled", "remainder">>
  BY <1>5
<1>6. CASE Loops = <<"atomic">> \/ Loops = <<"rows">>
  BY <1>6
<1>7. QED
  BY <1>1, <1>3, <1>4, <1>5, <1>6, LoopForms

LEMMA LoopsApart ==
  ASSUME OptionsInv, NEW k \in 1 .. Len(Loops), NEW l \in 1 .. Len(Loops), k <= l,
         \A i \in k .. l - 1 : ~ EndsInBarrier(Loops[i]),
         NEW t \in Team, NEW u \in Team, t # u,
         ~ (Loops[k] = "remainder" /\ Loops[l] = "remainder")
  PROVE  \/ Loops[k] = "atomic" /\ Loops[l] = "atomic"
         \/ Apart(Loops[k], Loops[l], t, u)
<1> DEFINE a == Loops[k]
           b == Loops[l]
<1>1. team # 1
  BY OptionsAre
<1>2. \/ a = b /\ a \in {"atomic", "partial", "reduce", "rows", "unrolled"}
      \/ a = "rows" /\ b = "partial"
      \/ a = "unrolled" /\ b = "remainder"
  BY <1>1, LoopsTogether
<1> HIDE DEF a, b
<1>3. CASE a = "partial" /\ b = "partial"
  BY <1>3, PartialApart DEF Apart, Sources, a, b
<1>4. CASE a = "reduce" /\ b = "reduce"
  <2>1. \A v : Targets("reduce", v) \cap Sources("reduce") = {}
    BY DEF Targets, Sources, Cell
  <2>2. QED
    BY <1>4, <2>1, ReduceApart DEF Apart, a, b
<1>5. CASE a = "rows" /\ b = "rows"
  BY <1>5, RowsApart DEF Apart, Sources, a, b
<1>6. CASE a = "unrolled" /\ b = "unrolled"
  BY <1>6, UnrolledApart DEF Apart, Sources, a, b
<1>7. CASE a = "rows" /\ b = "partial"
  <2>1. Targets("rows", t) \cap Targets("partial", u) = {}
    BY DEF Targets, Cell
  <2>2. QED
    BY <1>7, <2>1 DEF Apart, Sources, a, b
<1>8. CASE a = "unrolled" /\ b = "remainder"
  BY <1>8, RemainderIsApart DEF Apart, Sources, a, b
<1>9. QED
  BY <1>2, <1>3, <1>4, <1>5, <1>6, <1>7, <1>8 DEF a, b

-----------------------------------------------------------------------------
\* What the thread is at is of its share of the loop it is in.
LEMMA WorkingIsIn ==
  ASSUME IInv, NEW t \in Team, Working(t)
  PROVE  /\ loop[t] \in 1 .. Len(Loops)
         /\ Current(t).to \in Targets(Loops[loop[t]], t)
         /\ Current(t).from \subseteq Sources(Loops[loop[t]])
         /\ Loops[loop[t]] = "remainder" => single = t
<1>1. loop[t] # EndOfRun
  BY DEF IInv, WaitsInv, Working
<1>2. loop[t] \in 1 .. Len(Loops)
  BY <1>1, LoopsAre DEF IInv, TypesInv
<1>3. OwnList(Loops[loop[t]], t, todo[t]) /\ todo[t] # <<>>
  BY <1>1 DEF IInv, SharesInv, Working
<1>4. Loops[loop[t]] = "remainder" => single = t
  BY <1>1, <1>3 DEF IInv, WaitsInv
<1>5. QED
  BY <1>2, <1>3, <1>4, TailIsOwn DEF Current

LEMMA InvImpliesTypes ==
  ASSUME IInv
  PROVE  TypeOK
<1>1. ASSUME NEW t \in Team, NEW n \in DOMAIN todo[t],
             NEW c \in {todo[t][n].to} \cup todo[t][n].from
      PROVE  c.index \in IF c.array = "y" THEN DOMAIN y ELSE DOMAIN workspace
  <2>1. loop[t] # EndOfRun
    <3>1. todo[t] # <<>>
      OBVIOUS
    <3>2. QED
      BY <3>1 DEF IInv, WaitsInv
  <2>2. loop[t] \in 1 .. Len(Loops)
    BY <2>1, LoopsAre DEF IInv, TypesInv
  <2>3. OwnList(Loops[loop[t]], t, todo[t])
    BY <2>1 DEF IInv, SharesInv
  <2>4. n \in 1 .. Len(todo[t])
    BY <2>3 DEF OwnList, IsList
  <2>5. c \in Targets(Loops[loop[t]], t) \cup Sources(Loops[loop[t]])
    BY <2>3, <2>4 DEF OwnList
  <2>6. QED
    BY <2>2, <2>5, CellsExist DEF IInv
<1>2. QED
  BY <1>1 DEF IInv, TypesInv, TypeOK

LEMMA InvImpliesNoRace ==
  ASSUME IInv
  PROVE  NoDataRace
<1>1. ASSUME NEW t \in Team, NEW u \in Team, t # u, Working(t), Working(u), loop[t] <= loop[u]
      PROVE  \/ Atomic(t) /\ Atomic(u)
             \/ Apart(Loops[loop[t]], Loops[loop[u]], t, u)
  <2>1. /\ loop[t] \in 1 .. Len(Loops) /\ loop[u] \in 1 .. Len(Loops)
        /\ ~ (Loops[loop[t]] = "remainder" /\ Loops[loop[u]] = "remainder")
    BY <1>1, WorkingIsIn
  <2>2. \A i \in loop[t] .. loop[u] - 1 : ~ EndsInBarrier(Loops[i])
    BY DEF IInv, BarriersInv
  <2>3. QED
    BY <1>1, <2>1, <2>2, LoopsApart DEF IInv, Atomic
<1>2. ASSUME NEW t \in Team, NEW u \in Team, t # u,
             NEW a \in Accesses(t), NEW b \in Accesses(u),
             a.cell = b.cell, a.write \/ b.write, loop[t] <= loop[u]
      PROVE  Atomic(t) /\ Atomic(u)
  <2>1. Working(t) /\ Working(u)
    BY DEF Accesses
  <2>2. /\ Current(t).to \in Targets(Loops[loop[t]], t)
        /\ Current(t).from \subseteq Sources(Loops[loop[t]])
        /\ Current(u).to \in Targets(Loops[loop[u]], u)
        /\ Current(u).from \subseteq Sources(Loops[loop[u]])
    BY <2>1, WorkingIsIn
  <2>3. /\ a.cell = Current(t).to \/ (a.cell \in Current(t).from /\ ~ a.write)
        /\ b.cell = Current(u).to \/ (b.cell \in Current(u).from /\ ~ b.write)
    BY <2>1 DEF Accesses
  <2>4. ~ Apart(Loops[loop[t]], Loops[loop[u]], t, u)
    BY <1>2, <2>2, <2>3 DEF Apart
  <2>5. QED
    BY <1>1, <1>2, <2>1, <2>4
<1>3. ASSUME NEW t \in Team, NEW u \in Team, t # u,
             NEW a \in Accesses(t), NEW b \in Accesses(u),
             a.cell = b.cell, a.write \/ b.write
      PROVE  Atomic(t) /\ Atomic(u)
  <2>1. loop[t] \in Int /\ loop[u] \in Int
    BY LoopsAre DEF IInv, TypesInv
  <2>2. loop[t] <= loop[u] \/ loop[u] <= loop[t]
    BY <2>1
  <2>3. QED
    BY <1>2, <1>3, <2>2
<1>4. QED
  BY <1>3 DEF NoDataRace

THEOREM TypeCorrect == Spec => []TypeOK
BY Invariance, InvImpliesTypes, PTL

THEOREM NoRace == Spec => []NoDataRace
BY Invariance, InvImpliesNoRace, PTL

-----------------------------------------------------------------------------
(* What the kernels compute of a row *)

LEMMA XIsVector ==
  ASSUME OptionsInv
  PROVE  IsMatrix(m) /\ IsVector(x, m)
<1>1. m \in Matrices
  BY DEF OptionsInv
<1>2. \A j \in 0 .. m.columns - 1 : x[j] = X(j)
  BY DEF x
<1>3. QED
  BY <1>1, <1>2, MatricesAssumption, XAssumption DEF IsVector

\* The terms of the coordinates, and those of row i.
EntryTerms == CoordinateTerms(A.coo, x)
EntriesOf(i) == CoordinatesOf(A.coo, i)

LEMMA CooProductIs ==
  ASSUME OptionsInv, HasCoo, NEW i \in Rows(m)
  PROVE  /\ ValidTerms(A.coo, x)
         /\ CooProduct(i) = SumFunctionOnSet(EntryTerms, EntriesOf(i))
         /\ CooProduct(i) \in Int
<1> DEFINE S == EntriesOf(i)
           f == [k \in S |-> A.coo.value[k] * x[A.coo.column_index[k]]]
<1>1. IsMatrix(m) /\ IsVector(x, m) /\ A = Converted(m, kernel)
  BY XIsVector DEF OptionsInv
<1>2. ValidTerms(A.coo, x)
  <2>1. CASE kernel.format \in {"coo", "coo_atomic"}
    <3>1. A.coo = CooOf(m)
      BY <1>1, <2>1 DEF Converted
    <3>2. QED
      BY <1>1, <3>1, CooRowIs
  <2>2. CASE kernel.format \in {"hybrid", "hybrid_skip"}
    <3>1. A = HybridOf(m, kernel.format = "hybrid_skip")
      BY <1>1, <2>2 DEF Converted
    <3>2. QED
      BY <1>1, <3>1, HybridRowIs
  <2>3. QED
    BY <2>1, <2>2 DEF HasCoo
<1>3. CooProduct(i) = SumFunctionOnSet(f, S)
  <2>1. CooProduct(i) = SumFunction(f) /\ DOMAIN f = S
    BY DEF CooProduct, EntriesOf, CoordinatesOf
  <2> HIDE DEF f, S
  <2>2. QED
    BY <2>1, Zenon DEF SumFunction
<1>4. S \in SUBSET (0 .. A.coo.size - 1)
  BY DEF EntriesOf, CoordinatesOf
<1>5. IsFiniteSet(S)
  <2>1. A.coo.size - 1 \in Int
    BY <1>2 DEF ValidTerms
  <2>2. IsFiniteSet(0 .. A.coo.size - 1)
    BY <2>1, IntervalSize
  <2>3. QED
    BY <1>4, <2>2, FS_Subset
<1>6. \A k \in S : f[k] = EntryTerms[k] /\ EntryTerms[k] \in Int
  <2>1. \A k \in S : f[k] = EntryTerms[k]
    BY <1>4 DEF EntryTerms, CoordinateTerms
  <2>2. \A k \in S : EntryTerms[k] \in Int
    BY <1>2, <1>4 DEF EntryTerms, ValidTerms
  <2>3. QED
    BY <2>1, <2>2
<1> HIDE DEF f, S
<1>7. SumFunctionOnSet(f, S) = SumFunctionOnSet(EntryTerms, S)
  BY <1>5, <1>6, SumOfSame
<1>8. SumFunctionOnSet(EntryTerms, S) \in Int
  BY <1>5, <1>6, SumIsInt
<1>9. QED
  BY <1>2, <1>3, <1>7, <1>8 DEF S

\* The rows of CSR and ELL matrices, the coordinates of COO matrices, and
\* both parts of hybrid matrices make up the product.
LEMMA RowSumIs ==
  ASSUME OptionsInv, NEW i \in Rows(m)
  PROVE  /\ Product(m, x, i) \in Int
         /\ ~ HasCoo => RowSum(i) = Product(m, x, i)
         /\ kernel.format \in {"coo", "coo_atomic"} => CooProduct(i) = Product(m, x, i)
         /\ kernel.format \in {"hybrid", "hybrid_skip"} =>
              RowSum(i) \in Int /\ RowSum(i) + CooProduct(i) = Product(m, x, i)
<1>1. /\ IsMatrix(m) /\ IsVector(x, m) /\ A = Converted(m, kernel) /\ kernel \in Kernels
  BY XIsVector DEF OptionsInv
<1>2. Product(m, x, i) \in Int
  BY <1>1, ProductIsInt
<1>3. CASE kernel.format = "csr"
  <2>1. A = CsrOf(m, 1) /\ ~ HasCoo /\ kernel.inner \in {"scalar", "avx128", "avx256"}
    BY <1>1, <1>3 DEF Converted, HasCoo, Kernels, Csr, Other
  <2> DEFINE p == A.row_ptr[i]
             q == A.row_ptr[i + 1]
  <2>2. CASE kernel.inner = "scalar"
    <3>1. RowSum(i) = CsrRow(A, x, i)
      BY <1>3, <2>2 DEF RowSum
    <3>2. QED
      BY <1>1, <1>2, <1>3, <2>1, <3>1, CsrRowIs
  <2>3. CASE kernel.inner = "avx128"
    <3>1. RowSum(i) = VectorRow(A, x, Avx128Loads(p, q))
      BY <1>3, <2>3 DEF RowSum
    <3> HIDE DEF p, q
    <3>2. VectorRow(CsrOf(m, 1), x, Avx128Loads(p, q)) = Product(m, x, i)
      BY <1>1, <2>1, VectorRowIs DEF p, q
    <3>3. QED
      BY <1>2, <1>3, <2>1, <3>1, <3>2
  <2>4. CASE kernel.inner = "avx256"
    <3>1. RowSum(i) = VectorRow(A, x, Avx256Loads(p, q))
      BY <1>3, <2>4 DEF RowSum
    <3> HIDE DEF p, q
    <3>2. VectorRow(CsrOf(m, 1), x, Avx256Loads(p, q)) = Product(m, x, i)
      BY <1>1, <2>1, VectorRowIs DEF p, q
    <3>3. QED
      BY <1>2, <1>3, <2>1, <3>1, <3>2
  <2>5. QED
    BY <2>1, <2>2, <2>3, <2>4
<1>4. CASE kernel.format \in {"ell", "ell_skip"}
  <2>1. A.ell = EllOf(m, kernel.format = "ell_skip") /\ ~ HasCoo
    BY <1>1, <1>4 DEF Converted, HasCoo
  <2>2. RowSum(i) = EllRow(A.ell, x, i)
    BY <1>4 DEF RowSum
  <2>3. EllRow(A.ell, x, i) = Product(m, x, i)
    BY <1>1, <2>1, EllProductIs
  <2>4. QED
    BY <1>2, <1>4, <2>1, <2>2, <2>3
<1>5. CASE kernel.format \in {"coo", "coo_atomic"}
  <2>1. A.coo = CooOf(m) /\ HasCoo
    BY <1>1, <1>5 DEF Converted, HasCoo
  <2>2. CooProduct(i) = SumFunctionOnSet(CoordinateTerms(A.coo, x), CoordinatesOf(A.coo, i))
    BY <2>1, CooProductIs DEF EntryTerms, EntriesOf
  <2>3. SumFunctionOnSet(CoordinateTerms(CooOf(m), x), CoordinatesOf(CooOf(m), i))
          = Product(m, x, i)
    BY <1>1, CooRowIs
  <2>4. QED
    BY <1>2, <1>5, <2>1, <2>2, <2>3
<1>6. CASE kernel.format \in {"hybrid", "hybrid_skip"}
  <2> DEFINE H == HybridOf(m, kernel.format = "hybrid_skip")
  <2>1. A = H /\ HasCoo
    BY <1>1, <1>6 DEF Converted, HasCoo
  <2> HIDE DEF H
  <2>2. CooProduct(i) = SumFunctionOnSet(CoordinateTerms(A.coo, x), CoordinatesOf(A.coo, i))
    BY <2>1, CooProductIs DEF EntryTerms, EntriesOf
  <2>3. /\ EllRow(H.ell, x, i) \in Int
        /\ EllRow(H.ell, x, i)
             + SumFunctionOnSet(CoordinateTerms(H.coo, x), CoordinatesOf(H.coo, i))
             = Product(m, x, i)
    BY <1>1, HybridRowIs DEF H
  <2>4. RowSum(i) = EllRow(A.ell, x, i)
    BY <1>6 DEF RowSum
  <2>5. QED
    BY <1>2, <1>6, <2>1, <2>2, <2>3, <2>4
<1>7. kernel.format \in {"csr", "ell", "ell_skip", "coo", "coo_atomic", "hybrid", "hybrid_skip"}
  BY <1>1 DEF Kernels, Csr, Other
<1>8. QED
  BY <1>3, <1>4, <1>5, <1>6, <1>7

-----------------------------------------------------------------------------
(* What updates add to a cell *)

\* The thread that adds coordinate e to its part of the workspace; what an
\* element of the workspace gets in a run, and what update u adds in run r.
ThreadOf(e) == (e \div CooChunk) % team
PartialOf(k) ==
  {e \in 0 .. A.coo.size - 1 : (ThreadOf(e) * m.rows) + A.coo.row_index[e] = k}
Partial(k) == SumFunctionOnSet(EntryTerms, PartialOf(k))
Amount(u, r) == u.addend + SumFunctionOnSet([c \in u.from |-> r * Partial(c.index)], u.from)

\* What it adds to cell c, and what the updates of s do.
Worth(u, c, r) == IF u.to = c THEN Amount(u, r) ELSE 0
Owed(s, c, r) == SumFunctionOnSet([n \in 1 .. Len(s) |-> Worth(s[n], c, r)], 1 .. Len(s))

IsSound(s, r) == IsList(s) /\ \A n \in 1 .. Len(s) : Amount(s[n], r) \in Int

LEMMA OwedIsInt ==
  ASSUME NEW s, NEW c, NEW r, IsSound(s, r)
  PROVE  Owed(s, c, r) \in Int
<1> DEFINE N == 1 .. Len(s)
           f == [n \in N |-> Worth(s[n], c, r)]
<1>1. IsFiniteSet(N)
  <2>1. 1 \in Int /\ Len(s) \in Int
    BY DEF IsSound, IsList
  <2>2. QED
    BY <2>1, IntervalSize
<1>2. \A n \in N : f[n] \in Int
  BY DEF IsSound, Worth
<1> HIDE DEF f, N
<1>3. SumFunctionOnSet(f, N) \in Int
  BY <1>1, <1>2, SumIsInt
<1>4. QED
  BY <1>3 DEF Owed, f, N

LEMMA EmptyOwes ==
  ASSUME NEW c, NEW r
  PROVE  IsSound(<<>>, r) /\ Owed(<<>>, c, r) = 0
<1>1. 1 .. Len(<<>>) = {}
  OBVIOUS
<1>2. IsSound(<<>>, r)
  BY DEF IsSound, IsList
<1> DEFINE f == [n \in 1 .. Len(<<>>) |-> Worth(<<>>[n], c, r)]
<1>3. Owed(<<>>, c, r) = SumFunctionOnSet(f, {})
  BY <1>1 DEF Owed
<1> HIDE DEF f
<1>4. QED
  BY <1>2, <1>3, SumOfNone

\* Making the first update leaves the others.
LEMMA TailOwes ==
  ASSUME NEW s, NEW r, IsSound(s, r), s # <<>>
  PROVE  /\ IsSound(Tail(s), r) /\ Amount(Head(s), r) \in Int
         /\ \A c : Owed(s, c, r) = Worth(Head(s), c, r) + Owed(Tail(s), c, r)
<1> DEFINE V == {s[n] : n \in 1 .. Len(s)}
           N == Len(s)
           u == Tail(s)
<1>1. N \in Nat /\ s = [n \in 1 .. N |-> s[n]] /\ \A n \in 1 .. N : Amount(s[n], r) \in Int
  BY DEF IsSound, IsList
<1>2. s \in Seq(V)
  BY <1>1
<1> HIDE DEF V
<1>3. /\ Len(u) = N - 1 /\ N \in Nat \ {0}
      /\ \A n \in 1 .. N - 1 : u[n] = s[n + 1]
      /\ Head(s) = s[1] /\ u \in Seq(V)
  BY <1>2
<1> HIDE DEF u
<1>4. u = [n \in 1 .. Len(u) |-> u[n]]
  <2>1. u \in [1 .. Len(u) -> V]
    BY <1>3
  <2>2. QED
    BY <2>1
<1>5. \A n \in 1 .. N - 1 : n + 1 \in 1 .. N
  BY <1>1
<1>6. \A n \in 1 .. N - 1 : Amount(u[n], r) \in Int
  BY <1>1, <1>3, <1>5
<1>7. IsSound(u, r)
  BY <1>3, <1>4, <1>6 DEF IsSound, IsList
<1>8. 1 \in 1 .. N /\ Amount(Head(s), r) \in Int
  BY <1>1, <1>3
<1>9. ASSUME NEW c
      PROVE  Owed(s, c, r) = Worth(Head(s), c, r) + Owed(u, c, r)
  <2> DEFINE f == [n \in 1 .. N |-> Worth(s[n], c, r)]
             g == [n \in 1 .. N - 1 |-> Worth(u[n], c, r)]
             M == N - 1
  <2>1. Owed(s, c, r) = SumFunctionOnSet(f, 1 .. N)
    BY DEF Owed
  <2>2. Owed(u, c, r) = SumFunctionOnSet(g, 1 .. M)
    BY <1>3 DEF Owed
  <2>3. \A n \in 1 .. N : f[n] \in Int
    BY <1>1 DEF Worth
  <2>4. \A n \in 1 .. N - 1 : g[n] = f[n + 1] /\ g[n] \in Int
    BY <1>3, <1>5, <1>6 DEF Worth
  <2>5. f[1] = Worth(Head(s), c, r)
    BY <1>3, <1>8
  <2> HIDE DEF f, g
  <2>6. SumFunctionOnSet(f, 1 .. N) = f[1] + SumFunctionOnSet(f, (1 .. N) \ {1})
    <3> HIDE DEF N
    <3>1. IsFiniteSet(1 .. N) /\ 1 \in 1 .. N
      <4>1. 1 \in Int /\ N \in Int
        BY <1>1
      <4>2. QED
        BY <1>8, <4>1, IntervalSize
    <3> DEFINE U == 1 .. N
    <3>2. IsFiniteSet(U) /\ 1 \in U /\ \A n \in U : f[n] \in Int
      BY <2>3, <3>1
    <3> HIDE DEF U
    <3>3. SumFunctionOnSet(f, U) = f[1] + SumFunctionOnSet(f, U \ {1})
      BY <3>2, SumWithout
    <3>4. QED
      BY <3>3 DEF U
  <2>7. IsShifted(g, 1, M, f, 1)
    BY <1>3, <2>4 DEF IsShifted
  <2>8. (1 .. N) \ {1} = 1 + 1 .. M + 1
    BY <1>3
  <2> HIDE DEF M, N
  <2>9. SumFunctionOnSet(g, 1 .. M) = SumFunctionOnSet(f, 1 + 1 .. M + 1)
    BY <2>7, SumShifted
  <2>10. QED
    BY <2>1, <2>2, <2>5, <2>6, <2>8, <2>9
<1>10. QED
  BY <1>7, <1>8, <1>9 DEF u

LEMMA ListIs ==
  ASSUME NEW N \in Nat, NEW s, s = [n \in 1 .. N |-> s[n]]
  PROVE  IsList(s) /\ Len(s) = N
<1> DEFINE V == {s[n] : n \in 1 .. N}
<1>1. s \in [1 .. N -> V]
  OBVIOUS
<1> HIDE DEF V
<1>2. s \in Seq(V) /\ DOMAIN s = 1 .. N
  BY <1>1
<1>3. Len(s) = N
  BY <1>2
<1>4. QED
  BY <1>3 DEF IsList

\* The updates u of the iterations S in their order, w for each, and what
\* those of each iteration add to cell c.
IsListed(s, S, w, u) ==
  s = [n \in 1 .. w * Cardinality(S) |-> s[n]] /\ IsInOrder(s, S, w, u)

Amounts(u, w, r, S) == \A k \in S : \A j \in 1 .. w : Amount(u[k][j], r) \in Int

WorthOf(u, w, c, r, k) ==
  SumFunctionOnSet([j \in 1 .. w |-> Worth(u[k][j], c, r)], 1 .. w)

LEMMA ListOwes ==
  ASSUME NEW S \in SUBSET Int, IsFiniteSet(S), NEW w \in Nat \ {0}, NEW u, NEW s, NEW r,
         IsListed(s, S, w, u), Amounts(u, w, r, S),
         NEW c, NEW v, \A k \in S : v[k] = WorthOf(u, w, c, r, k)
  PROVE  IsSound(s, r) /\ Owed(s, c, r) = SumFunctionOnSet(v, S)
<1> DEFINE N == w * Cardinality(S)
           d(n) == Ascending(S)[((n - 1) \div w) + 1]
           e(n) == ((n - 1) % w) + 1
           W == 1 .. w
           g == [k \in S |-> [j \in W |-> Worth(u[k][j], c, r)]]
           f == [n \in 1 .. N |-> Worth(s[n], c, r)]
           h == [k \in S |-> SumFunctionOnSet(g[k], W)]
<1>1. N \in Nat /\ IsFiniteSet(W)
  BY NumberOfUpdates, IntervalSize
<1>2. \A n \in 1 .. N : d(n) \in S /\ e(n) \in W /\ s[n] = u[d(n)][e(n)]
  BY PlaceOfUpdate DEF IsListed, IsInOrder
<1>3. \A k \in S : \A j \in W : Amount(u[k][j], r) \in Int /\ Worth(u[k][j], c, r) \in Int
  <2>1. \A k \in S : \A j \in W : Amount(u[k][j], r) \in Int
    BY DEF Amounts
  <2> SUFFICES ASSUME NEW k \in S, NEW j \in W
               PROVE  Amount(u[k][j], r) \in Int /\ Worth(u[k][j], c, r) \in Int
    OBVIOUS
  <2> HIDE DEF W
  <2>2. QED
    BY <2>1 DEF Worth
<1>4. \A k \in S : v[k] = SumFunctionOnSet(g[k], W)
  BY DEF WorthOf
<1>5. IsList(s) /\ Len(s) = N
  BY <1>1, ListIs DEF IsListed
<1> HIDE DEF N, d, e, W
<1>6. \A n \in 1 .. N : Amount(s[n], r) \in Int
  <2> SUFFICES ASSUME NEW n \in 1 .. N PROVE Amount(s[n], r) \in Int
    OBVIOUS
  <2>1. d(n) \in S /\ e(n) \in W /\ s[n] = u[d(n)][e(n)]
    BY <1>2
  <2>2. Amount(u[d(n)][e(n)], r) \in Int
    BY <1>3, <2>1
  <2>3. QED
    BY <2>1, <2>2
<1>7. IsSound(s, r)
  BY <1>5, <1>6 DEF IsSound
<1>8. \A k \in S : \A j \in W : g[k][j] \in Int
  BY <1>3
<1>9. IsInOrder(f, S, w, g)
  <2>1. \A n \in 1 .. N : f[n] = g[d(n)][e(n)]
    BY <1>2
  <2> HIDE DEF f, g
  <2>2. QED
    BY <2>1 DEF IsInOrder, N, d, e
<1>10. Owed(s, c, r) = SumFunctionOnSet(f, 1 .. N)
  BY <1>5 DEF Owed
<1> HIDE DEF f, g
<1>11. SumFunctionOnSet(f, 1 .. N) = SumFunctionOnSet(h, S)
  <2>1. \A k \in S : \A j \in 1 .. w : g[k][j] \in Int
    BY <1>8 DEF W
  <2>2. SumFunctionOnSet(f, 1 .. w * Cardinality(S))
          = SumFunctionOnSet([k \in S |-> SumFunctionOnSet(g[k], 1 .. w)], S)
    BY <1>9, <2>1, SumInOrder
  <2>3. QED
    BY <2>2 DEF N, W
<1>12. \A k \in S : h[k] = v[k] /\ v[k] \in Int
  <2>1. \A k \in S : SumFunctionOnSet(g[k], W) \in Int
    BY <1>1, <1>8, SumIsInt
  <2>2. QED
    BY <1>4, <2>1
<1> HIDE DEF h
<1>13. SumFunctionOnSet(h, S) = SumFunctionOnSet(v, S)
  BY <1>12, SumOfSame
<1>14. QED
  BY <1>7, <1>10, <1>11, <1>13

-----------------------------------------------------------------------------
(* What the loops add, all threads together *)

WorthsOf(u, w, c, r, N) == [k \in N |-> WorthOf(u, w, c, r, k)]
Totals(list, T, c, r) == [t \in T |-> Owed(list[t], c, r)]

AllListed(list, share, T, w, u) == \A t \in T : IsListed(list[t], share[t], w, u)
AllSound(list, T, r) == \A t \in T : IsSound(list[t], r)

\* A loop shared out to the threads T adds what its iterations N add.
LEMMA SharedOwe ==
  ASSUME NEW T, IsFiniteSet(T), NEW N \in SUBSET Int, IsFiniteSet(N),
         NEW share, IsShared(share, T, N), NEW w \in Nat \ {0}, NEW u, NEW list,
         NEW r, NEW c, AllListed(list, share, T, w, u), Amounts(u, w, r, N)
  PROVE  /\ AllSound(list, T, r)
         /\ SumFunctionOnSet(Totals(list, T, c, r), T) = SumFunctionOnSet(WorthsOf(u, w, c, r, N), N)
         /\ SumFunctionOnSet(Totals(list, T, c, r), T) \in Int
<1> DEFINE v == WorthsOf(u, w, c, r, N)
           sums == SharesOf(v, share, T)
           totals == Totals(list, T, c, r)
<1>1. \A k \in N : v[k] = WorthOf(u, w, c, r, k)
  BY DEF WorthsOf
<1>2. \A t \in T : share[t] \in SUBSET N
  BY DEF IsShared
<1> HIDE DEF v
<1>3. ASSUME NEW t \in T
      PROVE  IsSound(list[t], r) /\ Owed(list[t], c, r) = SumFunctionOnSet(v, share[t])
  <2> DEFINE S == share[t]
             s == list[t]
  <2>1. S \in SUBSET N /\ S \in SUBSET Int /\ IsFiniteSet(S)
    BY <1>2, FS_Subset
  <2>2. IsListed(s, S, w, u)
    BY DEF AllListed
  <2> HIDE DEF S, s
  <2>3. Amounts(u, w, r, S)
    BY <2>1 DEF Amounts
  <2>4. \A k \in S : v[k] = WorthOf(u, w, c, r, k)
    BY <1>1, <2>1
  <2>5. IsSound(s, r) /\ Owed(s, c, r) = SumFunctionOnSet(v, S)
    BY <2>1, <2>2, <2>3, <2>4, ListOwes
  <2>6. QED
    BY <2>5 DEF S, s
<1>4. \A k \in N : v[k] \in Int
  <2> SUFFICES ASSUME NEW k \in N PROVE v[k] \in Int
    OBVIOUS
  <2> DEFINE W == 1 .. w
             f == [j \in W |-> Worth(u[k][j], c, r)]
  <2>1. \A j \in W : f[j] \in Int
    BY DEF Amounts, Worth
  <2>2. IsFiniteSet(W)
    BY IntervalSize
  <2>3. v[k] = SumFunctionOnSet(f, W)
    BY <1>1 DEF WorthOf
  <2> HIDE DEF f, W
  <2>4. QED
    BY <2>1, <2>2, <2>3, SumIsInt
<1>5. SumFunctionOnSet(sums, T) = SumFunctionOnSet(v, N)
  <2>1. SumFunctionOnSet(SharesOf(v, share, T), T) = SumFunctionOnSet(v, N)
    BY <1>4, SumOfShares, ZenonT(20)
  <2>2. QED
    BY <2>1
<1>6. \A t \in T : totals[t] = sums[t] /\ sums[t] \in Int
  <2> SUFFICES ASSUME NEW t \in T PROVE totals[t] = sums[t] /\ sums[t] \in Int
    OBVIOUS
  <2>1. totals[t] = Owed(list[t], c, r) /\ sums[t] = SumFunctionOnSet(v, share[t])
    BY DEF Totals, SharesOf
  <2>2. Owed(list[t], c, r) \in Int
    BY <1>3, OwedIsInt
  <2>3. QED
    BY <1>3, <2>1, <2>2
<1> HIDE DEF sums, totals
<1>7. SumFunctionOnSet(totals, T) = SumFunctionOnSet(sums, T)
  BY <1>6, SumOfSame
<1>8. SumFunctionOnSet(v, N) \in Int
  BY <1>4, SumIsInt
<1>9. QED
  BY <1>3, <1>5, <1>7, <1>8 DEF totals, v, AllSound

LEMMA AmountOfAdd ==
  ASSUME NEW cell, NEW a \in Int, NEW r
  PROVE  Amount(AddTo(cell, a), r) = a /\ \A c : Worth(AddTo(cell, a), c, r) = IF cell = c THEN a ELSE 0
<1> DEFINE f == [c \in {} |-> r * Partial(c.index)]
           u == AddTo(cell, a)
<1>1. u.to = cell /\ u.addend = a /\ u.from = {}
  BY DEF AddTo
<1> HIDE DEF u
<1>2. Amount(u, r) = a + SumFunctionOnSet(f, {})
  BY <1>1 DEF Amount
<1> HIDE DEF f
<1>3. Amount(u, r) = a
  BY <1>2, SumOfNone
<1>4. \A c : Worth(u, c, r) = IF cell = c THEN a ELSE 0
  BY <1>1, <1>3 DEF Worth
<1>5. QED
  BY <1>3, <1>4 DEF u

\* Iterations of one update each: iteration k adds a[k] to to[k].
Singles(to, a, N) == [k \in N |-> <<AddTo(to[k], a[k])>>]
AddedTo(to, N, c) == {k \in N : to[k] = c}

LEMMA SinglesOwe ==
  ASSUME NEW T, IsFiniteSet(T), NEW N \in SUBSET Int, IsFiniteSet(N),
         NEW share, IsShared(share, T, N), NEW to, NEW a, \A k \in N : a[k] \in Int,
         NEW list, \A t \in T : IsListed(list[t], share[t], 1, Singles(to, a, N)), NEW r, NEW c
  PROVE  /\ \A t \in T : IsSound(list[t], r)
         /\ SumFunctionOnSet(Totals(list, T, c, r), T) = SumFunctionOnSet(a, AddedTo(to, N, c))
         /\ SumFunctionOnSet(Totals(list, T, c, r), T) \in Int
<1> DEFINE u == Singles(to, a, N)
           v == WorthsOf(u, 1, c, r, N)
           S == AddedTo(to, N, c)
<1>1. \A k \in N : u[k][1] = AddTo(to[k], a[k])
  BY DEF Singles
<1> HIDE DEF u
<1>2. \A k \in N : Amount(u[k][1], r) = a[k] /\ Worth(u[k][1], c, r) = IF to[k] = c THEN a[k] ELSE 0
  <2> SUFFICES ASSUME NEW k \in N
               PROVE  /\ Amount(u[k][1], r) = a[k]
                      /\ Worth(u[k][1], c, r) = IF to[k] = c THEN a[k] ELSE 0
    OBVIOUS
  <2> DEFINE cell == to[k]
             b == a[k]
  <2>1. b \in Int /\ u[k][1] = AddTo(cell, b)
    BY <1>1
  <2> HIDE DEF cell, b
  <2>2. Amount(AddTo(cell, b), r) = b /\ \A d : Worth(AddTo(cell, b), d, r) = IF cell = d THEN b ELSE 0
    BY <2>1, AmountOfAdd
  <2>3. QED
    BY <2>1, <2>2 DEF cell, b
<1>3. 1 .. 1 = {1} /\ 1 \in Nat \ {0}
  OBVIOUS
<1>4. Amounts(u, 1, r, N)
  BY <1>2, <1>3 DEF Amounts
<1>5. ASSUME NEW k \in N
      PROVE  v[k] = IF to[k] = c THEN a[k] ELSE 0
  <2> DEFINE f == [j \in {1} |-> Worth(u[k][j], c, r)]
  <2>1. v[k] = SumFunctionOnSet(f, {1})
    BY <1>3 DEF WorthsOf, WorthOf
  <2>2. f[1] = (IF to[k] = c THEN a[k] ELSE 0) /\ f[1] \in Int
    BY <1>2
  <2> HIDE DEF f
  <2>3. QED
    BY <2>1, <2>2, SumOfOne
<1>6. AllListed(list, share, T, 1, u)
  BY DEF u, AllListed
<1>7. /\ AllSound(list, T, r)
      /\ SumFunctionOnSet(Totals(list, T, c, r), T) = SumFunctionOnSet(v, N)
      /\ SumFunctionOnSet(Totals(list, T, c, r), T) \in Int
  BY <1>3, <1>4, <1>6, SharedOwe
<1> HIDE DEF v
<1>8. /\ S \in SUBSET N /\ \A k \in N : v[k] \in Int
      /\ \A k \in N \ S : v[k] = 0
      /\ \A k \in S : v[k] = a[k] /\ a[k] \in Int
  BY <1>5 DEF AddedTo
<1> HIDE DEF S
<1>9. IsFiniteSet(S)
  BY <1>8, FS_Subset
<1>10. SumFunctionOnSet(v, N) = SumFunctionOnSet(v, S)
  BY <1>8, SumOfRest
<1>11. SumFunctionOnSet(v, S) = SumFunctionOnSet(a, S)
  BY <1>8, <1>9, SumOfSame
<1>12. QED
  BY <1>7, <1>10, <1>11 DEF S, AllSound

\* The kinds of runs there are, and the kernels they are of.
LEMMA KernelForms ==
  ASSUME OptionsInv
  PROVE  \/ /\ Loops = <<"direct">> /\ num_threads = 1 /\ ~ UsesWorkspace
            /\ HasCoo /\ kernel.format \in {"coo", "coo_atomic"}
         \/ /\ Loops = <<"atomic">> /\ ~ UsesWorkspace
            /\ HasCoo /\ kernel.format = "coo_atomic"
         \/ /\ Loops = <<"partial", "reduce">> /\ UsesWorkspace
            /\ HasCoo /\ kernel.format = "coo"
         \/ /\ Loops = <<"rows", "direct">> /\ num_threads = 1 /\ ~ UsesWorkspace
            /\ HasCoo /\ kernel.format \in {"hybrid", "hybrid_skip"}
         \/ /\ Loops = <<"rows", "partial", "reduce">> /\ UsesWorkspace
            /\ HasCoo /\ kernel.format \in {"hybrid", "hybrid_skip"}
         \/ Loops = <<"unrolled", "remainder">> /\ ~ HasCoo /\ ~ UsesWorkspace
         \/ Loops = <<"rows">> /\ ~ HasCoo /\ ~ UsesWorkspace
<1>1. (num_threads = 1 /\ ~ (num_threads > 1)) \/ num_threads > 1
  BY OptionsAre
<1>2. kernel.format \in {"csr", "ell", "ell_skip", "coo", "coo_atomic", "hybrid", "hybrid_skip"}
  BY DEF OptionsInv, Kernels, Csr, Other
<1>3. CASE kernel.format \in {"csr", "ell", "ell_skip"}
  BY <1>3 DEF Loops, HasCoo, UsesWorkspace
<1>4. CASE kernel.format \in {"coo", "coo_atomic"}
  BY <1>1, <1>4 DEF Loops, HasCoo, UsesWorkspace
<1>5. CASE kernel.format \in {"hybrid", "hybrid_skip"}
  BY <1>1, <1>5 DEF Loops, HasCoo, UsesWorkspace
<1>6. QED
  BY <1>2, <1>3, <1>4, <1>5

\* The schedules are defined, and the threads that share a loop are a set.
LEMMA ChunksAre ==
  ASSUME OptionsInv
  PROVE  /\ RowsChunk \in Nat \ {0} /\ IsFiniteSet(Team) /\ IsFiniteSet(Rows(m))
         /\ Rows(m) \in SUBSET Int
         /\ HasCoo => CooChunk \in Nat \ {0}
         /\ kernel.format \in {"coo", "coo_atomic"} => EntriesChunk \in Nat \ {0}
<1>1. /\ m.rows \in Nat \ {0} /\ team \in Nat \ {0} /\ num_threads \in Nat \ {0}
      /\ Team = 0 .. team - 1
  BY OptionsAre
<1>2. HybridChunk \in Nat \ {0} /\ RowsChunk \in Nat \ {0}
  <2>1. /\ CeilDiv(m.rows, team) \in Nat /\ CeilDiv(m.rows, team) > 0
        /\ CeilDiv(m.rows, num_threads) \in Nat /\ CeilDiv(m.rows, num_threads) > 0
    <3> DEFINE n == m.rows
    <3>1. n \in Nat /\ n > 0
      BY <1>1
    <3> HIDE DEF n
    <3>2. CeilDiv(n, team) \in Nat /\ CeilDiv(n, team) > 0
      BY <1>1, <3>1, CeilDivCovers
    <3>3. CeilDiv(n, num_threads) \in Nat /\ CeilDiv(n, num_threads) > 0
      BY <1>1, <3>1, CeilDivCovers
    <3>4. QED
      BY <3>2, <3>3 DEF n
  <2>2. QED
    BY <2>1 DEF RowsChunk, HybridChunk
<1>3. ASSUME kernel.format \in {"coo", "coo_atomic"}
      PROVE  EntriesChunk \in Nat \ {0}
  <2>1. IsMatrix(m) /\ IsVector(x, m) /\ A.coo = CooOf(m)
    BY <1>3, XIsVector DEF OptionsInv, Converted
  <2>2. 0 \in Rows(m)
    BY <1>1 DEF Rows
  <2>3. A.coo.size \in Nat /\ A.coo.size > 0
    BY <2>1, <2>2, CooRowIs DEF ValidTerms
  <2>4. CeilDiv(A.coo.size, num_threads) \in Nat /\ CeilDiv(A.coo.size, num_threads) > 0
    BY <1>1, <2>3, CeilDivCovers
  <2>5. QED
    BY <2>4 DEF EntriesChunk
<1>4. HasCoo => CooChunk \in Nat \ {0}
  BY <1>2, <1>3 DEF CooChunk, HasCoo
<1>5. IsFiniteSet(Team) /\ IsFiniteSet(0 .. m.rows - 1)
  <2>1. 0 \in Int /\ team - 1 \in Int /\ m.rows - 1 \in Int
    BY <1>1
  <2>2. QED
    BY <1>1, <2>1, IntervalSize
<1>6. QED
  BY <1>1, <1>2, <1>3, <1>4, <1>5 DEF Rows

\* The loop over the rows adds to each row what the kernel computes of it.
LEMMA RowsOwe ==
  ASSUME OptionsInv, \A i \in Rows(m) : RowSum(i) \in Int, NEW r, NEW c, NEW list,
         list = [t \in Team |-> RowsLoop(t)]
  PROVE  /\ \A t \in Team : IsSound(list[t], r)
         /\ SumFunctionOnSet(Totals(list, Team, c, r), Team) \in Int
         /\ \A i \in Rows(m) : c = Cell("y", i) =>
              SumFunctionOnSet(Totals(list, Team, c, r), Team) = RowSum(i)
         /\ (c.array # "y") => SumFunctionOnSet(Totals(list, Team, c, r), Team) = 0
<1> DEFINE N == Rows(m)
           to == [i \in N |-> Cell("y", i)]
           a == [i \in N |-> RowSum(i)]
           u == Singles(to, a, N)
           share == [t \in Team |-> RowsOf(t)]
           total == SumFunctionOnSet(Totals(list, Team, c, r), Team)
<1>1. /\ RowsChunk \in Nat \ {0} /\ IsFiniteSet(Team) /\ IsFiniteSet(N) /\ N \in SUBSET Int
  BY ChunksAre
<1>2. m.rows \in Nat /\ team \in Nat \ {0} /\ Team = 0 .. team - 1 /\ N = 0 .. m.rows - 1
  BY OptionsAre DEF Rows
<1>3. IsShared(share, Team, N)
  <2>1. CASE kernel.inner = "scalar"
    <3>1. share = [t \in 0 .. team - 1 |-> Scheduled(m.rows, RowsChunk, team, t)]
      BY <1>2, <2>1 DEF RowsOf
    <3>2. QED
      BY <1>1, <1>2, <3>1, ScheduledIsShared
  <2>2. CASE kernel.inner # "scalar"
    <3>1. share = [t \in 0 .. team - 1 |-> Block(m.rows, team, t)]
      BY <1>2, <2>2 DEF RowsOf
    <3>2. QED
      BY <1>2, <3>1, BlocksAreShared
  <2>3. QED
    BY <2>1, <2>2
<1>4. \A k \in N : u[k] = <<RowUpdate(k)>>
  BY DEF Singles, RowUpdate
<1>5. ASSUME NEW t \in Team
      PROVE  IsListed(list[t], share[t], 1, u)
  <2> DEFINE S == share[t]
             s == list[t]
  <2>1. s = [n \in 1 .. 1 * Cardinality(S) |->
              <<RowUpdate(Ascending(S)[((n - 1) \div 1) + 1])>>[((n - 1) % 1) + 1]]
    BY DEF RowsLoop, InOrder, RowsOf
  <2>2. S \in SUBSET N /\ S \in SUBSET Int /\ IsFiniteSet(S)
    BY <1>1, <1>3, FS_Subset DEF IsShared
  <2> HIDE DEF S, s, u, N
  <2>3. \A n \in 1 .. 1 * Cardinality(S) : Ascending(S)[((n - 1) \div 1) + 1] \in N
    BY <2>2, PlaceOfSingle
  <2>4. s = [n \in 1 .. 1 * Cardinality(S) |->
              u[Ascending(S)[((n - 1) \div 1) + 1]][((n - 1) % 1) + 1]]
    BY <1>4, <2>1, <2>3
  <2>5. IsListed(s, S, 1, u)
    BY <2>4 DEF IsListed, IsInOrder
  <2>6. QED
    BY <2>5 DEF s, S
<1>6. \A k \in N : a[k] \in Int
  OBVIOUS
<1>7. \A i \in N : c = Cell("y", i) => AddedTo(to, N, c) = {i}
  BY DEF Cell, AddedTo
<1>8. c.array # "y" => AddedTo(to, N, c) = {}
  BY DEF Cell, AddedTo
<1>9. \A i \in N : a[i] = RowSum(i)
  OBVIOUS
<1> HIDE DEF share, to, a, N
<1>10. /\ \A t \in Team : IsSound(list[t], r)
       /\ total = SumFunctionOnSet(a, AddedTo(to, N, c)) /\ total \in Int
  <2>1. \A t \in Team : IsListed(list[t], share[t], 1, Singles(to, a, N))
    BY <1>5
  <2>2. IsFiniteSet(Team) /\ N \in SUBSET Int /\ IsFiniteSet(N)
    BY <1>1
  <2> HIDE DEF u
  <2>3. QED
    BY <1>3, <1>6, <2>1, <2>2, SinglesOwe
<1> HIDE DEF total
<1>11. \A i \in N : c = Cell("y", i) => total = RowSum(i)
  BY <1>6, <1>7, <1>9, <1>10, SumOfOne
<1>12. c.array # "y" => total = 0
  BY <1>8, <1>10, SumOfNone
<1>13. QED
  BY <1>10, <1>11, <1>12 DEF total, N

\* The loops over the coordinates: coordinate k adds its term to to[k].
Entries == 0 .. A.coo.size - 1
EntryUpdates(to) == [k \in Entries |-> <<EntryUpdate(k, to[k])>>]

LEMMA EntriesAreValid ==
  ASSUME OptionsInv, HasCoo
  PROVE  /\ A.coo.size \in Nat /\ Entries \in SUBSET Int /\ IsFiniteSet(Entries)
         /\ \A k \in Entries : EntryTerms[k] \in Int /\ A.coo.row_index[k] \in Rows(m)
         /\ \A k \in Entries : EntryTerms[k] = A.coo.value[k] * x[A.coo.column_index[k]]
<1>1. m.rows \in Nat \ {0}
  BY OptionsAre
<1>2. 0 \in Rows(m)
  BY <1>1 DEF Rows
<1>3. ValidTerms(A.coo, x) /\ ValidCoo(A.coo, m)
  BY <1>2, CooProductIs, CooIsValid
<1>4. A.coo.size \in Nat
  BY <1>3 DEF ValidCoo
<1>5. IsFiniteSet(0 .. A.coo.size - 1)
  <2>1. 0 \in Int /\ A.coo.size - 1 \in Int
    BY <1>4
  <2>2. QED
    BY <2>1, IntervalSize
<1>6. \A k \in Entries : EntryTerms[k] \in Int /\ A.coo.row_index[k] \in Rows(m)
  BY <1>3 DEF ValidTerms, ValidCoo, EntryTerms, Entries
<1>7. \A k \in Entries : EntryTerms[k] = A.coo.value[k] * x[A.coo.column_index[k]]
  BY DEF Entries, EntryTerms, CoordinateTerms
<1>8. QED
  BY <1>4, <1>5, <1>6, <1>7 DEF Entries

LEMMA EntriesOwe ==
  ASSUME OptionsInv, HasCoo, NEW share, IsShared(share, Team, Entries), NEW to, NEW list,
         \A t \in Team : IsListed(list[t], share[t], 1, EntryUpdates(to)), NEW r, NEW c
  PROVE  /\ \A t \in Team : IsSound(list[t], r)
         /\ SumFunctionOnSet(Totals(list, Team, c, r), Team) \in Int
         /\ SumFunctionOnSet(Totals(list, Team, c, r), Team)
              = SumFunctionOnSet(EntryTerms, AddedTo(to, Entries, c))
<1>1. \A k \in Entries : EntryTerms[k] \in Int
  BY EntriesAreValid
<1>2. Entries \in SUBSET Int /\ IsFiniteSet(Entries) /\ IsFiniteSet(Team)
  BY EntriesAreValid, ChunksAre
<1>3. EntryUpdates(to) = Singles(to, EntryTerms, Entries)
  BY EntriesAreValid DEF EntryUpdates, Singles, EntryUpdate
<1>4. \A t \in Team : IsListed(list[t], share[t], 1, Singles(to, EntryTerms, Entries))
  BY <1>3
<1>5. QED
  BY <1>1, <1>2, <1>4, SinglesOwe

\* What they list, from how they do.
LEMMA EntriesListed ==
  ASSUME OptionsInv, HasCoo, NEW S \in SUBSET Entries, NEW to, NEW s,
         s = [n \in 1 .. 1 * Cardinality(S) |->
                <<EntryUpdate(Ascending(S)[((n - 1) \div 1) + 1],
                              to[Ascending(S)[((n - 1) \div 1) + 1]])>>[((n - 1) % 1) + 1]]
  PROVE  IsListed(s, S, 1, EntryUpdates(to))
<1>1. \A k \in Entries : EntryUpdates(to)[k] = <<EntryUpdate(k, to[k])>>
  BY DEF EntryUpdates
<1>2. S \in SUBSET Int /\ IsFiniteSet(S)
  BY EntriesAreValid, FS_Subset
<1>3. \A n \in 1 .. 1 * Cardinality(S) : Ascending(S)[((n - 1) \div 1) + 1] \in Entries
  BY <1>2, PlaceOfSingle
<1>4. s = [n \in 1 .. 1 * Cardinality(S) |->
              EntryUpdates(to)[Ascending(S)[((n - 1) \div 1) + 1]][((n - 1) % 1) + 1]]
  BY <1>1, <1>3
<1>5. QED
  BY <1>4 DEF IsListed, IsInOrder

\* Where the loops add the terms.
RowCells == [k \in Entries |-> Cell("y", A.coo.row_index[k])]
PartCells ==
  [k \in Entries |-> Cell("workspace", (ThreadOf(k) * m.rows) + A.coo.row_index[k])]

LEMMA RowCellsAre ==
  /\ \A i : AddedTo(RowCells, Entries, Cell("y", i)) = EntriesOf(i)
  /\ \A c : c.array # "y" => AddedTo(RowCells, Entries, c) = {}
  /\ \A k : AddedTo(PartCells, Entries, Cell("workspace", k)) = PartialOf(k)
  /\ \A c : c.array # "workspace" => AddedTo(PartCells, Entries, c) = {}
<1>1. \A i : AddedTo(RowCells, Entries, Cell("y", i)) = EntriesOf(i)
  BY DEF AddedTo, RowCells, Entries, EntriesOf, CoordinatesOf, Cell
<1>2. \A c : c.array # "y" => AddedTo(RowCells, Entries, c) = {}
  BY DEF AddedTo, RowCells, Cell
<1>3. \A k : AddedTo(PartCells, Entries, Cell("workspace", k)) = PartialOf(k)
  BY DEF AddedTo, PartCells, Entries, PartialOf, Cell
<1>4. \A c : c.array # "workspace" => AddedTo(PartCells, Entries, c) = {}
  BY DEF AddedTo, PartCells, Cell
<1>5. QED
  BY <1>1, <1>2, <1>3, <1>4

LEMMA AtomicOwe ==
  ASSUME OptionsInv, kernel.format = "coo_atomic", NEW r, NEW c, NEW list,
         list = [t \in Team |-> AtomicLoop(t)]
  PROVE  /\ \A t \in Team : IsSound(list[t], r)
         /\ SumFunctionOnSet(Totals(list, Team, c, r), Team) \in Int
         /\ SumFunctionOnSet(Totals(list, Team, c, r), Team)
              = SumFunctionOnSet(EntryTerms, AddedTo(RowCells, Entries, c))
<1> DEFINE share == [t \in Team |-> Scheduled(A.coo.size, EntriesChunk, team, t)]
<1>1. HasCoo
  BY DEF HasCoo
<1>2. EntriesChunk \in Nat \ {0} /\ A.coo.size \in Nat /\ team \in Nat \ {0} /\ Team = 0 .. team - 1
  BY <1>1, ChunksAre, EntriesAreValid, OptionsAre
<1>3. IsShared(share, Team, Entries)
  BY <1>2, ScheduledIsShared DEF Entries
<1>4. ASSUME NEW t \in Team
      PROVE  IsListed(list[t], share[t], 1, EntryUpdates(RowCells))
  <2> DEFINE S == share[t]
             s == list[t]
             K(n) == Ascending(S)[((n - 1) \div 1) + 1]
  <2>1. s = [n \in 1 .. 1 * Cardinality(S) |->
              <<EntryUpdate(K(n), Cell("y", A.coo.row_index[K(n)]))>>[((n - 1) % 1) + 1]]
    BY DEF AtomicLoop, InOrder
  <2>2. S \in SUBSET Entries
    BY <1>3 DEF IsShared
  <2>3. S \in SUBSET Int /\ IsFiniteSet(S)
    BY <1>1, <2>2, EntriesAreValid, FS_Subset
  <2> HIDE DEF S, s
  <2>4. \A n \in 1 .. 1 * Cardinality(S) : K(n) \in Entries
    BY <2>2, <2>3, PlaceOfSingle
  <2>5. \A n \in 1 .. 1 * Cardinality(S) : RowCells[K(n)] = Cell("y", A.coo.row_index[K(n)])
    BY <2>4 DEF RowCells
  <2>6. s = [n \in 1 .. 1 * Cardinality(S) |->
              <<EntryUpdate(K(n), RowCells[K(n)])>>[((n - 1) % 1) + 1]]
    <3> HIDE DEF K
    <3>1. QED
      BY <2>1, <2>5
  <2>7. IsListed(s, S, 1, EntryUpdates(RowCells))
    BY <1>1, <2>2, <2>6, EntriesListed
  <2>8. QED
    BY <2>7 DEF S, s
<1> HIDE DEF share
<1>5. \A t \in Team : IsListed(list[t], share[t], 1, EntryUpdates(RowCells))
  BY <1>4
<1>6. QED
  BY <1>1, <1>3, <1>5, EntriesOwe

LEMMA DirectOwe ==
  ASSUME OptionsInv, HasCoo, num_threads = 1, NEW r, NEW c, NEW list,
         list = [t \in Team |-> DirectLoop]
  PROVE  /\ \A t \in Team : IsSound(list[t], r)
         /\ SumFunctionOnSet(Totals(list, Team, c, r), Team) \in Int
         /\ SumFunctionOnSet(Totals(list, Team, c, r), Team)
              = SumFunctionOnSet(EntryTerms, AddedTo(RowCells, Entries, c))
<1> DEFINE share == [t \in Team |-> Entries]
<1>1. Team = {0}
  BY OptionsAre
<1>2. IsShared(share, Team, Entries)
  BY <1>1 DEF IsShared
<1>3. ASSUME NEW t \in Team
      PROVE  IsListed(list[t], share[t], 1, EntryUpdates(RowCells))
  <2> DEFINE S == share[t]
             s == list[t]
             K(n) == Ascending(S)[((n - 1) \div 1) + 1]
  <2>1. s = [n \in 1 .. 1 * Cardinality(S) |->
              <<EntryUpdate(K(n), Cell("y", A.coo.row_index[K(n)]))>>[((n - 1) % 1) + 1]]
    BY DEF DirectLoop, InOrder, Entries
  <2>2. S \in SUBSET Entries
    BY <1>2 DEF IsShared
  <2>3. S \in SUBSET Int /\ IsFiniteSet(S)
    BY <2>2, EntriesAreValid, FS_Subset
  <2> HIDE DEF S, s
  <2>4. \A n \in 1 .. 1 * Cardinality(S) : K(n) \in Entries
    BY <2>2, <2>3, PlaceOfSingle
  <2>5. \A n \in 1 .. 1 * Cardinality(S) : RowCells[K(n)] = Cell("y", A.coo.row_index[K(n)])
    BY <2>4 DEF RowCells
  <2>6. s = [n \in 1 .. 1 * Cardinality(S) |->
              <<EntryUpdate(K(n), RowCells[K(n)])>>[((n - 1) % 1) + 1]]
    <3> HIDE DEF K
    <3>1. QED
      BY <2>1, <2>5
  <2>7. IsListed(s, S, 1, EntryUpdates(RowCells))
    BY <2>2, <2>6, EntriesListed
  <2>8. QED
    BY <2>7 DEF S, s
<1> HIDE DEF share
<1>4. \A t \in Team : IsListed(list[t], share[t], 1, EntryUpdates(RowCells))
  BY <1>3
<1>5. QED
  BY <1>2, <1>4, EntriesOwe

LEMMA PartialOwe ==
  ASSUME OptionsInv, HasCoo, NEW r, NEW c, NEW list, list = [t \in Team |-> PartialLoop(t)]
  PROVE  /\ \A t \in Team : IsSound(list[t], r)
         /\ SumFunctionOnSet(Totals(list, Team, c, r), Team) \in Int
         /\ SumFunctionOnSet(Totals(list, Team, c, r), Team)
              = SumFunctionOnSet(EntryTerms, AddedTo(PartCells, Entries, c))
<1> DEFINE share == [t \in Team |-> Scheduled(A.coo.size, CooChunk, team, t)]
<1>1. CooChunk \in Nat \ {0} /\ A.coo.size \in Nat /\ team \in Nat \ {0} /\ Team = 0 .. team - 1
  BY ChunksAre, EntriesAreValid, OptionsAre
<1>2. IsShared(share, Team, Entries)
  BY <1>1, ScheduledIsShared DEF Entries
<1>3. ASSUME NEW t \in Team
      PROVE  IsListed(list[t], share[t], 1, EntryUpdates(PartCells))
  <2> DEFINE S == share[t]
             s == list[t]
             K(n) == Ascending(S)[((n - 1) \div 1) + 1]
             C(k) == Cell("workspace", (t * m.rows) + A.coo.row_index[k])
  <2>1. s = [n \in 1 .. 1 * Cardinality(S) |->
              <<EntryUpdate(K(n), C(K(n)))>>[((n - 1) % 1) + 1]]
    BY DEF PartialLoop, InOrder
  <2>2. S \in SUBSET Entries
    BY <1>2 DEF IsShared
  <2>3. S \in SUBSET Int /\ IsFiniteSet(S)
    BY <2>2, EntriesAreValid, FS_Subset
  <2>4. \A k \in S : ThreadOf(k) = t
    BY DEF ThreadOf, Scheduled
  <2> HIDE DEF S, s
  <2>5. \A n \in 1 .. 1 * Cardinality(S) : K(n) \in S
    BY <2>3, PlaceOfSingle
  <2>6. \A k \in S : PartCells[k] = C(k)
    BY <2>2, <2>4 DEF PartCells
  <2>7. s = [n \in 1 .. 1 * Cardinality(S) |->
              <<EntryUpdate(K(n), PartCells[K(n)])>>[((n - 1) % 1) + 1]]
    <3> HIDE DEF K, C
    <3>1. QED
      BY <2>1, <2>5, <2>6
  <2>8. IsListed(s, S, 1, EntryUpdates(PartCells))
    BY <2>2, <2>7, EntriesListed
  <2>9. QED
    BY <2>8 DEF S, s
<1> HIDE DEF share
<1>4. \A t \in Team : IsListed(list[t], share[t], 1, EntryUpdates(PartCells))
  BY <1>3
<1> DEFINE to == PartCells
<1>5. \A t \in Team : IsListed(list[t], share[t], 1, EntryUpdates(to))
  BY <1>4
<1> HIDE DEF to
<1>6. /\ \A t \in Team : IsSound(list[t], r)
      /\ SumFunctionOnSet(Totals(list, Team, c, r), Team) \in Int
      /\ SumFunctionOnSet(Totals(list, Team, c, r), Team)
           = SumFunctionOnSet(EntryTerms, AddedTo(to, Entries, c))
  BY <1>2, <1>5, EntriesOwe
<1>7. QED
  BY <1>6 DEF to

\* The remainder, which one thread adds.
LEMMA RemainderAdds ==
  ASSUME OptionsInv, \A i \in Rows(m) : RowSum(i) \in Int, NEW r, NEW c
  PROVE  /\ IsSound(RemainderLoop, r) /\ Owed(RemainderLoop, c, r) \in Int
         /\ \A i \in Rows(m) : c = Cell("y", i) =>
              Owed(RemainderLoop, c, r) = IF i < Whole THEN 0 ELSE RowSum(i)
<1> DEFINE N == Whole .. m.rows - 1
           to == [i \in N |-> Cell("y", i)]
           a == [i \in N |-> RowSum(i)]
           u == Singles(to, a, N)
           T == {0}
           share == [t \in T |-> N]
           list == [t \in T |-> RemainderLoop]
           totals == Totals(list, T, c, r)
<1>1. m.rows \in Nat /\ Rows(m) = 0 .. m.rows - 1 /\ Whole \in Nat /\ N \subseteq Rows(m)
  BY OptionsAre, WholeIs DEF Rows
<1>2. N \in SUBSET Int /\ IsFiniteSet(N) /\ IsFiniteSet(T)
  <2>1. Whole \in Int /\ m.rows - 1 \in Int
    BY <1>1
  <2> HIDE DEF list, share, to, a, u
  <2>2. QED
    BY <2>1, IntervalIsFinite, FS_Singleton
<1>3. IsShared(share, T, N)
  BY DEF IsShared
<1>4. \A k \in N : u[k] = <<RowUpdate(k)>>
  BY DEF Singles, RowUpdate
<1>5. IsListed(RemainderLoop, N, 1, u)
  <2> DEFINE s == RemainderLoop
  <2>1. s = [n \in 1 .. 1 * Cardinality(N) |->
              <<RowUpdate(Ascending(N)[((n - 1) \div 1) + 1])>>[((n - 1) % 1) + 1]]
    BY DEF RemainderLoop, InOrder
  <2> HIDE DEF s, u, N
  <2>2. \A n \in 1 .. 1 * Cardinality(N) : Ascending(N)[((n - 1) \div 1) + 1] \in N
    BY <1>2, PlaceOfSingle
  <2>3. s = [n \in 1 .. 1 * Cardinality(N) |->
              u[Ascending(N)[((n - 1) \div 1) + 1]][((n - 1) % 1) + 1]]
    BY <1>4, <2>1, <2>2
  <2>4. IsListed(s, N, 1, u)
    BY <2>3 DEF IsListed, IsInOrder
  <2>5. QED
    BY <2>4 DEF s
<1>6. \A k \in N : a[k] \in Int
  BY <1>1
<1>7. \A t \in T : IsListed(list[t], share[t], 1, Singles(to, a, N))
  BY <1>5
<1>8. totals[0] = Owed(RemainderLoop, c, r) /\ list[0] = RemainderLoop
  BY DEF Totals
<1>9. \A i \in Rows(m) : c = Cell("y", i) =>
        AddedTo(to, N, c) = IF i < Whole THEN {} ELSE {i}
  BY <1>1 DEF AddedTo, Cell
<1>10. \A i \in Rows(m) : ~ (i < Whole) => i \in N /\ a[i] = RowSum(i)
  BY <1>1
<1> HIDE DEF u, to, a, N, share, list
<1>11. /\ \A t \in T : IsSound(list[t], r)
       /\ SumFunctionOnSet(totals, T) = SumFunctionOnSet(a, AddedTo(to, N, c))
  <2> HIDE DEF T
  <2>1. QED
    BY <1>2, <1>3, <1>6, <1>7, SinglesOwe
<1> HIDE DEF totals
<1>12. IsSound(RemainderLoop, r) /\ Owed(RemainderLoop, c, r) \in Int
  BY <1>8, <1>11, OwedIsInt
<1>13. SumFunctionOnSet(totals, T) = Owed(RemainderLoop, c, r)
  BY <1>8, <1>12, SumOfOne
<1>14. ASSUME NEW i \in Rows(m), c = Cell("y", i)
       PROVE  Owed(RemainderLoop, c, r) = IF i < Whole THEN 0 ELSE RowSum(i)
  <2>1. CASE i < Whole
    BY <1>9, <1>11, <1>13, <1>14, <2>1, SumOfNone
  <2>2. CASE ~ (i < Whole)
    <3>1. AddedTo(to, N, c) = {i} /\ a[i] = RowSum(i) /\ a[i] \in Int
      BY <1>6, <1>9, <1>10, <1>14, <2>2
    <3>2. SumFunctionOnSet(a, {i}) = a[i]
      BY <3>1, SumOfOne
    <3>3. QED
      BY <1>11, <1>13, <2>2, <3>1, <3>2
  <2>3. QED
    BY <2>1, <2>2
<1>15. QED
  BY <1>12, <1>14

-----------------------------------------------------------------------------
(* The reduction adds up the parts *)

LEMMA PlaceIsOne ==
  ASSUME NEW n \in Nat \ {0}, NEW a \in Nat, NEW b \in Nat, NEW p \in 0 .. n - 1,
         NEW q \in 0 .. n - 1, (a * n) + p = (b * n) + q
  PROVE  a = b /\ p = q
<1> DEFINE k == (a * n) + p
<1>1. a * n \in Nat /\ b * n \in Nat
  OBVIOUS
<1>2. k \in Nat /\ a * n <= k /\ k < (a * n) + n /\ b * n <= k /\ k < (b * n) + n
  BY <1>1
<1> HIDE DEF k
<1>3. k \div n = a /\ k \div n = b
  BY <1>2, QuotientIs
<1>4. a = b
  BY <1>3
<1>5. QED
  BY <1>1, <1>4

LEMMA PartialIsInt ==
  ASSUME OptionsInv, HasCoo, NEW k
  PROVE  Partial(k) \in Int
<1> DEFINE S == PartialOf(k)
<1>1. S \in SUBSET Entries
  BY DEF PartialOf, Entries
<1> HIDE DEF S
<1>2. IsFiniteSet(S) /\ \A e \in S : EntryTerms[e] \in Int
  BY <1>1, EntriesAreValid, FS_Subset
<1>3. SumFunctionOnSet(EntryTerms, S) \in Int
  BY <1>2, SumIsInt
<1>4. QED
  BY <1>3 DEF Partial, S

\* The element of thread j - 1 for row i.
PartIndex(i, j) == ((j - 1) * m.rows) + i
PartsOfRow(i) == [j \in 1 .. num_threads |-> Partial(PartIndex(i, j))]

LEMMA PartsAddUp ==
  ASSUME OptionsInv, HasCoo, NEW i \in Rows(m)
  PROVE  /\ SumFunctionOnSet(PartsOfRow(i), 1 .. num_threads) = CooProduct(i)
         /\ \A j \in 1 .. num_threads : PartsOfRow(i)[j] \in Int
<1> DEFINE S == EntriesOf(i)
           T == 1 .. num_threads
           key == [e \in S |-> ThreadOf(e) + 1]
           n == m.rows
<1>1. /\ n \in Nat \ {0} /\ team \in Nat \ {0} /\ num_threads \in Nat \ {0} /\ team <= num_threads
      /\ CooChunk \in Nat \ {0} /\ i \in 0 .. n - 1
  BY OptionsAre, ChunksAre DEF Rows
<1>2. S \in SUBSET Entries /\ S = {e \in Entries : A.coo.row_index[e] = i}
  BY DEF EntriesOf, CoordinatesOf, Entries
<1>3. IsFiniteSet(S) /\ IsFiniteSet(T) /\ \A e \in S : EntryTerms[e] \in Int
  <2>1. 1 \in Int /\ num_threads \in Int
    BY <1>1
  <2>2. IsFiniteSet(T)
    BY <2>1, IntervalSize
  <2> HIDE DEF S, T
  <2>3. QED
    BY <1>2, <2>2, EntriesAreValid, FS_Subset
<1>4. \A e \in Entries : ThreadOf(e) \in 0 .. team - 1
  <2> SUFFICES ASSUME NEW e \in Entries PROVE ThreadOf(e) \in 0 .. team - 1
    OBVIOUS
  <2>1. e \in Nat
    BY EntriesAreValid DEF Entries
  <2> DEFINE q == e \div CooChunk
  <2>2. q \in Nat
    BY <1>1, <2>1, QuotientAndRest
  <2>3. ThreadOf(e) = q % team
    BY DEF ThreadOf
  <2> HIDE DEF q
  <2>4. QED
    BY <1>1, <2>2, <2>3, QuotientAndRest
<1>5. key \in [S -> T]
  <2>1. \A e \in S : ThreadOf(e) + 1 \in T
    BY <1>1, <1>2, <1>4
  <2>2. QED
    BY <2>1
<1>6. ASSUME NEW j \in T
      PROVE  {e \in S : key[e] = j} = PartialOf(PartIndex(i, j))
  <2>1. j - 1 \in Nat
    BY <1>1
  <2>2. PartialOf(PartIndex(i, j))
          = {e \in Entries : (ThreadOf(e) * n) + A.coo.row_index[e] = ((j - 1) * n) + i}
    BY DEF PartialOf, PartIndex, Entries
  <2>3. ASSUME NEW e \in Entries
        PROVE  ((ThreadOf(e) * n) + A.coo.row_index[e] = ((j - 1) * n) + i)
                 <=> (ThreadOf(e) = j - 1 /\ A.coo.row_index[e] = i)
    <3> DEFINE a == ThreadOf(e)
               b == j - 1
               p == A.coo.row_index[e]
    <3>1. a \in Nat /\ b \in Nat /\ p \in 0 .. n - 1
      BY <1>1, <1>4, <2>1, EntriesAreValid DEF Rows
    <3> HIDE DEF a, b, p, n
    <3>2. (a * n) + p = (b * n) + i => a = b /\ p = i
      BY <1>1, <3>1, PlaceIsOne
    <3>3. ((a * n) + p = (b * n) + i) <=> (a = b /\ p = i)
      BY <3>2
    <3>4. QED
      BY <3>3 DEF a, b, p
  <2>4. \A e \in Entries : ThreadOf(e) + 1 = j <=> ThreadOf(e) = j - 1
    BY <1>1, <1>4
  <2>5. {e \in S : key[e] = j} = {e \in Entries : A.coo.row_index[e] = i /\ ThreadOf(e) + 1 = j}
    BY <1>2
  <2>6. QED
    BY <2>2, <2>3, <2>4, <2>5
<1> HIDE DEF key
<1>7. PartsByKey(EntryTerms, S, T, key) = PartsOfRow(i)
  BY <1>6 DEF PartsByKey, PartsOfRow, Partial
<1>8. SumFunctionOnSet(EntryTerms, S) = SumFunctionOnSet(PartsByKey(EntryTerms, S, T, key), T)
  <2> HIDE DEF S, T
  <2>1. QED
    BY <1>3, <1>5, SumByKey
<1>9. CooProduct(i) = SumFunctionOnSet(EntryTerms, S)
  BY CooProductIs
<1>10. \A j \in T : PartsOfRow(i)[j] \in Int
  BY PartialIsInt DEF PartsOfRow
<1>11. QED
  BY <1>7, <1>8, <1>9, <1>10

LEMMA AmountOfPart ==
  ASSUME OptionsInv, HasCoo, NEW r \in Int, NEW i, NEW j \in 1 .. num_threads
  PROVE  /\ Amount(ReduceUpdates(i)[j], r) = r * Partial(PartIndex(i, j))
         /\ Amount(ReduceUpdates(i)[j], r) \in Int
         /\ ReduceUpdates(i)[j].to = Cell("y", i)
<1> DEFINE k == PartIndex(i, j)
           cell == Cell("workspace", k)
           u == ReduceUpdates(i)[j]
           f == [c \in {cell} |-> r * Partial(c.index)]
<1>1. u.to = Cell("y", i) /\ u.addend = 0 /\ u.from = {cell}
  BY DEF ReduceUpdates, PartIndex
<1>2. Partial(k) \in Int
  BY PartialIsInt
<1>3. cell.index = k
  BY DEF Cell
<1> HIDE DEF k, cell, u
<1>4. r * Partial(k) \in Int
  BY <1>2
<1>5. f[cell] = r * Partial(k)
  BY <1>3
<1>6. Amount(u, r) = 0 + SumFunctionOnSet(f, {cell})
  BY <1>1 DEF Amount
<1> HIDE DEF f
<1>7. SumFunctionOnSet(f, {cell}) = r * Partial(k)
  BY <1>4, <1>5, SumOfOne
<1>8. Amount(u, r) = r * Partial(k)
  BY <1>4, <1>6, <1>7
<1>9. QED
  BY <1>1, <1>4, <1>8 DEF u, k

LEMMA ReduceOwe ==
  ASSUME OptionsInv, HasCoo, NEW r \in Int, NEW c, NEW list, list = [t \in Team |-> ReduceLoop(t)]
  PROVE  /\ \A t \in Team : IsSound(list[t], r)
         /\ SumFunctionOnSet(Totals(list, Team, c, r), Team) \in Int
         /\ \A i \in Rows(m) : c = Cell("y", i) =>
              SumFunctionOnSet(Totals(list, Team, c, r), Team) = r * CooProduct(i)
         /\ (c.array # "y") => SumFunctionOnSet(Totals(list, Team, c, r), Team) = 0
<1> DEFINE N == Rows(m)
           w == num_threads
           u == [i \in N |-> ReduceUpdates(i)]
           share == [t \in Team |-> Scheduled(m.rows, CooChunk, team, t)]
           v == WorthsOf(u, w, c, r, N)
           total == SumFunctionOnSet(Totals(list, Team, c, r), Team)
<1>1. /\ CooChunk \in Nat \ {0} /\ IsFiniteSet(Team) /\ IsFiniteSet(N) /\ N \in SUBSET Int
      /\ m.rows \in Nat /\ team \in Nat \ {0} /\ Team = 0 .. team - 1 /\ N = 0 .. m.rows - 1
      /\ w \in Nat \ {0}
  BY ChunksAre, OptionsAre DEF Rows
<1>2. IsShared(share, Team, N)
  BY <1>1, ScheduledIsShared
<1>3. ASSUME NEW t \in Team
      PROVE  IsListed(list[t], share[t], w, u)
  <2> DEFINE S == share[t]
             s == list[t]
  <2>1. s = [n \in 1 .. w * Cardinality(S) |->
              ReduceUpdates(Ascending(S)[((n - 1) \div w) + 1])[((n - 1) % w) + 1]]
    BY DEF ReduceLoop, InOrder
  <2>2. S \in SUBSET N /\ S \in SUBSET Int /\ IsFiniteSet(S)
    BY <1>1, <1>2, FS_Subset DEF IsShared
  <2> HIDE DEF S, s, N, w
  <2>3. \A n \in 1 .. w * Cardinality(S) : Ascending(S)[((n - 1) \div w) + 1] \in N
    BY <1>1, <2>2, PlaceOfUpdate
  <2>4. s = [n \in 1 .. w * Cardinality(S) |->
              u[Ascending(S)[((n - 1) \div w) + 1]][((n - 1) % w) + 1]]
    BY <2>1, <2>3
  <2> HIDE DEF u
  <2>5. IsListed(s, S, w, u)
    BY <2>4 DEF IsListed, IsInOrder
  <2>6. QED
    BY <2>5 DEF s, S
<1>4. \A i \in N : \A j \in 1 .. w :
         /\ Amount(u[i][j], r) = r * PartsOfRow(i)[j] /\ Amount(u[i][j], r) \in Int
         /\ u[i][j].to = Cell("y", i)
  BY AmountOfPart DEF PartsOfRow
<1>5. \A i \in N : v[i] = SumFunctionOnSet([j \in 1 .. w |-> Worth(u[i][j], c, r)], 1 .. w)
  BY DEF WorthsOf, WorthOf
<1> HIDE DEF share, u, v
<1>6. Amounts(u, w, r, N)
  BY <1>4 DEF Amounts
<1>7. /\ \A t \in Team : IsSound(list[t], r)
      /\ total = SumFunctionOnSet(v, N) /\ total \in Int
  <2> HIDE DEF w, N
  <2>1. AllListed(list, share, Team, w, u)
    BY <1>3 DEF AllListed
  <2>2. IsFiniteSet(Team) /\ N \in SUBSET Int /\ IsFiniteSet(N) /\ w \in Nat \ {0}
    BY <1>1
  <2> HIDE DEF total
  <2>3. /\ AllSound(list, Team, r)
        /\ SumFunctionOnSet(Totals(list, Team, c, r), Team)
             = SumFunctionOnSet(WorthsOf(u, w, c, r, N), N)
        /\ SumFunctionOnSet(Totals(list, Team, c, r), Team) \in Int
    BY <1>2, <1>6, <2>1, <2>2, SharedOwe
  <2>4. QED
    BY <2>3 DEF v, total, AllSound
<1>8. IsFiniteSet(1 .. w)
  <2>1. 1 \in Int /\ w \in Int
    BY <1>1
  <2>2. QED
    BY <2>1, IntervalSize
<1>9. ASSUME NEW i \in N, c # Cell("y", i)
      PROVE  v[i] = 0
  <2> DEFINE f == [j \in 1 .. w |-> Worth(u[i][j], c, r)]
             W == 1 .. w
  <2>1. \A j \in W : f[j] = 0
    BY <1>4, <1>9 DEF Worth
  <2>2. v[i] = SumFunctionOnSet(f, W) /\ IsFiniteSet(W)
    BY <1>5, <1>8
  <2> HIDE DEF f, W
  <2>3. QED
    BY <2>1, <2>2, SumOfZeros
<1>10. ASSUME NEW i \in N, c = Cell("y", i)
       PROVE  v[i] = r * CooProduct(i) /\ v[i] \in Int
  <2> DEFINE f == [j \in 1 .. w |-> Worth(u[i][j], c, r)]
             g == PartsOfRow(i)
             W == 1 .. w
  <2>1. \A j \in W : f[j] = r * g[j]
    BY <1>4, <1>10 DEF Worth
  <2>2. v[i] = SumFunctionOnSet(f, W) /\ IsFiniteSet(W)
    BY <1>5, <1>8
  <2>3. SumFunctionOnSet(g, W) = CooProduct(i) /\ \A j \in W : g[j] \in Int
    BY PartsAddUp
  <2> HIDE DEF f, W, g
  <2>4. SumFunctionOnSet(f, W) = r * SumFunctionOnSet(g, W)
    BY <2>1, <2>2, <2>3, SumOfMultiples
  <2>5. SumFunctionOnSet(g, W) \in Int
    BY <2>2, <2>3, SumIsInt
  <2>6. QED
    BY <2>2, <2>3, <2>4, <2>5
<1> HIDE DEF N, total
<1>11. \A i \in N : c = Cell("y", i) => total = r * CooProduct(i)
  <2> SUFFICES ASSUME NEW i \in N, c = Cell("y", i) PROVE total = r * CooProduct(i)
    OBVIOUS
  <2>1. \A k \in N \ {i} : v[k] = 0
    BY <1>9 DEF Cell
  <2>2. v[i] = r * CooProduct(i) /\ v[i] \in Int
    BY <1>10
  <2>3. SumFunctionOnSet(v, N) = v[i]
    BY <1>1, <2>1, <2>2, SumOfPicked
  <2>4. QED
    BY <1>7, <2>2, <2>3
<1>12. c.array # "y" => total = 0
  <2> SUFFICES ASSUME c.array # "y" PROVE total = 0
    OBVIOUS
  <2>1. \A k \in N : v[k] = 0
    BY <1>9 DEF Cell
  <2>2. QED
    BY <1>1, <1>7, <2>1, SumOfZeros
<1>13. QED
  BY <1>7, <1>11, <1>12 DEF total, N

\* The unrolled loop adds the rows of the whole groups.
LEMMA UnrolledOwe ==
  ASSUME OptionsInv, \A i \in Rows(m) : RowSum(i) \in Int, NEW r, NEW c, NEW list,
         list = [t \in Team |-> UnrolledLoop(t)]
  PROVE  /\ \A t \in Team : IsSound(list[t], r)
         /\ SumFunctionOnSet(Totals(list, Team, c, r), Team) \in Int
         /\ \A i \in Rows(m) : c = Cell("y", i) =>
              SumFunctionOnSet(Totals(list, Team, c, r), Team) = IF i < Whole THEN RowSum(i) ELSE 0
<1> DEFINE w == kernel.unroll
           groups == Whole \div w
           N == 0 .. groups - 1
           u == [g \in N |-> UnrolledUpdates(g)]
           share == [t \in Team |-> Block(groups, team, t)]
           v == WorthsOf(u, w, c, r, N)
           total == SumFunctionOnSet(Totals(list, Team, c, r), Team)
           row(g, j) == (g * w) + (j - 1)
<1>1. /\ m.rows \in Nat /\ team \in Nat \ {0} /\ Team = 0 .. team - 1 /\ w \in Nat \ {0}
      /\ w \in {1, 2, 4} /\ Rows(m) = 0 .. m.rows - 1
      /\ groups \in Nat /\ Whole \in Nat /\ Whole <= m.rows /\ groups * w = Whole
  BY OptionsAre, WholeIs DEF Rows
<1>2. IsFiniteSet(Team) /\ IsFiniteSet(N) /\ N \in SUBSET Int
  <2>1. 0 \in Int /\ groups - 1 \in Int
    BY <1>1
  <2> HIDE DEF groups
  <2>2. QED
    BY <2>1, ChunksAre, IntervalIsFinite
<1>3. IsShared(share, Team, N)
  <2> HIDE DEF groups
  <2>1. QED
    BY <1>1, BlocksAreShared
<1>4. ASSUME NEW t \in Team
      PROVE  IsListed(list[t], share[t], w, u)
  <2> DEFINE S == share[t]
             s == list[t]
  <2>1. s = [n \in 1 .. w * Cardinality(S) |->
              UnrolledUpdates(Ascending(S)[((n - 1) \div w) + 1])[((n - 1) % w) + 1]]
    BY DEF UnrolledLoop, InOrder
  <2>2. S \in SUBSET N /\ S \in SUBSET Int /\ IsFiniteSet(S)
    <3>1. S \in SUBSET N
      BY <1>3 DEF IsShared
    <3> HIDE DEF S, N
    <3>2. QED
      BY <1>2, <3>1, FS_Subset
  <2> HIDE DEF S, s, N, w
  <2>3. \A n \in 1 .. w * Cardinality(S) : Ascending(S)[((n - 1) \div w) + 1] \in N
    BY <1>1, <2>2, PlaceOfUpdate
  <2>4. s = [n \in 1 .. w * Cardinality(S) |->
              u[Ascending(S)[((n - 1) \div w) + 1]][((n - 1) % w) + 1]]
    BY <2>1, <2>3
  <2> HIDE DEF u
  <2>5. IsListed(s, S, w, u)
    BY <2>4 DEF IsListed, IsInOrder
  <2>6. QED
    BY <2>5 DEF s, S
<1>5. ASSUME NEW g \in N, NEW j \in 1 .. w
      PROVE  u[g][j] = AddTo(Cell("y", row(g, j)), RowSum(row(g, j)))
  BY DEF UnrolledUpdates, RowUpdate
<1> HIDE DEF u, share, v, groups
<1>6. ASSUME NEW g \in N, NEW j \in 1 .. w
      PROVE  row(g, j) \in 0 .. Whole - 1 /\ row(g, j) \in Rows(m)
  <2>1. g \in Nat /\ g + 1 \in Nat /\ g + 1 <= groups /\ j \in Nat /\ 1 <= j /\ j <= w
    BY <1>1
  <2> HIDE DEF w
  <2>2. (g + 1) * w <= groups * w /\ (g + 1) * w = (g * w) + w /\ g * w \in Nat
    BY <1>1, <2>1, ProductGrows
  <2>3. row(g, j) \in 0 .. Whole - 1
    BY <1>1, <2>1, <2>2
  <2>4. QED
    BY <1>1, <2>3
<1>7. ASSUME NEW i \in 0 .. Whole - 1
      PROVE  \E h \in N : \E k \in 1 .. w : \A g \in N : \A j \in 1 .. w :
               (row(g, j) = i) <=> (g = h /\ j = k)
  <2> DEFINE h == i \div w
             rest == i % w
             k == rest + 1
  <2> HIDE DEF w
  <2>5. i \in Nat /\ w \in Nat \ {0}
    BY <1>1
  <2>1. h \in Nat /\ rest \in 0 .. w - 1 /\ i = (h * w) + rest /\ h * w \in Nat
    BY <2>5, QuotientAndRest
  <2> HIDE DEF h, rest
  <2>2. h \in N
    <3>1. h * w < groups * w
      BY <1>1, <2>1
    <3>2. h >= groups => h * w >= groups * w
      BY <1>1, <2>1
    <3>3. QED
      BY <1>1, <2>1, <3>1, <3>2
  <2>3. k \in 1 .. w
    BY <1>1, <2>1
  <2>4. ASSUME NEW g \in N, NEW j \in 1 .. w
        PROVE  (row(g, j) = i) <=> (g = h /\ j = k)
    <3> DEFINE b == j - 1
    <3>1. g \in Nat /\ b \in 0 .. w - 1 /\ (j = k <=> b = rest)
      BY <1>1, <2>1
    <3> HIDE DEF b, k
    <3>2. (g * w) + b = (h * w) + rest => g = h /\ b = rest
      BY <1>1, <2>1, <3>1, PlaceIsOne
    <3>3. row(g, j) = (g * w) + b
      BY DEF b
    <3>4. QED
      BY <2>1, <3>1, <3>2, <3>3
  <2> HIDE DEF row
  <2>6. QED
    BY <2>2, <2>3, <2>4
<1>8. \A g \in N : \A j \in 1 .. w : /\ RowSum(row(g, j)) \in Int
                                     /\ row(g, j) \in 0 .. Whole - 1
  BY <1>6
<1>9. ASSUME NEW g \in N, NEW j \in 1 .. w
      PROVE  /\ Amount(u[g][j], r) \in Int
             /\ Worth(u[g][j], c, r)
                  = IF Cell("y", row(g, j)) = c THEN RowSum(row(g, j)) ELSE 0
  <2> DEFINE a == RowSum(row(g, j))
             cell == Cell("y", row(g, j))
  <2>1. u[g][j] = AddTo(cell, a) /\ a \in Int
    BY <1>5, <1>8
  <2> HIDE DEF a, cell
  <2>2. Amount(u[g][j], r) \in Int /\ Worth(u[g][j], c, r) = IF cell = c THEN a ELSE 0
    BY <2>1, AmountOfAdd
  <2>3. QED
    BY <2>2 DEF a, cell
<1>10. \A g \in N : v[g] = SumFunctionOnSet([j \in 1 .. w |-> Worth(u[g][j], c, r)], 1 .. w)
  BY DEF WorthsOf, WorthOf, v
<1>11. Amounts(u, w, r, N)
  BY <1>9 DEF Amounts
<1>12. /\ \A t \in Team : IsSound(list[t], r)
       /\ total = SumFunctionOnSet(v, N) /\ total \in Int
  <2>1. AllListed(list, share, Team, w, u)
    BY <1>4 DEF AllListed
  <2>2. w \in Nat \ {0}
    BY <1>1
  <2> HIDE DEF w, N, total
  <2>3. /\ AllSound(list, Team, r)
        /\ SumFunctionOnSet(Totals(list, Team, c, r), Team)
             = SumFunctionOnSet(WorthsOf(u, w, c, r, N), N)
        /\ SumFunctionOnSet(Totals(list, Team, c, r), Team) \in Int
    BY <1>2, <1>3, <1>11, <2>1, <2>2, SharedOwe
  <2>4. QED
    BY <2>3 DEF v, total, AllSound
<1>13. IsFiniteSet(1 .. w)
  <2>1. 1 \in Int /\ w \in Int
    BY <1>1
  <2>2. QED
    BY <2>1, IntervalSize
<1>14. ASSUME NEW g \in N, \A j \in 1 .. w : Cell("y", row(g, j)) # c
       PROVE  v[g] = 0
  <2> DEFINE f == [j \in 1 .. w |-> Worth(u[g][j], c, r)]
             W == 1 .. w
  <2>1. \A j \in W : f[j] = 0
    BY <1>9, <1>14
  <2>2. v[g] = SumFunctionOnSet(f, W) /\ IsFiniteSet(W)
    BY <1>10, <1>13
  <2> HIDE DEF f, W
  <2>3. QED
    BY <2>1, <2>2, SumOfZeros
<1>15. ASSUME NEW i \in Rows(m), c = Cell("y", i), ~ (i < Whole)
       PROVE  total = 0
  <2>1. \A g \in N : \A j \in 1 .. w : Cell("y", row(g, j)) # c
    <3>1. \A k \in 0 .. Whole - 1 : k # i
      BY <1>1, <1>15
    <3> HIDE DEF row
    <3>2. QED
      BY <1>8, <1>15, <3>1 DEF Cell
  <2>2. \A g \in N : v[g] = 0
    BY <1>14, <2>1
  <2> HIDE DEF N, total
  <2>3. QED
    BY <1>2, <1>12, <2>2, SumOfZeros
<1>16. ASSUME NEW i \in Rows(m), c = Cell("y", i), i < Whole
       PROVE  total = RowSum(i)
  <2>1. i \in 0 .. Whole - 1 /\ RowSum(i) \in Int
    BY <1>1, <1>16
  <2>2. PICK h \in N : \E k \in 1 .. w : \A g \in N : \A j \in 1 .. w :
               (row(g, j) = i) <=> (g = h /\ j = k)
    BY <1>7, <2>1
  <2>3. PICK k \in 1 .. w : \A g \in N : \A j \in 1 .. w :
               (row(g, j) = i) <=> (g = h /\ j = k)
    BY <2>2
  <2> HIDE DEF row
  <2>4. \A g \in N \ {h} : v[g] = 0
    <3> SUFFICES ASSUME NEW g \in N \ {h} PROVE v[g] = 0
      OBVIOUS
    <3>1. \A j \in 1 .. w : Cell("y", row(g, j)) # c
      BY <1>16, <2>3 DEF Cell
    <3>2. QED
      BY <1>14, <3>1
  <2>5. v[h] = RowSum(i)
    <3> DEFINE f == [j \in 1 .. w |-> Worth(u[h][j], c, r)]
               W == 1 .. w
    <3>1. \A j \in W \ {k} : f[j] = 0
      BY <1>9, <1>16, <2>3 DEF Cell
    <3>2. v[h] = SumFunctionOnSet(f, W) /\ IsFiniteSet(W) /\ k \in W
      BY <1>10, <1>13
    <3>3. f[k] = RowSum(i)
      BY <1>9, <1>16, <2>3
    <3> HIDE DEF f, W
    <3>4. QED
      BY <2>1, <3>1, <3>2, <3>3, SumOfPicked
  <2> HIDE DEF N, total
  <2>6. SumFunctionOnSet(v, N) = v[h]
    BY <1>2, <2>1, <2>4, <2>5, SumOfPicked
  <2>7. QED
    BY <1>12, <2>5, <2>6
<1>17. QED
  BY <1>12, <1>15, <1>16 DEF total

-----------------------------------------------------------------------------
(* What a run adds *)

\* What loop l has thread t add to cell c in run r, and the loops after it.
Due(l, t, c, r) ==
  IF l \in 1 .. Len(Loops) /\ Loops[l] # "remainder" THEN Owed(Updates(Loops[l], t), c, r) ELSE 0
Ahead(l, t, c, r) ==
  (IF l < 1 THEN Due(1, t, c, r) ELSE 0) +
  ((IF l < 2 THEN Due(2, t, c, r) ELSE 0) + (IF l < 3 THEN Due(3, t, c, r) ELSE 0))
RemainderOwes(c, r) ==
  IF Loops = <<"unrolled", "remainder">> THEN Owed(RemainderLoop, c, r) ELSE 0

\* What is in cell c at the end of run r.
Goal(c, r) ==
  IF c.array = "y"
  THEN (r * Product(m, x, c.index))
         + (IF UsesWorkspace THEN ((r * (r - 1)) \div 2) * CooProduct(c.index) ELSE 0)
  ELSE r * Partial(c.index)

Cells == {Cell("y", i) : i \in Rows(m)} \cup
         {Cell("workspace", k) : k \in IF UsesWorkspace THEN 0 .. (num_threads * m.rows) - 1 ELSE {}}

LoopAdds(name, c, r) ==
  CASE name = "rows" -> IF c.array = "y" THEN RowSum(c.index) ELSE 0
    [] name \in {"direct", "atomic"} -> IF c.array = "y" THEN CooProduct(c.index) ELSE 0
    [] name = "partial" -> IF c.array = "y" THEN 0 ELSE Partial(c.index)
    [] name = "reduce" -> IF c.array = "y" THEN r * CooProduct(c.index) ELSE 0
    [] name = "unrolled" -> IF c.index < Whole THEN RowSum(c.index) ELSE 0

LEMMA CellsAre ==
  ASSUME NEW c \in Cells
  PROVE  \/ c.array = "y" /\ c.index \in Rows(m) /\ c = Cell("y", c.index)
         \/ /\ c.array = "workspace" /\ c = Cell("workspace", c.index) /\ UsesWorkspace
            /\ c.index \in 0 .. (num_threads * m.rows) - 1
BY DEF Cells, Cell

LEMMA LoopCount ==
  ASSUME OptionsInv
  PROVE  Len(Loops) \in 1 .. 3
BY LoopForms

\* The sums over the threads, loop by loop.
Dues(l, c, r) == [t \in Team |-> Due(l, t, c, r)]

LEMMA RowSumsAreInt ==
  ASSUME OptionsInv, kernel.format \notin {"coo", "coo_atomic"}
  PROVE  \A i \in Rows(m) : RowSum(i) \in Int
<1>1. ~ HasCoo \/ kernel.format \in {"hybrid", "hybrid_skip"}
  BY DEF HasCoo
<1>2. QED
  BY <1>1, RowSumIs

LEMMA LoopOwes ==
  ASSUME OptionsInv, NEW l \in 1 .. Len(Loops), Loops[l] # "remainder", NEW c \in Cells, NEW r \in Nat
  PROVE  /\ \A t \in Team : IsSound(Updates(Loops[l], t), r)
         /\ SumFunctionOnSet(Dues(l, c, r), Team) = LoopAdds(Loops[l], c, r)
         /\ LoopAdds(Loops[l], c, r) \in Int
<1> DEFINE name == Loops[l]
           list == [t \in Team |-> Updates(name, t)]
           total == SumFunctionOnSet(Totals(list, Team, c, r), Team)
<1>1. Dues(l, c, r) = Totals(list, Team, c, r)
  BY DEF Dues, Due, Totals
<1>2. /\ name \in {"direct", "atomic", "partial", "reduce", "rows", "unrolled"}
      /\ name = "direct" => HasCoo /\ num_threads = 1 /\ ~ UsesWorkspace
      /\ name = "atomic" => HasCoo /\ kernel.format = "coo_atomic" /\ ~ UsesWorkspace
      /\ name \in {"partial", "reduce"} => HasCoo
      /\ name \in {"rows", "unrolled"} => kernel.format \notin {"coo", "coo_atomic"}
      /\ name = "unrolled" => ~ UsesWorkspace
  BY KernelForms DEF HasCoo
<1>3. r \in Int
  OBVIOUS
<1>4. \A t \in Team : list[t] = Updates(name, t)
  OBVIOUS
<1>5. \/ c.array = "y" /\ c.index \in Rows(m) /\ c = Cell("y", c.index)
      \/ c.array = "workspace" /\ c = Cell("workspace", c.index) /\ UsesWorkspace
  BY CellsAre
<1> HIDE DEF name
<1>6. SUFFICES /\ \A t \in Team : IsSound(list[t], r)
               /\ total = LoopAdds(name, c, r) /\ total \in Int
  BY <1>1, <1>4 DEF name
<1>7. CASE name = "rows"
  <2>1. list = [t \in Team |-> RowsLoop(t)]
    BY <1>7 DEF Updates
  <2>2. \A i \in Rows(m) : RowSum(i) \in Int
    BY <1>2, <1>7, RowSumsAreInt
  <2> DEFINE sound == \A t \in Team : IsSound(list[t], r)
  <2>3. /\ sound /\ total \in Int
        /\ \A i \in Rows(m) : c = Cell("y", i) => total = RowSum(i)
        /\ c.array # "y" => total = 0
    <3> HIDE DEF list
    <3>1. QED
      BY <2>1, <2>2, RowsOwe
  <2> HIDE DEF total, list
  <2>4. total = LoopAdds(name, c, r)
    BY <1>5, <1>7, <2>3 DEF LoopAdds
  <2>5. QED
    BY <2>3, <2>4
<1>8. CASE name \in {"direct", "atomic"}
  <2>1. /\ \A t \in Team : IsSound(list[t], r)
        /\ total \in Int
        /\ total = SumFunctionOnSet(EntryTerms, AddedTo(RowCells, Entries, c))
    <3>1. CASE name = "direct"
      <4>1. list = [t \in Team |-> DirectLoop]
        BY <3>1 DEF Updates
      <4> HIDE DEF list
      <4>2. QED
        BY <1>2, <3>1, <4>1, DirectOwe
    <3>2. CASE name = "atomic"
      <4>1. list = [t \in Team |-> AtomicLoop(t)]
        BY <3>2 DEF Updates
      <4> HIDE DEF list
      <4>2. QED
        BY <1>2, <3>2, <4>1, AtomicOwe
    <3>3. QED
      BY <1>8, <3>1, <3>2
  <2>2. c.array = "y" /\ c.index \in Rows(m) /\ c = Cell("y", c.index)
    BY <1>2, <1>5, <1>8
  <2>3. AddedTo(RowCells, Entries, c) = EntriesOf(c.index)
    BY <2>2, RowCellsAre
  <2>4. CooProduct(c.index) = SumFunctionOnSet(EntryTerms, EntriesOf(c.index))
    BY <1>2, <1>8, <2>2, CooProductIs
  <2> HIDE DEF total, list
  <2>5. total = LoopAdds(name, c, r)
    BY <1>8, <2>1, <2>2, <2>3, <2>4 DEF LoopAdds
  <2>6. QED
    BY <2>1, <2>5
<1>9. CASE name = "partial"
  <2>1. list = [t \in Team |-> PartialLoop(t)]
    BY <1>9 DEF Updates
  <2>2. /\ \A t \in Team : IsSound(list[t], r)
        /\ total \in Int
        /\ total = SumFunctionOnSet(EntryTerms, AddedTo(PartCells, Entries, c))
    <3> HIDE DEF list
    <3>1. QED
      BY <1>2, <1>9, <2>1, PartialOwe
  <2> HIDE DEF total, list
  <2>3. CASE c.array = "y"
    <3>1. total = 0
      BY <2>2, <2>3, RowCellsAre, SumOfNone
    <3>2. QED
      BY <1>9, <2>2, <2>3, <3>1 DEF LoopAdds
  <2>4. CASE c.array # "y"
    <3>1. c = Cell("workspace", c.index)
      BY <1>5, <2>4
    <3>2. total = Partial(c.index)
      BY <2>2, <3>1, RowCellsAre DEF Partial
    <3>3. QED
      BY <1>9, <2>2, <2>4, <3>2 DEF LoopAdds
  <2>5. QED
    BY <2>3, <2>4
<1>10. CASE name = "reduce"
  <2>1. list = [t \in Team |-> ReduceLoop(t)]
    BY <1>10 DEF Updates
  <2> DEFINE sound == \A t \in Team : IsSound(list[t], r)
  <2>2. /\ sound /\ total \in Int
        /\ \A i \in Rows(m) : c = Cell("y", i) => total = r * CooProduct(i)
        /\ c.array # "y" => total = 0
    <3> HIDE DEF list
    <3>1. QED
      BY <1>2, <1>3, <1>10, <2>1, ReduceOwe
  <2> HIDE DEF total, list
  <2>3. total = LoopAdds(name, c, r)
    BY <1>5, <1>10, <2>2 DEF LoopAdds
  <2>4. QED
    BY <2>2, <2>3
<1>11. CASE name = "unrolled"
  <2>1. list = [t \in Team |-> UnrolledLoop(t)]
    BY <1>11 DEF Updates
  <2>2. \A i \in Rows(m) : RowSum(i) \in Int
    BY <1>2, <1>11, RowSumsAreInt
  <2> DEFINE sound == \A t \in Team : IsSound(list[t], r)
  <2>3. /\ sound /\ total \in Int
        /\ \A i \in Rows(m) : c = Cell("y", i) => total = IF i < Whole THEN RowSum(i) ELSE 0
    <3> HIDE DEF list
    <3>1. QED
      BY <2>1, <2>2, UnrolledOwe
  <2>4. c.array = "y" /\ c.index \in Rows(m) /\ c = Cell("y", c.index)
    BY <1>2, <1>5, <1>11
  <2> HIDE DEF total, list
  <2>5. total = LoopAdds(name, c, r)
    BY <1>11, <2>3, <2>4 DEF LoopAdds
  <2>6. QED
    BY <2>3, <2>5
<1>12. QED
  BY <1>2, <1>7, <1>8, <1>9, <1>10, <1>11

LEMMA Triangle ==
  ASSUME NEW r \in Nat
  PROVE  /\ (r * (r - 1)) \div 2 \in Int
         /\ ((r + 1) * r) \div 2 = ((r * (r - 1)) \div 2) + r
<1> DEFINE a == r * (r - 1)
<1>1. a \in Int /\ (r + 1) * r = a + (2 * r)
  OBVIOUS
<1> HIDE DEF a
<1>2. (a + (2 * r)) \div 2 = (a \div 2) + r /\ a \div 2 \in Int
  BY <1>1
<1>3. QED
  BY <1>1, <1>2 DEF a

LEMMA DueIsInt ==
  ASSUME OptionsInv, NEW l, NEW t \in Team, NEW c \in Cells, NEW r \in Nat
  PROVE  Due(l, t, c, r) \in Int
<1>1. CASE l \in 1 .. Len(Loops) /\ Loops[l] # "remainder"
  <2>1. IsSound(Updates(Loops[l], t), r)
    BY <1>1, LoopOwes
  <2>2. QED
    BY <1>1, <2>1, OwedIsInt DEF Due
<1>2. CASE ~ (l \in 1 .. Len(Loops) /\ Loops[l] # "remainder")
  BY <1>2 DEF Due
<1>3. QED
  BY <1>1, <1>2

\* A loop's share is what entering it takes from what is ahead.
LEMMA AheadIs ==
  ASSUME OptionsInv, NEW t \in Team, NEW c \in Cells, NEW r \in Nat
  PROVE  /\ \A l \in 0 .. EndOfRun : Ahead(l, t, c, r) \in Int
         /\ \A l \in 0 .. Len(Loops) : Ahead(l, t, c, r) = Due(l + 1, t, c, r) + Ahead(l + 1, t, c, r)
         /\ \A l \in Nat : l >= Len(Loops) => Ahead(l, t, c, r) = 0
         /\ Due(EndOfRun, t, c, r) = 0
<1> DEFINE d == [l \in 0 .. 5 |-> Due(l, t, c, r)]
           a == [l \in 0 .. 4 |-> Ahead(l, t, c, r)]
           n == Len(Loops)
<1>1. n \in {1, 2, 3} /\ EndOfRun = n + 1
  BY LoopCount DEF EndOfRun
<1>2. \A l \in 0 .. 5 : d[l] \in Int /\ (l > n => d[l] = 0)
  <2> SUFFICES ASSUME NEW l \in 0 .. 5
               PROVE  d[l] \in Int /\ (l > n => d[l] = 0)
    OBVIOUS
  <2>1. d[l] = Due(l, t, c, r)
    OBVIOUS
  <2>2. Due(l, t, c, r) \in Int
    BY DueIsInt
  <2>3. l > n => Due(l, t, c, r) = 0
    BY <1>1 DEF Due
  <2> HIDE DEF d, n
  <2>4. QED
    BY <2>1, <2>2, <2>3
<1>3. /\ a[0] = d[1] + (d[2] + d[3]) /\ a[1] = 0 + (d[2] + d[3]) /\ a[2] = 0 + (0 + d[3])
      /\ a[3] = 0 + (0 + 0) /\ a[4] = 0 + (0 + 0)
  <2> DEFINE e(l) == Due(l, t, c, r)
  <2>1. /\ Ahead(0, t, c, r) = e(1) + (e(2) + e(3)) /\ Ahead(1, t, c, r) = 0 + (e(2) + e(3))
        /\ Ahead(2, t, c, r) = 0 + (0 + e(3))
    BY DEF Ahead
  <2>2. Ahead(3, t, c, r) = 0 + (0 + 0) /\ Ahead(4, t, c, r) = 0 + (0 + 0)
    BY DEF Ahead
  <2>3. d[1] = e(1) /\ d[2] = e(2) /\ d[3] = e(3)
    OBVIOUS
  <2>4. /\ a[0] = Ahead(0, t, c, r) /\ a[1] = Ahead(1, t, c, r) /\ a[2] = Ahead(2, t, c, r)
        /\ a[3] = Ahead(3, t, c, r) /\ a[4] = Ahead(4, t, c, r)
    OBVIOUS
  <2> HIDE DEF a, d, e
  <2>5. QED
    BY <2>1, <2>2, <2>3, <2>4
<1>4. \A l \in Nat : l >= 3 => Ahead(l, t, c, r) = 0
  BY DEF Ahead
<1>5. \A l \in 0 .. 4 : a[l] = Ahead(l, t, c, r) /\ d[l + 1] = Due(l + 1, t, c, r)
  BY SMT
<1> HIDE DEF d, a, n
<1>6. /\ d[1] \in Int /\ d[2] \in Int /\ d[3] \in Int /\ d[4] = 0
      /\ n < 2 => d[2] = 0
      /\ n < 3 => d[3] = 0
  BY <1>1, <1>2
<1>7. a[1] = d[2] + d[3] /\ a[2] = d[3] /\ a[3] = 0 /\ a[4] = 0
  BY <1>3, <1>6
<1>8. /\ a[0] \in Int /\ a[1] \in Int /\ a[2] \in Int
      /\ a[0] = d[1] + a[1] /\ a[1] = d[2] + a[2] /\ a[2] = d[3] + a[3] /\ a[3] = d[4] + a[4]
  BY <1>3, <1>6, <1>7
<1>9. \A l \in 0 .. EndOfRun : Ahead(l, t, c, r) \in Int
  <2> SUFFICES ASSUME NEW l \in 0 .. EndOfRun PROVE Ahead(l, t, c, r) \in Int
    OBVIOUS
  <2>1. l \in {0, 1, 2, 3, 4} /\ l \in 0 .. 4
    BY <1>1
  <2>2. a[l] \in Int
    BY <1>7, <1>8, <2>1
  <2>3. QED
    BY <1>5, <2>1, <2>2
<1>10. \A l \in 0 .. n : Ahead(l, t, c, r) = Due(l + 1, t, c, r) + Ahead(l + 1, t, c, r)
  <2> SUFFICES ASSUME NEW l \in 0 .. n
               PROVE  Ahead(l, t, c, r) = Due(l + 1, t, c, r) + Ahead(l + 1, t, c, r)
    OBVIOUS
  <2>1. l \in {0, 1, 2, 3} /\ l \in 0 .. 4 /\ l + 1 \in 0 .. 4
    BY <1>1
  <2>2. a[l] = d[l + 1] + a[l + 1]
    BY <1>8, <2>1
  <2>3. QED
    BY <1>5, <2>1, <2>2
<1>11. \A l \in Nat : l >= n => Ahead(l, t, c, r) = 0
  <2> SUFFICES ASSUME NEW l \in Nat, l >= n, l < 3 PROVE Ahead(l, t, c, r) = 0
    BY <1>4
  <2>1. l \in {1, 2} /\ l \in 0 .. 4 /\ (l = 1 => n < 2) /\ n < 3
    BY <1>1
  <2>2. a[l] = 0
    BY <1>6, <1>7, <2>1
  <2>3. QED
    BY <1>5, <2>1, <2>2
<1>12. Due(EndOfRun, t, c, r) = 0
  BY <1>1 DEF Due, n
<1>13. QED
  BY <1>9, <1>10, <1>11, <1>12 DEF n

\* What is ahead of the threads as a run starts.
Aheads(l, c, r) == [t \in Team |-> Ahead(l, t, c, r)]
RunAdds(c, r) == SumFunctionOnSet(Aheads(0, c, r), Team) + RemainderOwes(c, r)

LEMMA AheadsAre ==
  ASSUME OptionsInv, NEW c \in Cells, NEW r \in Nat
  PROVE  /\ SumFunctionOnSet(Aheads(0, c, r), Team)
              = SumFunctionOnSet(Dues(1, c, r), Team)
                  + (SumFunctionOnSet(Dues(2, c, r), Team) + SumFunctionOnSet(Dues(3, c, r), Team))
         /\ \A l \in 1 .. 3 : SumFunctionOnSet(Dues(l, c, r), Team) \in Int
<1> DEFINE f == Aheads(0, c, r)
           g == Dues(1, c, r)
           h == [t \in Team |-> Due(2, t, c, r) + Due(3, t, c, r)]
           k == Dues(2, c, r)
           n == Dues(3, c, r)
<1>1. IsFiniteSet(Team)
  BY ChunksAre
<1>2. \A t \in Team : Due(1, t, c, r) \in Int /\ Due(2, t, c, r) \in Int /\ Due(3, t, c, r) \in Int
  BY DueIsInt
<1>3. \A t \in Team : /\ g[t] \in Int /\ h[t] \in Int /\ f[t] = g[t] + h[t]
                      /\ k[t] \in Int /\ n[t] \in Int /\ h[t] = k[t] + n[t]
  BY <1>2 DEF Aheads, Ahead, Dues
<1> HIDE DEF f, g, h, k, n
<1>4. SumFunctionOnSet(f, Team) = SumFunctionOnSet(g, Team) + SumFunctionOnSet(h, Team)
  BY <1>1, <1>3, SumOfSums
<1>5. SumFunctionOnSet(h, Team) = SumFunctionOnSet(k, Team) + SumFunctionOnSet(n, Team)
  BY <1>1, <1>3, SumOfSums
<1>6. /\ SumFunctionOnSet(g, Team) \in Int /\ SumFunctionOnSet(k, Team) \in Int
      /\ SumFunctionOnSet(n, Team) \in Int
  BY <1>1, <1>3, SumIsInt
<1>7. \A l \in 1 .. 3 : SumFunctionOnSet(Dues(l, c, r), Team) \in Int
  <2>1. \A l \in 1 .. 3 : l = 1 \/ l = 2 \/ l = 3
    OBVIOUS
  <2>2. QED
    BY <1>6, <2>1 DEF g, k, n
<1>8. QED
  BY <1>4, <1>5, <1>7 DEF f, g, k, n

LEMMA NothingDue ==
  ASSUME OptionsInv, NEW l, ~ (l \in 1 .. Len(Loops) /\ Loops[l] # "remainder"), NEW c, NEW r
  PROVE  SumFunctionOnSet(Dues(l, c, r), Team) = 0
<1> DEFINE f == Dues(l, c, r)
<1>1. \A t \in Team : f[t] = 0
  BY DEF Dues, Due
<1>2. IsFiniteSet(Team)
  BY ChunksAre
<1> HIDE DEF f
<1>3. SumFunctionOnSet(f, Team) = 0
  BY <1>1, <1>2, SumOfZeros
<1>4. QED
  BY <1>3 DEF f

\* A run takes every cell from one goal to the next.
LEMMA RunReachesGoal ==
  ASSUME OptionsInv, NEW c \in Cells, NEW r \in Nat
  PROVE  /\ Goal(c, r) \in Int /\ RunAdds(c, r + 1) \in Int
         /\ Goal(c, r + 1) = Goal(c, r) + RunAdds(c, r + 1)
<1> DEFINE q == r + 1
           d(l) == SumFunctionOnSet(Dues(l, c, q), Team)
           i == c.index
           P == Product(m, x, i)
           C == CooProduct(i)
           R == RowSum(i)
           tri == (r * (r - 1)) \div 2
<1>1. /\ RunAdds(c, q) = (d(1) + (d(2) + d(3))) + RemainderOwes(c, q)
      /\ q \in Nat
  BY AheadsAre DEF RunAdds
<1>2. /\ tri \in Int /\ (q * (q - 1)) \div 2 = tri + r
  <2>1. q - 1 = r
    OBVIOUS
  <2> HIDE DEF q, tri
  <2>2. QED
    BY <2>1, Triangle DEF q, tri
<1>3. \A l : (l \in 1 .. Len(Loops) /\ Loops[l] # "remainder") => d(l) = LoopAdds(Loops[l], c, q)
  BY <1>1, LoopOwes
<1>4. \A l : ~ (l \in 1 .. Len(Loops) /\ Loops[l] # "remainder") => d(l) = 0
  BY NothingDue
<1>5. Loops # <<"unrolled", "remainder">> => RemainderOwes(c, q) = 0
  BY DEF RemainderOwes
<1>6. CASE c.array = "y"
  <2>1. i \in Rows(m) /\ c = Cell("y", i)
    BY <1>6, CellsAre DEF Cell
  <2>2. /\ P \in Int
        /\ ~ HasCoo => R = P
        /\ kernel.format \in {"coo", "coo_atomic"} => C = P
        /\ kernel.format \in {"hybrid", "hybrid_skip"} => R \in Int /\ R + C = P
    BY <2>1, RowSumIs
  <2>3. HasCoo => C \in Int
    BY <2>1, CooProductIs
  <2>4. /\ Goal(c, r) = (r * P) + (IF UsesWorkspace THEN tri * C ELSE 0)
        /\ Goal(c, q) = (q * P) + (IF UsesWorkspace THEN (tri + r) * C ELSE 0)
    BY <1>2, <1>6 DEF Goal
  <2>5. /\ LoopAdds("rows", c, q) = R /\ LoopAdds("direct", c, q) = C /\ LoopAdds("atomic", c, q) = C
        /\ LoopAdds("partial", c, q) = 0 /\ LoopAdds("reduce", c, q) = q * C
        /\ LoopAdds("unrolled", c, q) = IF i < Whole THEN R ELSE 0
    BY <1>6 DEF LoopAdds
  <2>6. Loops = <<"unrolled", "remainder">> /\ ~ HasCoo => RemainderOwes(c, q) = IF i < Whole THEN 0 ELSE R
    <3> SUFFICES ASSUME Loops = <<"unrolled", "remainder">>, ~ HasCoo
                 PROVE  RemainderOwes(c, q) = IF i < Whole THEN 0 ELSE R
      OBVIOUS
    <3>1. \A k \in Rows(m) : RowSum(k) \in Int
      BY RowSumsAreInt DEF HasCoo
    <3>2. Owed(RemainderLoop, c, q) = IF i < Whole THEN 0 ELSE R
      BY <2>1, <3>1, RemainderAdds
    <3>3. QED
      BY <3>2 DEF RemainderOwes
  <2>7. q = r + 1
    OBVIOUS
  <2> HIDE DEF P, C, R, tri, d, i, q
  <2>8. CASE (Loops = <<"direct">> \/ Loops = <<"atomic">>) /\ HasCoo /\ ~ UsesWorkspace
             /\ kernel.format \in {"coo", "coo_atomic"}
    <3>1. d(1) = C /\ d(2) = 0 /\ d(3) = 0
      BY <1>3, <1>4, <2>5, <2>8
    <3>2. RunAdds(c, q) = P
      BY <1>1, <1>5, <2>2, <2>8, <3>1
    <3>3. q * P = (r * P) + P
      BY <2>2, <2>7
    <3>4. r * P \in Int
      BY <2>2
    <3>5. QED
      BY <2>2, <2>4, <2>8, <3>2, <3>3, <3>4 DEF q
  <2>9. ASSUME UsesWorkspace, HasCoo, RunAdds(c, q) = P + (r * C)
        PROVE  Goal(c, r) \in Int /\ RunAdds(c, q) \in Int /\ Goal(c, q) = Goal(c, r) + RunAdds(c, q)
    <3>1. q * P = (r * P) + P /\ r * P \in Int
      BY <2>2, <2>7
    <3>2. (tri + r) * C = (tri * C) + (r * C) /\ tri * C \in Int /\ r * C \in Int
      BY <1>2, <2>3, <2>9
    <3>3. QED
      BY <2>2, <2>4, <2>9, <3>1, <3>2
  <2>10. HasCoo => q * C = (r * C) + C /\ r * C \in Int
    BY <2>3, <2>7
  <2>11. CASE Loops = <<"partial", "reduce">> /\ UsesWorkspace /\ HasCoo /\ kernel.format = "coo"
    <3>1. d(1) = 0 /\ d(2) = q * C /\ d(3) = 0
      BY <1>3, <1>4, <2>5, <2>11
    <3>2. RunAdds(c, q) = P + (r * C)
      BY <1>1, <1>5, <2>2, <2>3, <2>10, <2>11, <3>1
    <3>3. QED
      BY <2>9, <2>11, <3>2 DEF q
  <2>12. CASE Loops = <<"rows", "partial", "reduce">> /\ UsesWorkspace /\ HasCoo
              /\ kernel.format \in {"hybrid", "hybrid_skip"}
    <3>1. d(1) = R /\ d(2) = 0 /\ d(3) = q * C
      BY <1>3, <1>4, <2>5, <2>12
    <3>2. RunAdds(c, q) = P + (r * C)
      BY <1>1, <1>5, <2>2, <2>3, <2>10, <2>12, <3>1
    <3>3. QED
      BY <2>9, <2>12, <3>2 DEF q
  <2>13. ASSUME ~ UsesWorkspace, RunAdds(c, q) = P
         PROVE  Goal(c, r) \in Int /\ RunAdds(c, q) \in Int /\ Goal(c, q) = Goal(c, r) + RunAdds(c, q)
    <3>1. q * P = (r * P) + P /\ r * P \in Int
      BY <2>2, <2>7
    <3>2. QED
      BY <2>2, <2>4, <2>13, <3>1
  <2>14. CASE Loops = <<"rows", "direct">> /\ ~ UsesWorkspace /\ HasCoo
              /\ kernel.format \in {"hybrid", "hybrid_skip"}
    <3>1. d(1) = R /\ d(2) = C /\ d(3) = 0
      BY <1>3, <1>4, <2>5, <2>14
    <3>2. RunAdds(c, q) = P
      BY <1>1, <1>5, <2>2, <2>3, <2>14, <3>1
    <3>3. QED
      BY <2>13, <2>14, <3>2 DEF q
  <2>15. CASE Loops = <<"unrolled", "remainder">> /\ ~ HasCoo /\ ~ UsesWorkspace
    <3>1. d(1) = (IF i < Whole THEN R ELSE 0) /\ d(2) = 0 /\ d(3) = 0
      BY <1>3, <1>4, <2>5, <2>15
    <3>2. RunAdds(c, q) = P
      BY <1>1, <2>2, <2>6, <2>15, <3>1
    <3>3. QED
      BY <2>13, <2>15, <3>2 DEF q
  <2>16. CASE Loops = <<"rows">> /\ ~ HasCoo /\ ~ UsesWorkspace
    <3>1. d(1) = R /\ d(2) = 0 /\ d(3) = 0
      BY <1>3, <1>4, <2>5, <2>16
    <3>2. RunAdds(c, q) = P
      BY <1>1, <1>5, <2>2, <2>16, <3>1
    <3>3. QED
      BY <2>13, <2>16, <3>2 DEF q
  <2>17. QED
    BY <2>8, <2>11, <2>12, <2>14, <2>15, <2>16, KernelForms
<1>7. CASE c.array = "workspace"
  <2>1. UsesWorkspace
    BY <1>7, CellsAre
  <2>2. /\ HasCoo
        /\ Loops = <<"partial", "reduce">> \/ Loops = <<"rows", "partial", "reduce">>
    BY <2>1, KernelForms
  <2>3. Partial(i) \in Int
    BY <2>2, PartialIsInt
  <2>4. Goal(c, r) = r * Partial(i) /\ Goal(c, q) = q * Partial(i)
    BY <1>7 DEF Goal
  <2>5. /\ LoopAdds("rows", c, q) = 0 /\ LoopAdds("partial", c, q) = Partial(i)
        /\ LoopAdds("reduce", c, q) = 0
    BY <1>7 DEF LoopAdds
  <2>6. q = r + 1
    OBVIOUS
  <2> HIDE DEF d, i, q
  <2>7. RunAdds(c, q) = Partial(i)
    <3>1. CASE Loops = <<"partial", "reduce">>
      <4>1. d(1) = Partial(i) /\ d(2) = 0 /\ d(3) = 0
        BY <1>3, <1>4, <2>5, <3>1
      <4>2. QED
        BY <1>1, <1>5, <2>3, <3>1, <4>1
    <3>2. CASE Loops = <<"rows", "partial", "reduce">>
      <4>1. d(1) = 0 /\ d(2) = Partial(i) /\ d(3) = 0
        BY <1>3, <1>4, <2>5, <3>2
      <4>2. QED
        BY <1>1, <1>5, <2>3, <3>2, <4>1
    <3>3. QED
      BY <2>2, <3>1, <3>2
  <2>8. q * Partial(i) = (r * Partial(i)) + Partial(i) /\ r * Partial(i) \in Int
    BY <2>3, <2>6
  <2>9. QED
    BY <2>3, <2>4, <2>7, <2>8 DEF q
<1>8. QED
  BY <1>6, <1>7, CellsAre

-----------------------------------------------------------------------------
(* The account of a run: what is in a cell and what is still to come is its
   goal *)

Rest(t, c) == Owed(todo[t], c, run) + Ahead(loop[t], t, c, run)
Rests(c) == [t \in Team |-> Rest(t, c)]
Single(c) == IF single = NoThread /\ run > 0 THEN RemainderOwes(c, run) ELSE 0
Left(c) == SumFunctionOnSet(Rests(c), Team) + Single(c)

LedgerInv == \A c \in Cells : Value(c) \in Int /\ Value(c) + Left(c) = Goal(c, run)

SoundInv == \A t \in Team : IsSound(todo[t], run)

\* A sum that is to be stored is still the one there would be.
TmpInv == \A t \in Team : tmp[t] # NoSum => Working(t) /\ ~ Atomic(t) /\ tmp[t] = <<SumFor(t)>>

StartInv ==
  /\ run = 0 => RunEnded
  /\ run > 0 /\ single = NoThread /\ Loops = <<"unrolled", "remainder">> =>
       \A t \in Team : loop[t] = 1

SumsInv == IInv /\ LedgerInv /\ SoundInv /\ TmpInv /\ StartInv /\ DOMAIN tmp = Team

\* What depends on the options only.
LEMMA AmountsStay ==
  ASSUME UNCHANGED options
  PROVE  /\ \A s, c, r : Owed(s, c, r)' = Owed(s, c, r)
         /\ \A s, r : IsSound(s, r)' <=> IsSound(s, r)
         /\ \A k : Partial(k)' = Partial(k)
         /\ \A i : CooProduct(i)' = CooProduct(i)
<1>1. m' = m /\ A' = A /\ kernel' = kernel /\ num_threads' = num_threads /\ team' = team
  BY DEF options
<1>2. x' = x /\ CooChunk' = CooChunk
  BY <1>1 DEF x, CooChunk, EntriesChunk, HybridChunk
<1>3. EntryTerms' = EntryTerms
  BY <1>1, <1>2 DEF EntryTerms
<1>4. \A e : ThreadOf(e)' = ThreadOf(e)
  BY <1>1, <1>2 DEF ThreadOf
<1>5. \A k : PartialOf(k)' = PartialOf(k)
  BY <1>1, <1>4 DEF PartialOf
<1>6. \A k : Partial(k)' = Partial(k)
  BY <1>3, <1>5 DEF Partial
<1>7. \A u, r : Amount(u, r)' = Amount(u, r)
  BY <1>6 DEF Amount
<1>8. \A u, c, r : Worth(u, c, r)' = Worth(u, c, r)
  BY <1>7 DEF Worth
<1>9. \A s, c, r : Owed(s, c, r)' = Owed(s, c, r)
  BY <1>8 DEF Owed
<1>10. \A s, r : IsSound(s, r)' <=> IsSound(s, r)
  BY <1>7 DEF IsSound
<1>11. \A i : CooProduct(i)' = CooProduct(i)
  BY <1>1, <1>2 DEF CooProduct
<1>12. QED
  BY <1>6, <1>9, <1>10, <1>11

LEMMA UpdatesStay ==
  ASSUME UNCHANGED options
  PROVE  /\ Loops' = Loops /\ Team' = Team /\ EndOfRun' = EndOfRun /\ UsesWorkspace' = UsesWorkspace
         /\ \A name, t : Updates(name, t)' = Updates(name, t)
         /\ RemainderLoop' = RemainderLoop
<1>1. m' = m /\ A' = A /\ kernel' = kernel /\ num_threads' = num_threads /\ team' = team
  BY DEF options
<1>2. x' = x /\ CooChunk' = CooChunk /\ RowsChunk' = RowsChunk /\ EntriesChunk' = EntriesChunk
      /\ Whole' = Whole
  BY <1>1 DEF x, CooChunk, EntriesChunk, HybridChunk, RowsChunk, Whole
<1>3. \A i : RowSum(i)' = RowSum(i)
  BY <1>1, <1>2 DEF RowSum
<1>4. \A i : RowUpdate(i)' = RowUpdate(i)
  BY <1>3 DEF RowUpdate
<1>5. \A k, cell : EntryUpdate(k, cell)' = EntryUpdate(k, cell)
  BY <1>1, <1>2 DEF EntryUpdate
<1>6. \A i : ReduceUpdates(i)' = ReduceUpdates(i)
  BY <1>1 DEF ReduceUpdates
<1>7. \A g : UnrolledUpdates(g)' = UnrolledUpdates(g)
  BY <1>1, <1>4 DEF UnrolledUpdates
<1>8. \A t : PartialLoop(t)' = PartialLoop(t)
  BY <1>1, <1>2, <1>5 DEF PartialLoop, InOrder
<1>9. \A t : ReduceLoop(t)' = ReduceLoop(t)
  BY <1>1, <1>2, <1>6 DEF ReduceLoop, InOrder
<1>10. DirectLoop' = DirectLoop
  BY <1>1, <1>5 DEF DirectLoop, InOrder
<1>11. \A t : AtomicLoop(t)' = AtomicLoop(t)
  BY <1>1, <1>2, <1>5 DEF AtomicLoop, InOrder
<1>12. \A t : RowsLoop(t)' = RowsLoop(t)
  BY <1>1, <1>2, <1>4 DEF RowsLoop, InOrder
<1>13. \A t : UnrolledLoop(t)' = UnrolledLoop(t)
  BY <1>1, <1>2, <1>7 DEF UnrolledLoop, InOrder
<1>14. RemainderLoop' = RemainderLoop
  BY <1>1, <1>2, <1>4 DEF RemainderLoop, InOrder
<1>15. \A name, t : Updates(name, t)' = Updates(name, t)
  BY <1>8, <1>9, <1>10, <1>11, <1>12, <1>13, <1>14 DEF Updates
<1>16. Loops' = Loops /\ Team' = Team /\ EndOfRun' = EndOfRun /\ UsesWorkspace' = UsesWorkspace
  BY <1>1 DEF Loops, Team, EndOfRun, UsesWorkspace
<1>17. QED
  BY <1>14, <1>15, <1>16

LEMMA GoalsStay ==
  ASSUME UNCHANGED options
  PROVE  /\ Cells' = Cells
         /\ \A c, r : Goal(c, r)' = Goal(c, r) /\ RemainderOwes(c, r)' = RemainderOwes(c, r)
         /\ \A l, t, c, r : Ahead(l, t, c, r)' = Ahead(l, t, c, r)
<1>1. m' = m /\ A' = A /\ kernel' = kernel /\ num_threads' = num_threads /\ team' = team
  BY DEF options
<1>2. x' = x /\ UsesWorkspace' = UsesWorkspace /\ Loops' = Loops /\ RemainderLoop' = RemainderLoop
  BY <1>1, UpdatesStay DEF x
<1>3. \A i : Product(m, x, i)' = Product(m, x, i)
  BY <1>1, <1>2
<1>4. \A c, r : Goal(c, r)' = Goal(c, r)
  BY <1>2, <1>3, AmountsStay DEF Goal
<1>5. \A c, r : RemainderOwes(c, r)' = RemainderOwes(c, r)
  BY <1>2, AmountsStay DEF RemainderOwes
<1>6. \A l, t, c, r : Due(l, t, c, r)' = Due(l, t, c, r)
  BY <1>2, AmountsStay, UpdatesStay DEF Due
<1>7. \A l, t, c, r : Ahead(l, t, c, r)' = Ahead(l, t, c, r)
  BY <1>6 DEF Ahead
<1>8. Cells' = Cells
  BY <1>1, <1>2 DEF Cells
<1>9. QED
  BY <1>4, <1>5, <1>7, <1>8

\* The cells that the loops add to and read are accounted for.
LEMMA CellsOfLoops ==
  ASSUME OptionsInv, NEW l \in 1 .. Len(Loops), NEW t \in Team,
         NEW c \in Targets(Loops[l], t) \cup Sources(Loops[l])
  PROVE  c \in Cells
<1> DEFINE name == Loops[l]
<1>1. /\ name \in {"partial", "direct", "atomic", "reduce", "rows", "unrolled", "remainder"}
      /\ name \in {"partial", "reduce"} => UsesWorkspace
  BY KernelForms
<1>2. c.index \in IF c.array = "y" THEN DOMAIN y ELSE DOMAIN workspace
  BY CellsExist
<1>3. /\ DOMAIN y = Rows(m) /\ DOMAIN workspace = 0 .. (num_threads * m.rows) - 1
  BY DEF OptionsInv
<1> HIDE DEF name
<1>4. \/ c = Cell("y", c.index) /\ c.array = "y"
      \/ c = Cell("workspace", c.index) /\ c.array = "workspace" /\ name \in {"partial", "reduce"}
  <2>1. CASE c \in Sources(name)
    BY <2>1 DEF Sources, Cell
  <2>2. CASE c \in Targets(name, t)
    BY <1>1, <2>2 DEF Targets, Cell
  <2>3. QED
    BY <2>1, <2>2 DEF name
<1>5. QED
  BY <1>1, <1>2, <1>3, <1>4 DEF Cells

\* An update in the reduction adds what the threads have left in the
\* workspace, all of it: the barrier before it keeps them.
LEMMA ReadsAreDone ==
  ASSUME IInv, LedgerInv, NEW t \in Team, Working(t), NEW c \in Current(t).from
  PROVE  Value(c) = run * Partial(c.index)
<1> DEFINE l == loop[t]
<1>1. /\ loop \in [Team -> 1 .. EndOfRun] /\ EndOfRun = Len(Loops) + 1 /\ Len(Loops) \in Nat \ {0}
      /\ run \in Nat /\ OptionsInv
  BY LoopsAre, ThreadsAssumption DEF IInv, TypesInv
<1>2. l \in 1 .. Len(Loops) /\ l # EndOfRun
  <2>1. l # EndOfRun
    BY DEF IInv, WaitsInv, Working
  <2>2. QED
    BY <1>1, <2>1
<1>3. OwnList(Loops[l], t, todo[t]) /\ todo[t] # <<>>
  BY <1>2 DEF IInv, SharesInv, Working
<1>4. c \in Sources(Loops[l])
  BY <1>3, TailIsOwn DEF Current
<1>5. Loops[l] = "reduce"
  BY <1>4 DEF Sources
<1>6. c.array = "workspace" /\ c \in Cells
  <2>1. c.array = "workspace"
    BY <1>4, <1>5 DEF Sources, Cell
  <2>2. QED
    BY <1>1, <1>2, <1>4, <2>1, CellsOfLoops
<1>7. /\ l = Len(Loops) /\ l - 1 \in Nat /\ l - 1 >= 1 /\ EndsInBarrier(Loops[l - 1])
      /\ Loops # <<"unrolled", "remainder">>
  <2> HIDE DEF l
  <2>1. \/ Loops = <<"partial", "reduce">> /\ l = 2
        \/ Loops = <<"rows", "partial", "reduce">> /\ l = 3
    BY <1>1, <1>2, <1>5, LoopForms
  <2>2. CASE Loops = <<"partial", "reduce">> /\ l = 2
    <3>1. l - 1 = 1 /\ Len(Loops) = 2 /\ Loops[1] = "partial" /\ Loops[1] # "unrolled"
      BY <2>2
    <3>2. QED
      BY <2>2, <3>1 DEF EndsInBarrier
  <2>3. CASE Loops = <<"rows", "partial", "reduce">> /\ l = 3
    <3>1. l - 1 = 2 /\ Len(Loops) = 3 /\ Loops[2] = "partial" /\ Loops[1] = "rows"
      BY <2>3
    <3>2. QED
      BY <2>3, <3>1 DEF EndsInBarrier
  <2>4. QED
    BY <2>1, <2>2, <2>3
<1>8. ASSUME NEW u \in Team
      PROVE  loop[u] >= Len(Loops) /\ loop[u] \in Nat
  <2>1. loop[u] \in 1 .. EndOfRun /\ l \in Nat
    BY <1>1, <1>2
  <2>2. l - 1 \notin loop[u] .. loop[t] - 1
    BY <1>7 DEF IInv, BarriersInv
  <2> HIDE DEF l
  <2>3. ~ (loop[u] <= l - 1)
    BY <1>1, <1>7, <2>1, <2>2 DEF l
  <2>4. QED
    BY <1>1, <1>7, <2>1, <2>3
<1>9. ASSUME NEW u \in Team
      PROVE  Rest(u, c) = 0
  <2>1. Ahead(loop[u], u, c, run) = 0
    BY <1>1, <1>6, <1>8, AheadIs
  <2>2. CASE loop[u] = EndOfRun
    <3>1. todo[u] = <<>>
      BY <2>2 DEF IInv, WaitsInv
    <3>2. QED
      BY <2>1, <3>1, EmptyOwes DEF Rest
  <2>3. CASE loop[u] # EndOfRun
    <3>1. loop[u] = Len(Loops)
      <4>1. loop[u] \in 1 .. EndOfRun
        BY <1>1
      <4>2. QED
        BY <1>1, <1>8, <2>3, <4>1
    <3>2. Loops[loop[u]] = "reduce"
      BY <1>5, <1>7, <3>1
    <3> DEFINE s == todo[u]
               f == [n \in 1 .. Len(s) |-> Worth(s[n], c, run)]
               N == 1 .. Len(s)
    <3>3. OwnList("reduce", u, s)
      BY <2>3, <3>2 DEF IInv, SharesInv
    <3>4. \A n \in N : s[n].to \in Targets("reduce", u)
      BY <3>3 DEF OwnList
    <3>5. \A n \in N : s[n].to # c
      BY <1>6, <3>4 DEF Targets, Cell
    <3>6. \A n \in N : f[n] = 0
      BY <3>5 DEF Worth
    <3>7. IsFiniteSet(N)
      <4>1. 1 \in Int /\ Len(s) \in Int
        BY <3>3 DEF OwnList, IsList
      <4>2. QED
        BY <4>1, IntervalSize
    <3>8. Owed(s, c, run) = SumFunctionOnSet(f, N)
      BY DEF Owed
    <3> HIDE DEF f, N, s
    <3>9. Owed(s, c, run) = 0
      BY <3>6, <3>7, <3>8, SumOfZeros
    <3>10. QED
      BY <2>1, <3>9 DEF Rest, s
  <2>4. QED
    BY <2>2, <2>3
<1>10. Left(c) = 0
  <2>1. IsFiniteSet(Team) /\ \A u \in Team : Rests(c)[u] = 0
    BY <1>1, <1>9, ChunksAre DEF Rests
  <2>2. SumFunctionOnSet(Rests(c), Team) = 0
    BY <2>1, SumOfZeros
  <2>3. Single(c) = 0
    BY <1>7 DEF Single, RemainderOwes
  <2>4. QED
    BY <2>2, <2>3 DEF Left
<1>11. Value(c) \in Int /\ Value(c) + Left(c) = Goal(c, run)
  BY <1>6 DEF LedgerInv
<1>12. Goal(c, run) = run * Partial(c.index)
  BY <1>6 DEF Goal
<1>13. QED
  BY <1>10, <1>11, <1>12

\* The sum of an update is what the cell has and what the update adds.
LEMMA SumForIs ==
  ASSUME IInv, LedgerInv, NEW t \in Team, Working(t)
  PROVE  SumFor(t) = Value(Current(t).to) + Amount(Current(t), run)
<1> DEFINE u == Current(t)
           S == u.from
           f == [c \in S |-> Value(c)]
           g == [c \in S |-> run * Partial(c.index)]
<1>1. f = g
  BY ReadsAreDone
<1>2. SumFor(t) = Value(u.to) + (u.addend + SumFunction(f))
  BY DEF SumFor
<1>3. Amount(u, run) = u.addend + SumFunctionOnSet(g, S)
  BY DEF Amount
<1>4. DOMAIN f = S
  OBVIOUS
<1> HIDE DEF u, S, f, g
<1>5. SumFunction(f) = SumFunctionOnSet(f, DOMAIN f)
  BY Zenon DEF SumFunction
<1>6. QED
  BY <1>1, <1>2, <1>3, <1>4, <1>5 DEF u

\* What a store does to the cells.
LEMMA StoreIs ==
  ASSUME OptionsInv, NEW cell \in Cells, NEW sum, Store(cell, sum), NEW c \in Cells
  PROVE  Value(c)' = IF c = cell THEN sum ELSE Value(c)
<1>1. /\ DOMAIN y = Rows(m) /\ DOMAIN workspace = 0 .. (num_threads * m.rows) - 1
  BY DEF OptionsInv
<1>2. ASSUME NEW d \in Cells
      PROVE  \/ d.array = "y" /\ d.index \in DOMAIN y /\ d = Cell("y", d.index)
             \/ d.array = "workspace" /\ d.index \in DOMAIN workspace /\ d = Cell("workspace", d.index)
  BY <1>1, CellsAre
<1>3. Value(c)' = IF c.array = "y" THEN y'[c.index] ELSE workspace'[c.index]
  BY DEF Value
<1>4. CASE cell.array = "y"
  <2>1. y' = [y EXCEPT ![cell.index] = sum] /\ workspace' = workspace
    BY <1>4 DEF Store
  <2>2. cell.index \in DOMAIN y /\ cell = Cell("y", cell.index)
    BY <1>2, <1>4
  <2>3. CASE c = cell
    BY <1>3, <1>4, <2>1, <2>2, <2>3
  <2>4. CASE c # cell /\ c.array = "y"
    <3>1. c.index \in DOMAIN y /\ c = Cell("y", c.index)
      BY <1>2, <2>4
    <3>2. c.index # cell.index
      BY <2>2, <2>4, <3>1
    <3>3. QED
      BY <1>3, <2>1, <2>4, <3>1, <3>2 DEF Value
  <2>5. CASE c # cell /\ c.array # "y"
    BY <1>3, <2>1, <2>5 DEF Value
  <2>6. QED
    BY <2>3, <2>4, <2>5
<1>5. CASE cell.array # "y"
  <2>1. cell.array = "workspace" /\ cell.index \in DOMAIN workspace /\ cell = Cell("workspace", cell.index)
    BY <1>2, <1>5
  <2>2. workspace' = [workspace EXCEPT ![cell.index] = sum] /\ y' = y
    BY <2>1 DEF Store
  <2>3. CASE c = cell
    BY <1>3, <2>1, <2>2, <2>3
  <2>4. CASE c # cell /\ c.array # "y"
    <3>1. c.index \in DOMAIN workspace /\ c = Cell("workspace", c.index)
      BY <1>2, <2>4
    <3>2. c.index # cell.index
      BY <2>1, <2>4, <3>1
    <3>3. QED
      BY <1>3, <2>2, <2>4, <3>1, <3>2 DEF Value
  <2>5. CASE c # cell /\ c.array = "y"
    BY <1>3, <2>2, <2>5 DEF Value
  <2>6. QED
    BY <2>3, <2>4, <2>5
<1>6. QED
  BY <1>4, <1>5

\* What a thread has left, from what is left of its loop and the loops after.
LEMMA RestIs ==
  ASSUME UNCHANGED options, NEW t, NEW c
  PROVE  Rest(t, c)' = Owed(todo'[t], c, run') + Ahead(loop'[t], t, c, run')
<1>1. Rest(t, c)' = Owed(todo[t], c, run)' + Ahead(loop[t], t, c, run)'
  BY DEF Rest
<1>2. Owed(todo[t], c, run)' = Owed(todo'[t], c, run')
  BY AmountsStay
<1>3. Ahead(loop[t], t, c, run)' = Ahead(loop'[t], t, c, run')
  BY GoalsStay
<1>4. QED
  BY <1>1, <1>2, <1>3

LEMMA LeftIs ==
  ASSUME UNCHANGED options, NEW c
  PROVE  /\ Left(c)' = SumFunctionOnSet(Rests(c)', Team) + Single(c)'
         /\ Single(c)' = IF single' = NoThread /\ run' > 0 THEN RemainderOwes(c, run') ELSE 0
         /\ \A t \in Team :
              Rests(c)'[t] = Owed(todo'[t], c, run') + Ahead(loop'[t], t, c, run')
<1>1. Team' = Team /\ NoThread' = NoThread
  BY UpdatesStay DEF NoThread
<1>2. Left(c)' = SumFunctionOnSet(Rests(c)', Team) + Single(c)'
  BY <1>1 DEF Left
<1>3. Single(c)' = IF single' = NoThread /\ run' > 0 THEN RemainderOwes(c, run') ELSE 0
  <2>1. Single(c)' = IF single' = NoThread /\ run' > 0 THEN RemainderOwes(c, run)' ELSE 0
    BY <1>1 DEF Single
  <2>2. RemainderOwes(c, run)' = RemainderOwes(c, run')
    BY GoalsStay
  <2>3. QED
    BY <2>1, <2>2
<1>4. ASSUME NEW t \in Team
      PROVE  Rests(c)'[t] = Owed(todo'[t], c, run') + Ahead(loop'[t], t, c, run')
  <2>1. Rests(c)'[t] = Rest(t, c)'
    BY <1>1 DEF Rests
  <2>2. QED
    BY <2>1, RestIs
<1>5. QED
  BY <1>2, <1>3, <1>4

\* What the ledger is made of.
LEMMA LedgerIs ==
  ASSUME SumsInv, NEW c \in Cells
  PROVE  /\ IsFiniteSet(Team) /\ run \in Nat
         /\ \A t \in Team : Rests(c)[t] = Owed(todo[t], c, run) + Ahead(loop[t], t, c, run)
         /\ \A t \in Team : Owed(todo[t], c, run) \in Int /\ Rests(c)[t] \in Int
         /\ \A t \in Team : Ahead(loop[t], t, c, run) \in Int
         /\ Left(c) = SumFunctionOnSet(Rests(c), Team) + Single(c)
         /\ SumFunctionOnSet(Rests(c), Team) \in Int /\ Single(c) \in Int
<1>1. OptionsInv /\ IsFiniteSet(Team) /\ run \in Nat /\ loop \in [Team -> 1 .. EndOfRun]
  BY ChunksAre, ThreadsAssumption DEF SumsInv, IInv, TypesInv
<1>2. \A t \in Team : Rests(c)[t] = Owed(todo[t], c, run) + Ahead(loop[t], t, c, run)
  BY DEF Rests, Rest
<1>3. ASSUME NEW t \in Team
      PROVE  Owed(todo[t], c, run) \in Int /\ Ahead(loop[t], t, c, run) \in Int
  <2>1. Owed(todo[t], c, run) \in Int
    BY OwedIsInt DEF SumsInv, SoundInv
  <2>2. loop[t] \in 0 .. EndOfRun
    BY <1>1, LoopsAre
  <2>3. QED
    BY <1>1, <2>1, <2>2, AheadIs
<1>4. \A t \in Team : Rests(c)[t] \in Int
  BY <1>2, <1>3
<1>5. SumFunctionOnSet(Rests(c), Team) \in Int
  BY <1>1, <1>4, SumIsInt
<1>6. Single(c) \in Int
  <2>1. CASE Loops = <<"unrolled", "remainder">>
    <3>1. ~ HasCoo
      BY <1>1, <2>1, KernelForms
    <3>2. \A i \in Rows(m) : RowSum(i) \in Int
      BY <1>1, <3>1, RowSumsAreInt DEF HasCoo
    <3>3. Owed(RemainderLoop, c, run) \in Int
      BY <1>1, <3>2, RemainderAdds
    <3>4. QED
      BY <3>3 DEF Single, RemainderOwes
  <2>2. CASE Loops # <<"unrolled", "remainder">>
    BY <2>2 DEF Single, RemainderOwes
  <2>3. QED
    BY <2>1, <2>2
<1>7. QED
  BY <1>1, <1>2, <1>3, <1>4, <1>5, <1>6 DEF Left

\* One thread's part of what is left goes down by d.
LEMMA OneGoes ==
  ASSUME NEW f, NEW g, NEW T, IsFiniteSet(T), NEW t \in T, NEW d \in Int,
         \A u \in T : f[u] \in Int, f[t] = g[t] + d, g[t] \in Int,
         \A u \in T \ {t} : g[u] = f[u]
  PROVE  /\ SumFunctionOnSet(f, T) = SumFunctionOnSet(g, T) + d
         /\ SumFunctionOnSet(g, T) \in Int
<1>1. \A u \in T : f[u] \in Int /\ g[u] \in Int
  OBVIOUS
<1>2. SumFunctionOnSet(g, T) \in Int
  BY <1>1, SumIsInt
<1>3. QED
  BY <1>1, <1>2, SumWithMore

\* An update moves its worth from what is left into the cell.
LEMMA UpdateKeepsLedger ==
  ASSUME SumsInv, NEW t \in Team, Working(t), Store(Current(t).to, SumFor(t)),
         todo' = [todo EXCEPT ![t] = Tail(@)], UNCHANGED <<options, run, loop, single>>
  PROVE  LedgerInv' /\ SoundInv'
<1> DEFINE u == Current(t)
<1>1. /\ OptionsInv /\ IInv /\ LedgerInv /\ SoundInv /\ UNCHANGED options
      /\ run' = run /\ loop' = loop /\ single' = single /\ DOMAIN todo = Team
  BY DEF SumsInv, IInv, TypesInv
<1>2. u.to \in Cells
  BY <1>1, WorkingIsIn, CellsOfLoops
<1>3. todo'[t] = Tail(todo[t]) /\ \A v \in Team \ {t} : todo'[v] = todo[v]
  BY <1>1
<1>4. todo[t] # <<>> /\ IsSound(todo[t], run) /\ u = Head(todo[t])
  BY <1>1 DEF Working, SoundInv, Current
<1> HIDE DEF u
<1>5. /\ IsSound(Tail(todo[t]), run) /\ Amount(u, run) \in Int
      /\ \A c : Owed(todo[t], c, run) = Worth(u, c, run) + Owed(Tail(todo[t]), c, run)
  BY <1>4, TailOwes
<1>6. SumFor(t) = Value(u.to) + Amount(u, run)
  BY <1>1, SumForIs DEF u
<1>7. ASSUME NEW c \in Cells
      PROVE  Value(c)' \in Int /\ Value(c)' + Left(c)' = Goal(c, run)
  <2> DEFINE d == Worth(u, c, run)
             f == Rests(c)
             g == Rests(c)'
  <2>1. d \in Int /\ (u.to = c => d = Amount(u, run)) /\ (u.to # c => d = 0)
    BY <1>5 DEF Worth
  <2>2. Value(c) \in Int /\ Value(c) + Left(c) = Goal(c, run)
    BY <1>1 DEF LedgerInv
  <2>3. Value(c)' = IF c = u.to THEN SumFor(t) ELSE Value(c)
    BY <1>1, <1>2, StoreIs DEF u
  <2>4. Value(c)' = Value(c) + d
    BY <1>6, <2>1, <2>2, <2>3
  <2>5. /\ IsFiniteSet(Team) /\ \A v \in Team : f[v] \in Int
        /\ \A v \in Team : f[v] = Owed(todo[v], c, run) + Ahead(loop[v], v, c, run)
        /\ Left(c) = SumFunctionOnSet(f, Team) + Single(c) /\ Single(c) \in Int
        /\ Ahead(loop[t], t, c, run) \in Int
    BY LedgerIs
  <2>6. /\ Left(c)' = SumFunctionOnSet(g, Team) + Single(c)'
        /\ Single(c)' = Single(c)
        /\ \A v \in Team : g[v] = Owed(todo'[v], c, run) + Ahead(loop[v], v, c, run)
    BY <1>1, LeftIs DEF Single
  <2>7. Owed(Tail(todo[t]), c, run) \in Int
    BY <1>5, OwedIsInt
  <2>8. /\ \A v \in Team \ {t} : g[v] = f[v]
        /\ f[t] = g[t] + d /\ g[t] \in Int
    <3>1. \A v \in Team \ {t} : g[v] = f[v]
      BY <1>3, <2>5, <2>6
    <3> DEFINE a == Owed(Tail(todo[t]), c, run)
               b == Ahead(loop[t], t, c, run)
    <3>2. g[t] = a + b /\ f[t] = (d + a) + b
      BY <1>3, <1>5, <2>5, <2>6
    <3>3. a \in Int /\ b \in Int
      BY <2>5, <2>7
    <3> HIDE DEF a, b, d, f, g
    <3>4. QED
      BY <2>1, <3>1, <3>2, <3>3
  <2> HIDE DEF d, f, g
  <2>9. /\ SumFunctionOnSet(f, Team) = SumFunctionOnSet(g, Team) + d
        /\ SumFunctionOnSet(g, Team) \in Int
    BY <2>1, <2>5, <2>8, OneGoes
  <2>10. QED
    BY <2>1, <2>2, <2>4, <2>5, <2>6, <2>9
<1>8. LedgerInv'
  <2>1. Cells' = Cells /\ \A c : Goal(c, run)' = Goal(c, run)
    BY <1>1, GoalsStay
  <2>2. QED
    BY <1>7, <2>1 DEF LedgerInv
<1>9. SoundInv'
  <2>1. Team' = Team /\ \A s : IsSound(s, run)' <=> IsSound(s, run)
    BY <1>1, AmountsStay, UpdatesStay
  <2>2. \A v \in Team : IsSound(todo'[v], run)
    BY <1>1, <1>3, <1>5 DEF SoundInv
  <2>3. \A v \in Team : IsSound(todo[v], run)' <=> IsSound(todo'[v], run)
    BY <1>1, AmountsStay
  <2>4. QED
    BY <2>1, <2>2, <2>3 DEF SoundInv
<1>10. QED
  BY <1>8, <1>9

\* A thread that has loaded a sum is the only one at its cell.
LEMMA UpdateKeepsTmp ==
  ASSUME SumsInv, NEW t \in Team, Working(t), NEW sum, Store(Current(t).to, sum),
         todo' = [todo EXCEPT ![t] = Tail(@)], UNCHANGED <<options, run, loop, waiting>>,
         tmp'[t] = NoSum, \A u \in Team \ {t} : tmp'[u] = tmp[u]
  PROVE  TmpInv'
<1>1. /\ OptionsInv /\ IInv /\ TmpInv /\ UNCHANGED options /\ DOMAIN todo = Team
      /\ run' = run /\ loop' = loop /\ waiting' = waiting /\ NoDataRace
  BY InvImpliesNoRace DEF SumsInv, IInv, TypesInv
<1>2. /\ Team' = Team /\ Loops' = Loops /\ NoSum' = NoSum
      /\ \A u \in Team \ {t} : todo'[u] = todo[u]
  BY <1>1, UpdatesStay DEF NoSum
<1>3. ASSUME NEW u \in Team, u # t, tmp[u] # NoSum
      PROVE  Working(u)' /\ ~ Atomic(u)' /\ tmp[u] = <<SumFor(u)'>>
  <2>1. Working(u) /\ ~ Atomic(u) /\ tmp[u] = <<SumFor(u)>>
    BY <1>1, <1>3 DEF TmpInv
  <2>2. todo'[u] = todo[u]
    BY <1>2, <1>3
  <2>3. Working(u)' /\ ~ Atomic(u)' /\ Current(u)' = Current(u)
    BY <1>1, <1>2, <2>1, <2>2 DEF Working, Atomic, Current
  <2>4. ASSUME NEW c, c = Current(u).to \/ c \in Current(u).from
        PROVE  Value(c)' = Value(c)
    <3>1. c # Current(t).to
      <4> DEFINE a == [cell |-> Current(t).to, write |-> TRUE]
                 b == [cell |-> c, write |-> c = Current(u).to]
      <4>1. a \in Accesses(t) /\ a.write /\ a.cell = Current(t).to
        BY DEF Accesses
      <4>2. \E e \in Accesses(u) : e.cell = c
        <5>1. CASE c = Current(u).to
          <6>1. [cell |-> c, write |-> TRUE] \in Accesses(u)
            BY <2>1, <5>1 DEF Accesses
          <6>2. QED
            BY <6>1
        <5>2. CASE c \in Current(u).from
          <6>1. [cell |-> c, write |-> FALSE] \in Accesses(u)
            BY <2>1, <5>2 DEF Accesses
          <6>2. QED
            BY <6>1
        <5>3. QED
          BY <2>4, <5>1, <5>2
      <4> HIDE DEF a
      <4>3. QED
        BY <1>1, <1>3, <2>1, <4>1, <4>2 DEF NoDataRace
    <3>2. c \in Cells /\ Current(t).to \in Cells
      BY <1>1, <2>1, <2>4, WorkingIsIn, CellsOfLoops
    <3>3. QED
      BY <1>1, <3>1, <3>2, StoreIs
  <2>5. SumFor(u)' = SumFor(u)
    <3>1. PICK w : w = Current(u)
      OBVIOUS
    <3>2. /\ SumFor(u) = Value(w.to) + (w.addend + SumFunction([c \in w.from |-> Value(c)]))
          /\ SumFor(u)' = Value(w.to)' + (w.addend + SumFunction([c \in w.from |-> Value(c)']))
      BY <2>3, <3>1 DEF SumFor
    <3>3. Value(w.to)' = Value(w.to) /\ \A c \in w.from : Value(c)' = Value(c)
      BY <2>4, <3>1
    <3>4. [c \in w.from |-> Value(c)'] = [c \in w.from |-> Value(c)]
      BY <3>3
    <3>5. QED
      BY <3>2, <3>3, <3>4
  <2>6. QED
    BY <2>1, <2>3, <2>5
<1>4. ASSUME NEW u \in Team, tmp'[u] # NoSum
      PROVE  Working(u)' /\ ~ Atomic(u)' /\ tmp'[u] = <<SumFor(u)>>'
  <2>1. u # t /\ tmp'[u] = tmp[u]
    BY <1>4
  <2>2. QED
    BY <1>3, <1>4, <2>1
<1>5. QED
  BY <1>2, <1>4 DEF TmpInv

\* The threads that are at an update stay where they are.
LEMMA TmpStays ==
  ASSUME TmpInv, UNCHANGED <<options, y, workspace, tmp>>,
         \A u \in Team : Working(u) => /\ todo'[u] = todo[u] /\ waiting'[u] = waiting[u]
                                       /\ loop'[u] = loop[u]
  PROVE  TmpInv'
<1>1. y' = y /\ workspace' = workspace /\ tmp' = tmp /\ UNCHANGED options
  OBVIOUS
<1>2. Team' = Team /\ Loops' = Loops /\ NoSum' = NoSum
  BY <1>1, UpdatesStay DEF NoSum
<1>3. \A c : Value(c)' = Value(c)
  BY <1>1 DEF Value
<1>4. ASSUME NEW u \in Team, tmp'[u] # NoSum
      PROVE  Working(u)' /\ ~ Atomic(u)' /\ tmp'[u] = <<SumFor(u)>>'
  <2>1. Working(u) /\ ~ Atomic(u) /\ tmp[u] = <<SumFor(u)>>
    BY <1>1, <1>4 DEF TmpInv
  <2>2. todo'[u] = todo[u] /\ waiting'[u] = waiting[u] /\ loop'[u] = loop[u]
    BY <2>1
  <2>3. Working(u)' /\ ~ Atomic(u)' /\ Current(u)' = Current(u)
    BY <1>2, <2>1, <2>2 DEF Working, Atomic, Current
  <2>4. SumFor(u)' = SumFor(u)
    BY <1>3, <2>3 DEF SumFor
  <2>5. QED
    BY <1>1, <2>1, <2>3, <2>4
<1>5. QED
  BY <1>2, <1>4 DEF TmpInv

\* At the end of a run nothing is left.
LEMMA NothingLeft ==
  ASSUME IInv, StartInv, RunEnded, NEW c \in Cells
  PROVE  Left(c) = 0
<1>1. /\ OptionsInv /\ IsFiniteSet(Team) /\ run \in Nat /\ 0 \in Team
      /\ Len(Loops) \in Nat \ {0} /\ EndOfRun = Len(Loops) + 1
  BY ChunksAre, ThreadsAssumption, OptionsAre, LoopsAre DEF IInv, TypesInv
<1>2. ASSUME NEW t \in Team
      PROVE  Rests(c)[t] = 0
  <2>1. todo[t] = <<>> /\ loop[t] = EndOfRun
    BY DEF RunEnded, IInv, WaitsInv
  <2>2. Ahead(EndOfRun, t, c, run) = 0
    BY <1>1, AheadIs
  <2>3. Rests(c)[t] = Owed(<<>>, c, run) + Ahead(EndOfRun, t, c, run)
    BY <2>1 DEF Rests, Rest
  <2>4. QED
    BY <2>2, <2>3, EmptyOwes
<1>3. SumFunctionOnSet(Rests(c), Team) = 0
  <2> DEFINE f == Rests(c)
  <2>1. \A t \in Team : f[t] = 0
    BY <1>2
  <2> HIDE DEF f
  <2>2. SumFunctionOnSet(f, Team) = 0
    BY <1>1, <2>1, SumOfZeros
  <2>3. QED
    BY <2>2 DEF f
<1>4. Single(c) = 0
  <2>1. CASE single = NoThread /\ run > 0 /\ Loops = <<"unrolled", "remainder">>
    <3>1. loop[0] = 1 /\ loop[0] = EndOfRun
      BY <1>1, <2>1 DEF StartInv, RunEnded
    <3>2. QED
      BY <1>1, <3>1
  <2>2. CASE ~ (single = NoThread /\ run > 0 /\ Loops = <<"unrolled", "remainder">>)
    BY <2>2 DEF Single, RemainderOwes
  <2>3. QED
    BY <2>1, <2>2
<1>5. QED
  BY <1>3, <1>4 DEF Left

LEMMA InitSums == Init => SumsInv
<1> SUFFICES ASSUME Init PROVE SumsInv
  OBVIOUS
<1>1. IInv
  BY InitEstablishes
<1>2. OptionsInv
  BY <1>1 DEF IInv
<1>3. RunEnded /\ run = 0 /\ StartInv
  BY DEF Init, RunEnded, StartInv
<1>4. ASSUME NEW c \in Cells
      PROVE  Value(c) \in Int /\ Value(c) + Left(c) = Goal(c, run)
  <2>1. Left(c) = 0
    BY <1>1, <1>3, NothingLeft
  <2>2. CASE c.array = "y"
    <3>1. c.index \in Rows(m) /\ c = Cell("y", c.index)
      BY <2>2, CellsAre
    <3>2. Value(c) = 0
      BY <2>2, <3>1 DEF Value, Init
    <3> DEFINE P == Product(m, x, c.index)
               C == CooProduct(c.index)
    <3>3. Goal(c, 0) = (0 * P) + (IF UsesWorkspace THEN ((0 * (0 - 1)) \div 2) * C ELSE 0)
      BY <2>2 DEF Goal
    <3>4. P \in Int
      BY <1>2, <3>1, RowSumIs
    <3>5. UsesWorkspace => C \in Int
      BY <1>2, <3>1, CooProductIs DEF UsesWorkspace, HasCoo
    <3> HIDE DEF P, C
    <3>6. Goal(c, 0) = 0
      BY <3>3, <3>4, <3>5
    <3>7. QED
      BY <1>3, <2>1, <3>2, <3>6
  <2>3. CASE c.array # "y"
    <3>1. c.array = "workspace" /\ UsesWorkspace /\ c.index \in 0 .. (num_threads * m.rows) - 1
      BY <2>3, CellsAre
    <3>2. Value(c) = 0
      BY <2>3, <3>1 DEF Value, Init
    <3>3. Partial(c.index) \in Int
      BY <1>2, <3>1, PartialIsInt DEF UsesWorkspace, HasCoo
    <3>4. Goal(c, 0) = 0
      BY <2>3, <3>3 DEF Goal
    <3>5. QED
      BY <1>3, <2>1, <3>2, <3>4
  <2>4. QED
    BY <2>2, <2>3
<1>5. LedgerInv
  BY <1>4 DEF LedgerInv
<1>6. SoundInv
  BY EmptyOwes DEF SoundInv, Init
<1>7. TmpInv /\ DOMAIN tmp = Team
  BY DEF TmpInv, Init
<1>8. QED
  BY <1>1, <1>3, <1>5, <1>6, <1>7 DEF SumsInv

\* A run that starts owes what takes the cells to its goal.
LEMMA StartRunSums ==
  ASSUME SumsInv, StartRun
  PROVE  LedgerInv' /\ SoundInv' /\ StartInv'
<1> DEFINE q == run + 1
<1>1. /\ OptionsInv /\ IInv /\ LedgerInv /\ StartInv /\ UNCHANGED options /\ y' = y /\ workspace' = workspace
      /\ run' = q /\ RunEnded /\ single' = NoThread
  BY DEF SumsInv, IInv, StartRun
<1>2. /\ IsFiniteSet(Team) /\ run \in Nat /\ q \in Nat /\ q > 0
      /\ Len(Loops) \in Nat \ {0} /\ EndOfRun = Len(Loops) + 1
      /\ \A l \in 1 .. Len(Loops) : Loops[l] = "remainder" => l > 1
  BY ChunksAre, ThreadsAssumption, LoopsAre DEF SumsInv, IInv, TypesInv
<1>3. 1 \in 1 .. Len(Loops) /\ Loops[1] # "remainder" /\ 0 \in 0 .. Len(Loops)
  BY <1>2
<1>4. \A t \in Team : loop'[t] = 1 /\ todo'[t] = Updates(Loops[1], t)
  BY DEF StartRun
<1>5. /\ Team' = Team /\ Loops' = Loops /\ NoThread' = NoThread /\ Cells' = Cells
      /\ \A c, r : Goal(c, r)' = Goal(c, r)
  BY <1>1, UpdatesStay, GoalsStay DEF NoThread
<1> HIDE DEF q
<1>6. ASSUME NEW c \in Cells
      PROVE  Value(c)' \in Int /\ Value(c)' + Left(c)' = Goal(c, q)
  <2> DEFINE g == Rests(c)'
             f == Aheads(0, c, q)
  <2>1. Value(c)' = Value(c)
    BY <1>1 DEF Value
  <2>2. Value(c) \in Int /\ Value(c) = Goal(c, run)
    <3>1. Left(c) = 0 /\ Value(c) \in Int /\ Value(c) + Left(c) = Goal(c, run)
      BY <1>1, NothingLeft DEF LedgerInv
    <3>2. QED
      BY <3>1
  <2>3. /\ Left(c)' = SumFunctionOnSet(g, Team) + Single(c)'
        /\ Single(c)' = RemainderOwes(c, q)
        /\ \A t \in Team : g[t] = Owed(Updates(Loops[1], t), c, q) + Ahead(1, t, c, q)
    BY <1>1, <1>2, <1>4, LeftIs
  <2>4. ASSUME NEW t \in Team
        PROVE  g[t] = f[t] /\ f[t] \in Int
    <3>1. /\ Ahead(0, t, c, q) \in Int
          /\ Ahead(0, t, c, q) = Due(0 + 1, t, c, q) + Ahead(0 + 1, t, c, q)
      <4>1. 0 \in 0 .. EndOfRun
        BY <1>2
      <4>2. QED
        BY <1>1, <1>2, <1>3, <4>1, AheadIs
    <3>2. Due(0 + 1, t, c, q) = Owed(Updates(Loops[1], t), c, q)
      BY <1>3 DEF Due
    <3>3. f[t] = Ahead(0, t, c, q)
      BY DEF Aheads
    <3>4. 0 + 1 = 1
      OBVIOUS
    <3>5. QED
      BY <2>3, <3>1, <3>2, <3>3, <3>4
  <2>5. SumFunctionOnSet(g, Team) = SumFunctionOnSet(f, Team)
    <3> HIDE DEF f, g
    <3>1. \A t \in Team : g[t] = f[t] /\ f[t] \in Int
      BY <2>4
    <3>2. QED
      BY <1>2, <3>1, SumOfSame
  <2>6. Left(c)' = RunAdds(c, q)
    BY <2>3, <2>5 DEF RunAdds
  <2>7. Goal(c, q) = Goal(c, run) + RunAdds(c, q)
    BY <1>1, <1>2, RunReachesGoal DEF q
  <2>8. QED
    BY <2>1, <2>2, <2>6, <2>7
<1>7. LedgerInv'
  <2>1. \A c : Goal(c, run)' = Goal(c, q)
    BY <1>1, <1>5
  <2>2. QED
    BY <1>5, <1>6, <2>1 DEF LedgerInv
<1>8. SoundInv'
  <2>1. ASSUME NEW t \in Team
        PROVE  IsSound(todo[t], run)'
    <3>1. Cell("y", 0) \in Cells
      <4>1. 0 \in Rows(m)
        BY <1>1, OptionsAre DEF Rows
      <4>2. QED
        BY <4>1 DEF Cells
    <3>2. IsSound(Updates(Loops[1], t), q)
      BY <1>1, <1>2, <1>3, <3>1, LoopOwes
    <3>3. IsSound(todo[t], run)' <=> IsSound(todo'[t], run')
      BY <1>1, AmountsStay
    <3>4. QED
      BY <1>1, <1>4, <3>2, <3>3
  <2>2. QED
    BY <1>5, <2>1 DEF SoundInv
<1>9. StartInv'
  BY <1>1, <1>2, <1>4, <1>5 DEF StartInv
<1>10. QED
  BY <1>7, <1>8, <1>9

\* Going from a loop to the next takes its part from what was ahead.
LEMMA GoOnSums ==
  ASSUME SumsInv, NEW t \in Team, GoOn(t)
  PROVE  LedgerInv' /\ SoundInv' /\ StartInv'
<1> DEFINE next == loop[t] + 1
           entered == next # EndOfRun
           taken == entered /\ Takes(t, Loops[next])
           last == Loops[next] = "remainder"
           unrolled == Loops = <<"unrolled", "remainder">>
<1>1. /\ ~ waiting[t] /\ todo[t] = <<>>
      /\ loop' = [loop EXCEPT ![t] = next]
      /\ todo' = IF taken THEN [todo EXCEPT ![t] = Updates(Loops[next], t)] ELSE todo
      /\ single' = IF taken /\ last THEN t ELSE single
      /\ UNCHANGED options /\ run' = run /\ y' = y /\ workspace' = workspace
  BY DEF GoOn
<1>2. /\ OptionsInv /\ IInv /\ LedgerInv /\ SoundInv /\ StartInv
      /\ loop \in [Team -> 1 .. EndOfRun] /\ DOMAIN todo = Team /\ run \in Nat
      /\ single \in Team \cup {NoThread} /\ NoThread \notin Team
  BY ThreadsAssumption, OptionsAre DEF SumsInv, IInv, TypesInv, NoThread
<1>3. loop[t] # EndOfRun /\ run > 0
  BY <1>1, <1>2 DEF IInv, WaitsInv, StartInv, RunEnded
<1>4. /\ Len(Loops) \in Nat \ {0} /\ EndOfRun = Len(Loops) + 1
      /\ loop[t] \in 1 .. Len(Loops) /\ loop[t] \in 0 .. Len(Loops) /\ next \in 1 .. EndOfRun
      /\ entered => next \in 1 .. Len(Loops)
  BY <1>2, <1>3, LoopsAre
<1>5. entered /\ last => unrolled /\ next = 2
  <2> HIDE DEF next
  <2>1. Loops # <<"unrolled", "remainder">> => \A l \in 1 .. Len(Loops) : Loops[l] # "remainder"
    BY <1>2, LoopForms
  <2>2. unrolled => \A l \in 1 .. Len(Loops) : Loops[l] = "remainder" => l = 2
    OBVIOUS
  <2>3. QED
    BY <1>4, <2>1, <2>2
<1>6. /\ loop'[t] = next /\ \A v \in Team \ {t} : loop'[v] = loop[v]
      /\ todo'[t] = IF taken THEN Updates(Loops[next], t) ELSE <<>>
      /\ \A v \in Team \ {t} : todo'[v] = todo[v]
  BY <1>1, <1>2
<1>7. entered /\ ~ last => taken
  BY DEF Takes
<1>8. /\ taken => entered
      /\ taken /\ last => single = NoThread
      /\ entered /\ last /\ ~ taken => single # NoThread
  BY DEF Takes
<1> HIDE DEF taken
<1>9. Updates("remainder", t) = RemainderLoop
  BY DEF Updates
<1>10. /\ Team' = Team /\ Loops' = Loops /\ NoThread' = NoThread /\ Cells' = Cells
       /\ \A c, r : Goal(c, r)' = Goal(c, r)
  BY <1>1, UpdatesStay, GoalsStay DEF NoThread
<1>11. unrolled => \A r, c : IsSound(RemainderLoop, r) /\ Owed(RemainderLoop, c, r) \in Int
  <2> SUFFICES ASSUME unrolled
               PROVE  \A r, c : IsSound(RemainderLoop, r) /\ Owed(RemainderLoop, c, r) \in Int
    OBVIOUS
  <2>1. ~ HasCoo
    BY <1>2, KernelForms
  <2>2. \A i \in Rows(m) : RowSum(i) \in Int
    BY <1>2, <2>1, RowSumsAreInt DEF HasCoo
  <2>3. QED
    BY <1>2, <2>2, RemainderAdds
<1> HIDE DEF next, last, unrolled
<1>12. ASSUME NEW c \in Cells
       PROVE  Left(c)' = Left(c)
  <2> DEFINE f == Rests(c)
             g == Rests(c)'
             a == Ahead(next, t, c, run)
             e == Owed(todo'[t], c, run)
             d == Due(next, t, c, run)
  <2>1. /\ IsFiniteSet(Team) /\ \A v \in Team : f[v] \in Int
        /\ \A v \in Team : f[v] = Owed(todo[v], c, run) + Ahead(loop[v], v, c, run)
        /\ Left(c) = SumFunctionOnSet(f, Team) + Single(c) /\ Single(c) \in Int
    BY LedgerIs
  <2>2. /\ Left(c)' = SumFunctionOnSet(g, Team) + Single(c)'
        /\ \A v \in Team : g[v] = Owed(todo'[v], c, run) + Ahead(loop'[v], v, c, run)
        /\ Single(c)' = IF single' = NoThread /\ run > 0 THEN RemainderOwes(c, run) ELSE 0
    BY <1>1, <1>10, LeftIs
  <2>3. Ahead(loop[t], t, c, run) = d + a /\ a \in Int /\ d \in Int
    <3>1. next \in 0 .. EndOfRun
      BY <1>4
    <3>2. run \in Nat /\ OptionsInv
      BY <1>2
    <3>3. Ahead(loop[t], t, c, run) = Due(loop[t] + 1, t, c, run) + Ahead(loop[t] + 1, t, c, run)
      BY <1>4, <3>2, AheadIs
    <3>4. Ahead(next, t, c, run) \in Int
      BY <3>1, <3>2, AheadIs
    <3>5. Due(next, t, c, run) \in Int
      BY <3>2, DueIsInt
    <3>6. QED
      BY <3>3, <3>4, <3>5 DEF next
  <2>4. f[t] = d + a
    <3>1. f[t] = Owed(<<>>, c, run) + (d + a)
      BY <1>1, <2>1, <2>3
    <3>2. Owed(<<>>, c, run) = 0
      BY EmptyOwes
    <3> HIDE DEF f, a, d
    <3>3. QED
      BY <2>3, <3>1, <3>2
  <2>5. g[t] = e + a
    BY <1>6, <2>2
  <2>6. e \in Int /\ Single(c)' \in Int /\ e + Single(c)' = d + Single(c)
    <3>1. CASE ~ entered
      <4>1. todo'[t] = <<>> /\ single' = single
        BY <1>1, <1>6, <1>8, <3>1
      <4>2. e = 0
        BY <4>1, EmptyOwes
      <4>3. d = 0
        BY <1>2, <3>1, AheadIs
      <4>4. Single(c)' = Single(c)
        BY <2>2, <4>1 DEF Single
      <4>5. QED
        BY <2>1, <4>2, <4>3, <4>4
    <3>2. CASE entered /\ ~ last
      <4>1. todo'[t] = Updates(Loops[next], t) /\ single' = single
        BY <1>1, <1>6, <1>7, <3>2
      <4>2. d = e
        BY <1>4, <3>2, <4>1 DEF Due, last
      <4>3. Single(c)' = Single(c)
        BY <2>2, <4>1 DEF Single
      <4>4. QED
        BY <2>1, <2>3, <4>2, <4>3
    <3>3. CASE entered /\ last /\ taken
      <4>1. todo'[t] = RemainderLoop /\ single' = t /\ single = NoThread /\ unrolled
        BY <1>1, <1>5, <1>6, <1>8, <1>9, <3>3 DEF last
      <4>2. e = Owed(RemainderLoop, c, run) /\ e \in Int
        BY <1>11, <4>1
      <4>3. d = 0
        BY <3>3 DEF Due, last
      <4>4. Single(c)' = 0
        BY <1>2, <2>2, <4>1
      <4>5. Single(c) = e
        BY <1>3, <4>1, <4>2 DEF Single, RemainderOwes, unrolled
      <4>6. QED
        BY <4>2, <4>3, <4>4, <4>5
    <3>4. CASE entered /\ last /\ ~ taken
      <4>1. todo'[t] = <<>> /\ single' = single
        BY <1>1, <1>6, <3>4
      <4>2. e = 0
        BY <4>1, EmptyOwes
      <4>3. d = 0
        BY <3>4 DEF Due, last
      <4>4. Single(c)' = Single(c)
        BY <2>2, <4>1 DEF Single
      <4>5. QED
        BY <2>1, <4>2, <4>3, <4>4
    <3>5. QED
      BY <3>1, <3>2, <3>3, <3>4
  <2>7. \A v \in Team \ {t} : g[v] = f[v]
    BY <1>6, <2>1, <2>2
  <2> DEFINE k == d - e
             s == Single(c)
             z == Single(c)'
  <2> HIDE DEF f, g, a, d, e, s, z
  <2>8. k \in Int /\ f[t] = g[t] + k /\ g[t] \in Int
    BY <2>3, <2>4, <2>5, <2>6
  <2> HIDE DEF k
  <2>9. /\ SumFunctionOnSet(f, Team) = SumFunctionOnSet(g, Team) + k
        /\ SumFunctionOnSet(g, Team) \in Int
    BY <2>1, <2>7, <2>8, OneGoes
  <2>10. z = k + s /\ k \in Int /\ s \in Int /\ z \in Int
    BY <2>1, <2>3, <2>6 DEF k, s, z
  <2> DEFINE F == SumFunctionOnSet(f, Team)
             G == SumFunctionOnSet(g, Team)
  <2>11. F = G + k /\ G \in Int /\ Left(c) = F + s /\ Left(c)' = G + z
    BY <2>1, <2>2, <2>9 DEF s, z
  <2> HIDE DEF F, G
  <2>12. QED
    BY <2>10, <2>11
<1>13. LedgerInv'
  <2>1. \A c \in Cells : Value(c)' = Value(c) /\ Goal(c, run)' = Goal(c, run)
    BY <1>1, <1>10 DEF Value
  <2>2. QED
    BY <1>2, <1>10, <1>12, <2>1 DEF LedgerInv
<1>14. SoundInv'
  <2>1. ASSUME NEW v \in Team
        PROVE  IsSound(todo[v], run)'
    <3>1. IsSound(todo[v], run)' <=> IsSound(todo'[v], run)
      BY <1>1, AmountsStay
    <3>2. IsSound(todo[v], run) /\ IsSound(<<>>, run)
      BY <1>2, EmptyOwes DEF SoundInv
    <3>3. CASE v # t
      BY <1>6, <3>1, <3>2, <3>3
    <3>4. CASE v = t /\ ~ taken
      BY <1>6, <3>1, <3>2, <3>4
    <3>5. CASE v = t /\ taken
      <4>1. CASE last
        BY <1>5, <1>6, <1>8, <1>9, <1>11, <3>1, <3>5, <4>1 DEF last
      <4>2. CASE ~ last
        <5>1. Cell("y", 0) \in Cells
          <6>1. 0 \in Rows(m)
            BY <1>2, OptionsAre DEF Rows
          <6>2. QED
            BY <6>1 DEF Cells
        <5>2. next \in 1 .. Len(Loops) /\ Loops[next] # "remainder"
          BY <1>4, <1>8, <3>5, <4>2 DEF last
        <5>3. IsSound(Updates(Loops[next], t), run)
          BY <1>2, <5>1, <5>2, LoopOwes
        <5>4. QED
          BY <1>6, <3>1, <3>5, <5>3
      <4>3. QED
        BY <4>1, <4>2
    <3>6. QED
      BY <3>3, <3>4, <3>5
  <2>2. QED
    BY <1>10, <2>1 DEF SoundInv
<1>15. StartInv'
  <2>1. run' # 0
    BY <1>1, <1>3
  <2>2. ASSUME single' = NoThread, unrolled
        PROVE  FALSE
    <3>1. single = NoThread /\ ~ (taken /\ last)
      BY <1>1, <1>2, <2>2
    <3>2. loop[t] = 1
      BY <1>2, <1>3, <2>2, <3>1 DEF StartInv, unrolled
    <3>3. next = 2 /\ EndOfRun = 3 /\ Loops[2] = "remainder"
      BY <1>4, <2>2, <3>2 DEF next, unrolled
    <3>4. entered /\ last
      BY <3>3 DEF last
    <3>5. QED
      BY <1>8, <3>1, <3>4
  <2>3. QED
    BY <1>10, <2>1, <2>2 DEF StartInv, unrolled
<1>16. QED
  BY <1>13, <1>14, <1>15

\* The team leaves a loop together, for a next one that is not shared out to
\* the first to come.
LEMMA LeaveLoopIs ==
  ASSUME IInv, LeaveLoop
  PROVE  /\ loop[0] \in 1 .. Len(Loops) /\ EndsInBarrier(Loops[loop[0]]) /\ 0 \in Team
         /\ \A t \in Team : loop[t] = loop[0] /\ todo[t] = <<>>
         /\ loop[0] + 1 # EndOfRun =>
              loop[0] + 1 \in 1 .. Len(Loops) /\ Loops[loop[0] + 1] # "remainder"
<1> DEFINE next == loop[0] + 1
<1>1. /\ 0 \in Team /\ loop \in [Team -> 1 .. EndOfRun]
      /\ Len(Loops) \in Nat \ {0} /\ EndOfRun = Len(Loops) + 1
      /\ \A l \in 1 .. Len(Loops) :
           Loops[l] = "remainder" => l > 1 /\ ~ EndsInBarrier(Loops[l - 1])
  BY OptionsAre, LoopsAre DEF IInv, TypesInv
<1>2. ASSUME NEW t \in Team
      PROVE  /\ loop[t] \in 1 .. Len(Loops) /\ EndsInBarrier(Loops[loop[t]])
             /\ todo[t] = <<>>
  <2>1. waiting[t] /\ loop[t] < EndOfRun /\ loop[t] \in 1 .. EndOfRun
    BY <1>1 DEF LeaveLoop
  <2>2. loop[t] \in 1 .. Len(Loops) /\ loop[t] # EndOfRun
    BY <1>1, <2>1
  <2>3. QED
    BY <2>1, <2>2 DEF IInv, WaitsInv
<1>3. ASSUME NEW t \in Team
      PROVE  loop[t] = loop[0]
  <2>1. loop[t] \in Int /\ loop[0] \in Int
    BY <1>1, <1>2
  <2>2. ASSUME NEW u \in Team, NEW v \in Team, loop[u] < loop[v]
        PROVE  FALSE
    <3>1. loop[u] \in Int /\ loop[v] \in Int /\ EndsInBarrier(Loops[loop[u]])
      BY <1>2
    <3>2. loop[u] \in loop[u] .. loop[v] - 1
      BY <2>2, <3>1
    <3>3. QED
      BY <3>1, <3>2 DEF IInv, BarriersInv
  <2>3. ~ (loop[t] < loop[0]) /\ ~ (loop[0] < loop[t])
    BY <1>1, <2>2
  <2>4. QED
    BY <2>1, <2>3
<1>4. next # EndOfRun => next \in 1 .. Len(Loops) /\ Loops[next] # "remainder"
  <2>1. loop[0] \in 1 .. Len(Loops) /\ EndsInBarrier(Loops[loop[0]]) /\ next - 1 = loop[0]
    BY <1>1, <1>2
  <2>2. next # EndOfRun => next \in 1 .. Len(Loops)
    BY <1>1, <2>1
  <2> HIDE DEF next
  <2>3. QED
    BY <1>1, <2>1, <2>2
<1>5. QED
  BY <1>1, <1>2, <1>3, <1>4

LEMMA LeaveLoopSums ==
  ASSUME SumsInv, LeaveLoop
  PROVE  LedgerInv' /\ SoundInv' /\ StartInv'
<1> DEFINE next == loop[0] + 1
<1>1. /\ OptionsInv /\ IInv /\ LedgerInv /\ SoundInv /\ StartInv /\ run \in Nat
      /\ UNCHANGED options /\ y' = y /\ workspace' = workspace /\ run' = run /\ single' = single
  BY ThreadsAssumption DEF SumsInv, IInv, TypesInv, LeaveLoop
<1>2. /\ loop[0] \in 1 .. Len(Loops) /\ EndsInBarrier(Loops[loop[0]]) /\ 0 \in Team
      /\ \A t \in Team : loop[t] = loop[0] /\ todo[t] = <<>>
      /\ next # EndOfRun => next \in 1 .. Len(Loops) /\ Loops[next] # "remainder"
  BY <1>1, LeaveLoopIs
<1>3. \A t \in Team : /\ loop'[t] = next
                      /\ todo'[t] = IF next = EndOfRun THEN <<>> ELSE Updates(Loops[next], t)
  BY <1>2 DEF LeaveLoop
<1>4. /\ loop[0] \in 0 .. Len(Loops) /\ next \in 0 .. EndOfRun /\ loop[0] # EndOfRun
  BY <1>1, <1>2, LoopsAre
<1>5. /\ Team' = Team /\ Loops' = Loops /\ NoThread' = NoThread /\ Cells' = Cells
      /\ \A c, r : Goal(c, r)' = Goal(c, r)
  BY <1>1, UpdatesStay, GoalsStay DEF NoThread
<1>6. ASSUME NEW c \in Cells, NEW t \in Team
      PROVE  Ahead(loop[0], t, c, run) = Due(next, t, c, run) + Ahead(next, t, c, run)
  BY <1>1, <1>4, AheadIs
<1> HIDE DEF next
<1>7. ASSUME NEW c \in Cells
      PROVE  Left(c)' = Left(c)
  <2> DEFINE f == Rests(c)
             g == Rests(c)'
  <2>1. /\ IsFiniteSet(Team) /\ \A t \in Team : f[t] \in Int
        /\ \A t \in Team : f[t] = Owed(todo[t], c, run) + Ahead(loop[t], t, c, run)
        /\ \A t \in Team : Ahead(loop[t], t, c, run) \in Int
        /\ Left(c) = SumFunctionOnSet(f, Team) + Single(c)
    BY LedgerIs
  <2>2. /\ Left(c)' = SumFunctionOnSet(g, Team) + Single(c)'
        /\ \A t \in Team : g[t] = Owed(todo'[t], c, run) + Ahead(next, t, c, run)
        /\ Single(c)' = Single(c)
    BY <1>1, <1>3, LeftIs DEF Single
  <2>3. ASSUME NEW t \in Team
        PROVE  g[t] = f[t]
    <3>1. f[t] = Owed(<<>>, c, run) + Ahead(loop[0], t, c, run) /\ Owed(<<>>, c, run) = 0
          /\ Ahead(loop[0], t, c, run) \in Int
      <4>1. Owed(<<>>, c, run) = 0
        BY EmptyOwes
      <4>2. QED
        BY <1>2, <2>1, <4>1
    <3>2. Owed(todo'[t], c, run) = Due(next, t, c, run)
      <4>1. CASE next = EndOfRun
        <5>1. Due(EndOfRun, t, c, run) = 0
          BY <1>1, AheadIs
        <5>2. QED
          BY <1>3, <3>1, <4>1, <5>1
      <4>2. CASE next # EndOfRun
        BY <1>2, <1>3, <4>2 DEF Due
      <4>3. QED
        BY <4>1, <4>2
    <3>3. g[t] = Ahead(loop[0], t, c, run)
      BY <1>6, <2>2, <3>2
    <3> HIDE DEF f, g
    <3>4. QED
      BY <3>1, <3>3
  <2>4. SumFunctionOnSet(g, Team) = SumFunctionOnSet(f, Team)
    <3> HIDE DEF f, g
    <3>1. \A t \in Team : g[t] = f[t] /\ f[t] \in Int
      BY <2>1, <2>3
    <3>2. QED
      BY <2>1, <3>1, SumOfSame
  <2>5. QED
    BY <2>1, <2>2, <2>4
<1>8. LedgerInv'
  <2>1. \A c \in Cells : Value(c)' = Value(c) /\ Goal(c, run)' = Goal(c, run)
    BY <1>1, <1>5 DEF Value
  <2>2. QED
    BY <1>1, <1>5, <1>7, <2>1 DEF LedgerInv
<1>9. SoundInv'
  <2>1. ASSUME NEW t \in Team
        PROVE  IsSound(todo[t], run)'
    <3>1. IsSound(todo[t], run)' <=> IsSound(todo'[t], run)
      BY <1>1, AmountsStay
    <3>2. IsSound(<<>>, run)
      BY EmptyOwes
    <3>3. CASE next = EndOfRun
      BY <1>3, <3>1, <3>2, <3>3
    <3>4. CASE next # EndOfRun
      <4>1. Cell("y", 0) \in Cells
        <5>1. 0 \in Rows(m)
          BY <1>1, OptionsAre DEF Rows
        <5>2. QED
          BY <5>1 DEF Cells
      <4>2. IsSound(Updates(Loops[next], t), run)
        BY <1>1, <1>2, <3>4, <4>1, LoopOwes
      <4>3. QED
        BY <1>3, <3>1, <3>4, <4>2
    <3>5. QED
      BY <3>3, <3>4
  <2>2. QED
    BY <1>5, <2>1 DEF SoundInv
<1>10. StartInv'
  <2>1. run # 0
    BY <1>1, <1>2, <1>4 DEF StartInv, RunEnded
  <2>2. Loops # <<"unrolled", "remainder">>
    BY <1>2 DEF EndsInBarrier
  <2>3. QED
    BY <1>1, <1>5, <2>1, <2>2 DEF StartInv
<1>11. QED
  BY <1>8, <1>9, <1>10

\* What does not touch what the ledger is made of.
LEMMA LedgerStays ==
  ASSUME SumsInv, UNCHANGED <<options, run, loop, todo, single, y, workspace>>
  PROVE  LedgerInv' /\ SoundInv'
<1>1. /\ LedgerInv /\ SoundInv /\ UNCHANGED options /\ run' = run /\ loop' = loop
      /\ todo' = todo /\ single' = single /\ y' = y /\ workspace' = workspace
  BY DEF SumsInv
<1>2. /\ Team' = Team /\ NoThread' = NoThread /\ Cells' = Cells
      /\ \A c, r : Goal(c, r)' = Goal(c, r)
  BY <1>1, UpdatesStay, GoalsStay DEF NoThread
<1>3. ASSUME NEW c
      PROVE  Left(c)' = Left(c)
  <2>1. \A t \in Team : Rest(t, c)' = Rest(t, c)
    BY <1>1, RestIs DEF Rest
  <2>2. Rests(c)' = Rests(c)
    BY <1>2, <2>1 DEF Rests
  <2>3. Single(c)' = Single(c)
    BY <1>1, LeftIs DEF Single
  <2>4. QED
    BY <1>2, <2>2, <2>3 DEF Left
<1>4. LedgerInv'
  <2>1. \A c : Value(c)' = Value(c) /\ Goal(c, run)' = Goal(c, run)
    BY <1>1, <1>2 DEF Value
  <2>2. QED
    BY <1>1, <1>2, <1>3, <2>1 DEF LedgerInv
<1>5. SoundInv'
  <2>1. \A t : IsSound(todo[t], run)' <=> IsSound(todo[t], run)
    BY <1>1, AmountsStay
  <2>2. QED
    BY <1>1, <1>2, <2>1 DEF SoundInv
<1>6. QED
  BY <1>4, <1>5

\* A step of a thread within a run that leaves it in its loop.
LEMMA StartStays ==
  ASSUME SumsInv, ~ RunEnded, UNCHANGED <<options, run, loop, single>>
  PROVE  StartInv'
<1>1. /\ StartInv /\ UNCHANGED options /\ run' = run /\ loop' = loop /\ single' = single /\ run # 0
  BY DEF SumsInv, StartInv
<1>2. Team' = Team /\ Loops' = Loops /\ NoThread' = NoThread
  BY <1>1, UpdatesStay DEF NoThread
<1>3. QED
  BY <1>1, <1>2 DEF StartInv

LEMMA NextSums ==
  ASSUME SumsInv, [Next]_vars
  PROVE  SumsInv'
<1>1. /\ IInv /\ IInv' /\ LedgerInv /\ SoundInv /\ TmpInv /\ DOMAIN tmp = Team
  BY NextPreserves DEF SumsInv
<1>2. ASSUME NEW t \in Team, ~ waiting[t]
      PROVE  ~ RunEnded
  BY <1>2 DEF RunEnded
<1>3. ASSUME NEW t \in Team, LoadSum(t)
      PROVE  SumsInv'
  <2>1. /\ Working(t) /\ ~ Atomic(t) /\ tmp' = [tmp EXCEPT ![t] = <<SumFor(t)>>]
        /\ UNCHANGED <<options, run, loop, todo, waiting, single, y, workspace>>
    BY <1>3 DEF LoadSum
  <2>2. /\ UNCHANGED options /\ loop' = loop /\ todo' = todo /\ waiting' = waiting
        /\ y' = y /\ workspace' = workspace /\ tmp'[t] = <<SumFor(t)>>
        /\ \A u \in Team \ {t} : tmp'[u] = tmp[u]
    BY <1>1, <2>1
  <2>3. Team' = Team /\ Loops' = Loops /\ NoSum' = NoSum
    BY <2>2, UpdatesStay DEF NoSum
  <2>4. LedgerInv' /\ SoundInv'
    BY <2>1, LedgerStays
  <2>5. ~ RunEnded
    BY <1>2, <2>1 DEF Working
  <2>6. StartInv'
    BY <2>1, <2>5, StartStays
  <2>7. TmpInv'
    <3>1. ASSUME NEW u \in Team
          PROVE  /\ Working(u)' <=> Working(u)
                 /\ Atomic(u)' <=> Atomic(u)
                 /\ SumFor(u)' = SumFor(u)
      <4>1. \A c : Value(c)' = Value(c)
        BY <2>2 DEF Value
      <4>2. Current(u)' = Current(u)
        BY <2>2 DEF Current
      <4>3. SumFor(u)' = SumFor(u)
        BY <4>1, <4>2 DEF SumFor
      <4>4. QED
        BY <2>2, <2>3, <4>3 DEF Working, Atomic
    <3>2. ASSUME NEW u \in Team, tmp'[u] # NoSum
          PROVE  Working(u) /\ ~ Atomic(u) /\ tmp'[u] = <<SumFor(u)>>
      <4>1. CASE u = t
        BY <2>1, <2>2, <4>1
      <4>2. CASE u # t
        BY <1>1, <2>2, <3>2, <4>2 DEF TmpInv
      <4>3. QED
        BY <4>1, <4>2
    <3>3. QED
      BY <2>3, <3>1, <3>2 DEF TmpInv
  <2>8. DOMAIN tmp' = Team'
    BY <1>1, <2>1, <2>3
  <2>9. QED
    BY <1>1, <2>4, <2>6, <2>7, <2>8 DEF SumsInv
<1>4. ASSUME NEW t \in Team, NEW sum, sum = SumFor(t), Working(t), Store(Current(t).to, sum),
             todo' = [todo EXCEPT ![t] = Tail(@)],
             UNCHANGED <<options, run, loop, waiting, single>>,
             DOMAIN tmp' = Team, tmp'[t] = NoSum, \A u \in Team \ {t} : tmp'[u] = tmp[u]
      PROVE  SumsInv'
  <2>1. Team' = Team
    BY <1>4, UpdatesStay
  <2>2. LedgerInv' /\ SoundInv'
    BY <1>4, UpdateKeepsLedger
  <2>3. TmpInv'
    BY <1>4, UpdateKeepsTmp
  <2>4. ~ RunEnded
    BY <1>2, <1>4 DEF Working
  <2>5. StartInv'
    BY <1>4, <2>4, StartStays
  <2>6. QED
    BY <1>1, <1>4, <2>1, <2>2, <2>3, <2>5 DEF SumsInv
<1>5. ASSUME NEW t \in Team, StoreSum(t)
      PROVE  SumsInv'
  <2>1. /\ Working(t) /\ tmp[t] # NoSum /\ Store(Current(t).to, tmp[t][1])
        /\ tmp' = [tmp EXCEPT ![t] = NoSum] /\ todo' = [todo EXCEPT ![t] = Tail(@)]
        /\ UNCHANGED <<options, run, loop, waiting, single>>
    BY <1>5 DEF StoreSum
  <2>2. tmp[t] = <<SumFor(t)>> /\ tmp[t][1] = SumFor(t)
    BY <1>1, <2>1 DEF TmpInv
  <2>3. DOMAIN tmp' = Team /\ tmp'[t] = NoSum /\ \A u \in Team \ {t} : tmp'[u] = tmp[u]
    BY <1>1, <2>1
  <2>4. QED
    BY <1>4, <2>1, <2>2, <2>3
<1>6. ASSUME NEW t \in Team, AtomicUpdate(t)
      PROVE  SumsInv'
  <2>1. /\ Working(t) /\ Atomic(t) /\ Store(Current(t).to, SumFor(t))
        /\ todo' = [todo EXCEPT ![t] = Tail(@)]
        /\ UNCHANGED <<options, run, loop, waiting, single>> /\ tmp' = tmp
    BY <1>6 DEF AtomicUpdate
  <2>2. DOMAIN tmp' = Team /\ tmp'[t] = NoSum /\ \A u \in Team \ {t} : tmp'[u] = tmp[u]
    BY <1>1, <2>1 DEF TmpInv
  <2>3. QED
    BY <1>4, <2>1, <2>2
<1>7. ASSUME NEW t \in Team, Arrive(t)
      PROVE  SumsInv'
  <2>1. /\ ~ waiting[t] /\ todo[t] = <<>> /\ waiting' = [waiting EXCEPT ![t] = TRUE]
        /\ UNCHANGED <<options, run, loop, todo, tmp, single, y, workspace>>
    BY <1>7 DEF Arrive
  <2>2. Team' = Team /\ tmp' = tmp
    BY <2>1, UpdatesStay
  <2>3. LedgerInv' /\ SoundInv'
    BY <2>1, LedgerStays
  <2>4. StartInv'
    BY <1>2, <2>1, StartStays
  <2>5. \A u \in Team : Working(u) => /\ todo'[u] = todo[u] /\ waiting'[u] = waiting[u]
                                      /\ loop'[u] = loop[u]
    <3>1. todo' = todo /\ loop' = loop /\ \A u \in Team : u # t => waiting'[u] = waiting[u]
      BY <2>1
    <3>2. \A u \in Team : Working(u) => u # t
      BY <2>1 DEF Working
    <3>3. QED
      BY <3>1, <3>2
  <2>6. TmpInv'
    BY <1>1, <2>1, <2>5, TmpStays
  <2>7. QED
    BY <1>1, <2>2, <2>3, <2>4, <2>6 DEF SumsInv
<1>8. ASSUME LedgerInv', SoundInv', StartInv', UNCHANGED <<options, tmp, y, workspace>>,
             \A u \in Team : Working(u) => /\ todo'[u] = todo[u] /\ waiting'[u] = waiting[u]
                                           /\ loop'[u] = loop[u]
      PROVE  SumsInv'
  <2>1. Team' = Team /\ tmp' = tmp
    BY <1>8, UpdatesStay
  <2>2. TmpInv'
    BY <1>1, <1>8, TmpStays
  <2>3. QED
    BY <1>1, <1>8, <2>1, <2>2 DEF SumsInv
<1>9. ASSUME NEW t \in Team, GoOn(t)
      PROVE  SumsInv'
  <2> DEFINE next == loop[t] + 1
             taken == next # EndOfRun /\ Takes(t, Loops[next])
  <2>1. /\ ~ waiting[t] /\ todo[t] = <<>> /\ loop' = [loop EXCEPT ![t] = next]
        /\ waiting' = [waiting EXCEPT ![t] = ~ (next # EndOfRun)]
        /\ todo' = IF taken THEN [todo EXCEPT ![t] = Updates(Loops[next], t)] ELSE todo
        /\ UNCHANGED <<options, tmp, y, workspace>>
    BY <1>9 DEF GoOn
  <2> HIDE DEF next, taken
  <2>2. \A u \in Team : Working(u) => u # t
    BY <2>1 DEF Working
  <2>3. \A u \in Team : u # t => /\ todo'[u] = todo[u] /\ waiting'[u] = waiting[u]
                                 /\ loop'[u] = loop[u]
    BY <2>1
  <2>4. LedgerInv' /\ SoundInv' /\ StartInv'
    BY <1>9, GoOnSums
  <2>5. QED
    BY <1>8, <2>1, <2>2, <2>3, <2>4
<1>10. ASSUME LeaveLoop
       PROVE  SumsInv'
  <2>1. LedgerInv' /\ SoundInv' /\ StartInv'
    BY <1>10, LeaveLoopSums
  <2>2. \A u \in Team : ~ Working(u)
    BY <1>10 DEF LeaveLoop, Working
  <2>3. UNCHANGED <<options, tmp, y, workspace>>
    BY <1>10 DEF LeaveLoop
  <2>4. QED
    BY <1>8, <2>1, <2>2, <2>3
<1>11. ASSUME StartRun
       PROVE  SumsInv'
  <2>1. LedgerInv' /\ SoundInv' /\ StartInv'
    BY <1>11, StartRunSums
  <2>2. \A u \in Team : ~ Working(u)
    BY <1>11 DEF StartRun, RunEnded, Working
  <2>3. UNCHANGED <<options, tmp, y, workspace>>
    BY <1>11 DEF StartRun
  <2>4. QED
    BY <1>8, <2>1, <2>2, <2>3
<1>12. ASSUME UNCHANGED vars
       PROVE  SumsInv'
  <2>1. /\ UNCHANGED <<options, run, loop, todo, single, y, workspace>>
        /\ UNCHANGED <<options, tmp, y, workspace>>
        /\ run' = run /\ loop' = loop /\ waiting' = waiting /\ todo' = todo /\ single' = single
    BY <1>12 DEF vars, progress
  <2>2. LedgerInv' /\ SoundInv'
    BY <2>1, LedgerStays
  <2>3. StartInv'
    <3>1. Team' = Team /\ Loops' = Loops /\ NoThread' = NoThread /\ EndOfRun' = EndOfRun
      BY <2>1, UpdatesStay DEF NoThread
    <3>2. QED
      BY <2>1, <3>1 DEF SumsInv, StartInv, RunEnded
  <2>4. QED
    BY <1>8, <2>1, <2>2, <2>3
<1>13. QED
  BY <1>3, <1>5, <1>6, <1>7, <1>9, <1>10, <1>11, <1>12 DEF Next, Step

LEMMA SumsImplyProduct ==
  ASSUME SumsInv
  PROVE  RunAddsProduct
<1> SUFFICES ASSUME RunEnded, NEW i \in Rows(m)
             PROVE  y[i] = (run * Product(m, x, i))
                             + (IF UsesWorkspace THEN ((run * (run - 1)) \div 2) * CooProduct(i) ELSE 0)
  BY DEF RunAddsProduct
<1> DEFINE c == Cell("y", i)
<1>1. c \in Cells /\ c.array = "y" /\ c.index = i
  BY DEF Cells, Cell
<1>2. Value(c) = y[i]
  BY <1>1 DEF Value
<1>3. Goal(c, run) = (run * Product(m, x, i))
                       + (IF UsesWorkspace THEN ((run * (run - 1)) \div 2) * CooProduct(i) ELSE 0)
  BY <1>1 DEF Goal
<1> HIDE DEF c
<1>4. Value(c) \in Int /\ Value(c) + Left(c) = Goal(c, run) /\ Left(c) = 0
  BY <1>1, NothingLeft DEF SumsInv, LedgerInv
<1>5. Value(c) = Goal(c, run)
  BY <1>4
<1>6. QED
  BY <1>2, <1>3, <1>5

\* Every run adds A * x to y, whatever the kernel, the matrix, the team and
\* the order of its threads, but for the coordinate part that a workspace
\* nobody zeroes adds again (the run() of the kernels, coo_spmv).
THEOREM RunsAddProducts == Spec => []RunAddsProduct
<1>1. Init => SumsInv
  BY InitSums
<1>2. SumsInv /\ [Next]_vars => SumsInv'
  BY NextSums
<1>3. SumsInv => RunAddsProduct
  BY SumsImplyProduct
<1>4. QED
  BY <1>1, <1>2, <1>3, PTL DEF Spec
=============================================================================
