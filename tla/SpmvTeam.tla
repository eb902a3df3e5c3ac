------------------------------ MODULE SpmvTeam ------------------------------
(***************************************************************************)
(* An OpenMP team computes y += A * x with the spmv functions of the       *)
(* matrix formats, run after run, as the kernels' run() does.  A run is a  *)
(* sequence of worksharing loops; a loop without nowait ends in a barrier, *)
(* and so does every run (profile-kernel.cpp).  Every `+=` to memory is a  *)
(* load and a store; the threads interleave between the two.               *)
(***************************************************************************)
EXTENDS MatrixFormats, StaticSchedule

CONSTANTS Matrices,      \* in Matrix Market form; x is a function of the column
          X(_),
          MaxThreads, Runs

ASSUME ThreadsAssumption == MaxThreads \in Nat \ {0} /\ Runs \in Nat \ {0}
ASSUME MatricesAssumption == \A mm \in Matrices : IsMatrix(mm)
ASSUME XAssumption == \A mm \in Matrices : \A j \in 0 .. mm.columns - 1 : X(j) \in Int

VARIABLES
  m, A, kernel,  \* the matrix, as converted for [format, inner, unroll]
  num_threads,   \* as configured, and the size
  team,          \* of the team OpenMP grants
  run,           \* number of runs started
  loop,          \* [team -> the loop of the run a thread is in]
  todo,          \* [team -> the updates left of the loop, in order]
  tmp,           \* [team -> <<the sum to be stored>>, or NoSum]
  waiting,       \* [team -> BOOLEAN]: at a barrier
  single,        \* the thread that took the single construct, or NoThread
  y, workspace

options == <<m, A, kernel, num_threads, team>>
progress == <<run, loop, todo, tmp, waiting, single>>
vars == <<options, progress, y, workspace>>

Team == 0 .. team - 1
NoThread == -1
NoSum == <<>>

Csr(inner, unroll) == [format |-> "csr", inner |-> inner, unroll |-> unroll]
Other(format) == [format |-> format, inner |-> "scalar", unroll |-> 1]
Kernels ==
  {Csr(inner, unroll) : inner \in {"scalar", "avx128", "avx256"}, unroll \in {1, 2, 4}}
    \cup {Other(f) : f \in {"coo", "coo_atomic", "ell", "ell_skip", "hybrid", "hybrid_skip"}}

UsesWorkspace == kernel.format \in {"coo", "hybrid", "hybrid_skip"} /\ num_threads > 1

x == [j \in 0 .. m.columns - 1 |-> X(j)]

\* What the kernel's init makes of the matrix.
Converted(mm, k) ==
  CASE k.format \in {"coo", "coo_atomic"} -> [coo |-> CooOf(mm)]
    [] k.format = "csr" -> CsrOf(mm, 1)
    [] k.format \in {"ell", "ell_skip"} -> [ell |-> EllOf(mm, k.format = "ell_skip")]
    [] OTHER -> HybridOf(mm, k.format = "hybrid_skip")

RowSum(i) ==
  IF kernel.format # "csr" THEN EllRow(A.ell, x, i)
  ELSE CASE kernel.inner = "scalar" -> CsrRow(A, x, i)
         [] kernel.inner = "avx128" ->
              VectorRow(A, x, Avx128Loads(A.row_ptr[i], A.row_ptr[i + 1]))
         [] kernel.inner = "avx256" ->
              VectorRow(A, x, Avx256Loads(A.row_ptr[i], A.row_ptr[i + 1]))

-----------------------------------------------------------------------------
(***************************************************************************)
(* The loops.  An update adds `addend`, and the workspace element `from`   *)
(* if there is one, to the cell `to`.                                      *)
(***************************************************************************)
Cell(array, index) == [array |-> array, index |-> index]

AddTo(cell, addend) == [to |-> cell, addend |-> addend, from |-> {}]

RowUpdate(i) == AddTo(Cell("y", i), RowSum(i))

EntryUpdate(k, cell) == AddTo(cell, A.coo.value[k] * x[A.coo.column_index[k]])

\* Mutant of ReduceUpdates: the threads are counted from 1.
ReduceUpdatesFromOne(i) ==
  [j \in 1 .. num_threads |->
     [to |-> Cell("y", i), addend |-> 0,
      from |-> {Cell("workspace", j * m.rows + i)}]]

\* y[i] += workspace[j*num_rows+i], for every j.
ReduceUpdates(i) ==
  [j \in 1 .. num_threads |->
     [to |-> Cell("y", i), addend |-> 0,
      from |-> {Cell("workspace", (j - 1) * m.rows + i)}]]

\* The iterations in S in ascending order, each with `width` updates.
InOrder(S, width, Updates(_)) ==
  LET order == Ascending(S)
  IN  [n \in 1 .. width * Cardinality(S) |->
         Updates(order[((n - 1) \div width) + 1])[((n - 1) % width) + 1]]

EntriesChunk == CeilDiv(A.coo.size, num_threads)
HybridChunk == CeilDiv(m.rows, num_threads)

\* The chunk of the partial sums and of the reduction.
CooChunk == IF kernel.format = "coo" THEN EntriesChunk ELSE HybridChunk

PartialLoop(t) ==
  InOrder(Scheduled(A.coo.size, CooChunk, team, t), 1,
    LAMBDA k : <<EntryUpdate(k, Cell("workspace", t * m.rows + A.coo.row_index[k]))>>)

ReduceLoop(t) ==
  InOrder(Scheduled(m.rows, CooChunk, team, t), num_threads, ReduceUpdates)

\* num_threads = 1: no worksharing; atomic: one step for each update.
DirectLoop ==
  InOrder(0 .. A.coo.size - 1, 1,
    LAMBDA k : <<EntryUpdate(k, Cell("y", A.coo.row_index[k]))>>)

AtomicLoop(t) ==
  InOrder(Scheduled(A.coo.size, EntriesChunk, team, t), 1,
    LAMBDA k : <<EntryUpdate(k, Cell("y", A.coo.row_index[k]))>>)

\* CSR and ELL divide by the size of the team, the hybrid by num_threads.
RowsChunk == IF kernel.format \in {"hybrid", "hybrid_skip"} THEN HybridChunk
             ELSE CeilDiv(m.rows, team)

RowsLoop(t) ==
  LET mine == IF kernel.inner = "scalar" THEN Scheduled(m.rows, RowsChunk, team, t)
              ELSE Block(m.rows, team, t)
  IN  InOrder(mine, 1, LAMBDA i : <<RowUpdate(i)>>)

Whole == (m.rows \div kernel.unroll) * kernel.unroll

\* The rows of the g-th group.
UnrolledUpdates(g) ==
  [j \in 1 .. kernel.unroll |-> RowUpdate(g * kernel.unroll + (j - 1))]

UnrolledLoop(t) ==
  InOrder(Block(Whole \div kernel.unroll, team, t), kernel.unroll, UnrolledUpdates)

RemainderLoop == InOrder(Whole .. m.rows - 1, 1, LAMBDA i : <<RowUpdate(i)>>)

\* The loops of a run.
Loops ==
  CASE kernel.format \in {"coo", "coo_atomic"} /\ num_threads = 1 -> <<"direct">>
    [] kernel.format = "coo" /\ num_threads > 1 -> <<"partial", "reduce">>
    [] kernel.format = "coo_atomic" /\ num_threads > 1 -> <<"atomic">>
    [] kernel.format \in {"hybrid", "hybrid_skip"} ->
         IF num_threads = 1 THEN <<"rows", "direct">> ELSE <<"rows", "partial", "reduce">>
    [] kernel.format \in {"csr", "ell", "ell_skip"} ->
         IF kernel.unroll > 1 THEN <<"unrolled", "remainder">> ELSE <<"rows">>

EndOfRun == Len(Loops) + 1

Updates(name, t) ==
  CASE name = "partial" -> PartialLoop(t)
    [] name = "reduce" -> ReduceLoop(t)
    [] name = "direct" -> DirectLoop
    [] name = "atomic" -> AtomicLoop(t)
    [] name = "rows" -> RowsLoop(t)
    [] name = "unrolled" -> UnrolledLoop(t)
    [] name = "remainder" -> RemainderLoop

\* Mutant of EndsInBarrier: nowait on the loop of the partial sums.
EndsInBarrierNotPartial(name) == name \in {"reduce", "atomic"}

EndsInBarrier(name) == name \in {"partial", "reduce", "atomic"}

-----------------------------------------------------------------------------
Init ==
  /\ m \in Matrices
  /\ kernel \in Kernels
  /\ A = Converted(m, kernel)
  /\ num_threads \in 1 .. MaxThreads
  /\ team \in 1 .. num_threads
  /\ run = 0
  /\ loop = [t \in Team |-> EndOfRun]
  /\ todo = [t \in Team |-> <<>>]
  /\ tmp = [t \in Team |-> NoSum]
  /\ waiting = [t \in Team |-> TRUE]
  /\ single = NoThread
  /\ y = [i \in Rows(m) |-> 0]
  /\ workspace = [k \in 0 .. num_threads * m.rows - 1 |-> 0]

Working(t) == ~ waiting[t] /\ todo[t] # <<>>
Current(t) == Head(todo[t])
Atomic(t) == Loops[loop[t]] = "atomic"

Value(cell) == IF cell.array = "y" THEN y[cell.index] ELSE workspace[cell.index]

SumFor(t) ==
  Value(Current(t).to) + (Current(t).addend + SumFunction([c \in Current(t).from |-> Value(c)]))

Store(cell, sum) ==
  /\ y' = IF cell.array = "y" THEN [y EXCEPT ![cell.index] = sum] ELSE y
  /\ workspace' = IF cell.array = "workspace"
                  THEN [workspace EXCEPT ![cell.index] = sum] ELSE workspace

LoadSum(t) ==
  /\ Working(t) /\ tmp[t] = NoSum /\ ~ Atomic(t)
  /\ tmp' = [tmp EXCEPT ![t] = <<SumFor(t)>>]
  /\ UNCHANGED <<options, run, loop, todo, waiting, single, y, workspace>>

StoreSum(t) ==
  /\ Working(t) /\ tmp[t] # NoSum
  /\ Store(Current(t).to, tmp[t][1])
  /\ tmp' = [tmp EXCEPT ![t] = NoSum]
  /\ todo' = [todo EXCEPT ![t] = Tail(@)]
  /\ UNCHANGED <<options, run, loop, waiting, single>>

\* #pragma omp atomic
AtomicUpdate(t) ==
  /\ Working(t) /\ Atomic(t)
  /\ Store(Current(t).to, SumFor(t))
  /\ todo' = [todo EXCEPT ![t] = Tail(@)]
  /\ UNCHANGED <<options, run, loop, tmp, waiting, single>>

\* Mutant of Arrive: a thread without a share of the loop passes its barrier.
ArriveIfShared(t) ==
  /\ ~ waiting[t] /\ todo[t] = <<>> /\ EndsInBarrier(Loops[loop[t]])
  /\ waiting' = [waiting EXCEPT ![t] = TRUE]
  /\ loop' = IF Updates(Loops[loop[t]], t) = <<>>
             THEN [loop EXCEPT ![t] = EndOfRun] ELSE loop
  /\ UNCHANGED <<options, run, todo, tmp, single, y, workspace>>

\* The thread has done its share of a loop that ends in a barrier.
Arrive(t) ==
  /\ ~ waiting[t] /\ todo[t] = <<>> /\ EndsInBarrier(Loops[loop[t]])
  /\ waiting' = [waiting EXCEPT ![t] = TRUE]
  /\ UNCHANGED <<options, run, loop, todo, tmp, single, y, workspace>>

\* Only the first thread there executes a single construct.
Takes(t, name) == name = "remainder" => single = NoThread

\* A loop with nowait is followed by the next one, or by the end of the run.
GoOn(t) ==
  /\ ~ waiting[t] /\ todo[t] = <<>> /\ ~ EndsInBarrier(Loops[loop[t]])
  /\ LET next == loop[t] + 1
         entered == next # EndOfRun
         taken == entered /\ Takes(t, Loops[next])
     IN  /\ loop' = [loop EXCEPT ![t] = next]
         /\ waiting' = [waiting EXCEPT ![t] = ~ entered]
         /\ todo' = IF taken THEN [todo EXCEPT ![t] = Updates(Loops[next], t)] ELSE todo
         /\ single' = IF taken /\ Loops[next] = "remainder" THEN t ELSE single
  /\ UNCHANGED <<options, run, tmp, y, workspace>>

\* All threads have come to the barrier at the end of a loop.
LeaveLoop ==
  /\ \A t \in Team : waiting[t] /\ loop[t] < EndOfRun
  /\ LET next == loop[0] + 1 IN
     /\ loop' = [t \in Team |-> next]
     /\ waiting' = [t \in Team |-> next = EndOfRun]
     /\ todo' = IF next = EndOfRun THEN todo ELSE [t \in Team |-> Updates(Loops[next], t)]
  /\ UNCHANGED <<options, run, tmp, single, y, workspace>>

\* All threads are at the end of the run, or before the first one.
RunEnded == \A t \in Team : waiting[t] /\ loop[t] = EndOfRun

StartRun ==
  /\ RunEnded /\ run < Runs
  /\ run' = run + 1
  /\ loop' = [t \in Team |-> 1]
  /\ waiting' = [t \in Team |-> FALSE]
  /\ todo' = [t \in Team |-> Updates(Loops[1], t)]
  /\ single' = NoThread
  /\ UNCHANGED <<options, tmp, y, workspace>>

Step(t) == LoadSum(t) \/ StoreSum(t) \/ AtomicUpdate(t) \/ Arrive(t) \/ GoOn(t)

Next == (\E t \in Team : Step(t)) \/ LeaveLoop \/ StartRun

\* The threads run, each on a CPU of its own, and the runtime opens barriers.
Fairness ==
  /\ \A t \in 0 .. MaxThreads - 1 : WF_vars(t \in Team /\ Step(t))
  /\ WF_vars(LeaveLoop) /\ WF_vars(StartRun)

Spec == Init /\ [][Next]_vars /\ Fairness

-----------------------------------------------------------------------------
\* Every update the threads still have to make is to an element of y or of
\* the workspace that exists, as is every element a reduction reads
\* (coo-matrix.cpp: workspace[thread*num_rows+row_index[k]]).
TypeOK ==
  /\ run \in 0 .. Runs /\ single \in Team \cup {NoThread}
  /\ loop \in [Team -> 1 .. EndOfRun] /\ waiting \in [Team -> BOOLEAN]
  /\ \A t \in Team : \A n \in DOMAIN todo[t] :
       \A c \in {todo[t][n].to} \cup todo[t][n].from :
         c.index \in IF c.array = "y" THEN DOMAIN y ELSE DOMAIN workspace

Accesses(t) ==
  IF ~ Working(t) THEN {}
  ELSE {[cell |-> Current(t).to, write |-> TRUE]}
         \cup {[cell |-> c, write |-> FALSE] : c \in Current(t).from}

\* No two threads are at the same element of y or of the workspace unless
\* both read it or both update it atomically: nowait, single and the loops'
\* barriers keep the threads of one run apart (csr-matrix-spmv.cpp,
\* ell-matrix.cpp, coo-matrix.cpp, hybrid-matrix.cpp).
NoDataRace ==
  \A t, u \in Team : t # u =>
    \A a \in Accesses(t), b \in Accesses(u) :
      a.cell = b.cell /\ (a.write \/ b.write) => Atomic(t) /\ Atomic(u)

CooProduct(i) ==
  LET mine == {k \in 0 .. A.coo.size - 1 : A.coo.row_index[k] = i}
  IN  SumFunction([k \in mine |-> A.coo.value[k] * x[A.coo.column_index[k]]])

\* Every run adds A * x to y, whatever the format, the inner loop, the size of
\* the team and the order of the threads.  The runs of a kernel with a
\* workspace do not: nothing zeroes it between them, and the n-th run adds the
\* coordinate part n times (coo-matrix.cpp and hybrid-matrix.cpp, coo_spmv).
RunAddsProduct ==
  RunEnded =>
    \A i \in Rows(m) :
      y[i] = run * Product(m, x, i)
               + IF UsesWorkspace THEN ((run * (run - 1)) \div 2) * CooProduct(i) ELSE 0

\* The team comes to the end of the last run: no thread waits for one that
\* has left the loop without its barrier (the pragmas of the spmv functions).
TeamFinishes == <>(RunEnded /\ run = Runs)
=============================================================================
