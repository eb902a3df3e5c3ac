-------------------------- MODULE ReferenceStrings --------------------------
(***************************************************************************)
(* What a kernel tells the cache simulation about its run: its arrays, the *)
(* pages that prepare() gives to the threads, and the reference string of  *)
(* each thread, every reference with the thread whose NUMA domain holds    *)
(* the element.  The strings are compared with the elements the threads    *)
(* touch under the loop schedules of run() (SpmvTeam), and the owners with *)
(* the pages.                                                              *)
(***************************************************************************)
EXTENDS MatrixFormats, PageDistribution, SequencesExt

CONSTANTS Matrices, MaxThreads,
          PageSize,     \* in bytes / 4: the size of an index is 1,
          Addresses     \* where the arrays may start in their page

ASSUME SizesAssumption ==
  /\ MaxThreads \in Nat \ {0} /\ PageSize \in Nat \ {0} /\ PageSize % 2 = 0
  /\ \A p \in Addresses : p \in 0 .. PageSize - 1 /\ p % 2 = 0
ASSUME MatricesAssumption == \A mm \in Matrices : IsMatrix(mm)

VARIABLES
  m, A, kernel, num_threads,
  address,      \* of the arrays, modulo the size of a page
  pages,        \* [array -> [page -> thread]], for the arrays distributed so far
  strings       \* <<the reference string of thread 0, of thread 1, ...>>

options == <<m, A, kernel, num_threads, address>>
vars == <<options, pages, strings>>

KernelNames == {"triad", "csr", "ell", "coo", "coo_atomic", "hybrid"}
Threads == 0 .. num_threads - 1

Converted(mm, k) ==
  CASE k = "triad" -> [num_entries |-> Len(mm.entries)]
    [] k = "csr" -> [csr |-> CsrOf(mm, 1)]
    [] k = "ell" -> [ell |-> EllOf(mm, FALSE)]
    [] k \in {"coo", "coo_atomic"} -> [coo |-> CooOf(mm)]
    [] k = "hybrid" -> HybridOf(mm, FALSE)

-----------------------------------------------------------------------------
\* The arrays of a kernel, in the order of prepare().
Indices(name, n) == [name |-> name, size |-> 1, n |-> n]
Values(name, n) == [name |-> name, size |-> 2, n |-> n]

EllSize == m.rows * A.ell.row_length
EllArrays == <<Indices("ell_column_index", EllSize), Values("ell_value", EllSize)>>
Vectors == <<Values("x", m.columns), Values("y", m.rows)>>

TriadArrays == <<Values("a", A.num_entries), Values("b", A.num_entries), Values("c", A.num_entries)>>

CsrArrays ==
  LET nonzeros == A.csr.row_ptr[m.rows] IN
  <<Indices("row_ptr", m.rows + 1), Indices("column_index", nonzeros), Values("value", nonzeros)>>

CooArrays == <<Indices("coo_row_index", A.coo.size),
               Indices("coo_column_index", A.coo.size), Values("coo_value", A.coo.size)>>

CooWithWorkspace == CooArrays \o Vectors \o <<Values("workspace", num_threads * m.rows)>>

Arrays ==
  CASE kernel = "triad" -> TriadArrays
    [] kernel = "csr" -> CsrArrays \o Vectors
    [] kernel = "ell" -> EllArrays \o Vectors
    [] kernel = "coo_atomic" -> CooArrays \o Vectors
    [] kernel = "coo" -> CooWithWorkspace
    [] kernel = "hybrid" -> EllArrays \o CooWithWorkspace

ArrayNames == {Arrays[k].name : k \in DOMAIN Arrays}
ArrayOf(name) == CHOOSE a \in ToSet(Arrays) : a.name = name

-----------------------------------------------------------------------------
\* The reference strings.  Refs concatenates what the iterations of a loop
\* over first .. last append.
Refs(iteration) ==
  LET range == DOMAIN iteration
  IN  FlattenSeq([n \in 1 .. Cardinality(range) |-> iteration[Min(range) + n - 1]])

Ref(name, index, thread) == [array |-> name, index |-> index, owner |-> thread]

\* thread_of_index<value_type>(x.data(), columns, j, ...)
Owner(name, n, index) == ThreadOfIndex(address, 2, n, index, num_threads, PageSize)

OfX(j) == Ref("x", j, Owner("x", m.columns, j))

TriadString(t) ==
  LET range == ThreadRange(A.num_entries, num_threads, t) IN
  [size |-> 3 * Cardinality(range),
   refs |-> Refs([k \in range |-> <<Ref("b", k, t), Ref("c", k, t), Ref("a", k, t)>>])]

CsrString(t) ==
  LET C == A.csr
      rows == ThreadRange(m.rows, num_threads, t)
      start_row == ThreadStart(m.rows, num_threads, t)
      nonzeros == C.row_ptr[ThreadStart(m.rows, num_threads, t + 1)] - C.row_ptr[start_row]
      Nonzero(k) == <<Ref("column_index", k, t), Ref("value", k, t), OfX(C.column_index[k])>>
      Row(i) == <<Ref("row_ptr", i + 1, t)>>
                  \o Refs([k \in C.row_ptr[i] .. C.row_ptr[i + 1] - 1 |-> Nonzero(k)])
                  \o <<Ref("y", i, t)>>
  IN  [size |-> 3 * nonzeros + 2 * Cardinality(rows) + 1,
       refs |-> <<Ref("row_ptr", start_row, t)>> \o Refs([i \in rows |-> Row(i)])]

EllString(t) ==
  LET length == A.ell.row_length
      rows == ThreadRange(m.rows, num_threads, t)
      Nonzero(k) == <<Ref("ell_column_index", k, t), Ref("ell_value", k, t),
                      OfX(A.ell.column_index[k])>>
      Row(i) == Refs([k \in i * length .. (i + 1) * length - 1 |-> Nonzero(k)])
                  \o <<Ref("y", i, t)>>
  IN  [size |-> 3 * Cardinality(rows) * length + Cardinality(rows),
       refs |-> Refs([i \in rows |-> Row(i)])]

\* An entry and what it is added to.
CooEntry(k, t, target) ==
  <<Ref("coo_row_index", k, t), Ref("coo_column_index", k, t), Ref("coo_value", k, t),
    OfX(A.coo.column_index[k]), target>>

\* The workspace is taken to have num_threads * thread_num_rows elements here.
CooString(t) ==
  LET entries == ThreadRange(A.coo.size, num_threads, t)
      rows == ThreadRange(m.rows, num_threads, t)
      Entry5(k) == CooEntry(k, t, Ref("workspace", t * m.rows + A.coo.row_index[k], t))
      Reduced(i, j) ==
        LET index == j * m.rows + i IN
        <<Ref("workspace", index, Owner("workspace", num_threads * Cardinality(rows), index)),
          Ref("y", i, t)>>
      Row(i) == Refs([j \in Threads |-> Reduced(i, j)])
  IN  [size |-> 5 * Cardinality(entries) + 2 * Cardinality(rows) * num_threads,
       refs |-> Refs([k \in entries |-> Entry5(k)]) \o Refs([i \in rows |-> Row(i)])]

CooAtomicString(t) ==
  LET entries == ThreadRange(A.coo.size, num_threads, t)
      Target(i) == Ref("y", i, Owner("y", m.rows, i))
  IN  [size |-> 5 * Cardinality(entries),
       refs |-> Refs([k \in entries |-> CooEntry(k, t, Target(A.coo.row_index[k]))])]

\* The ELL part's rows, then the coordinate part's entries and rows.
HybridString(t) ==
  [size |-> EllString(t).size + CooString(t).size,
   refs |-> EllString(t).refs \o CooString(t).refs]

String(t) ==
  CASE kernel = "triad" -> TriadString(t)
    [] kernel = "csr" -> CsrString(t)
    [] kernel = "ell" -> EllString(t)
    [] kernel = "coo" -> CooString(t)
    [] kernel = "coo_atomic" -> CooAtomicString(t)
    [] kernel = "hybrid" -> HybridString(t)

-----------------------------------------------------------------------------
Init ==
  /\ m \in Matrices /\ kernel \in KernelNames
  /\ A = Converted(m, kernel)
  /\ num_threads \in 1 .. MaxThreads
  /\ address \in Addresses
  /\ pages = <<>> /\ strings = <<>>

\* prepare(): the next call of distribute_pages.
Prepare ==
  /\ Len(pages) < Len(Arrays)
  /\ LET a == Arrays[Len(pages) + 1] IN
     pages' = Append(pages, Distributed(address, a.size, a.n, num_threads, PageSize))
  /\ UNCHANGED <<options, strings>>

\* memory_reference_string(), for the next thread.
MemoryReferenceString ==
  /\ Len(strings) < num_threads
  /\ strings' = Append(strings, String(Len(strings)))
  /\ UNCHANGED <<options, pages>>

Next == Prepare \/ MemoryReferenceString

Spec == Init /\ [][Next]_vars

-----------------------------------------------------------------------------
RefsOf(t) == ToSet(strings[t + 1].refs)
Cells(t, names) == {<<r.array, r.index>> : r \in {s \in RefsOf(t) : s.array \in names}}
Traced == 0 .. Len(strings) - 1

\* The string of a thread has as many references as were reserved for it, none
\* left at (0, 0), and refers to elements the arrays have: the row before the
\* first entry of an ELL matrix, whose padding has no column, is left out.  The
\* COO part of a hybrid matrix fills the arrays of num_coo_entries elements
\* (the num_references of the strings; hybrid-matrix.cpp, num_coo_entries).
StringsFillTheirArrays ==
  /\ kernel = "hybrid" => A.coo.size = NumCooEntries(m)
  /\ \A t \in Traced :
       /\ strings[t + 1].size = Len(strings[t + 1].refs)
       /\ \A r \in RefsOf(t) :
            \/ r.array = "x" /\ r.index = UndefinedColumn
            \/ r.index \in 0 .. ArrayOf(r.array).n - 1
       /\ \A r \in RefsOf(t) : r.owner \in Threads

AllRefs == FlattenSeq([n \in DOMAIN strings |-> strings[n].refs])
Count(name, index) ==
  Cardinality({n \in DOMAIN AllRefs : AllRefs[n].array = name /\ AllRefs[n].index = index})

EntriesInColumn(j) == Cardinality({k \in DOMAIN m.entries : m.entries[k].j - 1 = j})
PaddingInColumn(j) ==
  IF kernel \notin {"ell", "hybrid"} THEN 0
  ELSE LET length == A.ell.row_length
           Padding(k) == k % length >= RowLength(m, k \div length)
       IN  Cardinality({k \in 0 .. EllSize - 1 : Padding(k) /\ A.ell.column_index[k] = j})

\* Together, the strings of the threads refer once to every stored entry of
\* the matrix, and to an element of x as often as the Matrix Market file has
\* entries in its column, plus the padding that repeats the column
\* (the spmv_memory_reference_string functions, after the conversions).
EachEntryReferencedOnce ==
  Len(strings) = num_threads =>
    /\ \A a \in ToSet(Arrays) :
         a.name \notin {"row_ptr", "x", "y", "workspace"} =>
           \A k \in 0 .. a.n - 1 : Count(a.name, k) = 1
    /\ kernel # "triad" =>
         \A j \in 0 .. m.columns - 1 :
           Count("x", j) = EntriesInColumn(j) + PaddingInColumn(j)

-----------------------------------------------------------------------------
\* What thread t of the team touches when the kernel runs (SpmvTeam).
RunRows(t) == Scheduled(m.rows, CeilDiv(m.rows, num_threads), num_threads, t)
RunEntries(t) == Scheduled(A.coo.size, CeilDiv(A.coo.size, num_threads), num_threads, t)

Touched(t) ==
  LET Row(i, ptr) == ptr[i] .. ptr[i + 1] - 1
      csr == A.csr
      rowStart == [i \in 0 .. m.rows |-> i * A.ell.row_length]
  IN
  CASE kernel = "csr" ->
         UNION {{<<"row_ptr", i>>, <<"row_ptr", i + 1>>, <<"y", i>>}
                  \cup UNION {{<<"column_index", k>>, <<"value", k>>,
                               <<"x", csr.column_index[k]>>} : k \in Row(i, csr.row_ptr)}
                : i \in RunRows(t)}
    [] kernel \in {"ell", "hybrid"} ->
         UNION {{<<"y", i>>}
                  \cup UNION {{<<"ell_column_index", k>>, <<"ell_value", k>>,
                               <<"x", A.ell.column_index[k]>>} : k \in Row(i, rowStart)}
                : i \in RunRows(t)}
    [] kernel \in {"coo", "coo_atomic"} ->
         UNION {{<<"coo_row_index", k>>, <<"coo_column_index", k>>, <<"coo_value", k>>,
                 <<"x", A.coo.column_index[k]>>, <<"y", A.coo.row_index[k]>>}
                : k \in RunEntries(t)}

\* The arrays whose elements the string of a thread predicts.
Predicted ==
  CASE kernel \in {"csr", "ell", "coo_atomic"} -> ArrayNames
    [] kernel = "hybrid" -> {"ell_column_index", "ell_value", "y"}
    [] kernel = "coo" -> ArrayNames \ {"y", "workspace"}
    [] kernel = "triad" -> {}

\* The string of a thread refers to just the elements the thread will touch
\* in a run: for CSR, ELL and atomic COO, for the entries and x of COO and for
\* the ELL part of a hybrid matrix.  (A thread without rows has a reference to
\* row_ptr.)  The strings restate rows_per_thread by hand; the loops take it
\* from their schedule clause (csr-matrix.cpp:106, csr-matrix-spmv.cpp:154).
StringsFollowSchedule ==
  \A t \in Traced : kernel # "triad" =>
    LET touched == {c \in Touched(t) : c[1] \in Predicted}
        idle == kernel = "csr" /\ RunRows(t) = {}
    IN  Cells(t, Predicted) = touched \cup IF idle THEN {<<"row_ptr", m.rows>>} ELSE {}

\* The arrays the threads share as distribute_pages does: rounded up, by element.
SharedByElement ==
  {"a", "b", "c", "y", "coo_row_index", "coo_column_index", "coo_value"} \cap ArrayNames
LookedUp == {"x"} \cup IF kernel = "coo_atomic" THEN {"y"} ELSE {}

PagesOf(name) == CHOOSE k \in DOMAIN Arrays : Arrays[k].name = name
PlacedWith(r) ==
  LET page == (address + ArrayOf(r.array).size * r.index) \div PageSize
  IN  pages[PagesOf(r.array)][page]

\* The page starts in the elements of its thread: not before them.
StartsWithOwner(r) ==
  LET a == ArrayOf(r.array)
      start == address + a.size * r.index
  IN  address + a.size * ThreadStart(a.n, num_threads, r.owner) <= start - (start % PageSize)

\* A reference counts for the NUMA domain its page was moved to: always for x
\* (and y in atomic COO), which are looked up page by page, and for the arrays
\* the threads share evenly unless the page starts with another's elements
\* (thread_of_index against distribute_pages, aligned-allocator.hpp).
OwnersMatchPages ==
  \A t \in Traced : \A r \in RefsOf(t) :
    (r.array \in ArrayNames /\ PagesOf(r.array) <= Len(pages)) =>
      /\ r.array \in LookedUp /\ r.index # UndefinedColumn => r.owner = PlacedWith(r)
      /\ r.array \in SharedByElement \ LookedUp /\ StartsWithOwner(r)
           => r.owner = PlacedWith(r)
=============================================================================
