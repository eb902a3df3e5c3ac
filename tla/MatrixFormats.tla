---------------------------- MODULE MatrixFormats ---------------------------
(***************************************************************************)
(* The conversions of a Matrix Market matrix to the storage formats of the *)
(* kernels.  A matrix m has rows, columns and a sequence of entries        *)
(* [i, j, a] counted from 1, in any order, as the file lists them.  The    *)
(* arrays of the formats are functions on 0 .. size-1.                     *)
(***************************************************************************)
EXTENDS Integers, Sequences, FiniteSets, FiniteSetsExt, Functions, AvxRow

\* The column index of skipped padding: numeric_limits<index_type>::max().
NoColumn == 2147483647

\* What reading column_indices[-1] - 1 gives: no column of the matrix.
UndefinedColumn == -1

Rows(m) == 0 .. m.rows - 1

\* A matrix as it is read: it has rows, columns and entries, which lie in it.
IsMatrix(m) ==
  /\ m \in [rows : Nat \ {0}, columns : Nat \ {0},
            entries : Seq([i : Nat, j : Nat, a : Int])]
  /\ m.columns <= NoColumn  \* an index_type
  /\ m.entries # <<>>
  /\ \A k \in DOMAIN m.entries : /\ m.entries[k].i \in 1 .. m.rows
                                 /\ m.entries[k].j \in 1 .. m.columns

\* The numbers of a finite set in ascending order.
Ascending(S) ==
  [p \in 1 .. Cardinality(S) |-> CHOOSE k \in S : Cardinality({l \in S : l < k}) = p - 1]

\* row_lengths, with rows counted from 0.
RowLength(m, r) == Cardinality({k \in DOMAIN m.entries : m.entries[k].i - 1 = r})

MaxRowLength(m) == Max({RowLength(m, r) : r \in Rows(m)})

\* Number of entries in the rows before r: where r starts once sorted.
RowStart(m, r) == Cardinality({k \in DOMAIN m.entries : m.entries[k].i - 1 < r})

\* Repeated entries may come in any order; here, in that of the file.
SortRowMajor(m) ==
  LET e == m.entries
      Before(k, l) == \/ e[k].i < e[l].i
                      \/ e[k].i = e[l].i /\ e[k].j < e[l].j
                      \/ e[k].i = e[l].i /\ e[k].j = e[l].j /\ k < l
      rank == [k \in DOMAIN e |-> Cardinality({l \in DOMAIN e : Before(l, k)})]
  IN  [p \in DOMAIN e |-> e[CHOOSE k \in DOMAIN e : rank[k] = p - 1]]

\* The o-th entry of row r.
Entry(m, r, o) == SortRowMajor(m)[RowStart(m, r) + o + 1]

-----------------------------------------------------------------------------
CooOf(m) ==
  LET n == Len(m.entries) IN
  [size         |-> n,
   row_index    |-> [k \in 0 .. n - 1 |-> m.entries[k + 1].i - 1],
   column_index |-> [k \in 0 .. n - 1 |-> m.entries[k + 1].j - 1],
   value        |-> [k \in 0 .. n - 1 |-> m.entries[k + 1].a]]

RoundUp(k, alignment) == ((k + alignment - 1) \div alignment) * alignment

\* row_ptr: each row starts at a multiple of the alignment.
RowPtr(m, alignment) ==
  LET ptr[r \in 0 .. m.rows] ==
        IF r = 0 THEN 0 ELSE RoundUp(ptr[r - 1] + RowLength(m, r - 1), alignment)
  IN  ptr

CsrOf(m, alignment) ==
  LET ptr == RowPtr(m, alignment)
      K == 0 .. ptr[m.rows] - 1
      row == [k \in K |-> CHOOSE r \in Rows(m) : ptr[r] <= k /\ k < ptr[r + 1]]
      stored == [k \in K |-> k - ptr[row[k]] < RowLength(m, row[k])]
  IN  [row_ptr      |-> ptr,
       column_index |-> [k \in K |-> IF stored[k]
                                     THEN Entry(m, row[k], k - ptr[row[k]]).j - 1
                                     ELSE 0],
       value        |-> [k \in K |-> IF stored[k]
                                     THEN Entry(m, row[k], k - ptr[row[k]]).a
                                     ELSE 0]]

\* The column that pads row r: that of the entry stored last, in r or before.
PaddingColumn(m, r, skip, none) ==
  CASE skip -> NoColumn
    [] ~skip /\ RowStart(m, r + 1) = 0 -> none
    [] OTHER -> SortRowMajor(m)[RowStart(m, r + 1)].j - 1

\* The first `length` entries of every row, padded to that length.
Padded(m, length, skip, none) ==
  LET K == 0 .. m.rows * length - 1
      row == [k \in K |-> k \div length]
      stored == [k \in K |-> k % length < RowLength(m, row[k])]
  IN  [row_length   |-> length,
       column_index |-> [k \in K |-> IF stored[k]
                                     THEN Entry(m, row[k], k % length).j - 1
                                     ELSE PaddingColumn(m, row[k], skip, none)],
       value        |-> [k \in K |-> IF stored[k]
                                     THEN Entry(m, row[k], k % length).a
                                     ELSE 0]]

EllOf(m, skip) == Padded(m, MaxRowLength(m), skip, UndefinedColumn)

\* The "2/3 median": the least length that two thirds of the rows keep to.
EllRowLength(m) ==
  LET NotLonger(l) == Cardinality({r \in Rows(m) : RowLength(m, r) <= l})
      threshold == (2 * m.rows) \div 3
  IN  IF threshold = 0 THEN 0
      ELSE Min({l \in 0 .. MaxRowLength(m) : NotLonger(l) >= threshold})

\* Mutant of NumCooEntries: short rows count negatively.
NumCooEntriesSigned(m) ==
  SumFunction([r \in Rows(m) |-> RowLength(m, r) - EllRowLength(m)])

\* num_coo_entries, from the histogram of the row lengths.
NumCooEntries(m) ==
  SumFunction([r \in Rows(m) |-> Max({0, RowLength(m, r) - EllRowLength(m)})])

\* Position of the k-th entry (sorted) in its row, from 1.
InRow(m, k) == k - RowStart(m, SortRowMajor(m)[k].i - 1)

\* Mutant of Spills: one entry of each long row is in neither part.
SpillsLate(m, k) == InRow(m, k) > EllRowLength(m) + 1

\* What does not fit into EllRowLength columns is kept as coordinates.
Spills(m, k) == InRow(m, k) > EllRowLength(m)

HybridOf(m, skip) ==
  LET length == EllRowLength(m)
      rest == Ascending({k \in DOMAIN m.entries : Spills(m, k)})
      entries == [k \in DOMAIN rest |-> SortRowMajor(m)[rest[k]]]
  IN  [ell |-> Padded(m, length, skip, 0),
       coo |-> CooOf([m EXCEPT !.entries = entries])]

-----------------------------------------------------------------------------
\* What the inner loops of spmv compute with these arrays and a vector x.

\* value[k] * x[column_index[k]]: padding has the value 0.
Term(A, x, k) ==
  IF A.value[k] = 0 THEN 0 ELSE A.value[k] * x[A.column_index[k]]

\* The sum of the terms at the positions K.
Terms(A, x, K) == SumFunction([k \in K |-> Term(A, x, k)])

CsrRow(A, x, i) == Terms(A, x, A.row_ptr[i] .. A.row_ptr[i + 1] - 1)

\* The vectorised inner loops: the sum over the lanes of all loads.
VectorRow(A, x, loads) ==
  SumFunction([l \in loads |-> Terms(A, x, l.at .. l.at + l.width - 1)])

\* The loop over an ELL row stops at skipped padding.
EllRow(A, x, i) ==
  LET K == i * A.row_length .. (i + 1) * A.row_length - 1
  IN  Terms(A, x, {k \in K : \A l \in K : l <= k => A.column_index[l] # NoColumn})

\* The reference: row i of the matrix-vector product.
Product(m, x, i) ==
  LET row == {k \in DOMAIN m.entries : m.entries[k].i - 1 = i}
  IN  SumFunction([k \in row |-> m.entries[k].a * x[m.entries[k].j - 1]])
=============================================================================
