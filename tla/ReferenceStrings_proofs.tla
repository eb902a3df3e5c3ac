--------------------- MODULE ReferenceStrings_proofs ----------------------
(***************************************************************************)
(* The reference strings that the simulation is given, for every matrix,   *)
(* number of threads and page size: the owner of an element is the thread  *)
(* whose page it is on, a thread's string touches what its loops do, each  *)
(* string fills the array it was given, and all the strings together refer *)
(* to every entry once and to x once for each entry of its column.         *)
(***************************************************************************)
EXTENDS ReferenceStrings, MatrixFormats_proofs

-----------------------------------------------------------------------------
(* The options and what the conversions make of the matrix *)

\* The arrays and the strings of the functions do not change with the state.
LEMMA StringsStay ==
  ASSUME UNCHANGED options
  PROVE  /\ Arrays' = Arrays /\ \A t : String(t)' = String(t)
<1>1. m' = m /\ A' = A /\ kernel' = kernel /\ num_threads' = num_threads /\ address' = address
  BY DEF options
<1>2. /\ TriadArrays' = TriadArrays /\ CsrArrays' = CsrArrays /\ CooArrays' = CooArrays
      /\ Vectors' = Vectors /\ EllArrays' = EllArrays /\ CooWithWorkspace' = CooWithWorkspace
  BY <1>1 DEF TriadArrays, CsrArrays, CooArrays, Vectors, EllArrays, CooWithWorkspace, EllSize
<1>3. Arrays' = Arrays
  BY <1>1, <1>2 DEF Arrays
<1>4. ASSUME NEW t
      PROVE  TriadString(t)' = TriadString(t)
  BY <1>1 DEF TriadString
<1>5. ASSUME NEW j
      PROVE  OfX(j)' = OfX(j)
  BY <1>1 DEF OfX, Owner
<1>6. ASSUME NEW t
      PROVE  CsrString(t)' = CsrString(t)
  BY <1>1, <1>5 DEF CsrString
<1>7. ASSUME NEW t
      PROVE  EllString(t)' = EllString(t)
  BY <1>1, <1>5 DEF EllString
<1>8. ASSUME NEW t
      PROVE  CooString(t)' = CooString(t)
  BY <1>1, <1>5 DEF CooString, CooEntry, Threads, Owner
<1>9. ASSUME NEW t
      PROVE  CooAtomicString(t)' = CooAtomicString(t)
  BY <1>1, <1>5 DEF CooAtomicString, CooEntry, Owner
<1>10. QED
  BY <1>1, <1>3, <1>4, <1>6, <1>7, <1>8, <1>9 DEF String, HybridString

\* What stays as it was chosen.
OptionsInv ==
  /\ m \in Matrices /\ kernel \in KernelNames /\ A = Converted(m, kernel)
  /\ num_threads \in 1 .. MaxThreads /\ address \in Addresses

HasEll == kernel \in {"ell", "hybrid"}
HasCoo == kernel \in {"coo", "coo_atomic", "hybrid"}

Columns == 0 .. m.columns - 1

\* What the types of the options' parts are.
LEMMA OptionsAre ==
  ASSUME OptionsInv
  PROVE  /\ IsMatrix(m) /\ m.rows \in Nat \ {0} /\ m.columns \in Nat \ {0} /\ Rows(m) = 0 .. m.rows - 1
         /\ num_threads \in Nat \ {0} /\ Threads = 0 .. num_threads - 1
         /\ address \in Nat /\ address < PageSize /\ PageSize \in Nat \ {0} /\ address % 2 = 0
BY EntriesAre, SizesAssumption, MatricesAssumption DEF OptionsInv, Rows, Threads

\* The number of elements of the triad's arrays.
LEMMA TriadIs ==
  ASSUME OptionsInv, kernel = "triad"
  PROVE  A.num_entries \in Nat
BY OptionsAre, EntriesAre DEF OptionsInv, Converted

\* What a CSR kernel reads: starts of rows that ascend from 0 to the number of
\* entries, and columns of the matrix.
LEMMA CsrFacts ==
  ASSUME OptionsInv, kernel = "csr"
  PROVE  LET n == Len(m.entries) IN
         /\ n \in Nat /\ A.csr.row_ptr = [r \in 0 .. m.rows |-> RowStart(m, r)]
         /\ A.csr.row_ptr[0] = 0 /\ A.csr.row_ptr[m.rows] = n
         /\ \A r \in 0 .. m.rows : A.csr.row_ptr[r] \in 0 .. n
         /\ \A r \in Rows(m) : A.csr.row_ptr[r] <= A.csr.row_ptr[r + 1]
         /\ \A k \in 0 .. n - 1 : /\ A.csr.column_index[k] = SortRowMajor(m)[k + 1].j - 1
                                  /\ A.csr.column_index[k] \in Columns
<1> DEFINE n == Len(m.entries)
<1>1. A.csr = CsrOf(m, 1) /\ IsMatrix(m)
  BY OptionsAre DEF OptionsInv, Converted
<1>2. /\ A.csr.row_ptr = [r \in 0 .. m.rows |-> RowStart(m, r)]
      /\ A.csr.column_index = [k \in 0 .. n - 1 |-> SortRowMajor(m)[k + 1].j - 1]
  <2> DEFINE B == CsrOf(m, 1)
  <2>1. B = [row_ptr      |-> [r \in 0 .. m.rows |-> RowStart(m, r)],
             column_index |-> [k \in 0 .. n - 1 |-> SortRowMajor(m)[k + 1].j - 1],
             value        |-> [k \in 0 .. n - 1 |-> SortRowMajor(m)[k + 1].a]]
    BY <1>1, CsrIs
  <2>2. A.csr = B
    BY <1>1
  <2> HIDE DEF n, B
  <2>3. QED
    BY <2>1, <2>2
<1>3. n \in Nat /\ m.rows \in Nat \ {0} /\ DOMAIN m.entries = 1 .. n /\ Rows(m) = 0 .. m.rows - 1
  BY <1>1, EntriesAre DEF Rows
<1>4. RowStart(m, 0) = 0 /\ RowStart(m, m.rows) = n
  BY <1>1, RowEnds
<1>5. \A r \in 0 .. m.rows : RowStart(m, r) \in 0 .. n
  BY <1>1, RowStartIs
<1>6. \A r \in Rows(m) : RowStart(m, r) <= RowStart(m, r + 1)
  BY <1>1, RowPlaces
<1>7. \A k \in 0 .. n - 1 : SortRowMajor(m)[k + 1].j - 1 \in Columns
  <2>1. \A k \in 0 .. n - 1 : k + 1 \in DOMAIN m.entries
    BY <1>3
  <2>2. \A p \in DOMAIN m.entries : SortRowMajor(m)[p].j \in 1 .. m.columns
    BY <1>1, SortedFacts
  <2>3. m.columns \in Nat
    BY OptionsAre
  <2>4. \A j \in 1 .. m.columns : j - 1 \in Columns
    BY <2>3 DEF Columns
  <2>5. QED
    BY <2>1, <2>2, <2>4
<1> HIDE DEF n
<1>8. \A r \in Rows(m) : r \in 0 .. m.rows /\ r + 1 \in 0 .. m.rows
  BY <1>3
<1>9. 0 \in 0 .. m.rows /\ m.rows \in 0 .. m.rows
  BY <1>3
<1>10. QED
  BY <1>2, <1>3, <1>4, <1>5, <1>6, <1>7, <1>8, <1>9 DEF n

\* What an ELL kernel reads: columns of the entries, and of the padding,
\* undefined only where there is no hybrid.
LEMMA EllFacts ==
  ASSUME OptionsInv, HasEll
  PROVE  LET length == A.ell.row_length IN
         /\ length \in Nat
         /\ length = IF kernel = "ell" THEN MaxRowLength(m) ELSE EllRowLength(m)
         /\ EllSize = m.rows * length /\ EllSize \in Nat
         /\ \A k \in 0 .. EllSize - 1 :
              /\ IsStored(m, length, k) =>
                   A.ell.column_index[k] = SortRowMajor(m)[StoredPlace(m, length, k)].j - 1
              /\ A.ell.column_index[k] \in Columns \cup {UndefinedColumn}
              /\ kernel = "hybrid" => A.ell.column_index[k] \in Columns
<1> DEFINE length == IF kernel = "ell" THEN MaxRowLength(m) ELSE EllRowLength(m)
           none == IF kernel = "ell" THEN UndefinedColumn ELSE 0
           column == A.ell.column_index
<1>1. A.ell = Padded(m, length, FALSE, none) /\ IsMatrix(m) /\ m.rows \in Nat \ {0}
  <2>1. kernel = "ell" => A.ell = EllOf(m, FALSE)
    BY DEF OptionsInv, Converted
  <2>2. kernel = "hybrid" => A = HybridOf(m, FALSE)
    BY DEF OptionsInv, Converted
  <2>3. IsMatrix(m) /\ m.rows \in Nat \ {0}
    BY OptionsAre
  <2>4. HybridOf(m, FALSE).ell = Padded(m, EllRowLength(m), FALSE, 0)
    BY <2>3, HybridIs
  <2>5. QED
    BY <2>1, <2>2, <2>3, <2>4 DEF HasEll, EllOf
<1>2. length \in Nat
  BY <1>1, LengthsAre
<1> HIDE DEF length
<1>3. /\ A.ell.row_length = length
      /\ \A k \in 0 .. (m.rows * length) - 1 :
           /\ IsStored(m, length, k) =>
                column[k] = SortRowMajor(m)[StoredPlace(m, length, k)].j - 1
           /\ ~ IsStored(m, length, k) => column[k] = PaddingColumn(m, k \div length, FALSE, none)
  <2> DEFINE P == Padded(m, length, FALSE, none)
  <2>1. /\ P.row_length = length
        /\ \A k \in 0 .. (m.rows * length) - 1 :
             /\ IsStored(m, length, k) =>
                  P.column_index[k] = SortRowMajor(m)[StoredPlace(m, length, k)].j - 1
             /\ ~ IsStored(m, length, k) =>
                  P.column_index[k] = PaddingColumn(m, k \div length, FALSE, none)
    <3> DEFINE Made(B) ==
          /\ B.row_length = length
          /\ \A k \in 0 .. (m.rows * length) - 1 :
               /\ IsStored(m, length, k) =>
                    B.column_index[k] = SortRowMajor(m)[StoredPlace(m, length, k)].j - 1
               /\ ~ IsStored(m, length, k) =>
                    B.column_index[k] = PaddingColumn(m, k \div length, FALSE, none)
    <3>1. IsMatrix(m)
      BY <1>1
    <3>2. ASSUME NEW skip, NEW no, skip = FALSE, no = none
          PROVE  Made(Padded(m, length, skip, no))
      <4>1. LET B == Padded(m, length, skip, no) IN
            /\ B.row_length = length
            /\ \A k \in 0 .. (m.rows * length) - 1 :
                 /\ IsStored(m, length, k) =>
                      B.column_index[k] = SortRowMajor(m)[StoredPlace(m, length, k)].j - 1
                 /\ ~ IsStored(m, length, k) =>
                      B.column_index[k] = PaddingColumn(m, k \div length, skip, no)
        BY <1>2, <3>1, PaddedIs
      <4>2. QED
        BY <3>2, <4>1, Zenon
    <3>3. Made(P)
      <4> HIDE DEF Made
      <4>1. QED
        BY <3>2, Zenon
    <3>4. QED
      BY <3>3
  <2>2. A.ell = P
    BY <1>1
  <2> HIDE DEF P
  <2>3. QED
    BY <2>1, <2>2
<1>4. EllSize = m.rows * length /\ EllSize \in Nat
  <2>1. EllSize = m.rows * length
    BY <1>3 DEF EllSize
  <2> DEFINE R == m.rows
  <2> HIDE DEF R
  <2>2. R \in Nat /\ length \in Nat
    BY <1>1, <1>2 DEF R
  <2>3. R * length \in Nat
    BY <2>2
  <2>4. QED
    BY <2>1, <2>3 DEF R
<1>5. \A p \in DOMAIN m.entries : SortRowMajor(m)[p].j - 1 \in Columns
  <2>1. \A p \in DOMAIN m.entries : SortRowMajor(m)[p].j \in 1 .. m.columns
    BY <1>1, SortedFacts
  <2>2. m.columns \in Nat
    BY OptionsAre
  <2>3. \A j \in 1 .. m.columns : j - 1 \in Columns
    BY <2>2 DEF Columns
  <2>4. QED
    BY <2>1, <2>3
<1>6. ASSUME NEW k \in 0 .. (m.rows * length) - 1
      PROVE  column[k] \in Columns \cup {none}
  <2>1. CASE IsStored(m, length, k)
    <3>1. StoredPlace(m, length, k) \in DOMAIN m.entries
      BY <1>1, <1>2, <2>1, StoredIs
    <3>2. column[k] = SortRowMajor(m)[StoredPlace(m, length, k)].j - 1
      BY <1>3, <2>1
    <3>3. QED
      BY <1>5, <3>1, <3>2
  <2>2. CASE ~ IsStored(m, length, k)
    <3>1. k \div length \in Rows(m)
      BY <1>1, <1>2, PositionsAre DEF Rows
    <3>2. QED
      <4>1. column[k] = PaddingColumn(m, k \div length, FALSE, none)
        BY <1>3, <2>2, Zenon
      <4>2. PaddingColumn(m, k \div length, FALSE, none) \in {none} \cup 0 .. m.columns - 1
        BY <1>1, <3>1, PaddingColumnIs, Zenon
      <4>3. QED
        BY <4>1, <4>2, Zenon DEF Columns
  <2>3. QED
    BY <2>1, <2>2
<1>7. 0 \in Columns
  BY OptionsAre DEF Columns
<1>8. \A k \in 0 .. (m.rows * length) - 1 : /\ column[k] \in Columns \cup {UndefinedColumn}
                                            /\ kernel = "hybrid" => column[k] \in Columns
  BY <1>6, <1>7
<1> HIDE DEF column, none
<1>9. QED
  BY <1>2, <1>3, <1>4, <1>8 DEF length, column

\* What a coordinate kernel reads: rows and columns of the matrix.
LEMMA CooFacts ==
  ASSUME OptionsInv, HasCoo
  PROVE  /\ A.coo.size \in Nat
         /\ A.coo.size = IF kernel = "hybrid" THEN Cardinality(Spilled(m)) ELSE Len(m.entries)
         /\ \A k \in 0 .. A.coo.size - 1 :
              /\ A.coo.row_index[k] \in Rows(m) /\ A.coo.column_index[k] \in Columns
              /\ IF kernel = "hybrid"
                 THEN A.coo.column_index[k] = SortRowMajor(m)[Ascending(Spilled(m))[k + 1]].j - 1
                 ELSE A.coo.column_index[k] = m.entries[k + 1].j - 1
<1>1. IsMatrix(m) /\ m.columns \in Nat /\ DOMAIN m.entries = 1 .. Len(m.entries) /\ Len(m.entries) \in Nat
  BY OptionsAre, EntriesAre
<1>2. \A j \in 1 .. m.columns : j - 1 \in Columns
  BY <1>1 DEF Columns
<1>3. CASE kernel = "hybrid"
  <2> DEFINE n == Cardinality(Spilled(m))
             rest == Ascending(Spilled(m))
  <2>1. A = HybridOf(m, FALSE)
    BY <1>3 DEF OptionsInv, Converted
  <2>2. /\ A.coo.size = n
        /\ \A k \in 0 .. n - 1 : /\ A.coo.row_index[k] = RowAt(m, rest[k + 1])
                                 /\ A.coo.column_index[k] = SortRowMajor(m)[rest[k + 1]].j - 1
    <3> DEFINE C == HybridOf(m, FALSE).coo
    <3>1. C = [size         |-> n,
               row_index    |-> [k \in 0 .. n - 1 |-> RowAt(m, rest[k + 1])],
               column_index |-> [k \in 0 .. n - 1 |-> SortRowMajor(m)[rest[k + 1]].j - 1],
               value        |-> [k \in 0 .. n - 1 |-> SortRowMajor(m)[rest[k + 1]].a]]
      BY <1>1, HybridIs
    <3>2. A.coo = C
      BY <2>1
    <3> HIDE DEF C, n, rest
    <3>3. QED
      BY <3>1, <3>2
  <2>3. n \in Nat /\ \A p \in 1 .. n : rest[p] \in DOMAIN m.entries
    <3>1. n \in Nat /\ Spilled(m) \in SUBSET DOMAIN m.entries /\ rest \in Bijection(1 .. n, Spilled(m))
      BY <1>1, SpilledIs
    <3> HIDE DEF n, rest
    <3>2. QED
      BY <3>1 DEF Bijection, Injection
  <2> HIDE DEF n, rest
  <2>4. \A k \in 0 .. n - 1 : rest[k + 1] \in DOMAIN m.entries
    BY <2>3
  <2>5. \A p \in DOMAIN m.entries : RowAt(m, p) \in Rows(m) /\ SortRowMajor(m)[p].j \in 1 .. m.columns
    BY <1>1, SortedFacts
  <2>6. QED
    BY <1>2, <1>3, <2>2, <2>3, <2>4, <2>5 DEF n, rest
<1>4. CASE kernel # "hybrid"
  <2> DEFINE n == Len(m.entries)
  <2>1. A.coo = CooOf(m)
    BY <1>4 DEF OptionsInv, Converted, HasCoo
  <2>2. /\ A.coo.size = n
        /\ \A k \in 0 .. n - 1 : /\ A.coo.row_index[k] = m.entries[k + 1].i - 1
                                 /\ A.coo.column_index[k] = m.entries[k + 1].j - 1
    BY <2>1 DEF CooOf
  <2>3. \A k \in 0 .. n - 1 : k + 1 \in DOMAIN m.entries
    BY <1>1
  <2>4. \A p \in DOMAIN m.entries : m.entries[p].i - 1 \in Rows(m) /\ m.entries[p].j \in 1 .. m.columns
    BY <1>1, EntriesAre
  <2>5. QED
    BY <1>1, <1>2, <1>4, <2>2, <2>3, <2>4
<1>5. QED
  BY <1>3, <1>4

-----------------------------------------------------------------------------
(* Sequences of a few elements, and the arrays of a kernel *)

\* A sequence whose elements are those of s and then those of u.
LEMMA ConcatIsThat ==
  ASSUME NEW S, NEW s \in Seq(S), NEW u \in Seq(S), NEW w \in Seq(S),
         Len(w) = Len(s) + Len(u), \A i \in 1 .. Len(s) : w[i] = s[i],
         \A i \in 1 .. Len(u) : w[Len(s) + i] = u[i]
  PROVE  s \o u = w
<1> DEFINE a == Len(s)
           b == Len(u)
           v == s \o u
<1>1. a \in Nat /\ b \in Nat /\ Len(w) = a + b
  OBVIOUS
<1>2. v \in Seq(S) /\ Len(v) = a + b
  BY ConcatProperties
<1>3. \A i \in 1 .. a + b : v[i] = IF i <= a THEN s[i] ELSE u[i - a]
  BY ConcatProperties
<1>4. (\A i \in 1 .. a : w[i] = s[i]) /\ \A i \in 1 .. b : w[a + i] = u[i]
  OBVIOUS
<1> HIDE DEF a, b, v
<1>5. ASSUME NEW i \in 1 .. a + b
      PROVE  v[i] = w[i]
  <2>1. CASE i <= a
    <3>1. i \in 1 .. a
      BY <1>1, <2>1
    <3>2. QED
      BY <1>3, <1>4, <2>1, <3>1
  <2>2. CASE ~ (i <= a)
    <3>1. i - a \in 1 .. b /\ a + (i - a) = i
      BY <1>1, <2>2
    <3>2. w[a + (i - a)] = u[i - a]
      BY <1>4, <3>1
    <3>3. QED
      BY <1>3, <2>2, <3>1, <3>2
  <2>3. QED
    BY <2>1, <2>2
<1>6. v = w
  BY <1>1, <1>2, <1>5, SeqEqual
<1>7. QED
  BY <1>6 DEF v

\* Concatenations of short sequences.
LEMMA OneAndOne ==
  ASSUME NEW a, NEW b
  PROVE  <<a>> \o <<b>> = <<a, b>>
<1> DEFINE S == {a, b}
           s == <<a>>
           u == <<b>>
           w == <<a, b>>
<1>1. s \in Seq(S) /\ u \in Seq(S) /\ w \in Seq(S)
  OBVIOUS
<1>2. Len(s) = 1 /\ Len(u) = 1 /\ Len(w) = 2
  OBVIOUS
<1>3. /\ w[1] = s[1]
      /\ w[2] = u[1]
  OBVIOUS
<1> HIDE DEF S, s, u, w
<1>4. \A i \in 1 .. 1 : w[i] = s[i]
  <2>1. \A i \in 1 .. 1 : i = 1
    OBVIOUS
  <2>2. QED
    BY <1>3, <2>1
<1>5. \A i \in 1 .. 1 : w[1 + i] = u[i]
  <2>1. \A i \in 1 .. 1 : (i = 1 /\ 1 + i = 2)
    OBVIOUS
  <2>2. QED
    BY <1>3, <2>1
<1>6. s \o u = w
  <2>1. /\ Len(w) = Len(s) + Len(u) /\ \A i \in 1 .. Len(s) : w[i] = s[i]
        /\ \A i \in 1 .. Len(u) : w[Len(s) + i] = u[i]
    BY <1>2, <1>4, <1>5
  <2>2. QED
    BY <1>1, <2>1, ConcatIsThat
<1>7. QED
  BY <1>6 DEF s, u, w

LEMMA TwoAndOne ==
  ASSUME NEW a, NEW b, NEW c
  PROVE  <<a, b>> \o <<c>> = <<a, b, c>>
<1> DEFINE S == {a, b, c}
           s == <<a, b>>
           u == <<c>>
           w == <<a, b, c>>
<1>1. s \in Seq(S) /\ u \in Seq(S) /\ w \in Seq(S)
  OBVIOUS
<1>2. Len(s) = 2 /\ Len(u) = 1 /\ Len(w) = 3
  OBVIOUS
<1>3. /\ w[1] = s[1] /\ w[2] = s[2]
      /\ w[3] = u[1]
  OBVIOUS
<1> HIDE DEF S, s, u, w
<1>4. \A i \in 1 .. 2 : w[i] = s[i]
  <2>1. \A i \in 1 .. 2 : i = 1 \/ i = 2
    OBVIOUS
  <2>2. QED
    BY <1>3, <2>1
<1>5. \A i \in 1 .. 1 : w[2 + i] = u[i]
  <2>1. \A i \in 1 .. 1 : (i = 1 /\ 2 + i = 3)
    OBVIOUS
  <2>2. QED
    BY <1>3, <2>1
<1>6. s \o u = w
  <2>1. /\ Len(w) = Len(s) + Len(u) /\ \A i \in 1 .. Len(s) : w[i] = s[i]
        /\ \A i \in 1 .. Len(u) : w[Len(s) + i] = u[i]
    BY <1>2, <1>4, <1>5
  <2>2. QED
    BY <1>1, <2>1, ConcatIsThat
<1>7. QED
  BY <1>6 DEF s, u, w

LEMMA TwoAndTwo ==
  ASSUME NEW a, NEW b, NEW c, NEW d
  PROVE  <<a, b>> \o <<c, d>> = <<a, b, c, d>>
<1> DEFINE S == {a, b, c, d}
           s == <<a, b>>
           u == <<c, d>>
           w == <<a, b, c, d>>
<1>1. s \in Seq(S) /\ u \in Seq(S) /\ w \in Seq(S)
  OBVIOUS
<1>2. Len(s) = 2 /\ Len(u) = 2 /\ Len(w) = 4
  OBVIOUS
<1>3. /\ w[1] = s[1] /\ w[2] = s[2]
      /\ w[3] = u[1] /\ w[4] = u[2]
  OBVIOUS
<1> HIDE DEF S, s, u, w
<1>4. \A i \in 1 .. 2 : w[i] = s[i]
  <2>1. \A i \in 1 .. 2 : i = 1 \/ i = 2
    OBVIOUS
  <2>2. QED
    BY <1>3, <2>1
<1>5. \A i \in 1 .. 2 : w[2 + i] = u[i]
  <2>1. \A i \in 1 .. 2 : (i = 1 /\ 2 + i = 3) \/ (i = 2 /\ 2 + i = 4)
    OBVIOUS
  <2>2. QED
    BY <1>3, <2>1
<1>6. s \o u = w
  <2>1. /\ Len(w) = Len(s) + Len(u) /\ \A i \in 1 .. Len(s) : w[i] = s[i]
        /\ \A i \in 1 .. Len(u) : w[Len(s) + i] = u[i]
    BY <1>2, <1>4, <1>5
  <2>2. QED
    BY <1>1, <2>1, ConcatIsThat
<1>7. QED
  BY <1>6 DEF s, u, w

LEMMA ThreeAndTwo ==
  ASSUME NEW a, NEW b, NEW c, NEW d, NEW e
  PROVE  <<a, b, c>> \o <<d, e>> = <<a, b, c, d, e>>
<1> DEFINE S == {a, b, c, d, e}
           s == <<a, b, c>>
           u == <<d, e>>
           w == <<a, b, c, d, e>>
<1>1. s \in Seq(S) /\ u \in Seq(S) /\ w \in Seq(S)
  OBVIOUS
<1>2. Len(s) = 3 /\ Len(u) = 2 /\ Len(w) = 5
  OBVIOUS
<1>3. /\ w[1] = s[1] /\ w[2] = s[2] /\ w[3] = s[3]
      /\ w[4] = u[1] /\ w[5] = u[2]
  OBVIOUS
<1> HIDE DEF S, s, u, w
<1>4. \A i \in 1 .. 3 : w[i] = s[i]
  <2>1. \A i \in 1 .. 3 : i = 1 \/ i = 2 \/ i = 3
    OBVIOUS
  <2>2. QED
    BY <1>3, <2>1
<1>5. \A i \in 1 .. 2 : w[3 + i] = u[i]
  <2>1. \A i \in 1 .. 2 : (i = 1 /\ 3 + i = 4) \/ (i = 2 /\ 3 + i = 5)
    OBVIOUS
  <2>2. QED
    BY <1>3, <2>1
<1>6. s \o u = w
  <2>1. /\ Len(w) = Len(s) + Len(u) /\ \A i \in 1 .. Len(s) : w[i] = s[i]
        /\ \A i \in 1 .. Len(u) : w[Len(s) + i] = u[i]
    BY <1>2, <1>4, <1>5
  <2>2. QED
    BY <1>1, <2>1, ConcatIsThat
<1>7. QED
  BY <1>6 DEF s, u, w

LEMMA FiveAndOne ==
  ASSUME NEW a, NEW b, NEW c, NEW d, NEW e, NEW f
  PROVE  <<a, b, c, d, e>> \o <<f>> = <<a, b, c, d, e, f>>
<1> DEFINE S == {a, b, c, d, e, f}
           s == <<a, b, c, d, e>>
           u == <<f>>
           w == <<a, b, c, d, e, f>>
<1>1. s \in Seq(S) /\ u \in Seq(S) /\ w \in Seq(S)
  OBVIOUS
<1>2. Len(s) = 5 /\ Len(u) = 1 /\ Len(w) = 6
  OBVIOUS
<1>3. /\ w[1] = s[1] /\ w[2] = s[2] /\ w[3] = s[3] /\ w[4] = s[4] /\ w[5] = s[5]
      /\ w[6] = u[1]
  OBVIOUS
<1> HIDE DEF S, s, u, w
<1>4. \A i \in 1 .. 5 : w[i] = s[i]
  <2>1. \A i \in 1 .. 5 : i = 1 \/ i = 2 \/ i = 3 \/ i = 4 \/ i = 5
    OBVIOUS
  <2>2. QED
    BY <1>3, <2>1
<1>5. \A i \in 1 .. 1 : w[5 + i] = u[i]
  <2>1. \A i \in 1 .. 1 : (i = 1 /\ 5 + i = 6)
    OBVIOUS
  <2>2. QED
    BY <1>3, <2>1
<1>6. s \o u = w
  <2>1. /\ Len(w) = Len(s) + Len(u) /\ \A i \in 1 .. Len(s) : w[i] = s[i]
        /\ \A i \in 1 .. Len(u) : w[Len(s) + i] = u[i]
    BY <1>2, <1>4, <1>5
  <2>2. QED
    BY <1>1, <2>1, ConcatIsThat
<1>7. QED
  BY <1>6 DEF s, u, w

LEMMA TwoAndSix ==
  ASSUME NEW a, NEW b, NEW c, NEW d, NEW e, NEW f, NEW g, NEW h
  PROVE  <<a, b>> \o <<c, d, e, f, g, h>> = <<a, b, c, d, e, f, g, h>>
<1> DEFINE S == {a, b, c, d, e, f, g, h}
           s == <<a, b>>
           u == <<c, d, e, f, g, h>>
           w == <<a, b, c, d, e, f, g, h>>
<1>1. s \in Seq(S) /\ u \in Seq(S) /\ w \in Seq(S)
  OBVIOUS
<1>2. Len(s) = 2 /\ Len(u) = 6 /\ Len(w) = 8
  OBVIOUS
<1>3. /\ w[1] = s[1] /\ w[2] = s[2]
      /\ w[3] = u[1] /\ w[4] = u[2] /\ w[5] = u[3] /\ w[6] = u[4] /\ w[7] = u[5] /\ w[8] = u[6]
  OBVIOUS
<1> HIDE DEF S, s, u, w
<1>4. \A i \in 1 .. 2 : w[i] = s[i]
  <2>1. \A i \in 1 .. 2 : i = 1 \/ i = 2
    OBVIOUS
  <2>2. QED
    BY <1>3, <2>1
<1>5. \A i \in 1 .. 6 : w[2 + i] = u[i]
  <2>1. \A i \in 1 .. 6 : (i = 1 /\ 2 + i = 3) \/ (i = 2 /\ 2 + i = 4) \/ (i = 3
          /\ 2 + i = 5) \/ (i = 4 /\ 2 + i = 6) \/ (i = 5 /\ 2 + i = 7) \/ (i = 6 /\ 2 + i = 8)
    OBVIOUS
  <2>2. QED
    BY <1>3, <2>1
<1>6. s \o u = w
  <2>1. /\ Len(w) = Len(s) + Len(u) /\ \A i \in 1 .. Len(s) : w[i] = s[i]
        /\ \A i \in 1 .. Len(u) : w[Len(s) + i] = u[i]
    BY <1>2, <1>4, <1>5
  <2>2. QED
    BY <1>1, <2>1, ConcatIsThat
<1>7. QED
  BY <1>6 DEF s, u, w
\* A product of naturals is one.
LEMMA ProductIsNat ==
  ASSUME NEW a \in Nat, NEW b \in Nat
  PROVE  a * b \in Nat
OBVIOUS

\* The arrays of a kernel, their sizes and their names.
ArraysAre(arrays) ==
  /\ DOMAIN arrays = 1 .. Len(arrays) /\ Len(arrays) \in Nat
  /\ \A k \in DOMAIN arrays : arrays[k].size \in {1, 2} /\ arrays[k].n \in Nat
  /\ \A k, l \in DOMAIN arrays : arrays[k].name = arrays[l].name => k = l

\* The numbers of elements of all arrays.
LEMMA NumbersOfElements ==
  ASSUME OptionsInv
  PROVE  /\ m.rows \in Nat /\ m.rows + 1 \in Nat /\ m.columns \in Nat /\ num_threads * m.rows \in Nat
         /\ kernel = "triad" => A.num_entries \in Nat
         /\ kernel = "csr" => A.csr.row_ptr[m.rows] \in Nat
         /\ HasEll => EllSize \in Nat
         /\ HasCoo => A.coo.size \in Nat
<1>1. m.rows \in Nat /\ m.rows + 1 \in Nat /\ m.columns \in Nat /\ num_threads \in Nat
  BY OptionsAre
<1>2. num_threads * m.rows \in Nat
  <2> DEFINE R == m.rows
  <2> HIDE DEF R
  <2>1. num_threads * R \in Nat
    BY <1>1, ProductIsNat DEF R
  <2>2. QED
    BY <2>1 DEF R
<1>3. QED
  BY <1>1, <1>2, TriadIs, CsrFacts, EllFacts, CooFacts

\* The arrays of each kernel, written out.
LEMMA ArraysOfTriad ==
  ASSUME kernel = "triad"
  PROVE  Arrays = <<Values("a", A.num_entries), Values("b", A.num_entries),
                    Values("c", A.num_entries)>>
BY DEF Arrays, TriadArrays

LEMMA ArraysOfCsr ==
  ASSUME kernel = "csr"
  PROVE  Arrays = <<Indices("row_ptr", m.rows + 1),
                    Indices("column_index", A.csr.row_ptr[m.rows]),
                    Values("value", A.csr.row_ptr[m.rows]), Values("x", m.columns),
                    Values("y", m.rows)>>
BY ThreeAndTwo DEF Arrays, CsrArrays, Vectors

LEMMA ArraysOfEll ==
  ASSUME kernel = "ell"
  PROVE  Arrays = <<Indices("ell_column_index", EllSize), Values("ell_value", EllSize),
                    Values("x", m.columns), Values("y", m.rows)>>
BY TwoAndTwo DEF Arrays, EllArrays, Vectors

LEMMA ArraysOfCooAtomic ==
  ASSUME kernel = "coo_atomic"
  PROVE  Arrays = <<Indices("coo_row_index", A.coo.size),
                    Indices("coo_column_index", A.coo.size), Values("coo_value", A.coo.size),
                    Values("x", m.columns), Values("y", m.rows)>>
BY ThreeAndTwo DEF Arrays, CooArrays, Vectors

LEMMA CooWithWorkspaceIs ==
  CooWithWorkspace = <<Indices("coo_row_index", A.coo.size),
                       Indices("coo_column_index", A.coo.size),
                       Values("coo_value", A.coo.size), Values("x", m.columns),
                       Values("y", m.rows), Values("workspace", num_threads * m.rows)>>
<1>1. CooWithWorkspace = <<Indices("coo_row_index", A.coo.size), Indices("coo_column_index", A.coo.size),
                           Values("coo_value", A.coo.size), Values("x", m.columns), Values("y", m.rows)>>
                           \o <<Values("workspace", num_threads * m.rows)>>
  BY ThreeAndTwo DEF CooWithWorkspace, CooArrays, Vectors
<1>2. QED
  BY <1>1, FiveAndOne

LEMMA ArraysOfCoo ==
  ASSUME kernel = "coo"
  PROVE  Arrays = <<Indices("coo_row_index", A.coo.size),
                    Indices("coo_column_index", A.coo.size), Values("coo_value", A.coo.size),
                    Values("x", m.columns), Values("y", m.rows),
                    Values("workspace", num_threads * m.rows)>>
BY CooWithWorkspaceIs DEF Arrays

LEMMA ArraysOfHybrid ==
  ASSUME kernel = "hybrid"
  PROVE  Arrays = <<Indices("ell_column_index", EllSize), Values("ell_value", EllSize),
                    Indices("coo_row_index", A.coo.size),
                    Indices("coo_column_index", A.coo.size), Values("coo_value", A.coo.size),
                    Values("x", m.columns), Values("y", m.rows),
                    Values("workspace", num_threads * m.rows)>>
BY CooWithWorkspaceIs, TwoAndSix DEF Arrays, EllArrays

\* No two arrays of a kernel have the same name, sizes are 1 or 2.
LEMMA ArraysDiffer ==
  ASSUME OptionsInv
  PROVE  ArraysAre(Arrays)
<1>1. CASE kernel = "triad"
  <2> DEFINE arrays == <<Values("a", A.num_entries), Values("b", A.num_entries),
                         Values("c", A.num_entries)>>
  <2>1. DOMAIN arrays = 1 .. 3 /\ Len(arrays) = 3
    OBVIOUS
  <2>2. /\ arrays[1].name = "a" /\ arrays[1].size = 2 /\ arrays[1].n = A.num_entries
        /\ arrays[2].name = "b" /\ arrays[2].size = 2 /\ arrays[2].n = A.num_entries
        /\ arrays[3].name = "c" /\ arrays[3].size = 2 /\ arrays[3].n = A.num_entries
    BY DEF Indices, Values
  <2>3. arrays[1].n \in Nat /\ arrays[2].n \in Nat /\ arrays[3].n \in Nat
    BY <1>1, <2>2, NumbersOfElements DEF HasEll, HasCoo
  <2>4. Arrays = arrays
    BY <1>1, ArraysOfTriad
  <2> HIDE DEF arrays
  <2>5. \A k, l \in DOMAIN arrays : arrays[k].name = arrays[l].name => k = l
    BY <2>1, <2>2
  <2>6. \A k \in DOMAIN arrays : arrays[k].size \in {1, 2}
    BY <2>1, <2>2
  <2>7. \A k \in DOMAIN arrays : arrays[k].n \in Nat
    BY <2>1, <2>3
  <2>8. ArraysAre(arrays)
    BY <2>1, <2>5, <2>6, <2>7 DEF ArraysAre
  <2>9. QED
    BY <2>4, <2>8
<1>2. CASE kernel = "csr"
  <2> DEFINE arrays == <<Indices("row_ptr", m.rows + 1),
                         Indices("column_index", A.csr.row_ptr[m.rows]),
                         Values("value", A.csr.row_ptr[m.rows]), Values("x", m.columns),
                         Values("y", m.rows)>>
  <2>1. DOMAIN arrays = 1 .. 5 /\ Len(arrays) = 5
    OBVIOUS
  <2>2. /\ arrays[1].name = "row_ptr" /\ arrays[1].size = 1 /\ arrays[1].n = m.rows + 1
        /\ arrays[2].name = "column_index" /\ arrays[2].size = 1 /\ arrays[2].n = A.csr.row_ptr[m.rows]
        /\ arrays[3].name = "value" /\ arrays[3].size = 2 /\ arrays[3].n = A.csr.row_ptr[m.rows]
        /\ arrays[4].name = "x" /\ arrays[4].size = 2 /\ arrays[4].n = m.columns
        /\ arrays[5].name = "y" /\ arrays[5].size = 2 /\ arrays[5].n = m.rows
    BY DEF Indices, Values
  <2>3. arrays[1].n \in Nat /\ arrays[2].n \in Nat /\ arrays[3].n \in Nat /\ arrays[4].n \in Nat
          /\ arrays[5].n \in Nat
    BY <1>2, <2>2, NumbersOfElements DEF HasEll, HasCoo
  <2>4. Arrays = arrays
    BY <1>2, ArraysOfCsr
  <2> HIDE DEF arrays
  <2>5. \A k, l \in DOMAIN arrays : arrays[k].name = arrays[l].name => k = l
    BY <2>1, <2>2
  <2>6. \A k \in DOMAIN arrays : arrays[k].size \in {1, 2}
    BY <2>1, <2>2
  <2>7. \A k \in DOMAIN arrays : arrays[k].n \in Nat
    BY <2>1, <2>3
  <2>8. ArraysAre(arrays)
    BY <2>1, <2>5, <2>6, <2>7 DEF ArraysAre
  <2>9. QED
    BY <2>4, <2>8
<1>3. CASE kernel = "ell"
  <2> DEFINE arrays == <<Indices("ell_column_index", EllSize), Values("ell_value", EllSize),
                         Values("x", m.columns), Values("y", m.rows)>>
  <2>1. DOMAIN arrays = 1 .. 4 /\ Len(arrays) = 4
    OBVIOUS
  <2>2. /\ arrays[1].name = "ell_column_index" /\ arrays[1].size = 1 /\ arrays[1].n = EllSize
        /\ arrays[2].name = "ell_value" /\ arrays[2].size = 2 /\ arrays[2].n = EllSize
        /\ arrays[3].name = "x" /\ arrays[3].size = 2 /\ arrays[3].n = m.columns
        /\ arrays[4].name = "y" /\ arrays[4].size = 2 /\ arrays[4].n = m.rows
    BY DEF Indices, Values
  <2>3. arrays[1].n \in Nat /\ arrays[2].n \in Nat /\ arrays[3].n \in Nat /\ arrays[4].n \in Nat
    BY <1>3, <2>2, NumbersOfElements DEF HasEll, HasCoo
  <2>4. Arrays = arrays
    BY <1>3, ArraysOfEll
  <2> HIDE DEF arrays
  <2>5. \A k, l \in DOMAIN arrays : arrays[k].name = arrays[l].name => k = l
    BY <2>1, <2>2
  <2>6. \A k \in DOMAIN arrays : arrays[k].size \in {1, 2}
    BY <2>1, <2>2
  <2>7. \A k \in DOMAIN arrays : arrays[k].n \in Nat
    BY <2>1, <2>3
  <2>8. ArraysAre(arrays)
    BY <2>1, <2>5, <2>6, <2>7 DEF ArraysAre
  <2>9. QED
    BY <2>4, <2>8
<1>4. CASE kernel = "coo_atomic"
  <2> DEFINE arrays == <<Indices("coo_row_index", A.coo.size),
                         Indices("coo_column_index", A.coo.size),
                         Values("coo_value", A.coo.size), Values("x", m.columns),
                         Values("y", m.rows)>>
  <2>1. DOMAIN arrays = 1 .. 5 /\ Len(arrays) = 5
    OBVIOUS
  <2>2. /\ arrays[1].name = "coo_row_index" /\ arrays[1].size = 1 /\ arrays[1].n = A.coo.size
        /\ arrays[2].name = "coo_column_index" /\ arrays[2].size = 1 /\ arrays[2].n = A.coo.size
        /\ arrays[3].name = "coo_value" /\ arrays[3].size = 2 /\ arrays[3].n = A.coo.size
        /\ arrays[4].name = "x" /\ arrays[4].size = 2 /\ arrays[4].n = m.columns
        /\ arrays[5].name = "y" /\ arrays[5].size = 2 /\ arrays[5].n = m.rows
    BY DEF Indices, Values
  <2>3. arrays[1].n \in Nat /\ arrays[2].n \in Nat /\ arrays[3].n \in Nat /\ arrays[4].n \in Nat
          /\ arrays[5].n \in Nat
    BY <1>4, <2>2, NumbersOfElements DEF HasEll, HasCoo
  <2>4. Arrays = arrays
    BY <1>4, ArraysOfCooAtomic
  <2> HIDE DEF arrays
  <2>5. \A k, l \in DOMAIN arrays : arrays[k].name = arrays[l].name => k = l
    BY <2>1, <2>2
  <2>6. \A k \in DOMAIN arrays : arrays[k].size \in {1, 2}
    BY <2>1, <2>2
  <2>7. \A k \in DOMAIN arrays : arrays[k].n \in Nat
    BY <2>1, <2>3
  <2>8. ArraysAre(arrays)
    BY <2>1, <2>5, <2>6, <2>7 DEF ArraysAre
  <2>9. QED
    BY <2>4, <2>8
<1>5. CASE kernel = "coo"
  <2> DEFINE arrays == <<Indices("coo_row_index", A.coo.size),
                         Indices("coo_column_index", A.coo.size),
                         Values("coo_value", A.coo.size), Values("x", m.columns),
                         Values("y", m.rows), Values("workspace", num_threads * m.rows)>>
  <2>1. DOMAIN arrays = 1 .. 6 /\ Len(arrays) = 6
    OBVIOUS
  <2>2. /\ arrays[1].name = "coo_row_index" /\ arrays[1].size = 1 /\ arrays[1].n = A.coo.size
        /\ arrays[2].name = "coo_column_index" /\ arrays[2].size = 1 /\ arrays[2].n = A.coo.size
        /\ arrays[3].name = "coo_value" /\ arrays[3].size = 2 /\ arrays[3].n = A.coo.size
        /\ arrays[4].name = "x" /\ arrays[4].size = 2 /\ arrays[4].n = m.columns
        /\ arrays[5].name = "y" /\ arrays[5].size = 2 /\ arrays[5].n = m.rows
        /\ arrays[6].name = "workspace" /\ arrays[6].size = 2 /\ arrays[6].n = num_threads * m.rows
    BY DEF Indices, Values
  <2>3. arrays[1].n \in Nat /\ arrays[2].n \in Nat /\ arrays[3].n \in Nat /\ arrays[4].n \in Nat
          /\ arrays[5].n \in Nat /\ arrays[6].n \in Nat
    BY <1>5, <2>2, NumbersOfElements DEF HasEll, HasCoo
  <2>4. Arrays = arrays
    BY <1>5, ArraysOfCoo
  <2> HIDE DEF arrays
  <2>5. \A k, l \in DOMAIN arrays : arrays[k].name = arrays[l].name => k = l
    BY <2>1, <2>2
  <2>6. \A k \in DOMAIN arrays : arrays[k].size \in {1, 2}
    BY <2>1, <2>2
  <2>7. \A k \in DOMAIN arrays : arrays[k].n \in Nat
    BY <2>1, <2>3
  <2>8. ArraysAre(arrays)
    BY <2>1, <2>5, <2>6, <2>7 DEF ArraysAre
  <2>9. QED
    BY <2>4, <2>8
<1>6. CASE kernel = "hybrid"
  <2> DEFINE arrays == <<Indices("ell_column_index", EllSize), Values("ell_value", EllSize),
                         Indices("coo_row_index", A.coo.size),
                         Indices("coo_column_index", A.coo.size),
                         Values("coo_value", A.coo.size), Values("x", m.columns),
                         Values("y", m.rows), Values("workspace", num_threads * m.rows)>>
  <2>1. DOMAIN arrays = 1 .. 8 /\ Len(arrays) = 8
    OBVIOUS
  <2>2. /\ arrays[1].name = "ell_column_index" /\ arrays[1].size = 1 /\ arrays[1].n = EllSize
        /\ arrays[2].name = "ell_value" /\ arrays[2].size = 2 /\ arrays[2].n = EllSize
        /\ arrays[3].name = "coo_row_index" /\ arrays[3].size = 1 /\ arrays[3].n = A.coo.size
        /\ arrays[4].name = "coo_column_index" /\ arrays[4].size = 1 /\ arrays[4].n = A.coo.size
        /\ arrays[5].name = "coo_value" /\ arrays[5].size = 2 /\ arrays[5].n = A.coo.size
        /\ arrays[6].name = "x" /\ arrays[6].size = 2 /\ arrays[6].n = m.columns
        /\ arrays[7].name = "y" /\ arrays[7].size = 2 /\ arrays[7].n = m.rows
        /\ arrays[8].name = "workspace" /\ arrays[8].size = 2 /\ arrays[8].n = num_threads * m.rows
    BY DEF Indices, Values
  <2>3. arrays[1].n \in Nat /\ arrays[2].n \in Nat /\ arrays[3].n \in Nat /\ arrays[4].n \in Nat
          /\ arrays[5].n \in Nat /\ arrays[6].n \in Nat /\ arrays[7].n \in Nat
          /\ arrays[8].n \in Nat
    BY <1>6, <2>2, NumbersOfElements DEF HasEll, HasCoo
  <2>4. Arrays = arrays
    BY <1>6, ArraysOfHybrid
  <2> HIDE DEF arrays
  <2>5. \A k, l \in DOMAIN arrays : arrays[k].name = arrays[l].name => k = l
    BY <2>1, <2>2
  <2>6. \A k \in DOMAIN arrays : arrays[k].size \in {1, 2}
    BY <2>1, <2>2
  <2>7. \A k \in DOMAIN arrays : arrays[k].n \in Nat
    BY <2>1, <2>3
  <2>8. ArraysAre(arrays)
    BY <2>1, <2>5, <2>6, <2>7 DEF ArraysAre
  <2>9. QED
    BY <2>4, <2>8
<1>7. QED
  BY <1>1, <1>2, <1>3, <1>4, <1>5, <1>6 DEF OptionsInv, KernelNames

\* An array is found by its name.
LEMMA ArrayIs ==
  ASSUME OptionsInv, NEW k \in DOMAIN Arrays
  PROVE  /\ ArrayOf(Arrays[k].name) = Arrays[k] /\ PagesOf(Arrays[k].name) = k
         /\ Arrays[k].name \in ArrayNames
         /\ Arrays[k].size \in {1, 2} /\ Arrays[k].n \in Nat
<1>1. ArraysAre(Arrays)
  BY ArraysDiffer
<1>2. Arrays[k] \in ToSet(Arrays) /\ \A a \in ToSet(Arrays) : \E l \in DOMAIN Arrays : a = Arrays[l]
  BY DEF ToSet
<1>3. \A a \in ToSet(Arrays) : a.name = Arrays[k].name => a = Arrays[k]
  BY <1>1, <1>2 DEF ArraysAre
<1>4. ArrayOf(Arrays[k].name) = Arrays[k]
  BY <1>2, <1>3 DEF ArrayOf
<1>5. PagesOf(Arrays[k].name) = k
  BY <1>1 DEF PagesOf, ArraysAre
<1>6. QED
  BY <1>1, <1>4, <1>5 DEF ArraysAre, ArrayNames

-----------------------------------------------------------------------------
(* The references of a loop *)

OneIf(b) == IF b THEN 1 ELSE 0

\* How often elements of Q are in a short sequence.
LEMMA OccurrencesOfOne ==
  ASSUME NEW a, NEW Q
  PROVE  /\ Len(<<a>>) = 1 /\ ToSet(<<a>>) = {a}
         /\ Occurrences(<<a>>, Q) = OneIf(a \in Q)
<1> DEFINE s == <<a>>
           found == {n \in DOMAIN s : s[n] \in Q}
<1>1. DOMAIN s = {1} /\ s[1] = a /\ Len(s) = 1
  OBVIOUS
<1>2. Occurrences(s, Q) = Cardinality(found)
  BY DEF Occurrences
<1> HIDE DEF s
<1>3. found = IF a \in Q THEN {1} ELSE {}
  BY <1>1
<1>4. Cardinality(found) = IF a \in Q THEN 1 ELSE 0
  BY <1>3, FS_Singleton, FS_EmptySet
<1>5. ToSet(s) = {a}
  BY <1>1 DEF ToSet
<1>6. QED
  BY <1>1, <1>2, <1>4, <1>5 DEF s, OneIf

LEMMA OccurrencesOfTwo ==
  ASSUME NEW a, NEW b, NEW Q
  PROVE  /\ Len(<<a, b>>) = 2 /\ ToSet(<<a, b>>) = {a, b}
         /\ Occurrences(<<a, b>>, Q) = OneIf(a \in Q) + OneIf(b \in Q)
<1> DEFINE s == <<a>>
           u == <<b>>
<1>1. s \in Seq({a, b}) /\ u \in Seq({a, b})
  OBVIOUS
<1>2. s \o u = <<a, b>>
  BY OneAndOne
<1>3. /\ Len(s) = 1 /\ ToSet(s) = {a} /\ Occurrences(s, Q) = OneIf(a \in Q)
      /\ Len(u) = 1 /\ ToSet(u) = {b} /\ Occurrences(u, Q) = OneIf(b \in Q)
  BY OccurrencesOfOne
<1> HIDE DEF s, u
<1>4. /\ Len(s \o u) = Len(s) + Len(u) /\ ToSet(s \o u) = ToSet(s) \cup ToSet(u)
      /\ Occurrences(s \o u, Q) = Occurrences(s, Q) + Occurrences(u, Q)
  BY <1>1, ConcatIs
<1>5. {a, b} = {a} \cup {b}
  OBVIOUS
<1>6. QED
  BY <1>2, <1>3, <1>4, <1>5

LEMMA OccurrencesOfThree ==
  ASSUME NEW a, NEW b, NEW c, NEW Q
  PROVE  /\ Len(<<a, b, c>>) = 3 /\ ToSet(<<a, b, c>>) = {a, b, c}
         /\ Occurrences(<<a, b, c>>, Q) = OneIf(a \in Q) + OneIf(b \in Q) + OneIf(c \in Q)
<1> DEFINE s == <<a, b>>
           u == <<c>>
<1>1. s \in Seq({a, b, c}) /\ u \in Seq({a, b, c})
  OBVIOUS
<1>2. s \o u = <<a, b, c>>
  BY TwoAndOne
<1>3. /\ Len(s) = 2 /\ ToSet(s) = {a, b} /\ Occurrences(s, Q) = OneIf(a \in Q) + OneIf(b \in Q)
      /\ Len(u) = 1 /\ ToSet(u) = {c} /\ Occurrences(u, Q) = OneIf(c \in Q)
  BY OccurrencesOfOne, OccurrencesOfTwo
<1> HIDE DEF s, u
<1>4. /\ Len(s \o u) = Len(s) + Len(u) /\ ToSet(s \o u) = ToSet(s) \cup ToSet(u)
      /\ Occurrences(s \o u, Q) = Occurrences(s, Q) + Occurrences(u, Q)
  BY <1>1, ConcatIs
<1>5. {a, b, c} = {a, b} \cup {c}
  OBVIOUS
<1>6. QED
  BY <1>2, <1>3, <1>4, <1>5

LEMMA OccurrencesOfFive ==
  ASSUME NEW a, NEW b, NEW c, NEW d, NEW e, NEW Q
  PROVE  /\ Len(<<a, b, c, d, e>>) = 5 /\ ToSet(<<a, b, c, d, e>>) = {a, b, c, d, e}
         /\ Occurrences(<<a, b, c, d, e>>, Q) =
              OneIf(a \in Q) + OneIf(b \in Q) + OneIf(c \in Q) + OneIf(d \in Q) + OneIf(e \in Q)
<1> DEFINE s == <<a, b, c>>
           u == <<d, e>>
           S == {a, b, c, d, e}
<1>1. s \in Seq(S) /\ u \in Seq(S)
  OBVIOUS
<1>2. s \o u = <<a, b, c, d, e>>
  BY ThreeAndTwo
<1>3. /\ Len(s) = 3 /\ ToSet(s) = {a, b, c} /\ Len(u) = 2 /\ ToSet(u) = {d, e}
      /\ Occurrences(s, Q) = OneIf(a \in Q) + OneIf(b \in Q) + OneIf(c \in Q)
      /\ Occurrences(u, Q) = OneIf(d \in Q) + OneIf(e \in Q)
  BY OccurrencesOfTwo, OccurrencesOfThree
<1>4. S = {a, b, c} \cup {d, e}
  OBVIOUS
<1> HIDE DEF s, u, S
<1>5. /\ Len(s \o u) = Len(s) + Len(u) /\ ToSet(s \o u) = ToSet(s) \cup ToSet(u)
      /\ Occurrences(s \o u, Q) = Occurrences(s, Q) + Occurrences(u, Q)
  BY <1>1, ConcatIs
<1>6. \A w : OneIf(w \in Q) \in Int
  BY DEF OneIf
<1>7. Occurrences(s \o u, Q) =
        OneIf(a \in Q) + OneIf(b \in Q) + OneIf(c \in Q) + OneIf(d \in Q) + OneIf(e \in Q)
  BY <1>3, <1>5, <1>6
<1>8. QED
  BY <1>2, <1>3, <1>4, <1>5, <1>7 DEF S

\* What the iterations of a loop from a to b - 1 append, all together: when G
\* grows with the number of references in Q, there are G[b] - G[a] of them.
IsLoop(refs, iteration, a, b, S) ==
  /\ refs \in Seq(S) /\ ToSet(refs) = UNION {ToSet(iteration[k]) : k \in a .. b - 1}
  /\ \A Q, G : (/\ \A k \in a .. b : G[k] \in Int
                /\ \A k \in a .. b - 1 : Occurrences(iteration[k], Q) = G[k + 1] - G[k])
               => Occurrences(refs, Q) = G[b] - G[a]

\* What the references of a loop are.
LEMMA RefsAre ==
  ASSUME NEW a \in Int, NEW b \in Int, a <= b, NEW S,
         NEW iteration \in [a .. b - 1 -> Seq(S)]
  PROVE  IsLoop(Refs(iteration), iteration, a, b, S)
<1> DEFINE range == a .. b - 1
           n == b - a
           seqs == [i \in 1 .. n |-> iteration[a + i - 1]]
<1>1. n \in Nat /\ \A i \in 1 .. n : a + i - 1 \in range
  OBVIOUS
<1>2. seqs \in [1 .. n -> Seq(S)]
  BY <1>1
<1>3. Cardinality(range) = n
  <2>1. b - 1 \in Int /\ a <= (b - 1) + 1 /\ ((b - 1) - a) + 1 = n
    OBVIOUS
  <2>2. QED
    BY <2>1, IntervalSize
<1>4. Refs(iteration) = FlattenSeq(seqs)
  <2>1. DOMAIN iteration = range
    OBVIOUS
  <2>2. Refs(iteration) = FlattenSeq([i \in 1 .. Cardinality(range) |-> iteration[Min(range) + i - 1]])
    BY <2>1 DEF Refs
  <2>3. range # {} => Min(range) = a
    <3>1. \A k \in range : a <= k
      OBVIOUS
    <3>2. range # {} => a \in range
      OBVIOUS
    <3>3. \A k \in range : k \in Int
      OBVIOUS
    <3>4. Min(range) = CHOOSE k \in range : \A j \in range : k <= j
      BY DEF Min
    <3> HIDE DEF range
    <3>5. QED
      BY <3>1, <3>2, <3>3, <3>4
  <2>4. [i \in 1 .. n |-> iteration[Min(range) + i - 1]] = seqs
    <3>1. \A i \in 1 .. n : Min(range) = a
      BY <1>1, <2>3
    <3> HIDE DEF range, n
    <3>2. QED
      BY <3>1
  <2>5. QED
    BY <1>3, <2>2, <2>4
<1>5. /\ FlattenSeq(seqs) \in Seq(S)
      /\ ToSet(FlattenSeq(seqs)) = UNION {ToSet(seqs[i]) : i \in 1 .. n}
      /\ \A Q, F : (F[0] = 0 /\ \A i \in 1 .. n : F[i] = F[i - 1] + Occurrences(seqs[i], Q))
                     => Occurrences(FlattenSeq(seqs), Q) = F[n]
  <2> HIDE DEF n, seqs
  <2>1. n \in Nat
    BY <1>1
  <2>2. QED
    BY <1>2, <2>1, FlattenedIs
<1>6. UNION {ToSet(seqs[i]) : i \in 1 .. n} = UNION {ToSet(iteration[k]) : k \in range}
  <2>1. \A k \in range : k - a + 1 \in 1 .. n /\ a + (k - a + 1) - 1 = k
    OBVIOUS
  <2>2. \A i \in 1 .. n : seqs[i] = iteration[a + i - 1]
    OBVIOUS
  <2> HIDE DEF range, n, seqs
  <2>3. \A i \in 1 .. n : ToSet(seqs[i]) = ToSet(iteration[a + i - 1])
    BY <2>2
  <2>4. \A k \in range : ToSet(iteration[k]) = ToSet(seqs[k - a + 1])
    BY <2>1, <2>2
  <2>5. \A w : (\E i \in 1 .. n : w \in ToSet(seqs[i]))
               <=> (\E k \in range : w \in ToSet(iteration[k]))
    BY <1>1, <2>1, <2>3, <2>4
  <2>6. QED
    BY <2>5
<1>7. ASSUME NEW Q, NEW G, \A k \in a .. b : G[k] \in Int,
             \A k \in range : Occurrences(iteration[k], Q) = G[k + 1] - G[k]
      PROVE  Occurrences(FlattenSeq(seqs), Q) = G[b] - G[a]
  <2> DEFINE F == [i \in 0 .. n |-> G[a + i] - G[a]]
  <2>1. \A i \in 1 .. n : Occurrences(seqs[i], Q) = G[a + i] - G[a + i - 1]
    <3>1. \A i \in 1 .. n : seqs[i] = iteration[a + i - 1] /\ (a + i - 1) + 1 = a + i
      OBVIOUS
    <3> HIDE DEF seqs, range, n
    <3>2. QED
      BY <1>1, <1>7, <3>1
  <2>2. \A i \in 0 .. n : G[a + i] \in Int
    BY <1>7
  <2>3. F[0] = 0
    BY <1>1, <2>2
  <2>4. \A i \in 1 .. n : F[i] = F[i - 1] + Occurrences(seqs[i], Q)
    <3>1. ASSUME NEW i \in 1 .. n
          PROVE  F[i] = F[i - 1] + Occurrences(seqs[i], Q)
      <4>1. i \in 0 .. n /\ i - 1 \in 0 .. n /\ a + (i - 1) = a + i - 1 /\ 0 \in 0 .. n /\ a + 0 = a
        BY <1>1
      <4>2. G[a + i] \in Int /\ G[a + i - 1] \in Int /\ G[a] \in Int
        BY <2>2, <4>1
      <4>3. F[i] = G[a + i] - G[a] /\ F[i - 1] = G[a + i - 1] - G[a]
        BY <4>1
      <4> HIDE DEF F, seqs
      <4>4. QED
        BY <2>1, <4>2, <4>3
    <3>2. QED
      BY <3>1
  <2>5. F[n] = G[b] - G[a]
    <3>1. n \in 0 .. n /\ a + n = b
      BY <1>1
    <3>2. QED
      BY <3>1
  <2> HIDE DEF F, seqs, n
  <2>6. QED
    BY <1>5, <2>3, <2>4, <2>5
<1> HIDE DEF seqs, n, range
<1>8. QED
  BY <1>4, <1>5, <1>6, <1>7 DEF range, IsLoop

-----------------------------------------------------------------------------
(* References, shares and owners; the string of the triad *)

\* The names of the arrays of all kernels.
AllNames ==
  {"a", "b", "c", "row_ptr", "column_index", "value", "ell_column_index", "ell_value",
   "coo_row_index", "coo_column_index", "coo_value", "x", "y", "workspace"}

References == [array : AllNames, index : Int, owner : Int]

\* A reference and its fields.
LEMMA RefIs ==
  ASSUME NEW name \in AllNames, NEW index \in Int, NEW thread \in Int
  PROVE  /\ Ref(name, index, thread) \in References
         /\ Ref(name, index, thread).array = name /\ Ref(name, index, thread).index = index
         /\ Ref(name, index, thread).owner = thread
BY DEF Ref, References

\* The share of a thread of n rows or elements.
LEMMA ShareIs ==
  ASSUME OptionsInv, NEW n \in Nat, NEW t \in Threads
  PROVE  LET a == ThreadStart(n, num_threads, t)
             b == ThreadStart(n, num_threads, t + 1) IN
         /\ a \in 0 .. n /\ b \in 0 .. n /\ a <= b
         /\ ThreadRange(n, num_threads, t) = a .. b - 1
         /\ ThreadRange(n, num_threads, t) \subseteq 0 .. n - 1
         /\ Cardinality(ThreadRange(n, num_threads, t)) = b - a
<1> DEFINE a == ThreadStart(n, num_threads, t)
           b == ThreadStart(n, num_threads, t + 1)
<1>1. num_threads \in Nat \ {0} /\ t \in Nat /\ t + 1 \in Nat /\ t <= t + 1
  BY OptionsAre
<1>2. a \in 0 .. n /\ b \in 0 .. n /\ a <= b
  BY <1>1, ThreadStartGrows
<1>3. ThreadRange(n, num_threads, t) = a .. b - 1
  BY DEF ThreadRange
<1> HIDE DEF a, b
<1>4. a \in Int /\ b - 1 \in Int /\ a <= (b - 1) + 1 /\ ((b - 1) - a) + 1 = b - a
  BY <1>2
<1>5. Cardinality(a .. b - 1) = b - a
  BY <1>4, IntervalSize
<1>6. a .. b - 1 \subseteq 0 .. n - 1
  BY <1>2
<1>7. QED
  BY <1>2, <1>3, <1>5, <1>6 DEF a, b

\* The shares start at 0 and end at n.
LEMMA SharesCover ==
  ASSUME OptionsInv, NEW n \in Nat
  PROVE  ThreadStart(n, num_threads, 0) = 0 /\ ThreadStart(n, num_threads, num_threads) = n
<1> DEFINE c == CeilDiv(n, num_threads)
           all == num_threads * c
<1>1. c \in Nat /\ n <= c * num_threads /\ num_threads \in Nat
  BY OptionsAre, CeilDivCovers
<1>2. all \in Nat /\ n <= all /\ 0 * c = 0
  <2> HIDE DEF c
  <2>1. QED
    BY <1>1
<1>3. ThreadStart(n, num_threads, 0) = AtMost(n, 0) /\ ThreadStart(n, num_threads, num_threads) = AtMost(n, all)
  BY <1>2 DEF ThreadStart
<1> HIDE DEF all
<1>4. QED
  BY <1>2, <1>3 DEF AtMost

\* An element of an array that has some is looked up at a thread of the team.
LEMMA OwnerIsThread ==
  ASSUME OptionsInv, NEW name, NEW n \in Nat \ {0}, NEW index \in Int
  PROVE  Owner(name, n, index) \in Threads
<1> DEFINE down == AlignDown(address, PageSize)
           page == (address + (2 * index) - down) \div PageSize
           num_pages == NumPages(address, 2, n, PageSize)
           found == PageOfIndex(address, 2, n, index, PageSize)
<1>1. /\ address \in Nat /\ PageSize \in Nat \ {0} /\ num_threads \in Nat \ {0}
      /\ Threads = 0 .. num_threads - 1
  BY OptionsAre
<1>2. down \in Nat /\ down <= address
  <2>1. down = address - (address % PageSize)
    BY DEF AlignDown
  <2>2. address % PageSize \in Nat /\ address % PageSize <= address
    BY <1>1
  <2>3. QED
    BY <1>1, <2>1, <2>2
<1>3. num_pages \in Nat /\ num_pages > 0
  <2> DEFINE left == address + (n * 2) - down
  <2>1. left \in Nat /\ left > 0
    <3> HIDE DEF down
    <3>1. QED
      BY <1>1, <1>2
  <2>2. num_pages = CeilDiv(left, PageSize)
    BY DEF NumPages
  <2> HIDE DEF left
  <2>3. QED
    BY <1>1, <2>1, <2>2, CeilDivCovers
<1>4. found = IF index >= 0 /\ page < num_pages THEN page ELSE num_pages - 1
  BY DEF PageOfIndex
<1>5. index >= 0 => page \in Nat
  <2> DEFINE at == address + (2 * index) - down
  <2>1. index >= 0 => at \in Nat
    <3> HIDE DEF down
    <3>1. QED
      BY <1>1, <1>2
  <2> HIDE DEF at
  <2>2. at \in Nat => at \div PageSize \in Nat
    BY <1>1
  <2>3. page = at \div PageSize
    BY DEF at
  <2>4. QED
    BY <2>1, <2>2, <2>3
<1> HIDE DEF page, num_pages, down
<1>6. found \in Nat
  BY <1>3, <1>4, <1>5
<1>7. Owner(name, n, index) = ThreadOfPage(address, 2, n, num_threads, found, PageSize)
  BY DEF Owner, ThreadOfIndex
<1> HIDE DEF found
<1>8. 2 \in Nat \ {0}
  OBVIOUS
<1>9. ThreadOfPage(address, 2, n, num_threads, found, PageSize) \in 0 .. num_threads - 1
  BY <1>1, <1>6, <1>8, OwnerOfPageIsThread
<1>10. QED
  BY <1>1, <1>7, <1>9

\* A reference to x is looked up at a thread of the team.
LEMMA OfXIs ==
  ASSUME OptionsInv, NEW j \in Int
  PROVE  /\ OfX(j) \in References /\ OfX(j).array = "x" /\ OfX(j).index = j
         /\ OfX(j).owner = Owner("x", m.columns, j) /\ OfX(j).owner \in Threads
<1>1. Owner("x", m.columns, j) \in Threads
  BY OptionsAre, OwnerIsThread
<1>2. Owner("x", m.columns, j) \in Int
  BY <1>1, OptionsAre
<1>3. QED
  BY <1>2, <1>1 DEF OfX, Ref, References, AllNames

\* Threads are numbers.
LEMMA ThreadsAreInt ==
  ASSUME OptionsInv, NEW t \in Threads
  PROVE  t \in Int /\ t \in Nat /\ t < num_threads /\ t + 1 \in Nat
BY OptionsAre

TriadStep(k, t) == <<Ref("b", k, t), Ref("c", k, t), Ref("a", k, t)>>

\* What is in the string of the triad, and how often.
LEMMA TriadStringIs ==
  ASSUME OptionsInv, kernel = "triad", NEW t \in Threads
  PROVE  LET n == A.num_entries
             range == ThreadRange(n, num_threads, t)
             refs == TriadString(t).refs IN
         /\ String(t) = TriadString(t)
         /\ TriadString(t).size = 3 * Cardinality(range)
         /\ refs \in Seq(References)
         /\ ToSet(refs) = UNION {{Ref("b", k, t), Ref("c", k, t), Ref("a", k, t)} : k \in range}
         /\ \A Q, G : (/\ \A k \in 0 .. n : G[k] \in Int
                       /\ \A k \in range : Occurrences(TriadStep(k, t), Q) = G[k + 1] - G[k])
              => Occurrences(refs, Q) =
                   G[ThreadStart(n, num_threads, t + 1)] - G[ThreadStart(n, num_threads, t)]
<1> DEFINE n == A.num_entries
           range == ThreadRange(n, num_threads, t)
           refs == TriadString(t).refs
           a == ThreadStart(n, num_threads, t)
           b == ThreadStart(n, num_threads, t + 1)
           steps == [k \in range |-> TriadStep(k, t)]
<1>1. /\ String(t) = TriadString(t) /\ TriadString(t).size = 3 * Cardinality(range)
      /\ refs = Refs(steps)
  BY DEF String, TriadString, TriadStep
<1>2. n \in Nat
  BY TriadIs
<1> HIDE DEF n
<1>3. /\ a \in 0 .. n /\ b \in 0 .. n /\ a <= b /\ range = a .. b - 1 /\ range \subseteq 0 .. n - 1
  BY <1>2, ShareIs
<1> HIDE DEF a, b, range, refs
<1>4. \A k \in range : steps[k] = TriadStep(k, t)
  OBVIOUS
<1>5. \A k \in range : /\ TriadStep(k, t) \in Seq(References)
                       /\ ToSet(TriadStep(k, t)) = {Ref("b", k, t), Ref("c", k, t), Ref("a", k, t)}
  <2>1. ASSUME NEW k \in range
        PROVE  /\ TriadStep(k, t) \in Seq(References)
               /\ ToSet(TriadStep(k, t)) = {Ref("b", k, t), Ref("c", k, t), Ref("a", k, t)}
    <3>1. k \in Int /\ t \in Int
      BY <1>3, ThreadsAreInt
    <3>2. Ref("b", k, t) \in References /\ Ref("c", k, t) \in References /\ Ref("a", k, t) \in References
      BY <3>1 DEF Ref, References, AllNames
    <3>3. QED
      BY <3>2, OccurrencesOfThree DEF TriadStep
  <2>2. QED
    BY <2>1
<1>6. steps \in [a .. b - 1 -> Seq(References)]
  BY <1>3, <1>5
<1> HIDE DEF steps
<1>7. /\ Refs(steps) \in Seq(References)
      /\ ToSet(Refs(steps)) = UNION {ToSet(steps[k]) : k \in a .. b - 1}
      /\ \A Q, G : (/\ \A k \in a .. b : G[k] \in Int
                    /\ \A k \in a .. b - 1 : Occurrences(steps[k], Q) = G[k + 1] - G[k])
                   => Occurrences(Refs(steps), Q) = G[b] - G[a]
  <2>1. a \in Int /\ b \in Int /\ a <= b
    BY <1>3
  <2>2. IsLoop(Refs(steps), steps, a, b, References)
    BY <1>6, <2>1, RefsAre
  <2>3. QED
    BY <2>2 DEF IsLoop
<1>8. UNION {ToSet(steps[k]) : k \in a .. b - 1} =
        UNION {{Ref("b", k, t), Ref("c", k, t), Ref("a", k, t)} : k \in range}
  BY <1>3, <1>4, <1>5
<1>9. ASSUME NEW Q, NEW G, \A k \in 0 .. n : G[k] \in Int,
             \A k \in range : Occurrences(TriadStep(k, t), Q) = G[k + 1] - G[k]
      PROVE  Occurrences(Refs(steps), Q) = G[b] - G[a]
  <2>1. \A k \in a .. b : G[k] \in Int
    BY <1>2, <1>3, <1>9
  <2>2. \A k \in a .. b - 1 : Occurrences(steps[k], Q) = G[k + 1] - G[k]
    BY <1>3, <1>4, <1>9
  <2>3. QED
    BY <1>7, <2>1, <2>2
<1>10. QED
  BY <1>1, <1>7, <1>8, <1>9 DEF n, a, b, range, refs

-----------------------------------------------------------------------------
(* The references of the rows of a matrix *)

\* What the rows from a to b - 1 append, all together, when each has the steps
\* of its elements between what comes before them and after them.
IsRows(refs, a, b, N, ptr, before, step, after, S) ==
  /\ refs \in Seq(S)
  /\ ToSet(refs) = UNION {(ToSet(before[i]) \cup ToSet(after[i]))
                            \cup UNION {ToSet(step[k]) : k \in ptr[i] .. ptr[i + 1] - 1}
                          : i \in a .. b - 1}
  /\ \A Q, H : \A e \in Int :
       (/\ \A k \in 0 .. N : H[k] \in Int
        /\ \A k \in 0 .. N - 1 : Occurrences(step[k], Q) = H[k + 1] - H[k]
        /\ \A i \in a .. b - 1 : Occurrences(before[i], Q) + Occurrences(after[i], Q) = e)
       => Occurrences(refs, Q) = (H[ptr[b]] - H[ptr[a]]) + (e * (b - a))

\* What the references of rows are, when each row goes over its own elements.
LEMMA RowsOfRefs ==
  ASSUME NEW a \in Int, NEW b \in Int, a <= b, NEW N \in Nat, NEW S, NEW ptr,
         \A i \in a .. b : ptr[i] \in 0 .. N, \A i \in a .. b - 1 : ptr[i] <= ptr[i + 1],
         NEW step \in [0 .. N - 1 -> Seq(S)],
         NEW before \in [a .. b - 1 -> Seq(S)], NEW after \in [a .. b - 1 -> Seq(S)],
         NEW row, row = [i \in a .. b - 1 |->
                  before[i] \o Refs([k \in ptr[i] .. ptr[i + 1] - 1 |-> step[k]]) \o after[i]]
  PROVE  IsRows(Refs(row), a, b, N, ptr, before, step, after, S)
<1> DEFINE steps(i) == [k \in ptr[i] .. ptr[i + 1] - 1 |-> step[k]]
           loop(i) == Refs(steps(i))
           all(i) == (ToSet(before[i]) \cup ToSet(after[i]))
                       \cup UNION {ToSet(step[k]) : k \in ptr[i] .. ptr[i + 1] - 1}
<1>1. \A i \in a .. b - 1 : i \in a .. b /\ i + 1 \in a .. b
  OBVIOUS
<1>2. ASSUME NEW i \in a .. b - 1
      PROVE  /\ ptr[i] \in 0 .. N /\ ptr[i + 1] \in 0 .. N /\ ptr[i] <= ptr[i + 1]
             /\ ptr[i] .. ptr[i + 1] - 1 \subseteq 0 .. N - 1
  <2>1. ptr[i] \in 0 .. N /\ ptr[i + 1] \in 0 .. N /\ ptr[i] <= ptr[i + 1]
    BY <1>1
  <2> DEFINE p == ptr[i]
             q == ptr[i + 1]
  <2> HIDE DEF p, q
  <2>2. p \in 0 .. N /\ q \in 0 .. N
    BY <2>1 DEF p, q
  <2>3. p .. q - 1 \subseteq 0 .. N - 1
    BY <2>2
  <2>4. QED
    BY <2>1, <2>3 DEF p, q
<1>3. ASSUME NEW i \in a .. b - 1
      PROVE  /\ loop(i) \in Seq(S)
             /\ ToSet(loop(i)) = UNION {ToSet(step[k]) : k \in ptr[i] .. ptr[i + 1] - 1}
             /\ \A Q, H : (/\ \A k \in ptr[i] .. ptr[i + 1] : H[k] \in Int
                           /\ \A k \in ptr[i] .. ptr[i + 1] - 1 : Occurrences(step[k], Q) = H[k + 1] - H[k])
                          => Occurrences(loop(i), Q) = H[ptr[i + 1]] - H[ptr[i]]
  <2> DEFINE p == ptr[i]
             q == ptr[i + 1]
             it == steps(i)
  <2>1. p \in Int /\ q \in Int /\ p <= q /\ p .. q - 1 \subseteq 0 .. N - 1
    BY <1>2
  <2>2. it = [k \in p .. q - 1 |-> step[k]]
    OBVIOUS
  <2> HIDE DEF p, q, it
  <2>3. it \in [p .. q - 1 -> Seq(S)]
    BY <2>1, <2>2
  <2>4. IsLoop(Refs(it), it, p, q, S)
    BY <2>1, <2>3, RefsAre
  <2>5. \A k \in p .. q - 1 : it[k] = step[k]
    BY <2>2
  <2>6. /\ Refs(it) \in Seq(S)
        /\ ToSet(Refs(it)) = UNION {ToSet(it[k]) : k \in p .. q - 1}
        /\ \A Q, H : (/\ \A k \in p .. q : H[k] \in Int
                      /\ \A k \in p .. q - 1 : Occurrences(it[k], Q) = H[k + 1] - H[k])
                     => Occurrences(Refs(it), Q) = H[q] - H[p]
    BY <2>4 DEF IsLoop
  <2>7. UNION {ToSet(it[k]) : k \in p .. q - 1} = UNION {ToSet(step[k]) : k \in p .. q - 1}
    BY <2>5
  <2>8. ASSUME NEW Q, NEW H, \A k \in p .. q : H[k] \in Int,
               \A k \in p .. q - 1 : Occurrences(step[k], Q) = H[k + 1] - H[k]
        PROVE  Occurrences(Refs(it), Q) = H[q] - H[p]
    BY <2>5, <2>6, <2>8
  <2>9. QED
    BY <2>6, <2>7, <2>8 DEF p, q, it
<1> HIDE DEF steps
<1>4. \A i \in a .. b - 1 : row[i] = before[i] \o loop(i) \o after[i]
  BY DEF steps
<1> HIDE DEF loop
<1>5. ASSUME NEW i \in a .. b - 1
      PROVE  /\ row[i] \in Seq(S) /\ ToSet(row[i]) = all(i)
             /\ \A Q : Occurrences(row[i], Q) =
                         Occurrences(before[i], Q) + Occurrences(loop(i), Q) + Occurrences(after[i], Q)
  <2> DEFINE s == before[i]
             u == loop(i)
             v == after[i]
             su == s \o u
             suv == su \o v
  <2>1. s \in Seq(S) /\ u \in Seq(S) /\ v \in Seq(S)
    BY <1>3
  <2>2. row[i] = suv
    BY <1>4
  <2> HIDE DEF s, u, v
  <2>3. /\ su \in Seq(S) /\ ToSet(su) = ToSet(s) \cup ToSet(u)
        /\ \A Q : Occurrences(su, Q) = Occurrences(s, Q) + Occurrences(u, Q)
    BY <2>1, ConcatIs, ConcatProperties
  <2> HIDE DEF su
  <2>4. /\ suv \in Seq(S) /\ ToSet(suv) = ToSet(su) \cup ToSet(v)
        /\ \A Q : Occurrences(suv, Q) = Occurrences(su, Q) + Occurrences(v, Q)
    BY <2>1, <2>3, ConcatIs, ConcatProperties
  <2> HIDE DEF suv
  <2>5. ToSet(u) = UNION {ToSet(step[k]) : k \in ptr[i] .. ptr[i + 1] - 1}
    BY <1>3 DEF u
  <2>6. ToSet(suv) = (ToSet(s) \cup ToSet(v)) \cup ToSet(u)
    BY <2>3, <2>4
  <2>7. \A Q : Occurrences(suv, Q) = Occurrences(s, Q) + Occurrences(u, Q) + Occurrences(v, Q)
    BY <2>3, <2>4
  <2>8. ToSet(suv) = all(i)
    BY <2>5, <2>6 DEF s, v
  <2> HIDE DEF all
  <2>9. QED
    BY <2>2, <2>4, <2>7, <2>8 DEF s, u, v
<1>6. row \in [a .. b - 1 -> Seq(S)]
  <2>1. \A i \in a .. b - 1 : row[i] \in Seq(S)
    BY <1>5
  <2>2. row = [i \in a .. b - 1 |-> row[i]]
    OBVIOUS
  <2>3. QED
    BY <2>1, <2>2
<1>7. IsLoop(Refs(row), row, a, b, S)
  BY <1>6, RefsAre
<1>8. /\ Refs(row) \in Seq(S)
      /\ ToSet(Refs(row)) = UNION {ToSet(row[i]) : i \in a .. b - 1}
      /\ \A Q, G : (/\ \A i \in a .. b : G[i] \in Int
                    /\ \A i \in a .. b - 1 : Occurrences(row[i], Q) = G[i + 1] - G[i])
                   => Occurrences(Refs(row), Q) = G[b] - G[a]
  BY <1>7 DEF IsLoop
<1>9. UNION {ToSet(row[i]) : i \in a .. b - 1} = UNION {all(i) : i \in a .. b - 1}
  <2> HIDE DEF all
  <2>1. QED
    BY <1>5
<1>10. ASSUME NEW Q, NEW H, NEW e \in Int, \A k \in 0 .. N : H[k] \in Int,
              \A k \in 0 .. N - 1 : Occurrences(step[k], Q) = H[k + 1] - H[k],
              \A i \in a .. b - 1 : Occurrences(before[i], Q) + Occurrences(after[i], Q) = e
       PROVE  Occurrences(Refs(row), Q) = (H[ptr[b]] - H[ptr[a]]) + (e * (b - a))
  <2> DEFINE G == [i \in a .. b |-> H[ptr[i]] + (e * (i - a))]
  <2>1. \A i \in a .. b : H[ptr[i]] \in Int
    BY <1>10
  <2>2. \A i \in a .. b : e * (i - a) \in Int
    OBVIOUS
  <2>3. \A i \in a .. b : G[i] \in Int
    BY <2>1, <2>2
  <2>4. ASSUME NEW i \in a .. b - 1
        PROVE  Occurrences(row[i], Q) = G[i + 1] - G[i]
    <3> DEFINE p == ptr[i]
               q == ptr[i + 1]
               now == e * (i - a)
               then == e * (i + 1 - a)
    <3>1. p \in 0 .. N /\ q \in 0 .. N /\ p .. q - 1 \subseteq 0 .. N - 1 /\ p .. q \subseteq 0 .. N
      <4>1. p \in 0 .. N /\ q \in 0 .. N /\ p .. q - 1 \subseteq 0 .. N - 1
        BY <1>2
      <4> HIDE DEF p, q
      <4>2. QED
        BY <4>1
    <3>2. Occurrences(loop(i), Q) = H[q] - H[p]
      <4>1. \A k \in p .. q : H[k] \in Int
        BY <1>10, <3>1
      <4>2. \A k \in p .. q - 1 : Occurrences(step[k], Q) = H[k + 1] - H[k]
        BY <1>10, <3>1
      <4>3. QED
        BY <1>3, <4>1, <4>2
    <3>3. Occurrences(row[i], Q) = Occurrences(before[i], Q) + Occurrences(loop(i),
            Q) + Occurrences(after[i], Q)
      BY <1>5
    <3>4. /\ Occurrences(before[i], Q) \in Int /\ Occurrences(after[i], Q) \in Int
          /\ Occurrences(before[i], Q) + Occurrences(after[i], Q) = e
      <4>1. \A s \in Seq(S) : Occurrences(s, Q) \in Int
        <5>1. ASSUME NEW s \in Seq(S)
              PROVE  Occurrences(s, Q) \in Int
          <6>1. Occurrences(s, Q) \in Nat
            BY ONLY <5>1, OccurrencesAre
          <6>2. QED
            BY <6>1
        <5>2. QED
          BY <5>1
      <4>2. QED
        BY <1>10, <4>1
    <3>5. then = now + e /\ now \in Int
      <4> DEFINE d == i - a
      <4>1. d \in Int /\ i + 1 - a = d + 1
        OBVIOUS
      <4> HIDE DEF d
      <4>2. e * (d + 1) = (e * d) + e /\ e * d \in Int
        BY <4>1
      <4>3. QED
        BY <4>1, <4>2 DEF d
    <3>6. G[i + 1] = H[q] + then /\ G[i] = H[p] + now
      BY <1>1
    <3>7. H[p] \in Int /\ H[q] \in Int
      BY <1>10, <3>1
    <3> DEFINE x == Occurrences(before[i], Q)
               y == Occurrences(after[i], Q)
               z == Occurrences(loop(i), Q)
               total == Occurrences(row[i], Q)
               Gi == G[i]
               Gj == G[i + 1]
               Hp == H[p]
               Hq == H[q]
    <3> HIDE DEF G, p, q, now, then, x, y, z, total, Gi, Gj, Hp, Hq
    <3>8. z = Hq - Hp /\ total = x + z + y /\ x \in Int /\ y \in Int /\ x + y = e
      BY <3>2, <3>3, <3>4 DEF x, y, z, total, Hp, Hq
    <3>9. then = now + e /\ now \in Int /\ Gj = Hq + then /\ Gi = Hp + now /\ Hp \in Int /\ Hq \in Int
      BY <3>5, <3>6, <3>7 DEF Gi, Gj, Hp, Hq
    <3>10. total = Gj - Gi
      BY <3>8, <3>9
    <3>11. QED
      BY <3>10 DEF total, Gi, Gj
  <2>5. G[b] = H[ptr[b]] + (e * (b - a)) /\ G[a] = H[ptr[a]]
    <3>1. a \in a .. b /\ b \in a .. b /\ e * (a - a) = 0
      OBVIOUS
    <3>2. QED
      BY <2>1, <3>1
  <2>6. Occurrences(Refs(row), Q) = G[b] - G[a]
    <3> HIDE DEF G
    <3>1. QED
      BY <1>8, <2>3, <2>4
  <2>7. e * (b - a) \in Int /\ H[ptr[b]] \in Int /\ H[ptr[a]] \in Int
    BY <2>1
  <2> HIDE DEF G
  <2>8. QED
    BY <2>5, <2>6, <2>7
<1>11. QED
  BY <1>8, <1>9, <1>10 DEF IsRows

-----------------------------------------------------------------------------
(* The arrays by name *)

\* The kernel has an array of that name, with n elements of that size.
HasArray(name, size, n) ==
  \E k \in DOMAIN Arrays : Arrays[k].name = name /\ Arrays[k].size = size /\ Arrays[k].n = n

\* An array found by its name, size and number of elements.
LEMMA ArrayOfName ==
  ASSUME OptionsInv, NEW name, NEW size, NEW n, HasArray(name, size, n)
  PROVE  /\ ArrayOf(name).size = size /\ ArrayOf(name).n = n /\ name \in ArrayNames
         /\ PagesOf(name) \in DOMAIN Arrays /\ Arrays[PagesOf(name)] = ArrayOf(name)
<1>1. PICK k \in DOMAIN Arrays : Arrays[k].name = name /\ Arrays[k].size = size /\ Arrays[k].n = n
  BY DEF HasArray
<1>2. QED
  BY <1>1, ArrayIs

\* The arrays of each kernel, by name.
LEMMA ArraysNamedTriad ==
  ASSUME kernel = "triad"
  PROVE  /\ HasArray("a", 2, A.num_entries)
         /\ HasArray("b", 2, A.num_entries)
         /\ HasArray("c", 2, A.num_entries)
         /\ ArrayNames = {"a", "b", "c"}
<1> DEFINE arrays == <<Values("a", A.num_entries),
                       Values("b", A.num_entries),
                       Values("c", A.num_entries)>>
<1>1. DOMAIN arrays = 1 .. 3
  OBVIOUS
<1>2. /\ arrays[1].name = "a" /\ arrays[1].size = 2 /\ arrays[1].n = A.num_entries
      /\ arrays[2].name = "b" /\ arrays[2].size = 2 /\ arrays[2].n = A.num_entries
      /\ arrays[3].name = "c" /\ arrays[3].size = 2 /\ arrays[3].n = A.num_entries
  BY DEF Indices, Values
<1>3. Arrays = arrays
  BY ArraysOfTriad
<1> HIDE DEF arrays
<1>4. 1 \in DOMAIN arrays /\ 2 \in DOMAIN arrays /\ 3 \in DOMAIN arrays
  BY <1>1
<1>5. /\ HasArray("a", 2, A.num_entries)
      /\ HasArray("b", 2, A.num_entries)
      /\ HasArray("c", 2, A.num_entries)
  BY <1>2, <1>3, <1>4 DEF HasArray
<1>6. \A k \in DOMAIN arrays : k = 1 \/ k = 2 \/ k = 3
  BY <1>1
<1>7. ArrayNames = {"a", "b", "c"}
  BY <1>2, <1>3, <1>4, <1>6 DEF ArrayNames
<1>8. QED
  BY <1>5, <1>7

LEMMA ArraysNamedCsr ==
  ASSUME kernel = "csr"
  PROVE  /\ HasArray("row_ptr", 1, m.rows + 1)
         /\ HasArray("column_index", 1, A.csr.row_ptr[m.rows])
         /\ HasArray("value", 2, A.csr.row_ptr[m.rows])
         /\ HasArray("x", 2, m.columns)
         /\ HasArray("y", 2, m.rows)
         /\ ArrayNames = {"row_ptr", "column_index", "value", "x", "y"}
<1> DEFINE arrays == <<Indices("row_ptr", m.rows + 1),
                       Indices("column_index", A.csr.row_ptr[m.rows]),
                       Values("value", A.csr.row_ptr[m.rows]),
                       Values("x", m.columns),
                       Values("y", m.rows)>>
<1>1. DOMAIN arrays = 1 .. 5
  OBVIOUS
<1>2. /\ arrays[1].name = "row_ptr" /\ arrays[1].size = 1 /\ arrays[1].n = m.rows + 1
      /\ arrays[2].name = "column_index" /\ arrays[2].size = 1 /\ arrays[2].n = A.csr.row_ptr[m.rows]
      /\ arrays[3].name = "value" /\ arrays[3].size = 2 /\ arrays[3].n = A.csr.row_ptr[m.rows]
      /\ arrays[4].name = "x" /\ arrays[4].size = 2 /\ arrays[4].n = m.columns
      /\ arrays[5].name = "y" /\ arrays[5].size = 2 /\ arrays[5].n = m.rows
  BY DEF Indices, Values
<1>3. Arrays = arrays
  BY ArraysOfCsr
<1> HIDE DEF arrays
<1>4. 1 \in DOMAIN arrays /\ 2 \in DOMAIN arrays /\ 3 \in DOMAIN arrays /\ 4 \in DOMAIN arrays
        /\ 5 \in DOMAIN arrays
  BY <1>1
<1>5. /\ HasArray("row_ptr", 1, m.rows + 1)
      /\ HasArray("column_index", 1, A.csr.row_ptr[m.rows])
      /\ HasArray("value", 2, A.csr.row_ptr[m.rows])
      /\ HasArray("x", 2, m.columns)
      /\ HasArray("y", 2, m.rows)
  BY <1>2, <1>3, <1>4 DEF HasArray
<1>6. \A k \in DOMAIN arrays : k = 1 \/ k = 2 \/ k = 3 \/ k = 4 \/ k = 5
  BY <1>1
<1>7. ArrayNames = {"row_ptr", "column_index", "value", "x", "y"}
  BY <1>2, <1>3, <1>4, <1>6 DEF ArrayNames
<1>8. QED
  BY <1>5, <1>7

LEMMA ArraysNamedEll ==
  ASSUME kernel = "ell"
  PROVE  /\ HasArray("ell_column_index", 1, EllSize)
         /\ HasArray("ell_value", 2, EllSize)
         /\ HasArray("x", 2, m.columns)
         /\ HasArray("y", 2, m.rows)
         /\ ArrayNames = {"ell_column_index", "ell_value", "x", "y"}
<1> DEFINE arrays == <<Indices("ell_column_index", EllSize),
                       Values("ell_value", EllSize),
                       Values("x", m.columns),
                       Values("y", m.rows)>>
<1>1. DOMAIN arrays = 1 .. 4
  OBVIOUS
<1>2. /\ arrays[1].name = "ell_column_index" /\ arrays[1].size = 1 /\ arrays[1].n = EllSize
      /\ arrays[2].name = "ell_value" /\ arrays[2].size = 2 /\ arrays[2].n = EllSize
      /\ arrays[3].name = "x" /\ arrays[3].size = 2 /\ arrays[3].n = m.columns
      /\ arrays[4].name = "y" /\ arrays[4].size = 2 /\ arrays[4].n = m.rows
  BY DEF Indices, Values
<1>3. Arrays = arrays
  BY ArraysOfEll
<1> HIDE DEF arrays
<1>4. 1 \in DOMAIN arrays /\ 2 \in DOMAIN arrays /\ 3 \in DOMAIN arrays /\ 4 \in DOMAIN arrays
  BY <1>1
<1>5. /\ HasArray("ell_column_index", 1, EllSize)
      /\ HasArray("ell_value", 2, EllSize)
      /\ HasArray("x", 2, m.columns)
      /\ HasArray("y", 2, m.rows)
  BY <1>2, <1>3, <1>4 DEF HasArray
<1>6. \A k \in DOMAIN arrays : k = 1 \/ k = 2 \/ k = 3 \/ k = 4
  BY <1>1
<1>7. ArrayNames = {"ell_column_index", "ell_value", "x", "y"}
  BY <1>2, <1>3, <1>4, <1>6 DEF ArrayNames
<1>8. QED
  BY <1>5, <1>7

LEMMA ArraysNamedCooAtomic ==
  ASSUME kernel = "coo_atomic"
  PROVE  /\ HasArray("coo_row_index", 1, A.coo.size)
         /\ HasArray("coo_column_index", 1, A.coo.size)
         /\ HasArray("coo_value", 2, A.coo.size)
         /\ HasArray("x", 2, m.columns)
         /\ HasArray("y", 2, m.rows)
         /\ ArrayNames = {"coo_row_index", "coo_column_index", "coo_value", "x", "y"}
<1> DEFINE arrays == <<Indices("coo_row_index", A.coo.size),
                       Indices("coo_column_index", A.coo.size),
                       Values("coo_value", A.coo.size),
                       Values("x", m.columns),
                       Values("y", m.rows)>>
<1>1. DOMAIN arrays = 1 .. 5
  OBVIOUS
<1>2. /\ arrays[1].name = "coo_row_index" /\ arrays[1].size = 1 /\ arrays[1].n = A.coo.size
      /\ arrays[2].name = "coo_column_index" /\ arrays[2].size = 1 /\ arrays[2].n = A.coo.size
      /\ arrays[3].name = "coo_value" /\ arrays[3].size = 2 /\ arrays[3].n = A.coo.size
      /\ arrays[4].name = "x" /\ arrays[4].size = 2 /\ arrays[4].n = m.columns
      /\ arrays[5].name = "y" /\ arrays[5].size = 2 /\ arrays[5].n = m.rows
  BY DEF Indices, Values
<1>3. Arrays = arrays
  BY ArraysOfCooAtomic
<1> HIDE DEF arrays
<1>4. 1 \in DOMAIN arrays /\ 2 \in DOMAIN arrays /\ 3 \in DOMAIN arrays /\ 4 \in DOMAIN arrays
        /\ 5 \in DOMAIN arrays
  BY <1>1
<1>5. /\ HasArray("coo_row_index", 1, A.coo.size)
      /\ HasArray("coo_column_index", 1, A.coo.size)
      /\ HasArray("coo_value", 2, A.coo.size)
      /\ HasArray("x", 2, m.columns)
      /\ HasArray("y", 2, m.rows)
  BY <1>2, <1>3, <1>4 DEF HasArray
<1>6. \A k \in DOMAIN arrays : k = 1 \/ k = 2 \/ k = 3 \/ k = 4 \/ k = 5
  BY <1>1
<1>7. ArrayNames = {"coo_row_index", "coo_column_index", "coo_value", "x", "y"}
  BY <1>2, <1>3, <1>4, <1>6 DEF ArrayNames
<1>8. QED
  BY <1>5, <1>7

LEMMA ArraysNamedCoo ==
  ASSUME kernel = "coo"
  PROVE  /\ HasArray("coo_row_index", 1, A.coo.size)
         /\ HasArray("coo_column_index", 1, A.coo.size)
         /\ HasArray("coo_value", 2, A.coo.size)
         /\ HasArray("x", 2, m.columns)
         /\ HasArray("y", 2, m.rows)
         /\ HasArray("workspace", 2, num_threads * m.rows)
         /\ ArrayNames = {"coo_row_index", "coo_column_index", "coo_value", "x", "y", "workspace"}
<1> DEFINE arrays == <<Indices("coo_row_index", A.coo.size),
                       Indices("coo_column_index", A.coo.size),
                       Values("coo_value", A.coo.size),
                       Values("x", m.columns),
                       Values("y", m.rows),
                       Values("workspace", num_threads * m.rows)>>
<1>1. DOMAIN arrays = 1 .. 6
  OBVIOUS
<1>2. /\ arrays[1].name = "coo_row_index" /\ arrays[1].size = 1 /\ arrays[1].n = A.coo.size
      /\ arrays[2].name = "coo_column_index" /\ arrays[2].size = 1 /\ arrays[2].n = A.coo.size
      /\ arrays[3].name = "coo_value" /\ arrays[3].size = 2 /\ arrays[3].n = A.coo.size
      /\ arrays[4].name = "x" /\ arrays[4].size = 2 /\ arrays[4].n = m.columns
      /\ arrays[5].name = "y" /\ arrays[5].size = 2 /\ arrays[5].n = m.rows
      /\ arrays[6].name = "workspace" /\ arrays[6].size = 2 /\ arrays[6].n = num_threads * m.rows
  BY DEF Indices, Values
<1>3. Arrays = arrays
  BY ArraysOfCoo
<1> HIDE DEF arrays
<1>4. 1 \in DOMAIN arrays /\ 2 \in DOMAIN arrays /\ 3 \in DOMAIN arrays /\ 4 \in DOMAIN arrays
        /\ 5 \in DOMAIN arrays /\ 6 \in DOMAIN arrays
  BY <1>1
<1>5. /\ HasArray("coo_row_index", 1, A.coo.size)
      /\ HasArray("coo_column_index", 1, A.coo.size)
      /\ HasArray("coo_value", 2, A.coo.size)
      /\ HasArray("x", 2, m.columns)
      /\ HasArray("y", 2, m.rows)
      /\ HasArray("workspace", 2, num_threads * m.rows)
  BY <1>2, <1>3, <1>4 DEF HasArray
<1>6. \A k \in DOMAIN arrays : k = 1 \/ k = 2 \/ k = 3 \/ k = 4 \/ k = 5 \/ k = 6
  BY <1>1
<1>7. ArrayNames = {"coo_row_index", "coo_column_index", "coo_value", "x", "y", "workspace"}
  BY <1>2, <1>3, <1>4, <1>6 DEF ArrayNames
<1>8. QED
  BY <1>5, <1>7

LEMMA ArraysNamedHybrid ==
  ASSUME kernel = "hybrid"
  PROVE  /\ HasArray("ell_column_index", 1, EllSize)
         /\ HasArray("ell_value", 2, EllSize)
         /\ HasArray("coo_row_index", 1, A.coo.size)
         /\ HasArray("coo_column_index", 1, A.coo.size)
         /\ HasArray("coo_value", 2, A.coo.size)
         /\ HasArray("x", 2, m.columns)
         /\ HasArray("y", 2, m.rows)
         /\ HasArray("workspace", 2, num_threads * m.rows)
         /\ ArrayNames = {"ell_column_index", "ell_value", "coo_row_index", "coo_column_index",
                          "coo_value", "x", "y", "workspace"}
<1> DEFINE arrays == <<Indices("ell_column_index", EllSize),
                       Values("ell_value", EllSize),
                       Indices("coo_row_index", A.coo.size),
                       Indices("coo_column_index", A.coo.size),
                       Values("coo_value", A.coo.size),
                       Values("x", m.columns),
                       Values("y", m.rows),
                       Values("workspace", num_threads * m.rows)>>
<1>1. DOMAIN arrays = 1 .. 8
  OBVIOUS
<1>2. /\ arrays[1].name = "ell_column_index" /\ arrays[1].size = 1 /\ arrays[1].n = EllSize
      /\ arrays[2].name = "ell_value" /\ arrays[2].size = 2 /\ arrays[2].n = EllSize
      /\ arrays[3].name = "coo_row_index" /\ arrays[3].size = 1 /\ arrays[3].n = A.coo.size
      /\ arrays[4].name = "coo_column_index" /\ arrays[4].size = 1 /\ arrays[4].n = A.coo.size
      /\ arrays[5].name = "coo_value" /\ arrays[5].size = 2 /\ arrays[5].n = A.coo.size
      /\ arrays[6].name = "x" /\ arrays[6].size = 2 /\ arrays[6].n = m.columns
      /\ arrays[7].name = "y" /\ arrays[7].size = 2 /\ arrays[7].n = m.rows
      /\ arrays[8].name = "workspace" /\ arrays[8].size = 2 /\ arrays[8].n = num_threads * m.rows
  BY DEF Indices, Values
<1>3. Arrays = arrays
  BY ArraysOfHybrid
<1> HIDE DEF arrays
<1>4. 1 \in DOMAIN arrays /\ 2 \in DOMAIN arrays /\ 3 \in DOMAIN arrays /\ 4 \in DOMAIN arrays
        /\ 5 \in DOMAIN arrays /\ 6 \in DOMAIN arrays /\ 7 \in DOMAIN arrays
        /\ 8 \in DOMAIN arrays
  BY <1>1
<1>5. /\ HasArray("ell_column_index", 1, EllSize)
      /\ HasArray("ell_value", 2, EllSize)
      /\ HasArray("coo_row_index", 1, A.coo.size)
      /\ HasArray("coo_column_index", 1, A.coo.size)
      /\ HasArray("coo_value", 2, A.coo.size)
      /\ HasArray("x", 2, m.columns)
      /\ HasArray("y", 2, m.rows)
      /\ HasArray("workspace", 2, num_threads * m.rows)
  BY <1>2, <1>3, <1>4 DEF HasArray
<1>6. \A k \in DOMAIN arrays : k = 1 \/ k = 2 \/ k = 3 \/ k = 4 \/ k = 5 \/ k = 6 \/ k = 7 \/ k = 8
  BY <1>1
<1>7. ArrayNames = {"ell_column_index", "ell_value", "coo_row_index", "coo_column_index",
        "coo_value", "x", "y", "workspace"}
  BY <1>2, <1>3, <1>4, <1>6 DEF ArrayNames
<1>8. QED
  BY <1>5, <1>7

-----------------------------------------------------------------------------
(* The strings of the kernels: what is in them, and how often *)

CsrNonzero(k, t) == <<Ref("column_index", k, t), Ref("value", k, t), OfX(A.csr.column_index[k])>>

CsrRefs(t) ==
  LET ptr == A.csr.row_ptr IN
  UNION {{Ref("row_ptr", i + 1, t), Ref("y", i, t)}
           \cup UNION {{Ref("column_index", k, t), Ref("value", k, t), OfX(A.csr.column_index[k])}
                       : k \in ptr[i] .. ptr[i + 1] - 1}
         : i \in ThreadRange(m.rows, num_threads, t)}

\* The references of a step to the entry k, which is at column j of x.
LEMMA TripleIs ==
  ASSUME OptionsInv, NEW t \in Threads, NEW k \in Int, NEW j \in Int,
         NEW first \in AllNames, NEW second \in AllNames
  PROVE  /\ <<Ref(first, k, t), Ref(second, k, t), OfX(j)>> \in Seq(References)
         /\ ToSet(<<Ref(first, k, t), Ref(second, k, t), OfX(j)>>) =
              {Ref(first, k, t), Ref(second, k, t), OfX(j)}
<1>1. t \in Int
  BY ThreadsAreInt
<1>2. Ref(first, k, t) \in References /\ Ref(second, k, t) \in References
  BY <1>1, RefIs
<1>3. OfX(j) \in References
  BY OfXIs
<1>4. QED
  BY <1>2, <1>3, OccurrencesOfThree

\* A reference to an element of an array that the thread's share is of.
LEMMA SingleIs ==
  ASSUME OptionsInv, NEW t \in Threads, NEW k \in Int, NEW name \in AllNames
  PROVE  /\ Ref(name, k, t) \in References /\ <<Ref(name, k, t)>> \in Seq(References)
         /\ ToSet(<<Ref(name, k, t)>>) = {Ref(name, k, t)}
<1>1. t \in Int
  BY ThreadsAreInt
<1>2. Ref(name, k, t) \in References
  BY <1>1, RefIs
<1>3. QED
  BY <1>2, OccurrencesOfOne

\* What is in the string of a CSR kernel, and how often.
LEMMA CsrStringIs ==
  ASSUME OptionsInv, kernel = "csr", NEW t \in Threads
  PROVE  LET ptr == A.csr.row_ptr
             a == ThreadStart(m.rows, num_threads, t)
             b == ThreadStart(m.rows, num_threads, t + 1)
             refs == CsrString(t).refs IN
         /\ String(t) = CsrString(t) /\ refs \in Seq(References)
         /\ CsrString(t).size = 3 * (ptr[b] - ptr[a]) + 2 * (b - a) + 1
         /\ ToSet(refs) = {Ref("row_ptr", a, t)} \cup CsrRefs(t)
         /\ \A Q, H : \A e \in Int :
              (/\ \A k \in 0 .. Len(m.entries) : H[k] \in Int
               /\ \A k \in 0 .. Len(m.entries) - 1 : Occurrences(CsrNonzero(k, t), Q) = H[k + 1] - H[k]
               /\ \A i \in a .. b - 1 :
                    OneIf(Ref("row_ptr", i + 1, t) \in Q) + OneIf(Ref("y", i, t) \in Q) = e)
              => Occurrences(refs, Q) =
                   OneIf(Ref("row_ptr", a, t) \in Q) + ((H[ptr[b]] - H[ptr[a]]) + (e * (b - a)))
<1> DEFINE ptr == A.csr.row_ptr
           n == Len(m.entries)
           a == ThreadStart(m.rows, num_threads, t)
           b == ThreadStart(m.rows, num_threads, t + 1)
           rows == ThreadRange(m.rows, num_threads, t)
           Nonzero(k) == <<Ref("column_index", k, t), Ref("value", k, t), OfX(A.csr.column_index[k])>>
           Row(i) == <<Ref("row_ptr", i + 1, t)>>
                       \o Refs([k \in A.csr.row_ptr[i] .. A.csr.row_ptr[i + 1] - 1 |-> Nonzero(k)])
                       \o <<Ref("y", i, t)>>
           step == [k \in 0 .. n - 1 |-> CsrNonzero(k, t)]
           before == [i \in a .. b - 1 |-> <<Ref("row_ptr", i + 1, t)>>]
           after == [i \in a .. b - 1 |-> <<Ref("y", i, t)>>]
           row == [i \in a .. b - 1 |->
                     before[i] \o Refs([k \in ptr[i] .. ptr[i + 1] - 1 |-> step[k]]) \o after[i]]
           first == <<Ref("row_ptr", a, t)>>
           rest == Refs(row)
<1>1. /\ n \in Nat /\ m.rows \in Nat /\ m.columns \in Nat /\ Rows(m) = 0 .. m.rows - 1
      /\ \A r \in 0 .. m.rows : ptr[r] \in 0 .. n
      /\ \A r \in Rows(m) : ptr[r] <= ptr[r + 1]
      /\ \A k \in 0 .. n - 1 : A.csr.column_index[k] \in Columns
  BY CsrFacts, OptionsAre
<1>2. /\ a \in 0 .. m.rows /\ b \in 0 .. m.rows /\ a <= b /\ rows = a .. b - 1
      /\ Cardinality(rows) = b - a
  BY <1>1, ShareIs
<1>3. /\ String(t) = CsrString(t)
      /\ CsrString(t).size = 3 * (ptr[b] - ptr[a]) + 2 * Cardinality(rows) + 1
      /\ CsrString(t).refs = first \o Refs([i \in rows |-> Row(i)])
  BY DEF String, CsrString
<1> HIDE DEF a, b, rows
<1>4. \A i \in a .. b - 1 : i \in Rows(m) /\ i \in 0 .. m.rows /\ i + 1 \in 0 .. m.rows
  BY <1>1, <1>2
<1>5. \A i \in a .. b : ptr[i] \in 0 .. n
  BY <1>1, <1>2
<1>6. \A i \in a .. b - 1 : ptr[i] <= ptr[i + 1]
  BY <1>1, <1>4
<1>7. \A i \in a .. b - 1 : ptr[i] .. ptr[i + 1] - 1 \subseteq 0 .. n - 1
  <2>1. ASSUME NEW p \in 0 .. n, NEW q \in 0 .. n
        PROVE  p .. q - 1 \subseteq 0 .. n - 1
    BY <1>1
  <2> HIDE DEF n, ptr
  <2>2. \A i \in a .. b - 1 : ptr[i] \in 0 .. n /\ ptr[i + 1] \in 0 .. n
    <3>1. \A i \in a .. b - 1 : i \in 0 .. m.rows /\ i + 1 \in 0 .. m.rows
      BY <1>4
    <3>2. QED
      BY <1>1, <3>1
  <2>3. QED
    BY <2>1, <2>2
<1>8. [i \in rows |-> Row(i)] = row
  <2>1. \A i \in a .. b - 1 : [k \in ptr[i] .. ptr[i + 1] - 1 |-> Nonzero(k)]
                                = [k \in ptr[i] .. ptr[i + 1] - 1 |-> step[k]]
    <3>1. \A k \in 0 .. n - 1 : step[k] = Nonzero(k)
      BY DEF CsrNonzero
    <3> HIDE DEF step, Nonzero, ptr, n
    <3>2. QED
      BY <1>7, <3>1
  <2>2. \A i \in a .. b - 1 : before[i] = <<Ref("row_ptr", i + 1, t)>> /\ after[i] = <<Ref("y", i, t)>>
    OBVIOUS
  <2> HIDE DEF step, before, after, Nonzero
  <2>3. \A i \in a .. b - 1 :
          Row(i) = before[i] \o Refs([k \in ptr[i] .. ptr[i + 1] - 1 |-> step[k]]) \o after[i]
    BY <2>1, <2>2
  <2> HIDE DEF Row
  <2>4. QED
    BY <1>2, <2>3
<1>9. \A k \in 0 .. n - 1 : /\ CsrNonzero(k, t) \in Seq(References)
                            /\ ToSet(CsrNonzero(k, t)) = {Ref("column_index", k, t), Ref("value",
                                 k, t), OfX(A.csr.column_index[k])}
  <2>1. \A k \in 0 .. n - 1 : A.csr.column_index[k] \in Int
    BY <1>1 DEF Columns
  <2>2. "column_index" \in AllNames /\ "value" \in AllNames
    BY DEF AllNames
  <2>3. QED
    BY <2>1, <2>2, TripleIs DEF CsrNonzero
<1>10. \A i \in a .. b - 1 : /\ <<Ref("row_ptr", i + 1, t)>> \in Seq(References)
                             /\ ToSet(<<Ref("row_ptr", i + 1, t)>>) = {Ref("row_ptr", i + 1, t)}
                             /\ <<Ref("y", i, t)>> \in Seq(References)
                             /\ ToSet(<<Ref("y", i, t)>>) = {Ref("y", i, t)}
  <2>1. \A i \in a .. b - 1 : i \in Int /\ i + 1 \in Int
    BY <1>1, <1>4
  <2>2. "row_ptr" \in AllNames /\ "y" \in AllNames
    BY DEF AllNames
  <2>3. QED
    BY <2>1, <2>2, SingleIs
<1>11. /\ first \in Seq(References) /\ ToSet(first) = {Ref("row_ptr", a, t)}
       /\ \A Q : Occurrences(first, Q) = OneIf(Ref("row_ptr", a, t) \in Q)
  <2>1. "row_ptr" \in AllNames /\ a \in Int
    BY <1>1, <1>2 DEF AllNames
  <2>2. QED
    BY <2>1, SingleIs, OccurrencesOfOne
<1>12. /\ step \in [0 .. n - 1 -> Seq(References)] /\ before \in [a .. b - 1 -> Seq(References)]
       /\ after \in [a .. b - 1 -> Seq(References)]
  BY <1>9, <1>10
<1>13. /\ \A k \in 0 .. n - 1 : step[k] = CsrNonzero(k, t)
       /\ \A i \in a .. b - 1 : before[i] = <<Ref("row_ptr", i + 1, t)>> /\ after[i] = <<Ref("y", i, t)>>
  OBVIOUS
<1>14. row = [i \in a .. b - 1 |->
                before[i] \o Refs([k \in ptr[i] .. ptr[i + 1] - 1 |-> step[k]]) \o after[i]]
  OBVIOUS
<1> HIDE DEF row, step, before, after, Row, Nonzero, ptr, n, first
<1>15. IsRows(rest, a, b, n, ptr, before, step, after, References)
  <2>1. a \in Int /\ b \in Int /\ a <= b
    BY <1>1, <1>2
  <2>2. QED
    BY <1>1, <1>5, <1>6, <1>12, <1>14, <2>1, RowsOfRefs
<1> HIDE DEF rest
<1>16. CsrString(t).refs = first \o rest
  BY <1>3, <1>8 DEF rest
<1>17. rest \in Seq(References)
  BY <1>15 DEF IsRows
<1>18. ToSet(rest) = CsrRefs(t)
  <2>1. ToSet(rest) = UNION {(ToSet(before[i]) \cup ToSet(after[i]))
                               \cup UNION {ToSet(step[k]) : k \in ptr[i] .. ptr[i + 1] - 1}
                             : i \in a .. b - 1}
    BY <1>15 DEF IsRows
  <2>2. \A i \in a .. b - 1 :
          /\ ToSet(before[i]) \cup ToSet(after[i]) = {Ref("row_ptr", i + 1, t), Ref("y", i, t)}
          /\ UNION {ToSet(step[k]) : k \in ptr[i] .. ptr[i + 1] - 1} =
               UNION {{Ref("column_index", k, t), Ref("value", k, t), OfX(A.csr.column_index[k])}
                       : k \in ptr[i] .. ptr[i + 1] - 1}
    <3>1. ASSUME NEW i \in a .. b - 1
          PROVE  ToSet(before[i]) \cup ToSet(after[i]) = {Ref("row_ptr", i + 1, t), Ref("y", i, t)}
      BY <1>10, <1>13
    <3>2. ASSUME NEW i \in a .. b - 1
          PROVE  UNION {ToSet(step[k]) : k \in ptr[i] .. ptr[i + 1] - 1} =
               UNION {{Ref("column_index", k, t), Ref("value", k, t), OfX(A.csr.column_index[k])}
                       : k \in ptr[i] .. ptr[i + 1] - 1}
      <4>1. \A k \in ptr[i] .. ptr[i + 1] - 1 : ToSet(step[k]) =
              {Ref("column_index", k, t), Ref("value", k, t), OfX(A.csr.column_index[k])}
        BY <1>7, <1>9, <1>13
      <4>2. QED
        BY <4>1
    <3>3. QED
      BY <3>1, <3>2
  <2>3. CsrRefs(t) = UNION {{Ref("row_ptr", i + 1, t), Ref("y", i, t)}
           \cup UNION {{Ref("column_index", k, t), Ref("value", k, t), OfX(A.csr.column_index[k])}
                       : k \in ptr[i] .. ptr[i + 1] - 1}
         : i \in a .. b - 1}
    BY <1>2 DEF CsrRefs, ptr, rows
  <2>4. QED
    BY <2>1, <2>2, <2>3
<1>19. /\ CsrString(t).refs \in Seq(References)
       /\ ToSet(CsrString(t).refs) = {Ref("row_ptr", a, t)} \cup CsrRefs(t)
       /\ \A Q : Occurrences(CsrString(t).refs, Q) = OneIf(Ref("row_ptr", a, t) \in Q) + Occurrences(rest, Q)
  <2>1. /\ first \o rest \in Seq(References) /\ ToSet(first \o rest) = ToSet(first) \cup ToSet(rest)
        /\ \A Q : Occurrences(first \o rest, Q) = Occurrences(first, Q) + Occurrences(rest, Q)
    BY <1>11, <1>17, ConcatIs
  <2>2. QED
    BY <1>11, <1>16, <1>18, <2>1
<1>20. ASSUME NEW Q, NEW H, NEW e \in Int, \A k \in 0 .. n : H[k] \in Int,
              \A k \in 0 .. n - 1 : Occurrences(CsrNonzero(k, t), Q) = H[k + 1] - H[k],
              \A i \in a .. b - 1 :
                    OneIf(Ref("row_ptr", i + 1, t) \in Q) + OneIf(Ref("y", i, t) \in Q) = e
       PROVE  Occurrences(rest, Q) = (H[ptr[b]] - H[ptr[a]]) + (e * (b - a))
  <2>1. \A k \in 0 .. n - 1 : Occurrences(step[k], Q) = H[k + 1] - H[k]
    BY <1>13, <1>20
  <2>2. \A i \in a .. b - 1 : Occurrences(before[i], Q) + Occurrences(after[i], Q) = e
    <3>1. \A w : Occurrences(<<w>>, Q) = OneIf(w \in Q)
      BY OccurrencesOfOne
    <3>2. ASSUME NEW i \in a .. b - 1
          PROVE  Occurrences(before[i], Q) + Occurrences(after[i], Q) = e
      <4>1. before[i] = <<Ref("row_ptr", i + 1, t)>> /\ after[i] = <<Ref("y", i, t)>>
        BY <1>13
      <4>2. Occurrences(before[i], Q) = OneIf(Ref("row_ptr", i + 1, t) \in Q)
        BY <3>1, <4>1
      <4>3. Occurrences(after[i], Q) = OneIf(Ref("y", i, t) \in Q)
        BY <3>1, <4>1
      <4>4. QED
        BY <1>20, <4>2, <4>3
    <3>3. QED
      BY <3>2
  <2>3. QED
    BY <1>15, <1>20, <2>1, <2>2 DEF IsRows
<1>21. CsrString(t).size = 3 * (ptr[b] - ptr[a]) + 2 * (b - a) + 1
  BY <1>2, <1>3
<1>22. QED
  BY <1>3, <1>19, <1>20, <1>21 DEF a, b, ptr, n

\* The empty sequence has nothing of anything,
LEMMA NothingIs ==
  ASSUME NEW S
  PROVE  <<>> \in Seq(S) /\ ToSet(<<>>) = {} /\ \A Q : Occurrences(<<>>, Q) = 0
<1>1. DOMAIN <<>> = {} /\ <<>> \in Seq(S)
  OBVIOUS
<1>2. ToSet(<<>>) = {}
  BY <1>1 DEF ToSet
<1>3. ASSUME NEW Q
      PROVE  Occurrences(<<>>, Q) = 0
  <2>1. {n \in DOMAIN <<>> : <<>>[n] \in Q} = {}
    BY <1>1
  <2>2. QED
    BY <2>1, FS_EmptySet DEF Occurrences
<1>4. QED
  BY <1>1, <1>2, <1>3

\* and nothing comes before.
LEMMA NothingBefore ==
  ASSUME NEW S, NEW s \in Seq(S)
  PROVE  <<>> \o s = s
<1>1. Len(s) \in Nat
  OBVIOUS
<1>2. <<>> \o s = s
  <2> DEFINE u == <<>>
  <2>1. u \in Seq(S) /\ Len(u) = 0
    OBVIOUS
  <2> HIDE DEF u
  <2>2. Len(s) = Len(u) + Len(s) /\ \A i \in 1 .. Len(u) : s[i] = u[i]
    BY <1>1, <2>1
  <2>3. \A i \in 1 .. Len(s) : s[Len(u) + i] = s[i]
    BY <1>1, <2>1
  <2>4. u \o s = s
    BY <2>1, <2>2, <2>3, ConcatIsThat
  <2>5. QED
    BY <2>4 DEF u
<1>3. QED
  BY <1>2

\* Where the rows of a matrix with rows of equal length start.
LEMMA RowsOfEqualLength ==
  ASSUME NEW rows \in Nat, NEW length \in Nat
  PROVE  /\ rows * length \in Nat
         /\ \A i \in 0 .. rows : i * length \in 0 .. rows * length
         /\ \A i \in 0 .. rows - 1 : i * length <= (i + 1) * length
<1>1. rows * length \in Nat
  OBVIOUS
<1>2. ASSUME NEW i \in 0 .. rows
      PROVE  i * length \in 0 .. rows * length
  <2> DEFINE left == rows - i
  <2>1. left \in Nat /\ rows = i + left /\ i \in Nat
    OBVIOUS
  <2> HIDE DEF left
  <2>2. i * length \in Nat /\ left * length \in Nat /\ (i + left) * length = i * length + left * length
    BY <2>1
  <2> DEFINE x == i * length
             y == left * length
             z == (i + left) * length
  <2>3. rows * length = z
    BY <2>1
  <2>4. x \in Nat /\ y \in Nat /\ z = x + y
    BY <2>2
  <2> HIDE DEF x, y, z
  <2>5. x \in 0 .. z
    BY <2>4
  <2>6. QED
    BY <2>3, <2>5 DEF x
<1>3. ASSUME NEW i \in 0 .. rows - 1
      PROVE  i * length <= (i + 1) * length
  <2>1. i \in Nat /\ i * length \in Nat /\ (i + 1) * length = i * length + length
    OBVIOUS
  <2> DEFINE x == i * length
             z == (i + 1) * length
  <2>2. x \in Nat /\ z = x + length
    BY <2>1
  <2> HIDE DEF x, z
  <2>3. x <= z
    BY <2>2
  <2>4. QED
    BY <2>3 DEF x, z
<1>4. QED
  BY <1>1, <1>2, <1>3

EllNonzero(k, t) ==
  <<Ref("ell_column_index", k, t), Ref("ell_value", k, t), OfX(A.ell.column_index[k])>>

EllRefs(t) ==
  LET length == A.ell.row_length IN
  UNION {{Ref("y", i, t)}
           \cup UNION {{Ref("ell_column_index", k, t), Ref("ell_value", k, t),
                        OfX(A.ell.column_index[k])}
                       : k \in i * length .. (i + 1) * length - 1}
         : i \in ThreadRange(m.rows, num_threads, t)}

\* What is in the string of the rows of an ELL matrix, and how often.
LEMMA EllStringIs ==
  ASSUME OptionsInv, HasEll, NEW t \in Threads
  PROVE  LET length == A.ell.row_length
             a == ThreadStart(m.rows, num_threads, t)
             b == ThreadStart(m.rows, num_threads, t + 1)
             refs == EllString(t).refs IN
         /\ refs \in Seq(References) /\ ToSet(refs) = EllRefs(t)
         /\ EllString(t).size = 3 * (b - a) * length + (b - a)
         /\ \A Q, H : \A e \in Int :
              (/\ \A k \in 0 .. EllSize : H[k] \in Int
               /\ \A k \in 0 .. EllSize - 1 : Occurrences(EllNonzero(k, t), Q) = H[k + 1] - H[k]
               /\ \A i \in a .. b - 1 : OneIf(Ref("y", i, t) \in Q) = e)
              => Occurrences(refs, Q) = (H[b * length] - H[a * length]) + (e * (b - a))
<1> DEFINE length == A.ell.row_length
           N == EllSize
           a == ThreadStart(m.rows, num_threads, t)
           b == ThreadStart(m.rows, num_threads, t + 1)
           rows == ThreadRange(m.rows, num_threads, t)
           ptr == [i \in 0 .. m.rows |-> i * length]
           Nonzero(k) == <<Ref("ell_column_index", k, t), Ref("ell_value", k, t),
                           OfX(A.ell.column_index[k])>>
           Row(i) == Refs([k \in i * length .. (i + 1) * length - 1 |-> Nonzero(k)])
                       \o <<Ref("y", i, t)>>
           step == [k \in 0 .. N - 1 |-> EllNonzero(k, t)]
           before == [i \in a .. b - 1 |-> <<>>]
           after == [i \in a .. b - 1 |-> <<Ref("y", i, t)>>]
           row == [i \in a .. b - 1 |->
                     before[i] \o Refs([k \in ptr[i] .. ptr[i + 1] - 1 |-> step[k]]) \o after[i]]
           refs == Refs(row)
<1>1. /\ N \in Nat /\ N = m.rows * length /\ length \in Nat /\ m.rows \in Nat /\ m.columns \in Nat
      /\ \A k \in 0 .. N - 1 : A.ell.column_index[k] \in Columns \cup {UndefinedColumn}
  BY EllFacts, OptionsAre
<1>2. /\ a \in 0 .. m.rows /\ b \in 0 .. m.rows /\ a <= b /\ rows = a .. b - 1
      /\ Cardinality(rows) = b - a
  BY <1>1, ShareIs
<1>3. /\ EllString(t).size = 3 * Cardinality(rows) * length + Cardinality(rows)
      /\ EllString(t).refs = Refs([i \in rows |-> Row(i)])
  BY DEF EllString
<1> HIDE DEF a, b, rows, N
<1>4. \A i \in a .. b - 1 : i \in 0 .. m.rows /\ i + 1 \in 0 .. m.rows /\ i \in 0 .. m.rows - 1 /\ i \in Int
  BY <1>1, <1>2
<1>5. /\ \A i \in a .. b : ptr[i] \in 0 .. N
      /\ \A i \in 0 .. m.rows : i * length \in 0 .. N
  <2> DEFINE R == m.rows
  <2> HIDE DEF R
  <2>1. R \in Nat /\ length \in Nat /\ N = R * length
    BY <1>1 DEF R
  <2>2. \A i \in 0 .. R : i * length \in 0 .. N
    BY <2>1, RowsOfEqualLength
  <2>3. QED
    BY <1>1, <1>2, <2>2 DEF R
<1>6. \A i \in a .. b - 1 : ptr[i] <= ptr[i + 1]
  <2> DEFINE R == m.rows
             len == A.ell.row_length
  <2> HIDE DEF R, len
  <2>1. R \in Nat /\ len \in Nat
    BY <1>1 DEF R, len
  <2>2. \A i \in 0 .. R - 1 : i * len <= (i + 1) * len
    BY <2>1, RowsOfEqualLength
  <2>3. QED
    BY <1>4, <2>2 DEF R, len
<1>7. \A i \in a .. b - 1 : ptr[i] = i * length /\ ptr[i + 1] = (i + 1) * length
  BY <1>4
<1>8. ptr[a] = a * length /\ ptr[b] = b * length
  BY <1>2
<1> HIDE DEF ptr, length
<1>9. \A i \in a .. b - 1 : ptr[i] .. ptr[i + 1] - 1 \subseteq 0 .. N - 1
  <2>1. ASSUME NEW p \in 0 .. N, NEW q \in 0 .. N
        PROVE  p .. q - 1 \subseteq 0 .. N - 1
    BY <1>1
  <2>2. \A i \in a .. b - 1 : ptr[i] \in 0 .. N /\ ptr[i + 1] \in 0 .. N
    <3>1. \A i \in a .. b - 1 : i \in a .. b /\ i + 1 \in a .. b
      BY <1>1, <1>2
    <3>2. QED
      BY <1>5, <3>1
  <2>3. QED
    BY <2>1, <2>2
<1>10. \A k \in 0 .. N - 1 : /\ EllNonzero(k, t) \in Seq(References)
                            /\ ToSet(EllNonzero(k, t)) = {Ref("ell_column_index", k, t),
                                 Ref("ell_value", k, t), OfX(A.ell.column_index[k])}
  <2>1. \A k \in 0 .. N - 1 : A.ell.column_index[k] \in Int
    BY <1>1 DEF Columns, UndefinedColumn
  <2>2. "ell_column_index" \in AllNames /\ "ell_value" \in AllNames
    BY DEF AllNames
  <2>3. QED
    BY <2>1, <2>2, TripleIs DEF EllNonzero
<1>11. \A i \in a .. b - 1 : /\ <<Ref("y", i, t)>> \in Seq(References)
                             /\ ToSet(<<Ref("y", i, t)>>) = {Ref("y", i, t)}
  <2>1. \A i \in a .. b - 1 : i \in Int
    BY <1>4
  <2>2. "y" \in AllNames
    BY DEF AllNames
  <2>3. QED
    BY <2>1, <2>2, SingleIs
<1>12. <<>> \in Seq(References) /\ ToSet(<<>>) = {} /\ \A Q : Occurrences(<<>>, Q) = 0
  BY NothingIs
<1>13. [i \in rows |-> Row(i)] = row
  <2>1. \A i \in a .. b - 1 : [k \in i * length .. (i + 1) * length - 1 |-> Nonzero(k)]
                                = [k \in ptr[i] .. ptr[i + 1] - 1 |-> step[k]]
    <3>1. \A k \in 0 .. N - 1 : step[k] = Nonzero(k)
      BY DEF EllNonzero
    <3> HIDE DEF step, Nonzero
    <3>2. QED
      BY <1>9, <1>7, <3>1
  <2>2. \A i \in a .. b - 1 : before[i] = <<>> /\ after[i] = <<Ref("y", i, t)>>
    OBVIOUS
  <2>3. ASSUME NEW i \in a .. b - 1
        PROVE  Refs([k \in ptr[i] .. ptr[i + 1] - 1 |-> step[k]]) \in Seq(References)
    <3> DEFINE p == ptr[i]
               q == ptr[i + 1]
               it == [k \in p .. q - 1 |-> step[k]]
    <3>1. i \in a .. b /\ i + 1 \in a .. b
      BY <1>1, <1>2
    <3>2. p .. q - 1 \subseteq 0 .. N - 1 /\ p \in 0 .. N /\ q \in 0 .. N /\ p <= q
      BY <1>5, <1>6, <1>9, <3>1
    <3>3. \A k \in 0 .. N - 1 : step[k] \in Seq(References)
      BY <1>10
    <3> HIDE DEF p, q, step
    <3>4. it \in [p .. q - 1 -> Seq(References)] /\ p \in Int /\ q \in Int
      BY <1>1, <3>2, <3>3
    <3> HIDE DEF it
    <3>5. IsLoop(Refs(it), it, p, q, References)
      BY <3>2, <3>4, RefsAre
    <3>6. QED
      BY <3>5 DEF IsLoop, it, p, q
  <2> HIDE DEF step, before, after, Nonzero
  <2>4. ASSUME NEW i \in a .. b - 1
        PROVE  Row(i) = before[i] \o Refs([k \in ptr[i] .. ptr[i + 1] - 1 |-> step[k]]) \o after[i]
    <3> DEFINE loop == Refs([k \in ptr[i] .. ptr[i + 1] - 1 |-> step[k]])
    <3>1. Row(i) = loop \o <<Ref("y", i, t)>>
      BY <2>1
    <3>2. loop \in Seq(References)
      BY <2>3
    <3> HIDE DEF loop
    <3>3. before[i] \o loop = loop
      BY <2>2, <3>2, NothingBefore
    <3>4. QED
      BY <2>2, <3>1, <3>3 DEF loop
  <2> HIDE DEF Row
  <2>5. QED
    BY <1>2, <2>4
<1>14. /\ step \in [0 .. N - 1 -> Seq(References)] /\ before \in [a .. b - 1 -> Seq(References)]
       /\ after \in [a .. b - 1 -> Seq(References)]
  BY <1>10, <1>11, <1>12
<1>15. /\ \A k \in 0 .. N - 1 : step[k] = EllNonzero(k, t)
       /\ \A i \in a .. b - 1 : before[i] = <<>> /\ after[i] = <<Ref("y", i, t)>>
  OBVIOUS
<1>16. row = [i \in a .. b - 1 |->
                before[i] \o Refs([k \in ptr[i] .. ptr[i + 1] - 1 |-> step[k]]) \o after[i]]
  OBVIOUS
<1> HIDE DEF row, step, before, after, Row, Nonzero
<1>17. IsRows(refs, a, b, N, ptr, before, step, after, References)
  <2>1. a \in Int /\ b \in Int /\ a <= b
    BY <1>1, <1>2
  <2>2. QED
    BY <1>1, <1>5, <1>6, <1>14, <1>16, <2>1, RowsOfRefs
<1> HIDE DEF refs
<1>18. EllString(t).refs = refs
  BY <1>3, <1>13 DEF refs
<1>19. refs \in Seq(References)
  BY <1>17 DEF IsRows
<1>20. ToSet(refs) = EllRefs(t)
  <2>1. ToSet(refs) = UNION {(ToSet(before[i]) \cup ToSet(after[i]))
                               \cup UNION {ToSet(step[k]) : k \in ptr[i] .. ptr[i + 1] - 1}
                             : i \in a .. b - 1}
    BY <1>17 DEF IsRows
  <2>2. ASSUME NEW i \in a .. b - 1
        PROVE  /\ ToSet(before[i]) \cup ToSet(after[i]) = {Ref("y", i, t)}
               /\ UNION {ToSet(step[k]) : k \in ptr[i] .. ptr[i + 1] - 1} =
                    UNION {{Ref("ell_column_index", k, t), Ref("ell_value", k, t), OfX(A.ell.column_index[k])}
                       : k \in i * length .. (i + 1) * length - 1}
    <3>1. ToSet(before[i]) \cup ToSet(after[i]) = {Ref("y", i, t)}
      BY <1>11, <1>12, <1>15
    <3>2. \A k \in ptr[i] .. ptr[i + 1] - 1 : ToSet(step[k]) =
            {Ref("ell_column_index", k, t), Ref("ell_value", k, t), OfX(A.ell.column_index[k])}
      BY <1>9, <1>10, <1>15
    <3>3. UNION {ToSet(step[k]) : k \in ptr[i] .. ptr[i + 1] - 1} =
            UNION {{Ref("ell_column_index", k, t), Ref("ell_value", k, t), OfX(A.ell.column_index[k])}
                       : k \in ptr[i] .. ptr[i + 1] - 1}
      BY <3>2
    <3>4. QED
      BY <1>7, <3>1, <3>3
  <2>3. EllRefs(t) = UNION {{Ref("y", i, t)}
           \cup UNION {{Ref("ell_column_index", k, t), Ref("ell_value", k, t), OfX(A.ell.column_index[k])}
                       : k \in i * length .. (i + 1) * length - 1}
         : i \in a .. b - 1}
    BY <1>2 DEF EllRefs, length, rows
  <2>4. QED
    BY <2>1, <2>2, <2>3
<1>21. ASSUME NEW Q, NEW H, NEW e \in Int, \A k \in 0 .. N : H[k] \in Int,
              \A k \in 0 .. N - 1 : Occurrences(EllNonzero(k, t), Q) = H[k + 1] - H[k],
              \A i \in a .. b - 1 : OneIf(Ref("y", i, t) \in Q) = e
       PROVE  Occurrences(refs, Q) = (H[b * length] - H[a * length]) + (e * (b - a))
  <2>1. \A k \in 0 .. N - 1 : Occurrences(step[k], Q) = H[k + 1] - H[k]
    BY <1>15, <1>21
  <2>2. ASSUME NEW i \in a .. b - 1
        PROVE  Occurrences(before[i], Q) + Occurrences(after[i], Q) = e
    <3>1. \A w : Occurrences(<<w>>, Q) = OneIf(w \in Q)
      BY OccurrencesOfOne
    <3>2. before[i] = <<>> /\ after[i] = <<Ref("y", i, t)>>
      BY <1>15
    <3>3. Occurrences(before[i], Q) = 0
      BY <1>12, <3>2
    <3>4. Occurrences(after[i], Q) = OneIf(Ref("y", i, t) \in Q)
      BY <3>1, <3>2
    <3>5. OneIf(Ref("y", i, t) \in Q) = e
      BY <1>21
    <3>6. QED
      BY <3>3, <3>4, <3>5
  <2>3. Occurrences(refs, Q) = (H[ptr[b]] - H[ptr[a]]) + (e * (b - a))
    BY <1>17, <1>21, <2>1, <2>2 DEF IsRows
  <2>4. QED
    BY <1>8, <2>3
<1>22. EllString(t).size = 3 * (b - a) * length + (b - a)
  BY <1>2, <1>3
<1>23. QED
  BY <1>18, <1>19, <1>20, <1>21, <1>22 DEF a, b, length, N

CooEntryRefs(k, t, target) ==
  {Ref("coo_row_index", k, t), Ref("coo_column_index", k, t), Ref("coo_value", k, t),
   OfX(A.coo.column_index[k]), target}

\* The references to one entry and its target.
LEMMA CooEntryIs ==
  ASSUME OptionsInv, HasCoo, NEW t \in Threads, NEW k \in 0 .. A.coo.size - 1,
         NEW target \in References
  PROVE  /\ CooEntry(k, t, target) \in Seq(References)
         /\ ToSet(CooEntry(k, t, target)) = CooEntryRefs(k, t, target)
<1>1. t \in Int
  BY ThreadsAreInt
<1>2. "coo_row_index" \in AllNames /\ "coo_column_index" \in AllNames /\ "coo_value" \in AllNames
  BY DEF AllNames
<1>3. k \in Int /\ A.coo.column_index[k] \in Int
  BY CooFacts DEF Columns
<1>4. Ref("coo_row_index", k, t) \in References /\ Ref("coo_column_index", k, t) \in References
  BY <1>1, <1>2, <1>3, RefIs
<1>5. Ref("coo_value", k, t) \in References /\ OfX(A.coo.column_index[k]) \in References
  BY <1>1, <1>2, <1>3, RefIs, OfXIs
<1>6. QED
  BY <1>4, <1>5, OccurrencesOfFive DEF CooEntry, CooEntryRefs

\* The entries of the share of a thread, each added to its target.
LEMMA CooEntriesAre ==
  ASSUME OptionsInv, HasCoo, NEW t \in Threads, NEW target \in [0 .. A.coo.size - 1 -> References]
  PROVE  LET range == ThreadRange(A.coo.size, num_threads, t)
             refs == Refs([k \in range |-> CooEntry(k, t, target[k])]) IN
         /\ refs \in Seq(References)
         /\ ToSet(refs) = UNION {CooEntryRefs(k, t, target[k]) : k \in range}
         /\ \A Q, H : (/\ \A k \in 0 .. A.coo.size : H[k] \in Int
                       /\ \A k \in 0 .. A.coo.size - 1 :
                            Occurrences(CooEntry(k, t, target[k]), Q) = H[k + 1] - H[k])
              => Occurrences(refs, Q) = H[ThreadStart(A.coo.size, num_threads, t + 1)]
                                          - H[ThreadStart(A.coo.size, num_threads, t)]
<1> DEFINE n == A.coo.size
           a == ThreadStart(n, num_threads, t)
           b == ThreadStart(n, num_threads, t + 1)
           range == ThreadRange(n, num_threads, t)
           it == [k \in range |-> CooEntry(k, t, target[k])]
           refs == Refs(it)
<1>1. n \in Nat
  BY CooFacts
<1>2. \A k \in 0 .. n - 1 : /\ CooEntry(k, t, target[k]) \in Seq(References)
                            /\ ToSet(CooEntry(k, t, target[k])) = CooEntryRefs(k, t, target[k])
  BY CooEntryIs
<1> HIDE DEF n
<1>3. a \in 0 .. n /\ b \in 0 .. n /\ a <= b /\ range = a .. b - 1 /\ range \subseteq 0 .. n - 1
  BY <1>1, ShareIs
<1> HIDE DEF a, b, range
<1>4. it \in [a .. b - 1 -> Seq(References)]
  BY <1>2, <1>3
<1>5. \A k \in range : it[k] = CooEntry(k, t, target[k])
  OBVIOUS
<1> HIDE DEF it
<1>6. IsLoop(refs, it, a, b, References)
  BY <1>1, <1>3, <1>4, RefsAre
<1>7. ToSet(refs) = UNION {CooEntryRefs(k, t, target[k]) : k \in range}
  <2>1. ToSet(refs) = UNION {ToSet(it[k]) : k \in range}
    BY <1>3, <1>6 DEF IsLoop
  <2>2. \A k \in range : ToSet(it[k]) = CooEntryRefs(k, t, target[k])
    BY <1>2, <1>3, <1>5
  <2>3. QED
    BY <2>1, <2>2
<1>8. ASSUME NEW Q, NEW H, \A k \in 0 .. n : H[k] \in Int,
             \A k \in 0 .. n - 1 : Occurrences(CooEntry(k, t, target[k]), Q) = H[k + 1] - H[k]
      PROVE  Occurrences(refs, Q) = H[b] - H[a]
  <2>1. \A k \in a .. b : H[k] \in Int
    BY <1>1, <1>3, <1>8
  <2>2. \A k \in a .. b - 1 : Occurrences(it[k], Q) = H[k + 1] - H[k]
    BY <1>3, <1>5, <1>8
  <2>3. QED
    BY <1>6, <2>1, <2>2 DEF IsLoop
<1>9. refs \in Seq(References)
  BY <1>6 DEF IsLoop
<1>10. QED
  BY <1>7, <1>8, <1>9 DEF n, range, a, b, it

\* What thread t reduces for row i of the workspace of thread j.
Reduction(i, j, t) ==
  <<Ref("workspace", j * m.rows + i,
        Owner("workspace", num_threads * Cardinality(ThreadRange(m.rows, num_threads, t)),
              j * m.rows + i)),
    Ref("y", i, t)>>

ReductionRefs(t) ==
  UNION {UNION {{Reduction(i, j, t)[1], Ref("y", i, t)} : j \in Threads}
         : i \in ThreadRange(m.rows, num_threads, t)}

\* The references of one step of the reduction.
LEMMA ReductionIs ==
  ASSUME OptionsInv, NEW t \in Threads, NEW i \in ThreadRange(m.rows, num_threads, t),
         NEW j \in Threads
  PROVE  /\ Reduction(i, j, t) \in Seq(References)
         /\ ToSet(Reduction(i, j, t)) = {Reduction(i, j, t)[1], Ref("y", i, t)}
         /\ Reduction(i, j, t)[1].array = "workspace"
         /\ Reduction(i, j, t)[1].index = j * m.rows + i
         /\ Reduction(i, j, t)[1].owner \in Threads
         /\ \A Q : Occurrences(Reduction(i, j, t), Q) =
                     OneIf(Reduction(i, j, t)[1] \in Q) + OneIf(Ref("y", i, t) \in Q)
<1> DEFINE rows == ThreadRange(m.rows, num_threads, t)
           n == num_threads * Cardinality(rows)
           index == j * m.rows + i
           owner == Owner("workspace", n, index)
           first == Ref("workspace", index, owner)
           a == ThreadStart(m.rows, num_threads, t)
           b == ThreadStart(m.rows, num_threads, t + 1)
<1>1. m.rows \in Nat /\ num_threads \in Nat \ {0} /\ t \in Int /\ j \in Int
  BY ThreadsAreInt, OptionsAre
<1>2. a \in 0 .. m.rows /\ b \in 0 .. m.rows /\ a <= b /\ rows = a .. b - 1 /\ Cardinality(rows) = b - a
  BY <1>1, ShareIs
<1> HIDE DEF a, b
<1>3. i \in a .. b - 1
  BY <1>2
<1>4. t \in Int /\ i \in Int /\ j \in Int /\ m.rows \in Nat /\ num_threads \in Nat \ {0}
  BY <1>1, <1>2, <1>3
<1>5. Cardinality(rows) \in Nat \ {0}
  BY <1>4, <1>2, <1>3
<1>6. n \in Nat \ {0}
  <2> DEFINE c == Cardinality(rows)
  <2>1. c \in Nat \ {0}
    BY <1>5
  <2> HIDE DEF c
  <2>2. num_threads * c \in Nat \ {0}
    BY <1>4, <2>1
  <2>3. QED
    BY <2>2 DEF c
<1>7. index \in Int
  <2> DEFINE R == m.rows
  <2>1. R \in Nat
    BY <1>4
  <2> HIDE DEF R
  <2>2. j * R \in Int
    BY <1>4, <2>1
  <2>3. QED
    BY <1>4, <2>2 DEF R
<1> HIDE DEF n, rows
<1>8. owner \in Threads
  <2> HIDE DEF index
  <2>1. QED
    BY <1>6, <1>7, OwnerIsThread
<1>9. owner \in Int
  BY <1>8, ThreadsAreInt
<1>10. "workspace" \in AllNames /\ "y" \in AllNames
  BY DEF AllNames
<1>11. Reduction(i, j, t) = <<first, Ref("y", i, t)>>
  BY DEF Reduction, n, rows
<1> HIDE DEF index, owner
<1>12. first \in References /\ first.array = "workspace" /\ first.index = index /\ first.owner = owner
  BY <1>7, <1>9, <1>10, RefIs
<1>13. Ref("y", i, t) \in References
  BY <1>4, <1>10, RefIs
<1> HIDE DEF first
<1>14. Reduction(i, j, t)[1] = first
  BY <1>11
<1>15. <<first, Ref("y", i, t)>> \in Seq(References)
  BY <1>12, <1>13
<1>16. /\ ToSet(<<first, Ref("y", i, t)>>) = {first, Ref("y", i, t)}
       /\ \A Q : Occurrences(<<first, Ref("y", i, t)>>, Q) = OneIf(first \in Q) + OneIf(Ref("y", i, t) \in Q)
  BY OccurrencesOfTwo
<1>17. QED
  BY <1>8, <1>11, <1>12, <1>14, <1>15, <1>16 DEF index

\* The rows of a thread, each reduced over the workspaces of all threads.
LEMMA ReductionsAre ==
  ASSUME OptionsInv, NEW t \in Threads
  PROVE  LET rows == ThreadRange(m.rows, num_threads, t)
             refs == Refs([i \in rows |-> Refs([j \in Threads |-> Reduction(i, j, t)])]) IN
         /\ refs \in Seq(References) /\ ToSet(refs) = ReductionRefs(t)
         /\ \A Q : \A e \in Int :
              (\A i \in rows : \A j \in Threads : Occurrences(Reduction(i, j, t), Q) = e)
              => Occurrences(refs, Q) = Cardinality(rows) * (num_threads * e)
<1> DEFINE a == ThreadStart(m.rows, num_threads, t)
           b == ThreadStart(m.rows, num_threads, t + 1)
           rows == ThreadRange(m.rows, num_threads, t)
           row(i) == [j \in Threads |-> Reduction(i, j, t)]
           it == [i \in rows |-> Refs(row(i))]
           refs == Refs(it)
<1>1. /\ m.rows \in Nat /\ num_threads \in Nat /\ num_threads - 1 \in Int /\ 0 <= num_threads
      /\ Threads = 0 .. num_threads - 1
  BY OptionsAre
<1>2. /\ a \in 0 .. m.rows /\ b \in 0 .. m.rows /\ a <= b /\ rows = a .. b - 1
      /\ Cardinality(rows) = b - a
  BY <1>1, ShareIs
<1>3. ASSUME NEW i \in rows
      PROVE  /\ Refs(row(i)) \in Seq(References)
             /\ ToSet(Refs(row(i))) = UNION {{Reduction(i, j, t)[1], Ref("y", i, t)} : j \in Threads}
             /\ \A Q : \A e \in Int : (\A j \in Threads : Occurrences(Reduction(i, j, t), Q) = e)
                         => Occurrences(Refs(row(i)), Q) = num_threads * e
  <2>1. \A j \in Threads : /\ Reduction(i, j, t) \in Seq(References)
                           /\ ToSet(Reduction(i, j, t)) = {Reduction(i, j, t)[1], Ref("y", i, t)}
    BY ReductionIs
  <2>2. \A j \in Threads : row(i)[j] = Reduction(i, j, t)
    OBVIOUS
  <2> DEFINE it1 == row(i)
  <2>3. it1 \in [0 .. num_threads - 1 -> Seq(References)]
    BY <1>1, <2>1
  <2> HIDE DEF row, it1
  <2>4. IsLoop(Refs(it1), it1, 0, num_threads, References)
    BY <1>1, <2>3, RefsAre
  <2>5. /\ Refs(it1) \in Seq(References)
        /\ ToSet(Refs(it1)) = UNION {ToSet(it1[j]) : j \in Threads}
    BY <1>1, <2>4 DEF IsLoop
  <2>6. \A j \in Threads : it1[j] = Reduction(i, j, t)
    BY <2>2 DEF it1
  <2>7. ToSet(Refs(it1)) = UNION {{Reduction(i, j, t)[1], Ref("y", i, t)} : j \in Threads}
    <3>1. \A j \in Threads : ToSet(it1[j]) = {Reduction(i, j, t)[1], Ref("y", i, t)}
      BY <2>1, <2>6
    <3>2. QED
      BY <2>5, <3>1
  <2>8. ASSUME NEW Q, NEW e \in Int, \A j \in Threads : Occurrences(Reduction(i, j, t), Q) = e
        PROVE  Occurrences(Refs(it1), Q) = num_threads * e
    <3> DEFINE G == [j \in 0 .. num_threads |-> j * e]
    <3>1. \A j \in 0 .. num_threads : G[j] \in Int
      OBVIOUS
    <3>2. \A j \in 0 .. num_threads - 1 : Occurrences(it1[j], Q) = G[j + 1] - G[j]
      <4>1. ASSUME NEW j \in 0 .. num_threads - 1
            PROVE  Occurrences(it1[j], Q) = G[j + 1] - G[j]
        <5>1. Occurrences(it1[j], Q) = e
          BY <1>1, <2>6, <2>8
        <5>2. G[j + 1] = (j + 1) * e /\ G[j] = j * e
          BY <1>1
        <5>3. (j + 1) * e = (j * e) + e /\ j * e \in Int
          BY <1>1
        <5> HIDE DEF G
        <5> DEFINE x == j * e
                   y == (j + 1) * e
        <5> HIDE DEF x, y
        <5>4. y = x + e /\ x \in Int /\ G[j + 1] = y /\ G[j] = x
          BY <5>2, <5>3 DEF x, y
        <5>5. QED
          BY <5>1, <5>4
      <4>2. QED
        BY <4>1
    <3>3. G[num_threads] = num_threads * e /\ G[0] = 0
      BY <1>1
    <3> HIDE DEF G
    <3>4. Occurrences(Refs(it1), Q) = G[num_threads] - G[0]
      BY <2>4, <3>1, <3>2 DEF IsLoop
    <3>5. G[num_threads] \in Int
      BY <1>1, <3>1
    <3>6. QED
      BY <3>3, <3>4, <3>5
  <2>9. QED
    BY <2>5, <2>7, <2>8 DEF it1
<1> HIDE DEF row, a, b, rows
<1>4. \A i \in rows : it[i] = Refs(row(i))
  OBVIOUS
<1>5. it \in [a .. b - 1 -> Seq(References)]
  BY <1>2, <1>3
<1> HIDE DEF it
<1>6. IsLoop(refs, it, a, b, References)
  BY <1>1, <1>2, <1>5, RefsAre
<1>7. ToSet(refs) = ReductionRefs(t)
  <2>1. ToSet(refs) = UNION {ToSet(it[i]) : i \in rows}
    BY <1>2, <1>6 DEF IsLoop
  <2>2. \A i \in rows : ToSet(it[i]) = UNION {{Reduction(i, j, t)[1], Ref("y", i, t)} : j \in Threads}
    BY <1>3, <1>4
  <2>3. ReductionRefs(t) =
          UNION {UNION {{Reduction(i, j, t)[1], Ref("y", i, t)} : j \in Threads} : i \in rows}
    BY DEF ReductionRefs, rows
  <2> DEFINE R(i) == UNION {{Reduction(i, j, t)[1], Ref("y", i, t)} : j \in Threads}
  <2>4. (\A i \in rows : ToSet(it[i]) = R(i)) /\ ReductionRefs(t) = UNION {R(i) : i \in rows}
    BY <2>2, <2>3
  <2> HIDE DEF R, refs
  <2>5. QED
    BY <2>1, <2>4
<1>8. ASSUME NEW Q, NEW e \in Int,
             \A i \in rows : \A j \in Threads : Occurrences(Reduction(i, j, t), Q) = e
      PROVE  Occurrences(refs, Q) = Cardinality(rows) * (num_threads * e)
  <2> DEFINE f == num_threads * e
             G == [i \in a .. b |-> (i - a) * f]
  <2>1. f \in Int
    BY <1>1
  <2>2. \A i \in rows : Occurrences(it[i], Q) = f
    BY <1>3, <1>4, <1>8
  <2> HIDE DEF f
  <2>3. \A i \in a .. b : G[i] \in Int
    BY <2>1, <1>2
  <2>4. \A i \in a .. b - 1 : Occurrences(it[i], Q) = G[i + 1] - G[i]
    <3>1. ASSUME NEW i \in a .. b - 1
          PROVE  Occurrences(it[i], Q) = G[i + 1] - G[i]
      <4> DEFINE d == i - a
      <4>1. i \in a .. b /\ i + 1 \in a .. b /\ d \in Int /\ (i + 1) - a = d + 1
        BY <1>1, <1>2
      <4>2. G[i + 1] = ((i + 1) - a) * f /\ G[i] = d * f
        <5>1. i \in a .. b /\ i + 1 \in a .. b
          BY <4>1
        <5>2. \A k \in a .. b : G[k] = (k - a) * f
          OBVIOUS
        <5> HIDE DEF G
        <5>3. G[i + 1] = ((i + 1) - a) * f
          BY <5>1, <5>2
        <5>4. G[i] = (i - a) * f
          BY <5>1, <5>2
        <5>5. QED
          BY <5>3, <5>4
      <4>3. Occurrences(it[i], Q) = f
        BY <1>2, <2>2
      <4> HIDE DEF G, d
      <4>4. (d + 1) * f = (d * f) + f /\ d * f \in Int
        BY <2>1, <4>1
      <4>5. G[i + 1] = (d * f) + f
        BY <4>1, <4>2, <4>4
      <4> DEFINE x == d * f
      <4> HIDE DEF x
      <4>6. G[i + 1] = x + f /\ G[i] = x /\ x \in Int
        BY <4>2, <4>4, <4>5 DEF x
      <4>7. QED
        BY <2>1, <4>3, <4>6
    <3>2. QED
      BY <3>1
  <2>5. G[b] = (b - a) * f /\ G[a] = 0
    <3>1. a \in a .. b /\ b \in a .. b /\ (a - a) * f = 0
      BY <1>1, <1>2, <2>1
    <3>2. QED
      BY <3>1
  <2>6. Occurrences(refs, Q) = G[b] - G[a]
    <3> HIDE DEF G
    <3>1. QED
      BY <1>6, <2>3, <2>4 DEF IsLoop
  <2>7. G[b] \in Int
    BY <2>3, <1>1, <1>2
  <2> HIDE DEF G
  <2>8. Occurrences(refs, Q) = (b - a) * f
    BY <2>5, <2>6, <2>7
  <2>9. QED
    BY <1>2, <2>8 DEF f
<1>9. refs \in Seq(References)
  BY <1>6 DEF IsLoop
<1>10. QED
  BY <1>7, <1>8, <1>9 DEF rows, row, it

HasWorkspace == kernel \in {"coo", "hybrid"}

\* What the entry k is added to.
InWorkspace(k, t) == Ref("workspace", t * m.rows + A.coo.row_index[k], t)
InResult(k) == Ref("y", A.coo.row_index[k], Owner("y", m.rows, A.coo.row_index[k]))

CooRefs(t) ==
  (UNION {CooEntryRefs(k, t, InWorkspace(k, t)) : k \in ThreadRange(A.coo.size, num_threads, t)})
    \cup ReductionRefs(t)
CooAtomicRefs(t) ==
  UNION {CooEntryRefs(k, t, InResult(k)) : k \in ThreadRange(A.coo.size, num_threads, t)}

\* The target of an entry in the workspace of the thread,
LEMMA InWorkspaceIs ==
  ASSUME OptionsInv, HasCoo, NEW t \in Threads, NEW k \in 0 .. A.coo.size - 1
  PROVE  /\ InWorkspace(k, t) \in References /\ InWorkspace(k, t).array = "workspace"
         /\ InWorkspace(k, t).index = t * m.rows + A.coo.row_index[k]
         /\ InWorkspace(k, t).owner = t
<1> DEFINE R == m.rows
           i == A.coo.row_index[k]
<1>1. t \in Nat /\ R \in Nat /\ i \in Nat
  BY ThreadsAreInt, OptionsAre, CooFacts
<1>2. "workspace" \in AllNames
  BY DEF AllNames
<1> HIDE DEF R, i
<1>3. t * R + i \in Int
  BY <1>1
<1>4. InWorkspace(k, t) = Ref("workspace", t * R + i, t)
  BY DEF InWorkspace, R, i
<1> DEFINE index == t * R + i
<1>5. index = t * m.rows + A.coo.row_index[k]
  BY DEF R, i
<1> HIDE DEF index
<1>6. index \in Int /\ InWorkspace(k, t) = Ref("workspace", index, t)
  BY <1>3, <1>4 DEF index
<1>7. QED
  BY <1>1, <1>2, <1>5, <1>6, RefIs

\* and in the result.
LEMMA InResultIs ==
  ASSUME OptionsInv, HasCoo, NEW k \in 0 .. A.coo.size - 1
  PROVE  /\ InResult(k) \in References /\ InResult(k).array = "y"
         /\ InResult(k).index = A.coo.row_index[k] /\ InResult(k).owner \in Threads
         /\ InResult(k).owner = Owner("y", m.rows, A.coo.row_index[k])
<1> DEFINE i == A.coo.row_index[k]
           owner == Owner("y", m.rows, i)
<1>1. m.rows \in Nat \ {0} /\ i \in Int
  <2>1. m.rows \in Nat \ {0} /\ Rows(m) = 0 .. m.rows - 1
    BY OptionsAre
  <2>2. i \in Rows(m)
    BY CooFacts
  <2>3. QED
    BY <2>1, <2>2
<1>2. "y" \in AllNames
  BY DEF AllNames
<1>3. owner \in Threads
  <2> HIDE DEF i
  <2>1. QED
    BY <1>1, OwnerIsThread
<1>4. owner \in Int
  BY <1>3, ThreadsAreInt
<1>5. InResult(k) = Ref("y", i, owner)
  BY DEF InResult
<1> HIDE DEF owner
<1>6. QED
  BY <1>1, <1>2, <1>3, <1>4, <1>5, RefIs DEF owner

\* What is in the string of the coordinate part with a workspace, and how
\* often.
LEMMA CooStringIs ==
  ASSUME OptionsInv, HasWorkspace, NEW t \in Threads
  PROVE  LET n == A.coo.size
             a == ThreadStart(n, num_threads, t)
             b == ThreadStart(n, num_threads, t + 1)
             rows == ThreadRange(m.rows, num_threads, t)
             refs == CooString(t).refs IN
         /\ refs \in Seq(References) /\ ToSet(refs) = CooRefs(t)
         /\ CooString(t).size = 5 * (b - a) + 2 * Cardinality(rows) * num_threads
         /\ \A Q, H : \A e \in Int :
              (/\ \A k \in 0 .. n : H[k] \in Int
               /\ \A k \in 0 .. n - 1 :
                    Occurrences(CooEntry(k, t, InWorkspace(k, t)), Q) = H[k + 1] - H[k]
               /\ \A i \in rows : \A j \in Threads : Occurrences(Reduction(i, j, t), Q) = e)
              => Occurrences(refs, Q) = (H[b] - H[a]) + (Cardinality(rows) * (num_threads * e))
<1> DEFINE n == A.coo.size
           a == ThreadStart(n, num_threads, t)
           b == ThreadStart(n, num_threads, t + 1)
           entries == ThreadRange(n, num_threads, t)
           rows == ThreadRange(m.rows, num_threads, t)
           target == [k \in 0 .. n - 1 |-> InWorkspace(k, t)]
           first == Refs([k \in entries |-> CooEntry(k, t, target[k])])
           rest == Refs([i \in rows |-> Refs([j \in Threads |-> Reduction(i, j, t)])])
<1>1. HasCoo
  BY DEF HasCoo, HasWorkspace
<1>2. n \in Nat
  BY <1>1, CooFacts
<1>3. \A k \in 0 .. n - 1 : InWorkspace(k, t) \in References
  BY <1>1, InWorkspaceIs
<1>4. target \in [0 .. n - 1 -> References]
  BY <1>3
<1>5. a \in 0 .. n /\ b \in 0 .. n /\ entries \subseteq 0 .. n - 1 /\ Cardinality(entries) = b - a
  <2> HIDE DEF n
  <2>1. QED
    BY <1>2, ShareIs
<1>6. \A k \in 0 .. n - 1 : target[k] = InWorkspace(k, t)
  OBVIOUS
<1> HIDE DEF target
<1>7. /\ first \in Seq(References)
      /\ ToSet(first) = UNION {CooEntryRefs(k, t, target[k]) : k \in entries}
      /\ \A Q, H : (/\ \A k \in 0 .. n : H[k] \in Int
                    /\ \A k \in 0 .. n - 1 :
                         Occurrences(CooEntry(k, t, target[k]), Q) = H[k + 1] - H[k])
           => Occurrences(first, Q) = H[b] - H[a]
  BY <1>1, <1>4, CooEntriesAre
<1>8. /\ rest \in Seq(References) /\ ToSet(rest) = ReductionRefs(t)
      /\ \A Q : \A e \in Int :
           (\A i \in rows : \A j \in Threads : Occurrences(Reduction(i, j, t), Q) = e)
           => Occurrences(rest, Q) = Cardinality(rows) * (num_threads * e)
  BY ReductionsAre
<1>9. /\ CooString(t).refs = first \o rest
      /\ CooString(t).size = 5 * Cardinality(entries) + 2 * Cardinality(rows) * num_threads
  <2>1. [k \in entries |-> CooEntry(k, t, target[k])] =
          [k \in entries |-> CooEntry(k, t, Ref("workspace", t * m.rows + A.coo.row_index[k], t))]
    <3>1. \A k \in entries : target[k] = Ref("workspace", t * m.rows + A.coo.row_index[k], t)
      BY <1>5, <1>6 DEF InWorkspace
    <3> HIDE DEF entries
    <3>2. QED
      BY <3>1
  <2>2. rest = Refs([i \in rows |-> Refs([j \in Threads |->
          <<Ref("workspace", j * m.rows + i,
                Owner("workspace", num_threads * Cardinality(rows), j * m.rows + i)),
            Ref("y", i, t)>>])])
    BY DEF Reduction
  <2>3. QED
    BY <2>1, <2>2 DEF CooString
<1> HIDE DEF first, rest, n, a, b, entries, rows
<1>10. /\ first \o rest \in Seq(References) /\ ToSet(first \o rest) = ToSet(first) \cup ToSet(rest)
       /\ \A Q : Occurrences(first \o rest, Q) = Occurrences(first, Q) + Occurrences(rest, Q)
  BY <1>7, <1>8, ConcatIs
<1>11. ToSet(first \o rest) = CooRefs(t)
  <2>1. \A k \in entries : target[k] = InWorkspace(k, t)
    BY <1>5, <1>6
  <2>2. ToSet(first) = UNION {CooEntryRefs(k, t, InWorkspace(k, t)) : k \in entries}
    BY <1>7, <2>1
  <2>3. CooRefs(t) = (UNION {CooEntryRefs(k, t, InWorkspace(k, t)) : k \in entries}) \cup ReductionRefs(t)
    BY DEF CooRefs, entries, n
  <2> DEFINE E == UNION {CooEntryRefs(k, t, InWorkspace(k, t)) : k \in entries}
  <2>4. ToSet(first) = E /\ CooRefs(t) = E \cup ReductionRefs(t)
    BY <2>2, <2>3
  <2> HIDE DEF E
  <2>5. QED
    BY <1>8, <1>10, <2>4
<1>12. ASSUME NEW Q, NEW H, NEW e \in Int, \A k \in 0 .. n : H[k] \in Int,
              \A k \in 0 .. n - 1 :
                    Occurrences(CooEntry(k, t, InWorkspace(k, t)), Q) = H[k + 1] - H[k],
              \A i \in rows : \A j \in Threads : Occurrences(Reduction(i, j, t), Q) = e
       PROVE  Occurrences(first \o rest, Q) = (H[b] - H[a]) + (Cardinality(rows) * (num_threads * e))
  <2>1. \A k \in 0 .. n - 1 : Occurrences(CooEntry(k, t, target[k]), Q) = H[k + 1] - H[k]
    BY <1>6, <1>12
  <2>2. Occurrences(first, Q) = H[b] - H[a]
    BY <1>7, <1>12, <2>1
  <2>3. Occurrences(rest, Q) = Cardinality(rows) * (num_threads * e)
    BY <1>8, <1>12
  <2>4. QED
    BY <1>10, <2>2, <2>3
<1>13. QED
  BY <1>5, <1>9, <1>10, <1>11, <1>12 DEF n, a, b, rows

\* What is in the string of a coordinate kernel with atomic updates, and how
\* often.
LEMMA CooAtomicStringIs ==
  ASSUME OptionsInv, kernel = "coo_atomic", NEW t \in Threads
  PROVE  LET n == A.coo.size
             a == ThreadStart(n, num_threads, t)
             b == ThreadStart(n, num_threads, t + 1)
             refs == CooAtomicString(t).refs IN
         /\ String(t) = CooAtomicString(t)
         /\ refs \in Seq(References) /\ ToSet(refs) = CooAtomicRefs(t)
         /\ CooAtomicString(t).size = 5 * (b - a)
         /\ \A Q, H :
              (/\ \A k \in 0 .. n : H[k] \in Int
               /\ \A k \in 0 .. n - 1 :
                    Occurrences(CooEntry(k, t, InResult(k)), Q) = H[k + 1] - H[k])
              => Occurrences(refs, Q) = H[b] - H[a]
<1> DEFINE n == A.coo.size
           a == ThreadStart(n, num_threads, t)
           b == ThreadStart(n, num_threads, t + 1)
           entries == ThreadRange(n, num_threads, t)
           target == [k \in 0 .. n - 1 |-> InResult(k)]
           first == Refs([k \in entries |-> CooEntry(k, t, target[k])])
<1>1. HasCoo
  BY DEF HasCoo
<1>2. n \in Nat
  BY <1>1, CooFacts
<1>3. \A k \in 0 .. n - 1 : InResult(k) \in References
  BY <1>1, InResultIs
<1>4. target \in [0 .. n - 1 -> References]
  BY <1>3
<1>5. a \in 0 .. n /\ b \in 0 .. n /\ entries \subseteq 0 .. n - 1 /\ Cardinality(entries) = b - a
  <2> HIDE DEF n
  <2>1. QED
    BY <1>2, ShareIs
<1>6. \A k \in 0 .. n - 1 : target[k] = InResult(k)
  OBVIOUS
<1> HIDE DEF target
<1>7. /\ first \in Seq(References)
      /\ ToSet(first) = UNION {CooEntryRefs(k, t, target[k]) : k \in entries}
      /\ \A Q, H : (/\ \A k \in 0 .. n : H[k] \in Int
                    /\ \A k \in 0 .. n - 1 :
                         Occurrences(CooEntry(k, t, target[k]), Q) = H[k + 1] - H[k])
           => Occurrences(first, Q) = H[b] - H[a]
  BY <1>1, <1>4, CooEntriesAre
<1>8. /\ String(t) = CooAtomicString(t) /\ CooAtomicString(t).refs = first
      /\ CooAtomicString(t).size = 5 * Cardinality(entries)
  <2>1. [k \in entries |-> CooEntry(k, t, target[k])] =
          [k \in entries |-> CooEntry(k, t, Ref("y", A.coo.row_index[k], Owner("y", m.rows,
            A.coo.row_index[k])))]
    <3>1. \A k \in entries : target[k] = Ref("y", A.coo.row_index[k], Owner("y", m.rows, A.coo.row_index[k]))
      BY <1>5, <1>6 DEF InResult
    <3> HIDE DEF entries
    <3>2. QED
      BY <3>1
  <2>2. QED
    BY <2>1 DEF CooAtomicString, String
<1> HIDE DEF first, n, a, b, entries
<1>9. ToSet(first) = CooAtomicRefs(t)
  <2>1. \A k \in entries : target[k] = InResult(k)
    BY <1>5, <1>6
  <2>2. ToSet(first) = UNION {CooEntryRefs(k, t, InResult(k)) : k \in entries}
    BY <1>7, <2>1
  <2>3. CooAtomicRefs(t) = UNION {CooEntryRefs(k, t, InResult(k)) : k \in entries}
    BY DEF CooAtomicRefs, entries, n
  <2>4. QED
    BY <2>2, <2>3
<1>10. ASSUME NEW Q, NEW H, \A k \in 0 .. n : H[k] \in Int,
              \A k \in 0 .. n - 1 : Occurrences(CooEntry(k, t, InResult(k)), Q) = H[k + 1] - H[k]
       PROVE  Occurrences(first, Q) = H[b] - H[a]
  <2>1. \A k \in 0 .. n - 1 : Occurrences(CooEntry(k, t, target[k]), Q) = H[k + 1] - H[k]
    BY <1>6, <1>10
  <2>2. QED
    BY <1>7, <1>10, <2>1
<1>11. QED
  BY <1>5, <1>7, <1>8, <1>9, <1>10 DEF n, a, b

-----------------------------------------------------------------------------
(* Every reference is to an element there is, by a thread there is *)

\* A reference of thread t to an element its array has, or to x in the column
\* of padding that has none, with the owner the lookup finds or, where the
\* threads share the array by element, the thread itself in its own share.
Sound(t, r) ==
  /\ r.array \in ArrayNames /\ r.owner \in Threads
  /\ r.index \in 0 .. ArrayOf(r.array).n - 1 \/ (r.array = "x" /\ r.index = UndefinedColumn)
  /\ r.array \in LookedUp => r.owner = Owner(r.array, ArrayOf(r.array).n, r.index)
  /\ r.array \in SharedByElement \ LookedUp =>
       r.owner = t /\ r.index \in ThreadRange(ArrayOf(r.array).n, num_threads, t)

\* References of each kind that are sound: to an element of an array,
LEMMA SoundRef ==
  ASSUME OptionsInv, NEW t \in Threads, NEW name, NEW size, NEW n,
         HasArray(name, size, n), name \notin LookedUp, name \notin SharedByElement,
         NEW index \in 0 .. n - 1
  PROVE  Sound(t, Ref(name, index, t))
<1> DEFINE r == Ref(name, index, t)
<1>1. r.array = name /\ r.index = index /\ r.owner = t
  BY DEF Ref
<1>2. name \in ArrayNames /\ ArrayOf(name).n = n
  BY ArrayOfName
<1> HIDE DEF r
<1>3. Sound(t, r)
  BY <1>1, <1>2 DEF Sound
<1>4. QED
  BY <1>3 DEF r

\* to an element of the thread's share,
LEMMA SoundShare ==
  ASSUME OptionsInv, NEW t \in Threads, NEW name, NEW size, NEW n \in Nat,
         HasArray(name, size, n), name \notin LookedUp,
         NEW index \in ThreadRange(n, num_threads, t)
  PROVE  Sound(t, Ref(name, index, t))
<1> DEFINE r == Ref(name, index, t)
<1>1. r.array = name /\ r.index = index /\ r.owner = t
  BY DEF Ref
<1>2. name \in ArrayNames /\ ArrayOf(name).n = n
  BY ArrayOfName
<1>3. index \in 0 .. n - 1
  BY ShareIs
<1> HIDE DEF r
<1>4. Sound(t, r)
  BY <1>1, <1>2, <1>3 DEF Sound
<1>5. QED
  BY <1>4 DEF r

\* and to a column of x.
LEMMA SoundX ==
  ASSUME OptionsInv, NEW t \in Threads, HasArray("x", 2, m.columns),
         NEW j \in Columns \cup {UndefinedColumn}
  PROVE  Sound(t, OfX(j))
<1> DEFINE r == OfX(j)
<1>1. j \in Int
  BY DEF Columns, UndefinedColumn
<1>2. /\ r.array = "x" /\ r.index = j /\ r.owner = Owner("x", m.columns, j)
      /\ r.owner \in Threads
  BY <1>1, OfXIs
<1>3. "x" \in ArrayNames /\ ArrayOf("x").n = m.columns
  BY ArrayOfName
<1>4. "x" \in LookedUp
  BY DEF LookedUp
<1> HIDE DEF r
<1>5. Sound(t, r)
  BY <1>1, <1>2, <1>3, <1>4 DEF Sound, Columns
<1>6. QED
  BY <1>5 DEF r

\* The references of each part of a string are sound.
LEMMA TriadIsSound ==
  ASSUME OptionsInv, kernel = "triad", NEW t \in Threads, NEW r \in ToSet(TriadString(t).refs)
  PROVE  Sound(t, r)
<1> DEFINE n == A.num_entries
           range == ThreadRange(n, num_threads, t)
<1>1. /\ HasArray("a", 2, n) /\ HasArray("b", 2, n) /\ HasArray("c", 2, n)
      /\ ArrayNames = {"a", "b", "c"} /\ n \in Nat
  BY ArraysNamedTriad, TriadIs
<1>2. LookedUp = {"x"}
  BY DEF LookedUp
<1>3. PICK k \in range : r \in {Ref("b", k, t), Ref("c", k, t), Ref("a", k, t)}
  <2>1. ToSet(TriadString(t).refs) = UNION {{Ref("b", k, t), Ref("c", k, t), Ref("a", k, t)} : k \in range}
    BY TriadStringIs
  <2>2. QED
    BY <2>1
<1> HIDE DEF n
<1>4. Sound(t, Ref("a", k, t)) /\ Sound(t, Ref("b", k, t)) /\ Sound(t, Ref("c", k, t))
  BY <1>1, <1>2, SoundShare
<1>5. QED
  BY <1>3, <1>4

LEMMA CsrIsSound ==
  ASSUME OptionsInv, kernel = "csr", NEW t \in Threads, NEW r \in ToSet(CsrString(t).refs)
  PROVE  Sound(t, r)
<1> DEFINE ptr == A.csr.row_ptr
           n == Len(m.entries)
           rows == ThreadRange(m.rows, num_threads, t)
           a == ThreadStart(m.rows, num_threads, t)
<1>1. /\ n \in Nat /\ m.rows \in Nat /\ Rows(m) = 0 .. m.rows - 1 /\ ptr[m.rows] = n
      /\ \A i \in 0 .. m.rows : ptr[i] \in 0 .. n
      /\ \A k \in 0 .. n - 1 : A.csr.column_index[k] \in Columns
  BY CsrFacts, OptionsAre
<1>2. /\ HasArray("row_ptr", 1, m.rows + 1) /\ HasArray("column_index", 1, n) /\ HasArray("value", 2, n)
      /\ HasArray("x", 2, m.columns) /\ HasArray("y", 2, m.rows)
  BY <1>1, ArraysNamedCsr
<1>3. LookedUp = {"x"} /\ SharedByElement \subseteq {"a", "b", "c", "y", "coo_row_index",
        "coo_column_index", "coo_value"}
  BY DEF LookedUp, SharedByElement
<1>4. a \in 0 .. m.rows /\ rows \subseteq 0 .. m.rows - 1
  BY <1>1, ShareIs
<1>5. r \in {Ref("row_ptr", a, t)} \cup CsrRefs(t)
  BY CsrStringIs
<1>6. CsrRefs(t) = UNION {{Ref("row_ptr", i + 1, t), Ref("y", i, t)}
           \cup UNION {{Ref("column_index", k, t), Ref("value", k, t), OfX(A.csr.column_index[k])}
                       : k \in ptr[i] .. ptr[i + 1] - 1} : i \in rows}
  BY DEF CsrRefs
<1> HIDE DEF a, rows, n, ptr
<1>7. \A i \in 0 .. m.rows : Sound(t, Ref("row_ptr", i, t))
  <2>1. \A i \in 0 .. m.rows : i \in 0 .. (m.rows + 1) - 1
    BY <1>1
  <2>2. QED
    BY <1>2, <1>3, <2>1, SoundRef
<1>8. \A i \in rows : Sound(t, Ref("row_ptr", i + 1, t)) /\ Sound(t, Ref("y", i, t))
  <2>1. \A i \in rows : i + 1 \in 0 .. m.rows
    BY <1>1, <1>4
  <2>2. \A i \in rows : Sound(t, Ref("y", i, t))
    BY <1>1, <1>2, <1>3, SoundShare DEF rows
  <2>3. QED
    BY <1>7, <2>1, <2>2
<1>9. \A k \in 0 .. n - 1 : /\ Sound(t, Ref("column_index", k, t)) /\ Sound(t, Ref("value", k, t))
                            /\ Sound(t, OfX(A.csr.column_index[k]))
  <2>1. \A k \in 0 .. n - 1 : Sound(t, Ref("column_index", k, t))
    BY <1>2, <1>3, SoundRef
  <2>2. \A k \in 0 .. n - 1 : Sound(t, Ref("value", k, t))
    BY <1>2, <1>3, SoundRef
  <2>3. \A k \in 0 .. n - 1 : Sound(t, OfX(A.csr.column_index[k]))
    BY <1>1, <1>2, SoundX
  <2>4. QED
    BY <2>1, <2>2, <2>3
<1>10. \A i \in rows : ptr[i] .. ptr[i + 1] - 1 \subseteq 0 .. n - 1
  <2>1. ASSUME NEW p \in 0 .. n, NEW q \in 0 .. n
        PROVE  p .. q - 1 \subseteq 0 .. n - 1
    BY <1>1
  <2>2. \A i \in rows : ptr[i] \in 0 .. n /\ ptr[i + 1] \in 0 .. n
    <3>1. \A i \in rows : i \in 0 .. m.rows /\ i + 1 \in 0 .. m.rows
      BY <1>1, <1>4
    <3>2. QED
      BY <1>1, <3>1
  <2>3. QED
    BY <2>1, <2>2
<1>11. CASE r = Ref("row_ptr", a, t)
  BY <1>4, <1>7, <1>11
<1>12. CASE r \in CsrRefs(t)
  <2>1. PICK i \in rows : r \in {Ref("row_ptr", i + 1, t), Ref("y", i, t)}
           \cup UNION {{Ref("column_index", k, t), Ref("value", k, t), OfX(A.csr.column_index[k])}
                       : k \in ptr[i] .. ptr[i + 1] - 1}
    BY <1>6, <1>12
  <2>2. CASE r \in {Ref("row_ptr", i + 1, t), Ref("y", i, t)}
    BY <1>8, <2>2
  <2>3. CASE \E k \in ptr[i] .. ptr[i + 1] - 1 :
               r \in {Ref("column_index", k, t), Ref("value", k, t), OfX(A.csr.column_index[k])}
    BY <1>9, <1>10, <2>3
  <2>4. QED
    BY <2>1, <2>2, <2>3
<1>13. QED
  BY <1>5, <1>11, <1>12

LEMMA EllIsSound ==
  ASSUME OptionsInv, HasEll, NEW t \in Threads, NEW r \in EllRefs(t)
  PROVE  Sound(t, r)
<1> DEFINE length == A.ell.row_length
           n == EllSize
           rows == ThreadRange(m.rows, num_threads, t)
<1>1. /\ n \in Nat /\ n = m.rows * length /\ length \in Nat /\ m.rows \in Nat
      /\ \A k \in 0 .. n - 1 : A.ell.column_index[k] \in Columns \cup {UndefinedColumn}
  BY EllFacts, OptionsAre
<1>2. /\ HasArray("ell_column_index", 1, n) /\ HasArray("ell_value", 2, n)
      /\ HasArray("x", 2, m.columns) /\ HasArray("y", 2, m.rows)
  BY ArraysNamedEll, ArraysNamedHybrid DEF HasEll
<1>3. LookedUp = {"x"} /\ SharedByElement \subseteq {"a", "b", "c", "y", "coo_row_index",
        "coo_column_index", "coo_value"}
  BY DEF LookedUp, SharedByElement, HasEll
<1>4. rows \subseteq 0 .. m.rows - 1
  BY <1>1, ShareIs
<1>5. PICK i \in rows : r \in {Ref("y", i, t)}
           \cup UNION {{Ref("ell_column_index", k, t), Ref("ell_value", k, t), OfX(A.ell.column_index[k])}
                       : k \in i * length .. (i + 1) * length - 1}
  BY DEF EllRefs
<1> HIDE DEF rows, n
<1>6. Sound(t, Ref("y", i, t))
  BY <1>1, <1>2, <1>3, SoundShare DEF rows
<1>7. \A k \in 0 .. n - 1 : /\ Sound(t, Ref("ell_column_index", k, t)) /\ Sound(t, Ref("ell_value", k, t))
                            /\ Sound(t, OfX(A.ell.column_index[k]))
  <2>1. \A k \in 0 .. n - 1 : Sound(t, Ref("ell_column_index", k, t))
    BY <1>2, <1>3, SoundRef
  <2>2. \A k \in 0 .. n - 1 : Sound(t, Ref("ell_value", k, t))
    BY <1>2, <1>3, SoundRef
  <2>3. \A k \in 0 .. n - 1 : Sound(t, OfX(A.ell.column_index[k]))
    BY <1>1, <1>2, SoundX
  <2>4. QED
    BY <2>1, <2>2, <2>3
<1>8. i * length .. (i + 1) * length - 1 \subseteq 0 .. n - 1
  <2> DEFINE R == m.rows
             p == i * length
             q == (i + 1) * length
  <2>1. R \in Nat /\ n = R * length /\ i \in 0 .. R /\ i + 1 \in 0 .. R
    BY <1>1, <1>4
  <2> HIDE DEF R, length
  <2>2. \A l \in 0 .. R : l * length \in 0 .. R * length
    BY <1>1, <2>1, RowsOfEqualLength
  <2>3. p \in 0 .. n /\ q \in 0 .. n
    BY <2>1, <2>2
  <2> HIDE DEF p, q
  <2>4. p .. q - 1 \subseteq 0 .. n - 1
    BY <1>1, <2>3
  <2>5. QED
    BY <2>4 DEF p, q, length
<1>9. QED
  BY <1>5, <1>6, <1>7, <1>8

LEMMA CooEntryIsSound ==
  ASSUME OptionsInv, HasCoo, NEW t \in Threads, NEW target, Sound(t, target),
         NEW k \in ThreadRange(A.coo.size, num_threads, t), NEW r \in CooEntryRefs(k, t, target)
  PROVE  Sound(t, r)
<1> DEFINE n == A.coo.size
<1>1. n \in Nat /\ \A l \in 0 .. n - 1 : A.coo.column_index[l] \in Columns
  BY CooFacts
<1>2. /\ HasArray("coo_row_index", 1, n) /\ HasArray("coo_column_index", 1, n)
      /\ HasArray("coo_value", 2, n) /\ HasArray("x", 2, m.columns)
  BY ArraysNamedCoo, ArraysNamedCooAtomic, ArraysNamedHybrid DEF HasCoo
<1>3. LookedUp \subseteq {"x", "y"}
  BY DEF LookedUp
<1> HIDE DEF n
<1>4. k \in ThreadRange(n, num_threads, t)
  BY DEF n
<1>5. k \in 0 .. n - 1
  BY <1>1, <1>4, ShareIs
<1>6. Sound(t, Ref("coo_row_index", k, t))
  BY <1>1, <1>2, <1>3, <1>4, SoundShare
<1>7. Sound(t, Ref("coo_column_index", k, t))
  BY <1>1, <1>2, <1>3, <1>4, SoundShare
<1>8. Sound(t, Ref("coo_value", k, t))
  BY <1>1, <1>2, <1>3, <1>4, SoundShare
<1>9. Sound(t, OfX(A.coo.column_index[k]))
  BY <1>1, <1>2, <1>5, SoundX
<1>10. QED
  BY <1>6, <1>7, <1>8, <1>9 DEF CooEntryRefs

LEMMA InWorkspaceIsSound ==
  ASSUME OptionsInv, HasWorkspace, NEW t \in Threads, NEW j \in Threads, NEW i \in Rows(m),
         NEW r, r.array = "workspace", r.index = j * m.rows + i, r.owner \in Threads
  PROVE  Sound(t, r)
<1>1. HasArray("workspace", 2, num_threads * m.rows)
  BY ArraysNamedCoo, ArraysNamedHybrid DEF HasWorkspace
<1>2. LookedUp = {"x"} /\ "workspace" \notin SharedByElement
  BY DEF LookedUp, SharedByElement, HasWorkspace
<1>3. "workspace" \in ArrayNames /\ ArrayOf("workspace").n = num_threads * m.rows
  BY <1>1, ArrayOfName
<1>4. j * m.rows + i \in 0 .. (num_threads * m.rows) - 1
  <2> DEFINE R == m.rows
  <2>1. num_threads \in Nat /\ R \in Nat /\ j \in 0 .. num_threads - 1 /\ i \in 0 .. R - 1
    BY OptionsAre
  <2> HIDE DEF R
  <2>2. (j * R) + i \in 0 .. (num_threads * R) - 1
    BY <2>1, PositionIs
  <2>3. QED
    BY <2>2 DEF R
<1>5. QED
  BY <1>2, <1>3, <1>4 DEF Sound

LEMMA ReductionIsSound ==
  ASSUME OptionsInv, HasWorkspace, NEW t \in Threads, NEW r \in ReductionRefs(t)
  PROVE  Sound(t, r)
<1> DEFINE rows == ThreadRange(m.rows, num_threads, t)
<1>1. PICK i \in rows, j \in Threads : r \in {Reduction(i, j, t)[1], Ref("y", i, t)}
  BY DEF ReductionRefs
<1>2. m.rows \in Nat /\ Rows(m) = 0 .. m.rows - 1
  BY OptionsAre
<1>3. i \in Rows(m)
  BY <1>2, ShareIs
<1>4. HasArray("y", 2, m.rows) /\ LookedUp = {"x"}
  BY ArraysNamedCoo, ArraysNamedHybrid DEF HasWorkspace, LookedUp
<1>5. Sound(t, Ref("y", i, t))
  BY <1>2, <1>4, SoundShare
<1>6. Sound(t, Reduction(i, j, t)[1])
  BY <1>3, ReductionIs, InWorkspaceIsSound
<1>7. QED
  BY <1>1, <1>5, <1>6

LEMMA CooIsSound ==
  ASSUME OptionsInv, HasWorkspace, NEW t \in Threads, NEW r \in CooRefs(t)
  PROVE  Sound(t, r)
<1> DEFINE n == A.coo.size
           entries == ThreadRange(n, num_threads, t)
<1>1. HasCoo
  BY DEF HasCoo, HasWorkspace
<1>2. CASE r \in ReductionRefs(t)
  BY <1>2, ReductionIsSound
<1>3. CASE \E k \in entries : r \in CooEntryRefs(k, t, InWorkspace(k, t))
  <2>1. PICK k \in entries : r \in CooEntryRefs(k, t, InWorkspace(k, t))
    BY <1>3
  <2>2. k \in 0 .. n - 1
    <3>1. n \in Nat
      BY <1>1, CooFacts
    <3> HIDE DEF n
    <3>2. QED
      BY <3>1, ShareIs
  <2>3. A.coo.row_index[k] \in Rows(m)
    BY <1>1, <2>2, CooFacts
  <2>4. Sound(t, InWorkspace(k, t))
    BY <1>1, <2>2, <2>3, InWorkspaceIs, InWorkspaceIsSound
  <2>5. QED
    BY <1>1, <2>1, <2>4, CooEntryIsSound
<1>4. QED
  BY <1>2, <1>3 DEF CooRefs

LEMMA CooAtomicIsSound ==
  ASSUME OptionsInv, kernel = "coo_atomic", NEW t \in Threads, NEW r \in CooAtomicRefs(t)
  PROVE  Sound(t, r)
<1> DEFINE n == A.coo.size
           entries == ThreadRange(n, num_threads, t)
<1>1. HasCoo
  BY DEF HasCoo
<1>2. PICK k \in entries : r \in CooEntryRefs(k, t, InResult(k))
  BY DEF CooAtomicRefs
<1>3. k \in 0 .. n - 1
  <2>1. n \in Nat
    BY <1>1, CooFacts
  <2> HIDE DEF n
  <2>2. QED
    BY <2>1, ShareIs
<1>4. A.coo.row_index[k] \in 0 .. m.rows - 1
  BY <1>1, <1>3, CooFacts, OptionsAre
<1>5. "y" \in ArrayNames /\ ArrayOf("y").n = m.rows
  BY ArraysNamedCooAtomic, ArrayOfName
<1>6. Sound(t, InResult(k))
  <2> DEFINE w == InResult(k)
  <2>1. /\ w.array = "y" /\ w.index = A.coo.row_index[k] /\ w.owner \in Threads
        /\ w.owner = Owner("y", m.rows, A.coo.row_index[k])
    BY <1>1, <1>3, InResultIs
  <2>2. "y" \in LookedUp
    BY DEF LookedUp
  <2> HIDE DEF w
  <2>3. Sound(t, w)
    BY <1>4, <1>5, <2>1, <2>2 DEF Sound
  <2>4. QED
    BY <2>3 DEF w
<1>7. QED
  BY <1>1, <1>2, <1>6, CooEntryIsSound

\* The string of a hybrid kernel is that of its two parts.
LEMMA HybridStringIs ==
  ASSUME OptionsInv, kernel = "hybrid", NEW t \in Threads
  PROVE  /\ String(t).size = EllString(t).size + CooString(t).size
         /\ String(t).refs \in Seq(References)
         /\ ToSet(String(t).refs) = EllRefs(t) \cup CooRefs(t)
         /\ \A Q : Occurrences(String(t).refs, Q) =
                     Occurrences(EllString(t).refs, Q) + Occurrences(CooString(t).refs, Q)
<1> DEFINE s == EllString(t).refs
           u == CooString(t).refs
<1>1. String(t).size = EllString(t).size + CooString(t).size /\ String(t).refs = s \o u
  BY DEF String, HybridString
<1>2. HasEll /\ HasWorkspace
  BY DEF HasEll, HasWorkspace
<1>3. s \in Seq(References) /\ ToSet(s) = EllRefs(t)
  BY <1>2, EllStringIs
<1>4. u \in Seq(References) /\ ToSet(u) = CooRefs(t)
  BY <1>2, CooStringIs
<1> HIDE DEF s, u
<1>5. /\ s \o u \in Seq(References) /\ ToSet(s \o u) = ToSet(s) \cup ToSet(u)
      /\ \A Q : Occurrences(s \o u, Q) = Occurrences(s, Q) + Occurrences(u, Q)
  BY <1>3, <1>4, ConcatIs
<1>6. QED
  BY <1>1, <1>3, <1>4, <1>5 DEF s, u

\* Every reference of a string is sound.
LEMMA StringIsSound ==
  ASSUME OptionsInv, NEW t \in Threads
  PROVE  /\ String(t).refs \in Seq(References)
         /\ \A r \in ToSet(String(t).refs) : Sound(t, r)
<1>1. CASE kernel = "triad"
  BY <1>1, TriadStringIs, TriadIsSound
<1>2. CASE kernel = "csr"
  BY <1>2, CsrStringIs, CsrIsSound
<1>3. CASE kernel = "ell"
  <2>1. HasEll /\ String(t) = EllString(t)
    BY <1>3 DEF HasEll, String
  <2>2. QED
    BY <2>1, EllStringIs, EllIsSound
<1>4. CASE kernel = "coo"
  <2>1. HasWorkspace /\ String(t) = CooString(t)
    BY <1>4 DEF HasWorkspace, String
  <2>2. QED
    BY <2>1, CooStringIs, CooIsSound
<1>5. CASE kernel = "coo_atomic"
  BY <1>5, CooAtomicStringIs, CooAtomicIsSound
<1>6. CASE kernel = "hybrid"
  <2>1. HasEll /\ HasWorkspace
    BY <1>6 DEF HasEll, HasWorkspace
  <2>2. QED
    BY <1>6, <2>1, HybridStringIs, EllIsSound, CooIsSound
<1>7. QED
  BY <1>1, <1>2, <1>3, <1>4, <1>5, <1>6 DEF OptionsInv, KernelNames

-----------------------------------------------------------------------------
(* The inductive invariant *)

\* The pages of the arrays distributed so far and the strings of the threads
\* so far are those of the functions.
PagesInv ==
  /\ Len(pages) \in 0 .. Len(Arrays)
  /\ pages = [k \in 1 .. Len(pages) |->
                Distributed(address, Arrays[k].size, Arrays[k].n, num_threads, PageSize)]
StringsInv ==
  /\ Len(strings) \in 0 .. num_threads
  /\ strings = [n \in 1 .. Len(strings) |-> String(n - 1)]

IInv == OptionsInv /\ PagesInv /\ StringsInv

\* A sequence given by its elements, with one more.
LEMMA AppendIs ==
  ASSUME NEW s, NEW e, Len(s) \in Nat, s = [n \in 1 .. Len(s) |-> s[n]]
  PROVE  /\ Len(Append(s, e)) = Len(s) + 1
         /\ Append(s, e) = [n \in 1 .. Len(s) + 1 |-> IF n = Len(s) + 1 THEN e ELSE s[n]]
<1> DEFINE S == {s[n] : n \in 1 .. Len(s)} \cup {e}
           u == [n \in 1 .. Len(s) + 1 |-> IF n = Len(s) + 1 THEN e ELSE s[n]]
<1>1. s \in Seq(S) /\ e \in S
  OBVIOUS
<1> HIDE DEF S
<1>2. /\ Append(s, e) \in Seq(S) /\ Len(Append(s, e)) = Len(s) + 1
      /\ \A i \in 1 .. Len(s) : Append(s, e)[i] = s[i]
      /\ Append(s, e)[Len(s) + 1] = e
  BY <1>1, AppendProperties
<1> DEFINE v == Append(s, e)
<1>3. v \in Seq(S) /\ Len(v) = Len(s) + 1
  BY <1>2
<1> HIDE DEF v
<1>4. v = [n \in 1 .. Len(s) + 1 |-> v[n]]
  <2>1. v = [n \in 1 .. Len(v) |-> v[n]]
    BY <1>3
  <2>2. QED
    BY <1>3, <2>1
<1>5. \A n \in 1 .. Len(s) + 1 : n # Len(s) + 1 => n \in 1 .. Len(s)
  OBVIOUS
<1>6. \A n \in 1 .. Len(s) + 1 : v[n] = IF n = Len(s) + 1 THEN e ELSE s[n]
  BY <1>2, <1>5 DEF v
<1>7. QED
  BY <1>3, <1>4, <1>6 DEF v

\* The invariant holds at first,
LEMMA InitIsInv == Init => IInv
<1> SUFFICES ASSUME Init PROVE IInv
  OBVIOUS
<1>1. OptionsInv /\ pages = <<>> /\ strings = <<>>
  BY DEF Init, OptionsInv
<1>2. Len(Arrays) \in Nat /\ num_threads \in Nat
  BY <1>1, ArraysDiffer, OptionsAre DEF ArraysAre
<1>3. Len(pages) = 0 /\ Len(strings) = 0 /\ 1 .. 0 = {}
  BY <1>1
<1>4. pages = [k \in 1 .. Len(pages) |->
                Distributed(address, Arrays[k].size, Arrays[k].n, num_threads, PageSize)]
  BY <1>1, <1>3
<1>5. strings = [n \in 1 .. Len(strings) |-> String(n - 1)]
  BY <1>1, <1>3
<1>6. QED
  BY <1>1, <1>2, <1>3, <1>4, <1>5 DEF IInv, PagesInv, StringsInv

\* and every step keeps it.
LEMMA NextKeepsInv == IInv /\ [Next]_vars => IInv'
<1> SUFFICES ASSUME IInv, [Next]_vars PROVE IInv'
  OBVIOUS
<1>1. UNCHANGED options
  BY DEF Next, Prepare, MemoryReferenceString, vars
<1>2. OptionsInv'
  <2>1. m' = m /\ A' = A /\ kernel' = kernel /\ num_threads' = num_threads /\ address' = address
    BY <1>1 DEF options
  <2>2. QED
    BY <2>1 DEF IInv, OptionsInv
<1>3. Arrays' = Arrays /\ (\A t : String(t)' = String(t)) /\ num_threads' = num_threads /\ address' = address
  BY <1>1, StringsStay DEF options
<1>4. Len(Arrays) \in Nat /\ num_threads \in Nat
  BY ArraysDiffer, OptionsAre DEF ArraysAre, IInv
<1> DEFINE Share(k) == Distributed(address, Arrays[k].size, Arrays[k].n, num_threads, PageSize)
<1>5. PagesInv'
  <2>1. CASE pages' = pages
    BY <1>3, <2>1 DEF IInv, PagesInv
  <2>2. CASE Prepare
    <3> DEFINE l == Len(pages)
               e == Share(l + 1)
    <3>1. l \in 0 .. Len(Arrays) /\ l < Len(Arrays) /\ pages = [k \in 1 .. l |-> Share(k)]
            /\ pages' = Append(pages, e)
      BY <2>2 DEF IInv, PagesInv, Prepare
    <3>2. pages = [k \in 1 .. l |-> pages[k]] /\ \A k \in 1 .. l : pages[k] = Share(k)
      <4> HIDE DEF l, Share
      <4>1. QED
        BY <3>1
    <3> HIDE DEF e
    <3>3. Len(pages') = l + 1 /\ pages' = [k \in 1 .. l + 1 |-> IF k = l + 1 THEN e ELSE pages[k]]
      BY <1>4, <3>1, <3>2, AppendIs
    <3>4. \A k \in 1 .. l + 1 : (IF k = l + 1 THEN e ELSE pages[k]) = Share(k)
      <4>1. \A k \in 1 .. l + 1 : k # l + 1 => k \in 1 .. l
        BY <1>4, <3>1
      <4> HIDE DEF l, Share
      <4>2. QED
        BY <3>2, <4>1 DEF e
    <3>5. pages' = [k \in 1 .. l + 1 |-> Share(k)]
      <4> HIDE DEF l, Share
      <4>1. QED
        BY <3>3, <3>4
    <3>6. l + 1 \in 0 .. Len(Arrays)
      BY <1>4, <3>1
    <3> HIDE DEF l
    <3>7. Len(pages') \in 0 .. Len(Arrays) /\ pages' = [k \in 1 .. Len(pages') |-> Share(k)]
      BY <3>3, <3>5, <3>6
    <3>8. QED
      BY <1>3, <3>7 DEF PagesInv
  <2>3. QED
    BY <2>1, <2>2 DEF Next, MemoryReferenceString, vars
<1>6. StringsInv'
  <2>1. CASE strings' = strings
    BY <1>3, <2>1 DEF IInv, StringsInv
  <2>2. CASE MemoryReferenceString
    <3> DEFINE l == Len(strings)
               e == String(l)
    <3>1. l \in 0 .. num_threads /\ l < num_threads /\ strings = [n \in 1 .. l |-> String(n - 1)] /\ strings' = Append(strings, e)
      BY <2>2 DEF IInv, StringsInv, MemoryReferenceString
    <3>2. strings = [n \in 1 .. l |-> strings[n]] /\ \A n \in 1 .. l : strings[n] = String(n - 1)
      <4> HIDE DEF l
      <4>1. QED
        BY <3>1
    <3> HIDE DEF e
    <3>3. Len(strings') = l + 1 /\ strings' = [n \in 1 .. l + 1 |-> IF n = l + 1 THEN e ELSE strings[n]]
      BY <1>4, <3>1, <3>2, AppendIs
    <3>4. \A n \in 1 .. l + 1 : (IF n = l + 1 THEN e ELSE strings[n]) = String(n - 1)
      <4>1. \A n \in 1 .. l + 1 : n # l + 1 => n \in 1 .. l
        BY <1>4, <3>1
      <4>2. (l + 1) - 1 = l
        BY <1>4, <3>1
      <4> HIDE DEF l
      <4>3. e = String((l + 1) - 1)
        BY <4>2 DEF e
      <4>4. QED
        BY <3>2, <4>1, <4>3
    <3>5. strings' = [n \in 1 .. l + 1 |-> String(n - 1)]
      <4> HIDE DEF l
      <4>1. QED
        BY <3>3, <3>4
    <3>6. l + 1 \in 0 .. num_threads
      BY <1>4, <3>1
    <3> HIDE DEF l
    <3>7. Len(strings') \in 0 .. num_threads /\ strings' = [n \in 1 .. Len(strings') |-> String(n - 1)]
      BY <3>3, <3>5, <3>6
    <3>8. [n \in 1 .. Len(strings') |-> String(n - 1)] = [n \in 1 .. Len(strings)' |-> String(n - 1)']
      BY <1>3
    <3>9. QED
      BY <1>3, <3>7, <3>8 DEF StringsInv
  <2>3. QED
    BY <2>1, <2>2 DEF Next, Prepare, vars
<1>7. QED
  BY <1>2, <1>5, <1>6 DEF IInv

\* The inductive invariant, always: the options are what was chosen, and the
\* pages and strings made so far are those of the functions (TraceConfig and
\* the kernels' memory_reference_string).
THEOREM StringsAreThoseOfTheFunctions == Spec => []IInv
<1>1. QED
  BY InitIsInv, NextKeepsInv, PTL DEF Spec

\* What the invariant says of the thread t whose string there is.
LEMMA StringOfThread ==
  ASSUME IInv, NEW t \in Traced
  PROVE  /\ t \in Threads /\ strings[t + 1] = String(t) /\ RefsOf(t) = ToSet(String(t).refs)
<1> DEFINE l == Len(strings)
<1>1. l \in 0 .. num_threads /\ strings = [n \in 1 .. l |-> String(n - 1)] /\ num_threads \in Nat
  BY OptionsAre DEF IInv, StringsInv
<1>2. t \in 0 .. l - 1
  BY DEF Traced
<1> HIDE DEF l
<1>3. t + 1 \in 1 .. l /\ (t + 1) - 1 = t /\ t \in Threads
  BY <1>1, <1>2 DEF Threads
<1>4. strings[t + 1] = String((t + 1) - 1)
  BY <1>1, <1>3
<1>5. QED
  BY <1>3, <1>4 DEF RefsOf

-----------------------------------------------------------------------------
(* Owners and pages *)

\* Where a reference's element is placed, once the pages of its array are
\* distributed.
LEMMA PageOfArray ==
  ASSUME IInv, NEW r, r.array \in ArrayNames, PagesOf(r.array) <= Len(pages)
  PROVE  LET a == ArrayOf(r.array) IN
         /\ a.size \in {1, 2} /\ a.n \in Nat
         /\ PlacedWith(r) = Distributed(address, a.size, a.n, num_threads, PageSize)
                              [(address + a.size * r.index) \div PageSize]
<1>1. OptionsInv
  BY DEF IInv
<1>2. PICK k \in DOMAIN Arrays : r.array = Arrays[k].name
  BY DEF ArrayNames
<1>3. /\ ArrayOf(r.array) = Arrays[k] /\ PagesOf(r.array) = k
      /\ Arrays[k].size \in {1, 2} /\ Arrays[k].n \in Nat
  BY <1>1, <1>2, ArrayIs
<1>4. k \in 1 .. Len(pages)
  <2>1. k \in 1 .. Len(Arrays) /\ Len(Arrays) \in Nat
    BY <1>1, ArraysDiffer DEF ArraysAre
  <2>2. Len(pages) \in Nat
    BY <2>1 DEF IInv, PagesInv
  <2>3. QED
    BY <1>3, <2>1, <2>2
<1>5. pages[k] = Distributed(address, Arrays[k].size, Arrays[k].n, num_threads, PageSize)
  <2> DEFINE l == Len(pages)
             Share(i) == Distributed(address, Arrays[i].size, Arrays[i].n, num_threads, PageSize)
  <2>1. pages = [i \in 1 .. l |-> Share(i)] /\ k \in 1 .. l
    BY <1>4 DEF IInv, PagesInv
  <2> HIDE DEF l, Share
  <2>2. pages[k] = Share(k)
    BY <2>1
  <2>3. QED
    BY <2>2 DEF Share
<1>6. PlacedWith(r) = pages[k][(address + Arrays[k].size * r.index) \div PageSize]
  BY <1>3 DEF PlacedWith
<1>7. QED
  BY <1>3, <1>5, <1>6

\* The page of an element that lies behind the start of the elements of its
\* thread is given to that thread: p is less than a page.
LEMMA PageOfShare ==
  ASSUME NEW p \in Nat, NEW P \in Nat \ {0}, p < P, NEW size \in {1, 2}, NEW n \in Nat,
         NEW T \in Nat \ {0}, NEW t \in 0 .. T - 1, NEW index \in ThreadRange(n, T, t),
         p + size * ThreadStart(n, T, t) <= (p + size * index) - ((p + size * index) % P)
  PROVE  Distributed(p, size, n, T, P)[(p + size * index) \div P] = t
<1> DEFINE at == p + size * index
           page == at \div P
           a == ThreadStart(n, T, t)
           b == ThreadStart(n, T, t + 1)
           start == page * P
           pa == p + size * a
           pb == p + size * b
           last == p + n * size
           num_pages == NumPages(p, size, n, P)
           owners == OwnersOf(p, size, n, T, start)
<1>1. a \in 0 .. n /\ b \in 0 .. n /\ a <= b /\ index \in a .. b - 1
  <2>1. t \in Nat /\ t + 1 \in Nat /\ t <= t + 1
    OBVIOUS
  <2>2. a \in 0 .. n /\ b \in 0 .. n /\ a <= b
    BY <2>1, ThreadStartGrows
  <2>3. QED
    BY <2>2 DEF ThreadRange
<1> HIDE DEF a, b
<1>2. /\ size * a \in Nat /\ size * b \in Nat /\ size * index \in Nat /\ n * size \in Nat
      /\ size * index < size * b /\ size * b <= n * size
  <2>1. size = 1 \/ size = 2
    OBVIOUS
  <2>2. QED
    BY <1>1, <2>1
<1>3. at \in Nat /\ pa \in Nat /\ pb \in Nat /\ last \in Nat /\ at < pb /\ pb <= last
  BY <1>2
<1> HIDE DEF at
<1>4. /\ page \in Nat /\ start \in Nat /\ start <= at /\ at < start + P /\ at % P = at - start
  <2>1. /\ page \in Nat /\ start \in Nat /\ start <= at /\ at < start + P
        /\ at % P \in 0 .. P - 1 /\ at = start + (at % P)
    BY <1>3, QuotientAndRest
  <2> DEFINE rest == at % P
  <2> HIDE DEF start, rest
  <2>2. start \in Nat /\ rest \in 0 .. P - 1 /\ at = start + rest
    BY <2>1 DEF rest
  <2>3. rest = at - start
    BY <2>2
  <2>4. QED
    BY <2>1, <2>3 DEF rest
<1>5. p % P = p /\ AlignDown(p, P) = 0
  <2>1. p % P = p
    OBVIOUS
  <2>2. QED
    BY <2>1 DEF AlignDown
<1>6. pa <= start
  <2>1. pa <= at - (at % P)
    BY DEF at, a
  <2> HIDE DEF pa, start
  <2>2. QED
    BY <1>3, <1>4, <2>1
<1> HIDE DEF pa, pb, last, start, page
<1>7. num_pages \in Nat /\ last <= num_pages * P
  <2>1. last - 0 = last
    BY <1>3
  <2>2. num_pages = CeilDiv(last, P)
    BY <1>5, <2>1 DEF NumPages, last
  <2> HIDE DEF num_pages
  <2>3. QED
    BY <1>3, <2>2, CeilDivCovers
<1> HIDE DEF num_pages
<1>8. page \in 0 .. num_pages - 1
  <2>1. SUFFICES ASSUME num_pages <= page PROVE FALSE
    BY <1>4, <1>7
  <2>2. num_pages * P <= page * P /\ num_pages * P \in Nat
    BY <1>4, <1>7, <2>1, ProductGrows
  <2> DEFINE x == num_pages * P
  <2>3. x <= start /\ x \in Nat /\ last <= x
    BY <1>7, <2>2 DEF start
  <2> HIDE DEF x
  <2>4. QED
    BY <1>3, <1>4, <2>3
<1>9. PageAddress(p, page, P) = start
  <2>1. PageAddress(p, page, P) = 0 + page * P
    BY <1>5 DEF PageAddress
  <2>2. QED
    BY <1>4, <2>1 DEF start
<1>10. t \in owners /\ \A u \in owners : u = t
  <2>1. pa <= start /\ start < pb
    BY <1>3, <1>4, <1>6
  <2>2. t \in owners
    BY <2>1 DEF OwnersOf, pa, pb, a, b
  <2>3. \A u, w \in owners : u = w
    <3>1. size \in Nat \ {0}
      OBVIOUS
    <3>2. QED
      BY <1>4, <3>1, PageHasOneOwner
  <2>4. QED
    BY <2>2, <2>3
<1>11. ThreadOfPage(p, size, n, T, page, P) =
         IF owners = {} THEN T - 1 ELSE CHOOSE u \in owners : \A w \in owners : u <= w
  BY <1>9 DEF ThreadOfPage
<1> HIDE DEF owners
<1>12. (CHOOSE u \in owners : \A w \in owners : u <= w) = t
  <2>1. t <= t
    OBVIOUS
  <2>2. \A w \in owners : t <= w
    BY <1>10, <2>1
  <2>3. QED
    BY <1>10, <2>2
<1>13. ThreadOfPage(p, size, n, T, page, P) = t
  BY <1>10, <1>11, <1>12
<1>14. Distributed(p, size, n, T, P)[page] = t
  BY <1>8, <1>13 DEF Distributed, num_pages
<1>15. QED
  BY <1>14 DEF page, at

\* An array that starts within the first page: an element is looked up on its page.
LookupIsPlace(p, P, size, n, T, index) ==
  ThreadOfIndex(p, size, n, index, T, P) =
    Distributed(p, size, n, T, P)[(p + size * index) \div P]

\* The lookup of an element of an array that starts within the first page
\* finds the thread of its page.
LEMMA LookupWithinPage ==
  ASSUME NEW p \in Nat, NEW P \in Nat \ {0}, p < P, NEW size \in Nat \ {0}, NEW n \in Nat,
         NEW T \in Nat \ {0}, NEW index \in 0 .. n - 1
  PROVE  LookupIsPlace(p, P, size, n, T, index)
<1>1. /\ ThreadOfIndex(p, size, n, index, T, P) =
           Distributed(p, size, n, T, P)[((p + (size * index)) \div P) - (p \div P)]
      /\ ThreadOfIndex(p, size, n, index, T, P) \in 0 .. T - 1
  BY LookupFindsPlace, Zenon
<1> DEFINE at == p + (size * index)
<1>2. p \div P = 0
  OBVIOUS
<1>3. at \in Nat
  OBVIOUS
<1> HIDE DEF at
<1>4. (at \div P) - (p \div P) = at \div P
  BY <1>2, <1>3
<1>5. QED
  BY <1>1, <1>4 DEF at, LookupIsPlace

\* The owner written into a reference is the thread that distribute_pages
\* gives the page to: for x (and y in atomic COO), which are looked up, and
\* for the arrays shared by element where the page starts with that thread's
\* elements; for every matrix, kernel, number of threads, address and page
\* size.
THEOREM OwnersAreThoseOfPages == Spec => []OwnersMatchPages
<1>1. IInv => OwnersMatchPages
  <2> SUFFICES ASSUME IInv, NEW t \in Traced, NEW r \in RefsOf(t),
                      r.array \in ArrayNames, PagesOf(r.array) <= Len(pages)
               PROVE  /\ r.array \in LookedUp /\ r.index # UndefinedColumn => r.owner = PlacedWith(r)
                      /\ r.array \in SharedByElement \ LookedUp /\ StartsWithOwner(r)
                           => r.owner = PlacedWith(r)
    BY DEF OwnersMatchPages
  <2> DEFINE a == ArrayOf(r.array)
  <2>1. OptionsInv
    BY DEF IInv
  <2>2. t \in Threads /\ Sound(t, r)
    BY <2>1, StringOfThread, StringIsSound
  <2>3. /\ address \in Nat /\ address < PageSize /\ PageSize \in Nat \ {0} /\ num_threads \in Nat \ {0}
        /\ Threads = 0 .. num_threads - 1
    BY <2>1, OptionsAre
  <2>4. /\ a.size \in {1, 2} /\ a.n \in Nat
        /\ PlacedWith(r) = Distributed(address, a.size, a.n, num_threads, PageSize)
                             [(address + a.size * r.index) \div PageSize]
    BY PageOfArray
  <2>5. ASSUME r.array \in LookedUp, r.index # UndefinedColumn
        PROVE  r.owner = PlacedWith(r)
    <3>1. a.size = 2
      <4>1. kernel # "triad" => HasArray("x", 2, m.columns)
        BY <2>1, ArraysNamedCsr, ArraysNamedEll, ArraysNamedCoo, ArraysNamedCooAtomic, ArraysNamedHybrid
           DEF OptionsInv, KernelNames
      <4>2. kernel = "triad" => ArrayNames = {"a", "b", "c"}
        BY ArraysNamedTriad
      <4>3. CASE r.array = "x"
        <5>1. kernel # "triad"
          BY <4>2, <4>3
        <5>2. QED
          BY <2>1, <4>1, <4>3, <5>1, ArrayOfName
      <4>4. CASE r.array = "y" /\ kernel = "coo_atomic"
        BY <2>1, <4>4, ArraysNamedCooAtomic, ArrayOfName
      <4>5. QED
        BY <2>5, <4>3, <4>4 DEF LookedUp
    <3>2. r.index \in 0 .. a.n - 1 /\ r.owner = Owner(r.array, a.n, r.index)
      BY <2>2, <2>5 DEF Sound
    <3>3. r.owner = ThreadOfIndex(address, 2, a.n, r.index, num_threads, PageSize)
      BY <3>2 DEF Owner
    <3> HIDE DEF a
    <3>4. 2 \in Nat \ {0}
      OBVIOUS
    <3>5. ThreadOfIndex(address, 2, a.n, r.index, num_threads, PageSize) =
            Distributed(address, 2, a.n, num_threads, PageSize)[(address + (2 * r.index)) \div PageSize]
      <4> DEFINE n == a.n
                 index == r.index
      <4>1. n \in Nat /\ index \in 0 .. n - 1
        BY <2>4, <3>2
      <4> HIDE DEF n, index
      <4>2. LookupIsPlace(address, PageSize, 2, n, num_threads, index)
        BY <2>3, <3>4, <4>1, LookupWithinPage
      <4>3. QED
        BY <4>2 DEF LookupIsPlace, n, index
    <3>6. QED
      BY <2>4, <3>1, <3>3, <3>5
  <2>6. ASSUME r.array \in SharedByElement \ LookedUp, StartsWithOwner(r)
        PROVE  r.owner = PlacedWith(r)
    <3>1. r.owner = t /\ r.index \in ThreadRange(a.n, num_threads, t)
      BY <2>2, <2>6 DEF Sound
    <3>2. address + a.size * ThreadStart(a.n, num_threads, t)
            <= (address + a.size * r.index) - ((address + a.size * r.index) % PageSize)
      BY <2>6, <3>1 DEF StartsWithOwner
    <3> HIDE DEF a
    <3>3. QED
      BY <2>2, <2>3, <2>4, <3>1, <3>2, PageOfShare
  <2>7. QED
    BY <2>5, <2>6
<1>2. QED
  BY <1>1, StringsAreThoseOfTheFunctions, PTL

-----------------------------------------------------------------------------
(* Strings and schedules *)

CellsIn(R, names) == {<<r.array, r.index>> : r \in {s \in R : s.array \in names}}

\* The rows and entries a thread runs over.
LEMMA RunRowsAre ==
  ASSUME OptionsInv, NEW t \in Threads
  PROVE  /\ RunRows(t) = ThreadRange(m.rows, num_threads, t) /\ RunRows(t) \subseteq 0 .. m.rows - 1
         /\ HasCoo => RunEntries(t) = ThreadRange(A.coo.size, num_threads, t)
<1>1. m.rows \in Nat /\ num_threads \in Nat \ {0} /\ t \in 0 .. num_threads - 1
  BY OptionsAre
<1>2. RunRows(t) = ThreadRange(m.rows, num_threads, t)
  BY <1>1, SharesFollowSchedule DEF RunRows
<1>3. ThreadRange(m.rows, num_threads, t) \subseteq 0 .. m.rows - 1
  BY <1>1, ShareIs
<1>4. ASSUME HasCoo
      PROVE  RunEntries(t) = ThreadRange(A.coo.size, num_threads, t)
  <2>1. A.coo.size \in Nat
    BY <1>4, CooFacts
  <2>2. QED
    BY <1>1, <2>1, SharesFollowSchedule DEF RunEntries
<1>5. QED
  BY <1>2, <1>3, <1>4

\* A thread without rows starts behind the last.
LEMMA IdleShare ==
  ASSUME NEW n \in Nat \ {0}, NEW T \in Nat \ {0}, NEW t \in 0 .. T - 1,
         ThreadRange(n, T, t) = {}
  PROVE  ThreadStart(n, T, t) = n
<1> DEFINE c == CeilDiv(n, T)
           x == t * c
           y == (t + 1) * c
           a == ThreadStart(n, T, t)
           b == ThreadStart(n, T, t + 1)
<1>1. c \in Nat /\ c > 0
  BY CeilDivCovers
<1>2. x \in Nat /\ y = x + c
  BY <1>1, NextMultiple
<1>3. a = AtMost(n, x) /\ b = AtMost(n, y) /\ ThreadRange(n, T, t) = a .. b - 1
  BY DEF ThreadStart, ThreadRange
<1> HIDE DEF a, b, x, y, c
<1>4. CASE x >= n
  BY <1>2, <1>3, <1>4 DEF AtMost, a
<1>5. CASE x < n
  <2>1. a = x /\ b > x /\ b \in Nat
    BY <1>1, <1>2, <1>3, <1>5 DEF AtMost
  <2>2. x \in a .. b - 1
    BY <1>2, <2>1
  <2>3. QED
    BY <1>3, <2>2
<1>6. QED
  BY <1>2, <1>4, <1>5

\* The cells of the references to an element.
LEMMA CellOf ==
  /\ \A name, k, t : Ref(name, k, t).array = name /\ Ref(name, k, t).index = k
  /\ \A j : OfX(j).array = "x" /\ OfX(j).index = j
  /\ \A k : InResult(k).array = "y" /\ InResult(k).index = A.coo.row_index[k]
  /\ \A k, t : InWorkspace(k, t).array = "workspace"
  /\ \A i, j, t : Reduction(i, j, t)[1].array = "workspace"
BY DEF Ref, OfX, InResult, InWorkspace, Reduction

\* The string of a CSR kernel touches what its loops do; a thread without rows
\* reads the last of row_ptr.
LEMMA CsrFollows ==
  ASSUME OptionsInv, kernel = "csr", NEW t \in Threads
  PROVE  CellsIn(ToSet(String(t).refs), Predicted) =
           {c \in Touched(t) : c[1] \in Predicted}
             \cup IF RunRows(t) = {} THEN {<<"row_ptr", m.rows>>} ELSE {}
<1> DEFINE ptr == A.csr.row_ptr
           column == A.csr.column_index
           a == ThreadStart(m.rows, num_threads, t)
           b == ThreadStart(m.rows, num_threads, t + 1)
           rows == ThreadRange(m.rows, num_threads, t)
           R == ToSet(String(t).refs)
           idle == IF rows = {} THEN {<<"row_ptr", m.rows>>} ELSE {}
           touched == UNION {{<<"row_ptr", i>>, <<"row_ptr", i + 1>>, <<"y", i>>}
                  \cup UNION {{<<"column_index", k>>, <<"value", k>>,
                               <<"x", column[k]>>} : k \in ptr[i] .. ptr[i + 1] - 1}
                : i \in rows}
<1>1. rows = RunRows(t) /\ rows = a .. b - 1 /\ a \in 0 .. m.rows /\ b \in 0 .. m.rows /\ m.rows \in Nat \ {0}
  BY OptionsAre, RunRowsAre, ShareIs
<1>2. Touched(t) = touched
  BY <1>1 DEF Touched
<1>3. Predicted = {"row_ptr", "column_index", "value", "x", "y"}
  BY ArraysNamedCsr DEF Predicted
<1>4. R = {Ref("row_ptr", a, t)} \cup CsrRefs(t)
  BY CsrStringIs
<1>5. CsrRefs(t) = UNION {{Ref("row_ptr", i + 1, t), Ref("y", i, t)}
           \cup UNION {{Ref("column_index", k, t), Ref("value", k, t), OfX(column[k])}
                       : k \in ptr[i] .. ptr[i + 1] - 1} : i \in rows}
  BY DEF CsrRefs
<1>6. rows = {} => a = m.rows
  BY <1>1, OptionsAre, IdleShare
<1> HIDE DEF ptr, column, a, b, rows, R, idle
<1>7. ASSUME NEW r \in R
      PROVE  <<r.array, r.index>> \in touched \cup idle /\ r.array \in Predicted
  <2>1. CASE r = Ref("row_ptr", a, t)
    <3>1. r.array = "row_ptr" /\ r.index = a
      BY <2>1, CellOf
    <3>2. rows = {} => <<"row_ptr", a>> \in idle
      BY <1>6 DEF idle
    <3>3. rows # {} => a \in rows
      BY <1>1
    <3>4. a \in rows => <<"row_ptr", a>> \in touched
      OBVIOUS
    <3> HIDE DEF touched
    <3>5. QED
      BY <1>3, <3>1, <3>2, <3>3, <3>4
  <2>2. CASE r \in CsrRefs(t)
    <3>1. PICK i \in rows : r \in {Ref("row_ptr", i + 1, t), Ref("y", i, t)}
           \cup UNION {{Ref("column_index", k, t), Ref("value", k, t), OfX(column[k])}
                       : k \in ptr[i] .. ptr[i + 1] - 1}
      BY <1>5, <2>2
    <3>2. /\ <<"row_ptr", i + 1>> \in touched /\ <<"y", i>> \in touched
          /\ \A k \in ptr[i] .. ptr[i + 1] - 1 :
               <<"column_index", k>> \in touched /\ <<"value", k>> \in touched /\ <<"x", column[k]>> \in touched
      OBVIOUS
    <3> HIDE DEF touched
    <3>3. CASE r = Ref("row_ptr", i + 1, t) \/ r = Ref("y", i, t)
      BY <1>3, <3>2, <3>3, CellOf
    <3>4. CASE r \in UNION {{Ref("column_index", k, t), Ref("value", k, t), OfX(column[k])}
                            : k \in ptr[i] .. ptr[i + 1] - 1}
      <4>1. PICK k \in ptr[i] .. ptr[i + 1] - 1 :
              r = Ref("column_index", k, t) \/ r = Ref("value", k, t) \/ r = OfX(column[k])
        BY <3>4
      <4>2. <<"column_index", k>> \in touched /\ <<"value", k>> \in touched /\ <<"x", column[k]>> \in touched
        BY <3>2
      <4>3. CASE r = Ref("column_index", k, t)
        BY <1>3, <4>2, <4>3, CellOf
      <4>4. CASE r = Ref("value", k, t)
        BY <1>3, <4>2, <4>4, CellOf
      <4>5. CASE r = OfX(column[k])
        BY <1>3, <4>2, <4>5, CellOf
      <4>6. QED
        BY <4>1, <4>3, <4>4, <4>5
    <3>5. QED
      BY <3>1, <3>3, <3>4
  <2>3. QED
    BY <1>4, <2>1, <2>2
<1>8. ASSUME NEW c \in touched \cup idle
      PROVE  \E r \in R : c = <<r.array, r.index>> /\ c[1] \in Predicted
  <2>1. CASE c \in idle
    <3>1. c = <<"row_ptr", a>>
      BY <1>6, <2>1 DEF idle
    <3>2. QED
      BY <1>3, <1>4, <3>1, CellOf
  <2>2. CASE c \in touched
    <3>1. PICK i \in rows : c \in {<<"row_ptr", i>>, <<"row_ptr", i + 1>>, <<"y", i>>}
                  \cup UNION {{<<"column_index", k>>, <<"value", k>>,
                               <<"x", column[k]>>} : k \in ptr[i] .. ptr[i + 1] - 1}
      BY <2>2
    <3> HIDE DEF touched
    <3>2. \A l \in rows :
            /\ Ref("row_ptr", l + 1, t) \in R /\ Ref("y", l, t) \in R
            /\ \A k \in ptr[l] .. ptr[l + 1] - 1 :
                 Ref("column_index", k, t) \in R /\ Ref("value", k, t) \in R /\ OfX(column[k]) \in R
      BY <1>4, <1>5
    <3>3. CASE c = <<"row_ptr", i>>
      <4>1. CASE i = a
        BY <1>3, <1>4, <3>3, <4>1, CellOf
      <4>2. CASE i # a
        <5>1. i - 1 \in rows /\ (i - 1) + 1 = i
          BY <1>1, <4>2
        <5>2. Ref("row_ptr", i, t) \in R
          BY <3>2, <5>1
        <5>3. QED
          BY <1>3, <3>3, <5>2, CellOf
      <4>3. QED
        BY <4>1, <4>2
    <3>4. CASE c = <<"row_ptr", i + 1>>
      BY <1>3, <3>2, <3>4, CellOf
    <3>5. CASE c = <<"y", i>>
      BY <1>3, <3>2, <3>5, CellOf
    <3>6. CASE \E k \in ptr[i] .. ptr[i + 1] - 1 :
                 c = <<"column_index", k>> \/ c = <<"value", k>> \/ c = <<"x", column[k]>>
      BY <1>3, <3>2, <3>6, CellOf
    <3>7. QED
      BY <3>1, <3>3, <3>4, <3>5, <3>6
  <2>3. QED
    BY <2>1, <2>2
<1> HIDE DEF touched
<1>9. CellsIn(R, Predicted) = {c \in touched : c[1] \in Predicted} \cup idle
  <2>1. \A c \in CellsIn(R, Predicted) : c \in {d \in touched : d[1] \in Predicted} \cup idle
    <3>1. ASSUME NEW c \in CellsIn(R, Predicted)
          PROVE  c \in {d \in touched : d[1] \in Predicted} \cup idle
      <4>1. PICK r \in R : r.array \in Predicted /\ c = <<r.array, r.index>>
        BY DEF CellsIn
      <4>2. c \in touched \cup idle /\ c[1] \in Predicted
        BY <1>7, <4>1
      <4>3. QED
        BY <4>2
    <3>2. QED
      BY <3>1
  <2>2. \A c \in touched \cup idle : c \in CellsIn(R, Predicted)
    <3>1. ASSUME NEW c \in touched \cup idle
          PROVE  c \in CellsIn(R, Predicted)
      <4>1. PICK r \in R : c = <<r.array, r.index>> /\ c[1] \in Predicted
        BY <1>8
      <4>2. r.array \in Predicted
        BY <4>1
      <4>3. QED
        BY <4>1, <4>2 DEF CellsIn
    <3>2. QED
      BY <3>1
  <2>3. QED
    BY <2>1, <2>2
<1>10. QED
  BY <1>1, <1>2, <1>9 DEF R, idle

\* Two sets of cells are equal when each cell of one is in the other.
LEMMA CellsAre ==
  ASSUME NEW R, NEW names, NEW touched,
         \A r \in R : r.array \in names => <<r.array, r.index>> \in touched,
         \A c \in touched : c[1] \in names => \E r \in R : c = <<r.array, r.index>>
  PROVE  CellsIn(R, names) = {c \in touched : c[1] \in names}
<1>1. ASSUME NEW c \in CellsIn(R, names)
      PROVE  c \in touched /\ c[1] \in names
  <2>1. PICK r \in R : r.array \in names /\ c = <<r.array, r.index>>
    BY DEF CellsIn
  <2>2. QED
    BY <2>1
<1>2. ASSUME NEW c \in touched, c[1] \in names
      PROVE  c \in CellsIn(R, names)
  <2>1. PICK r \in R : c = <<r.array, r.index>>
    BY <1>2
  <2>2. r.array \in names
    BY <1>2, <2>1
  <2>3. QED
    BY <2>1, <2>2 DEF CellsIn
<1>3. QED
  BY <1>1, <1>2

\* What the references of the rows of an ELL matrix touch, with references to
\* y in the same rows only besides.
LEMMA EllFollows ==
  ASSUME OptionsInv, HasEll, NEW t \in Threads, NEW Rest,
         \A r \in Rest : r.array \in Predicted =>
           r.array = "y" /\ r.index \in ThreadRange(m.rows, num_threads, t)
  PROVE  CellsIn(EllRefs(t) \cup Rest, Predicted) = {c \in Touched(t) : c[1] \in Predicted}
<1> DEFINE length == A.ell.row_length
           column == A.ell.column_index
           rows == ThreadRange(m.rows, num_threads, t)
           R == EllRefs(t) \cup Rest
           Places(i) == i * length .. (i + 1) * length - 1
           touched == UNION {{<<"y", i>>}
                  \cup UNION {{<<"ell_column_index", k>>, <<"ell_value", k>>,
                               <<"x", column[k]>>} : k \in Places(i)} : i \in rows}
<1>1. rows = RunRows(t) /\ rows \subseteq 0 .. m.rows - 1 /\ m.rows \in Nat \ {0}
  BY OptionsAre, RunRowsAre
<1>2. Touched(t) = touched
  <2> DEFINE start == [i \in 0 .. m.rows |-> i * A.ell.row_length]
  <2>1. Touched(t) = UNION {{<<"y", i>>}
                  \cup UNION {{<<"ell_column_index", k>>, <<"ell_value", k>>,
                               <<"x", column[k]>>} : k \in start[i] .. start[i + 1] - 1}
                : i \in rows}
    BY <1>1 DEF Touched, HasEll
  <2>2. \A i \in rows : start[i] = i * length /\ start[i + 1] = (i + 1) * length
    <3>1. \A i \in rows : i \in 0 .. m.rows /\ i + 1 \in 0 .. m.rows
      BY <1>1
    <3> HIDE DEF rows
    <3>2. QED
      BY <3>1
  <2> HIDE DEF start, rows, column, length
  <2>3. \A i \in rows : start[i] .. start[i + 1] - 1 = Places(i)
    BY <2>2
  <2>4. QED
    BY <2>1, <2>3
<1>3. EllRefs(t) = UNION {{Ref("y", i, t)}
           \cup UNION {{Ref("ell_column_index", k, t), Ref("ell_value", k, t), OfX(column[k])}
                       : k \in Places(i)} : i \in rows}
  BY DEF EllRefs
<1> HIDE DEF length, column, rows, R, Places
<1>4. /\ \A i \in rows : <<"y", i>> \in touched
      /\ \A i \in rows : \A k \in Places(i) :
           <<"ell_column_index", k>> \in touched /\ <<"ell_value", k>> \in touched
             /\ <<"x", column[k]>> \in touched
  OBVIOUS
<1>5. ASSUME NEW r \in R, r.array \in Predicted
      PROVE  <<r.array, r.index>> \in touched
  <2> HIDE DEF touched
  <2>1. CASE r \in Rest
    BY <1>4, <1>5, <2>1 DEF rows
  <2>2. CASE r \in EllRefs(t)
    <3>1. PICK i \in rows : r \in {Ref("y", i, t)}
           \cup UNION {{Ref("ell_column_index", k, t), Ref("ell_value", k, t),
             OfX(column[k])} : k \in Places(i)}
      BY <1>3, <2>2
    <3>2. CASE r = Ref("y", i, t)
      BY <1>4, <3>2, CellOf
    <3>3. CASE r \in UNION {{Ref("ell_column_index", k, t), Ref("ell_value", k, t),
                 OfX(column[k])} : k \in Places(i)}
      <4>1. PICK k \in Places(i) :
              r = Ref("ell_column_index", k, t) \/ r = Ref("ell_value", k, t) \/ r = OfX(column[k])
        BY <3>3
      <4>2. <<"ell_column_index", k>> \in touched /\ <<"ell_value", k>> \in touched
              /\ <<"x", column[k]>> \in touched
        BY <1>4
      <4>3. CASE r = Ref("ell_column_index", k, t)
        BY <4>2, <4>3, CellOf
      <4>4. CASE r = Ref("ell_value", k, t)
        BY <4>2, <4>4, CellOf
      <4>5. CASE r = OfX(column[k])
        BY <4>2, <4>5, CellOf
      <4>6. QED
        BY <4>1, <4>3, <4>4, <4>5
    <3>4. QED
      BY <3>1, <3>2, <3>3
  <2>3. QED
    BY <2>1, <2>2 DEF R
<1>6. ASSUME NEW c \in touched
      PROVE  \E r \in R : c = <<r.array, r.index>>
  <2>1. PICK i \in rows : c \in {<<"y", i>>}
           \cup UNION {{<<"ell_column_index", k>>, <<"ell_value", k>>, <<"x", column[k]>>} : k \in Places(i)}
    OBVIOUS
  <2> HIDE DEF touched
  <2>2. /\ Ref("y", i, t) \in R
        /\ \A k \in Places(i) :
             Ref("ell_column_index", k, t) \in R /\ Ref("ell_value", k, t) \in R /\ OfX(column[k]) \in R
    BY <1>3 DEF R
  <2>3. CASE c = <<"y", i>>
    BY <2>2, <2>3, CellOf
  <2>4. CASE c \in UNION {{<<"ell_column_index", k>>, <<"ell_value", k>>, <<"x", column[k]>>} : k \in Places(i)}
    <3>1. PICK k \in Places(i) :
            c = <<"ell_column_index", k>> \/ c = <<"ell_value", k>> \/ c = <<"x", column[k]>>
      BY <2>4
    <3>2. Ref("ell_column_index", k, t) \in R /\ Ref("ell_value", k, t) \in R /\ OfX(column[k]) \in R
      BY <2>2
    <3>3. QED
      BY <3>1, <3>2, CellOf
  <2>5. QED
    BY <2>1, <2>3, <2>4
<1> HIDE DEF touched
<1>7. CellsIn(R, Predicted) = {c \in touched : c[1] \in Predicted}
  BY <1>5, <1>6, CellsAre
<1>8. QED
  BY <1>2, <1>7 DEF R

FollowsEntries(t, target, Rest) ==
  CellsIn((UNION {CooEntryRefs(k, t, target[k]) : k \in ThreadRange(A.coo.size, num_threads, t)})
            \cup Rest, Predicted) = {c \in Touched(t) : c[1] \in Predicted}

\* What the references of the entries of a coordinate matrix touch, with
\* references besides that are not predicted: y only where it is the target.
LEMMA CooFollows ==
  ASSUME OptionsInv, kernel \in {"coo", "coo_atomic"}, NEW t \in Threads, NEW Rest, NEW target,
         \A r \in Rest : r.array \notin Predicted,
         \A k \in 0 .. A.coo.size - 1 :
           IF "y" \in Predicted
           THEN target[k].array = "y" /\ target[k].index = A.coo.row_index[k]
           ELSE target[k].array \notin Predicted
  PROVE  FollowsEntries(t, target, Rest)
<1> DEFINE column == A.coo.column_index
           row == A.coo.row_index
           n == A.coo.size
           entries == ThreadRange(n, num_threads, t)
           E == UNION {CooEntryRefs(k, t, target[k]) : k \in entries}
           R == E \cup Rest
           touched == UNION {{<<"coo_row_index", k>>, <<"coo_column_index", k>>, <<"coo_value", k>>,
                              <<"x", column[k]>>, <<"y", row[k]>>} : k \in entries}
<1>1. HasCoo
  BY DEF HasCoo
<1>2. entries = RunEntries(t) /\ entries \subseteq 0 .. n - 1
  <2>1. n \in Nat
    BY <1>1, CooFacts
  <2>2. entries \subseteq 0 .. n - 1
    <3> HIDE DEF n
    <3>1. QED
      BY <2>1, ShareIs
  <2>3. QED
    BY <1>1, <2>2, RunRowsAre
<1>3. Touched(t) = touched
  BY <1>2 DEF Touched
<1>4. \A k \in entries : CooEntryRefs(k, t, target[k]) =
        {Ref("coo_row_index", k, t), Ref("coo_column_index", k, t), Ref("coo_value", k, t),
         OfX(column[k]), target[k]}
  BY DEF CooEntryRefs
<1>5. \A k \in entries : IF "y" \in Predicted THEN target[k].array = "y" /\ target[k].index = row[k]
                         ELSE target[k].array \notin Predicted
  BY <1>2
<1> HIDE DEF entries, column, row, n
<1>6. \A k \in entries : /\ <<"coo_row_index", k>> \in touched /\ <<"coo_column_index", k>> \in touched
                         /\ <<"coo_value", k>> \in touched /\ <<"x", column[k]>> \in touched
                         /\ <<"y", row[k]>> \in touched
  OBVIOUS
<1>7. ASSUME NEW r \in R, r.array \in Predicted
      PROVE  <<r.array, r.index>> \in touched
  <2>1. PICK k \in entries : r \in CooEntryRefs(k, t, target[k])
    BY <1>7
  <2> HIDE DEF touched, R, E
  <2>2. /\ <<"coo_row_index", k>> \in touched /\ <<"coo_column_index", k>> \in touched
        /\ <<"coo_value", k>> \in touched /\ <<"x", column[k]>> \in touched
        /\ <<"y", row[k]>> \in touched
    BY <1>6
  <2>3. CASE r = Ref("coo_row_index", k, t) \/ r = Ref("coo_column_index", k, t)
    BY <2>2, <2>3, CellOf
  <2>4. CASE r = Ref("coo_value", k, t)
    BY <2>2, <2>4, CellOf
  <2>5. CASE r = OfX(column[k])
    BY <2>2, <2>5, CellOf
  <2>6. CASE r = target[k]
    BY <1>5, <1>7, <2>2, <2>6
  <2>7. QED
    BY <1>4, <2>1, <2>3, <2>4, <2>5, <2>6
<1>8. ASSUME NEW c \in touched, c[1] \in Predicted
      PROVE  \E r \in R : c = <<r.array, r.index>>
  <2>1. PICK k \in entries : c \in {<<"coo_row_index", k>>, <<"coo_column_index", k>>, <<"coo_value", k>>,
                                    <<"x", column[k]>>, <<"y", row[k]>>}
    OBVIOUS
  <2> HIDE DEF touched
  <2>2. /\ Ref("coo_row_index", k, t) \in R /\ Ref("coo_column_index", k, t) \in R
        /\ Ref("coo_value", k, t) \in R /\ OfX(column[k]) \in R /\ target[k] \in R
    BY <1>4
  <2> HIDE DEF R, E
  <2>3. CASE c = <<"coo_row_index", k>> \/ c = <<"coo_column_index", k>> \/ c = <<"coo_value", k>>
    BY <2>2, <2>3, CellOf
  <2>4. CASE c = <<"x", column[k]>>
    BY <2>2, <2>4, CellOf
  <2>5. CASE c = <<"y", row[k]>>
    <3>1. "y" \in Predicted
      BY <1>8, <2>5
    <3>2. target[k].array = "y" /\ target[k].index = row[k]
      BY <1>5, <3>1
    <3>3. QED
      BY <2>2, <2>5, <3>2
  <2>6. QED
    BY <2>1, <2>3, <2>4, <2>5
<1> HIDE DEF touched, R, E
<1>9. CellsIn(R, Predicted) = {c \in touched : c[1] \in Predicted}
  BY <1>7, <1>8, CellsAre
<1>10. QED
  BY <1>3, <1>9 DEF R, E, entries, n, FollowsEntries

\* The string of a thread touches what its loops do.
LEMMA StringFollows ==
  ASSUME OptionsInv, kernel # "triad", NEW t \in Threads
  PROVE  CellsIn(ToSet(String(t).refs), Predicted) =
           {c \in Touched(t) : c[1] \in Predicted}
             \cup IF kernel = "csr" /\ RunRows(t) = {} THEN {<<"row_ptr", m.rows>>} ELSE {}
<1>1. CASE kernel = "csr"
  BY <1>1, CsrFollows
<1>2. CASE kernel = "ell"
  <2>1. HasEll /\ String(t) = EllString(t)
    BY <1>2 DEF HasEll, String
  <2>2. ToSet(String(t).refs) = EllRefs(t) \cup {}
    BY <2>1, EllStringIs
  <2>3. CellsIn(EllRefs(t) \cup {}, Predicted) = {c \in Touched(t) : c[1] \in Predicted}
    <3> DEFINE none == {}
    <3>1. \A r \in none : FALSE
      OBVIOUS
    <3> HIDE DEF none
    <3>2. CellsIn(EllRefs(t) \cup none, Predicted) = {c \in Touched(t) : c[1] \in Predicted}
      BY <2>1, <3>1, EllFollows
    <3>3. QED
      BY <3>2 DEF none
  <2>4. QED
    BY <1>2, <2>2, <2>3
<1>3. CASE kernel = "hybrid"
  <2> DEFINE rows == ThreadRange(m.rows, num_threads, t)
             entries == ThreadRange(A.coo.size, num_threads, t)
  <2>1. HasEll /\ HasWorkspace /\ HasCoo
    BY <1>3 DEF HasEll, HasWorkspace, HasCoo
  <2>2. ToSet(String(t).refs) = EllRefs(t) \cup CooRefs(t)
    BY <1>3, HybridStringIs
  <2>3. Predicted = {"ell_column_index", "ell_value", "y"}
    BY <1>3 DEF Predicted
  <2>4. ASSUME NEW r \in CooRefs(t), r.array \in Predicted
        PROVE  r.array = "y" /\ r.index \in rows
    <3>1. CASE r \in ReductionRefs(t)
      <4>1. PICK i \in rows, j \in Threads : r \in {Reduction(i, j, t)[1], Ref("y", i, t)}
        BY <3>1 DEF ReductionRefs
      <4> HIDE DEF rows
      <4>2. r = Ref("y", i, t)
        BY <2>3, <2>4, <4>1, CellOf
      <4>3. QED
        BY <4>2, CellOf
    <3>2. CASE \E k \in entries : r \in CooEntryRefs(k, t, InWorkspace(k, t))
      <4>1. PICK k \in entries : r \in CooEntryRefs(k, t, InWorkspace(k, t))
        BY <3>2
      <4> HIDE DEF rows, entries
      <4>2. \/ r = Ref("coo_row_index", k, t) \/ r = Ref("coo_column_index", k, t)
            \/ r = Ref("coo_value", k, t) \/ r = OfX(A.coo.column_index[k]) \/ r = InWorkspace(k, t)
        BY <4>1 DEF CooEntryRefs
      <4>3. r.array \in {"coo_row_index", "coo_column_index", "coo_value", "x", "workspace"}
        BY <4>2, CellOf
      <4>4. QED
        BY <2>3, <2>4, <4>3
    <3>3. QED
      BY <2>4, <3>1, <3>2 DEF CooRefs
  <2>5. CellsIn(EllRefs(t) \cup CooRefs(t), Predicted) = {c \in Touched(t) : c[1] \in Predicted}
    BY <2>1, <2>4, EllFollows
  <2>6. QED
    BY <1>3, <2>2, <2>5
<1>4. CASE kernel = "coo"
  <2> DEFINE n == A.coo.size
             target == [k \in 0 .. n - 1 |-> InWorkspace(k, t)]
             entries == ThreadRange(n, num_threads, t)
  <2>1. HasWorkspace /\ HasCoo /\ String(t) = CooString(t)
    BY <1>4 DEF HasWorkspace, HasCoo, String
  <2>2. ToSet(String(t).refs) = CooRefs(t)
    BY <2>1, CooStringIs
  <2>3. Predicted = {"coo_row_index", "coo_column_index", "coo_value", "x"}
    BY <1>4, ArraysNamedCoo DEF Predicted
  <2>4. entries \subseteq 0 .. n - 1
    <3>1. n \in Nat
      BY <2>1, CooFacts
    <3> HIDE DEF n
    <3>2. QED
      BY <3>1, ShareIs
  <2>5. \A k \in 0 .. n - 1 : target[k] = InWorkspace(k, t)
    OBVIOUS
  <2>6. \A k \in 0 .. n - 1 : target[k].array \notin Predicted
    BY <2>3, <2>5, CellOf
  <2>7. \A r \in ReductionRefs(t) : r.array \notin Predicted
    <3>1. ASSUME NEW r \in ReductionRefs(t)
          PROVE  r.array \notin Predicted
      <4>1. PICK i \in ThreadRange(m.rows, num_threads, t), j \in Threads :
              r \in {Reduction(i, j, t)[1], Ref("y", i, t)}
        BY DEF ReductionRefs
      <4>2. QED
        BY <2>3, <4>1, CellOf
    <3>2. QED
      BY <3>1
  <2> HIDE DEF target
  <2>8. CooRefs(t) = (UNION {CooEntryRefs(k, t, target[k]) : k \in entries}) \cup ReductionRefs(t)
    <3>1. \A k \in entries : target[k] = InWorkspace(k, t)
      BY <2>4, <2>5
    <3>2. CooRefs(t) = (UNION {CooEntryRefs(k, t, InWorkspace(k, t)) : k \in entries}) \cup ReductionRefs(t)
      BY DEF CooRefs
    <3> HIDE DEF entries
    <3>3. UNION {CooEntryRefs(k, t, InWorkspace(k, t)) : k \in entries} =
            UNION {CooEntryRefs(k, t, target[k]) : k \in entries}
      BY <3>1
    <3>4. QED
      BY <3>2, <3>3
  <2>9. "y" \notin Predicted
    BY <2>3
  <2>10. CellsIn(CooRefs(t), Predicted) = {c \in Touched(t) : c[1] \in Predicted}
    <3>1. \A k \in 0 .. A.coo.size - 1 :
            IF "y" \in Predicted
            THEN target[k].array = "y" /\ target[k].index = A.coo.row_index[k]
            ELSE target[k].array \notin Predicted
      BY <2>6, <2>9
    <3>2. kernel \in {"coo", "coo_atomic"}
      BY <1>4
    <3>3. FollowsEntries(t, target, ReductionRefs(t))
      BY <2>7, <3>1, <3>2, CooFollows
    <3>4. QED
      BY <2>8, <3>3 DEF FollowsEntries
  <2>11. QED
    BY <1>4, <2>2, <2>10
<1>5. CASE kernel = "coo_atomic"
  <2> DEFINE n == A.coo.size
             target == [k \in 0 .. n - 1 |-> InResult(k)]
             entries == ThreadRange(n, num_threads, t)
             none == {}
  <2>1. HasCoo
    BY <1>5 DEF HasCoo
  <2>2. ToSet(String(t).refs) = CooAtomicRefs(t)
    BY <1>5, CooAtomicStringIs
  <2>3. Predicted = {"coo_row_index", "coo_column_index", "coo_value", "x", "y"}
    BY <1>5, ArraysNamedCooAtomic DEF Predicted
  <2>4. entries \subseteq 0 .. n - 1
    <3>1. n \in Nat
      BY <2>1, CooFacts
    <3> HIDE DEF n
    <3>2. QED
      BY <3>1, ShareIs
  <2>5. \A k \in 0 .. n - 1 : target[k] = InResult(k)
    OBVIOUS
  <2>6. \A k \in 0 .. n - 1 : target[k].array = "y" /\ target[k].index = A.coo.row_index[k]
    BY <2>5, CellOf
  <2>7. \A r \in none : r.array \notin Predicted
    OBVIOUS
  <2> HIDE DEF target
  <2>8. CooAtomicRefs(t) = (UNION {CooEntryRefs(k, t, target[k]) : k \in entries}) \cup none
    <3>1. \A k \in entries : target[k] = InResult(k)
      BY <2>4, <2>5
    <3>2. CooAtomicRefs(t) = UNION {CooEntryRefs(k, t, InResult(k)) : k \in entries}
      BY DEF CooAtomicRefs
    <3> HIDE DEF entries
    <3>3. UNION {CooEntryRefs(k, t, InResult(k)) : k \in entries} =
            UNION {CooEntryRefs(k, t, target[k]) : k \in entries}
      BY <3>1
    <3>4. QED
      BY <3>2, <3>3
  <2> HIDE DEF none
  <2>9. CellsIn(CooAtomicRefs(t), Predicted) = {c \in Touched(t) : c[1] \in Predicted}
    <3>1. \A k \in 0 .. A.coo.size - 1 :
            IF "y" \in Predicted
            THEN target[k].array = "y" /\ target[k].index = A.coo.row_index[k]
            ELSE target[k].array \notin Predicted
      BY <2>3, <2>6
    <3>2. kernel \in {"coo", "coo_atomic"}
      BY <1>5
    <3>3. FollowsEntries(t, target, none)
      BY <2>7, <3>1, <3>2, CooFollows
    <3>4. QED
      BY <2>8, <3>3 DEF FollowsEntries
  <2>10. QED
    BY <1>5, <2>2, <2>9
<1>6. QED
  BY <1>1, <1>2, <1>3, <1>4, <1>5 DEF OptionsInv, KernelNames

\* The string of a thread touches the elements its loops do under the static
\* schedule, and no others, of the arrays where the code predicts it: for
\* every matrix, number of threads and kernel but the triad.
THEOREM StringsAreOfTheSchedule == Spec => []StringsFollowSchedule
<1>1. IInv => StringsFollowSchedule
  <2> SUFFICES ASSUME IInv, NEW t \in Traced, kernel # "triad"
               PROVE  Cells(t, Predicted) = {c \in Touched(t) : c[1] \in Predicted}
                        \cup IF kernel = "csr" /\ RunRows(t) = {} THEN {<<"row_ptr", m.rows>>} ELSE {}
    BY DEF StringsFollowSchedule
  <2>1. OptionsInv
    BY DEF IInv
  <2>2. t \in Threads /\ RefsOf(t) = ToSet(String(t).refs)
    BY StringOfThread
  <2>3. Cells(t, Predicted) = CellsIn(ToSet(String(t).refs), Predicted)
    BY <2>2 DEF Cells, CellsIn
  <2>4. QED
    BY <2>1, <2>2, <2>3, StringFollows
<1>2. QED
  BY <1>1, StringsAreThoseOfTheFunctions, PTL

-----------------------------------------------------------------------------
(* Sizes *)

\* All the references of a sequence are references: counting those is its length.
LEMMA LengthOf ==
  ASSUME NEW s \in Seq(References)
  PROVE  Occurrences(s, References) = Len(s)
BY OccurrencesAre

\* The size computed for a string is its length, kernel by kernel.
LEMMA TriadSize ==
  ASSUME OptionsInv, kernel = "triad", NEW t \in Threads
  PROVE  String(t).size = Len(String(t).refs)
<1> DEFINE n == A.num_entries
           refs == TriadString(t).refs
           G == [k \in 0 .. n |-> 3 * k]
           a == ThreadStart(n, num_threads, t)
           b == ThreadStart(n, num_threads, t + 1)
           range == ThreadRange(n, num_threads, t)
<1>1. n \in Nat
  BY TriadIs
<1> HIDE DEF n
<1>2. /\ a \in 0 .. n /\ b \in 0 .. n /\ range = a .. b - 1 /\ Cardinality(range) = b - a
  BY <1>1, ShareIs
<1> HIDE DEF a, b, range
<1>3. \A k \in 0 .. n : G[k] = 3 * k
  OBVIOUS
<1>4. \A k \in range : Occurrences(TriadStep(k, t), References) = G[k + 1] - G[k]
  <2> SUFFICES ASSUME NEW k \in range
               PROVE  Occurrences(TriadStep(k, t), References) = G[k + 1] - G[k]
    OBVIOUS
  <2>1. k \in 0 .. n - 1 /\ k \in Int /\ k + 1 \in 0 .. n /\ k \in 0 .. n
    BY <1>1, <1>2
  <2>2. t \in Int
    BY ThreadsAreInt
  <2>3. "a" \in AllNames /\ "b" \in AllNames /\ "c" \in AllNames
    BY DEF AllNames
  <2>4. Ref("b", k, t) \in References /\ Ref("c", k, t) \in References /\ Ref("a", k, t) \in References
    BY <2>1, <2>2, <2>3, RefIs
  <2>5. TriadStep(k, t) \in Seq(References) /\ Len(TriadStep(k, t)) = 3
    BY <2>4 DEF TriadStep
  <2>6. Occurrences(TriadStep(k, t), References) = 3
    BY <2>5, LengthOf
  <2>7. QED
    BY <1>3, <2>1, <2>6
<1>5. \A k \in 0 .. n : G[k] \in Int
  BY <1>3
<1> HIDE DEF G
<1>6. /\ String(t) = TriadString(t) /\ TriadString(t).size = 3 * Cardinality(range)
      /\ refs \in Seq(References)
  BY TriadStringIs DEF range, n
<1>7. Occurrences(refs, References) = G[b] - G[a]
  BY <1>4, <1>5, TriadStringIs DEF range, n, a, b
<1>8. Len(refs) = G[b] - G[a]
  BY <1>6, <1>7, LengthOf
<1>9. G[b] = 3 * b /\ G[a] = 3 * a
  BY <1>2, <1>3
<1>10. TriadString(t).size = 3 * (b - a)
  BY <1>2, <1>6
<1> HIDE DEF refs
<1>11. TriadString(t).size = Len(refs)
  BY <1>2, <1>8, <1>9, <1>10
<1>12. QED
  BY <1>6, <1>11 DEF refs

LEMMA CsrSize ==
  ASSUME OptionsInv, kernel = "csr", NEW t \in Threads
  PROVE  String(t).size = Len(String(t).refs)
<1> DEFINE n == Len(m.entries)
           ptr == A.csr.row_ptr
           refs == CsrString(t).refs
           H == [k \in 0 .. n |-> 3 * k]
           a == ThreadStart(m.rows, num_threads, t)
           b == ThreadStart(m.rows, num_threads, t + 1)
           size == CsrString(t).size
<1>1. n \in Nat /\ \A r \in 0 .. m.rows : ptr[r] \in 0 .. n
  BY CsrFacts
<1>2. a \in 0 .. m.rows /\ b \in 0 .. m.rows /\ a <= b /\ m.rows \in Nat
  <2>1. m.rows \in Nat
    BY OptionsAre
  <2>2. QED
    BY <2>1, ShareIs
<1>3. \A k \in 0 .. n - 1 : A.csr.column_index[k] \in Columns
  BY CsrFacts
<1>4. ptr[a] \in 0 .. n /\ ptr[b] \in 0 .. n
  BY <1>1, <1>2
<1>5. \A k \in 0 .. n : H[k] = 3 * k
  OBVIOUS
<1>6. \A k \in 0 .. n : H[k] \in Int
  BY <1>5
<1> HIDE DEF H, n
<1>7. \A k \in 0 .. n - 1 : Occurrences(CsrNonzero(k, t), References) = H[k + 1] - H[k]
  <2> SUFFICES ASSUME NEW k \in 0 .. n - 1
               PROVE  Occurrences(CsrNonzero(k, t), References) = H[k + 1] - H[k]
    OBVIOUS
  <2>1. k \in Int /\ k + 1 \in 0 .. n /\ k \in 0 .. n
    BY <1>1
  <2>2. "column_index" \in AllNames /\ "value" \in AllNames
    BY DEF AllNames
  <2>3. A.csr.column_index[k] \in Int
    BY <1>3, OptionsAre DEF Columns
  <2>4. CsrNonzero(k, t) \in Seq(References) /\ Len(CsrNonzero(k, t)) = 3
    BY <2>1, <2>2, <2>3, TripleIs DEF CsrNonzero
  <2>5. Occurrences(CsrNonzero(k, t), References) = 3
    BY <2>4, LengthOf
  <2>6. QED
    BY <1>5, <2>1, <2>5
<1>8. /\ OneIf(Ref("row_ptr", a, t) \in References) = 1
      /\ \A i \in a .. b - 1 :
           OneIf(Ref("row_ptr", i + 1, t) \in References) + OneIf(Ref("y", i, t) \in References) = 2
  <2>1. "row_ptr" \in AllNames /\ "y" \in AllNames
    BY DEF AllNames
  <2>2. \A i \in Int : Ref("row_ptr", i, t) \in References /\ Ref("y", i, t) \in References
    BY <2>1, SingleIs
  <2>3. a \in Int /\ \A i \in a .. b - 1 : i \in Int /\ i + 1 \in Int
    BY <1>2
  <2> HIDE DEF a, b
  <2>4. QED
    BY <2>2, <2>3 DEF OneIf
<1>9. /\ String(t) = CsrString(t) /\ refs \in Seq(References)
      /\ size = 3 * (ptr[b] - ptr[a]) + 2 * (b - a) + 1
  BY CsrStringIs
<1>10. Occurrences(refs, References) =
        OneIf(Ref("row_ptr", a, t) \in References) + ((H[ptr[b]] - H[ptr[a]]) + (2 * (b - a)))
  BY <1>6, <1>7, <1>8, CsrStringIs DEF n
<1>11. H[ptr[b]] = 3 * ptr[b] /\ H[ptr[a]] = 3 * ptr[a]
  BY <1>4, <1>5
<1>12. Len(refs) = Occurrences(refs, References)
  BY <1>9, LengthOf
<1> DEFINE p == ptr[a]
           q == ptr[b]
<1>13. p \in Int /\ q \in Int /\ size = 3 * (q - p) + 2 * (b - a) + 1
       /\ Len(refs) = 1 + ((3 * q - 3 * p) + (2 * (b - a)))
  BY <1>1, <1>4, <1>8, <1>9, <1>10, <1>11, <1>12
<1> HIDE DEF p, q, a, b, size, refs
<1>14. size = Len(refs)
  BY <1>2, <1>13
<1>15. QED
  BY <1>9, <1>14 DEF size, refs

LEMMA EllSizeIs ==
  ASSUME OptionsInv, HasEll, NEW t \in Threads
  PROVE  EllString(t).size = Len(EllString(t).refs)
<1> DEFINE length == A.ell.row_length
           refs == EllString(t).refs
           H == [k \in 0 .. EllSize |-> 3 * k]
           a == ThreadStart(m.rows, num_threads, t)
           b == ThreadStart(m.rows, num_threads, t + 1)
           size == EllString(t).size
<1>1. /\ length \in Nat /\ EllSize \in Nat /\ EllSize = m.rows * length
      /\ \A k \in 0 .. EllSize - 1 : A.ell.column_index[k] \in Columns \cup {UndefinedColumn}
  BY EllFacts
<1>2. a \in 0 .. m.rows /\ b \in 0 .. m.rows /\ a <= b /\ m.rows \in Nat
  <2>1. m.rows \in Nat
    BY OptionsAre
  <2>2. QED
    BY <2>1, ShareIs
<1>3. a * length \in 0 .. EllSize /\ b * length \in 0 .. EllSize
  BY <1>1, <1>2, RowsOfEqualLength
<1>4. \A k \in 0 .. EllSize : H[k] = 3 * k
  OBVIOUS
<1>5. \A k \in 0 .. EllSize : H[k] \in Int
  BY <1>1, <1>4
<1> HIDE DEF H
<1>6. \A k \in 0 .. EllSize - 1 : Occurrences(EllNonzero(k, t), References) = H[k + 1] - H[k]
  <2> SUFFICES ASSUME NEW k \in 0 .. EllSize - 1
               PROVE  Occurrences(EllNonzero(k, t), References) = H[k + 1] - H[k]
    OBVIOUS
  <2>1. k \in Int /\ k + 1 \in 0 .. EllSize /\ k \in 0 .. EllSize
    BY <1>1
  <2>2. "ell_column_index" \in AllNames /\ "ell_value" \in AllNames
    BY DEF AllNames
  <2>3. A.ell.column_index[k] \in Int
    BY <1>1, OptionsAre DEF Columns, UndefinedColumn
  <2>4. EllNonzero(k, t) \in Seq(References) /\ Len(EllNonzero(k, t)) = 3
    BY <2>1, <2>2, <2>3, TripleIs DEF EllNonzero
  <2>5. Occurrences(EllNonzero(k, t), References) = 3
    BY <2>4, LengthOf
  <2>6. QED
    BY <1>4, <2>1, <2>5
<1>7. \A i \in a .. b - 1 : OneIf(Ref("y", i, t) \in References) = 1
  <2>1. "y" \in AllNames
    BY DEF AllNames
  <2>2. \A i \in Int : Ref("y", i, t) \in References
    BY <2>1, SingleIs
  <2>3. QED
    BY <1>2, <2>2 DEF OneIf
<1>8. refs \in Seq(References) /\ size = 3 * (b - a) * length + (b - a)
  BY EllStringIs
<1>9. Occurrences(refs, References) = (H[b * length] - H[a * length]) + (1 * (b - a))
  <2>1. \A Q, HH : \A e \in Int :
          (/\ \A k \in 0 .. EllSize : HH[k] \in Int
           /\ \A k \in 0 .. EllSize - 1 : Occurrences(EllNonzero(k, t), Q) = HH[k + 1] - HH[k]
           /\ \A i \in a .. b - 1 : OneIf(Ref("y", i, t) \in Q) = e)
          => Occurrences(refs, Q) = (HH[b * length] - HH[a * length]) + (e * (b - a))
    BY EllStringIs
  <2>2. 1 \in Int
    OBVIOUS
  <2> HIDE DEF length, a, b, refs
  <2>3. QED
    BY <1>5, <1>6, <1>7, <2>1, <2>2, Zenon
<1>10. H[b * length] = 3 * (b * length) /\ H[a * length] = 3 * (a * length)
  BY <1>3, <1>4
<1>11. Len(refs) = Occurrences(refs, References)
  BY <1>8, LengthOf
<1> HIDE DEF length, a, b, size, refs
<1>12. 3 * (b - a) * length = 3 * (b * length) - 3 * (a * length)
  BY <1>1, <1>2
<1> DEFINE p == a * length
           q == b * length
           u == 3 * (b - a) * length
<1>13. /\ p \in Int /\ q \in Int /\ u = 3 * q - 3 * p /\ size = u + (b - a)
       /\ Len(refs) = (3 * q - 3 * p) + (b - a)
  <2>1. p \in Int /\ q \in Int
    BY <1>3
  <2>2. 1 * (b - a) = b - a
    BY <1>2
  <2>3. QED
    BY <1>8, <1>9, <1>10, <1>11, <1>12, <2>1, <2>2
<1> HIDE DEF p, q, u
<1>14. size = Len(refs)
  BY <1>2, <1>13
<1>15. QED
  BY <1>14 DEF size, refs

LEMMA CooSize ==
  ASSUME OptionsInv, HasWorkspace, NEW t \in Threads
  PROVE  CooString(t).size = Len(CooString(t).refs)
<1> DEFINE n == A.coo.size
           refs == CooString(t).refs
           H == [k \in 0 .. n |-> 5 * k]
           a == ThreadStart(n, num_threads, t)
           b == ThreadStart(n, num_threads, t + 1)
           rows == ThreadRange(m.rows, num_threads, t)
           c == Cardinality(rows)
           size == CooString(t).size
<1>1. HasCoo
  BY DEF HasWorkspace, HasCoo
<1>2. n \in Nat
  BY <1>1, CooFacts
<1>3. /\ c \in Int /\ num_threads \in Int
  <2>1. m.rows \in Nat /\ num_threads \in Nat
    BY OptionsAre
  <2> DEFINE i == ThreadStart(m.rows, num_threads, t)
             j == ThreadStart(m.rows, num_threads, t + 1)
  <2>2. i \in 0 .. m.rows /\ j \in 0 .. m.rows /\ c = j - i
    BY <2>1, ShareIs
  <2> HIDE DEF i, j, c
  <2>3. QED
    BY <2>1, <2>2
<1> HIDE DEF n
<1>4. a \in 0 .. n /\ b \in 0 .. n
  BY <1>2, ShareIs
<1>5. \A k \in 0 .. n : H[k] = 5 * k
  OBVIOUS
<1>6. \A k \in 0 .. n : H[k] \in Int
  BY <1>2, <1>5
<1> HIDE DEF H
<1>7. \A k \in 0 .. n - 1 :
        Occurrences(CooEntry(k, t, InWorkspace(k, t)), References) = H[k + 1] - H[k]
  <2> SUFFICES ASSUME NEW k \in 0 .. n - 1
               PROVE  Occurrences(CooEntry(k, t, InWorkspace(k, t)), References) = H[k + 1] - H[k]
    OBVIOUS
  <2>1. k + 1 \in 0 .. n /\ k \in 0 .. n /\ k \in Int
    BY <1>2
  <2>2. InWorkspace(k, t) \in References
    BY <1>1, InWorkspaceIs DEF n
  <2>3. CooEntry(k, t, InWorkspace(k, t)) \in Seq(References)
    BY <1>1, <2>2, CooEntryIs DEF n
  <2>4. Len(CooEntry(k, t, InWorkspace(k, t))) = 5
    BY DEF CooEntry
  <2>5. Occurrences(CooEntry(k, t, InWorkspace(k, t)), References) = 5
    BY <2>3, <2>4, LengthOf
  <2>6. QED
    BY <1>5, <2>1, <2>5
<1>8. \A i \in rows : \A j \in Threads : Occurrences(Reduction(i, j, t), References) = 2
  <2> SUFFICES ASSUME NEW i \in rows, NEW j \in Threads
               PROVE  Occurrences(Reduction(i, j, t), References) = 2
    OBVIOUS
  <2>1. Reduction(i, j, t) \in Seq(References)
    BY ReductionIs
  <2>2. Len(Reduction(i, j, t)) = 2
    BY DEF Reduction
  <2>3. QED
    BY <2>1, <2>2, LengthOf
<1> HIDE DEF a, b, c
<1>9. refs \in Seq(References) /\ size = 5 * (b - a) + 2 * c * num_threads
  BY CooStringIs DEF a, b, c, n
<1>10. Occurrences(refs, References) = (H[b] - H[a]) + (c * (num_threads * 2))
  <2>1. \A Q, HH : \A e \in Int :
          (/\ \A k \in 0 .. n : HH[k] \in Int
           /\ \A k \in 0 .. n - 1 :
                Occurrences(CooEntry(k, t, InWorkspace(k, t)), Q) = HH[k + 1] - HH[k]
           /\ \A i \in rows : \A j \in Threads : Occurrences(Reduction(i, j, t), Q) = e)
          => Occurrences(refs, Q) = (HH[b] - HH[a]) + (c * (num_threads * e))
    BY CooStringIs DEF a, b, c, n
  <2>2. 2 \in Int
    OBVIOUS
  <2> HIDE DEF rows, refs
  <2>3. QED
    BY <1>6, <1>7, <1>8, <2>1, <2>2, Zenon
<1>11. H[b] = 5 * b /\ H[a] = 5 * a
  BY <1>4, <1>5
<1>12. Len(refs) = Occurrences(refs, References)
  BY <1>9, LengthOf
<1> HIDE DEF size, refs
<1>13. 2 * c * num_threads = c * (num_threads * 2)
  BY <1>3
<1> DEFINE u == c * (num_threads * 2)
<1>14. u \in Int /\ size = 5 * (b - a) + u /\ Len(refs) = (5 * b - 5 * a) + u
  BY <1>3, <1>9, <1>10, <1>11, <1>12, <1>13
<1> HIDE DEF u
<1>15. size = Len(refs)
  BY <1>4, <1>14
<1>16. QED
  BY <1>15 DEF size, refs

LEMMA CooAtomicSize ==
  ASSUME OptionsInv, kernel = "coo_atomic", NEW t \in Threads
  PROVE  String(t).size = Len(String(t).refs)
<1> DEFINE n == A.coo.size
           refs == CooAtomicString(t).refs
           H == [k \in 0 .. n |-> 5 * k]
           a == ThreadStart(n, num_threads, t)
           b == ThreadStart(n, num_threads, t + 1)
           size == CooAtomicString(t).size
<1>1. HasCoo
  BY DEF HasCoo
<1>2. n \in Nat
  BY <1>1, CooFacts
<1> HIDE DEF n
<1>3. a \in 0 .. n /\ b \in 0 .. n
  BY <1>2, ShareIs
<1>4. \A k \in 0 .. n : H[k] = 5 * k
  OBVIOUS
<1>5. \A k \in 0 .. n : H[k] \in Int
  BY <1>2, <1>4
<1> HIDE DEF H
<1>6. \A k \in 0 .. n - 1 : Occurrences(CooEntry(k, t, InResult(k)), References) = H[k + 1] - H[k]
  <2> SUFFICES ASSUME NEW k \in 0 .. n - 1
               PROVE  Occurrences(CooEntry(k, t, InResult(k)), References) = H[k + 1] - H[k]
    OBVIOUS
  <2>1. k + 1 \in 0 .. n /\ k \in 0 .. n /\ k \in Int
    BY <1>2
  <2>2. InResult(k) \in References
    BY <1>1, InResultIs DEF n
  <2>3. CooEntry(k, t, InResult(k)) \in Seq(References)
    BY <1>1, <2>2, CooEntryIs DEF n
  <2>4. Len(CooEntry(k, t, InResult(k))) = 5
    BY DEF CooEntry
  <2>5. Occurrences(CooEntry(k, t, InResult(k)), References) = 5
    BY <2>3, <2>4, LengthOf
  <2>6. QED
    BY <1>4, <2>1, <2>5
<1> HIDE DEF a, b
<1>7. String(t) = CooAtomicString(t) /\ refs \in Seq(References) /\ size = 5 * (b - a)
  BY CooAtomicStringIs DEF a, b, n
<1>8. Occurrences(refs, References) = H[b] - H[a]
  BY <1>5, <1>6, CooAtomicStringIs DEF a, b, n
<1>9. H[b] = 5 * b /\ H[a] = 5 * a
  BY <1>3, <1>4
<1>10. Len(refs) = Occurrences(refs, References)
  BY <1>7, LengthOf
<1> HIDE DEF size, refs
<1>11. size = Len(refs)
  BY <1>3, <1>7, <1>8, <1>9, <1>10
<1>12. QED
  BY <1>7, <1>11 DEF size, refs

\* The same for any kernel.
LEMMA SizeIsLength ==
  ASSUME OptionsInv, NEW t \in Threads
  PROVE  String(t).size = Len(String(t).refs)
<1>1. CASE kernel = "triad"
  BY <1>1, TriadSize
<1>2. CASE kernel = "csr"
  BY <1>2, CsrSize
<1>3. CASE kernel = "ell"
  BY <1>3, EllSizeIs DEF HasEll, String
<1>4. CASE kernel = "coo"
  BY <1>4, CooSize DEF HasWorkspace, String
<1>5. CASE kernel = "coo_atomic"
  BY <1>5, CooAtomicSize
<1>6. CASE kernel = "hybrid"
  <2> DEFINE s == EllString(t).refs
             u == CooString(t).refs
             w == String(t).refs
  <2>1. HasEll /\ HasWorkspace
    BY <1>6 DEF HasEll, HasWorkspace
  <2>2. s \in Seq(References) /\ u \in Seq(References)
    BY <2>1, EllStringIs, CooStringIs
  <2>3. EllString(t).size = Len(s) /\ CooString(t).size = Len(u)
    BY <2>1, EllSizeIs, CooSize
  <2>4. /\ String(t).size = EllString(t).size + CooString(t).size
        /\ w \in Seq(References)
        /\ Occurrences(w, References) = Occurrences(s, References) + Occurrences(u, References)
    BY <1>6, HybridStringIs
  <2> HIDE DEF s, u, w
  <2>5. /\ Occurrences(w, References) = Len(w) /\ Occurrences(s, References) = Len(s)
        /\ Occurrences(u, References) = Len(u)
    BY <2>2, <2>4, LengthOf
  <2>6. QED
    BY <2>3, <2>4, <2>5 DEF w
<1>7. QED
  BY <1>1, <1>2, <1>3, <1>4, <1>5, <1>6 DEF OptionsInv, KernelNames

\* The number of references the kernel allocates a string with is the number
\* it writes: no entry is left out, and none stays unset.
THEOREM StringsAreFilled == Spec => []StringsFillTheirArrays
<1>1. IInv => StringsFillTheirArrays
  <2> SUFFICES ASSUME IInv PROVE StringsFillTheirArrays
    OBVIOUS
  <2>1. OptionsInv
    BY DEF IInv
  <2>2. kernel = "hybrid" => A.coo.size = NumCooEntries(m)
    <3> SUFFICES ASSUME kernel = "hybrid" PROVE A.coo.size = NumCooEntries(m)
      OBVIOUS
    <3>1. IsMatrix(m)
      BY <2>1, OptionsAre
    <3>2. A.coo.size = Cardinality(Spilled(m))
      BY <2>1, CooFacts DEF HasCoo
    <3>3. QED
      BY <3>1, <3>2, NumCooEntriesIs
  <2>3. ASSUME NEW t \in Traced
        PROVE  /\ strings[t + 1].size = Len(strings[t + 1].refs)
               /\ \A r \in RefsOf(t) : \/ r.array = "x" /\ r.index = UndefinedColumn
                                       \/ r.index \in 0 .. ArrayOf(r.array).n - 1
               /\ \A r \in RefsOf(t) : r.owner \in Threads
    <3>1. t \in Threads /\ strings[t + 1] = String(t) /\ RefsOf(t) = ToSet(String(t).refs)
      BY StringOfThread
    <3>2. strings[t + 1].size = Len(strings[t + 1].refs)
      BY <2>1, <3>1, SizeIsLength
    <3>3. \A r \in RefsOf(t) : Sound(t, r)
      BY <2>1, <3>1, StringIsSound
    <3>4. QED
      BY <3>2, <3>3 DEF Sound
  <2>4. QED
    BY <2>2, <2>3 DEF StringsFillTheirArrays
<1>2. QED
  BY <1>1, StringsAreThoseOfTheFunctions, PTL

-----------------------------------------------------------------------------
(* Counting references: loop by loop, thread by thread, array by array *)

\* The references to an element, by whichever thread.
About(name, index) == {r \in References : r.array = name /\ r.index = index}

\* The arrays that hold entries, and x.
Counted == AllNames \ {"row_ptr", "y", "workspace"}

\* The iterations over 0 .. n-1 that refer to the element, when iteration k
\* refers to the k-th elements of its own arrays and to column[k] of x.
Hits(n, own, column, name, index) ==
  {k \in 0 .. n - 1 : IF name = "x" THEN column[k] = index ELSE name \in own /\ k = index}

\* The references of a set, counted thread by thread, are c in all.
Tallied(refs, Q, c) ==
  \E F : /\ F[0] = 0 /\ F[num_threads] = c
         /\ \A t \in Threads : /\ F[t] \in Int /\ F[t + 1] \in Int
                               /\ Occurrences(refs[t], Q) = F[t + 1] - F[t]

Before(E, n) == [k \in 0 .. n |-> Cardinality({e \in E : e < k})]

\* Before counts the elements of E one iteration at a time.
LEMMA BeforeIs ==
  ASSUME NEW n \in Nat, NEW E \in SUBSET (0 .. n - 1)
  PROVE  /\ Before(E, n)[0] = 0 /\ Before(E, n)[n] = Cardinality(E)
         /\ \A k \in 0 .. n : Before(E, n)[k] \in Int
         /\ \A k \in 0 .. n - 1 : OneIf(k \in E) = Before(E, n)[k + 1] - Before(E, n)[k]
<1> DEFINE first(k) == {e \in E : e < k}
<1>1. \A e \in E : e \in Int /\ 0 <= e /\ e < n
  OBVIOUS
<1>2. IsFiniteSet(E)
  <2>1. IsFiniteSet(0 .. n - 1)
    BY IntervalSize
  <2>2. QED
    BY <2>1, FS_Subset
<1>3. \A k : IsFiniteSet(first(k)) /\ Cardinality(first(k)) \in Nat
  <2> SUFFICES ASSUME NEW k PROVE IsFiniteSet(first(k)) /\ Cardinality(first(k)) \in Nat
    OBVIOUS
  <2>1. first(k) \in SUBSET E
    OBVIOUS
  <2> HIDE DEF first
  <2>2. IsFiniteSet(first(k))
    BY <1>2, <2>1, FS_Subset
  <2>3. QED
    BY <2>2, FS_CardinalityType
<1>4. \A k \in 0 .. n : Before(E, n)[k] = Cardinality(first(k))
  BY DEF Before
<1>5. first(0) = {} /\ first(n) = E
  <2>1. \A e \in E : ~ e < 0
    BY <1>1
  <2>2. QED
    BY <1>1, <2>1
<1>6. Cardinality({}) = 0
  BY FS_EmptySet
<1>7. ASSUME NEW k \in 0 .. n - 1
      PROVE  OneIf(k \in E) = Cardinality(first(k + 1)) - Cardinality(first(k))
  <2>1. \A e \in E : (e < k + 1) <=> (e < k \/ e = k)
    BY <1>1
  <2>2. k \notin first(k)
    OBVIOUS
  <2>3. CASE k \in E
    <3>1. first(k + 1) = first(k) \cup {k}
      BY <2>1, <2>3
    <3> HIDE DEF first
    <3>2. Cardinality(first(k + 1)) = Cardinality(first(k)) + 1
      BY <1>3, <2>2, <3>1, FS_AddElement
    <3>3. QED
      BY <1>3, <2>3, <3>2 DEF OneIf
  <2>4. CASE k \notin E
    <3>1. first(k + 1) = first(k)
      BY <2>1, <2>4
    <3> HIDE DEF first
    <3>2. QED
      BY <1>3, <2>4, <3>1 DEF OneIf
  <2>5. QED
    BY <2>3, <2>4
<1>8. \A k \in 0 .. n - 1 : k \in 0 .. n /\ k + 1 \in 0 .. n
  OBVIOUS
<1> HIDE DEF first
<1>9. 0 \in 0 .. n /\ n \in 0 .. n
  OBVIOUS
<1>10. QED
  BY <1>3, <1>4, <1>5, <1>6, <1>7, <1>8, <1>9

\* Which references are about an element.
LEMMA AboutIs ==
  ASSUME OptionsInv, NEW t \in Threads, NEW name, NEW index
  PROVE  /\ \A own \in AllNames, k \in Int :
              (Ref(own, k, t) \in About(name, index)) <=> (own = name /\ k = index)
         /\ \A j \in Int : (OfX(j) \in About(name, index)) <=> (name = "x" /\ j = index)
         /\ \A r : r.array # name => r \notin About(name, index)
<1>1. t \in Int
  BY ThreadsAreInt
<1>2. QED
  BY <1>1, RefIs, OfXIs DEF About

\* An iteration over two arrays and x.
LEMMA TripleHits ==
  ASSUME OptionsInv, NEW t \in Threads, NEW k \in Int, NEW j \in Int,
         NEW first \in AllNames \ {"x"}, NEW second \in AllNames \ {"x"}, first # second,
         NEW name, NEW index
  PROVE  Occurrences(<<Ref(first, k, t), Ref(second, k, t), OfX(j)>>, About(name, index))
           = OneIf(IF name = "x" THEN j = index ELSE name \in {first, second} /\ k = index)
<1> DEFINE Q == About(name, index)
           a == Ref(first, k, t)
           b == Ref(second, k, t)
           c == OfX(j)
<1>1. /\ (a \in Q) <=> (first = name /\ k = index)
      /\ (b \in Q) <=> (second = name /\ k = index)
      /\ (c \in Q) <=> (name = "x" /\ j = index)
  BY AboutIs
<1> HIDE DEF Q, a, b, c
<1>2. Occurrences(<<a, b, c>>, Q) = OneIf(a \in Q) + OneIf(b \in Q) + OneIf(c \in Q)
  BY OccurrencesOfThree
<1>3. OneIf(a \in Q) + OneIf(b \in Q) + OneIf(c \in Q)
        = OneIf(IF name = "x" THEN j = index ELSE name \in {first, second} /\ k = index)
  BY <1>1 DEF OneIf
<1>4. QED
  BY <1>2, <1>3 DEF Q, a, b, c

\* An entry of a coordinate matrix.
CooNames == {"coo_row_index", "coo_column_index", "coo_value"}

LEMMA CooEntryHits ==
  ASSUME OptionsInv, NEW t \in Threads, NEW k \in Int, A.coo.column_index[k] \in Int,
         NEW target, target.array \in {"y", "workspace"}, NEW name \in Counted, NEW index
  PROVE  Occurrences(CooEntry(k, t, target), About(name, index))
           = OneIf(IF name = "x" THEN A.coo.column_index[k] = index ELSE name \in CooNames /\ k = index)
<1> DEFINE Q == About(name, index)
           a == Ref("coo_row_index", k, t)
           b == Ref("coo_column_index", k, t)
           c == Ref("coo_value", k, t)
           j == A.coo.column_index[k]
           d == OfX(j)
<1>1. "coo_row_index" \in AllNames /\ "coo_column_index" \in AllNames /\ "coo_value" \in AllNames
  BY DEF AllNames
<1>2. /\ (a \in Q) <=> ("coo_row_index" = name /\ k = index)
      /\ (b \in Q) <=> ("coo_column_index" = name /\ k = index)
      /\ (c \in Q) <=> ("coo_value" = name /\ k = index)
      /\ (d \in Q) <=> (name = "x" /\ j = index)
  BY <1>1, AboutIs
<1>3. target \notin Q
  <2>1. target.array # name
    BY DEF Counted
  <2>2. QED
    BY <2>1, AboutIs
<1>4. CooEntry(k, t, target) = <<a, b, c, d, target>>
  BY DEF CooEntry
<1> HIDE DEF Q, a, b, c, d, j
<1>5. Occurrences(<<a, b, c, d, target>>, Q) =
        OneIf(a \in Q) + OneIf(b \in Q) + OneIf(c \in Q) + OneIf(d \in Q) + OneIf(target \in Q)
  BY OccurrencesOfFive
<1>6. OneIf(a \in Q) + OneIf(b \in Q) + OneIf(c \in Q) + OneIf(d \in Q) + OneIf(target \in Q)
        = OneIf(IF name = "x" THEN j = index ELSE name \in CooNames /\ k = index)
  BY <1>2, <1>3 DEF OneIf, CooNames
<1>7. QED
  BY <1>4, <1>5, <1>6 DEF Q, j

\* The shares of the threads, counted up to the first of each.
LEMMA SharesTally ==
  ASSUME OptionsInv, NEW n \in Nat, NEW N \in Nat, NEW ptr,
         ptr[0] = 0, ptr[n] = N, \A i \in 0 .. n : ptr[i] \in 0 .. N,
         NEW H, H[0] = 0, \A k \in 0 .. N : H[k] \in Int, NEW refs, NEW Q,
         \A t \in Threads :
           Occurrences(refs[t], Q) = H[ptr[ThreadStart(n, num_threads, t + 1)]]
                                       - H[ptr[ThreadStart(n, num_threads, t)]]
  PROVE  Tallied(refs, Q, H[N])
<1> DEFINE F == [t \in 0 .. num_threads |-> H[ptr[ThreadStart(n, num_threads, t)]]]
<1>1. num_threads \in Nat /\ \A t \in Threads : t \in 0 .. num_threads /\ t + 1 \in 0 .. num_threads
  BY OptionsAre
<1>2. /\ ThreadStart(n, num_threads, 0) = 0 /\ ThreadStart(n, num_threads, num_threads) = n
      /\ \A t \in Threads : /\ ThreadStart(n, num_threads, t) \in 0 .. n
                            /\ ThreadStart(n, num_threads, t + 1) \in 0 .. n
  BY ShareIs, SharesCover
<1>3. \A t \in 0 .. num_threads : F[t] = H[ptr[ThreadStart(n, num_threads, t)]]
  OBVIOUS
<1> HIDE DEF F
<1>4. F[0] = 0 /\ F[num_threads] = H[N]
  BY <1>1, <1>2, <1>3
<1>5. \A t \in Threads : F[t] \in Int /\ F[t + 1] \in Int
  BY <1>1, <1>2, <1>3
<1>6. \A t \in Threads : Occurrences(refs[t], Q) = F[t + 1] - F[t]
  BY <1>1, <1>3
<1>7. QED
  BY <1>4, <1>5, <1>6 DEF Tallied

\* The iterations that refer to an element are iterations.
LEMMA HitsAre ==
  ASSUME NEW n \in Nat, NEW own, NEW column, NEW name, NEW index
  PROVE  /\ Hits(n, own, column, name, index) \in SUBSET (0 .. n - 1)
         /\ \A k \in 0 .. n - 1 :
              (k \in Hits(n, own, column, name, index)) <=>
                (IF name = "x" THEN column[k] = index ELSE name \in own /\ k = index)
BY DEF Hits

\* The references to an element are counted, in all strings together, by the
\* iterations that refer to it: for each kernel and part of it.
LEMMA TriadTally ==
  ASSUME OptionsInv, kernel = "triad", NEW name \in {"a", "b", "c"}, NEW index
  PROVE  Tallied([t \in Threads |-> String(t).refs], About(name, index),
                 Cardinality(Hits(A.num_entries, {"a", "b", "c"}, <<>>, name, index)))
<1> DEFINE n == A.num_entries
           Q == About(name, index)
           E == Hits(n, {"a", "b", "c"}, <<>>, name, index)
           H == Before(E, n)
           ptr == [i \in 0 .. n |-> i]
           refs == [t \in Threads |-> String(t).refs]
<1>1. n \in Nat
  BY TriadIs
<1>2. /\ E \in SUBSET (0 .. n - 1)
      /\ \A k \in 0 .. n - 1 : (k \in E) <=> (name \in {"a", "b", "c"} /\ k = index)
  <2>1. name # "x"
    OBVIOUS
  <2>2. QED
    BY <1>1, <2>1, HitsAre
<1> HIDE DEF E, n
<1>3. /\ H[0] = 0 /\ H[n] = Cardinality(E) /\ \A k \in 0 .. n : H[k] \in Int
      /\ \A k \in 0 .. n - 1 : OneIf(k \in E) = H[k + 1] - H[k]
  BY <1>1, <1>2, BeforeIs
<1> HIDE DEF H
<1>4. ASSUME NEW t \in Threads
      PROVE  Occurrences(refs[t], Q) = H[ptr[ThreadStart(n, num_threads, t + 1)]]
                                         - H[ptr[ThreadStart(n, num_threads, t)]]
  <2> DEFINE range == ThreadRange(n, num_threads, t)
             a == ThreadStart(n, num_threads, t)
             b == ThreadStart(n, num_threads, t + 1)
  <2>1. a \in 0 .. n /\ b \in 0 .. n /\ range \subseteq 0 .. n - 1
    BY <1>1, ShareIs
  <2>2. ptr[a] = a /\ ptr[b] = b
    BY <2>1
  <2>3. \A k \in range : Occurrences(TriadStep(k, t), Q) = H[k + 1] - H[k]
    <3> SUFFICES ASSUME NEW k \in range PROVE Occurrences(TriadStep(k, t), Q) = H[k + 1] - H[k]
      OBVIOUS
    <3>1. k \in 0 .. n - 1 /\ k \in Int
      BY <2>1
    <3> DEFINE u == Ref("b", k, t)
               v == Ref("c", k, t)
               w == Ref("a", k, t)
    <3>2. "a" \in AllNames /\ "b" \in AllNames /\ "c" \in AllNames
      BY DEF AllNames
    <3>3. /\ (u \in Q) <=> ("b" = name /\ k = index)
          /\ (v \in Q) <=> ("c" = name /\ k = index)
          /\ (w \in Q) <=> ("a" = name /\ k = index)
      BY <3>1, <3>2, AboutIs
    <3>4. TriadStep(k, t) = <<u, v, w>>
      BY DEF TriadStep
    <3> HIDE DEF u, v, w, Q, range
    <3>5. Occurrences(<<u, v, w>>, Q) = OneIf(u \in Q) + OneIf(v \in Q) + OneIf(w \in Q)
      BY OccurrencesOfThree
    <3>6. OneIf(u \in Q) + OneIf(v \in Q) + OneIf(w \in Q) = OneIf(k \in E)
      BY <1>2, <3>1, <3>3 DEF OneIf
    <3>7. QED
      BY <1>3, <3>1, <3>4, <3>5, <3>6
  <2>4. Occurrences(TriadString(t).refs, Q) = H[b] - H[a]
    BY <1>3, <2>3, TriadStringIs DEF n
  <2>5. refs[t] = TriadString(t).refs
    BY TriadStringIs
  <2> HIDE DEF a, b, ptr, Q, refs
  <2>6. QED
    BY <2>2, <2>4, <2>5 DEF a, b
<1>5. ptr[0] = 0 /\ ptr[n] = n /\ \A i \in 0 .. n : ptr[i] \in 0 .. n
  BY <1>1
<1> HIDE DEF ptr, refs, Q
<1>6. Tallied(refs, Q, H[n])
  BY <1>1, <1>3, <1>4, <1>5, SharesTally
<1>7. QED
  BY <1>3, <1>6 DEF refs, Q, E, n

LEMMA CsrTally ==
  ASSUME OptionsInv, kernel = "csr", NEW name \in Counted, NEW index
  PROVE  Tallied([t \in Threads |-> String(t).refs], About(name, index),
                 Cardinality(Hits(Len(m.entries), {"column_index", "value"},
                                  A.csr.column_index, name, index)))
<1> DEFINE n == Len(m.entries)
           own == {"column_index", "value"}
           column == A.csr.column_index
           ptr == A.csr.row_ptr
           Q == About(name, index)
           E == Hits(n, own, column, name, index)
           H == Before(E, n)
           refs == [t \in Threads |-> String(t).refs]
<1>1. /\ n \in Nat /\ ptr[0] = 0 /\ ptr[m.rows] = n /\ \A i \in 0 .. m.rows : ptr[i] \in 0 .. n
      /\ m.rows \in Nat /\ \A k \in 0 .. n - 1 : column[k] \in Int
  <2>1. m.rows \in Nat /\ Columns \subseteq Int
    BY OptionsAre DEF Columns
  <2>2. QED
    BY <2>1, CsrFacts
<1>2. /\ E \in SUBSET (0 .. n - 1)
      /\ \A k \in 0 .. n - 1 :
           (k \in E) <=> (IF name = "x" THEN column[k] = index ELSE name \in own /\ k = index)
  BY <1>1, HitsAre
<1> HIDE DEF E, n
<1>3. /\ H[0] = 0 /\ H[n] = Cardinality(E) /\ \A k \in 0 .. n : H[k] \in Int
      /\ \A k \in 0 .. n - 1 : OneIf(k \in E) = H[k + 1] - H[k]
  BY <1>1, <1>2, BeforeIs
<1> HIDE DEF H
<1>4. ASSUME NEW t \in Threads
      PROVE  Occurrences(refs[t], Q) = H[ptr[ThreadStart(m.rows, num_threads, t + 1)]]
                                         - H[ptr[ThreadStart(m.rows, num_threads, t)]]
  <2> DEFINE a == ThreadStart(m.rows, num_threads, t)
             b == ThreadStart(m.rows, num_threads, t + 1)
  <2>1. a \in 0 .. m.rows /\ b \in 0 .. m.rows /\ a <= b
    BY <1>1, ShareIs
  <2>2. \A k \in 0 .. n - 1 : Occurrences(CsrNonzero(k, t), Q) = H[k + 1] - H[k]
    <3> SUFFICES ASSUME NEW k \in 0 .. n - 1
                 PROVE  Occurrences(CsrNonzero(k, t), Q) = H[k + 1] - H[k]
      OBVIOUS
    <3>1. k \in Int /\ column[k] \in Int
      BY <1>1
    <3>2. "column_index" \in AllNames \ {"x"} /\ "value" \in AllNames \ {"x"}
      BY DEF AllNames
    <3> DEFINE j == column[k]
    <3>3. CsrNonzero(k, t) = <<Ref("column_index", k, t), Ref("value", k, t), OfX(j)>>
      BY DEF CsrNonzero
    <3> HIDE DEF j
    <3>4. Occurrences(<<Ref("column_index", k, t), Ref("value", k, t), OfX(j)>>, Q)
            = OneIf(IF name = "x" THEN j = index ELSE name \in own /\ k = index)
      BY <3>1, <3>2, TripleHits DEF j
    <3> HIDE DEF Q, own, column
    <3>5. OneIf(IF name = "x" THEN j = index ELSE name \in own /\ k = index) = OneIf(k \in E)
      BY <1>2 DEF OneIf, j
    <3>6. QED
      BY <1>3, <3>3, <3>4, <3>5
  <2>3. \A i \in Int : Ref("row_ptr", i, t) \notin Q /\ Ref("y", i, t) \notin Q
    BY AboutIs, CellOf DEF Counted
  <2>4. /\ OneIf(Ref("row_ptr", a, t) \in Q) = 0
        /\ \A i \in a .. b - 1 :
             OneIf(Ref("row_ptr", i + 1, t) \in Q) + OneIf(Ref("y", i, t) \in Q) = 0
    <3>1. a \in Int /\ \A i \in a .. b - 1 : i \in Int /\ i + 1 \in Int
      BY <2>1
    <3> HIDE DEF a, b, Q
    <3>2. QED
      BY <2>3, <3>1 DEF OneIf
  <2>5. Occurrences(CsrString(t).refs, Q) =
          OneIf(Ref("row_ptr", a, t) \in Q) + ((H[ptr[b]] - H[ptr[a]]) + (0 * (b - a)))
    <3>1. \A Q1, H1 : \A e \in Int :
              (/\ \A k \in 0 .. n : H1[k] \in Int
               /\ \A k \in 0 .. n - 1 : Occurrences(CsrNonzero(k, t), Q1) = H1[k + 1] - H1[k]
               /\ \A i \in a .. b - 1 :
                    OneIf(Ref("row_ptr", i + 1, t) \in Q1) + OneIf(Ref("y", i, t) \in Q1) = e)
              => Occurrences(CsrString(t).refs, Q1) =
                   OneIf(Ref("row_ptr", a, t) \in Q1) + ((H1[ptr[b]] - H1[ptr[a]]) + (e * (b - a)))
      BY CsrStringIs DEF n
    <3>2. 0 \in Int
      OBVIOUS
    <3> HIDE DEF Q, a, b, ptr
    <3>3. QED
      BY <1>3, <2>2, <2>4, <3>1, <3>2, Zenon
  <2>6. refs[t] = CsrString(t).refs
    BY CsrStringIs
  <2>7. H[ptr[b]] \in Int /\ H[ptr[a]] \in Int /\ 0 * (b - a) = 0
    BY <1>1, <1>3, <2>1
  <2> DEFINE p == H[ptr[a]]
             q == H[ptr[b]]
             c == 0 * (b - a)
  <2>8. Occurrences(refs[t], Q) = 0 + ((q - p) + c) /\ p \in Int /\ q \in Int /\ c = 0
    BY <2>4, <2>5, <2>6, <2>7
  <2> HIDE DEF p, q, c, refs, Q
  <2>9. Occurrences(refs[t], Q) = q - p
    BY <2>8
  <2>10. QED
    BY <2>9 DEF p, q
<1> HIDE DEF ptr, refs, Q, column, own
<1>5. Tallied(refs, Q, H[n])
  BY <1>1, <1>3, <1>4, SharesTally
<1>6. QED
  BY <1>3, <1>5 DEF refs, Q, E, n, own, column

EllNames == {"ell_column_index", "ell_value"}

LEMMA EllTally ==
  ASSUME OptionsInv, HasEll, NEW name \in Counted, NEW index
  PROVE  Tallied([t \in Threads |-> EllString(t).refs], About(name, index),
                 Cardinality(Hits(EllSize, EllNames, A.ell.column_index, name, index)))
<1> DEFINE n == EllSize
           length == A.ell.row_length
           column == A.ell.column_index
           ptr == [i \in 0 .. m.rows |-> i * length]
           Q == About(name, index)
           E == Hits(n, EllNames, column, name, index)
           H == Before(E, n)
           refs == [t \in Threads |-> EllString(t).refs]
<1>1. /\ n \in Nat /\ length \in Nat /\ n = m.rows * length
      /\ m.rows \in Nat /\ \A k \in 0 .. n - 1 : column[k] \in Int
  <2>1. m.rows \in Nat /\ Columns \subseteq Int /\ UndefinedColumn \in Int
    BY OptionsAre DEF Columns, UndefinedColumn
  <2>2. QED
    BY <2>1, EllFacts
<1>2. /\ E \in SUBSET (0 .. n - 1)
      /\ \A k \in 0 .. n - 1 :
           (k \in E) <=> (IF name = "x" THEN column[k] = index ELSE name \in EllNames /\ k = index)
  BY <1>1, HitsAre
<1>3. \A i \in 0 .. m.rows : ptr[i] = i * length
  OBVIOUS
<1>4. ptr[0] = 0 /\ ptr[m.rows] = n /\ \A i \in 0 .. m.rows : ptr[i] \in 0 .. n
  <2>1. 0 \in 0 .. m.rows /\ m.rows \in 0 .. m.rows /\ 0 * length = 0
    BY <1>1
  <2>2. \A i \in 0 .. m.rows : i * length \in 0 .. m.rows * length
    BY <1>1, RowsOfEqualLength
  <2> HIDE DEF ptr, n, length
  <2>3. QED
    BY <1>1, <1>3, <2>1, <2>2
<1> HIDE DEF E, n
<1>5. /\ H[0] = 0 /\ H[n] = Cardinality(E) /\ \A k \in 0 .. n : H[k] \in Int
      /\ \A k \in 0 .. n - 1 : OneIf(k \in E) = H[k + 1] - H[k]
  BY <1>1, <1>2, BeforeIs
<1> HIDE DEF H
<1>6. ASSUME NEW t \in Threads
      PROVE  Occurrences(refs[t], Q) = H[ptr[ThreadStart(m.rows, num_threads, t + 1)]]
                                         - H[ptr[ThreadStart(m.rows, num_threads, t)]]
  <2> DEFINE a == ThreadStart(m.rows, num_threads, t)
             b == ThreadStart(m.rows, num_threads, t + 1)
  <2>1. a \in 0 .. m.rows /\ b \in 0 .. m.rows /\ a <= b
    BY <1>1, ShareIs
  <2>2. \A k \in 0 .. n - 1 : Occurrences(EllNonzero(k, t), Q) = H[k + 1] - H[k]
    <3> SUFFICES ASSUME NEW k \in 0 .. n - 1
                 PROVE  Occurrences(EllNonzero(k, t), Q) = H[k + 1] - H[k]
      OBVIOUS
    <3>1. k \in Int /\ column[k] \in Int
      BY <1>1
    <3>2. "ell_column_index" \in AllNames \ {"x"} /\ "ell_value" \in AllNames \ {"x"}
      BY DEF AllNames
    <3> DEFINE j == column[k]
    <3>3. EllNonzero(k, t) = <<Ref("ell_column_index", k, t), Ref("ell_value", k, t), OfX(j)>>
      BY DEF EllNonzero
    <3> HIDE DEF j
    <3>4. Occurrences(<<Ref("ell_column_index", k, t), Ref("ell_value", k, t), OfX(j)>>, Q)
            = OneIf(IF name = "x" THEN j = index ELSE name \in EllNames /\ k = index)
      BY <3>1, <3>2, TripleHits DEF j, EllNames
    <3> HIDE DEF Q, column
    <3>5. OneIf(IF name = "x" THEN j = index ELSE name \in EllNames /\ k = index) = OneIf(k \in E)
      BY <1>2 DEF OneIf, j
    <3>6. QED
      BY <1>5, <3>3, <3>4, <3>5
  <2>3. \A i \in Int : Ref("y", i, t) \notin Q
    BY AboutIs, CellOf DEF Counted
  <2>4. \A i \in a .. b - 1 : OneIf(Ref("y", i, t) \in Q) = 0
    <3>1. \A i \in a .. b - 1 : i \in Int
      BY <2>1
    <3> HIDE DEF a, b, Q
    <3>2. QED
      BY <2>3, <3>1 DEF OneIf
  <2>5. Occurrences(EllString(t).refs, Q) = (H[b * length] - H[a * length]) + (0 * (b - a))
    <3>1. \A Q1, H1 : \A e \in Int :
              (/\ \A k \in 0 .. n : H1[k] \in Int
               /\ \A k \in 0 .. n - 1 : Occurrences(EllNonzero(k, t), Q1) = H1[k + 1] - H1[k]
               /\ \A i \in a .. b - 1 : OneIf(Ref("y", i, t) \in Q1) = e)
              => Occurrences(EllString(t).refs, Q1) =
                   (H1[b * length] - H1[a * length]) + (e * (b - a))
      BY EllStringIs DEF n
    <3>2. 0 \in Int
      OBVIOUS
    <3> HIDE DEF Q, a, b, length
    <3>3. QED
      BY <1>5, <2>2, <2>4, <3>1, <3>2, Zenon
  <2>6. refs[t] = EllString(t).refs
    OBVIOUS
  <2>7. ptr[a] = a * length /\ ptr[b] = b * length
    BY <2>1, <1>3
  <2> HIDE DEF ptr
  <2>8. H[ptr[b]] \in Int /\ H[ptr[a]] \in Int /\ 0 * (b - a) = 0
    BY <1>4, <1>5, <2>1
  <2> DEFINE p == H[ptr[a]]
             q == H[ptr[b]]
             c == 0 * (b - a)
  <2>9. Occurrences(refs[t], Q) = (q - p) + c /\ p \in Int /\ q \in Int /\ c = 0
    BY <2>5, <2>6, <2>7, <2>8
  <2> HIDE DEF p, q, c, refs, Q
  <2>10. Occurrences(refs[t], Q) = q - p
    BY <2>9
  <2>11. QED
    BY <2>10 DEF p, q
<1> HIDE DEF ptr, refs, Q, column
<1>7. Tallied(refs, Q, H[n])
  BY <1>1, <1>4, <1>5, <1>6, SharesTally
<1>8. QED
  BY <1>5, <1>7 DEF refs, Q, E, n, column

\* The entries of a coordinate matrix, whatever they are added to.
LEMMA CooTally ==
  ASSUME OptionsInv, HasCoo, NEW name \in Counted, NEW index, NEW refs,
         \A t \in Threads : \A H :
           (/\ \A k \in 0 .. A.coo.size : H[k] \in Int
            /\ \A k \in 0 .. A.coo.size - 1 :
                 OneIf(k \in Hits(A.coo.size, CooNames, A.coo.column_index, name, index))
                   = H[k + 1] - H[k])
           => Occurrences(refs[t], About(name, index)) =
                H[ThreadStart(A.coo.size, num_threads, t + 1)]
                  - H[ThreadStart(A.coo.size, num_threads, t)]
  PROVE  Tallied(refs, About(name, index),
                 Cardinality(Hits(A.coo.size, CooNames, A.coo.column_index, name, index)))
<1> DEFINE n == A.coo.size
           Q == About(name, index)
           E == Hits(n, CooNames, A.coo.column_index, name, index)
           H == Before(E, n)
           ptr == [i \in 0 .. n |-> i]
<1>1. n \in Nat
  BY CooFacts
<1>2. E \in SUBSET (0 .. n - 1)
  BY <1>1, HitsAre
<1>3. /\ H[0] = 0 /\ H[n] = Cardinality(E) /\ \A k \in 0 .. n : H[k] \in Int
      /\ \A k \in 0 .. n - 1 : OneIf(k \in E) = H[k + 1] - H[k]
  <2> HIDE DEF E, n
  <2>1. QED
    BY <1>1, <1>2, BeforeIs
<1>4. ASSUME NEW t \in Threads
      PROVE  Occurrences(refs[t], Q) = H[ThreadStart(n, num_threads, t + 1)]
                                         - H[ThreadStart(n, num_threads, t)]
  <2> HIDE DEF H
  <2>1. QED
    BY <1>3
<1> HIDE DEF H, E, n
<1>5. \A i \in 0 .. n : ptr[i] = i
  OBVIOUS
<1>6. \A t \in Threads : /\ ThreadStart(n, num_threads, t) \in 0 .. n
                         /\ ThreadStart(n, num_threads, t + 1) \in 0 .. n
  BY <1>1, ShareIs
<1> HIDE DEF ptr, Q
<1>7. \A t \in Threads :
        Occurrences(refs[t], Q) = H[ptr[ThreadStart(n, num_threads, t + 1)]]
                                    - H[ptr[ThreadStart(n, num_threads, t)]]
  BY <1>4, <1>5, <1>6
<1>8. ptr[0] = 0 /\ ptr[n] = n /\ \A i \in 0 .. n : ptr[i] \in 0 .. n
  BY <1>1, <1>5
<1>9. Tallied(refs, Q, H[n])
  BY <1>1, <1>3, <1>7, <1>8, SharesTally
<1>10. QED
  BY <1>3, <1>9 DEF Q, E, n

LEMMA CooHitsAre ==
  ASSUME OptionsInv, HasCoo, NEW t \in Threads, NEW name \in Counted, NEW index, NEW target,
         NEW k \in 0 .. A.coo.size - 1, target.array \in {"y", "workspace"}
  PROVE  Occurrences(CooEntry(k, t, target), About(name, index)) =
           OneIf(k \in Hits(A.coo.size, CooNames, A.coo.column_index, name, index))
<1> DEFINE E == Hits(A.coo.size, CooNames, A.coo.column_index, name, index)
           column == A.coo.column_index
<1>1. A.coo.size \in Nat /\ column[k] \in Int /\ k \in Int
  BY CooFacts, OptionsAre DEF Columns
<1>2. (k \in E) <=> (IF name = "x" THEN column[k] = index ELSE name \in CooNames /\ k = index)
  BY <1>1, HitsAre
<1>3. Occurrences(CooEntry(k, t, target), About(name, index)) =
        OneIf(IF name = "x" THEN column[k] = index ELSE name \in CooNames /\ k = index)
  BY <1>1, CooEntryHits
<1> HIDE DEF E, column
<1>4. QED
  BY <1>2, <1>3 DEF OneIf, E

LEMMA CooStringTally ==
  ASSUME OptionsInv, HasWorkspace, NEW name \in Counted, NEW index
  PROVE  Tallied([t \in Threads |-> CooString(t).refs], About(name, index),
                 Cardinality(Hits(A.coo.size, CooNames, A.coo.column_index, name, index)))
<1> DEFINE n == A.coo.size
           Q == About(name, index)
           E == Hits(n, CooNames, A.coo.column_index, name, index)
           refs == [t \in Threads |-> CooString(t).refs]
<1>1. HasCoo
  BY DEF HasWorkspace, HasCoo
<1>2. ASSUME NEW t \in Threads, NEW H, \A k \in 0 .. n : H[k] \in Int,
             \A k \in 0 .. n - 1 : OneIf(k \in E) = H[k + 1] - H[k]
      PROVE  Occurrences(refs[t], Q) = H[ThreadStart(n, num_threads, t + 1)]
                                         - H[ThreadStart(n, num_threads, t)]
  <2> DEFINE a == ThreadStart(n, num_threads, t)
             b == ThreadStart(n, num_threads, t + 1)
             rows == ThreadRange(m.rows, num_threads, t)
             c == Cardinality(rows)
  <2>1. \A k \in 0 .. n - 1 : Occurrences(CooEntry(k, t, InWorkspace(k, t)), Q) = H[k + 1] - H[k]
    <3> SUFFICES ASSUME NEW k \in 0 .. n - 1
                 PROVE  Occurrences(CooEntry(k, t, InWorkspace(k, t)), Q) = H[k + 1] - H[k]
      OBVIOUS
    <3>1. InWorkspace(k, t).array \in {"y", "workspace"}
      BY CellOf
    <3>2. Occurrences(CooEntry(k, t, InWorkspace(k, t)), Q) = OneIf(k \in E)
      BY <1>1, <3>1, CooHitsAre
    <3> HIDE DEF Q, E
    <3>3. QED
      BY <1>2, <3>2
  <2>2. \A i \in rows : \A j \in Threads : Occurrences(Reduction(i, j, t), Q) = 0
    <3> SUFFICES ASSUME NEW i \in rows, NEW j \in Threads
                 PROVE  Occurrences(Reduction(i, j, t), Q) = 0
      OBVIOUS
    <3>1. Reduction(i, j, t)[1].array = "workspace" /\ Ref("y", i, t).array = "y"
      BY CellOf
    <3>2. Reduction(i, j, t)[1] \notin Q /\ Ref("y", i, t) \notin Q
      BY <3>1, AboutIs DEF Counted
    <3>3. \A Q1 : Occurrences(Reduction(i, j, t), Q1) =
                    OneIf(Reduction(i, j, t)[1] \in Q1) + OneIf(Ref("y", i, t) \in Q1)
      BY ReductionIs
    <3> HIDE DEF Q
    <3>4. Occurrences(Reduction(i, j, t), Q) =
            OneIf(Reduction(i, j, t)[1] \in Q) + OneIf(Ref("y", i, t) \in Q)
      BY <3>3
    <3>5. QED
      BY <3>2, <3>4 DEF OneIf
  <2>3. Occurrences(CooString(t).refs, Q) = (H[b] - H[a]) + (c * (num_threads * 0))
    <3>1. \A Q1, H1 : \A e \in Int :
            (/\ \A k \in 0 .. n : H1[k] \in Int
             /\ \A k \in 0 .. n - 1 :
                  Occurrences(CooEntry(k, t, InWorkspace(k, t)), Q1) = H1[k + 1] - H1[k]
             /\ \A i \in rows : \A j \in Threads : Occurrences(Reduction(i, j, t), Q1) = e)
            => Occurrences(CooString(t).refs, Q1) = (H1[b] - H1[a]) + (c * (num_threads * e))
      BY CooStringIs
    <3>2. 0 \in Int
      OBVIOUS
    <3> HIDE DEF n, a, b, rows, Q, c
    <3>3. QED
      BY <1>2, <2>1, <2>2, <3>1, <3>2, Zenon
  <2>4. c \in Int /\ num_threads \in Int
    <3>1. m.rows \in Nat /\ num_threads \in Nat
      BY OptionsAre
    <3> DEFINE i == ThreadStart(m.rows, num_threads, t)
               j == ThreadStart(m.rows, num_threads, t + 1)
    <3>2. i \in 0 .. m.rows /\ j \in 0 .. m.rows /\ c = j - i
      BY <3>1, ShareIs
    <3> HIDE DEF i, j, c
    <3>3. QED
      BY <3>1, <3>2
  <2>5. a \in 0 .. n /\ b \in 0 .. n
    BY <1>1, CooFacts, ShareIs
  <2>6. refs[t] = CooString(t).refs
    OBVIOUS
  <2> DEFINE p == H[a]
             q == H[b]
             zero == c * (num_threads * 0)
  <2>7. zero = 0 /\ p \in Int /\ q \in Int /\ Occurrences(refs[t], Q) = (q - p) + zero
    <3> HIDE DEF n, c, a, b, refs, Q
    <3>1. zero = 0
      BY <2>4
    <3>2. p \in Int /\ q \in Int
      BY <1>2, <2>5
    <3>3. QED
      BY <2>3, <2>6, <3>1, <3>2
  <2> HIDE DEF p, q, zero, refs, Q
  <2>8. Occurrences(refs[t], Q) = q - p
    BY <2>7
  <2>9. QED
    BY <2>8 DEF p, q
<1> HIDE DEF refs
<1>3. Tallied(refs, Q, Cardinality(E))
  BY <1>1, <1>2, CooTally
<1>4. QED
  BY <1>3 DEF refs

LEMMA CooAtomicTally ==
  ASSUME OptionsInv, kernel = "coo_atomic", NEW name \in Counted, NEW index
  PROVE  Tallied([t \in Threads |-> String(t).refs], About(name, index),
                 Cardinality(Hits(A.coo.size, CooNames, A.coo.column_index, name, index)))
<1> DEFINE n == A.coo.size
           Q == About(name, index)
           E == Hits(n, CooNames, A.coo.column_index, name, index)
           refs == [t \in Threads |-> String(t).refs]
<1>1. HasCoo
  BY DEF HasCoo
<1>2. ASSUME NEW t \in Threads, NEW H, \A k \in 0 .. n : H[k] \in Int,
             \A k \in 0 .. n - 1 : OneIf(k \in E) = H[k + 1] - H[k]
      PROVE  Occurrences(refs[t], Q) = H[ThreadStart(n, num_threads, t + 1)]
                                         - H[ThreadStart(n, num_threads, t)]
  <2>1. \A k \in 0 .. n - 1 : Occurrences(CooEntry(k, t, InResult(k)), Q) = H[k + 1] - H[k]
    <3> SUFFICES ASSUME NEW k \in 0 .. n - 1
                 PROVE  Occurrences(CooEntry(k, t, InResult(k)), Q) = H[k + 1] - H[k]
      OBVIOUS
    <3>1. InResult(k).array \in {"y", "workspace"}
      BY CellOf
    <3>2. Occurrences(CooEntry(k, t, InResult(k)), Q) = OneIf(k \in E)
      BY <1>1, <3>1, CooHitsAre
    <3> HIDE DEF Q, E
    <3>3. QED
      BY <1>2, <3>2
  <2>2. /\ String(t) = CooAtomicString(t)
        /\ Occurrences(CooAtomicString(t).refs, Q) = H[ThreadStart(n, num_threads, t + 1)]
                                                       - H[ThreadStart(n, num_threads, t)]
    BY <1>2, <2>1, CooAtomicStringIs
  <2>3. refs[t] = String(t).refs
    OBVIOUS
  <2> HIDE DEF refs, Q, n
  <2>4. QED
    BY <2>2, <2>3
<1> HIDE DEF refs
<1>3. Tallied(refs, Q, Cardinality(E))
  BY <1>1, <1>2, CooTally
<1>4. QED
  BY <1>3 DEF refs

\* Counts of the parts of a string add up.
LEMMA SumTally ==
  ASSUME NEW r, NEW s, NEW refs, NEW Q, NEW c \in Int, NEW d \in Int, num_threads \in Nat,
         Threads = 0 .. num_threads - 1,
         Tallied(r, Q, c), Tallied(s, Q, d),
         \A t \in Threads : Occurrences(refs[t], Q) = Occurrences(r[t], Q) + Occurrences(s[t], Q)
  PROVE  Tallied(refs, Q, c + d)
<1>1. PICK F : /\ F[0] = 0 /\ F[num_threads] = c
               /\ \A t \in Threads : /\ F[t] \in Int /\ F[t + 1] \in Int
                                     /\ Occurrences(r[t], Q) = F[t + 1] - F[t]
  BY DEF Tallied
<1>2. PICK G : /\ G[0] = 0 /\ G[num_threads] = d
               /\ \A t \in Threads : /\ G[t] \in Int /\ G[t + 1] \in Int
                                     /\ Occurrences(s[t], Q) = G[t + 1] - G[t]
  BY DEF Tallied
<1> DEFINE H == [t \in 0 .. num_threads |-> F[t] + G[t]]
<1>3. /\ \A t \in 0 .. num_threads : H[t] = F[t] + G[t]
      /\ \A t \in Threads : t \in 0 .. num_threads /\ t + 1 \in 0 .. num_threads
  OBVIOUS
<1> HIDE DEF H
<1>4. H[0] = 0 /\ H[num_threads] = c + d
  BY <1>1, <1>2, <1>3
<1>5. \A t \in Threads : H[t] = F[t] + G[t] /\ H[t + 1] = F[t + 1] + G[t + 1]
  BY <1>3
<1>6. ASSUME NEW t \in Threads
      PROVE  H[t] \in Int /\ H[t + 1] \in Int /\ Occurrences(refs[t], Q) = H[t + 1] - H[t]
  <2> DEFINE f == F[t]
             g == G[t]
             ff == F[t + 1]
             gg == G[t + 1]
  <2>1. H[t] = f + g /\ H[t + 1] = ff + gg
    BY <1>5
  <2>2. f \in Int /\ g \in Int /\ ff \in Int /\ gg \in Int
    BY <1>1, <1>2
  <2>3. Occurrences(refs[t], Q) = (ff - f) + (gg - g)
    BY <1>1, <1>2
  <2> HIDE DEF f, g, ff, gg
  <2>4. QED
    BY <2>1, <2>2, <2>3
<1>7. QED
  BY <1>4, <1>6 DEF Tallied

\* How often all the strings together refer to an element.
LEMMA CountIs ==
  ASSUME IInv, Len(strings) = num_threads, NEW name, NEW index, NEW c,
         Tallied([t \in Threads |-> String(t).refs], About(name, index), c)
  PROVE  Count(name, index) = c
<1> DEFINE Q == About(name, index)
           refs == [t \in Threads |-> String(t).refs]
           seqs == [n \in 1 .. num_threads |-> String(n - 1).refs]
<1>1. OptionsInv /\ num_threads \in Nat /\ Threads = 0 .. num_threads - 1
  BY OptionsAre DEF IInv
<1>2. \A n \in 1 .. num_threads : n - 1 \in Threads /\ String(n - 1).refs \in Seq(References)
  <2>1. \A n \in 1 .. num_threads : n - 1 \in Threads
    BY <1>1
  <2>2. QED
    BY <1>1, <2>1, StringIsSound
<1>3. seqs \in [1 .. num_threads -> Seq(References)]
  BY <1>2
<1>4. AllRefs = FlattenSeq(seqs)
  <2>1. strings = [n \in 1 .. num_threads |-> String(n - 1)]
    BY DEF IInv, StringsInv
  <2>2. DOMAIN strings = 1 .. num_threads
    BY <2>1
  <2>3. \A n \in 1 .. num_threads : strings[n] = String(n - 1)
    BY <2>1
  <2>4. [n \in DOMAIN strings |-> strings[n].refs] = seqs
    BY <2>2, <2>3
  <2>5. QED
    BY <2>4 DEF AllRefs
<1>5. PICK F : /\ F[0] = 0 /\ F[num_threads] = c
               /\ \A t \in Threads : /\ F[t] \in Int /\ F[t + 1] \in Int
                                     /\ Occurrences(refs[t], Q) = F[t + 1] - F[t]
  BY DEF Tallied
<1>6. \A n \in 1 .. num_threads : F[n] = F[n - 1] + Occurrences(seqs[n], Q)
  <2> SUFFICES ASSUME NEW n \in 1 .. num_threads
               PROVE  F[n] = F[n - 1] + Occurrences(seqs[n], Q)
    OBVIOUS
  <2> DEFINE t == n - 1
  <2>1. t \in Threads /\ t + 1 = n
    BY <1>1
  <2>2. refs[t] = seqs[n]
    BY <2>1
  <2> HIDE DEF t, refs, seqs, Q
  <2>3. F[t] \in Int /\ F[n] \in Int /\ Occurrences(seqs[n], Q) = F[n] - F[t]
    BY <1>5, <2>1, <2>2
  <2>4. F[n] = F[t] + Occurrences(seqs[n], Q)
    BY <2>3
  <2>5. QED
    BY <2>4 DEF t
<1>7. AllRefs \in Seq(References) /\ Occurrences(AllRefs, Q) = F[num_threads]
  <2> HIDE DEF seqs, Q
  <2>1. QED
    BY <1>1, <1>3, <1>4, <1>5, <1>6, FlattenedIs
<1>8. Count(name, index) = Occurrences(AllRefs, Q)
  <2>1. \A n \in DOMAIN AllRefs : AllRefs[n] \in References
    BY <1>7
  <2>2. \A n \in DOMAIN AllRefs :
          (AllRefs[n].array = name /\ AllRefs[n].index = index) <=> (AllRefs[n] \in Q)
    BY <2>1 DEF About
  <2> HIDE DEF Q
  <2>3. {n \in DOMAIN AllRefs : AllRefs[n].array = name /\ AllRefs[n].index = index} =
          {n \in DOMAIN AllRefs : AllRefs[n] \in Q}
    BY <2>2
  <2>4. QED
    BY <2>3 DEF Count, Occurrences
<1>9. QED
  BY <1>5, <1>7, <1>8

\* An iteration refers once to its own elements; to those of other arrays never.
LEMMA OwnHits ==
  ASSUME NEW n \in Nat, NEW own, NEW column, NEW name, NEW index, name # "x"
  PROVE  /\ (name \in own /\ index \in 0 .. n - 1) => Cardinality(Hits(n, own, column, name, index)) = 1
         /\ name \notin own => Cardinality(Hits(n, own, column, name, index)) = 0
<1> DEFINE E == Hits(n, own, column, name, index)
<1>1. ASSUME name \in own, index \in 0 .. n - 1
      PROVE  Cardinality(E) = 1
  <2>1. E = {index}
    BY <1>1 DEF Hits
  <2> HIDE DEF E
  <2>2. QED
    BY <2>1, FS_Singleton
<1>2. ASSUME name \notin own
      PROVE  Cardinality(E) = 0
  <2>1. E = {}
    BY <1>2 DEF Hits
  <2> HIDE DEF E
  <2>2. QED
    BY <2>1, FS_EmptySet
<1>3. QED
  BY <1>1, <1>2

\* The iterations that refer to an element can be counted.
LEMMA HitsAreMany ==
  ASSUME NEW n \in Nat, NEW own, NEW column, NEW name, NEW index
  PROVE  /\ IsFiniteSet(Hits(n, own, column, name, index))
         /\ Cardinality(Hits(n, own, column, name, index)) \in Nat
<1> DEFINE E == Hits(n, own, column, name, index)
<1>1. E \in SUBSET (0 .. n - 1)
  BY DEF Hits
<1>2. IsFiniteSet(0 .. n - 1)
  BY IntervalSize
<1> HIDE DEF E
<1>3. IsFiniteSet(E)
  BY <1>1, <1>2, FS_Subset
<1>4. IsFiniteSet(E) /\ Cardinality(E) \in Nat
  BY <1>3, FS_CardinalityType
<1>5. QED
  BY <1>4 DEF E

\* The references of a hybrid kernel are those of its two parts.
LEMMA HybridTally ==
  ASSUME OptionsInv, kernel = "hybrid", NEW name \in Counted, NEW index
  PROVE  Tallied([t \in Threads |-> String(t).refs], About(name, index),
                 Cardinality(Hits(EllSize, EllNames, A.ell.column_index, name, index))
                   + Cardinality(Hits(A.coo.size, CooNames, A.coo.column_index, name, index)))
<1> DEFINE Q == About(name, index)
           c == Cardinality(Hits(EllSize, EllNames, A.ell.column_index, name, index))
           d == Cardinality(Hits(A.coo.size, CooNames, A.coo.column_index, name, index))
           r == [t \in Threads |-> EllString(t).refs]
           s == [t \in Threads |-> CooString(t).refs]
           refs == [t \in Threads |-> String(t).refs]
<1>1. HasEll /\ HasWorkspace /\ HasCoo
  BY DEF HasEll, HasWorkspace, HasCoo
<1>2. c \in Int /\ d \in Int
  <2>1. EllSize \in Nat /\ A.coo.size \in Nat
    BY <1>1, EllFacts, CooFacts
  <2>2. QED
    BY <2>1, HitsAreMany
<1>3. Tallied(r, Q, c) /\ Tallied(s, Q, d)
  BY <1>1, EllTally, CooStringTally
<1>4. \A t \in Threads : Occurrences(refs[t], Q) = Occurrences(r[t], Q) + Occurrences(s[t], Q)
  <2> SUFFICES ASSUME NEW t \in Threads
               PROVE  Occurrences(refs[t], Q) = Occurrences(r[t], Q) + Occurrences(s[t], Q)
    OBVIOUS
  <2>1. refs[t] = String(t).refs /\ r[t] = EllString(t).refs /\ s[t] = CooString(t).refs
    OBVIOUS
  <2> HIDE DEF refs, r, s, Q
  <2>2. QED
    BY <2>1, HybridStringIs
<1>5. num_threads \in Nat /\ Threads = 0 .. num_threads - 1
  BY OptionsAre
<1> HIDE DEF refs, r, s, Q, c, d
<1>6. Tallied(refs, Q, c + d)
  BY <1>2, <1>3, <1>4, <1>5, SumTally
<1>7. QED
  BY <1>6 DEF refs, Q, c, d

-----------------------------------------------------------------------------
(* Counting entries and columns *)

\* An element of an array that holds entries is referred to once.
LEMMA EntriesCountedOnce ==
  ASSUME IInv, Len(strings) = num_threads, NEW name \in ArrayNames,
         name \notin {"row_ptr", "x", "y", "workspace"}, NEW index \in 0 .. ArrayOf(name).n - 1
  PROVE  Count(name, index) = 1
<1>1. OptionsInv
  BY DEF IInv
<1>2. CASE kernel = "triad"
  <2>1. name \in {"a", "b", "c"} /\ ArrayOf(name).n = A.num_entries /\ A.num_entries \in Nat
    BY <1>1, <1>2, ArraysNamedTriad, ArrayOfName, TriadIs
  <2>2. Cardinality(Hits(A.num_entries, {"a", "b", "c"}, <<>>, name, index)) = 1
    BY <2>1, OwnHits
  <2>3. QED
    BY <1>1, <1>2, <2>1, <2>2, TriadTally, CountIs
<1>3. CASE kernel = "csr"
  <2> DEFINE n == Len(m.entries)
  <2>1. name \in {"column_index", "value"}
    BY <1>3, ArraysNamedCsr
  <2>2. ArrayOf(name).n = n /\ n \in Nat
    <3>1. A.csr.row_ptr[m.rows] = n /\ n \in Nat
      BY <1>1, <1>3, CsrFacts
    <3>2. ArrayOf(name).n = A.csr.row_ptr[m.rows]
      BY <1>1, <1>3, <2>1, ArraysNamedCsr, ArrayOfName
    <3>3. QED
      BY <3>1, <3>2
  <2>3. Cardinality(Hits(n, {"column_index", "value"}, A.csr.column_index, name, index)) = 1
    <3> HIDE DEF n
    <3>1. QED
      BY <2>1, <2>2, OwnHits
  <2>4. name \in Counted
    BY <2>1 DEF Counted, AllNames
  <2>5. QED
    BY <1>1, <1>3, <2>3, <2>4, CsrTally, CountIs
<1>4. CASE kernel = "ell"
  <2>1. name \in EllNames
    BY <1>4, ArraysNamedEll DEF EllNames
  <2>2. ArrayOf(name).n = EllSize /\ EllSize \in Nat /\ HasEll
    <3>1. HasEll
      BY <1>4 DEF HasEll
    <3>2. ArrayOf(name).n = EllSize
      BY <1>1, <1>4, <2>1, ArraysNamedEll, ArrayOfName DEF EllNames
    <3>3. QED
      BY <1>1, <3>1, <3>2, EllFacts
  <2>3. Cardinality(Hits(EllSize, EllNames, A.ell.column_index, name, index)) = 1
    <3>1. name # "x"
      BY <2>1 DEF EllNames
    <3>2. QED
      BY <2>1, <2>2, <3>1, OwnHits
  <2>4. name \in Counted
    BY <2>1 DEF Counted, AllNames, EllNames
  <2>5. Tallied([t \in Threads |-> EllString(t).refs], About(name, index), 1)
    BY <1>1, <2>2, <2>3, <2>4, EllTally
  <2>6. [t \in Threads |-> EllString(t).refs] = [t \in Threads |-> String(t).refs]
    BY <1>4 DEF String
  <2>7. QED
    BY <2>5, <2>6, CountIs
<1>5. CASE kernel \in {"coo", "coo_atomic"}
  <2>1. name \in CooNames
    BY <1>5, ArraysNamedCoo, ArraysNamedCooAtomic DEF CooNames
  <2>2. ArrayOf(name).n = A.coo.size /\ A.coo.size \in Nat /\ HasCoo
    <3>1. HasCoo
      BY <1>5 DEF HasCoo
    <3>2. CASE kernel = "coo"
      <4>1. ArrayOf(name).n = A.coo.size
        BY <1>1, <3>2, <2>1, ArraysNamedCoo, ArrayOfName DEF CooNames
      <4>2. QED
        BY <1>1, <3>1, <4>1, CooFacts
    <3>3. CASE kernel = "coo_atomic"
      <4>1. ArrayOf(name).n = A.coo.size
        BY <1>1, <3>3, <2>1, ArraysNamedCooAtomic, ArrayOfName DEF CooNames
      <4>2. QED
        BY <1>1, <3>1, <4>1, CooFacts
    <3>4. QED
      BY <1>5, <3>2, <3>3
  <2>3. Cardinality(Hits(A.coo.size, CooNames, A.coo.column_index, name, index)) = 1
    <3>1. name # "x"
      BY <2>1 DEF CooNames
    <3>2. QED
      BY <2>1, <2>2, <3>1, OwnHits
  <2>4. name \in Counted
    BY <2>1 DEF Counted, AllNames, CooNames
  <2>5. Tallied([t \in Threads |-> String(t).refs], About(name, index), 1)
    <3>1. CASE kernel = "coo"
      <4>1. HasWorkspace
        BY <3>1 DEF HasWorkspace
      <4>2. Tallied([t \in Threads |-> CooString(t).refs], About(name, index), 1)
        BY <1>1, <4>1, <2>3, <2>4, CooStringTally
      <4>3. [t \in Threads |-> CooString(t).refs] = [t \in Threads |-> String(t).refs]
        BY <3>1 DEF String
      <4>4. QED
        BY <4>2, <4>3
    <3>2. CASE kernel = "coo_atomic"
      BY <1>1, <3>2, <2>3, <2>4, CooAtomicTally
    <3>3. QED
      BY <1>5, <3>1, <3>2
  <2>6. QED
    BY <2>5, CountIs
<1>6. CASE kernel = "hybrid"
  <2> DEFINE c == Cardinality(Hits(EllSize, EllNames, A.ell.column_index, name, index))
             d == Cardinality(Hits(A.coo.size, CooNames, A.coo.column_index, name, index))
  <2>1. name \in EllNames \cup CooNames
    BY <1>6, ArraysNamedHybrid DEF EllNames, CooNames
  <2>2. EllSize \in Nat /\ A.coo.size \in Nat
    BY <1>1, <1>6, EllFacts, CooFacts DEF HasEll, HasCoo
  <2>3. /\ name \in EllNames => ArrayOf(name).n = EllSize
        /\ name \in CooNames => ArrayOf(name).n = A.coo.size
    <3>1. name \in EllNames => ArrayOf(name).n = EllSize
      BY <1>1, <1>6, ArraysNamedHybrid, ArrayOfName DEF EllNames
    <3>2. name \in CooNames => ArrayOf(name).n = A.coo.size
      BY <1>1, <1>6, ArraysNamedHybrid, ArrayOfName DEF CooNames
    <3>3. QED
      BY <3>1, <3>2
  <2>4. name # "x" /\ ~ (name \in EllNames /\ name \in CooNames)
    BY <2>1 DEF EllNames, CooNames
  <2>5. c + d = 1
    <3>1. CASE name \in EllNames
      <4>1. c = 1
        BY <2>2, <2>3, <2>4, <3>1, OwnHits
      <4>2. d = 0
        BY <2>2, <2>4, <3>1, OwnHits
      <4> HIDE DEF c, d
      <4>3. QED
        BY <4>1, <4>2
    <3>2. CASE name \in CooNames
      <4>1. d = 1
        BY <2>2, <2>3, <2>4, <3>2, OwnHits
      <4>2. c = 0
        BY <2>2, <2>4, <3>2, OwnHits
      <4> HIDE DEF c, d
      <4>3. QED
        BY <4>1, <4>2
    <3>3. QED
      BY <2>1, <3>1, <3>2
  <2>6. name \in Counted
    BY <2>1 DEF Counted, AllNames, EllNames, CooNames
  <2>7. Tallied([t \in Threads |-> String(t).refs], About(name, index), c + d)
    BY <1>1, <1>6, <2>6, HybridTally
  <2> HIDE DEF c, d
  <2>8. QED
    BY <2>5, <2>7, CountIs
<1>7. QED
  BY <1>1, <1>2, <1>3, <1>4, <1>5, <1>6 DEF OptionsInv, KernelNames

\* A column of x is referred to as often as it is stored: in CSR,
LEMMA CsrColumn ==
  ASSUME OptionsInv, kernel = "csr", NEW own, NEW j
  PROVE  Cardinality(Hits(Len(m.entries), own, A.csr.column_index, "x", j)) = EntriesInColumn(j)
<1> DEFINE n == Len(m.entries)
           S == InColumn(m, j)
           E == Hits(n, own, A.csr.column_index, "x", j)
<1>1. IsMatrix(m)
  BY OptionsAre
<1>2. n \in Nat /\ DOMAIN m.entries = 1 .. n
  BY <1>1, EntriesAre
<1>3. S \in SUBSET (1 .. n)
  BY <1>2 DEF InColumn
<1>4. \A k \in 0 .. n - 1 : (A.csr.column_index[k] = j) <=> (k + 1 \in S)
  <2>1. \A k \in 0 .. n - 1 : k + 1 \in 1 .. n
    BY <1>2
  <2>2. \A k \in 0 .. n - 1 : A.csr.column_index[k] = SortRowMajor(m)[k + 1].j - 1
    BY CsrFacts
  <2>3. QED
    BY <1>2, <2>1, <2>2 DEF InColumn
<1>5. E = {k \in 0 .. n - 1 : k + 1 \in S}
  BY <1>4 DEF Hits
<1> HIDE DEF S, E, n
<1>6. Cardinality(E) = Cardinality(S)
  BY <1>2, <1>3, <1>5, Shifted
<1>7. Cardinality(S) = EntriesInColumn(j)
  BY <1>1, ColumnIs DEF EntriesInColumn, S
<1>8. QED
  BY <1>6, <1>7 DEF E, n

\* as coordinates,
LEMMA CooColumn ==
  ASSUME OptionsInv, kernel \in {"coo", "coo_atomic"}, NEW own, NEW j
  PROVE  Cardinality(Hits(A.coo.size, own, A.coo.column_index, "x", j)) = EntriesInColumn(j)
<1> DEFINE n == Len(m.entries)
           S == {k \in DOMAIN m.entries : m.entries[k].j - 1 = j}
           E == Hits(n, own, A.coo.column_index, "x", j)
<1>1. IsMatrix(m)
  BY OptionsAre
<1>2. n \in Nat /\ DOMAIN m.entries = 1 .. n
  BY <1>1, EntriesAre
<1>3. S \in SUBSET (1 .. n)
  BY <1>2
<1>4. A.coo.size = n /\ \A k \in 0 .. n - 1 : A.coo.column_index[k] = m.entries[k + 1].j - 1
  <2>1. HasCoo /\ kernel # "hybrid"
    BY DEF HasCoo
  <2>2. A.coo.size = n
    BY <2>1, CooFacts
  <2>3. \A k \in 0 .. A.coo.size - 1 : A.coo.column_index[k] = m.entries[k + 1].j - 1
    BY <2>1, CooFacts
  <2>4. QED
    BY <2>2, <2>3
<1>5. \A k \in 0 .. n - 1 : (A.coo.column_index[k] = j) <=> (k + 1 \in S)
  <2>1. \A k \in 0 .. n - 1 : k + 1 \in 1 .. n
    BY <1>2
  <2>2. QED
    BY <1>4, <1>2, <2>1
<1>6. E = {k \in 0 .. n - 1 : k + 1 \in S}
  BY <1>5 DEF Hits
<1> HIDE DEF S, E, n
<1>7. Cardinality(E) = Cardinality(S)
  BY <1>2, <1>3, <1>6, Shifted
<1>8. Cardinality(S) = EntriesInColumn(j)
  BY DEF EntriesInColumn, S
<1>9. QED
  BY <1>4, <1>7, <1>8 DEF E

\* The coordinate part of a hybrid matrix has the entries that spill.
LEMMA SpilledColumn ==
  ASSUME OptionsInv, kernel = "hybrid", NEW own, NEW j
  PROVE  Cardinality(Hits(A.coo.size, own, A.coo.column_index, "x", j))
           = Cardinality(Spilled(m) \cap InColumn(m, j))
<1> DEFINE n == Cardinality(Spilled(m))
           rest == Ascending(Spilled(m))
           S == {p \in 1 .. n : rest[p] \in InColumn(m, j)}
           T == Spilled(m) \cap InColumn(m, j)
           E == Hits(n, own, A.coo.column_index, "x", j)
<1>1. IsMatrix(m)
  BY OptionsAre
<1>2. /\ n \in Nat /\ rest \in Bijection(1 .. n, Spilled(m))
      /\ Spilled(m) \in SUBSET DOMAIN m.entries
  BY <1>1, SpilledIs
<1>3. A.coo.size = n /\ \A k \in 0 .. n - 1 :
        A.coo.column_index[k] = SortRowMajor(m)[rest[k + 1]].j - 1
  <2>1. HasCoo
    BY DEF HasCoo
  <2>2. A.coo.size = n
    BY <2>1, CooFacts
  <2>3. \A k \in 0 .. A.coo.size - 1 :
          A.coo.column_index[k] = SortRowMajor(m)[Ascending(Spilled(m))[k + 1]].j - 1
    BY <2>1, CooFacts
  <2>4. QED
    BY <2>2, <2>3
<1> HIDE DEF n, rest
<1>4. \A p \in 1 .. n : rest[p] \in Spilled(m) /\ rest[p] \in DOMAIN m.entries
  BY <1>2 DEF Bijection, Injection
<1>5. E = {k \in 0 .. n - 1 : k + 1 \in S}
  <2>1. \A k \in 0 .. n - 1 : k + 1 \in 1 .. n
    BY <1>2
  <2>2. \A k \in 0 .. n - 1 : (A.coo.column_index[k] = j) <=> (k + 1 \in S)
    BY <1>3, <1>4, <2>1 DEF InColumn
  <2> HIDE DEF S
  <2>3. QED
    BY <2>2 DEF Hits
<1>6. S \in SUBSET (1 .. n) /\ T \in SUBSET Spilled(m)
  OBVIOUS
<1>7. \A p \in 1 .. n : (p \in S <=> rest[p] \in T)
  BY <1>4
<1> HIDE DEF S, T, E
<1>8. IsFiniteSet(S) /\ Cardinality(E) = Cardinality(S)
  BY <1>2, <1>5, <1>6, Shifted
<1>9. Cardinality(T) = Cardinality(S)
  <2> DEFINE U == 1 .. n
             V == Spilled(m)
  <2>1. rest \in Bijection(U, V) /\ S \in SUBSET U /\ T \in SUBSET V
        /\ \A p \in U : (p \in S <=> rest[p] \in T)
    BY <1>2, <1>6, <1>7
  <2> HIDE DEF U, V
  <2>2. QED
    BY <1>8, <2>1, SameNumber
<1>10. QED
  BY <1>3, <1>8, <1>9 DEF E, T

\* and in ELL.
LEMMA EllColumn ==
  ASSUME OptionsInv, HasEll, NEW own, NEW j
  PROVE  Cardinality(Hits(EllSize, own, A.ell.column_index, "x", j))
           = Cardinality(Kept(m, A.ell.row_length) \cap InColumn(m, j)) + PaddingInColumn(j)
<1> DEFINE length == A.ell.row_length
           column == A.ell.column_index
           K == 0 .. EllSize - 1
           padding(k) == k % length >= RowLength(m, k \div length)
           U == {k \in Stored(m, length) : column[k] = j}
           P == {k \in K : padding(k) /\ column[k] = j}
           E == Hits(EllSize, own, column, "x", j)
<1>1. IsMatrix(m)
  BY OptionsAre
<1>2. /\ length \in Nat /\ EllSize = m.rows * length /\ EllSize \in Nat
      /\ \A k \in K : IsStored(m, length, k) =>
           column[k] = SortRowMajor(m)[StoredPlace(m, length, k)].j - 1
  BY EllFacts
<1>3. PaddingInColumn(j) = Cardinality(P)
  BY DEF PaddingInColumn, HasEll
<1>4. \A k \in K : padding(k) <=> ~ IsStored(m, length, k)
  <2> SUFFICES ASSUME NEW k \in K PROVE padding(k) <=> ~ IsStored(m, length, k)
    OBVIOUS
  <2> DEFINE r == k \div length
             o == k % length
  <2>1. m.rows \in Nat /\ Rows(m) = 0 .. m.rows - 1
    BY OptionsAre
  <2>2. r \in Rows(m) /\ o \in Int
    <3>1. k \in 0 .. (m.rows * length) - 1
      BY <1>2
    <3> HIDE DEF length
    <3>2. k \div length \in 0 .. m.rows - 1 /\ k % length \in 0 .. length - 1
      BY <1>2, <2>1, <3>1, PositionsAre
    <3>3. QED
      BY <1>2, <2>1, <3>2
  <2>3. RowLength(m, r) \in Nat
    BY <1>1, <2>2, RowsAre
  <2> HIDE DEF r, o
  <2>4. (o >= RowLength(m, r)) <=> ~ (o < RowLength(m, r))
    BY <2>2, <2>3
  <2>5. QED
    BY <2>4 DEF IsStored, r, o
<1>5. Stored(m, length) = {k \in K : IsStored(m, length, k)}
  BY <1>2 DEF Stored
<1> HIDE DEF padding
<1>6. E = U \cup P /\ U \cap P = {}
  BY <1>4, <1>5 DEF Hits
<1>7. IsFiniteSet(U) /\ Cardinality(U) = Cardinality(Kept(m, length) \cap InColumn(m, j))
  <2>1. \A k \in Stored(m, length) :
          column[k] = SortRowMajor(m)[StoredPlace(m, length, k)].j - 1
    BY <1>2, <1>5
  <2>2. U = {k \in Stored(m, length) : column[k] = j}
    OBVIOUS
  <2> HIDE DEF length, column, U
  <2>3. QED
    BY <1>1, <1>2, <2>1, <2>2, KeptOfColumn
<1>8. IsFiniteSet(P)
  <2>1. IsFiniteSet(K)
    BY <1>2, IntervalSize
  <2> HIDE DEF K
  <2>2. QED
    BY <2>1, FS_Subset
<1> HIDE DEF U, P, E
<1>9. Cardinality(E) = Cardinality(U) + Cardinality(P)
  <2>1. Cardinality(U \cup P) = Cardinality(U) + Cardinality(P) - Cardinality(U \cap P)
    BY <1>7, <1>8, FS_Union
  <2>2. Cardinality(U \cap P) = 0
    BY <1>6, FS_EmptySet
  <2>3. Cardinality(U) \in Nat /\ Cardinality(P) \in Nat
    BY <1>7, <1>8, FS_CardinalityType
  <2>4. QED
    BY <1>6, <2>1, <2>2, <2>3
<1>10. QED
  BY <1>3, <1>7, <1>9 DEF E

\* The same for all the strings of any kernel.
LEMMA ColumnCountedAsStored ==
  ASSUME IInv, Len(strings) = num_threads, kernel # "triad", NEW j
  PROVE  Count("x", j) = EntriesInColumn(j) + PaddingInColumn(j)
<1> DEFINE c == EntriesInColumn(j)
           p == PaddingInColumn(j)
           S == InColumn(m, j)
<1>1. OptionsInv
  BY DEF IInv
<1>2. IsMatrix(m) /\ "x" \in Counted
  BY <1>1, OptionsAre DEF Counted, AllNames
<1>3. /\ IsFiniteSet(S) /\ S \in SUBSET DOMAIN m.entries /\ Cardinality(S) = c /\ c \in Nat
  <2>1. IsFiniteSet(S) /\ S \in SUBSET DOMAIN m.entries /\ Cardinality(S) = c
    BY <1>2, ColumnIs DEF EntriesInColumn
  <2> HIDE DEF S, c
  <2>2. Cardinality(S) \in Nat
    BY <2>1, FS_CardinalityType
  <2>3. QED
    BY <2>1, <2>2
<1>4. CASE kernel = "csr"
  <2>1. Tallied([t \in Threads |-> String(t).refs], About("x", j), c)
    BY <1>1, <1>2, <1>4, CsrTally, CsrColumn
  <2>2. p = 0
    BY <1>4 DEF PaddingInColumn
  <2>3. Count("x", j) = c
    BY <2>1, CountIs
  <2> HIDE DEF c, p
  <2>4. Count("x", j) = c + p
    BY <1>3, <2>2, <2>3
  <2>5. QED
    BY <2>4 DEF c, p
<1>5. CASE kernel = "ell"
  <2>1. HasEll
    BY <1>5 DEF HasEll
  <2>2. A.ell.row_length = MaxRowLength(m)
    BY <1>1, <1>5, <2>1, EllFacts
  <2>3. Kept(m, A.ell.row_length) \cap S = S
    BY <1>2, <1>3, <2>2, LongestKeepsAll
  <2>4. Cardinality(Hits(EllSize, EllNames, A.ell.column_index, "x", j)) = c + p
    BY <1>1, <1>3, <2>1, <2>3, EllColumn
  <2>5. Tallied([t \in Threads |-> EllString(t).refs], About("x", j), c + p)
    BY <1>1, <1>2, <2>1, <2>4, EllTally
  <2>6. [t \in Threads |-> EllString(t).refs] = [t \in Threads |-> String(t).refs]
    BY <1>5 DEF String
  <2> HIDE DEF c, p
  <2>7. Count("x", j) = c + p
    BY <2>5, <2>6, CountIs
  <2>8. QED
    BY <2>7 DEF c, p
<1>6. CASE kernel \in {"coo", "coo_atomic"}
  <2>1. Cardinality(Hits(A.coo.size, CooNames, A.coo.column_index, "x", j)) = c
    BY <1>1, <1>6, CooColumn
  <2>2. Tallied([t \in Threads |-> String(t).refs], About("x", j), c)
    <3>1. CASE kernel = "coo"
      <4>1. HasWorkspace
        BY <3>1 DEF HasWorkspace
      <4>2. Tallied([t \in Threads |-> CooString(t).refs], About("x", j), c)
        BY <1>1, <1>2, <2>1, <4>1, CooStringTally
      <4>3. [t \in Threads |-> CooString(t).refs] = [t \in Threads |-> String(t).refs]
        BY <3>1 DEF String
      <4>4. QED
        BY <4>2, <4>3
    <3>2. CASE kernel = "coo_atomic"
      BY <1>1, <1>2, <2>1, <3>2, CooAtomicTally
    <3>3. QED
      BY <1>6, <3>1, <3>2
  <2>3. p = 0
    BY <1>6 DEF PaddingInColumn
  <2>4. Count("x", j) = c
    BY <2>2, CountIs
  <2> HIDE DEF c, p
  <2>5. Count("x", j) = c + p
    BY <1>3, <2>3, <2>4
  <2>6. QED
    BY <2>5 DEF c, p
<1>7. CASE kernel = "hybrid"
  <2> DEFINE T == Spilled(m)
             u == Cardinality(Hits(EllSize, EllNames, A.ell.column_index, "x", j))
             v == Cardinality(Hits(A.coo.size, CooNames, A.coo.column_index, "x", j))
             kept == S \ T
             spilt == T \cap S
  <2>1. HasEll
    BY <1>7 DEF HasEll
  <2>2. A.ell.row_length = EllRowLength(m)
    BY <1>1, <1>7, <2>1, EllFacts
  <2>3. Kept(m, A.ell.row_length) \cap S = kept
    BY <1>2, <1>3, <2>2, OthersSpill
  <2>4. u = Cardinality(kept) + p
    BY <1>1, <2>1, <2>3, EllColumn
  <2>5. v = Cardinality(spilt)
    BY <1>1, <1>7, SpilledColumn
  <2>6. Cardinality(kept) + Cardinality(spilt) = c /\ Cardinality(kept) \in Nat /\ Cardinality(spilt) \in Nat
    <3>1. IsFiniteSet(kept) /\ IsFiniteSet(spilt)
      BY <1>3, FS_Subset
    <3>2. kept \cup spilt = S /\ kept \cap spilt = {}
      OBVIOUS
    <3> HIDE DEF kept, spilt, S, T, c
    <3>3. Cardinality(kept) \in Nat /\ Cardinality(spilt) \in Nat
      BY <3>1, FS_CardinalityType
    <3>4. Cardinality(kept \cup spilt) = Cardinality(kept) + Cardinality(spilt) - Cardinality(kept \cap spilt)
      BY <3>1, FS_Union
    <3>5. Cardinality(kept \cap spilt) = 0
      BY <3>2, FS_EmptySet
    <3> DEFINE k == Cardinality(kept)
               s == Cardinality(spilt)
               none == Cardinality(kept \cap spilt)
    <3>6. c = k + s - none /\ none = 0 /\ k \in Nat /\ s \in Nat
      BY <1>3, <3>2, <3>3, <3>4, <3>5
    <3> HIDE DEF k, s, none
    <3>7. k + s = c
      BY <3>6
    <3>8. QED
      BY <3>3, <3>7 DEF k, s
  <2>7. p \in Int
    <3> DEFINE K == 0 .. EllSize - 1
               padding(k) == k % A.ell.row_length >= RowLength(m, k \div A.ell.row_length)
               P == {k \in K : padding(k) /\ A.ell.column_index[k] = j}
    <3>1. p = Cardinality(P)
      BY <1>7 DEF PaddingInColumn
    <3>2. IsFiniteSet(K)
      <4>1. EllSize \in Nat
        BY <1>1, <2>1, EllFacts
      <4>2. QED
        BY <4>1, IntervalSize
    <3> HIDE DEF K, padding
    <3>3. IsFiniteSet(P)
      BY <3>2, FS_Subset
    <3> HIDE DEF P, p
    <3>4. QED
      BY <3>1, <3>3, FS_CardinalityType
  <2>8. Tallied([t \in Threads |-> String(t).refs], About("x", j), u + v)
    BY <1>1, <1>2, <1>7, HybridTally
  <2>9. Count("x", j) = u + v
    <3> HIDE DEF u, v
    <3>1. QED
      BY <2>8, CountIs
  <2> HIDE DEF kept, spilt, u, v, c, p
  <2> DEFINE k == Cardinality(kept)
             s == Cardinality(spilt)
  <2>10. k \in Nat /\ s \in Nat /\ u = k + p /\ v = s /\ k + s = c
    BY <2>4, <2>5, <2>6
  <2> HIDE DEF k, s
  <2>11. u + v = c + p
    BY <2>7, <2>10
  <2>12. QED
    BY <2>9, <2>11 DEF c, p
<1>8. QED
  BY <1>1, <1>4, <1>5, <1>6, <1>7 DEF OptionsInv, KernelNames

\* All the strings together refer once to every entry of the matrix and to an
\* element of x once for every entry, or padding, of its column: no thread's
\* share is left out and none overlaps another.
THEOREM EntriesAreReferencedOnce == Spec => []EachEntryReferencedOnce
<1>1. IInv => EachEntryReferencedOnce
  <2> SUFFICES ASSUME IInv, Len(strings) = num_threads
               PROVE  /\ \A a \in ToSet(Arrays) :
                           a.name \notin {"row_ptr", "x", "y", "workspace"} =>
                             \A k \in 0 .. a.n - 1 : Count(a.name, k) = 1
                      /\ kernel # "triad" =>
                           \A j \in 0 .. m.columns - 1 :
                             Count("x", j) = EntriesInColumn(j) + PaddingInColumn(j)
    BY DEF EachEntryReferencedOnce
  <2>1. ASSUME NEW a \in ToSet(Arrays), a.name \notin {"row_ptr", "x", "y", "workspace"},
               NEW k \in 0 .. a.n - 1
        PROVE  Count(a.name, k) = 1
    <3>1. PICK n \in DOMAIN Arrays : a = Arrays[n]
      BY DEF ToSet
    <3>2. ArrayOf(a.name) = a /\ a.name \in ArrayNames
      BY <3>1, ArrayIs DEF IInv
    <3>3. QED
      BY <2>1, <3>2, EntriesCountedOnce
  <2>2. kernel # "triad" =>
          \A j \in 0 .. m.columns - 1 : Count("x", j) = EntriesInColumn(j) + PaddingInColumn(j)
    BY ColumnCountedAsStored
  <2>3. QED
    BY <2>1, <2>2
<1>2. QED
  BY <1>1, StringsAreThoseOfTheFunctions, PTL
=============================================================================
