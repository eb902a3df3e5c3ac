----------------------------- MODULE Reordering -----------------------------
(***************************************************************************)
(* matrix-market-reorder.cpp: the reverse Cuthill-McKee order of a square  *)
(* matrix, node by node, and Matrix::permute (matrix-market.cpp).  Nodes   *)
(* are rows counted from 0; entries are [i, j, a] counted from 1.          *)
(***************************************************************************)
EXTENDS Integers, Sequences, FiniteSets

VARIABLES
  matrix,          \* [rows, columns, format, field, entries]
  R,               \* the order found so far
  Q,               \* the queue of the breadth-first search
  notTaken, notVisited,
  new_order        \* [node -> its new place], once it is known

orderVars == <<matrix, R, Q, notTaken, notVisited, new_order>>

NoOrder == <<>>
Nodes(m) == 0 .. m.rows - 1

OrderInit ==
  R = <<>> /\ Q = <<>> /\ notTaken = {} /\ notVisited = {} /\ new_order = NoOrder

\* degrees and adjacency: an entry that is repeated counts again.
Degree(m, i) ==
  Cardinality({k \in DOMAIN m.entries : m.entries[k].i - 1 = i /\ m.entries[k].j - 1 # i})
Adjacent(m, i) ==
  {m.entries[k].j - 1 : k \in {l \in DOMAIN m.entries : m.entries[l].i - 1 = i}} \ {i}

\* What generate_degree_and_adjacency does not throw for.
Orderable(m) == m.format = "coordinate" /\ m.rows = m.columns /\ m.field = "real"

\* std::sort by degree: those of the same degree in any order.
SortedByDegree(S) ==
  {q \in [1 .. Cardinality(S) -> S] :
     \A k, l \in DOMAIN q : k < l => q[k] # q[l] /\ Degree(matrix, q[k]) <= Degree(matrix, q[l])}

\* Mutant of Take: the neighbours go to the front.
TakeDepthFirst(i, rest) ==
  LET found == (Adjacent(matrix, i) \cap notVisited) \ {i} IN
  /\ R' = Append(R, i)
  /\ notTaken' = notTaken \ {i}
  /\ notVisited' = (notVisited \ {i}) \ found
  /\ \E sorted \in SortedByDegree(found) : Q' = sorted \o rest

\* Node i is next in R; its neighbours not seen before join the queue.
Take(i, rest) ==
  LET found == (Adjacent(matrix, i) \cap notVisited) \ {i} IN
  /\ R' = Append(R, i)
  /\ notTaken' = notTaken \ {i}
  /\ notVisited' = (notVisited \ {i}) \ found
  /\ \E sorted \in SortedByDegree(found) : Q' = rest \o sorted

\* The nodes minNodeIndex can be; none if all degrees are that of a full row
\* of repeated entries, and then it stays -1.
Eligible == {i \in notTaken : Degree(matrix, i) < matrix.rows}

TakeLeast ==
  /\ Q = <<>> /\ Eligible # {}
  /\ \E i \in Eligible :
       /\ \A k \in Eligible : \/ Degree(matrix, i) < Degree(matrix, k)
                              \/ Degree(matrix, i) = Degree(matrix, k) /\ i <= k
       /\ Take(i, <<>>)
  /\ UNCHANGED <<matrix, new_order>>

TakeFromQueue ==
  /\ Q # <<>>
  /\ IF Head(Q) \in notTaken THEN Take(Head(Q), Tail(Q))
     ELSE Q' = Tail(Q) /\ UNCHANGED <<R, notTaken, notVisited>>
  /\ UNCHANGED <<matrix, new_order>>

\* i runs from 0 to the half of n, or of n - 1 if n is even.
LastSwap(n) == (IF n % 2 = 0 THEN n - 1 ELSE n) \div 2

\* The loop swaps the i-th of R from the front and from the back.
Reversed(s) ==
  LET n == Len(s)
      swap[i \in -1 .. LastSwap(n)] ==
        IF i = -1 THEN s
        ELSE [swap[i - 1] EXCEPT ![i + 1] = swap[i - 1][n - i], ![n - i] = swap[i - 1][i + 1]]
  IN  swap[LastSwap(n)]

\* new_order[R[i]] = i
FinishOrder ==
  /\ Q = <<>> /\ notTaken = {}
  /\ R' = Reversed(R)
  /\ new_order' = [i \in Nodes(matrix) |-> CHOOSE k \in Nodes(matrix) : R'[k + 1] = i]
  /\ UNCHANGED <<matrix, Q, notTaken, notVisited>>

\* Matrix::permute, which leaves other matrices as they are.
Permuted(m, order) ==
  IF m.format = "coordinate" /\ m.field = "real"
       /\ Cardinality(DOMAIN order) = m.rows /\ m.rows = m.columns
  THEN [m EXCEPT !.entries = [k \in DOMAIN m.entries |->
          [m.entries[k] EXCEPT !.i = order[@ - 1] + 1, !.j = order[@ - 1] + 1]]]
  ELSE m
=============================================================================
