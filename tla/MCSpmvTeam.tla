----------------------------- MODULE MCSpmvTeam -----------------------------
EXTENDS SpmvTeam

\* Rows, columns counted from 1; the values tell the entries apart.
E(i, j, a) == [i |-> i, j |-> j, a |-> a]

\* A single row, less than there are threads; 3 x 2 with its rows in reverse, a long row, a repeated entry and an empty
\* first row; 5 x 4 with a full row that starts at an odd position.
MCMatrices ==
  {[rows |-> 1, columns |-> 3, entries |-> <<E(1, 3, 1), E(1, 1, 4), E(1, 2, 16)>>],
   [rows |-> 3, columns |-> 2,
    entries |-> <<E(3, 1, 1), E(2, 2, 3), E(2, 1, 9), E(2, 1, 27)>>],
   [rows |-> 5, columns |-> 4,
    entries |-> <<E(1, 2, 1), E(2, 1, 2), E(2, 2, 4), E(2, 3, 8), E(2, 4, 16), E(5, 4, 32)>>]}

MCX(j) == j + 2
=============================================================================
