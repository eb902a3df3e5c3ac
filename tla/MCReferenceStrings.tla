------------------------- MODULE MCReferenceStrings -------------------------
EXTENDS ReferenceStrings

E(i, j, a) == [i |-> i, j |-> j, a |-> a]

\* A row for fewer threads than there are; an empty first and last row, a long
\* and a repeated entry; seven rows, with a vector x of several pages.
MCMatrices ==
  {[rows |-> 1, columns |-> 3, entries |-> <<E(1, 3, 1), E(1, 1, 4), E(1, 2, 16)>>],
   [rows |-> 4, columns |-> 3,
    entries |-> <<E(3, 1, 1), E(2, 2, 3), E(2, 1, 9), E(2, 3, 27), E(2, 1, 81)>>],
   [rows |-> 7, columns |-> 8,
    entries |-> <<E(1, 2, 1), E(1, 8, 2), E(2, 1, 4), E(4, 5, 8), E(4, 6, 16), E(5, 3, 32),
                  E(5, 4, 64), E(5, 7, 128), E(6, 6, 256), E(7, 7, 512), E(7, 8, 1024)>>]}
=============================================================================
