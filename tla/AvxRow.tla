------------------------------- MODULE AvxRow -------------------------------
(***************************************************************************)
(* Which elements p .. q-1 of a row the vectorised inner loops of          *)
(* csr-matrix-spmv.cpp load, and how: single elements and pairs are peeled *)
(* off until the widest aligned load fits, and again at the end.  A load   *)
(* is [at, width].                                                         *)
(***************************************************************************)
EXTENDS Integers

\* The positions of k after the peeled element, the loop, and the rest.
Avx128Stops(p, q) ==
  LET k1 == IF p % 2 = 1 /\ p < q THEN p + 1 ELSE p
      end == q - (q % 2)
      k2 == IF k1 < end THEN k1 + 2 * ((end - k1 + 1) \div 2) ELSE k1
      k3 == IF q % 2 = 1 /\ k2 < q THEN k2 + 1 ELSE k2
  IN  <<p, k1, k2, k3>>

\* The same after the element, the pair, the loop, the pair, the element.
Avx256Stops(p, q) ==
  LET k1 == IF p % 2 = 1 /\ p < q THEN p + 1 ELSE p
      k2 == IF (k1 \div 2) % 2 = 1 /\ k1 + 1 < q THEN k1 + 2 ELSE k1
      end == q - (q % 4)
      k3 == IF k2 < end THEN k2 + 4 * ((end - k2 + 3) \div 4) ELSE k2
      k4 == IF (q \div 2) % 2 = 1 /\ k3 + 1 < q THEN k3 + 2 ELSE k3
      k5 == IF q % 2 = 1 /\ k4 < q THEN k4 + 1 ELSE k4
  IN  <<p, k1, k2, k3, k4, k5>>

Loads(from, to, width) ==
  {[at |-> k, width |-> width] : k \in {j \in from .. to - 1 : (j - from) % width = 0}}

Avx128Loads(p, q) ==
  LET k == Avx128Stops(p, q)
  IN  Loads(k[1], k[2], 1) \cup Loads(k[2], k[3], 2) \cup Loads(k[3], k[4], 1)

Avx256Loads(p, q) ==
  LET k == Avx256Stops(p, q)
  IN  UNION {Loads(k[1], k[2], 1), Loads(k[2], k[3], 2), Loads(k[3], k[4], 4),
             Loads(k[4], k[5], 2), Loads(k[5], k[6], 1)}

\* _mm_load_pd, _mm256_load_pd and _mm_load_si128 fault on other addresses.
Aligned(loads) == \A l \in loads : l.at % l.width = 0
=============================================================================
