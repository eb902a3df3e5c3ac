----------------------- MODULE MatrixFormats_proofs -----------------------
(***************************************************************************)
(* What the modules about the kernels rest on, for every matrix and all    *)
(* sizes: how iterations, elements and pages are shared out and rows       *)
(* loaded; sums, and counts of the elements of sequences; what the         *)
(* conversions make of a matrix: the entries sorted by row, the first of   *)
(* each row padded, the others kept as coordinates; and that the inner     *)
(* loops over the arrays of each format compute the product.               *)
(***************************************************************************)
EXTENDS MatrixFormats, PageDistribution, SequencesExt, FiniteSetTheorems,
        SequenceTheorems, WellFoundedInduction, TLAPS

-----------------------------------------------------------------------------
(* Products and quotients *)

\* Larger factors have larger products.
LEMMA ProductGrows ==
  ASSUME NEW a \in Nat, NEW b \in Nat, NEW c \in Nat, a <= b
  PROVE  a * c \in Nat /\ b * c \in Nat /\ a * c <= b * c
OBVIOUS

\* The multiple after a * c.
LEMMA NextMultiple ==
  ASSUME NEW a \in Nat, NEW c \in Nat
  PROVE  a * c \in Nat /\ (a + 1) * c = (a * c) + c
OBVIOUS

\* A number is its quotient times the divisor and its rest.
LEMMA QuotientAndRest ==
  ASSUME NEW k \in Nat, NEW c \in Nat \ {0}
  PROVE  /\ k \div c \in Nat /\ (k \div c) * c \in Nat
         /\ (k \div c) * c <= k /\ k < ((k \div c) * c) + c
         /\ k % c \in 0 .. c - 1 /\ k = ((k \div c) * c) + (k % c)
OBVIOUS

\* The quotient is the number whose multiple lies just below.
LEMMA QuotientIs ==
  ASSUME NEW k \in Nat, NEW c \in Nat \ {0}, NEW t \in Nat,
         t * c <= k, k < (t * c) + c
  PROVE  k \div c = t
<1> DEFINE q == k \div c
<1>1. q \in Nat /\ q * c \in Nat /\ q * c <= k /\ k < (q * c) + c /\ t * c \in Nat
  BY QuotientAndRest
<1> HIDE DEF q
<1>2. ~ (q < t)
  <2>1. SUFFICES ASSUME q < t PROVE FALSE
    OBVIOUS
  <2>2. q + 1 \in Nat /\ q + 1 <= t
    BY <1>1, <2>1
  <2>3. (q + 1) * c <= t * c /\ (q + 1) * c = (q * c) + c
    BY <1>1, <2>2, ProductGrows, NextMultiple
  <2>4. QED
    BY <1>1, <2>3
<1>3. ~ (t < q)
  <2>1. SUFFICES ASSUME t < q PROVE FALSE
    OBVIOUS
  <2>2. t + 1 \in Nat /\ t + 1 <= q
    BY <1>1, <2>1
  <2>3. (t + 1) * c <= q * c /\ (t + 1) * c = (t * c) + c
    BY <1>1, <2>2, ProductGrows, NextMultiple
  <2>4. QED
    BY <1>1, <2>3
<1>4. q = t
  BY <1>1, <1>2, <1>3
<1>5. QED
  BY <1>4 DEF q

\* Rounding up leaves nothing over.
LEMMA CeilDivCovers ==
  ASSUME NEW n \in Nat, NEW T \in Nat \ {0}
  PROVE  /\ CeilDiv(n, T) \in Nat /\ n <= CeilDiv(n, T) * T
         /\ CeilDiv(n, T) * T < n + T
         /\ n > 0 => CeilDiv(n, T) > 0
<1> DEFINE c == (n + T - 1) \div T
<1>1. n + T - 1 \in Nat
  OBVIOUS
<1>2. c \in Nat /\ c * T \in Nat /\ c * T <= n + T - 1 /\ n + T - 1 < (c * T) + T
  BY <1>1, QuotientAndRest
<1> HIDE DEF c
<1>3. c = 0 => c * T = 0
  OBVIOUS
<1>4. n <= c * T /\ c * T < n + T /\ (n > 0 => c > 0)
  BY <1>2, <1>3
<1>5. QED
  BY <1>2, <1>4 DEF c, CeilDiv

-----------------------------------------------------------------------------
(* The shares of the threads *)

\* The shares that the reference strings and the page distribution work out by
\* hand are those that schedule(static, chunk) gives the threads, for any number
\* of iterations and threads (csr-matrix.cpp, spmv_rows_per_thread, against the
\* chunk of csr-matrix-spmv.cpp).
THEOREM SharesFollowSchedule ==
  ASSUME NEW n \in Nat, NEW T \in Nat \ {0}, NEW t \in 0 .. T - 1
  PROVE  ThreadRange(n, T, t) = Scheduled(n, CeilDiv(n, T), T, t)
<1> DEFINE c == CeilDiv(n, T)
           first == t * c
<1>1. c \in Nat /\ n <= c * T /\ (n > 0 => c > 0) /\ t \in Nat /\ t + 1 \in Nat
  BY CeilDivCovers
<1>2. first \in Nat /\ (t + 1) * c = first + c
  BY <1>1, NextMultiple
<1>3. ThreadRange(n, T, t) = AtMost(n, first) .. AtMost(n, first + c) - 1
  BY <1>2 DEF ThreadRange, ThreadStart
<1>4. c * T = T * c
  BY <1>1
<1> HIDE DEF c, first
<1>5. \A k \in Int : k \in ThreadRange(n, T, t) <=>
                       k \in 0 .. n - 1 /\ first <= k /\ k < first + c
  BY <1>1, <1>2, <1>3 DEF AtMost
<1>6. ASSUME NEW k \in 0 .. n - 1
      PROVE  (first <= k /\ k < first + c) <=> (k \div c) % T = t
  <2> DEFINE q == k \div c
  <2>1. k \in Nat /\ c \in Nat \ {0}
    BY <1>1
  <2>2. q \in Nat /\ q * c \in Nat /\ q * c <= k /\ k < (q * c) + c
    BY <2>1, QuotientAndRest
  <2>3. first <= k /\ k < first + c => q = t
    BY <1>1, <2>1, QuotientIs DEF first
  <2> HIDE DEF q
  <2>4. q < T
    <3>1. SUFFICES ASSUME T <= q PROVE FALSE
      BY <2>2
    <3>2. T * c <= q * c
      BY <2>1, <2>2, <3>1, ProductGrows
    <3>3. QED
      BY <1>1, <1>4, <2>1, <2>2, <3>2
  <2>5. q % T = q
    BY <2>2, <2>4
  <2>6. q = t => first <= k /\ k < first + c
    BY <2>2 DEF first
  <2>7. QED
    BY <2>3, <2>5, <2>6 DEF q
<1>7. ThreadRange(n, T, t) \subseteq Int /\ Scheduled(n, c, T, t) \subseteq Int
  BY <1>1, <1>2, <1>3 DEF Scheduled, AtMost
<1>8. \A k \in Int : k \in ThreadRange(n, T, t) <=> k \in Scheduled(n, c, T, t)
  BY <1>5, <1>6 DEF Scheduled
<1>9. ThreadRange(n, T, t) = Scheduled(n, c, T, t)
  BY <1>7, <1>8
<1>10. QED
  BY <1>9 DEF c

\* Shares start one after the other, and end at n.
LEMMA ThreadStartGrows ==
  ASSUME NEW n \in Nat, NEW T \in Nat \ {0}, NEW t \in Nat, NEW u \in Nat, t <= u
  PROVE  /\ ThreadStart(n, T, t) \in 0 .. n /\ ThreadStart(n, T, u) \in 0 .. n
         /\ ThreadStart(n, T, t) <= ThreadStart(n, T, u)
<1> DEFINE a == t * CeilDiv(n, T)
           b == u * CeilDiv(n, T)
<1>1. a \in Nat /\ b \in Nat /\ a <= b
  BY CeilDivCovers, ProductGrows
<1> HIDE DEF a, b
<1>2. /\ AtMost(n, a) \in 0 .. n /\ AtMost(n, b) \in 0 .. n /\ AtMost(n, a) <= AtMost(n, b)
  BY <1>1 DEF AtMost
<1>3. QED
  BY <1>2 DEF ThreadStart, a, b

\* No iteration is scheduled to two threads.
LEMMA ScheduledApart ==
  ASSUME NEW n, NEW c, NEW T, NEW t, NEW u, t # u, NEW k \in Scheduled(n, c, T, t)
  PROVE  k \notin Scheduled(n, c, T, u)
BY DEF Scheduled

\* Blocks start one after the other.
LEMMA BlockStartGrows ==
  ASSUME NEW n \in Nat, NEW T \in Nat \ {0}, NEW t \in Nat, NEW u \in Nat, t <= u
  PROVE  /\ BlockStart(n, T, t) \in Nat /\ BlockStart(n, T, u) \in Nat
         /\ BlockStart(n, T, t) <= BlockStart(n, T, u)
<1> DEFINE q == n \div T
           r == n % T
<1>1. q \in Nat /\ r \in Nat
  OBVIOUS
<1> HIDE DEF q, r
<1>2. /\ t * q \in Nat /\ u * q \in Nat /\ t * q <= u * q
  BY <1>1
<1>3. /\ AtMost(r, t) \in Nat /\ AtMost(r, u) \in Nat /\ AtMost(r, t) <= AtMost(r, u)
  BY <1>1 DEF AtMost
<1>4. BlockStart(n, T, t) = t * q + AtMost(r, t) /\ BlockStart(n, T, u) = u * q + AtMost(r, u)
  BY DEF BlockStart, q, r
<1>5. QED
  BY <1>2, <1>3, <1>4

\* No element is in the blocks of two threads.
LEMMA BlocksApart ==
  ASSUME NEW n \in Nat, NEW T \in Nat \ {0}, NEW t \in Nat, NEW u \in Nat, t < u,
         NEW k \in Block(n, T, t)
  PROVE  k \notin Block(n, T, u)
<1>1. t + 1 \in Nat /\ t + 1 <= u
  OBVIOUS
<1>2. /\ BlockStart(n, T, t + 1) \in Nat /\ BlockStart(n, T, u) \in Nat
      /\ BlockStart(n, T, t + 1) <= BlockStart(n, T, u)
  BY <1>1, BlockStartGrows
<1>3. k \in Int /\ k < BlockStart(n, T, t + 1)
  BY <1>2 DEF Block
<1>4. QED
  BY <1>2, <1>3 DEF Block

\* A block is within the array.
LEMMA BlockIsWithin ==
  ASSUME NEW n \in Nat, NEW T \in Nat \ {0}, NEW t \in 0 .. T - 1
  PROVE  Block(n, T, t) \subseteq 0 .. n - 1
<1>1. BlockStart(n, T, T) = n
  <2>1. /\ n \div T \in Nat /\ n % T \in 0 .. T - 1 /\ n = (T * (n \div T)) + (n % T)
    OBVIOUS
  <2>2. AtMost(n % T, T) = n % T
    BY <2>1 DEF AtMost
  <2>3. QED
    BY <2>1, <2>2 DEF BlockStart
<1>2. t \in Nat /\ t + 1 \in Nat /\ t <= t + 1 /\ t + 1 <= T
  OBVIOUS
<1>3. /\ BlockStart(n, T, t) \in Nat /\ BlockStart(n, T, t + 1) \in Nat
      /\ BlockStart(n, T, t + 1) <= BlockStart(n, T, T)
  BY <1>2, BlockStartGrows
<1>4. QED
  BY <1>1, <1>3 DEF Block

\* The blocks of two threads have no element in common.
LEMMA BlocksDiffer ==
  ASSUME NEW n \in Nat, NEW T \in Nat \ {0}, NEW t \in 0 .. T - 1, NEW u \in 0 .. T - 1, t # u
  PROVE  Block(n, T, t) \cap Block(n, T, u) = {}
<1>1. t \in Nat /\ u \in Nat /\ (t < u \/ u < t)
  OBVIOUS
<1>2. QED
  BY <1>1, BlocksApart

-----------------------------------------------------------------------------
(* The pages of an array *)

\* No page begins in the elements of two threads: which one the loop of
\* thread_of_page finds first does not matter, and it is one of the team.
THEOREM PageHasOneOwner ==
  ASSUME NEW p \in Nat, NEW size \in Nat \ {0}, NEW n \in Nat, NEW T \in Nat \ {0},
         NEW address \in Nat
  PROVE  \A t, u \in OwnersOf(p, size, n, T, address) : t = u
<1>1. ASSUME NEW t \in OwnersOf(p, size, n, T, address),
             NEW u \in OwnersOf(p, size, n, T, address), t < u
      PROVE  FALSE
  <2> DEFINE a == ThreadStart(n, T, t + 1)
             b == ThreadStart(n, T, u)
  <2>1. t + 1 \in Nat /\ u \in Nat /\ t + 1 <= u
    BY <1>1 DEF OwnersOf
  <2>2. a \in Nat /\ b \in Nat /\ a <= b
    <3>1. a \in 0 .. n /\ b \in 0 .. n /\ a <= b
      BY <2>1, ThreadStartGrows
    <3> HIDE DEF a, b
    <3>2. QED
      BY <3>1
  <2>3. address < p + (size * a) /\ p + (size * b) <= address
    BY DEF OwnersOf
  <2> HIDE DEF a, b
  <2>4. size * a <= size * b /\ size * a \in Nat /\ size * b \in Nat
    BY <2>2
  <2>5. QED
    BY <2>3, <2>4
<1>2. \A t \in OwnersOf(p, size, n, T, address) : t \in Int
  BY DEF OwnersOf
<1>3. QED
  BY <1>1, <1>2

\* The owner of a page is a thread of the team.
LEMMA OwnerOfPageIsThread ==
  ASSUME NEW p \in Nat, NEW size \in Nat \ {0}, NEW n \in Nat, NEW T \in Nat \ {0},
         NEW page \in Nat, NEW page_size \in Nat \ {0}
  PROVE  ThreadOfPage(p, size, n, T, page, page_size) \in 0 .. T - 1
<1> DEFINE address == PageAddress(p, page, page_size)
           owners == OwnersOf(p, size, n, T, address)
<1>1. address \in Nat
  <2>1. AlignDown(p, page_size) \in Nat
    BY QuotientAndRest DEF AlignDown
  <2>2. page * page_size \in Nat
    BY ProductGrows
  <2>3. QED
    BY <2>1, <2>2 DEF PageAddress
<1>2. owners \subseteq 0 .. T - 1
  BY DEF OwnersOf
<1> HIDE DEF address
<1>3. \A t, u \in owners : t = u
  BY <1>1, PageHasOneOwner
<1> HIDE DEF owners
<1>4. ASSUME NEW t \in owners
      PROVE  t \in 0 .. T - 1 /\ \A u \in owners : t <= u
  <2>1. t \in 0 .. T - 1 /\ \A u \in owners : t = u
    BY <1>2, <1>3
  <2>2. t <= t
    BY <2>1
  <2>3. QED
    BY <2>1, <2>2
<1>5. ThreadOfPage(p, size, n, T, page, page_size) =
        IF owners = {} THEN T - 1 ELSE CHOOSE t \in owners : \A u \in owners : t <= u
  BY DEF ThreadOfPage, owners, address
<1>6. CASE owners = {}
  BY <1>5, <1>6
<1>7. CASE owners # {}
  <2>1. \E t \in owners : \A u \in owners : t <= u
    BY <1>4, <1>7
  <2>2. (CHOOSE t \in owners : \A u \in owners : t <= u) \in owners
    BY <2>1
  <2>3. QED
    BY <1>4, <1>5, <1>7, <2>2
<1>8. QED
  BY <1>6, <1>7

\* An element is looked up on the page it lies on, counted from the first page
\* of its array, so that a reference is charged to the thread that
\* distribute_pages gave this page to (thread_of_index, page_of_index).
THEOREM LookupFindsPlace ==
  ASSUME NEW p \in Nat, NEW size \in Nat \ {0}, NEW n \in Nat, NEW index \in 0 .. n - 1,
         NEW T \in Nat \ {0}, NEW page_size \in Nat \ {0}
  PROVE  /\ ThreadOfIndex(p, size, n, index, T, page_size) =
              Distributed(p, size, n, T, page_size)
                [((p + (size * index)) \div page_size) - (p \div page_size)]
         /\ ThreadOfIndex(p, size, n, index, T, page_size) \in 0 .. T - 1
<1> DEFINE first == p \div page_size
           start == first * page_size
           at == p + (size * index)
           page == (at \div page_size) - first
           left == p + (n * size) - start
           num_pages == NumPages(p, size, n, page_size)
<1>1. first \in Nat /\ start \in Nat /\ start <= p /\ AlignDown(p, page_size) = start
  BY QuotientAndRest DEF AlignDown
<1>2. at \in Nat /\ p <= at /\ at < p + (n * size) /\ n * size \in Nat
  <2>1. index \in Nat /\ index + 1 \in Nat /\ index + 1 <= n /\ n \in Nat
    OBVIOUS
  <2>2. (index + 1) * size <= n * size /\ (index + 1) * size = (index * size) + size
        /\ index * size \in Nat /\ n * size \in Nat
    BY <2>1, ProductGrows, NextMultiple
  <2>3. index * size = size * index
    BY <2>1
  <2>4. QED
    BY <2>2, <2>3
<1>3. num_pages = CeilDiv(left, page_size)
  BY <1>1 DEF NumPages
<1> HIDE DEF at
<1>4. (at - start) \div page_size = page /\ page \in Nat /\ page * page_size <= at - start
  <2> DEFINE q == at \div page_size
  <2>1. q \in Nat /\ q * page_size \in Nat /\ q * page_size <= at
        /\ at < (q * page_size) + page_size
    BY <1>2, QuotientAndRest
  <2>2. p < start + page_size
    BY QuotientAndRest
  <2> HIDE DEF q, first, start
  <2>3. q >= first
    <3>1. SUFFICES ASSUME q < first PROVE FALSE
      BY <1>1, <2>1
    <3>2. q + 1 \in Nat /\ q + 1 <= first
      BY <1>1, <2>1, <3>1
    <3>3. (q + 1) * page_size <= first * page_size
          /\ (q + 1) * page_size = (q * page_size) + page_size
      BY <1>1, <2>1, <3>2, ProductGrows, NextMultiple
    <3>4. QED
      BY <1>1, <1>2, <2>1, <3>3 DEF start
  <2>4. (q - first) * page_size = (q * page_size) - start
    BY <1>1, <2>1 DEF start
  <2>5. at - start \in Nat /\ q - first \in Nat
    BY <1>1, <1>2, <2>1, <2>3
  <2>6. /\ (q - first) * page_size <= at - start
        /\ at - start < ((q - first) * page_size) + page_size
    BY <1>1, <1>2, <2>1, <2>4
  <2>7. (at - start) \div page_size = q - first
    BY <2>5, <2>6, QuotientIs
  <2>8. QED
    BY <2>5, <2>6, <2>7 DEF q
<1> HIDE DEF first, start, page
<1>5. left \in Nat /\ at - start < left
  BY <1>1, <1>2
<1> HIDE DEF left, num_pages
<1>6. num_pages \in Nat /\ left <= num_pages * page_size
  BY <1>3, <1>5, CeilDivCovers
<1>7. page < num_pages
  <2>1. SUFFICES ASSUME num_pages <= page PROVE FALSE
    BY <1>4, <1>6
  <2>2. num_pages * page_size <= page * page_size
        /\ num_pages * page_size \in Nat /\ page * page_size \in Nat
    BY <1>4, <1>6, <2>1, ProductGrows
  <2>3. QED
    BY <1>1, <1>2, <1>4, <1>5, <1>6, <2>2
<1>8. PageOfIndex(p, size, n, index, page_size) = page
  BY <1>1, <1>4, <1>7 DEF PageOfIndex, at, num_pages
<1>9. Distributed(p, size, n, T, page_size)[page] = ThreadOfPage(p, size, n, T, page, page_size)
  BY <1>4, <1>6, <1>7 DEF Distributed, num_pages
<1>10. QED
  BY <1>4, <1>8, <1>9, OwnerOfPageIsThread DEF ThreadOfIndex, page, first, at

-----------------------------------------------------------------------------
(* The loads of the vectorised inner loops *)

Loaded(l) == l.at .. l.at + l.width - 1

\* Each element from p to q-1 is in just one load, no load has another, and
\* no load faults.
LoadsOnce(loads, p, q) ==
  /\ \A l \in loads : Loaded(l) \subseteq p .. q - 1
  /\ \A k \in p .. q - 1 : \E l \in loads : k \in Loaded(l)
  /\ \A l, h \in loads : l # h => Loaded(l) \cap Loaded(h) = {}
  /\ Aligned(loads)

\* A loop with steps of one width loads each element once.
LEMMA LoopLoadsOnce ==
  ASSUME NEW w \in {1, 2, 4}, NEW from \in Nat, NEW to \in Nat, from <= to,
         from < to => from % w = 0 /\ to % w = 0
  PROVE  LoadsOnce(Loads(from, to, w), from, to)
<1> DEFINE S == {j \in from .. to - 1 : (j - from) % w = 0}
           load(k) == [at |-> k, width |-> w]
<1>1. Loads(from, to, w) = {load(k) : k \in S}
  BY DEF Loads
<1>2. \A k : Loaded(load(k)) = k .. k + w - 1
  BY DEF Loaded
<1> HIDE DEF load
<1>3. \A k \in S : /\ k \in from .. to - 1 /\ k + w <= to /\ k % w = 0
  <2>1. CASE w = 1
    BY <2>1
  <2>2. CASE w = 2
    BY <2>2
  <2>3. CASE w = 4
    BY <2>3
  <2>4. QED
    BY <2>1, <2>2, <2>3
<1>4. \A k \in from .. to - 1 : \E j \in S : k \in j .. j + w - 1
  <2>1. ASSUME NEW k \in from .. to - 1
        PROVE  \E j \in S : k \in j .. j + w - 1
    <3> DEFINE j == k - ((k - from) % w)
    <3>1. j \in from .. to - 1 /\ (j - from) % w = 0 /\ k \in j .. j + w - 1
      <4>1. CASE w = 1
        BY <4>1
      <4>2. CASE w = 2
        BY <4>2
      <4>3. CASE w = 4
        BY <4>3
      <4>4. QED
        BY <4>1, <4>2, <4>3
    <3>2. QED
      BY <3>1
  <2>2. QED
    BY <2>1
<1>5. \A j, k \in S : j # k => (j .. j + w - 1) \cap (k .. k + w - 1) = {}
  <2>1. ASSUME NEW j \in S, NEW k \in S, j < k
        PROVE  j + w <= k
    <3>1. CASE w = 1
      BY <2>1, <3>1
    <3>2. CASE w = 2
      BY <2>1, <3>2
    <3>3. CASE w = 4
      BY <2>1, <3>3
    <3>4. QED
      BY <3>1, <3>2, <3>3
  <2>2. \A k \in S : k \in Int
    OBVIOUS
  <2> HIDE DEF S
  <2>3. QED
    BY <2>1, <2>2
<1> HIDE DEF S
<1>6. \A l \in Loads(from, to, w) : Loaded(l) \subseteq from .. to - 1
  BY <1>1, <1>2, <1>3
<1>7. \A k \in from .. to - 1 : \E l \in Loads(from, to, w) : k \in Loaded(l)
  BY <1>1, <1>2, <1>4
<1>8. \A l, h \in Loads(from, to, w) : l # h => Loaded(l) \cap Loaded(h) = {}
  BY <1>1, <1>2, <1>5
<1>9. Aligned(Loads(from, to, w))
  BY <1>1, <1>3 DEF Aligned, load
<1>10. QED
  BY <1>6, <1>7, <1>8, <1>9 DEF LoadsOnce

\* Two loops, one after the other.
LEMMA LoopsLoadOnce ==
  ASSUME NEW a, NEW b, NEW p \in Nat, NEW q \in Nat, NEW r \in Nat, p <= q, q <= r,
         LoadsOnce(a, p, q), LoadsOnce(b, q, r)
  PROVE  LoadsOnce(a \cup b, p, r)
<1>1. \A l \in a \cup b : Loaded(l) \subseteq p .. r - 1
  <2>1. p .. q - 1 \subseteq p .. r - 1 /\ q .. r - 1 \subseteq p .. r - 1
    OBVIOUS
  <2>2. QED
    BY <2>1 DEF LoadsOnce
<1>2. \A k \in p .. r - 1 : \E l \in a \cup b : k \in Loaded(l)
  <2>1. \A k \in p .. r - 1 : k \in p .. q - 1 \/ k \in q .. r - 1
    OBVIOUS
  <2>2. QED
    BY <2>1 DEF LoadsOnce
<1>3. \A l, h \in a \cup b : l # h => Loaded(l) \cap Loaded(h) = {}
  <2>1. (p .. q - 1) \cap (q .. r - 1) = {}
    OBVIOUS
  <2>2. \A l \in a, h \in b : Loaded(l) \cap Loaded(h) = {}
    BY <2>1 DEF LoadsOnce
  <2>3. QED
    BY <2>2 DEF LoadsOnce
<1>4. Aligned(a \cup b)
  BY DEF LoadsOnce, Aligned
<1>5. QED
  BY <1>1, <1>2, <1>3, <1>4 DEF LoadsOnce

\* The three loops of csr_spmv_inner_loop_avx128 load each element of a row
\* once, pairs at even positions, wherever the row begins and ends.
THEOREM Avx128LoadsOnce ==
  ASSUME NEW p \in Nat, NEW q \in Nat, p <= q
  PROVE  LoadsOnce(Avx128Loads(p, q), p, q)
<1> DEFINE k1 == IF p % 2 = 1 /\ p < q THEN p + 1 ELSE p
           end == q - (q % 2)
           k2 == IF k1 < end THEN k1 + (2 * (((end - k1) + 1) \div 2)) ELSE k1
           k3 == IF q % 2 = 1 /\ k2 < q THEN k2 + 1 ELSE k2
<1>1. Avx128Stops(p, q) = <<p, k1, k2, k3>>
  BY DEF Avx128Stops
<1>2. /\ k1 \in Nat /\ p <= k1 /\ k1 <= q
      /\ k1 < q => k1 % 2 = 0
  OBVIOUS
<1>3. end \in Nat /\ end <= q /\ q <= end + 1 /\ end % 2 = 0 /\ (q % 2 = 0 => end = q)
  OBVIOUS
<1> HIDE DEF k1, end
<1>4. /\ k2 \in Nat /\ k1 <= k2 /\ k2 <= q
      /\ k1 < k2 => k1 % 2 = 0 /\ k2 % 2 = 0
      /\ q % 2 = 0 => k2 = q
  BY <1>2, <1>3
<1> HIDE DEF k2
<1>5. k3 = q /\ k2 <= k3
  BY <1>2, <1>3, <1>4 DEF k2
<1> HIDE DEF k3
<1>6. /\ LoadsOnce(Loads(p, k1, 1), p, k1) /\ LoadsOnce(Loads(k1, k2, 2), k1, k2)
      /\ LoadsOnce(Loads(k2, k3, 1), k2, q)
  BY <1>2, <1>4, <1>5, LoopLoadsOnce
<1>7. Avx128Loads(p, q) = Loads(p, k1, 1) \cup (Loads(k1, k2, 2) \cup Loads(k2, k3, 1))
  BY <1>1 DEF Avx128Loads
<1>8. LoadsOnce(Loads(k1, k2, 2) \cup Loads(k2, k3, 1), k1, q)
  BY <1>2, <1>4, <1>6, LoopsLoadOnce
<1>9. QED
  BY <1>2, <1>6, <1>7, <1>8, LoopsLoadOnce

\* The five loops of csr_spmv_inner_loop_avx256 load each element of a row
\* once, pairs at even positions and quadruples at multiples of four,
\* wherever the row begins and ends.
THEOREM Avx256LoadsOnce ==
  ASSUME NEW p \in Nat, NEW q \in Nat, p <= q
  PROVE  LoadsOnce(Avx256Loads(p, q), p, q)
<1> DEFINE k1 == IF p % 2 = 1 /\ p < q THEN p + 1 ELSE p
           k2 == IF (k1 \div 2) % 2 = 1 /\ k1 + 1 < q THEN k1 + 2 ELSE k1
           end == q - (q % 4)
           k3 == IF k2 < end THEN k2 + (4 * (((end - k2) + 3) \div 4)) ELSE k2
           k4 == IF (q \div 2) % 2 = 1 /\ k3 + 1 < q THEN k3 + 2 ELSE k3
           k5 == IF q % 2 = 1 /\ k4 < q THEN k4 + 1 ELSE k4
<1>1. Avx256Stops(p, q) = <<p, k1, k2, k3, k4, k5>>
  BY DEF Avx256Stops
<1>2. /\ k1 \in Nat /\ p <= k1 /\ k1 <= q
      /\ k1 < q => k1 % 2 = 0
  OBVIOUS
<1>3. end \in Nat /\ end % 4 = 0 /\ end <= q /\ q <= end + 3 /\ q - end = q % 4
  OBVIOUS
<1> HIDE DEF k1, end
\* A pair is left out only at the end of a row.
<1>4. /\ k2 \in Nat /\ k1 <= k2 /\ k2 <= q
      /\ k1 < k2 => k1 % 2 = 0 /\ k2 % 2 = 0
      /\ k2 < q => k2 % 2 = 0
      /\ k2 + 1 < q => k2 % 4 = 0
  BY <1>2
<1> HIDE DEF k2
<1>5. /\ k3 \in Nat /\ k2 <= k3 /\ k3 <= q /\ k3 >= end
      /\ k2 < k3 => k2 % 4 = 0 /\ k3 % 4 = 0
      /\ k3 = end \/ k3 = k2
  BY <1>3, <1>4
<1> HIDE DEF k3
<1>6. /\ k4 \in Nat /\ k3 <= k4 /\ k4 <= q
      /\ k3 < k4 => k3 % 2 = 0 /\ k4 % 2 = 0
      /\ k4 = q \/ (q % 2 = 1 /\ k4 + 1 = q)
  BY <1>3, <1>4, <1>5
<1> HIDE DEF k4
<1>7. k5 = q /\ k4 <= k5
  BY <1>6
<1> HIDE DEF k5
<1>8. /\ LoadsOnce(Loads(p, k1, 1), p, k1) /\ LoadsOnce(Loads(k1, k2, 2), k1, k2)
      /\ LoadsOnce(Loads(k2, k3, 4), k2, k3) /\ LoadsOnce(Loads(k3, k4, 2), k3, k4)
      /\ LoadsOnce(Loads(k4, k5, 1), k4, q)
  BY <1>2, <1>4, <1>5, <1>6, <1>7, LoopLoadsOnce
<1> DEFINE tail == Loads(k3, k4, 2) \cup Loads(k4, k5, 1)
           rest == Loads(k2, k3, 4) \cup tail
           all == Loads(k1, k2, 2) \cup rest
<1>9. Avx256Loads(p, q) = Loads(p, k1, 1) \cup all
  BY <1>1 DEF Avx256Loads
<1>10. LoadsOnce(tail, k3, q)
  BY <1>5, <1>6, <1>8, LoopsLoadOnce
<1> HIDE DEF tail
<1>11. LoadsOnce(rest, k2, q)
  BY <1>4, <1>5, <1>8, <1>10, LoopsLoadOnce
<1> HIDE DEF rest
<1>12. LoadsOnce(all, k1, q)
  BY <1>2, <1>4, <1>8, <1>11, LoopsLoadOnce
<1> HIDE DEF all
<1>13. QED
  BY <1>2, <1>8, <1>9, <1>12, LoopsLoadOnce

-----------------------------------------------------------------------------
(* Induction, over sets of numbers and sets of sets; sequences put together *)

\* A set of numbers has a smallest.
LEMMA SmallestNumber ==
  ASSUME NEW S \in SUBSET Nat, S # {}
  PROVE  \E n \in S : \A k \in S : n <= k
<1> DEFINE R == OpToRel(<, Nat)
<1>1. IsWellFoundedOn(R, Nat)
  BY NatLessThanWellFounded
<1>2. PICK n \in S : \A k \in S : ~ (<<k, n>> \in R)
  BY <1>1, WFMin
<1>3. \A k \in S : n <= k
  <2>1. \A k \in S : k \in Nat /\ n \in Nat
    OBVIOUS
  <2>2. \A k \in S : ~ (k < n)
    BY <1>2, <2>1 DEF OpToRel
  <2>3. QED
    BY <2>1, <2>2
<1>4. QED
  BY <1>3

\* Numbers with a property, up to n.
LEMMA UpTo ==
  ASSUME NEW n \in Nat, NEW G, 0 \in G, \A k \in 0 .. n - 1 : k \in G => k + 1 \in G
  PROVE  \A k \in 0 .. n : k \in G
<1> DEFINE bad == {k \in 0 .. n : k \notin G}
<1>1. SUFFICES ASSUME bad # {} PROVE FALSE
  OBVIOUS
<1>2. bad \in SUBSET Nat
  OBVIOUS
<1>3. PICK k \in bad : \A l \in bad : k <= l
  <2> HIDE DEF bad
  <2>1. QED
    BY <1>1, <1>2, SmallestNumber
<1>4. k \in 1 .. n /\ k - 1 \in 0 .. n - 1 /\ (k - 1) + 1 = k /\ k - 1 \in 0 .. n
  OBVIOUS
<1>5. k - 1 \notin bad
  BY <1>3, <1>4
<1>6. QED
  BY <1>4, <1>5

\* Subsets with a property that a set has when all its proper subsets have it.
LEMMA AllSubsets ==
  ASSUME NEW S, IsFiniteSet(S), NEW G,
         \A T \in SUBSET S : (\A U \in SUBSET T : U # T => U \in G) => T \in G
  PROVE  \A T \in SUBSET S : T \in G
<1> DEFINE bad == {T \in SUBSET S : T \notin G}
           R == StrictSubsetOrdering(S)
<1>1. SUFFICES ASSUME bad # {} PROVE FALSE
  OBVIOUS
<1>2. IsWellFoundedOn(R, SUBSET S)
  <2>1. FiniteSubsetsOf(S) = SUBSET S
    BY FS_FiniteSubsetsOfFinite
  <2>2. IsWellFoundedOn(R, FiniteSubsetsOf(S))
    BY FS_StrictSubsetOrderingWellFounded
  <2>3. QED
    BY <2>1, <2>2
<1>3. bad \subseteq SUBSET S
  OBVIOUS
<1>4. PICK T \in bad : \A U \in bad : ~ (<<U, T>> \in R)
  <2> HIDE DEF R, bad
  <2>1. QED
    BY <1>1, <1>2, <1>3, WFMin
<1>5. \A U \in SUBSET T : U # T => U \notin bad
  BY <1>4 DEF StrictSubsetOrdering
<1>6. QED
  BY <1>4, <1>5

\* The same, one element at a time.
LEMMA SetsGrow ==
  ASSUME NEW S, IsFiniteSet(S), NEW G, {} \in G,
         \A T \in SUBSET S : \A a \in S \ T : T \in G => T \cup {a} \in G
  PROVE  S \in G
<1>1. ASSUME NEW T \in SUBSET S, \A U \in SUBSET T : U # T => U \in G
      PROVE  T \in G
  <2>1. CASE T = {}
    BY <2>1
  <2>2. CASE T # {}
    <3>1. PICK a \in T : TRUE
      BY <2>2
    <3>2. T \ {a} \in SUBSET S /\ a \in S \ (T \ {a}) /\ T \ {a} \in G
      BY <1>1
    <3>3. (T \ {a}) \cup {a} \in G
      BY <3>2
    <3>4. (T \ {a}) \cup {a} = T
      OBVIOUS
    <3>5. QED
      BY <3>3, <3>4
  <2>3. QED
    BY <2>1, <2>2
<1>2. \A T \in SUBSET S : T \in G
  BY <1>1, AllSubsets
<1>3. QED
  BY <1>2

\* How many elements of s are in Q.
Occurrences(s, Q) == Cardinality({n \in DOMAIN s : s[n] \in Q})

\* The recursive function in FlattenSeq.
Flattened(seqs) ==
  CHOOSE flatten : flatten = [i \in 1 .. Len(seqs) |->
     IF i = 1 THEN seqs[i] ELSE flatten[i - 1] \o seqs[i]]

\* FlattenSeq by the function it is defined with.
LEMMA FlattenSeqIs ==
  ASSUME NEW seqs, Len(seqs) # 0
  PROVE  FlattenSeq(seqs) = Flattened(seqs)[Len(seqs)]
BY DEF FlattenSeq, Flattened

\* That function, step by step.
LEMMA FlattenedSteps ==
  ASSUME NEW seqs, Len(seqs) \in Nat
  PROVE  \A i \in 1 .. Len(seqs) :
           Flattened(seqs)[i] = IF i = 1 THEN seqs[i] ELSE Flattened(seqs)[i - 1] \o seqs[i]
<1> DEFINE n == Len(seqs)
           Fits(h, k) ==
             h = [i \in 1 .. k |-> IF i = 1 THEN seqs[i] ELSE h[i - 1] \o seqs[i]]
           G == {k \in 0 .. n : \E h : Fits(h, k)}
<1> HIDE DEF n
<1>1. n \in Nat
  BY DEF n
<1>2. 0 \in G
  <2> DEFINE none == [i \in 1 .. 0 |-> seqs[i]]
  <2>1. Fits(none, 0)
    OBVIOUS
  <2> HIDE DEF Fits, none
  <2>2. QED
    BY <1>1, <2>1
<1>3. ASSUME NEW k \in 0 .. n - 1, k \in G
      PROVE  k + 1 \in G
  <2>1. PICK h : Fits(h, k)
    BY <1>3
  <2> DEFINE g == [i \in 1 .. k + 1 |->
                     IF i <= k THEN h[i] ELSE IF i = 1 THEN seqs[i] ELSE h[i - 1] \o seqs[i]]
             r == [i \in 1 .. k + 1 |-> IF i = 1 THEN seqs[i] ELSE g[i - 1] \o seqs[i]]
  <2>2. ASSUME NEW i \in 1 .. k + 1
        PROVE  g[i] = r[i]
    <3>1. i <= k => h[i] = IF i = 1 THEN seqs[i] ELSE h[i - 1] \o seqs[i]
      <4>1. i <= k => i \in 1 .. k
        OBVIOUS
      <4>2. QED
        BY <2>1, <4>1
    <3>2. g[i] = IF i = 1 THEN seqs[i] ELSE h[i - 1] \o seqs[i]
      BY <3>1
    <3>3. i = 1 \/ (i - 1 \in 1 .. k + 1 /\ i - 1 <= k)
      OBVIOUS
    <3>4. i = 1 \/ g[i - 1] = h[i - 1]
      BY <3>3
    <3>5. QED
      BY <3>2, <3>4
  <2>3. g = r
    <3> HIDE DEF Fits
    <3>1. DOMAIN g = 1 .. k + 1 /\ DOMAIN r = 1 .. k + 1 
      OBVIOUS
    <3>2. g = [i \in 1 .. k + 1 |-> g[i]] /\ r = [i \in 1 .. k + 1 |-> r[i]]
      OBVIOUS
    <3> HIDE DEF g, r
    <3>3. QED
      BY <2>2, <3>2
  <2>4. Fits(g, k + 1)
    BY <2>3
  <2>5. k + 1 \in 0 .. n
    BY <1>1
  <2>6. QED
    <3> HIDE DEF Fits, g
    <3>1. QED
      BY <2>4, <2>5
<1>4. n \in G
  <2> HIDE DEF G
  <2>1. \A k \in 0 .. n : k \in G
    BY <1>1, <1>2, <1>3, UpTo
  <2>2. QED
    BY <1>1, <2>1
<1>5. \E h : Fits(h, n)
  BY <1>4
<1>6. Flattened(seqs) = CHOOSE h : Fits(h, n)
  BY DEF Flattened, n
<1>7. Fits(Flattened(seqs), n)
  <2> HIDE DEF Fits
  <2>1. QED
    BY <1>5, <1>6
<1>8. QED
  BY <1>7 DEF n

\* An occurrence is counted once; when all elements count, there are as many
\* as the sequence is long.
LEMMA OccurrencesAre ==
  ASSUME NEW S, NEW s \in Seq(S), NEW Q
  PROVE  /\ IsFiniteSet({n \in DOMAIN s : s[n] \in Q}) /\ Occurrences(s, Q) \in Nat
         /\ S \subseteq Q => Occurrences(s, Q) = Len(s)
<1> DEFINE D == DOMAIN s
           found == {n \in D : s[n] \in Q}
<1>1. D = 1 .. Len(s) /\ Len(s) \in Nat /\ \A n \in D : s[n] \in S
  OBVIOUS
<1> HIDE DEF D
<1>2. IsFiniteSet(D) /\ Cardinality(D) = Len(s)
  <2>1. 1 \in Int /\ Len(s) \in Int
    BY <1>1
  <2>2. IsFiniteSet(1 .. Len(s)) /\ Cardinality(1 .. Len(s)) = IF 1 > Len(s) THEN 0 ELSE Len(s) - 1 + 1
    BY <2>1, FS_Interval
  <2>3. QED
    BY <1>1, <2>2
<1>3. IsFiniteSet(found) /\ Cardinality(found) \in Nat
  <2>1. found \in SUBSET D
    OBVIOUS
  <2> HIDE DEF found
  <2>2. QED
    BY <1>2, <2>1, FS_Subset, FS_CardinalityType
<1>4. S \subseteq Q => found = D
  BY <1>1
<1>5. QED
  BY <1>2, <1>3, <1>4 DEF Occurrences, D

\* What is in two sequences one after the other, and how often.
LEMMA ConcatIs ==
  ASSUME NEW S, NEW s \in Seq(S), NEW u \in Seq(S)
  PROVE  /\ s \o u \in Seq(S) /\ Len(s \o u) = Len(s) + Len(u)
         /\ ToSet(s \o u) = ToSet(s) \cup ToSet(u)
         /\ \A Q : Occurrences(s \o u, Q) = Occurrences(s, Q) + Occurrences(u, Q)
<1> DEFINE a == Len(s)
           b == Len(u)
           w == s \o u
<1>1. /\ a \in Nat /\ b \in Nat /\ DOMAIN s = 1 .. a /\ DOMAIN u = 1 .. b
      /\ w \in Seq(S) /\ Len(w) = a + b /\ DOMAIN w = 1 .. a + b
  BY ConcatProperties
<1>2. \A n \in 1 .. a + b : w[n] = IF n <= a THEN s[n] ELSE u[n - a]
  BY ConcatProperties
<1> HIDE DEF a, b, w
<1>3. /\ \A n \in 1 .. a : n \in 1 .. a + b /\ w[n] = s[n]
      /\ \A n \in 1 .. b : a + n \in 1 .. a + b /\ w[a + n] = u[n]
      /\ \A n \in 1 .. a + b : n \in 1 .. a \/ (n - a \in 1 .. b /\ a + (n - a) = n)
  <2>1. \A n \in 1 .. b : a + n \in 1 .. a + b /\ ~ (a + n <= a) /\ (a + n) - a = n
    BY <1>1
  <2>2. \A n \in 1 .. a : n \in 1 .. a + b /\ n <= a
    BY <1>1
  <2>3. \A n \in 1 .. a + b : n \in 1 .. a \/ (n - a \in 1 .. b /\ a + (n - a) = n)
    BY <1>1
  <2>4. QED
    BY <1>2, <2>1, <2>2, <2>3
<1>4. ToSet(w) = ToSet(s) \cup ToSet(u)
  <2>1. /\ ToSet(w) = {w[n] : n \in 1 .. a + b} /\ ToSet(s) = {s[n] : n \in 1 .. a}
        /\ ToSet(u) = {u[n] : n \in 1 .. b}
    BY <1>1 DEF ToSet
  <2>2. \A n \in 1 .. a + b : w[n] \in ToSet(s) \cup ToSet(u)
    <3>1. \A n \in 1 .. a + b : w[n] = s[n] \/ ~ (n \in 1 .. a)
      BY <1>3
    <3>2. ASSUME NEW n \in 1 .. a + b, n - a \in 1 .. b
          PROVE  w[n] = u[n - a]
      <4>1. a + (n - a) = n
        BY <1>1
      <4>2. w[a + (n - a)] = u[n - a]
        BY <1>3, <3>2
      <4>3. QED
        BY <4>1, <4>2
    <3>3. QED
      BY <1>3, <2>1, <3>1, <3>2
  <2>3. ToSet(s) \subseteq ToSet(w) /\ ToSet(u) \subseteq ToSet(w)
    BY <1>3, <2>1
  <2>4. QED
    BY <2>1, <2>2, <2>3
<1>5. ASSUME NEW Q
      PROVE  Occurrences(w, Q) = Occurrences(s, Q) + Occurrences(u, Q)
  <2> DEFINE inS == {n \in 1 .. a : s[n] \in Q}
             inU == {n \in 1 .. b : u[n] \in Q}
             moved == {n \in 1 .. a + b : n > a /\ w[n] \in Q}
             f == [n \in inU |-> a + n]
  <2>1. {n \in 1 .. a + b : w[n] \in Q} = inS \cup moved
    <3>1. \A n \in 1 .. a + b : n \in 1 .. a <=> ~ (n > a)
      BY <1>1
    <3>2. QED
      BY <1>3, <3>1
  <2>2. inS \cap moved = {}
    BY <1>1
  <2>3. f \in Bijection(inU, moved)
    <3>1. \A n \in inU : a + n \in moved
      BY <1>1, <1>3
    <3>2. \A n, k \in inU : a + n = a + k => n = k
      BY <1>1
    <3>3. \A k \in moved : k - a \in inU /\ a + (k - a) = k
      <4>1. ASSUME NEW k \in moved
            PROVE  k - a \in inU /\ a + (k - a) = k
        <5>1. k - a \in 1 .. b /\ a + (k - a) = k
          BY <1>1, <1>3
        <5>2. u[k - a] = w[k]
          BY <1>3, <5>1
        <5>3. QED
          BY <5>1, <5>2
      <4>2. QED
        BY <4>1
    <3> HIDE DEF inU, moved
    <3>4. f \in [inU -> moved] /\ \A k \in moved : \E n \in inU : f[n] = k
      BY <3>1, <3>3
    <3>5. \A n, k \in inU : f[n] = f[k] => n = k
      BY <3>2
    <3> HIDE DEF f
    <3>6. QED
      BY <3>4, <3>5 DEF Bijection, Injection, Surjection, IsInjective
  <2>4. Occurrences(s, Q) = Cardinality(inS) /\ Occurrences(u, Q) = Cardinality(inU)
        /\ IsFiniteSet(inS) /\ IsFiniteSet(inU)
        /\ Cardinality(inS) \in Nat /\ Cardinality(inU) \in Nat
    <3>1. inS = {n \in DOMAIN s : s[n] \in Q} /\ inU = {n \in DOMAIN u : u[n] \in Q}
      BY <1>1
    <3> HIDE DEF inS, inU
    <3>2. Occurrences(s, Q) = Cardinality(inS) /\ Occurrences(u, Q) = Cardinality(inU)
      BY <3>1 DEF Occurrences
    <3>3. /\ IsFiniteSet(inS) /\ Occurrences(s, Q) \in Nat
          /\ IsFiniteSet(inU) /\ Occurrences(u, Q) \in Nat
      BY <3>1, OccurrencesAre
    <3>4. QED
      BY <3>2, <3>3
  <2>5. Occurrences(w, Q) = Cardinality(inS \cup moved)
    BY <1>1, <2>1 DEF Occurrences
  <2> HIDE DEF inS, inU, moved, f
  <2>6. IsFiniteSet(moved) /\ Cardinality(moved) = Cardinality(inU)
    BY <2>3, <2>4, FS_Bijection DEF ExistsBijection
  <2>7. Cardinality(inS \cup moved) = Cardinality(inS) + Cardinality(moved) - Cardinality({})
    BY <2>2, <2>4, <2>6, FS_Union
  <2>8. QED
    BY <2>4, <2>5, <2>6, <2>7, FS_EmptySet
<1>6. QED
  BY <1>1, <1>4, <1>5 DEF w, a, b

\* No parts make the empty sequence.
LEMMA EmptyFlattened ==
  ASSUME NEW seqs \in [1 .. 0 -> {}]
  PROVE  FlattenSeq(seqs) = <<>>
<1>1. seqs = <<>> /\ Len(<<>>) = 0
  OBVIOUS
<1>2. QED
  BY <1>1 DEF FlattenSeq

\* What a flattened sequence consists of: the elements of its parts; and F
\* counts the occurrences in the parts so far.
\* F counts, part by part, how many elements are in Q.
FlattensTo(flat, S, seqs, n, Q, F) ==
  /\ flat \in Seq(S) /\ ToSet(flat) = UNION {ToSet(seqs[i]) : i \in 1 .. n}
  /\ Occurrences(flat, Q) = F[n]

\* The parts one after the other have the elements of the parts, and as many
\* of them.
LEMMA PartsAreFlattened ==
  ASSUME NEW S, NEW n \in Nat, NEW seqs \in [1 .. n -> Seq(S)], NEW Q,
         NEW F, F[0] = 0, \A i \in 1 .. n : F[i] = F[i - 1] + Occurrences(seqs[i], Q)
  PROVE  FlattensTo(FlattenSeq(seqs), S, seqs, n, Q, F)
<1> DEFINE flat == Flattened(seqs)
           Good(k) == /\ flat[k] \in Seq(S)
                      /\ ToSet(flat[k]) = UNION {ToSet(seqs[i]) : i \in 1 .. k}
                      /\ Occurrences(flat[k], Q) = F[k]
           G == {k \in 0 .. n : k = 0 \/ Good(k)}
<1>1. Len(seqs) = n
  OBVIOUS
<1>2. \A i \in 1 .. n : flat[i] = IF i = 1 THEN seqs[i] ELSE flat[i - 1] \o seqs[i]
  BY <1>1, FlattenedSteps
<1> HIDE DEF flat
<1>3. ASSUME NEW k \in 0 .. n - 1, k \in G
      PROVE  k + 1 \in G
  <2>1. k + 1 \in 1 .. n /\ (k + 1) - 1 = k /\ seqs[k + 1] \in Seq(S)
    OBVIOUS
  <2>2. CASE k = 0
    <3>1. flat[1] = seqs[1] /\ 1 \in 1 .. n
      BY <1>2, <2>1, <2>2
    <3>2. F[1] = Occurrences(seqs[1], Q)
      <4>1. F[1] = F[0] + Occurrences(seqs[1], Q)
        BY <2>1, <2>2
      <4>2. Occurrences(seqs[1], Q) \in Nat
        <5>1. seqs[1] \in Seq(S)
          BY <3>1
        <5>2. QED
          BY <5>1, OccurrencesAre
      <4>3. QED
        BY <4>1, <4>2
    <3>3. UNION {ToSet(seqs[i]) : i \in 1 .. 1} = ToSet(seqs[1])
      OBVIOUS
    <3>4. QED
      BY <2>1, <2>2, <3>1, <3>2, <3>3
  <2>3. CASE k # 0
    <3>1. Good(k) /\ flat[k + 1] = flat[k] \o seqs[k + 1]
      <4> HIDE DEF Good
      <4>1. k + 1 # 1 /\ (k + 1) - 1 = k
        BY <2>3
      <4>2. flat[k + 1] = flat[k] \o seqs[k + 1]
        BY <1>2, <2>1, <4>1
      <4>3. Good(k)
        BY <1>3, <2>3
      <4>4. QED
        BY <4>2, <4>3
    <3>2. flat[k + 1] \in Seq(S) /\ ToSet(flat[k + 1]) = ToSet(flat[k]) \cup ToSet(seqs[k + 1])
          /\ Occurrences(flat[k + 1], Q) = Occurrences(flat[k], Q) + Occurrences(seqs[k + 1], Q)
      BY <2>1, <3>1, ConcatIs
    <3>3. F[k + 1] = F[k] + Occurrences(seqs[k + 1], Q)
      BY <2>1
    <3>4. UNION {ToSet(seqs[i]) : i \in 1 .. k + 1}
            = (UNION {ToSet(seqs[i]) : i \in 1 .. k}) \cup ToSet(seqs[k + 1])
      <4>1. \A i : i \in 1 .. k + 1 <=> i \in 1 .. k \/ i = k + 1
        OBVIOUS
      <4>2. QED
        BY <4>1
    <3>5. Good(k + 1)
      BY <3>1, <3>2, <3>3, <3>4
    <3>6. QED
      BY <2>1, <3>5
  <2>4. QED
    BY <2>2, <2>3
<1>4. \A k \in 0 .. n : k \in G
  <2>1. 0 \in G
    OBVIOUS
  <2> HIDE DEF G
  <2>2. QED
    BY <1>3, <2>1, UpTo
<1>5. CASE n = 0
  <2>1. FlattenSeq(seqs) = <<>>
    <3>1. seqs \in [1 .. 0 -> {}]
      BY <1>5
    <3>2. QED
      BY <3>1, EmptyFlattened
  <2>2. ToSet(<<>>) = {} /\ <<>> \in Seq(S)
    BY DEF ToSet
  <2>3. Occurrences(<<>>, Q) = 0
    <3>1. {k \in DOMAIN <<>> : <<>>[k] \in Q} = {}
      OBVIOUS
    <3>2. QED
      BY <3>1, FS_EmptySet DEF Occurrences
  <2>4. UNION {ToSet(seqs[i]) : i \in 1 .. 0} = {}
    OBVIOUS
  <2>5. QED
    BY <1>5, <2>1, <2>2, <2>3, <2>4 DEF FlattensTo
<1>6. CASE n # 0
  <2>1. Good(n)
    <3> HIDE DEF Good
    <3>1. n \in 0 .. n
      OBVIOUS
    <3>2. QED
      BY <1>4, <1>6, <3>1
  <2>2. FlattenSeq(seqs) = flat[n]
    BY <1>1, <1>6, FlattenSeqIs DEF flat
  <2>3. QED
    BY <2>1, <2>2 DEF FlattensTo
<1>7. QED
  BY <1>5, <1>6

\* The same, for every set counted.
LEMMA FlattenedIs ==
  ASSUME NEW S, NEW n \in Nat, NEW seqs \in [1 .. n -> Seq(S)]
  PROVE  /\ FlattenSeq(seqs) \in Seq(S)
         /\ ToSet(FlattenSeq(seqs)) = UNION {ToSet(seqs[i]) : i \in 1 .. n}
         /\ \A Q, F : (F[0] = 0 /\ \A i \in 1 .. n : F[i] = F[i - 1] + Occurrences(seqs[i], Q))
                        => Occurrences(FlattenSeq(seqs), Q) = F[n]
<1>1. ASSUME NEW Q, NEW F, F[0] = 0,
             \A i \in 1 .. n : F[i] = F[i - 1] + Occurrences(seqs[i], Q)
      PROVE  FlattensTo(FlattenSeq(seqs), S, seqs, n, Q, F)
  BY <1>1, PartsAreFlattened
<1> DEFINE F == [i \in 0 .. n |-> 0]
<1>2. \A i \in 1 .. n : Occurrences(seqs[i], {}) = 0
  <2>1. \A i \in 1 .. n : {l \in DOMAIN seqs[i] : seqs[i][l] \in {}} = {}
    OBVIOUS
  <2>2. QED
    BY <2>1, FS_EmptySet DEF Occurrences
<1>3. F[0] = 0 /\ \A i \in 1 .. n : F[i] = F[i - 1] + Occurrences(seqs[i], {})
  <2>1. \A i \in 1 .. n : i - 1 \in 0 .. n /\ i \in 0 .. n
    OBVIOUS
  <2>2. QED
    BY <1>2, <2>1
<1> HIDE DEF F
<1>4. FlattensTo(FlattenSeq(seqs), S, seqs, n, {}, F)
  BY <1>1, <1>3
<1>5. QED
  BY <1>1, <1>4 DEF FlattensTo

-----------------------------------------------------------------------------
(* Sums over finite sets *)

\* The recursive function in SumFunctionOnSet.
Iterated(f, S) ==
  CHOOSE iter : iter = [s \in SUBSET S |->
    IF s = {} THEN 0 ELSE f[CHOOSE x \in s : TRUE] + iter[s \ {CHOOSE x \in s : TRUE}]]

Some(s) == CHOOSE x \in s : TRUE

\* SumFunctionOnSet by the function it is defined with.
LEMMA SumIs ==
  ASSUME NEW f, NEW S
  PROVE  SumFunctionOnSet(f, S) = Iterated(f, S)[S]
BY Zenon DEF SumFunctionOnSet, FoldFunctionOnSet, MapThenFoldSet, Iterated

\* That function, step by step.
LEMMA SumSteps ==
  ASSUME NEW f, NEW S, IsFiniteSet(S)
  PROVE  SumFunctionOnSet(f, S) =
           IF S = {} THEN 0 ELSE f[Some(S)] + SumFunctionOnSet(f, S \ {Some(S)})
<1> DEFINE Fits(h, T) == h = [s \in SUBSET T |->
                           IF s = {} THEN 0 ELSE f[Some(s)] + h[s \ {Some(s)}]]
           I(T) == Iterated(f, T)
           V(s) == IF s = {} THEN 0 ELSE f[Some(s)] + I(s \ {Some(s)})[s \ {Some(s)}]
           G == {T \in SUBSET S : Fits(I(T), T) /\ \A U \in SUBSET T : I(T)[U] = V(U)}
<1>1. \A T : I(T) = CHOOSE h : Fits(h, T)
  BY DEF Iterated, Some
<1>2. \A s : s # {} => Some(s) \in s
  BY DEF Some
<1> HIDE DEF I
<1>3. ASSUME NEW T \in SUBSET S, \A U \in SUBSET T : U # T => U \in G
      PROVE  T \in G
  <2>1. ASSUME NEW U \in SUBSET T, U # {}
        PROVE  /\ U \ {Some(U)} \in SUBSET T
               /\ I(U \ {Some(U)})[U \ {Some(U)}] = V(U \ {Some(U)})
    <3> DEFINE W == U \ {Some(U)}
    <3>1. W \in SUBSET T /\ W # T
      BY <1>2, <2>1
    <3>2. W \in G
      BY <1>3, <3>1
    <3> HIDE DEF W, V, Fits
    <3>3. W \in SUBSET W
      OBVIOUS
    <3>4. I(W)[W] = V(W)
      BY <3>2, <3>3
    <3>5. QED
      BY <3>1, <3>4 DEF W
  <2> DEFINE h == [s \in SUBSET T |-> V(s)]
             r == [s \in SUBSET T |-> IF s = {} THEN 0 ELSE f[Some(s)] + h[s \ {Some(s)}]]
  <2>2. ASSUME NEW s \in SUBSET T
        PROVE  h[s] = r[s]
    <3>1. CASE s = {}
      BY <3>1
    <3>2. CASE s # {}
      <4> HIDE DEF V
      <4>1. h[s] = V(s) /\ r[s] = f[Some(s)] + h[s \ {Some(s)}]
        BY <3>2
      <4>2. h[s \ {Some(s)}] = V(s \ {Some(s)})
        BY <2>1, <3>2
      <4>3. V(s) = f[Some(s)] + I(s \ {Some(s)})[s \ {Some(s)}]
        BY <3>2 DEF V
      <4> HIDE DEF h, r
      <4>4. QED
        BY <2>1, <3>2, <4>1, <4>2, <4>3
    <3>3. QED
      BY <3>1, <3>2
  <2>3. Fits(h, T)
    <3>1. h = [s \in SUBSET T |-> h[s]] /\ r = [s \in SUBSET T |-> r[s]]
      OBVIOUS
    <3>2. h = r
      <4> HIDE DEF h, r
      <4>1. QED
        BY <2>2, <3>1
    <3> HIDE DEF V
    <3>3. Fits(h, T) <=> h = r
      OBVIOUS
    <3>4. QED
      BY <3>2, <3>3
  <2>4. Fits(I(T), T)
    <3> HIDE DEF Fits, h
    <3>1. \E g : Fits(g, T)
      BY <2>3
    <3>2. QED
      BY <1>1, <3>1
  <2>5. \A U \in SUBSET T : I(T)[U] = IF U = {} THEN 0 ELSE f[Some(U)] + I(T)[U \ {Some(U)}]
    BY <2>4
  <2> DEFINE H == {U \in SUBSET T : I(T)[U] = V(U)}
  <2>6. ASSUME NEW U \in SUBSET T, \A W \in SUBSET U : W # U => W \in H
        PROVE  U \in H
    <3>1. CASE U = {}
      BY <2>5, <3>1
    <3>2. CASE U # {}
      <4> DEFINE W == U \ {Some(U)}
      <4>1. W \in SUBSET U /\ W # U
        BY <1>2, <3>2
      <4>2. W \in H
        BY <2>6, <4>1
      <4> HIDE DEF Fits, h, r
      <4>3. V(U) = f[Some(U)] + I(W)[W]
        BY <3>2
      <4>4. I(T)[U] = f[Some(U)] + I(T)[W]
        BY <2>5, <3>2
      <4>5. I(W)[W] = V(W)
        BY <2>1, <3>2
      <4> HIDE DEF V, W
      <4>6. I(T)[W] = V(W)
        BY <4>2
      <4>7. QED
        BY <4>3, <4>4, <4>5, <4>6
    <3>3. QED
      BY <3>1, <3>2
  <2>7. IsFiniteSet(T)
    BY FS_Subset
  <2>8. \A U \in SUBSET T : U \in H
    <3> HIDE DEF H
    <3>1. QED
      BY <2>6, <2>7, AllSubsets
  <2>9. QED
    <3> HIDE DEF Fits, V, h, r
    <3>1. QED
      BY <2>4, <2>8
<1>4. \A T \in SUBSET S : T \in G
  <2> HIDE DEF G
  <2>1. QED
    BY <1>3, AllSubsets
<1>5. S \in SUBSET S
  OBVIOUS
<1>6. I(S)[S] = V(S)
  <2> HIDE DEF Fits, V
  <2>1. QED
    BY <1>4, <1>5
<1>7. QED
  BY <1>6, SumIs DEF I

\* The empty sum is 0.
LEMMA SumOfNone ==
  ASSUME NEW f
  PROVE  SumFunctionOnSet(f, {}) = 0
BY SumSteps, FS_EmptySet

\* A sum of integers is one.
LEMMA SumIsInt ==
  ASSUME NEW f, NEW S, IsFiniteSet(S), \A s \in S : f[s] \in Int
  PROVE  SumFunctionOnSet(f, S) \in Int
<1> DEFINE G == {T \in SUBSET S : SumFunctionOnSet(f, T) \in Int}
<1>1. ASSUME NEW T \in SUBSET S, \A U \in SUBSET T : U # T => U \in G
      PROVE  T \in G
  <2>1. IsFiniteSet(T)
    BY FS_Subset
  <2>2. CASE T = {}
    BY <2>2, SumOfNone
  <2>3. CASE T # {}
    <3>1. Some(T) \in T
      BY <2>3 DEF Some
    <3>2. T \ {Some(T)} \in G
      BY <1>1, <3>1
    <3>3. SumFunctionOnSet(f, T) = f[Some(T)] + SumFunctionOnSet(f, T \ {Some(T)})
      BY <2>1, <2>3, SumSteps
    <3>4. QED
      BY <3>1, <3>2, <3>3
  <2>4. QED
    BY <2>2, <2>3
<1>2. \A T \in SUBSET S : T \in G
  <2> HIDE DEF G
  <2>1. QED
    BY <1>1, AllSubsets
<1>3. QED
  BY <1>2

\* Any element may be taken out of a sum,
LEMMA SumWithout ==
  ASSUME NEW f, NEW S, IsFiniteSet(S), \A s \in S : f[s] \in Int, NEW a \in S
  PROVE  SumFunctionOnSet(f, S) = f[a] + SumFunctionOnSet(f, S \ {a})
<1> DEFINE sum(T) == SumFunctionOnSet(f, T)
           G == {T \in SUBSET S : \A b \in T : sum(T) = f[b] + sum(T \ {b})}
<1>1. ASSUME NEW T \in SUBSET S, \A U \in SUBSET T : U # T => U \in G
      PROVE  T \in G
  <2>1. IsFiniteSet(T)
    BY FS_Subset
  <2>2. ASSUME NEW b \in T
        PROVE  sum(T) = f[b] + sum(T \ {b})
    <3> DEFINE c == Some(T)
    <3>1. c \in T
      BY DEF Some
    <3>2. sum(T) = f[c] + sum(T \ {c})
      BY <2>1, SumSteps
    <3> HIDE DEF c
    <3>3. CASE b = c
      BY <3>2, <3>3
    <3>4. CASE b # c
      <4> HIDE DEF sum
      <4>1. T \ {c} \in G /\ T \ {b} \in G /\ b \in T \ {c} /\ c \in T \ {b}
        BY <1>1, <3>1, <3>4
      <4>2. sum(T \ {c}) = f[b] + sum((T \ {c}) \ {b})
        BY <4>1
      <4>3. sum(T \ {b}) = f[c] + sum((T \ {b}) \ {c})
        BY <4>1
      <4>4. (T \ {b}) \ {c} = (T \ {c}) \ {b}
        OBVIOUS
      <4>5. f[b] \in Int /\ f[c] \in Int /\ sum((T \ {c}) \ {b}) \in Int
        <5>1. IsFiniteSet((T \ {c}) \ {b})
          BY <2>1, FS_RemoveElement
        <5>2. QED
          BY <3>1, <5>1, SumIsInt DEF sum
      <4> DEFINE left == sum((T \ {c}) \ {b})
      <4>6. /\ sum(T) = f[c] + sum(T \ {c}) /\ sum(T \ {c}) = f[b] + left
            /\ sum(T \ {b}) = f[c] + left /\ left \in Int
        BY <3>2, <4>2, <4>3, <4>4, <4>5
      <4> HIDE DEF left
      <4>7. f[c] + (f[b] + left) = f[b] + (f[c] + left)
        BY <4>5, <4>6
      <4>8. QED
        BY <4>6, <4>7
    <3>5. QED
      BY <3>3, <3>4
  <2>3. QED
    BY <2>2
<1>2. \A T \in SUBSET S : T \in G
  <2> HIDE DEF G
  <2>1. QED
    BY <1>1, AllSubsets
<1>3. QED
  BY <1>2

\* and a new one added.
LEMMA SumWith ==
  ASSUME NEW f, NEW S, IsFiniteSet(S), NEW a, a \notin S, \A s \in S \cup {a} : f[s] \in Int
  PROVE  SumFunctionOnSet(f, S \cup {a}) = SumFunctionOnSet(f, S) + f[a]
<1>1. IsFiniteSet(S \cup {a}) /\ (S \cup {a}) \ {a} = S
  BY FS_AddElement
<1>2. SumFunctionOnSet(f, S \cup {a}) = f[a] + SumFunctionOnSet(f, (S \cup {a}) \ {a})
  BY <1>1, SumWithout
<1> DEFINE sum == SumFunctionOnSet(f, S)
<1>3. sum \in Int /\ f[a] \in Int
  BY SumIsInt
<1>4. SumFunctionOnSet(f, S \cup {a}) = f[a] + sum
  BY <1>1, <1>2
<1> HIDE DEF sum
<1>5. f[a] + sum = sum + f[a]
  BY <1>3
<1>6. QED
  BY <1>4, <1>5 DEF sum

\* The sum of one number is that number.
LEMMA SumOfOne ==
  ASSUME NEW f, NEW a, f[a] \in Int
  PROVE  SumFunctionOnSet(f, {a}) = f[a]
<1>1. IsFiniteSet({a}) /\ {a} \ {a} = {}
  BY FS_Singleton
<1>2. SumFunctionOnSet(f, {a}) = f[a] + SumFunctionOnSet(f, {a} \ {a})
  BY <1>1, SumWithout
<1>3. QED
  BY <1>1, <1>2, SumOfNone

\* A sum in two parts.
LEMMA SumOfParts ==
  ASSUME NEW f, NEW S, IsFiniteSet(S), NEW T, IsFiniteSet(T), S \cap T = {},
         \A s \in S \cup T : f[s] \in Int
  PROVE  SumFunctionOnSet(f, S \cup T) = SumFunctionOnSet(f, S) + SumFunctionOnSet(f, T)
<1> DEFINE sum(U) == SumFunctionOnSet(f, U)
           G == {U \in SUBSET T : sum(S \cup U) = sum(S) + sum(U)}
<1>1. {} \in G
  <2>1. S \cup {} = S /\ sum({}) = 0 /\ sum(S) \in Int
    BY SumOfNone, SumIsInt
  <2>2. QED
    BY <2>1
<1>2. ASSUME NEW U \in SUBSET T, NEW a \in T \ U, U \in G
      PROVE  U \cup {a} \in G
  <2>1. IsFiniteSet(U) /\ IsFiniteSet(S \cup U)
    BY FS_Subset, FS_Union
  <2>2. sum((S \cup U) \cup {a}) = sum(S \cup U) + f[a]
    BY <2>1, SumWith
  <2>3. sum(U \cup {a}) = sum(U) + f[a]
    BY <2>1, SumWith
  <2>4. sum(S) \in Int /\ sum(U) \in Int /\ f[a] \in Int
    BY <2>1, SumIsInt
  <2> HIDE DEF sum
  <2>5. S \cup (U \cup {a}) = (S \cup U) \cup {a}
    OBVIOUS
  <2>6. sum(S \cup U) = sum(S) + sum(U)
    BY <1>2
  <2> DEFINE p == sum(S)
             q == sum(U)
  <2>7. /\ sum(S \cup (U \cup {a})) = (p + q) + f[a] /\ sum(U \cup {a}) = q + f[a]
        /\ p \in Int /\ q \in Int
    BY <2>2, <2>3, <2>4, <2>5, <2>6
  <2> HIDE DEF p, q
  <2>8. (p + q) + f[a] = p + (q + f[a])
    BY <2>4, <2>7
  <2>9. QED
    BY <2>7, <2>8 DEF p
<1>3. T \in G
  <2> HIDE DEF G
  <2>1. QED
    BY <1>1, <1>2, SetsGrow
<1>4. QED
  BY <1>3

\* A sum does not depend on what the numbers are indexed by.
LEMMA SumRenamed ==
  ASSUME NEW f, NEW g, NEW S, NEW T, IsFiniteSet(S), NEW b \in Bijection(S, T),
         \A s \in S : f[s] = g[b[s]], \A s \in T : g[s] \in Int
  PROVE  SumFunctionOnSet(f, S) = SumFunctionOnSet(g, T)
<1> DEFINE image(U) == {b[s] : s \in U}
           G == {U \in SUBSET S : SumFunctionOnSet(f, U) = SumFunctionOnSet(g, image(U))}
<1>1. /\ \A s \in S : b[s] \in T
      /\ \A s, u \in S : b[s] = b[u] => s = u
      /\ \A u \in T : \E s \in S : b[s] = u
  BY DEF Bijection, Injection, Surjection, IsInjective
<1>2. {} \in G
  <2>1. image({}) = {}
    OBVIOUS
  <2>2. QED
    BY <2>1, SumOfNone
<1>3. ASSUME NEW U \in SUBSET S, NEW a \in S \ U, U \in G
      PROVE  U \cup {a} \in G
  <2>1. IsFiniteSet(U) /\ image(U \cup {a}) = image(U) \cup {b[a]} /\ b[a] \notin image(U)
    BY <1>1, FS_Subset
  <2>2. \A s \in S : f[s] \in Int /\ g[b[s]] \in Int
    BY <1>1
  <2>3. SumFunctionOnSet(f, U \cup {a}) = SumFunctionOnSet(f, U) + f[a]
    BY <2>1, <2>2, SumWith
  <2>4. IsFiniteSet(image(U))
    <3> DEFINE c == [s \in U |-> b[s]]
    <3>1. c \in Surjection(U, image(U))
      BY DEF Surjection
    <3> HIDE DEF c, image
    <3>2. QED
      BY <2>1, <3>1, FS_Surjection
  <2>5. \A s \in image(U) \cup {b[a]} : g[s] \in Int
    BY <2>2
  <2> HIDE DEF image
  <2>6. SumFunctionOnSet(g, image(U) \cup {b[a]}) = SumFunctionOnSet(g, image(U)) + g[b[a]]
    BY <2>1, <2>4, <2>5, SumWith
  <2>7. QED
    BY <1>3, <2>1, <2>3, <2>6
<1>4. S \in G
  <2> HIDE DEF G
  <2>1. QED
    BY <1>2, <1>3, SetsGrow
<1>5. image(S) = T
  BY <1>1
<1>6. QED
  BY <1>4, <1>5

\* Equal numbers have equal sums.
LEMMA SumOfSame ==
  ASSUME NEW f, NEW g, NEW S, IsFiniteSet(S), \A s \in S : f[s] = g[s] /\ g[s] \in Int
  PROVE  SumFunctionOnSet(f, S) = SumFunctionOnSet(g, S)
<1> DEFINE b == [s \in S |-> s]
<1>1. b \in Bijection(S, S)
  BY DEF Bijection, Injection, Surjection, IsInjective
<1>2. \A s \in S : f[s] = g[b[s]]
  OBVIOUS
<1> HIDE DEF b
<1>3. QED
  BY <1>1, <1>2, SumRenamed

\* The sum of zeros is 0.
LEMMA SumOfZeros ==
  ASSUME NEW f, NEW S, IsFiniteSet(S), \A s \in S : f[s] = 0
  PROVE  SumFunctionOnSet(f, S) = 0
<1> DEFINE G == {U \in SUBSET S : SumFunctionOnSet(f, U) = 0}
<1>1. {} \in G
  BY SumOfNone
<1>2. ASSUME NEW U \in SUBSET S, NEW a \in S \ U, U \in G
      PROVE  U \cup {a} \in G
  <2>1. IsFiniteSet(U) /\ \A s \in U \cup {a} : f[s] \in Int
    BY FS_Subset
  <2>2. SumFunctionOnSet(f, U \cup {a}) = SumFunctionOnSet(f, U) + f[a]
    BY <2>1, SumWith
  <2>3. QED
    BY <1>2, <2>2
<1>3. S \in G
  <2> HIDE DEF G
  <2>1. QED
    BY <1>1, <1>2, SetsGrow
<1>4. QED
  BY <1>3

\* Zeros may be left out.
LEMMA SumOfRest ==
  ASSUME NEW f, NEW S, IsFiniteSet(S), NEW T \in SUBSET S, \A s \in S : f[s] \in Int,
         \A s \in S \ T : f[s] = 0
  PROVE  SumFunctionOnSet(f, S) = SumFunctionOnSet(f, T)
<1> DEFINE R == S \ T
<1>1. /\ IsFiniteSet(T) /\ IsFiniteSet(R) /\ T \cap R = {} /\ T \cup R = S
  BY FS_Subset
<1>2. SumFunctionOnSet(f, R) = 0
  BY <1>1, SumOfZeros
<1>3. SumFunctionOnSet(f, T) \in Int
  BY <1>1, SumIsInt
<1> HIDE DEF R
<1>4. SumFunctionOnSet(f, T \cup R) = SumFunctionOnSet(f, T) + SumFunctionOnSet(f, R)
  BY <1>1, SumOfParts
<1> DEFINE sum == SumFunctionOnSet(f, T)
<1>5. SumFunctionOnSet(f, S) = sum + 0 /\ sum \in Int
  BY <1>1, <1>2, <1>3, <1>4
<1> HIDE DEF sum
<1>6. sum + 0 = sum
  BY <1>5
<1>7. QED
  BY <1>5, <1>6 DEF sum

-----------------------------------------------------------------------------
(* Places in an order, and the entries sorted by row *)

\* Where the elements below each element of a set are linearly ordered by
\* inclusion, their numbers are 0, 1 and so on up to the size of the set.
LEMMA RanksAreAll ==
  ASSUME NEW S, IsFiniteSet(S), NEW below \in [S -> SUBSET S],
         \A a \in S : a \notin below[a],
         \A a, b \in S : a # b => \/ (a \in below[b] /\ below[a] \subseteq below[b])
                                  \/ (b \in below[a] /\ below[b] \subseteq below[a]),
         NEW p \in 0 .. Cardinality(S) - 1
  PROVE  \E a \in S : Cardinality(below[a]) = p
<1> DEFINE n == Cardinality(S)
           rank == [a \in S |-> Cardinality(below[a])]
<1>1. n \in Nat
  BY FS_CardinalityType
<1>2. ASSUME NEW a \in S
      PROVE  /\ IsFiniteSet(below[a]) /\ Cardinality(below[a]) \in 0 .. n - 1
  <2>1. below[a] \subseteq S \ {a}
    OBVIOUS
  <2>2. IsFiniteSet(S \ {a}) /\ Cardinality(S \ {a}) = n - 1
    BY FS_RemoveElement
  <2>3. IsFiniteSet(below[a]) /\ Cardinality(below[a]) <= n - 1
    BY <2>1, <2>2, FS_Subset
  <2>4. Cardinality(below[a]) \in Nat
    BY <2>3, FS_CardinalityType
  <2>5. QED
    BY <1>1, <2>3, <2>4
<1>3. ASSUME NEW a \in S, NEW b \in S, a \in below[b], below[a] \subseteq below[b]
      PROVE  Cardinality(below[a]) # Cardinality(below[b])
  <2>1. IsFiniteSet(below[b]) /\ below[a] \in SUBSET below[b]
    BY <1>2, <1>3
  <2>2. Cardinality(below[b]) = Cardinality(below[a]) => below[b] = below[a]
    BY <2>1, FS_Subset
  <2>3. QED
    BY <1>3, <2>2
<1>4. \A a, b \in S : rank[a] = rank[b] => a = b
  BY <1>3
<1>5. rank \in [S -> 0 .. n - 1]
  BY <1>2
<1>6. IsFiniteSet(0 .. n - 1) /\ Cardinality(0 .. n - 1) = n
  BY <1>1, FS_Interval
<1> HIDE DEF rank
<1>7. rank \in Injection(S, 0 .. n - 1)
  BY <1>4, <1>5 DEF Injection, IsInjective
<1>8. rank \in Surjection(S, 0 .. n - 1)
  BY <1>6, <1>7, FS_Injection
<1>9. PICK a \in S : rank[a] = p
  BY <1>8 DEF Surjection
<1>10. QED
  BY <1>9 DEF rank

\* The p-th smallest number of a set is in it, with p - 1 smaller ones.
LEMMA AscendingIsIn ==
  ASSUME NEW S \in SUBSET Int, IsFiniteSet(S), NEW p \in 1 .. Cardinality(S)
  PROVE  /\ Ascending(S)[p] \in S
         /\ Cardinality({l \in S : l < Ascending(S)[p]}) = p - 1
<1> DEFINE below == [a \in S |-> {l \in S : l < a}]
<1>1. Cardinality(S) \in Nat
  BY FS_CardinalityType
<1>2. below \in [S -> SUBSET S]
  OBVIOUS
<1>3. \A a \in S : a \notin below[a]
  OBVIOUS
<1>4. ASSUME NEW a \in S, NEW b \in S, a # b
      PROVE  \/ (a \in below[b] /\ below[a] \subseteq below[b])
             \/ (b \in below[a] /\ below[b] \subseteq below[a])
  <2>1. \A l \in S : l \in Int
    OBVIOUS
  <2>2. a < b \/ b < a
    BY <1>4, <2>1
  <2>3. ASSUME NEW c \in S, NEW d \in S, c < d
        PROVE  c \in below[d] /\ below[c] \subseteq below[d]
    <3>1. ASSUME NEW l \in S, l < c PROVE l < d
      BY <2>1, <2>3, <3>1
    <3>2. QED
      BY <2>3, <3>1
  <2>4. QED
    BY <2>2, <2>3
<1>5. \A a, b \in S : a # b => \/ (a \in below[b] /\ below[a] \subseteq below[b])
                               \/ (b \in below[a] /\ below[b] \subseteq below[a])
  BY <1>4
<1> HIDE DEF below
<1>6. \A i \in 0 .. Cardinality(S) - 1 : \E a \in S : Cardinality(below[a]) = i
  BY <1>2, <1>3, <1>5, RanksAreAll
<1>7. \E k \in S : Cardinality({l \in S : l < k}) = p - 1
  <2>1. p - 1 \in 0 .. Cardinality(S) - 1
    BY <1>1
  <2>2. QED
    BY <1>6, <2>1 DEF below
<1> DEFINE Fits(k) == Cardinality({l \in S : l < k}) = p - 1
           found == CHOOSE k \in S : Fits(k)
<1>8. Ascending(S)[p] = found
  BY DEF Ascending
<1>9. found \in S /\ Fits(found)
  <2>1. \E k \in S : Fits(k)
    BY <1>7
  <2> HIDE DEF Fits
  <2>2. QED
    BY <2>1
<1> HIDE DEF found
<1>10. QED
  BY <1>8, <1>9

\* A set of numbers that has, with each of its numbers, all smaller ones from 1.
LEMMA InitialPart ==
  ASSUME NEW n \in Nat, NEW S \in SUBSET (1 .. n),
         \A p \in S : \A q \in 1 .. n : q <= p => q \in S
  PROVE  Cardinality(S) \in 0 .. n /\ S = 1 .. Cardinality(S)
<1> DEFINE out == {k \in 1 .. n + 1 : k \notin S}
<1>1. n + 1 \in out /\ out \in SUBSET Nat
  OBVIOUS
<1>2. PICK k \in out : \A l \in out : k <= l
  <2> HIDE DEF out
  <2>1. QED
    BY <1>1, SmallestNumber
<1>3. S = 1 .. k - 1
  <2>1. ASSUME NEW l \in 1 .. k - 1 PROVE l \in S
    <3>1. l \in 1 .. n + 1 /\ ~ (k <= l)
      BY <1>2
    <3>2. QED
      BY <1>2, <3>1
  <2>2. ASSUME NEW l \in S PROVE l \in 1 .. k - 1
    <3>1. k \in 1 .. n + 1 /\ k \notin S /\ l \in 1 .. n
      BY <1>2
    <3>2. ~ (k <= l)
      <4>1. k <= l => k \in 1 .. n
        BY <3>1
      <4>2. QED
        BY <3>1, <4>1
    <3>3. QED
      BY <3>1, <3>2
  <2>3. QED
    BY <2>1, <2>2
<1>4. Cardinality(1 .. k - 1) = k - 1
  <2>1. 1 \in Int /\ k - 1 \in Int /\ k \in 1 .. n + 1
    BY <1>2
  <2>2. Cardinality(1 .. k - 1) = IF 1 > k - 1 THEN 0 ELSE (k - 1) - 1 + 1
    BY <2>1, FS_Interval
  <2>3. QED
    BY <2>1, <2>2
<1>5. QED
  BY <1>2, <1>3, <1>4

\* What the types of a matrix's parts are.
LEMMA EntriesAre ==
  ASSUME NEW m, IsMatrix(m)
  PROVE  /\ m.rows \in Nat \ {0} /\ m.columns \in Nat \ {0} /\ Len(m.entries) \in Nat \ {0}
         /\ m.entries \in Seq([i : Nat, j : Nat, a : Int])
         /\ DOMAIN m.entries = 1 .. Len(m.entries) /\ IsFiniteSet(DOMAIN m.entries)
         /\ Cardinality(DOMAIN m.entries) = Len(m.entries)
         /\ \A k \in DOMAIN m.entries :
              /\ m.entries[k].i \in 1 .. m.rows /\ m.entries[k].j \in 1 .. m.columns
              /\ m.entries[k].i - 1 \in Rows(m) /\ m.entries[k].a \in Int
              /\ m.entries[k] \in [i : Nat, j : Nat, a : Int]
<1> DEFINE E == [i : Nat, j : Nat, a : Int]
           e == m.entries
<1>1. m.rows \in Nat \ {0} /\ m.columns \in Nat \ {0} /\ e \in Seq(E) /\ e # <<>>
  BY DEF IsMatrix
<1>2. \A k \in DOMAIN e : e[k].i \in 1 .. m.rows /\ e[k].j \in 1 .. m.columns
  BY DEF IsMatrix
<1> HIDE DEF E, e
<1>3. Len(e) \in Nat \ {0} /\ DOMAIN e = 1 .. Len(e) /\ \A k \in DOMAIN e : e[k] \in E
  BY <1>1
<1>4. \A k \in DOMAIN e : e[k].a \in Int
  BY <1>3 DEF E
<1>5. IsFiniteSet(DOMAIN e) /\ Cardinality(DOMAIN e) = Len(e)
  <2>1. 1 \in Int /\ Len(e) \in Int
    BY <1>3
  <2>2. /\ IsFiniteSet(1 .. Len(e))
        /\ Cardinality(1 .. Len(e)) = IF 1 > Len(e) THEN 0 ELSE Len(e) - 1 + 1
    BY <2>1, FS_Interval
  <2>3. QED
    BY <1>3, <2>2
<1>6. \A k \in DOMAIN e : e[k].i - 1 \in Rows(m)
  BY <1>1, <1>2 DEF Rows
<1>7. QED
  BY <1>1, <1>2, <1>3, <1>4, <1>5, <1>6 DEF E, e

\* The order of SortRowMajor, and which entry it puts at place p.
SortsBefore(m, k, l) ==
  LET e == m.entries IN
  \/ e[k].i < e[l].i
  \/ e[k].i = e[l].i /\ e[k].j < e[l].j
  \/ e[k].i = e[l].i /\ e[k].j = e[l].j /\ k < l

Below(m, k) == {l \in DOMAIN m.entries : SortsBefore(m, l, k)}

Placed(m) ==
  [p \in DOMAIN m.entries |-> CHOOSE k \in DOMAIN m.entries : Cardinality(Below(m, k)) = p - 1]

\* The entry at place p of the sorted entries.
LEMMA SortedIs ==
  ASSUME NEW m, NEW p \in DOMAIN m.entries
  PROVE  SortRowMajor(m)[p] = m.entries[Placed(m)[p]]
<1> DEFINE e == m.entries
           D == DOMAIN e
           Less(k, l) == \/ e[k].i < e[l].i
                         \/ e[k].i = e[l].i /\ e[k].j < e[l].j
                         \/ e[k].i = e[l].i /\ e[k].j = e[l].j /\ k < l
           rank == [k \in D |-> Cardinality({l \in D : Less(l, k)})]
<1>1. \A k, l : Less(k, l) <=> SortsBefore(m, k, l)
  BY DEF SortsBefore
<1>2. SortRowMajor(m)[p] = e[CHOOSE k \in D : rank[k] = p - 1]
  BY DEF SortRowMajor
<1>3. \A k \in D : rank[k] = Cardinality(Below(m, k))
  BY DEF Below, SortsBefore
<1> HIDE DEF rank
<1>4. (CHOOSE k \in D : rank[k] = p - 1) = CHOOSE k \in D : Cardinality(Below(m, k)) = p - 1
  BY <1>3
<1>5. QED
  BY <1>2, <1>4 DEF Placed

\* SortRowMajor orders the entries, those of smaller rows first.
LEMMA BelowIsAnOrder ==
  ASSUME NEW m, IsMatrix(m)
  PROVE  LET D == DOMAIN m.entries IN
         /\ \A k \in D : k \notin Below(m, k) /\ Below(m, k) \subseteq D
         /\ \A k, l \in D : k # l => \/ (k \in Below(m, l) /\ Below(m, k) \subseteq Below(m, l))
                                     \/ (l \in Below(m, k) /\ Below(m, l) \subseteq Below(m, k))
         /\ \A k, l \in D : m.entries[k].i < m.entries[l].i => k \in Below(m, l)
<1> DEFINE e == m.entries
           D == DOMAIN e
           Less(k, l) == SortsBefore(m, k, l)
<1>1. \A k \in D : k \in Int /\ e[k].i \in Int /\ e[k].j \in Int
  BY EntriesAre
<1> HIDE DEF D, e
<1>2. \A k \in D : ~ Less(k, k)
  BY <1>1 DEF SortsBefore, e
<1>3. \A k, l \in D : k # l => Less(k, l) \/ Less(l, k)
  BY <1>1 DEF SortsBefore, e
<1>4. \A k, l, n \in D : Less(k, l) /\ Less(l, n) => Less(k, n)
  BY <1>1 DEF SortsBefore, e
<1>5. \A k, l \in D : e[k].i < e[l].i => Less(k, l)
  BY DEF SortsBefore, e
<1>6. \A k : Below(m, k) = {l \in D : Less(l, k)}
  BY DEF Below, D, e
<1> HIDE DEF Less
<1>7. ASSUME NEW k \in D, NEW l \in D, Less(k, l)
      PROVE  k \in Below(m, l) /\ Below(m, k) \subseteq Below(m, l)
  BY <1>4, <1>6, <1>7
<1>8. \A k, l \in D : k # l => \/ (k \in Below(m, l) /\ Below(m, k) \subseteq Below(m, l))
                               \/ (l \in Below(m, k) /\ Below(m, l) \subseteq Below(m, k))
  BY <1>3, <1>7
<1>9. /\ \A k \in D : k \notin Below(m, k) /\ Below(m, k) \subseteq D
      /\ \A k, l \in D : e[k].i < e[l].i => k \in Below(m, l)
  BY <1>2, <1>5, <1>6
<1>10. QED
  BY <1>8, <1>9 DEF D, e

\* Sorting is a permutation, and puts the rows in order.
LEMMA PlacedPermutes ==
  ASSUME NEW m, IsMatrix(m)
  PROVE  /\ Placed(m) \in Bijection(DOMAIN m.entries, DOMAIN m.entries)
         /\ \A p, q \in DOMAIN m.entries :
              p < q => m.entries[Placed(m)[p]].i <= m.entries[Placed(m)[q]].i
<1> DEFINE e == m.entries
           D == DOMAIN e
           below == [k \in D |-> Below(m, k)]
           P == Placed(m)
<1>1. /\ D = 1 .. Len(e) /\ Len(e) \in Nat /\ IsFiniteSet(D) /\ Cardinality(D) = Len(e)
      /\ \A k \in D : k \in Int /\ e[k].i \in Int
  BY EntriesAre
<1>2. /\ below \in [D -> SUBSET D] /\ \A k \in D : k \notin below[k]
      /\ \A k, l \in D : k # l => \/ (k \in below[l] /\ below[k] \subseteq below[l])
                                  \/ (l \in below[k] /\ below[l] \subseteq below[k])
  BY BelowIsAnOrder
<1>3. \A k, l \in D : e[k].i < e[l].i => k \in below[l]
  BY BelowIsAnOrder
<1>4. \A k \in D : below[k] = Below(m, k)
  OBVIOUS
<1> HIDE DEF below
<1>5. \A i \in 0 .. Cardinality(D) - 1 : \E k \in D : Cardinality(below[k]) = i
  <2> HIDE DEF D
  <2>1. QED
    BY <1>1, <1>2, RanksAreAll
<1>6. \A p \in D : P[p] \in D /\ Cardinality(below[P[p]]) = p - 1
  <2>1. ASSUME NEW p \in D
        PROVE  P[p] \in D /\ Cardinality(below[P[p]]) = p - 1
    <3>1. p - 1 \in 0 .. Cardinality(D) - 1
      BY <1>1
    <3>2. \E k \in D : Cardinality(Below(m, k)) = p - 1
      BY <1>4, <1>5, <3>1
    <3>3. P[p] = CHOOSE k \in D : Cardinality(Below(m, k)) = p - 1
      BY DEF Placed
    <3> HIDE DEF D, P
    <3>4. P[p] \in D /\ Cardinality(Below(m, P[p])) = p - 1
      BY <3>2, <3>3
    <3>5. QED
      BY <1>4, <3>4
  <2>2. QED
    BY <2>1
<1>7. P \in [D -> D]
  <2>1. P = [p \in D |-> P[p]]
    BY DEF Placed
  <2> HIDE DEF P, D
  <2>2. QED
    BY <1>6, <2>1
<1> HIDE DEF P
<1>8. P \in Injection(D, D)
  <2>1. \A p, q \in D : P[p] = P[q] => p = q
    <3>1. \A p, q \in D : P[p] = P[q] => p - 1 = q - 1
      BY <1>6
    <3>2. QED
      BY <1>1, <3>1
  <2>2. QED
    BY <1>7, <2>1 DEF Injection, IsInjective
<1>9. P \in Bijection(D, D)
  <2> HIDE DEF D
  <2>1. P \in Surjection(D, D)
    BY <1>1, <1>8, FS_Injection
  <2>2. QED
    BY <1>8, <2>1 DEF Bijection
<1>10. ASSUME NEW p \in D, NEW q \in D, p < q
       PROVE  e[P[p]].i <= e[P[q]].i
  <2> DEFINE i(k) == e[k].i
  <2>1. \A k \in D : i(k) \in Int
    BY <1>1
  <2>2. \A k, l \in D : i(k) < i(l) => k \in below[l]
    BY <1>3
  <2>3. P[p] \in D /\ P[q] \in D
    BY <1>6
  <2> HIDE DEF D, i
  <2>4. SUFFICES ASSUME i(P[q]) < i(P[p])
                 PROVE  FALSE
    <3>1. ~ (i(P[q]) < i(P[p])) => i(P[p]) <= i(P[q])
      BY <2>1, <2>3
    <3>2. QED
      BY <3>1 DEF i
  <2>5. P[q] \in below[P[p]] /\ P[q] # P[p]
    BY <1>2, <2>4, <2>2, <2>3
  <2>6. below[P[q]] \subseteq below[P[p]]
    <3>1. P[p] \notin below[P[q]] \/ ~ (below[P[p]] \subseteq below[P[q]])
      BY <1>2, <1>6, <2>5
    <3>2. QED
      BY <1>2, <1>6, <2>5, <3>1
  <2>7. IsFiniteSet(below[P[p]]) /\ below[P[q]] \in SUBSET below[P[p]]
    <3>1. below[P[p]] \in SUBSET D
      BY <1>2, <1>6
    <3>2. QED
      BY <1>1, <2>6, <3>1, FS_Subset
  <2>8. Cardinality(below[P[q]]) <= Cardinality(below[P[p]])
    BY <2>7, FS_Subset
  <2>9. QED
    BY <1>1, <1>6, <1>10, <2>8
<1>11. QED
  BY <1>9, <1>10 DEF P

-----------------------------------------------------------------------------
(* The places of a row among the sorted entries *)

\* The row of the entry at place p of the sorted entries.
RowAt(m, p) == SortRowMajor(m)[p].i - 1

\* The sorted entries are entries, in the order of their rows.
LEMMA SortedFacts ==
  ASSUME NEW m, IsMatrix(m)
  PROVE  LET D == DOMAIN m.entries
             s == SortRowMajor(m) IN
         /\ \A p \in D : /\ Placed(m)[p] \in D /\ s[p] = m.entries[Placed(m)[p]]
                         /\ RowAt(m, p) \in Rows(m) /\ s[p].i \in 1 .. m.rows
                         /\ s[p].j \in 1 .. m.columns /\ s[p].a \in Int
                         /\ s[p] \in [i : Nat, j : Nat, a : Int]
         /\ \A p, q \in D : p <= q => RowAt(m, p) <= RowAt(m, q)
<1> DEFINE D == DOMAIN m.entries
           s == SortRowMajor(m)
<1>1. \A p \in D : Placed(m)[p] \in D /\ s[p] = m.entries[Placed(m)[p]]
  BY SortedIs, PlacedPermutes DEF Bijection, Injection
<1>2. \A p \in D : /\ s[p].i - 1 \in Rows(m) /\ s[p].i \in 1 .. m.rows
                   /\ s[p].j \in 1 .. m.columns /\ s[p].a \in Int
                   /\ s[p] \in [i : Nat, j : Nat, a : Int]
  <2> HIDE DEF s
  <2>1. \A k \in D : /\ m.entries[k].i - 1 \in Rows(m) /\ m.entries[k].i \in 1 .. m.rows
                     /\ m.entries[k].j \in 1 .. m.columns /\ m.entries[k].a \in Int
                     /\ m.entries[k] \in [i : Nat, j : Nat, a : Int]
    BY EntriesAre
  <2>2. QED
    BY <1>1, <2>1
<1>3. \A p, q \in D : p < q => s[p].i <= s[q].i
  BY <1>1, PlacedPermutes
<1>4. \A p \in D : p \in Int
  BY EntriesAre
<1> HIDE DEF D, s
<1>5. \A p, q \in D : p <= q => RowAt(m, p) <= RowAt(m, q)
  <2>1. ASSUME NEW p \in D, NEW q \in D, p <= q
        PROVE  RowAt(m, p) <= RowAt(m, q)
    <3>1. p = q \/ p < q
      BY <1>4, <2>1
    <3>2. s[p].i \in Int /\ s[q].i \in Int
      BY <1>2
    <3>3. s[p].i <= s[q].i
      BY <1>3, <3>1, <3>2
    <3>4. QED
      BY <3>2, <3>3 DEF RowAt, s
  <2>2. QED
    BY <2>1
<1>6. \A p \in D : RowAt(m, p) = s[p].i - 1
  BY DEF RowAt, s
<1>7. QED
  BY <1>1, <1>2, <1>5, <1>6 DEF D, s

\* The entries of the rows before r come first: they are RowStart(m, r).
LEMMA RowStartIs ==
  ASSUME NEW m, IsMatrix(m), NEW r \in Int
  PROVE  /\ RowStart(m, r) \in 0 .. Len(m.entries)
         /\ {p \in DOMAIN m.entries : RowAt(m, p) < r} = 1 .. RowStart(m, r)
<1> DEFINE D == DOMAIN m.entries
           n == Len(m.entries)
           P == Placed(m)
           front == {p \in D : RowAt(m, p) < r}
           early == {k \in D : m.entries[k].i - 1 < r}
           f == [p \in front |-> P[p]]
<1>1. D = 1 .. n /\ n \in Nat /\ IsFiniteSet(D)
  BY EntriesAre
<1>2. \A p \in D : P[p] \in D /\ RowAt(m, p) = m.entries[P[p]].i - 1 /\ RowAt(m, p) \in Int
  <2>1. \A p \in D : RowAt(m, p) \in Rows(m) /\ P[p] \in D /\ SortRowMajor(m)[p] = m.entries[P[p]]
    BY SortedFacts
  <2>2. \A k \in Rows(m) : k \in Int
    BY EntriesAre DEF Rows
  <2>3. QED
    BY <2>1, <2>2 DEF RowAt
<1>3. \A p, q \in D : p <= q => RowAt(m, p) <= RowAt(m, q)
  BY SortedFacts
<1>4. /\ \A p, q \in D : P[p] = P[q] => p = q
      /\ \A k \in D : \E p \in D : P[p] = k
  <2>1. P \in Bijection(D, D)
    BY PlacedPermutes
  <2> HIDE DEF P, D
  <2>2. QED
    BY <2>1 DEF Bijection, Injection, Surjection, IsInjective
<1> HIDE DEF D, P, n
<1>5. f \in Bijection(front, early)
  <2>1. \A p \in front : P[p] \in early
    BY <1>2 DEF D
  <2>2. \A k \in early : \E p \in front : P[p] = k
    BY <1>2, <1>4
  <2>3. \A p, q \in front : P[p] = P[q] => p = q
    BY <1>4
  <2> HIDE DEF front, early
  <2>4. f \in [front -> early]
    BY <2>1
  <2>5. \A k \in early : \E p \in front : f[p] = k
    BY <2>2
  <2>6. \A p, q \in front : f[p] = f[q] => p = q
    BY <2>3
  <2> HIDE DEF f
  <2>7. QED
    BY <2>4, <2>5, <2>6 DEF Bijection, Injection, Surjection, IsInjective
<1>6. front \in SUBSET (1 .. n) /\ IsFiniteSet(front)
  <2>1. front \in SUBSET D
    OBVIOUS
  <2> HIDE DEF front
  <2>2. QED
    BY <1>1, <2>1, FS_Subset
<1>7. \A p \in front : \A q \in 1 .. n : q <= p => q \in front
  <2>1. ASSUME NEW p \in front, NEW q \in 1 .. n, q <= p
        PROVE  q \in front
    <3>1. q \in D /\ p \in D /\ RowAt(m, p) < r
      BY <1>1
    <3>2. RowAt(m, q) <= RowAt(m, p) /\ RowAt(m, q) \in Int /\ RowAt(m, p) \in Int
      BY <1>2, <1>3, <2>1, <3>1
    <3>3. QED
      BY <3>1, <3>2
  <2>2. QED
    BY <2>1
<1> HIDE DEF f
<1>8. Cardinality(front) = Cardinality(early)
  <2> HIDE DEF front, early
  <2>1. QED
    BY <1>5, <1>6, FS_Bijection DEF ExistsBijection
<1>9. Cardinality(front) \in 0 .. n /\ front = 1 .. Cardinality(front)
  <2> HIDE DEF front
  <2>1. QED
    BY <1>1, <1>6, <1>7, InitialPart
<1>10. Cardinality(early) = RowStart(m, r)
  BY DEF RowStart, D
<1>11. QED
  BY <1>8, <1>9, <1>10 DEF D, n

\* A row starts where the one before it ends.
LEMMA RowLengthIs ==
  ASSUME NEW m, IsMatrix(m), NEW r \in Rows(m)
  PROVE  /\ RowLength(m, r) \in Nat
         /\ RowStart(m, r + 1) = RowStart(m, r) + RowLength(m, r)
<1> DEFINE D == DOMAIN m.entries
           row(k) == m.entries[k].i - 1
           before == {k \in D : row(k) < r}
           mine == {k \in D : row(k) = r}
<1>1. IsFiniteSet(D) /\ r \in Int /\ \A k \in D : row(k) \in Int
  BY EntriesAre DEF Rows
<1>2. /\ RowLength(m, r) = Cardinality(mine) /\ RowStart(m, r) = Cardinality(before)
      /\ RowStart(m, r + 1) = Cardinality({k \in D : row(k) < r + 1})
  BY DEF RowLength, RowStart
<1> HIDE DEF D, row
<1>3. {k \in D : row(k) < r + 1} = before \cup mine /\ before \cap mine = {}
  BY <1>1
<1>4. before \in SUBSET D /\ mine \in SUBSET D
  OBVIOUS
<1> HIDE DEF before, mine
<1>5. /\ IsFiniteSet(before) /\ IsFiniteSet(mine)
      /\ Cardinality(before) \in Nat /\ Cardinality(mine) \in Nat
  BY <1>1, <1>4, FS_Subset, FS_CardinalityType
<1>6. Cardinality(before \cup mine) = Cardinality(before) + Cardinality(mine)
  <2>1. Cardinality(before \cup mine) =
          Cardinality(before) + Cardinality(mine) - Cardinality(before \cap mine)
    BY <1>5, FS_Union
  <2>2. Cardinality(before \cap mine) = 0
    BY <1>3, FS_EmptySet
  <2> DEFINE b == Cardinality(before)
             c == Cardinality(mine)
  <2> HIDE DEF b, c
  <2>3. Cardinality(before \cup mine) = b + c - 0 /\ b \in Nat /\ c \in Nat
    BY <1>5, <2>1, <2>2 DEF b, c
  <2>4. Cardinality(before \cup mine) = b + c
    BY <2>3
  <2>5. QED
    BY <2>4 DEF b, c
<1>7. QED
  <2>1. RowStart(m, r + 1) = RowStart(m, r) + RowLength(m, r)
    BY <1>2, <1>3, <1>6
  <2>2. RowLength(m, r) \in Nat
    BY <1>2, <1>5
  <2>3. QED
    BY <2>1, <2>2

\* The first row starts at 0, and the last ends with the entries.
LEMMA RowEnds ==
  ASSUME NEW m, IsMatrix(m)
  PROVE  RowStart(m, 0) = 0 /\ RowStart(m, m.rows) = Len(m.entries)
<1> DEFINE D == DOMAIN m.entries
<1>1. \A k \in D : m.entries[k].i - 1 \in 0 .. m.rows - 1
  BY EntriesAre DEF Rows
<1>2. m.rows \in Int
  BY EntriesAre
<1>3. {k \in D : m.entries[k].i - 1 < 0} = {} /\ {k \in D : m.entries[k].i - 1 < m.rows} = D
  <2> DEFINE row(k) == m.entries[k].i - 1
  <2>1. \A k \in D : row(k) \in 0 .. m.rows - 1
    BY <1>1
  <2> HIDE DEF D, row
  <2>2. {k \in D : row(k) < 0} = {} /\ {k \in D : row(k) < m.rows} = D
    BY <1>2, <2>1
  <2>3. QED
    BY <2>2 DEF row
<1>4. QED
  BY <1>3, EntriesAre, FS_EmptySet DEF RowStart

\* The places of row r.
LEMMA RowPlaces ==
  ASSUME NEW m, IsMatrix(m), NEW r \in Rows(m)
  PROVE  /\ RowStart(m, r) \in Nat /\ RowStart(m, r + 1) \in Nat
         /\ RowStart(m, r) <= RowStart(m, r + 1) /\ RowStart(m, r + 1) <= Len(m.entries)
         /\ {p \in DOMAIN m.entries : RowAt(m, p) = r} = RowStart(m, r) + 1 .. RowStart(m, r + 1)
<1> DEFINE D == DOMAIN m.entries
           a == RowStart(m, r)
           b == RowStart(m, r + 1)
           row(p) == RowAt(m, p)
<1>1. r \in Int /\ r + 1 \in Int /\ \A p \in D : row(p) \in Int /\ p \in Int
  <2>1. \A k \in Rows(m) : k \in Int
    BY EntriesAre DEF Rows
  <2>2. QED
    BY <2>1, SortedFacts, EntriesAre
<1>2. /\ a \in 0 .. Len(m.entries) /\ {p \in D : row(p) < r} = 1 .. a
      /\ b \in 0 .. Len(m.entries) /\ {p \in D : row(p) < r + 1} = 1 .. b
  BY <1>1, RowStartIs
<1>3. Len(m.entries) \in Nat /\ b = a + RowLength(m, r) /\ RowLength(m, r) \in Nat
  BY EntriesAre, RowLengthIs
<1> HIDE DEF D, a, b, row
<1>4. \A p \in D : row(p) = r <=> row(p) < r + 1 /\ ~ (row(p) < r)
  BY <1>1
<1>5. {p \in D : row(p) = r} = (1 .. b) \ (1 .. a)
  BY <1>2, <1>4
<1>6. (1 .. b) \ (1 .. a) = a + 1 .. b
  BY <1>2, <1>3
<1>7. QED
  BY <1>2, <1>3, <1>5, <1>6 DEF D, a, b, row

-----------------------------------------------------------------------------
(* Matrices in CSR *)

\* row_ptr holds the starts of the rows.
LEMMA RowPtrIs ==
  ASSUME NEW m, IsMatrix(m)
  PROVE  RowPtr(m, 1) = [r \in 0 .. m.rows |-> RowStart(m, r)]
<1> DEFINE R == m.rows
           len(r) == RowLength(m, r)
           start(r) == RowStart(m, r)
           starts == [r \in 0 .. R |-> start(r)]
           ptr == RowPtr(m, 1)
           Fits(h) == h = [r \in 0 .. R |-> IF r = 0 THEN 0 ELSE RoundUp(h[r - 1] + len(r - 1), 1)]
<1>1. /\ R \in Nat /\ start(0) = 0
      /\ \A r \in 0 .. R - 1 : len(r) \in Nat /\ start(r) \in Nat /\ start(r + 1) = start(r) + len(r)
  BY EntriesAre, RowEnds, RowLengthIs, RowPlaces DEF Rows
<1>2. ptr = CHOOSE h : Fits(h)
  BY DEF RowPtr
<1> HIDE DEF R, len, start, ptr
<1>3. \A r \in 1 .. R : r - 1 \in 0 .. R - 1 /\ r - 1 \in 0 .. R /\ r # 0 /\ (r - 1) + 1 = r
  BY <1>1
<1>4. \A k \in Nat : RoundUp(k, 1) = k
  BY DEF RoundUp
<1>5. Fits(starts)
  <2>1. ASSUME NEW r \in 0 .. R
        PROVE  start(r) = IF r = 0 THEN 0 ELSE RoundUp(starts[r - 1] + len(r - 1), 1)
    <3>1. CASE r = 0
      BY <1>1, <3>1
    <3>2. CASE r # 0
      <4>1. r \in 1 .. R
        BY <1>1, <3>2
      <4>2. start(r) = start(r - 1) + len(r - 1) /\ start(r - 1) + len(r - 1) \in Nat
        BY <1>1, <1>3, <4>1
      <4>3. starts[r - 1] = start(r - 1)
        BY <1>3, <4>1
      <4>4. QED
        BY <1>4, <3>2, <4>2, <4>3
    <3>3. QED
      BY <3>1, <3>2
  <2>2. QED
    BY <2>1
<1>6. Fits(ptr)
  <2> HIDE DEF Fits, starts
  <2>1. QED
    BY <1>2, <1>5
<1> DEFINE G == {r \in 0 .. R : ptr[r] = start(r)}
<1>7. \A r \in 0 .. R - 1 : r \in G => r + 1 \in G
  <2>1. ASSUME NEW r \in 0 .. R - 1, ptr[r] = start(r)
        PROVE  r + 1 \in G
    <3>1. r + 1 \in 0 .. R /\ r + 1 # 0 /\ (r + 1) - 1 = r
      BY <1>1
    <3>2. ptr[r + 1] = RoundUp(ptr[r] + len(r), 1)
      BY <1>6, <3>1
    <3>3. start(r) + len(r) \in Nat /\ start(r + 1) = start(r) + len(r)
      BY <1>1
    <3>4. QED
      BY <1>4, <2>1, <3>1, <3>2, <3>3
  <2>2. QED
    BY <2>1
<1>8. 0 \in G
  BY <1>1, <1>6
<1>9. \A r \in 0 .. R : ptr[r] = start(r)
  <2>1. \A r \in 0 .. R : r \in G
    <3> HIDE DEF G
    <3>1. QED
      BY <1>1, <1>7, <1>8, UpTo
  <2>2. QED
    BY <2>1
<1>10. ptr = [r \in 0 .. R |-> ptr[r]]
  BY <1>6
<1>11. QED
  BY <1>9, <1>10 DEF R, start, ptr

\* A place between two starts is in that row,
LEMMA RowOfPlace ==
  ASSUME NEW m, IsMatrix(m), NEW p \in DOMAIN m.entries, NEW r \in Rows(m),
         RowStart(m, r) < p, p <= RowStart(m, r + 1)
  PROVE  RowAt(m, p) = r
<1>1. /\ RowStart(m, r) \in Nat /\ RowStart(m, r + 1) \in Nat
      /\ {q \in DOMAIN m.entries : RowAt(m, q) = r} = RowStart(m, r) + 1 .. RowStart(m, r + 1)
  BY RowPlaces
<1>2. p \in Int
  BY EntriesAre
<1>3. p \in RowStart(m, r) + 1 .. RowStart(m, r + 1)
  BY <1>1, <1>2
<1>4. QED
  BY <1>1, <1>3

\* and every place is between the starts of its row and the next.
LEMMA PlaceOfRow ==
  ASSUME NEW m, IsMatrix(m), NEW p \in DOMAIN m.entries
  PROVE  /\ RowAt(m, p) \in Rows(m) /\ RowAt(m, p) \in Int
         /\ RowStart(m, RowAt(m, p)) < p /\ p <= RowStart(m, RowAt(m, p) + 1)
         /\ RowStart(m, RowAt(m, p)) \in Nat /\ RowStart(m, RowAt(m, p) + 1) \in Nat
         /\ RowStart(m, RowAt(m, p) + 1) = RowStart(m, RowAt(m, p)) + RowLength(m, RowAt(m, p))
         /\ RowLength(m, RowAt(m, p)) \in Nat
<1> DEFINE r == RowAt(m, p)
<1>1. r \in Rows(m)
  BY SortedFacts
<1>2. r \in Int
  BY <1>1, EntriesAre DEF Rows
<1> HIDE DEF r
<1>3. /\ RowStart(m, r) \in Nat /\ RowStart(m, r + 1) \in Nat
      /\ {q \in DOMAIN m.entries : RowAt(m, q) = r} = RowStart(m, r) + 1 .. RowStart(m, r + 1)
  BY <1>1, RowPlaces
<1>4. p \in RowStart(m, r) + 1 .. RowStart(m, r + 1)
  BY <1>3 DEF r
<1>5. RowStart(m, r) < p /\ p <= RowStart(m, r + 1)
  BY <1>3, <1>4
<1>6. QED
  BY <1>1, <1>2, <1>3, <1>5, RowLengthIs DEF r

\* The arrays that CsrMatrix::from_matrix_market makes, counting the rows and
\* shifting the counts: the entries sorted by row, and where each row starts.
THEOREM CsrIs ==
  ASSUME NEW m, IsMatrix(m)
  PROVE  LET n == Len(m.entries)
             s == SortRowMajor(m) IN
         CsrOf(m, 1) = [row_ptr      |-> [r \in 0 .. m.rows |-> RowStart(m, r)],
                        column_index |-> [k \in 0 .. n - 1 |-> s[k + 1].j - 1],
                        value        |-> [k \in 0 .. n - 1 |-> s[k + 1].a]]
<1> DEFINE n == Len(m.entries)
           s == SortRowMajor(m)
           ptr == [r \in 0 .. m.rows |-> RowStart(m, r)]
           K == 0 .. ptr[m.rows] - 1
           row == [k \in K |-> CHOOSE r \in Rows(m) : ptr[r] <= k /\ k < ptr[r + 1]]
           stored == [k \in K |-> k - ptr[row[k]] < RowLength(m, row[k])]
<1>1. CsrOf(m, 1) =
        [row_ptr      |-> ptr,
         column_index |-> [k \in K |-> IF stored[k]
                                       THEN Entry(m, row[k], k - ptr[row[k]]).j - 1 ELSE 0],
         value        |-> [k \in K |-> IF stored[k]
                                       THEN Entry(m, row[k], k - ptr[row[k]]).a ELSE 0]]
  <2> DEFINE made(h) ==
        LET K1 == 0 .. h[m.rows] - 1
            row1 == [k \in K1 |-> CHOOSE r \in Rows(m) : h[r] <= k /\ k < h[r + 1]]
            stored1 == [k \in K1 |-> k - h[row1[k]] < RowLength(m, row1[k])]
        IN  [row_ptr      |-> h,
             column_index |-> [k \in K1 |-> IF stored1[k]
                                            THEN Entry(m, row1[k], k - h[row1[k]]).j - 1 ELSE 0],
             value        |-> [k \in K1 |-> IF stored1[k]
                                            THEN Entry(m, row1[k], k - h[row1[k]]).a ELSE 0]]
  <2>1. CsrOf(m, 1) = made(RowPtr(m, 1))
    BY Zenon DEF CsrOf
  <2>2. RowPtr(m, 1) = ptr
    BY RowPtrIs
  <2>3. CsrOf(m, 1) = made(ptr)
    <3> HIDE DEF made, ptr
    <3>1. QED
      BY <2>1, <2>2
  <2>4. QED
    <3> HIDE DEF ptr
    <3>1. QED
      BY <2>3
<1>2. ptr[m.rows] = n /\ K = 0 .. n - 1 /\ n \in Nat /\ DOMAIN m.entries = 1 .. n
  BY EntriesAre, RowEnds
<1>3. \A r \in Rows(m) : /\ ptr[r] = RowStart(m, r) /\ ptr[r + 1] = RowStart(m, r + 1)
                         /\ RowStart(m, r) \in Nat /\ RowStart(m, r + 1) \in Nat
  <2>1. \A r \in Rows(m) : r \in 0 .. m.rows /\ r + 1 \in 0 .. m.rows
    BY EntriesAre DEF Rows
  <2>2. \A r \in Rows(m) : RowStart(m, r) \in Nat /\ RowStart(m, r + 1) \in Nat
    BY RowPlaces
  <2>3. QED
    BY <2>1, <2>2
<1> HIDE DEF n, ptr, K
<1>4. ASSUME NEW k \in K
      PROVE  stored[k] /\ Entry(m, row[k], k - ptr[row[k]]) = s[k + 1]
  <2> DEFINE r == RowAt(m, k + 1)
             Fits(q) == ptr[q] <= k /\ k < ptr[q + 1]
  <2>1. k + 1 \in DOMAIN m.entries /\ k \in Nat
    BY <1>2
  <2>2. /\ r \in Rows(m)
        /\ RowStart(m, r) < k + 1 /\ k + 1 <= RowStart(m, r + 1)
        /\ RowStart(m, r) \in Nat /\ RowStart(m, r + 1) \in Nat
        /\ RowStart(m, r + 1) = RowStart(m, r) + RowLength(m, r) /\ RowLength(m, r) \in Nat
    BY <2>1, PlaceOfRow
  <2>3. \A q \in Rows(m) : Fits(q) => q = r
    <3>1. ASSUME NEW q \in Rows(m), Fits(q)
          PROVE  q = r
      <4>1. RowStart(m, q) < k + 1 /\ k + 1 <= RowStart(m, q + 1)
        BY <1>3, <2>1, <3>1
      <4>2. QED
        BY <2>1, <4>1, RowOfPlace
    <3>2. QED
      BY <3>1
  <2> HIDE DEF r
  <2>4. Fits(r)
    BY <1>3, <2>1, <2>2
  <2>5. row[k] = CHOOSE q \in Rows(m) : Fits(q)
    OBVIOUS
  <2> HIDE DEF Fits, row
  <2>6. row[k] = r
    BY <2>2, <2>3, <2>4, <2>5
  <2>7. ptr[row[k]] = RowStart(m, r)
    BY <1>3, <2>2, <2>6
  <2>8. k - ptr[row[k]] < RowLength(m, row[k])
    BY <2>1, <2>2, <2>6, <2>7
  <2>9. Entry(m, row[k], k - ptr[row[k]]) = s[RowStart(m, r) + (k - RowStart(m, r)) + 1]
    BY <2>6, <2>7 DEF Entry
  <2>10. RowStart(m, r) + (k - RowStart(m, r)) + 1 = k + 1
    BY <2>1, <2>2
  <2>11. QED
    BY <2>8, <2>9, <2>10
<1> HIDE DEF row, stored, s
<1>5. /\ [k \in K |-> IF stored[k] THEN Entry(m, row[k], k - ptr[row[k]]).j - 1 ELSE 0] =
         [k \in K |-> s[k + 1].j - 1]
      /\ [k \in K |-> IF stored[k] THEN Entry(m, row[k], k - ptr[row[k]]).a ELSE 0] =
         [k \in K |-> s[k + 1].a]
  BY <1>4
<1>6. QED
  BY <1>1, <1>2, <1>5 DEF ptr, n, s

-----------------------------------------------------------------------------
(* The lengths of rows, and positions in rows of equal length *)

\* The largest of some numbers, as Max chooses it.
LEMMA LargestIs ==
  ASSUME NEW S \in SUBSET Int, IsFiniteSet(S), S # {}
  PROVE  Max(S) \in S /\ \A k \in S : k <= Max(S)
<1> DEFINE Largest(T, l) == l \in T /\ \A k \in T : l >= k
           G == {T \in SUBSET S : T = {} \/ \E l : Largest(T, l)}
<1>1. {} \in G
  OBVIOUS
<1>2. ASSUME NEW T \in SUBSET S, NEW a \in S \ T, T \in G
      PROVE  T \cup {a} \in G
  <2>1. a \in Int /\ \A k \in T : k \in Int
    OBVIOUS
  <2>2. CASE T = {}
    <3>1. Largest(T \cup {a}, a)
      BY <2>1, <2>2
    <3>2. QED
      BY <3>1
  <2>3. CASE \E l : Largest(T, l)
    <3>1. PICK l : Largest(T, l)
      BY <2>3
    <3>2. Largest(T \cup {a}, l) \/ Largest(T \cup {a}, a)
      BY <2>1, <3>1
    <3>3. QED
      BY <3>2
  <2>4. QED
    BY <1>2, <2>2, <2>3
<1>3. S \in G
  <2> HIDE DEF G
  <2>1. QED
    BY <1>1, <1>2, SetsGrow
<1>4. PICK l : Largest(S, l)
  BY <1>3
<1>5. Largest(S, Max(S))
  <2>1. Max(S) = CHOOSE k \in S : \A j \in S : k >= j
    BY DEF Max
  <2>2. QED
    BY <1>4, <2>1
<1>6. QED
  BY <1>5

\* The smallest, as Min does.
LEMMA SmallestIs ==
  ASSUME NEW S \in SUBSET Nat, S # {}
  PROVE  Min(S) \in S /\ \A k \in S : Min(S) <= k
<1>1. PICK l \in S : \A k \in S : l <= k
  BY SmallestNumber
<1>2. \A k \in S : l <= k
  BY <1>1
<1>3. Min(S) = CHOOSE k \in S : \A j \in S : k <= j
  BY DEF Min
<1>4. QED
  BY <1>1, <1>2, <1>3

\* The rows and their lengths.
LEMMA RowsAre ==
  ASSUME NEW m, IsMatrix(m)
  PROVE  /\ Rows(m) = 0 .. m.rows - 1 /\ Rows(m) # {} /\ IsFiniteSet(Rows(m))
         /\ Cardinality(Rows(m)) = m.rows
         /\ \A r \in Rows(m) : r \in Nat /\ r + 1 \in Nat /\ RowLength(m, r) \in Nat
<1>1. m.rows \in Nat \ {0} /\ Rows(m) = 0 .. m.rows - 1
  BY EntriesAre DEF Rows
<1> DEFINE R == m.rows
<1> HIDE DEF R
<1>2. R \in Nat \ {0} /\ Rows(m) = 0 .. R - 1
  BY <1>1 DEF R
<1>3. 0 \in Int /\ R - 1 \in Int /\ (R - 1) - 0 + 1 = R /\ 0 <= R - 1
  BY <1>2
<1>4. IsFiniteSet(0 .. R - 1) /\ Cardinality(0 .. R - 1) = (R - 1) - 0 + 1
  BY <1>3, FS_Interval
<1>5. QED
  <2>1. 0 \in Rows(m) /\ \A r \in Rows(m) : r \in Nat /\ r + 1 \in Nat
    BY <1>2
  <2>2. Cardinality(Rows(m)) = R /\ IsFiniteSet(Rows(m))
    BY <1>2, <1>3, <1>4
  <2>3. QED
    BY <1>1, <2>1, <2>2, RowLengthIs DEF R

\* No row is longer than MaxRowLength, and EllRowLength is not above it.
LEMMA LengthsAre ==
  ASSUME NEW m, IsMatrix(m)
  PROVE  /\ MaxRowLength(m) \in Nat /\ \A r \in Rows(m) : RowLength(m, r) <= MaxRowLength(m)
         /\ EllRowLength(m) \in 0 .. MaxRowLength(m)
<1> DEFINE lengths == {RowLength(m, r) : r \in Rows(m)}
           max == MaxRowLength(m)
           NotLonger(l) == Cardinality({r \in Rows(m) : RowLength(m, r) <= l})
           threshold == (2 * m.rows) \div 3
           enough == {l \in 0 .. max : NotLonger(l) >= threshold}
<1>1. lengths \in SUBSET Nat /\ lengths # {} /\ IsFiniteSet(lengths)
  <2>1. IsFiniteSet(Rows(m)) /\ Rows(m) # {} /\ \A r \in Rows(m) : RowLength(m, r) \in Nat
    BY RowsAre
  <2>2. IsFiniteSet(lengths)
    <3> DEFINE f == [r \in Rows(m) |-> RowLength(m, r)]
               image == {f[r] : r \in Rows(m)}
    <3>1. image = lengths
      OBVIOUS
    <3>2. f \in [Rows(m) -> image] /\ \A l \in image : \E r \in Rows(m) : f[r] = l
      OBVIOUS
    <3>3. f \in Surjection(Rows(m), image)
      BY <3>2 DEF Surjection
    <3> HIDE DEF f, image
    <3>4. QED
      BY <2>1, <3>1, <3>3, FS_Surjection
  <2>3. QED
    BY <2>1, <2>2
<1>2. max \in lengths /\ \A l \in lengths : l <= max
  <2> HIDE DEF lengths
  <2>1. Max(lengths) \in lengths /\ \A l \in lengths : l <= Max(lengths)
    BY <1>1, LargestIs
  <2>2. QED
    BY <2>1 DEF MaxRowLength, lengths
<1>3. max \in Nat /\ \A r \in Rows(m) : RowLength(m, r) <= max
  BY <1>1, <1>2
<1> HIDE DEF max
<1>4. NotLonger(max) = m.rows
  <2>1. {r \in Rows(m) : RowLength(m, r) <= max} = Rows(m)
    BY <1>3
  <2>2. QED
    BY <2>1, RowsAre
<1>5. m.rows >= threshold
  <2>1. m.rows \in Nat
    BY EntriesAre
  <2>2. QED
    BY <2>1
<1>6. max \in enough
  BY <1>3, <1>4, <1>5
<1>7. EllRowLength(m) = IF threshold = 0 THEN 0 ELSE Min(enough)
  BY DEF EllRowLength, max
<1>8. enough \in SUBSET (0 .. max)
  OBVIOUS
<1> HIDE DEF enough, threshold
<1>9. Min(enough) \in 0 .. max
  <2>1. enough \in SUBSET Nat /\ enough # {}
    BY <1>3, <1>6, <1>8
  <2>2. Min(enough) \in enough
    BY <2>1, SmallestIs
  <2>3. QED
    BY <1>8, <2>2
<1>10. EllRowLength(m) \in 0 .. max
  BY <1>3, <1>7, <1>9
<1>11. QED
  BY <1>3, <1>10 DEF max

\* The position of the o-th of `length` columns of row r.
LEMMA PositionsAre ==
  ASSUME NEW n \in Nat, NEW length \in Nat, NEW k \in 0 .. (n * length) - 1
  PROVE  /\ length > 0 /\ k \div length \in 0 .. n - 1 /\ k % length \in 0 .. length - 1
         /\ k = ((k \div length) * length) + (k % length)
         /\ (k \div length) * length <= k /\ k < ((k \div length) + 1) * length
<1>1. length > 0
  BY ProductGrows
<1> DEFINE q == k \div length
           a == q * length
           b == n * length
<1>2. /\ q \in Nat /\ a \in Nat /\ a <= k /\ k < a + length
      /\ k % length \in 0 .. length - 1 /\ k = a + (k % length)
  BY <1>1, QuotientAndRest
<1>3. b \in Nat /\ k < b
  BY ProductGrows
<1> HIDE DEF q
<1>4. q < n
  <2>1. CASE n <= q
    <3>1. b <= a
      BY <1>2, <2>1, ProductGrows
    <3>2. QED
      <4> HIDE DEF a, b
      <4>1. QED
        BY <1>2, <1>3, <3>1
  <2>2. QED
    BY <1>2, <2>1
<1>5. (q + 1) * length = a + length
  BY <1>2, NextMultiple
<1>6. QED
  BY <1>1, <1>2, <1>4, <1>5 DEF q

\* The position of the o-th column of row r, and back.
LEMMA PositionIs ==
  ASSUME NEW n \in Nat, NEW length \in Nat, NEW r \in 0 .. n - 1, NEW o \in 0 .. length - 1
  PROVE  /\ (r * length) + o \in 0 .. (n * length) - 1
         /\ ((r * length) + o) \div length = r /\ ((r * length) + o) % length = o
<1> DEFINE a == r * length
           b == n * length
           k == a + o
<1>1. a \in Nat /\ (r + 1) * length = a + length
  BY NextMultiple
<1>2. r + 1 <= n /\ r + 1 \in Nat /\ r \in Nat /\ length \in Nat \ {0} /\ o \in Nat /\ o < length
  OBVIOUS
<1>3. (r + 1) * length <= b /\ b \in Nat
  BY <1>2, ProductGrows
<1>4. k \in Nat /\ a <= k /\ k < a + length /\ k < b
  <2> HIDE DEF a, b
  <2>1. QED
    BY <1>1, <1>2, <1>3
<1>5. k \div length = r
  <2> HIDE DEF k
  <2>1. QED
    BY <1>2, <1>4, QuotientIs
<1>6. k % length \in Nat /\ k = ((k \div length) * length) + (k % length)
  <2> HIDE DEF k
  <2>1. QED
    BY <1>2, <1>4, QuotientAndRest
<1>7. k = a + (k % length)
  BY <1>5, <1>6
<1>8. k % length = o
  <2> DEFINE rest == k % length
  <2> HIDE DEF a, rest
  <2>1. a \in Nat /\ rest \in Nat /\ a + o = a + rest
    BY <1>1, <1>6, <1>7 DEF rest
  <2>2. rest = o
    BY <1>2, <2>1
  <2>3. QED
    BY <2>2 DEF rest
<1>9. QED
  BY <1>4, <1>5, <1>8

-----------------------------------------------------------------------------
(* Matrices in ELL: the first entries of the rows, and padding *)

\* Whether position k of an array with `length` columns a row holds an entry,
\* and which of the sorted entries that is.
IsStored(m, length, k) == k % length < RowLength(m, k \div length)
StoredPlace(m, length, k) == RowStart(m, k \div length) + (k % length) + 1

\* The entry of a position is in the row of the position.
LEMMA StoredIs ==
  ASSUME NEW m, IsMatrix(m), NEW length \in Nat, NEW k \in 0 .. (m.rows * length) - 1,
         IsStored(m, length, k)
  PROVE  /\ StoredPlace(m, length, k) \in DOMAIN m.entries
         /\ RowAt(m, StoredPlace(m, length, k)) = k \div length
<1> DEFINE r == k \div length
           o == k % length
           p == StoredPlace(m, length, k)
<1>1. r \in Rows(m) /\ o \in Nat
  BY EntriesAre, PositionsAre DEF Rows
<1>2. o < RowLength(m, r) /\ p = RowStart(m, r) + o + 1
  BY DEF IsStored, StoredPlace
<1> HIDE DEF r, o, p
<1>3. /\ RowStart(m, r) \in Nat /\ RowStart(m, r + 1) \in Nat
      /\ RowStart(m, r + 1) = RowStart(m, r) + RowLength(m, r) /\ RowLength(m, r) \in Nat
      /\ RowStart(m, r + 1) <= Len(m.entries)
  BY <1>1, RowPlaces, RowLengthIs
<1>4. RowStart(m, r) < p /\ p <= RowStart(m, r + 1) /\ p \in Nat
  BY <1>1, <1>2, <1>3
<1>5. p \in DOMAIN m.entries
  <2>1. DOMAIN m.entries = 1 .. Len(m.entries) /\ Len(m.entries) \in Nat
    BY EntriesAre
  <2>2. QED
    BY <1>3, <1>4, <2>1
<1>6. QED
  BY <1>1, <1>4, <1>5, RowOfPlace DEF r, p

\* Padding refers to no column where it is skipped, else to one there is or to
\* the one given.
LEMMA PaddingColumnIs ==
  ASSUME NEW m, IsMatrix(m), NEW r \in Rows(m), NEW none
  PROVE  /\ PaddingColumn(m, r, TRUE, none) = NoColumn
         /\ PaddingColumn(m, r, FALSE, none) \in {none} \cup 0 .. m.columns - 1
<1>1. RowStart(m, r + 1) \in Nat /\ RowStart(m, r + 1) <= Len(m.entries)
  BY RowPlaces
<1>2. DOMAIN m.entries = 1 .. Len(m.entries) /\ Len(m.entries) \in Nat /\ m.columns \in Nat
  BY EntriesAre
<1>3. ASSUME RowStart(m, r + 1) # 0
      PROVE  SortRowMajor(m)[RowStart(m, r + 1)].j - 1 \in 0 .. m.columns - 1
  <2>1. RowStart(m, r + 1) \in DOMAIN m.entries
    BY <1>1, <1>2, <1>3
  <2> DEFINE p == RowStart(m, r + 1)
             j == SortRowMajor(m)[p].j
  <2> HIDE DEF p
  <2>2. j \in 1 .. m.columns
    BY <2>1, SortedFacts DEF p
  <2> HIDE DEF j
  <2>3. j - 1 \in 0 .. m.columns - 1
    BY <1>2, <2>2
  <2>4. QED
    BY <2>3 DEF j, p
<1>4. QED
  BY <1>3 DEF PaddingColumn

\* The arrays of an ELL matrix (from_matrix_market): the first entries of each
\* row at the positions of the row, and zeros at the others, whichever column
\* these refer to.
THEOREM PaddedIs ==
  ASSUME NEW m, IsMatrix(m), NEW length \in Nat, NEW skip, NEW none
  PROVE  LET P == Padded(m, length, skip, none)
             K == 0 .. (m.rows * length) - 1 IN
         /\ P.row_length = length /\ DOMAIN P.column_index = K /\ DOMAIN P.value = K
         /\ \A k \in K : IsStored(m, length, k) =>
              /\ P.column_index[k] = SortRowMajor(m)[StoredPlace(m, length, k)].j - 1
              /\ P.value[k] = SortRowMajor(m)[StoredPlace(m, length, k)].a
         /\ \A k \in K : ~ IsStored(m, length, k) =>
              /\ P.column_index[k] = PaddingColumn(m, k \div length, skip, none)
              /\ P.value[k] = 0
<1> DEFINE P == Padded(m, length, skip, none)
           K == 0 .. (m.rows * length) - 1
           row == [k \in K |-> k \div length]
           stored == [k \in K |-> k % length < RowLength(m, row[k])]
           columns == [k \in K |-> IF stored[k] THEN Entry(m, row[k], k % length).j - 1
                                   ELSE PaddingColumn(m, row[k], skip, none)]
           values == [k \in K |-> IF stored[k] THEN Entry(m, row[k], k % length).a ELSE 0]
<1>1. P.row_length = length /\ P.column_index = columns /\ P.value = values
  BY DEF Padded
<1>2. \A k \in K : /\ row[k] = k \div length /\ stored[k] = IsStored(m, length, k)
                   /\ Entry(m, row[k], k % length) = SortRowMajor(m)[StoredPlace(m, length, k)]
  BY DEF IsStored, StoredPlace, Entry
<1> HIDE DEF P, K, row, stored
<1>3. \A k \in K : /\ stored[k] => /\ columns[k] = Entry(m, row[k], k % length).j - 1
                                   /\ values[k] = Entry(m, row[k], k % length).a
                   /\ ~ stored[k] => /\ columns[k] = PaddingColumn(m, row[k], skip, none)
                                     /\ values[k] = 0
  OBVIOUS
<1>4. DOMAIN columns = K /\ DOMAIN values = K
  OBVIOUS
<1> HIDE DEF columns, values
<1>5. QED
  BY <1>1, <1>2, <1>3, <1>4 DEF P, K

\* Ascending lists each number once.
LEMMA AscendingIs ==
  ASSUME NEW S \in SUBSET Int, IsFiniteSet(S)
  PROVE  /\ Cardinality(S) \in Nat /\ DOMAIN Ascending(S) = 1 .. Cardinality(S)
         /\ Ascending(S) \in Bijection(1 .. Cardinality(S), S)
<1> DEFINE n == Cardinality(S)
           f == Ascending(S)
           rank(k) == Cardinality({l \in S : l < k})
<1>1. n \in Nat
  BY FS_CardinalityType
<1>2. f = [p \in 1 .. n |-> CHOOSE k \in S : rank(k) = p - 1]
  BY DEF Ascending
<1>3. \A p \in 1 .. n : f[p] \in S /\ rank(f[p]) = p - 1
  BY AscendingIsIn
<1> HIDE DEF n, f, rank
<1>4. f \in [1 .. n -> S] /\ DOMAIN f = 1 .. n
  BY <1>2, <1>3
<1>5. \A p, q \in 1 .. n : f[p] = f[q] => p = q
  <2>1. ASSUME NEW p \in 1 .. n, NEW q \in 1 .. n, f[p] = f[q]
        PROVE  p = q
    <3>1. p - 1 = q - 1
      BY <1>3, <2>1
    <3>2. QED
      BY <1>1, <3>1
  <2>2. QED
    BY <2>1
<1>6. f \in Injection(1 .. n, S)
  BY <1>4, <1>5 DEF Injection, IsInjective
<1>7. IsFiniteSet(1 .. n) /\ Cardinality(1 .. n) = n
  <2>1. 1 \in Int /\ n \in Int
    BY <1>1
  <2>2. IsFiniteSet(1 .. n) /\ Cardinality(1 .. n) = IF 1 > n THEN 0 ELSE n - 1 + 1
    BY <2>1, FS_Interval
  <2>3. QED
    BY <1>1, <2>2
<1>8. f \in Surjection(1 .. n, S)
  <2>1. Cardinality(S) = n
    BY DEF n
  <2>2. QED
    BY <1>6, <1>7, <2>1, FS_Injection
<1>9. QED
  BY <1>1, <1>4, <1>6, <1>8 DEF n, f, Bijection

-----------------------------------------------------------------------------
(* Hybrid matrices: the entries that do not fit the rows *)

\* The places of the sorted entries that a hybrid matrix keeps as coordinates.
Spilled(m) == {p \in DOMAIN m.entries : Spills(m, p)}

\* How many numbers there are from a to b.
LEMMA IntervalSize ==
  ASSUME NEW a \in Int, NEW b \in Int
  PROVE  /\ IsFiniteSet(a .. b)
         /\ a <= b + 1 => Cardinality(a .. b) = (b - a) + 1
         /\ b < a => Cardinality(a .. b) = 0
<1>1. IsFiniteSet(a .. b) /\ Cardinality(a .. b) = IF a > b THEN 0 ELSE b - a + 1
  BY FS_Interval
<1> DEFINE c == Cardinality(a .. b)
<1> HIDE DEF c
<1>2. c = IF a > b THEN 0 ELSE b - a + 1
  BY <1>1 DEF c
<1>3. (a <= b + 1 => c = (b - a) + 1) /\ (b < a => c = 0)
  BY <1>2
<1>4. QED
  BY <1>1, <1>3 DEF c

\* The entries of a row that spill are those behind EllRowLength.
LEMMA SpilledOfRow ==
  ASSUME NEW m, IsMatrix(m), NEW r \in Rows(m)
  PROVE  LET mine == {p \in Spilled(m) : RowAt(m, p) = r} IN
         /\ IsFiniteSet(mine) /\ Cardinality(mine) = Max({0, RowLength(m, r) - EllRowLength(m)})
         /\ mine = RowStart(m, r) + EllRowLength(m) + 1 .. RowStart(m, r + 1)
<1> DEFINE D == DOMAIN m.entries
           a == RowStart(m, r)
           b == RowStart(m, r + 1)
           length == RowLength(m, r)
           limit == EllRowLength(m)
           mine == {p \in Spilled(m) : RowAt(m, p) = r}
           places == {p \in D : RowAt(m, p) = r}
<1>1. /\ a \in Nat /\ b \in Nat /\ a <= b /\ places = a + 1 .. b
      /\ length \in Nat /\ b = a + length
  BY RowPlaces, RowLengthIs
<1>2. limit \in Nat
  BY LengthsAre
<1>3. \A p \in places : Spills(m, p) <=> p - a > limit
  BY DEF Spills, InRow, RowAt
<1>4. mine = {p \in places : Spills(m, p)}
  BY DEF Spilled
<1> HIDE DEF a, b, length, limit, places, mine
<1>5. mine = a + limit + 1 .. b
  BY <1>1, <1>2, <1>3, <1>4
<1> DEFINE over == length - limit
           both == {0, over}
<1>6. Max(both) = IF over > 0 THEN over ELSE 0
  <2>1. over \in Int
    BY <1>1, <1>2
  <2> HIDE DEF over
  <2>2. both \in SUBSET Int /\ IsFiniteSet(both) /\ both # {}
    <3>1. IsFiniteSet({0}) /\ {0} \cup {over} = both
      BY FS_Singleton
    <3>2. IsFiniteSet({0} \cup {over})
      BY <3>1, FS_AddElement
    <3>3. QED
      BY <2>1, <3>1, <3>2
  <2>3. Max(both) \in both /\ \A k \in both : k <= Max(both)
    BY <2>2, LargestIs
  <2>4. QED
    BY <2>1, <2>3
<1>7. /\ IsFiniteSet(mine)
      /\ Cardinality(mine) = IF over > 0 THEN over ELSE 0
  <2>1. a + limit + 1 \in Int /\ b \in Int /\ (b - (a + limit + 1)) + 1 = over
    BY <1>1, <1>2
  <2>2. over > 0 => a + limit + 1 <= b + 1
    BY <1>1, <1>2
  <2>3. ~ (over > 0) => b < a + limit + 1
    BY <1>1, <1>2
  <2> HIDE DEF over
  <2>4. IsFiniteSet(a + limit + 1 .. b)
    BY <2>1, IntervalSize
  <2>5. over > 0 => Cardinality(a + limit + 1 .. b) = (b - (a + limit + 1)) + 1
    BY <2>1, <2>2, IntervalSize
  <2>6. ~ (over > 0) => Cardinality(a + limit + 1 .. b) = 0
    BY <2>1, <2>3, IntervalSize
  <2>7. QED
    BY <1>5, <2>1, <2>4, <2>5, <2>6
<1>8. QED
  BY <1>5, <1>6, <1>7 DEF a, b, length, limit, mine

\* The histogram of from_matrix_market counts just the entries that its second
\* loop keeps as coordinates: the COO part is neither too short nor too long.
THEOREM NumCooEntriesIs ==
  ASSUME NEW m, IsMatrix(m)
  PROVE  IsFiniteSet(Spilled(m)) /\ NumCooEntries(m) = Cardinality(Spilled(m))
<1> DEFINE S == Spilled(m)
           row(p) == RowAt(m, p)
           R == m.rows
           f == [r \in Rows(m) |-> Max({0, RowLength(m, r) - EllRowLength(m)})]
           sum(n) == SumFunctionOnSet(f, 0 .. n - 1)
           before(n) == {p \in S : row(p) < n}
           G == {n \in 0 .. R : Cardinality(before(n)) = sum(n)}
<1>1. IsFiniteSet(S) /\ \A p \in S : row(p) \in 0 .. R - 1
  <2>1. S \in SUBSET DOMAIN m.entries
    BY DEF Spilled
  <2>2. IsFiniteSet(DOMAIN m.entries)
    BY EntriesAre
  <2>3. \A p \in DOMAIN m.entries : row(p) \in Rows(m)
    BY SortedFacts
  <2> HIDE DEF S, row
  <2>4. QED
    BY <2>1, <2>2, <2>3, FS_Subset DEF Rows
<1>2. R \in Nat /\ Rows(m) = 0 .. R - 1
  BY EntriesAre DEF Rows
<1>3. \A r \in 0 .. R - 1 : LET mine == {p \in S : row(p) = r} IN
        IsFiniteSet(mine) /\ f[r] = Cardinality(mine)
  <2>1. ASSUME NEW r \in Rows(m)
        PROVE  LET mine == {p \in S : row(p) = r} IN
               IsFiniteSet(mine) /\ f[r] = Cardinality(mine)
    <3>1. f[r] = Max({0, RowLength(m, r) - EllRowLength(m)})
      OBVIOUS
    <3> HIDE DEF f
    <3>2. QED
      BY <3>1, SpilledOfRow
  <2> HIDE DEF f, S, row
  <2>2. QED
    BY <1>2, <2>1
<1>4. NumCooEntries(m) = sum(R)
  BY <1>2, Zenon DEF NumCooEntries, SumFunction
<1> HIDE DEF S, row, R, f
<1>5. 0 \in G
  <2>1. before(0) = {} /\ 0 .. 0 - 1 = {}
    BY <1>1
  <2>2. Cardinality(before(0)) = 0 /\ sum(0) = 0
    BY <2>1, FS_EmptySet, SumOfNone
  <2>3. QED
    BY <1>2, <2>2
<1>6. ASSUME NEW n \in 0 .. R - 1, n \in G
      PROVE  n + 1 \in G
  <2> DEFINE mine == {p \in S : row(p) = n}
             early == before(n)
  <2>1. before(n + 1) = early \cup mine /\ early \cap mine = {}
    BY <1>1
  <2>2. /\ IsFiniteSet(early) /\ IsFiniteSet(mine) /\ f[n] = Cardinality(mine)
        /\ Cardinality(early) \in Nat /\ Cardinality(mine) \in Nat
    <3>1. early \in SUBSET S /\ IsFiniteSet(mine) /\ f[n] = Cardinality(mine)
      BY <1>3
    <3> HIDE DEF early, mine
    <3>2. QED
      BY <1>1, <3>1, FS_Subset, FS_CardinalityType
  <2>3. Cardinality(early) = sum(n)
    BY <1>6
  <2>4. sum(n + 1) = sum(n) + f[n]
    <3>1. 0 .. (n + 1) - 1 = (0 .. n - 1) \cup {n} /\ n \notin 0 .. n - 1
      BY <1>2
    <3>2. \A r \in (0 .. n - 1) \cup {n} : f[r] \in Int
      <4>1. \A r \in 0 .. R - 1 : f[r] \in Int
        <5>1. ASSUME NEW r \in 0 .. R - 1
              PROVE  f[r] \in Int
          <6> DEFINE own == {p \in S : row(p) = r}
          <6>1. IsFiniteSet(own) /\ f[r] = Cardinality(own)
            BY <1>3
          <6> HIDE DEF own
          <6>2. Cardinality(own) \in Nat
            BY <6>1, FS_CardinalityType
          <6>3. QED
            BY <6>1, <6>2
        <5>2. QED
          BY <5>1
      <4>2. \A r \in (0 .. n - 1) \cup {n} : r \in 0 .. R - 1
        BY <1>2
      <4>3. QED
        BY <4>1, <4>2
    <3>3. IsFiniteSet(0 .. n - 1)
      BY <1>2, IntervalSize
    <3>4. QED
      BY <3>1, <3>2, <3>3, SumWith
  <2> HIDE DEF before, mine, early, sum
  <2>5. Cardinality(early \cup mine) = Cardinality(early) + Cardinality(mine)
    <3>1. Cardinality(early \cup mine) =
            Cardinality(early) + Cardinality(mine) - Cardinality(early \cap mine)
      BY <2>2, FS_Union
    <3>2. Cardinality(early \cap mine) = 0
      BY <2>1, FS_EmptySet
    <3> DEFINE b == Cardinality(early)
               c == Cardinality(mine)
    <3> HIDE DEF b, c
    <3>3. Cardinality(early \cup mine) = b + c - 0 /\ b \in Nat /\ c \in Nat
      BY <2>2, <3>1, <3>2 DEF b, c
    <3>4. Cardinality(early \cup mine) = b + c
      BY <3>3
    <3>5. QED
      BY <3>4 DEF b, c
  <2>6. n + 1 \in 0 .. R
    BY <1>2
  <2>7. Cardinality(before(n + 1)) = sum(n + 1)
    BY <2>1, <2>2, <2>3, <2>4, <2>5
  <2>8. QED
    BY <2>6, <2>7
<1>7. Cardinality(before(R)) = sum(R)
  <2>1. \A n \in 0 .. R : n \in G
    <3> HIDE DEF G
    <3>1. QED
      BY <1>2, <1>5, <1>6, UpTo
  <2>2. QED
    BY <1>2, <2>1
<1>8. before(R) = S
  BY <1>1, <1>2
<1>9. QED
  BY <1>1, <1>4, <1>7, <1>8 DEF S

\* Those entries in their order.
LEMMA SpilledIs ==
  ASSUME NEW m, IsMatrix(m)
  PROVE  LET rest == Ascending(Spilled(m)) IN
         /\ Cardinality(Spilled(m)) \in Nat /\ Spilled(m) \in SUBSET DOMAIN m.entries
         /\ DOMAIN rest = 1 .. Cardinality(Spilled(m))
         /\ rest \in Bijection(1 .. Cardinality(Spilled(m)), Spilled(m))
<1>1. Spilled(m) \in SUBSET DOMAIN m.entries
  BY DEF Spilled
<1>2. Spilled(m) \in SUBSET Int
  BY <1>1, EntriesAre
<1>3. IsFiniteSet(Spilled(m))
  BY NumCooEntriesIs
<1>4. QED
  BY <1>1, <1>2, <1>3, AscendingIs

\* The parts of a hybrid matrix: ELL rows, and the entries that do not fit
\* them as coordinates, in their order.
THEOREM HybridIs ==
  ASSUME NEW m, IsMatrix(m), NEW skip
  PROVE  LET H == HybridOf(m, skip)
             n == Cardinality(Spilled(m))
             rest == Ascending(Spilled(m))
             s == SortRowMajor(m) IN
         /\ H.ell = Padded(m, EllRowLength(m), skip, 0)
         /\ H.coo = [size         |-> n,
                     row_index    |-> [k \in 0 .. n - 1 |-> RowAt(m, rest[k + 1])],
                     column_index |-> [k \in 0 .. n - 1 |-> s[rest[k + 1]].j - 1],
                     value        |-> [k \in 0 .. n - 1 |-> s[rest[k + 1]].a]]
<1> DEFINE H == HybridOf(m, skip)
           n == Cardinality(Spilled(m))
           rest == Ascending(Spilled(m))
           s == SortRowMajor(m)
           entries == [k \in DOMAIN rest |-> s[rest[k]]]
           kept == [m EXCEPT !.entries = entries]
<1>1. H.ell = Padded(m, EllRowLength(m), skip, 0) /\ H.coo = CooOf(kept)
  BY DEF HybridOf, Spilled
<1>2. kept.entries = entries
  BY DEF IsMatrix
<1>3. n \in Nat /\ DOMAIN rest = 1 .. n
  BY SpilledIs
<1> HIDE DEF n, rest, s, kept
<1>4. Len(entries) = n /\ entries \in Seq({entries[k] : k \in 1 .. n})
  <2>1. entries \in [1 .. n -> {entries[k] : k \in 1 .. n}]
    BY <1>3
  <2> HIDE DEF entries
  <2>2. QED
    BY <1>3, <2>1
<1>5. \A k \in 0 .. n - 1 : entries[k + 1] = s[rest[k + 1]]
  BY <1>3
<1> HIDE DEF entries
<1>6. CooOf(kept) = [size         |-> n,
                     row_index    |-> [k \in 0 .. n - 1 |-> entries[k + 1].i - 1],
                     column_index |-> [k \in 0 .. n - 1 |-> entries[k + 1].j - 1],
                     value        |-> [k \in 0 .. n - 1 |-> entries[k + 1].a]]
  BY <1>2, <1>4 DEF CooOf
<1>7. \A k \in 0 .. n - 1 : entries[k + 1].i - 1 = RowAt(m, rest[k + 1])
  BY <1>5 DEF RowAt, s
<1>8. QED
  BY <1>1, <1>5, <1>6, <1>7 DEF n, rest, s

-----------------------------------------------------------------------------
(* The entries of a column *)

\* The entries of a column, by their places in the sorted sequence.
InColumn(m, j) == {p \in DOMAIN m.entries : SortRowMajor(m)[p].j - 1 = j}

\* Subsets that a bijection takes to each other have equally many elements.
LEMMA SameNumber ==
  ASSUME NEW U, NEW V, NEW b \in Bijection(U, V), NEW S \in SUBSET U, IsFiniteSet(S),
         NEW T \in SUBSET V, \A u \in U : (u \in S <=> b[u] \in T)
  PROVE  IsFiniteSet(T) /\ Cardinality(T) = Cardinality(S)
<1> DEFINE f == [u \in S |-> b[u]]
<1>1. /\ \A u \in U : b[u] \in V
      /\ \A u, v \in U : b[u] = b[v] => u = v
      /\ \A v \in V : \E u \in U : b[u] = v
  BY DEF Bijection, Injection, Surjection, IsInjective
<1>2. \A u \in S : f[u] = b[u] /\ f[u] \in T
  OBVIOUS
<1>3. f \in [S -> T]
  BY <1>2
<1>4. \A v \in T : \E u \in S : f[u] = v
  <2> SUFFICES ASSUME NEW v \in T PROVE \E u \in S : f[u] = v
    OBVIOUS
  <2>1. PICK u \in U : b[u] = v
    BY <1>1
  <2>2. u \in S
    BY <2>1
  <2>3. QED
    BY <1>2, <2>1, <2>2
<1>5. \A u, v \in S : f[u] = f[v] => u = v
  BY <1>1, <1>2
<1> HIDE DEF f
<1>6. f \in Bijection(S, T)
  BY <1>3, <1>4, <1>5 DEF Bijection, Injection, Surjection, IsInjective
<1>7. QED
  BY <1>6, FS_Bijection DEF ExistsBijection

\* Numbers counted from 0 or from 1.
LEMMA Shifted ==
  ASSUME NEW n \in Nat, NEW S \in SUBSET (1 .. n)
  PROVE  /\ IsFiniteSet(S) /\ IsFiniteSet({k \in 0 .. n - 1 : k + 1 \in S})
         /\ Cardinality({k \in 0 .. n - 1 : k + 1 \in S}) = Cardinality(S)
<1> DEFINE U == 0 .. n - 1
           V == 1 .. n
           f == [k \in U |-> k + 1]
           T == {k \in U : k + 1 \in S}
<1>1. \A k \in U : f[k] = k + 1 /\ f[k] \in V /\ k \in Int
  OBVIOUS
<1>2. \A p \in V : \E k \in U : f[k] = p
  <2> SUFFICES ASSUME NEW p \in V PROVE \E k \in U : f[k] = p
    OBVIOUS
  <2>1. p - 1 \in U /\ (p - 1) + 1 = p
    OBVIOUS
  <2>2. QED
    BY <1>1, <2>1
<1>3. IsFiniteSet(U)
  BY IntervalSize
<1>4. \A k \in U : (k \in T <=> f[k] \in S)
  BY <1>1
<1>5. T \in SUBSET U /\ S \in SUBSET V
  OBVIOUS
<1> HIDE DEF U, V
<1>6. f \in [U -> V]
  BY <1>1
<1> HIDE DEF f
<1>7. \A k, l \in U : f[k] = f[l] => k = l
  BY <1>1
<1>8. f \in Bijection(U, V)
  BY <1>6, <1>2, <1>7 DEF Bijection, Injection, Surjection, IsInjective
<1> HIDE DEF T
<1>9. IsFiniteSet(T)
  BY <1>3, <1>5, FS_Subset
<1>10. IsFiniteSet(S) /\ Cardinality(S) = Cardinality(T)
  <2>1. \A W \in SUBSET U : IsFiniteSet(W) => \A X \in SUBSET V :
          (\A k \in U : (k \in W <=> f[k] \in X))
            => IsFiniteSet(X) /\ Cardinality(X) = Cardinality(W)
    BY <1>8, SameNumber
  <2>2. QED
    BY <1>4, <1>9, <1>5, <2>1
<1>11. QED
  BY <1>9, <1>10 DEF T, U

\* Sorting leaves the number of entries of a column.
LEMMA ColumnIs ==
  ASSUME NEW m, IsMatrix(m), NEW j
  PROVE  /\ IsFiniteSet(InColumn(m, j)) /\ InColumn(m, j) \in SUBSET DOMAIN m.entries
         /\ Cardinality(InColumn(m, j)) = Cardinality({k \in DOMAIN m.entries : m.entries[k].j - 1 = j})
<1> DEFINE D == DOMAIN m.entries
           T == {k \in D : m.entries[k].j - 1 = j}
           S == InColumn(m, j)
           b == Placed(m)
<1>1. IsFiniteSet(D) /\ b \in Bijection(D, D)
  BY EntriesAre, PlacedPermutes
<1>2. \A p \in D : SortRowMajor(m)[p] = m.entries[b[p]] /\ b[p] \in D
  BY SortedFacts
<1>3. S \in SUBSET D /\ T \in SUBSET D /\ \A p \in D : (p \in S <=> b[p] \in T)
  BY <1>2 DEF InColumn
<1>4. IsFiniteSet(S)
  BY <1>1, <1>3, FS_Subset
<1> HIDE DEF b, S, T, D
<1>5. Cardinality(T) = Cardinality(S)
  BY <1>1, <1>3, <1>4, SameNumber
<1>6. QED
  BY <1>3, <1>4, <1>5 DEF S, T, D

Stored(m, length) == {k \in 0 .. (m.rows * length) - 1 : IsStored(m, length, k)}
Kept(m, length) == {p \in DOMAIN m.entries : InRow(m, p) <= length}

\* The places of an ELL matrix that are not padding hold the first entries of
\* the rows, each in one place.
LEMMA PlacesOfKept ==
  ASSUME NEW m, IsMatrix(m), NEW length \in Nat
  PROVE  [k \in Stored(m, length) |-> StoredPlace(m, length, k)]
           \in Bijection(Stored(m, length), Kept(m, length))
<1> DEFINE S == Stored(m, length)
           K == Kept(m, length)
           f == [k \in S |-> StoredPlace(m, length, k)]
           D == DOMAIN m.entries
           N == m.rows * length
<1>1. m.rows \in Nat /\ \A r \in Rows(m) : r \in 0 .. m.rows - 1 /\ r \in Nat
  BY EntriesAre DEF Rows
<1>2. \A p \in D : InRow(m, p) = p - RowStart(m, RowAt(m, p)) /\ p \in Int
  <2>1. D = 1 .. Len(m.entries) /\ Len(m.entries) \in Nat
    BY EntriesAre
  <2>2. QED
    BY <2>1 DEF InRow, RowAt
<1>3. \A k \in S : /\ k \in 0 .. N - 1 /\ IsStored(m, length, k)
                   /\ k \div length \in Rows(m) /\ k % length \in 0 .. length - 1
                   /\ k = ((k \div length) * length) + (k % length)
  <2> SUFFICES ASSUME NEW k \in S
               PROVE  /\ k \in 0 .. N - 1 /\ IsStored(m, length, k)
                      /\ k \div length \in Rows(m) /\ k % length \in 0 .. length - 1
                      /\ k = ((k \div length) * length) + (k % length)
    OBVIOUS
  <2>1. k \in 0 .. N - 1 /\ IsStored(m, length, k)
    BY DEF Stored
  <2>2. /\ k \div length \in 0 .. m.rows - 1 /\ k % length \in 0 .. length - 1
        /\ k = ((k \div length) * length) + (k % length)
    BY <1>1, <2>1, PositionsAre
  <2>3. QED
    BY <2>1, <2>2 DEF Rows
<1>4. \A k \in S : /\ f[k] \in D /\ RowAt(m, f[k]) = k \div length
                   /\ f[k] = RowStart(m, k \div length) + (k % length) + 1
                   /\ RowStart(m, k \div length) \in Int
  <2> SUFFICES ASSUME NEW k \in S
               PROVE  /\ f[k] \in D /\ RowAt(m, f[k]) = k \div length
                      /\ f[k] = RowStart(m, k \div length) + (k % length) + 1
                      /\ RowStart(m, k \div length) \in Int
    OBVIOUS
  <2>1. f[k] = StoredPlace(m, length, k)
    OBVIOUS
  <2>2. f[k] \in D /\ RowAt(m, f[k]) = k \div length
    BY <1>3, <2>1, StoredIs
  <2>3. RowStart(m, k \div length) \in Int
    BY <1>3, RowPlaces
  <2>4. QED
    BY <2>1, <2>2, <2>3 DEF StoredPlace
<1>5. f \in [S -> K]
  <2>1. ASSUME NEW k \in S
        PROVE  f[k] \in K
    <3> DEFINE r == k \div length
               o == k % length
               s == RowStart(m, r)
               p == f[k]
    <3>1. p \in D /\ RowAt(m, p) = r /\ p = s + o + 1 /\ s \in Int /\ o \in 0 .. length - 1
      BY <1>3, <1>4
    <3>2. InRow(m, p) = p - s
      BY <1>2, <3>1
    <3> HIDE DEF r, o, s, p
    <3>3. InRow(m, p) <= length
      BY <3>1, <3>2
    <3>4. p \in K
      BY <3>1, <3>3 DEF Kept
    <3>5. QED
      BY <3>4 DEF p
  <2>2. QED
    BY <2>1
<1>6. \A k, l \in S : f[k] = f[l] => k = l
  <2> SUFFICES ASSUME NEW k \in S, NEW l \in S, f[k] = f[l] PROVE k = l
    OBVIOUS
  <2> DEFINE r == k \div length
             o == k % length
             q == l % length
             s == RowStart(m, r)
  <2>1. l \div length = r
    BY <1>4
  <2>2. k = r * length + o /\ l = r * length + q
    BY <1>3, <2>1
  <2>3. o \in Int /\ q \in Int /\ s \in Int
    BY <1>3, <1>4
  <2>4. s + o + 1 = s + q + 1
    BY <1>4, <2>1
  <2> HIDE DEF o, q, s, r
  <2>5. o = q
    BY <2>3, <2>4
  <2>6. QED
    BY <2>2, <2>5
<1>7. \A p \in K : \E k \in S : f[k] = p
  <2> SUFFICES ASSUME NEW p \in K PROVE \E k \in S : f[k] = p
    OBVIOUS
  <2> DEFINE r == RowAt(m, p)
             s == RowStart(m, r)
             o == (p - s) - 1
             k == (r * length) + o
  <2>1. p \in D /\ p - s <= length /\ p \in Int
    BY <1>2 DEF Kept
  <2>2. /\ r \in Rows(m) /\ s < p /\ p <= RowStart(m, r + 1) /\ s \in Nat
        /\ RowStart(m, r + 1) = s + RowLength(m, r) /\ RowLength(m, r) \in Nat
    BY <2>1, PlaceOfRow
  <2>3. s = RowStart(m, r)
    OBVIOUS
  <2> HIDE DEF s
  <2>4. o \in 0 .. length - 1 /\ o < RowLength(m, r) /\ s + o + 1 = p
    BY <2>1, <2>2
  <2>5. r \in 0 .. m.rows - 1
    BY <1>1, <2>2
  <2> HIDE DEF r, o
  <2>6. k \in 0 .. N - 1 /\ k \div length = r /\ k % length = o
    <3>1. /\ (r * length) + o \in 0 .. (m.rows * length) - 1
          /\ ((r * length) + o) \div length = r /\ ((r * length) + o) % length = o
      BY <1>1, <2>4, <2>5, PositionIs
    <3>2. QED
      BY <3>1, Zenon
  <2> HIDE DEF k
  <2>7. k \in S
    BY <2>4, <2>6 DEF Stored, IsStored
  <2>8. f[k] = s + o + 1
    BY <1>4, <2>6, <2>7, <2>3
  <2>9. QED
    BY <2>4, <2>7, <2>8
<1> HIDE DEF f, S, K
<1>8. f \in Bijection(S, K)
  BY <1>5, <1>6, <1>7 DEF Bijection, Injection, Surjection, IsInjective
<1>9. QED
  BY <1>8 DEF f, S, K

\* How often a column is stored in an ELL matrix, besides its padding.
LEMMA KeptOfColumn ==
  ASSUME NEW m, IsMatrix(m), NEW length \in Nat, NEW column, NEW j,
         \A k \in Stored(m, length) :
           column[k] = SortRowMajor(m)[StoredPlace(m, length, k)].j - 1,
         NEW U, U = {k \in Stored(m, length) : column[k] = j}
  PROVE  IsFiniteSet(U) /\ Cardinality(U) = Cardinality(Kept(m, length) \cap InColumn(m, j))
<1> DEFINE S == Stored(m, length)
           K == Kept(m, length)
           b == [k \in S |-> StoredPlace(m, length, k)]
           T == K \cap InColumn(m, j)
<1>1. b \in Bijection(S, K)
  BY PlacesOfKept
<1>2. IsFiniteSet(S)
  <2> DEFINE N == m.rows * length
  <2>1. N \in Int
    BY EntriesAre
  <2> HIDE DEF N
  <2>2. IsFiniteSet(0 .. N - 1)
    BY <2>1, FS_Interval
  <2>3. QED
    BY <2>2, FS_Subset DEF Stored, N
<1>3. \A k \in S : b[k] \in K /\ b[k] = StoredPlace(m, length, k)
  BY <1>1 DEF Bijection, Injection
<1>4. K \subseteq DOMAIN m.entries
  BY DEF Kept
<1>5. \A k \in S : (k \in U <=> b[k] \in T)
  BY <1>3, <1>4 DEF InColumn
<1>6. U \in SUBSET S /\ T \in SUBSET K /\ IsFiniteSet(U)
  BY <1>2, FS_Subset
<1> HIDE DEF S, K, b, T
<1>7. Cardinality(T) = Cardinality(U)
  BY <1>1, <1>5, <1>6, SameNumber
<1>8. QED
  BY <1>6, <1>7 DEF K, T

\* Rows as long as the longest hold every entry,
LEMMA LongestKeepsAll ==
  ASSUME NEW m, IsMatrix(m)
  PROVE  Kept(m, MaxRowLength(m)) = DOMAIN m.entries
<1>1. ASSUME NEW p \in DOMAIN m.entries
      PROVE  InRow(m, p) <= MaxRowLength(m)
  <2> DEFINE r == RowAt(m, p)
             s == RowStart(m, r)
  <2>1. /\ r \in Rows(m) /\ s < p /\ p <= RowStart(m, r + 1) /\ s \in Nat
        /\ RowStart(m, r + 1) = s + RowLength(m, r) /\ RowLength(m, r) \in Nat
    BY PlaceOfRow
  <2>2. InRow(m, p) = p - s
    BY DEF InRow, RowAt
  <2>3. RowLength(m, r) <= MaxRowLength(m) /\ MaxRowLength(m) \in Nat
    BY <2>1, LengthsAre
  <2>4. p \in Int
    BY EntriesAre
  <2> HIDE DEF r, s
  <2>5. QED
    BY <2>1, <2>2, <2>3, <2>4
<1>2. QED
  BY <1>1 DEF Kept

\* and rows of a hybrid matrix hold those that do not spill.
LEMMA OthersSpill ==
  ASSUME NEW m, IsMatrix(m)
  PROVE  Kept(m, EllRowLength(m)) = DOMAIN m.entries \ Spilled(m)
<1>1. EllRowLength(m) \in Int
  BY LengthsAre
<1>2. ASSUME NEW p \in DOMAIN m.entries
      PROVE  InRow(m, p) \in Int
  <2>1. RowStart(m, RowAt(m, p)) \in Nat
    BY PlaceOfRow
  <2>2. p \in Int
    BY EntriesAre
  <2>3. QED
    BY <2>1, <2>2 DEF InRow, RowAt
<1>3. QED
  BY <1>1, <1>2 DEF Kept, Spilled, Spills

\* Sums that differ in one number differ by as much.
LEMMA SumWithMore ==
  ASSUME NEW f, NEW g, NEW S, IsFiniteSet(S), NEW a \in S, NEW d \in Int, f[a] = g[a] + d,
         \A s \in S : f[s] \in Int /\ g[s] \in Int,
         \A s \in S \ {a} : f[s] = g[s]
  PROVE  SumFunctionOnSet(f, S) = SumFunctionOnSet(g, S) + d
<1> DEFINE left == SumFunctionOnSet(g, S \ {a})
<1>1. IsFiniteSet(S \ {a})
  BY FS_RemoveElement
<1>2. SumFunctionOnSet(f, S) = f[a] + SumFunctionOnSet(f, S \ {a})
  BY SumWithout
<1>3. SumFunctionOnSet(g, S) = g[a] + SumFunctionOnSet(g, S \ {a})
  BY SumWithout
<1>4. SumFunctionOnSet(f, S \ {a}) = left
  BY <1>1, SumOfSame
<1>5. left \in Int
  BY <1>1, SumIsInt
<1> HIDE DEF left
<1>6. SumFunctionOnSet(f, S) = (g[a] + d) + left /\ SumFunctionOnSet(g, S) = g[a] + left
  BY <1>2, <1>3, <1>4 DEF left
<1>7. (g[a] + d) + left = (g[a] + left) + d
  BY <1>5
<1>8. QED
  BY <1>6, <1>7

\* A sum of multiples is the multiple of the sum.
LEMMA SumOfMultiples ==
  ASSUME NEW f, NEW g, NEW S, IsFiniteSet(S), NEW c \in Int,
         \A s \in S : g[s] \in Int /\ f[s] = c * g[s]
  PROVE  SumFunctionOnSet(f, S) = c * SumFunctionOnSet(g, S)
<1> DEFINE G == {T \in SUBSET S : SumFunctionOnSet(f, T) = c * SumFunctionOnSet(g, T)}
<1>1. {} \in G
  BY SumOfNone
<1>2. ASSUME NEW T \in SUBSET S, NEW a \in S \ T, T \in G
      PROVE  T \cup {a} \in G
  <2> DEFINE old == SumFunctionOnSet(g, T)
  <2>1. IsFiniteSet(T) /\ \A s \in S : f[s] \in Int
    BY FS_Subset
  <2>2. /\ SumFunctionOnSet(f, T \cup {a}) = SumFunctionOnSet(f, T) + f[a]
        /\ SumFunctionOnSet(g, T \cup {a}) = old + g[a]
    BY <2>1, SumWith
  <2>3. old \in Int
    BY <2>1, SumIsInt
  <2>4. SumFunctionOnSet(f, T) = c * old
    BY <1>2
  <2> HIDE DEF old
  <2>5. (c * old) + (c * g[a]) = c * (old + g[a])
    BY <2>3
  <2>6. QED
    BY <2>2, <2>4, <2>5
<1>3. S \in G
  <2> HIDE DEF G
  <2>1. QED
    BY <1>1, <1>2, SetsGrow
<1>4. QED
  BY <1>3

\* A sum of sums is the sum of the sums.
LEMMA SumOfSums ==
  ASSUME NEW f, NEW g, NEW h, NEW S, IsFiniteSet(S),
         \A s \in S : g[s] \in Int /\ h[s] \in Int /\ f[s] = g[s] + h[s]
  PROVE  SumFunctionOnSet(f, S) = SumFunctionOnSet(g, S) + SumFunctionOnSet(h, S)
<1> DEFINE sum(e, T) == SumFunctionOnSet(e, T)
           G == {T \in SUBSET S : sum(f, T) = sum(g, T) + sum(h, T)}
<1>1. {} \in G
  BY SumOfNone
<1>2. ASSUME NEW T \in SUBSET S, NEW a \in S \ T, T \in G
      PROVE  T \cup {a} \in G
  <2>1. IsFiniteSet(T) /\ \A s \in S : f[s] \in Int
    BY FS_Subset
  <2>2. /\ sum(f, T \cup {a}) = sum(f, T) + f[a]
        /\ sum(g, T \cup {a}) = sum(g, T) + g[a]
        /\ sum(h, T \cup {a}) = sum(h, T) + h[a]
    BY <2>1, SumWith
  <2>3. sum(g, T) \in Int /\ sum(h, T) \in Int
    BY <2>1, SumIsInt
  <2>4. sum(f, T) = sum(g, T) + sum(h, T)
    BY <1>2
  <2> HIDE DEF sum
  <2>5. sum(f, T \cup {a}) = sum(g, T \cup {a}) + sum(h, T \cup {a})
    BY <2>2, <2>3, <2>4
  <2>6. QED
    BY <2>5
<1>3. S \in G
  <2> HIDE DEF G
  <2>1. QED
    BY <1>1, <1>2, SetsGrow
<1>4. QED
  BY <1>3

\* The parts of a sum by the values of key, and the sum.
PartsByKey(f, N, S, key) == [k \in S |-> SumFunctionOnSet(f, {n \in N : key[n] = k})]

LEMMA SumByKey ==
  ASSUME NEW f, NEW N, IsFiniteSet(N), NEW S, IsFiniteSet(S), NEW key \in [N -> S],
         \A n \in N : f[n] \in Int
  PROVE  SumFunctionOnSet(f, N) = SumFunctionOnSet(PartsByKey(f, N, S, key), S)
<1> DEFINE part(T, k) == {n \in T : key[n] = k}
           parts(T) == [k \in S |-> SumFunctionOnSet(f, part(T, k))]
           G == {T \in SUBSET N : SumFunctionOnSet(f, T) = SumFunctionOnSet(parts(T), S)}
<1>1. {} \in G
  <2>1. \A k \in S : parts({})[k] = 0
    <3>1. \A k \in S : part({}, k) = {}
      OBVIOUS
    <3> HIDE DEF part
    <3>2. QED
      BY <3>1, SumOfNone
  <2> HIDE DEF parts
  <2>2. SumFunctionOnSet(parts({}), S) = 0
    BY <2>1, SumOfZeros
  <2>3. QED
    BY <2>2, SumOfNone
<1>2. ASSUME NEW T \in SUBSET N, NEW a \in N \ T, T \in G
      PROVE  T \cup {a} \in G
  <2> DEFINE U == T \cup {a}
             old == parts(T)
             new == parts(U)
  <2>1. IsFiniteSet(T) /\ IsFiniteSet(U)
    BY FS_Subset
  <2>2. \A k \in S : IsFiniteSet(part(T, k)) /\ IsFiniteSet(part(U, k))
    BY <2>1, FS_Subset
  <2>3. \A k \in S : old[k] \in Int /\ new[k] \in Int
    <3>1. ASSUME NEW k \in S
          PROVE  SumFunctionOnSet(f, part(T, k)) \in Int /\ SumFunctionOnSet(f, part(U, k)) \in Int
      <4>1. (\A n \in part(T, k) : f[n] \in Int) /\ (\A n \in part(U, k) : f[n] \in Int)
        OBVIOUS
      <4> HIDE DEF part, U
      <4>2. QED
        BY <2>2, <4>1, SumIsInt
    <3> HIDE DEF part, U
    <3>2. QED
      BY <3>1
  <2>4. ASSUME NEW k \in S \ {key[a]}
        PROVE  new[k] = old[k]
    <3>1. part(U, k) = part(T, k)
      OBVIOUS
    <3> HIDE DEF part, U
    <3>2. QED
      BY <3>1
  <2>5. key[a] \in S /\ new[key[a]] = old[key[a]] + f[a]
    <3> DEFINE P == part(T, key[a])
    <3>1. key[a] \in S
      OBVIOUS
    <3>2. part(U, key[a]) = P \cup {a} /\ a \notin P /\ \A n \in P \cup {a} : f[n] \in Int
      OBVIOUS
    <3>3. IsFiniteSet(P)
      BY <2>2, <3>1
    <3> HIDE DEF U, part, P
    <3>4. SumFunctionOnSet(f, P \cup {a}) = SumFunctionOnSet(f, P) + f[a]
      BY <3>2, <3>3, SumWith
    <3>5. QED
      BY <3>1, <3>2, <3>4 DEF P
  <2>6. SumFunctionOnSet(f, U) = SumFunctionOnSet(f, T) + f[a]
    BY <2>1, SumWith
  <2>7. SumFunctionOnSet(f, T) = SumFunctionOnSet(old, S)
    BY <1>2
  <2>8. f[a] \in Int
    OBVIOUS
  <2> HIDE DEF old, new, parts
  <2>9. SumFunctionOnSet(new, S) = SumFunctionOnSet(old, S) + f[a]
    BY <2>3, <2>4, <2>5, <2>8, SumWithMore
  <2>10. SumFunctionOnSet(f, U) = SumFunctionOnSet(parts(U), S)
    BY <2>6, <2>7, <2>9 DEF new
  <2>11. QED
    BY <2>10
<1>3. N \in G
  <2> HIDE DEF G
  <2>1. QED
    BY <1>1, <1>2, SetsGrow
<1>4. parts(N) = PartsByKey(f, N, S, key)
  BY DEF PartsByKey
<1> HIDE DEF parts
<1>5. QED
  BY <1>3, <1>4

\* Shares of N that have each element once, and a sum over them.
IsShared(share, T, N) ==
  /\ share \in [T -> SUBSET N]
  /\ \A n \in N : \E t \in T : n \in share[t]
  /\ \A t, u \in T : t # u => share[t] \cap share[u] = {}

SharesOf(f, share, T) == [t \in T |-> SumFunctionOnSet(f, share[t])]

LEMMA SumOfShares ==
  ASSUME NEW f, NEW N, IsFiniteSet(N), NEW T, IsFiniteSet(T), NEW share, IsShared(share, T, N),
         \A n \in N : f[n] \in Int
  PROVE  SumFunctionOnSet(SharesOf(f, share, T), T) = SumFunctionOnSet(f, N)
<1> DEFINE key == [n \in N |-> CHOOSE t \in T : n \in share[t]]
<1>1. \A n \in N : key[n] \in T /\ n \in share[key[n]]
  BY DEF IsShared
<1>2. key \in [N -> T]
  BY <1>1
<1> HIDE DEF key
<1>3. \A t \in T : {n \in N : key[n] = t} = share[t]
  BY <1>1 DEF IsShared
<1>4. PartsByKey(f, N, T, key) = SharesOf(f, share, T)
  BY <1>3 DEF PartsByKey, SharesOf
<1>5. SumFunctionOnSet(f, N) = SumFunctionOnSet(PartsByKey(f, N, T, key), T)
  BY <1>2, SumByKey
<1>6. QED
  BY <1>4, <1>5

\* The updates of a loop: which of its iterations the n-th one is of.
LEMMA PlaceOfUpdate ==
  ASSUME NEW S \in SUBSET Int, IsFiniteSet(S), NEW w \in Nat \ {0},
         NEW n \in 1 .. w * Cardinality(S)
  PROVE  /\ Ascending(S)[((n - 1) \div w) + 1] \in S
         /\ ((n - 1) % w) + 1 \in 1 .. w
<1> DEFINE c == Cardinality(S)
           q == (n - 1) \div w
           r == (n - 1) % w
<1>1. c \in Nat
  BY FS_CardinalityType
<1> HIDE DEF c
<1>2. n - 1 \in Nat /\ n - 1 < w * c
  BY <1>1 DEF c
<1>3. q \in Nat /\ r \in 0 .. w - 1 /\ n - 1 = w * q + r
  BY <1>2
<1> HIDE DEF q, r
<1>4. q < c
  <2>1. w * q < w * c
    BY <1>1, <1>2, <1>3
  <2>2. q >= c => w * q >= w * c
    BY <1>1, <1>3
  <2>3. QED
    BY <1>1, <1>3, <2>1, <2>2
<1>5. q + 1 \in 1 .. Cardinality(S)
  BY <1>1, <1>3, <1>4 DEF c
<1> DEFINE i == q + 1
           At(k) == Ascending(S)[k] \in S /\ Cardinality({l \in S : l < Ascending(S)[k]}) = k - 1
<1> HIDE DEF i, At
<1>6. At(i)
  BY <1>5, AscendingIsIn DEF i, At
<1>7. Ascending(S)[i] \in S
  BY <1>6 DEF At
<1>8. QED
  BY <1>3, <1>7 DEF i, q, r

\* What s lists for the iterations S in their order, w for each.
IsInOrder(s, S, w, g) ==
  \A n \in 1 .. w * Cardinality(S) :
    s[n] = g[Ascending(S)[((n - 1) \div w) + 1]][((n - 1) % w) + 1]

\* A sum over the iterations, in their order.
LEMMA SumInOrder ==
  ASSUME NEW S \in SUBSET Int, IsFiniteSet(S), NEW w \in Nat \ {0}, NEW f, NEW g,
         IsInOrder(f, S, w, g), \A k \in S : \A j \in 1 .. w : g[k][j] \in Int
  PROVE  SumFunctionOnSet(f, 1 .. w * Cardinality(S))
           = SumFunctionOnSet([k \in S |-> SumFunctionOnSet(g[k], 1 .. w)], S)
<1> DEFINE c == Cardinality(S)
           N == 1 .. w * c
           order == Ascending(S)
           q(n) == ((n - 1) \div w) + 1
           r(n) == ((n - 1) % w) + 1
           key == [n \in N |-> order[q(n)]]
           W == 1 .. w
<1>1. c \in Nat /\ order \in Bijection(1 .. c, S)
  BY AscendingIs
<1>2. \A i, h \in 1 .. c : order[i] = order[h] => i = h
  BY <1>1 DEF Bijection, Injection, IsInjective
<1>3. \A k \in S : \E i \in 1 .. c : order[i] = k
  BY <1>1 DEF Bijection, Surjection
<1>4. \A n \in N : order[q(n)] \in S /\ r(n) \in W
  BY PlaceOfUpdate
<1>5. IsFiniteSet(N) /\ IsFiniteSet(W)
  <2>1. w * c \in Int
    BY <1>1
  <2>2. QED
    BY <2>1, IntervalSize
<1>6. \A n \in N : q(n) \in 1 .. c /\ n = (w * (q(n) - 1)) + r(n)
  <2> SUFFICES ASSUME NEW n \in N
               PROVE  q(n) \in 1 .. c /\ n = (w * (q(n) - 1)) + r(n)
    OBVIOUS
  <2>1. n \in Nat /\ n - 1 \in Nat /\ w * c \in Nat /\ n - 1 < w * c
    BY <1>1
  <2> DEFINE d == (n - 1) \div w
             e == (n - 1) % w
  <2>2. d \in Nat /\ e \in 0 .. w - 1 /\ n - 1 = (d * w) + e
    BY <2>1, QuotientAndRest
  <2> HIDE DEF d, e, c
  <2>3. d < c
    <3>1. d >= c => d * w >= c * w
      BY <1>1, <2>2
    <3>2. c * w = w * c /\ d * w \in Nat
      BY <1>1, <2>2
    <3>3. QED
      BY <1>1, <2>1, <2>2, <3>1, <3>2
  <2>4. d + 1 \in 1 .. c /\ (d + 1) - 1 = d /\ d * w = w * d
    BY <1>1, <2>2, <2>3
  <2>5. n = (w * d) + (e + 1)
    BY <2>1, <2>2, <2>4
  <2>6. QED
    BY <2>4, <2>5 DEF d, e
<1>7. \A i \in 1 .. c : \A j \in W : \E n \in N : q(n) = i /\ r(n) = j
  <2> SUFFICES ASSUME NEW i \in 1 .. c, NEW j \in W
               PROVE  \E n \in N : q(n) = i /\ r(n) = j
    OBVIOUS
  <2> DEFINE k == ((i - 1) * w) + (j - 1)
             n == k + 1
  <2>1. i - 1 \in 0 .. c - 1 /\ j - 1 \in 0 .. w - 1
    BY <1>1
  <2>2. k \in 0 .. (c * w) - 1 /\ k \div w = i - 1 /\ k % w = j - 1
    <3> HIDE DEF c, k
    <3>1. \A h \in 0 .. c - 1 : \A o \in 0 .. w - 1 :
            /\ (h * w) + o \in 0 .. (c * w) - 1
            /\ ((h * w) + o) \div w = h /\ ((h * w) + o) % w = o
      BY <1>1, PositionIs
    <3>2. QED
      BY <2>1, <3>1, Zenon DEF k
  <2>3. c * w = w * c /\ w * c \in Nat
    BY <1>1
  <2> HIDE DEF k, c
  <2>4. n \in N /\ n - 1 = k
    BY <2>2, <2>3
  <2>5. q(n) = i /\ r(n) = j
    BY <1>1, <2>2, <2>4
  <2>6. QED
    BY <2>4, <2>5
<1> HIDE DEF c, N, order, q, r, W
<1>8. \A n \in N : key[n] = order[q(n)]
  OBVIOUS
<1>9. key \in [N -> S]
  BY <1>4
<1> HIDE DEF key
<1>10. \A n \in N : f[n] = g[key[n]][r(n)] /\ f[n] \in Int
  BY <1>4, <1>8 DEF N, c, order, q, r, W, IsInOrder
<1>11. ASSUME NEW k \in S
       PROVE  SumFunctionOnSet(f, {n \in N : key[n] = k}) = SumFunctionOnSet(g[k], W)
  <2> DEFINE P == {n \in N : key[n] = k}
             b == [n \in P |-> r(n)]
  <2>1. PICK i \in 1 .. c : order[i] = k
    BY <1>3
  <2>2. \A n \in P : n \in N /\ q(n) = i
    BY <1>2, <1>6, <1>8, <2>1
  <2>3. \A n \in N : q(n) = i => n \in P
    BY <1>8, <2>1
  <2>4. \A n \in P : b[n] = r(n) /\ b[n] \in W
    BY <1>4
  <2>5. \A n, h \in P : b[n] = b[h] => n = h
    BY <1>6, <2>2, <2>4
  <2>6. \A j \in W : \E n \in P : b[n] = j
    BY <1>7, <2>3, <2>4
  <2>7. b \in [P -> W]
    BY <2>4
  <2>8. \A n \in P : f[n] = g[k][b[n]]
    BY <1>10, <2>4
  <2>9. IsFiniteSet(P)
    BY <1>5, FS_Subset
  <2>10. \A j \in W : g[k][j] \in Int
    BY DEF W
  <2> HIDE DEF P, b
  <2>11. b \in Bijection(P, W)
    BY <2>5, <2>6, <2>7 DEF Bijection, Injection, Surjection, IsInjective
  <2>12. SumFunctionOnSet(f, P) = SumFunctionOnSet(g[k], W)
    BY <2>8, <2>9, <2>10, <2>11, SumRenamed
  <2>13. QED
    BY <2>12 DEF P
<1>12. PartsByKey(f, N, S, key) = [k \in S |-> SumFunctionOnSet(g[k], W)]
  BY <1>11 DEF PartsByKey
<1>13. SumFunctionOnSet(f, N) = SumFunctionOnSet(PartsByKey(f, N, S, key), S)
  <2>1. \A n \in N : f[n] \in Int
    BY <1>10
  <2>2. QED
    BY <1>5, <1>9, <2>1, SumByKey
<1>14. QED
  BY <1>12, <1>13 DEF N, c, W

-----------------------------------------------------------------------------
(* The product of a matrix and a vector *)

\* The vector x has a number for each column.
IsVector(x, m) == \A j \in 0 .. m.columns - 1 : x[j] \in Int

\* The terms of the product, in the order of the sorted entries.
SortedTerms(m, x) ==
  [p \in DOMAIN m.entries |-> SortRowMajor(m)[p].a * x[SortRowMajor(m)[p].j - 1]]

LEMMA SortedTermsAre ==
  ASSUME NEW m, IsMatrix(m), NEW x, IsVector(x, m), NEW p \in DOMAIN m.entries
  PROVE  /\ SortRowMajor(m)[p].a \in Int /\ SortRowMajor(m)[p].j - 1 \in 0 .. m.columns - 1
         /\ x[SortRowMajor(m)[p].j - 1] \in Int
         /\ SortedTerms(m, x)[p] = SortRowMajor(m)[p].a * x[SortRowMajor(m)[p].j - 1]
         /\ SortedTerms(m, x)[p] \in Int
<1> DEFINE a == SortRowMajor(m)[p].a
           j == SortRowMajor(m)[p].j
<1>1. a \in Int /\ j \in 1 .. m.columns
  BY SortedFacts
<1>2. m.columns \in Nat
  BY EntriesAre
<1>3. SortedTerms(m, x)[p] = a * x[j - 1]
  BY DEF SortedTerms
<1> HIDE DEF a, j
<1>4. j - 1 \in 0 .. m.columns - 1
  BY <1>1, <1>2
<1>5. x[j - 1] \in Int
  BY <1>4 DEF IsVector
<1>6. a * x[j - 1] \in Int
  BY <1>1, <1>5
<1>7. QED
  BY <1>1, <1>3, <1>4, <1>5, <1>6 DEF a, j

\* A row of the product is the sum of its terms.
LEMMA ProductIs ==
  ASSUME NEW m, IsMatrix(m), NEW x, IsVector(x, m), NEW r \in Rows(m)
  PROVE  Product(m, x, r)
           = SumFunctionOnSet(SortedTerms(m, x), RowStart(m, r) + 1 .. RowStart(m, r + 1))
<1> DEFINE D == DOMAIN m.entries
           R == {k \in D : m.entries[k].i - 1 = r}
           P == {p \in D : RowAt(m, p) = r}
           f == [k \in R |-> m.entries[k].a * x[m.entries[k].j - 1]]
           b == [p \in P |-> Placed(m)[p]]
           g == SortedTerms(m, x)
<1>1. IsFiniteSet(D) /\ P = RowStart(m, r) + 1 .. RowStart(m, r + 1)
  BY EntriesAre, RowPlaces
<1>2. Product(m, x, r) = SumFunctionOnSet(f, R)
  <2>1. Product(m, x, r) = SumFunction(f) /\ DOMAIN f = R
    BY DEF Product
  <2> HIDE DEF f, R
  <2>2. QED
    BY <2>1, Zenon DEF SumFunction
<1>3. /\ \A p \in D : Placed(m)[p] \in D
      /\ \A p, q \in D : Placed(m)[p] = Placed(m)[q] => p = q
      /\ \A k \in D : \E p \in D : Placed(m)[p] = k
  BY PlacedPermutes DEF Bijection, Injection, Surjection, IsInjective
<1>4. ASSUME NEW p \in D
      PROVE  /\ RowAt(m, p) = m.entries[Placed(m)[p]].i - 1
             /\ g[p] = m.entries[Placed(m)[p]].a * x[m.entries[Placed(m)[p]].j - 1]
             /\ g[p] \in Int
  <2>1. SortRowMajor(m)[p] = m.entries[Placed(m)[p]]
    BY SortedIs
  <2>2. g[p] = SortRowMajor(m)[p].a * x[SortRowMajor(m)[p].j - 1] /\ g[p] \in Int
    BY SortedTermsAre
  <2>3. QED
    BY <2>1, <2>2 DEF RowAt
<1> HIDE DEF D, g
<1>5. \A p \in P : b[p] = Placed(m)[p] /\ b[p] \in R
  BY <1>3, <1>4
<1>6. \A p, q \in P : b[p] = b[q] => p = q
  BY <1>3, <1>5
<1>7. \A k \in R : \E p \in P : b[p] = k
  <2> SUFFICES ASSUME NEW k \in R PROVE \E p \in P : b[p] = k
    OBVIOUS
  <2>1. PICK p \in D : Placed(m)[p] = k
    BY <1>3
  <2>2. p \in P
    BY <1>4, <2>1
  <2>3. QED
    BY <1>5, <2>1, <2>2
<1>8. b \in [P -> R]
  BY <1>5
<1>9. \A p \in P : g[p] = f[b[p]] /\ g[p] \in Int
  BY <1>4, <1>5
<1>10. IsFiniteSet(P)
  BY <1>1, FS_Subset
<1> HIDE DEF P, R, f, b
<1>11. b \in Bijection(P, R)
  BY <1>6, <1>7, <1>8 DEF Bijection, Injection, Surjection, IsInjective
<1>12. \A k \in R : f[k] \in Int
  BY <1>7, <1>9
<1>13. SumFunctionOnSet(g, P) = SumFunctionOnSet(f, R)
  BY <1>9, <1>10, <1>11, <1>12, SumRenamed
<1>14. QED
  BY <1>1, <1>2, <1>13 DEF g

\* A sum over numbers from a to b may count from elsewhere.
IsShifted(f, a, b, g, d) ==
  a \in Int /\ b \in Int /\ d \in Int /\ \A k \in a .. b : f[k] = g[k + d] /\ f[k] \in Int

LEMMA SumShifted ==
  ASSUME NEW f, NEW a, NEW b, NEW g, NEW d, IsShifted(f, a, b, g, d)
  PROVE  SumFunctionOnSet(f, a .. b) = SumFunctionOnSet(g, a + d .. b + d)
<1> DEFINE S == a .. b
           T == a + d .. b + d
           h == [k \in S |-> k + d]
<1>1. a \in Int /\ b \in Int /\ d \in Int /\ \A k \in S : f[k] = g[k + d] /\ f[k] \in Int
  BY DEF IsShifted
<1>2. \A k \in S : k \in Int /\ h[k] = k + d /\ h[k] \in T
  BY <1>1
<1>3. \A p \in T : p - d \in S /\ (p - d) + d = p
  BY <1>1
<1>4. IsFiniteSet(S)
  BY <1>1, IntervalSize
<1> HIDE DEF S, T
<1>5. \A k, l \in S : h[k] = h[l] => k = l
  <2> SUFFICES ASSUME NEW k \in S, NEW l \in S, h[k] = h[l] PROVE k = l
    OBVIOUS
  <2>1. k + d = l + d /\ k \in Int /\ l \in Int
    BY <1>2
  <2>2. QED
    BY <1>1, <2>1
<1>6. \A p \in T : \E k \in S : h[k] = p
  BY <1>2, <1>3
<1>7. h \in [S -> T]
  BY <1>2
<1>8. \A k \in S : f[k] = g[h[k]]
  BY <1>1, <1>2
<1>9. \A p \in T : g[p] \in Int
  BY <1>1, <1>6, <1>8
<1> HIDE DEF h
<1>10. h \in Bijection(S, T)
  BY <1>5, <1>6, <1>7 DEF Bijection, Injection, Surjection, IsInjective
<1>11. SumFunctionOnSet(f, S) = SumFunctionOnSet(g, T)
  BY <1>4, <1>8, <1>9, <1>10, SumRenamed
<1>12. QED
  BY <1>11 DEF S, T

-----------------------------------------------------------------------------
\* The terms at positions of a CSR matrix.
CsrTerms(m, x) == [k \in 0 .. Len(m.entries) - 1 |-> SortedTerms(m, x)[k + 1]]

LEMMA CsrTermsAre ==
  ASSUME NEW m, IsMatrix(m), NEW x, IsVector(x, m)
  PROVE  /\ \A k \in 0 .. Len(m.entries) - 1 :
              /\ CsrTerms(m, x)[k] = SortedTerms(m, x)[k + 1] /\ CsrTerms(m, x)[k] \in Int
              /\ Term(CsrOf(m, 1), x, k) = CsrTerms(m, x)[k]
         /\ \A r \in 0 .. m.rows : CsrOf(m, 1).row_ptr[r] = RowStart(m, r)
<1> DEFINE C == CsrOf(m, 1)
           K == 0 .. Len(m.entries) - 1
           s == SortRowMajor(m)
<1>1. /\ C.row_ptr = [r \in 0 .. m.rows |-> RowStart(m, r)]
      /\ C.column_index = [k \in K |-> s[k + 1].j - 1] /\ C.value = [k \in K |-> s[k + 1].a]
  <2> DEFINE arrays == [row_ptr      |-> [r \in 0 .. m.rows |-> RowStart(m, r)],
                        column_index |-> [k \in K |-> s[k + 1].j - 1],
                        value        |-> [k \in K |-> s[k + 1].a]]
  <2>1. C = arrays
    BY CsrIs
  <2>2. /\ arrays.row_ptr = [r \in 0 .. m.rows |-> RowStart(m, r)]
        /\ arrays.column_index = [k \in K |-> s[k + 1].j - 1]
        /\ arrays.value = [k \in K |-> s[k + 1].a]
    OBVIOUS
  <2> HIDE DEF C, arrays
  <2>3. QED
    BY <2>1, <2>2
<1>2. ASSUME NEW k \in K
      PROVE  /\ CsrTerms(m, x)[k] = SortedTerms(m, x)[k + 1] /\ CsrTerms(m, x)[k] \in Int
             /\ Term(C, x, k) = CsrTerms(m, x)[k]
  <2> DEFINE p == k + 1
  <2>1. p \in DOMAIN m.entries
    BY EntriesAre
  <2>2. CsrTerms(m, x)[k] = SortedTerms(m, x)[p]
    BY DEF CsrTerms
  <2> HIDE DEF p
  <2>3. /\ s[p].a \in Int /\ x[s[p].j - 1] \in Int
        /\ SortedTerms(m, x)[p] = s[p].a * x[s[p].j - 1] /\ SortedTerms(m, x)[p] \in Int
    BY <2>1, SortedTermsAre
  <2>4. C.column_index[k] = s[p].j - 1 /\ C.value[k] = s[p].a
    BY <1>1 DEF p
  <2> HIDE DEF C, s
  <2>5. Term(C, x, k) = IF s[p].a = 0 THEN 0 ELSE s[p].a * x[s[p].j - 1]
    BY <2>4 DEF Term
  <2>6. s[p].a = 0 => s[p].a * x[s[p].j - 1] = 0
    BY <2>3
  <2>7. Term(C, x, k) = SortedTerms(m, x)[p]
    BY <2>3, <2>5, <2>6
  <2>8. QED
    BY <2>2, <2>3, <2>7 DEF p
<1>3. QED
  BY <1>1, <1>2

\* The sum of the terms at some positions.
LEMMA CsrTermsSum ==
  ASSUME NEW m, IsMatrix(m), NEW x, IsVector(x, m), NEW K \in SUBSET (0 .. Len(m.entries) - 1)
  PROVE  Terms(CsrOf(m, 1), x, K) = SumFunctionOnSet(CsrTerms(m, x), K)
<1> DEFINE f == [k \in K |-> Term(CsrOf(m, 1), x, k)]
<1>1. Terms(CsrOf(m, 1), x, K) = SumFunctionOnSet(f, K)
  <2>1. Terms(CsrOf(m, 1), x, K) = SumFunction(f) /\ DOMAIN f = K
    BY DEF Terms
  <2> HIDE DEF f
  <2>2. QED
    BY <2>1, Zenon DEF SumFunction
<1>2. \A k \in K : f[k] = CsrTerms(m, x)[k] /\ CsrTerms(m, x)[k] \in Int
  BY CsrTermsAre
<1>3. IsFiniteSet(K)
  <2>1. IsFiniteSet(0 .. Len(m.entries) - 1)
    BY EntriesAre, IntervalSize
  <2>2. QED
    BY <2>1, FS_Subset
<1> HIDE DEF f
<1>4. QED
  BY <1>1, <1>2, <1>3, SumOfSame

\* The positions of a row.
LEMMA CsrPositions ==
  ASSUME NEW m, IsMatrix(m), NEW x, IsVector(x, m), NEW r \in Rows(m),
         NEW p, p = CsrOf(m, 1).row_ptr[r], NEW q, q = CsrOf(m, 1).row_ptr[r + 1]
  PROVE  /\ p \in Nat /\ q \in Nat /\ p <= q /\ p .. q - 1 \subseteq 0 .. Len(m.entries) - 1
         /\ SumFunctionOnSet(CsrTerms(m, x), p .. q - 1) = Product(m, x, r)
<1>1. r \in 0 .. m.rows /\ r + 1 \in 0 .. m.rows /\ Len(m.entries) \in Nat
  BY EntriesAre, RowsAre DEF Rows
<1>2. p = RowStart(m, r) /\ q = RowStart(m, r + 1)
  BY <1>1, CsrTermsAre
<1>3. p \in Nat /\ q \in Nat /\ p <= q /\ q <= Len(m.entries)
  BY <1>2, RowPlaces
<1>4. p .. q - 1 \subseteq 0 .. Len(m.entries) - 1
  BY <1>1, <1>3
<1>5. \A k \in p .. q - 1 : /\ CsrTerms(m, x)[k] = SortedTerms(m, x)[k + 1]
                            /\ CsrTerms(m, x)[k] \in Int
  BY <1>4, CsrTermsAre
<1>6. SumFunctionOnSet(CsrTerms(m, x), p .. q - 1)
        = SumFunctionOnSet(SortedTerms(m, x), p + 1 .. (q - 1) + 1)
  <2> DEFINE f == CsrTerms(m, x)
             g == SortedTerms(m, x)
             b == q - 1
  <2>1. IsShifted(f, p, b, g, 1)
    BY <1>3, <1>5 DEF IsShifted
  <2> HIDE DEF f, g, b
  <2>2. SumFunctionOnSet(f, p .. b) = SumFunctionOnSet(g, p + 1 .. b + 1)
    BY <2>1, SumShifted
  <2>3. QED
    BY <2>2 DEF f, g, b
<1>7. (q - 1) + 1 = q
  BY <1>3
<1>8. Product(m, x, r) = SumFunctionOnSet(SortedTerms(m, x), p + 1 .. q)
  BY <1>2, ProductIs
<1>9. QED
  BY <1>3, <1>4, <1>6, <1>7, <1>8

\* The scalar inner loop of a CSR matrix computes the product
\* (csr-matrix-spmv.cpp, csr_spmv_inner_loop).
THEOREM CsrRowIs ==
  ASSUME NEW m, IsMatrix(m), NEW x, IsVector(x, m), NEW r \in Rows(m)
  PROVE  CsrRow(CsrOf(m, 1), x, r) = Product(m, x, r)
<1> DEFINE p == CsrOf(m, 1).row_ptr[r]
           q == CsrOf(m, 1).row_ptr[r + 1]
<1>1. CsrRow(CsrOf(m, 1), x, r) = Terms(CsrOf(m, 1), x, p .. q - 1)
  BY DEF CsrRow
<1> HIDE DEF p, q
<1>2. /\ p .. q - 1 \in SUBSET (0 .. Len(m.entries) - 1)
      /\ SumFunctionOnSet(CsrTerms(m, x), p .. q - 1) = Product(m, x, r)
  BY CsrPositions DEF p, q
<1>3. QED
  BY <1>1, <1>2, CsrTermsSum

\* The loads of a vectorised inner loop are finitely many.
LEMMA LoadsAreFinite ==
  ASSUME NEW p \in Nat, NEW q \in Nat, NEW loads, LoadsOnce(loads, p, q),
         \A l \in loads : l.at \in Int /\ l.width \in {1, 2, 4}
  PROVE  IsFiniteSet(loads)
<1> DEFINE N == p .. q - 1
           pos == [l \in loads |-> l.at]
<1>1. IsFiniteSet(N)
  BY IntervalSize
<1>2. \A l \in loads : l.at \in Loaded(l) /\ l.at \in N
  BY DEF LoadsOnce, Loaded
<1>3. \A l, h \in loads : pos[l] = pos[h] => l = h
  BY <1>2 DEF LoadsOnce
<1>4. pos \in Injection(loads, N)
  BY <1>2, <1>3 DEF Injection, IsInjective
<1> HIDE DEF pos, N
<1>5. QED
  BY <1>1, <1>4, FS_Injection

\* What the widths of loads are.
LEMMA LoadsHaveWidths ==
  ASSUME NEW from, NEW to, NEW w, NEW l \in Loads(from, to, w)
  PROVE  l.at \in Int /\ l.width = w
BY DEF Loads

LEMMA AvxLoadsAre ==
  ASSUME NEW p \in Nat, NEW q \in Nat, p <= q,
         NEW loads \in {Avx128Loads(p, q), Avx256Loads(p, q)}
  PROVE  /\ LoadsOnce(loads, p, q) /\ IsFiniteSet(loads)
         /\ \A l \in loads : l.at \in Int /\ l.width \in {1, 2, 4}
<1>1. LoadsOnce(loads, p, q)
  BY Avx128LoadsOnce, Avx256LoadsOnce
<1>2. \A l \in loads : \E from, to : \E w \in {1, 2, 4} : l \in Loads(from, to, w)
  BY DEF Avx128Loads, Avx256Loads
<1>3. \A l \in loads : l.at \in Int /\ l.width \in {1, 2, 4}
  BY <1>2, LoadsHaveWidths
<1>4. QED
  BY <1>1, <1>3, LoadsAreFinite

\* The vectorised inner loops compute it too (csr_spmv_inner_loop_avx128 and
\* csr_spmv_inner_loop_avx256).
THEOREM VectorRowIs ==
  ASSUME NEW m, IsMatrix(m), NEW x, IsVector(x, m), NEW r \in Rows(m),
         NEW p, p = CsrOf(m, 1).row_ptr[r], NEW q, q = CsrOf(m, 1).row_ptr[r + 1],
         NEW loads \in {Avx128Loads(p, q), Avx256Loads(p, q)}
  PROVE  VectorRow(CsrOf(m, 1), x, loads) = Product(m, x, r)
<1> DEFINE C == CsrOf(m, 1)
           f == CsrTerms(m, x)
           N == p .. q - 1
           share == [l \in loads |-> Loaded(l)]
           sums == [l \in loads |-> SumFunctionOnSet(f, Loaded(l))]
<1>1. /\ p \in Nat /\ q \in Nat /\ p <= q /\ N \subseteq 0 .. Len(m.entries) - 1
      /\ SumFunctionOnSet(f, N) = Product(m, x, r)
  BY CsrPositions
<1>2. LoadsOnce(loads, p, q) /\ IsFiniteSet(loads)
  BY <1>1, AvxLoadsAre
<1>3. ASSUME NEW l \in loads
      PROVE  Terms(C, x, l.at .. l.at + l.width - 1) = SumFunctionOnSet(f, Loaded(l))
  <2>1. Loaded(l) \in SUBSET (0 .. Len(m.entries) - 1)
    BY <1>1, <1>2 DEF LoadsOnce
  <2>2. Terms(C, x, Loaded(l)) = SumFunctionOnSet(f, Loaded(l))
    BY <2>1, CsrTermsSum
  <2>3. QED
    BY <2>2 DEF Loaded
<1>4. VectorRow(C, x, loads) = SumFunctionOnSet(sums, loads)
  <2> DEFINE terms == [l \in loads |-> Terms(C, x, l.at .. l.at + l.width - 1)]
  <2>1. VectorRow(C, x, loads) = SumFunction(terms) /\ DOMAIN terms = loads
    BY DEF VectorRow
  <2>2. terms = sums
    BY <1>3
  <2> HIDE DEF terms, sums
  <2>3. SumFunction(terms) = SumFunctionOnSet(terms, DOMAIN terms)
    BY Zenon DEF SumFunction
  <2>4. QED
    BY <2>1, <2>2, <2>3
<1>5. IsFiniteSet(N)
  <2>1. p \in Int /\ q - 1 \in Int
    BY <1>1
  <2>2. QED
    BY <2>1, IntervalSize
<1>6. \A n \in N : f[n] \in Int
  BY <1>1, CsrTermsAre
<1>7. /\ \A l \in loads : share[l] = Loaded(l) /\ share[l] \in SUBSET N
      /\ \A n \in N : \E l \in loads : n \in share[l]
      /\ \A l, h \in loads : l # h => share[l] \cap share[h] = {}
  BY <1>2 DEF LoadsOnce
<1>8. IsShared(share, loads, N)
  <2>1. share \in [loads -> SUBSET N]
    BY <1>7
  <2>2. QED
    BY <1>7, <2>1 DEF IsShared
<1>9. SharesOf(f, share, loads) = sums
  BY <1>7 DEF SharesOf
<1> HIDE DEF share, f, N, sums, C
<1>10. SumFunctionOnSet(SharesOf(f, share, loads), loads) = SumFunctionOnSet(f, N)
  BY <1>2, <1>5, <1>6, <1>8, SumOfShares
<1>11. QED
  BY <1>1, <1>4, <1>9, <1>10 DEF C, f, N

-----------------------------------------------------------------------------
\* The loop over an ELL row computes the part of the product of its first
\* entries, whether it stops at skipped padding or adds zeros (ell-matrix.cpp,
\* hybrid-matrix.cpp, ell_spmv).
THEOREM EllRowIs ==
  ASSUME NEW m, IsMatrix(m), NEW x, IsVector(x, m), NEW r \in Rows(m),
         NEW length \in Nat, NEW skip, NEW none
  PROVE  EllRow(Padded(m, length, skip, none), x, r)
           = SumFunctionOnSet(SortedTerms(m, x),
               RowStart(m, r) + 1 .. RowStart(m, r) + AtMost(length, RowLength(m, r)))
<1> DEFINE P == Padded(m, length, skip, none)
           n == RowLength(m, r)
           a == RowStart(m, r)
           kept == AtMost(length, n)
           first == r * length
           K == r * P.row_length .. ((r + 1) * P.row_length) - 1
           stops == {k \in K : \A l \in K : l <= k => P.column_index[l] # NoColumn}
           S == first .. (first + kept) - 1
           f == [k \in stops |-> Term(P, x, k)]
           g == SortedTerms(m, x)
<1>1. /\ r \in Nat /\ m.rows \in Nat /\ r < m.rows /\ n \in Nat /\ a \in Nat
      /\ m.columns \in Nat /\ m.columns <= NoColumn
  <2>1. m.rows \in Nat /\ m.columns \in Nat /\ m.columns <= NoColumn
    BY DEF IsMatrix
  <2>2. n \in Nat /\ a \in Nat
    BY RowsAre, RowPlaces
  <2>3. r \in 0 .. m.rows - 1
    BY DEF Rows
  <2> HIDE DEF n, a
  <2>4. QED
    BY <2>1, <2>2, <2>3
<1>2. /\ first \in Nat /\ P.row_length = length /\ K = first .. (first + length) - 1
      /\ kept \in Nat /\ kept <= length /\ kept <= n
      /\ K \subseteq 0 .. (m.rows * length) - 1
  <2>1. P.row_length = length
    BY PaddedIs
  <2>2. /\ r * length \in Nat /\ (r + 1) * length = (r * length) + length
        /\ (r + 1) * length <= m.rows * length /\ m.rows * length \in Nat
    BY <1>1, NextMultiple, ProductGrows
  <2>3. kept \in Nat /\ kept <= length /\ kept <= n
    BY <1>1 DEF AtMost
  <2> HIDE DEF P, kept, n
  <2> DEFINE last == m.rows * length
             after == (r + 1) * length
  <2>4. first \in Nat /\ after = first + length /\ after <= last /\ last \in Nat
        /\ K = first .. after - 1
    BY <2>1, <2>2
  <2> HIDE DEF first, last, after, K
  <2>5. K = first .. (first + length) - 1 /\ K \subseteq 0 .. last - 1
    BY <2>4
  <2>6. QED
    BY <2>1, <2>3, <2>4, <2>5 DEF last
<1>3. \A k \in K : k \div length = r /\ k % length = k - first
  <2> SUFFICES ASSUME NEW k \in K PROVE k \div length = r /\ k % length = k - first
    OBVIOUS
  <2> HIDE DEF K, first
  <2>1. k \in Nat /\ length \in Nat \ {0} /\ k - first \in 0 .. length - 1
        /\ k = first + (k - first) /\ first <= k /\ k < first + length
    BY <1>2
  <2>2. k \div length = r
    <3>1. r * length <= k /\ k < (r * length) + length
      BY <2>1 DEF first
    <3>2. QED
      BY <1>1, <2>1, <3>1, QuotientIs
  <2>3. k % length \in 0 .. length - 1 /\ k = ((k \div length) * length) + (k % length)
    BY <2>1, QuotientAndRest
  <2>4. k = first + (k % length)
    BY <2>2, <2>3 DEF first
  <2>5. QED
    BY <1>2, <2>1, <2>2, <2>3, <2>4
<1>4. \A k \in K : IsStored(m, length, k) <=> k - first < n
  BY <1>3 DEF IsStored
<1>5. \A k \in K : StoredPlace(m, length, k) = a + (k - first) + 1
  BY <1>3 DEF StoredPlace
<1>6. /\ \A k \in K : IsStored(m, length, k) =>
           /\ P.column_index[k] = SortRowMajor(m)[StoredPlace(m, length, k)].j - 1
           /\ P.value[k] = SortRowMajor(m)[StoredPlace(m, length, k)].a
           /\ StoredPlace(m, length, k) \in DOMAIN m.entries
      /\ \A k \in K : ~ IsStored(m, length, k) => P.value[k] = 0
  BY <1>2, PaddedIs, StoredIs
<1>7. \A k \in S : k \in K /\ IsStored(m, length, k)
  <2> HIDE DEF K, first, kept, n, P
  <2>1. S \subseteq K /\ \A k \in S : k - first < n
    BY <1>1, <1>2
  <2>2. QED
    BY <1>4, <2>1
<1>8. \A k \in K : k \notin S => ~ IsStored(m, length, k)
  <2> HIDE DEF K, first, kept, n, P
  <2>1. ASSUME NEW k \in K, k - first < n
        PROVE  k - first < kept
    BY <1>1, <1>2, <2>1 DEF kept, AtMost
  <2>2. QED
    BY <1>2, <1>4, <2>1
<1>9. \A k, l \in K : k \in S /\ l <= k => l \in S
  <2> HIDE DEF K, first, kept, n, P
  <2>1. QED
    BY <1>2
<1> HIDE DEF P, n, a, kept, first, K, g
<1>10. ASSUME NEW k \in S
       PROVE  P.column_index[k] # NoColumn /\ Term(P, x, k) = g[a + (k - first) + 1]
  <2> DEFINE p == StoredPlace(m, length, k)
  <2>1. /\ p \in DOMAIN m.entries /\ p = a + (k - first) + 1
        /\ P.column_index[k] = SortRowMajor(m)[p].j - 1 /\ P.value[k] = SortRowMajor(m)[p].a
    BY <1>5, <1>6, <1>7
  <2> HIDE DEF p
  <2>2. /\ SortRowMajor(m)[p].a \in Int /\ SortRowMajor(m)[p].j - 1 \in 0 .. m.columns - 1
        /\ x[SortRowMajor(m)[p].j - 1] \in Int
        /\ g[p] = SortRowMajor(m)[p].a * x[SortRowMajor(m)[p].j - 1]
    BY <2>1, SortedTermsAre DEF g
  <2> DEFINE e == SortRowMajor(m)[p].a
             j == SortRowMajor(m)[p].j - 1
  <2>3. /\ e \in Int /\ j \in 0 .. m.columns - 1 /\ x[j] \in Int /\ g[p] = e * x[j]
        /\ P.column_index[k] = j /\ P.value[k] = e
    BY <2>1, <2>2
  <2> HIDE DEF e, j
  <2>4. Term(P, x, k) = IF e = 0 THEN 0 ELSE e * x[j]
    BY <2>3 DEF Term
  <2>5. e = 0 => e * x[j] = 0
    BY <2>3
  <2>6. j # NoColumn
    BY <1>1, <2>3 DEF NoColumn
  <2>7. QED
    BY <2>1, <2>3, <2>4, <2>5, <2>6
<1>11. S \in SUBSET stops
  BY <1>7, <1>9, <1>10
<1>12. \A k \in stops : k \notin S => Term(P, x, k) = 0
  <2>1. \A k \in stops : k \notin S => P.value[k] = 0
    BY <1>6, <1>8
  <2>2. QED
    BY <2>1 DEF Term
<1>13. EllRow(P, x, r) = SumFunctionOnSet(f, stops)
  <2>1. EllRow(P, x, r) = SumFunction(f) /\ DOMAIN f = stops
    BY DEF EllRow, Terms, K
  <2> HIDE DEF f, stops
  <2>2. QED
    BY <2>1, Zenon DEF SumFunction
<1>14. IsFiniteSet(stops)
  <2>1. IsFiniteSet(K)
    BY <1>2, IntervalSize
  <2>2. QED
    BY <2>1, FS_Subset
<1>15. \A k \in S : g[k + ((a + 1) - first)] \in Int /\ f[k] = g[k + ((a + 1) - first)]
  <2>1. \A k \in S : k \in Int /\ a + (k - first) + 1 = k + ((a + 1) - first)
    BY <1>1, <1>2
  <2>2. \A k \in S : g[a + (k - first) + 1] \in Int
    <3>1. \A k \in S : a + (k - first) + 1 \in DOMAIN m.entries
      BY <1>5, <1>6, <1>7
    <3>2. QED
      BY <3>1, SortedTermsAre DEF g
  <2>3. \A k \in S : f[k] = Term(P, x, k)
    BY <1>11
  <2>4. QED
    BY <1>10, <2>1, <2>2, <2>3
<1>16. SumFunctionOnSet(f, stops) = SumFunctionOnSet(f, S)
  <2>1. \A k \in stops \ S : f[k] = 0
    BY <1>12
  <2>2. \A k \in stops : f[k] \in Int
    <3>1. 0 \in Int
      OBVIOUS
    <3> HIDE DEF f, S, stops
    <3>2. QED
      BY <1>15, <2>1, <3>1
  <2> HIDE DEF f, S, stops
  <2>3. QED
    BY <1>11, <1>14, <2>1, <2>2, SumOfRest
<1>17. SumFunctionOnSet(f, S) = SumFunctionOnSet(g, a + 1 .. a + kept)
  <2> DEFINE b == (first + kept) - 1
             d == (a + 1) - first
  <2>1. IsShifted(f, first, b, g, d)
    <3>1. \A k \in S : f[k] = g[k + d] /\ f[k] \in Int
      BY <1>15
    <3> HIDE DEF f, stops
    <3>2. QED
      BY <1>1, <1>2, <3>1 DEF IsShifted
  <2>2. first + d = a + 1 /\ b + d = a + kept
    BY <1>1, <1>2
  <2> HIDE DEF b, d, f, stops
  <2>3. SumFunctionOnSet(f, first .. b) = SumFunctionOnSet(g, first + d .. b + d)
    BY <2>1, SumShifted
  <2>4. QED
    BY <2>2, <2>3 DEF b
<1>18. QED
  BY <1>13, <1>16, <1>17 DEF P, n, a, kept, g

-----------------------------------------------------------------------------
\* The sum of the coordinates of a row, in any order.
CoordinatesOf(coo, i) == {k \in 0 .. coo.size - 1 : coo.row_index[k] = i}
CoordinateTerms(coo, x) == [k \in 0 .. coo.size - 1 |-> coo.value[k] * x[coo.column_index[k]]]

\* Each coordinate refers to an element of the vector.
ValidTerms(coo, x) ==
  /\ coo.size \in Nat
  /\ \A k \in 0 .. coo.size - 1 : CoordinateTerms(coo, x)[k] \in Int

\* The coordinates of a matrix are its entries (coo-matrix.cpp).
THEOREM CooRowIs ==
  ASSUME NEW m, IsMatrix(m), NEW x, IsVector(x, m), NEW r \in Rows(m)
  PROVE  /\ ValidTerms(CooOf(m), x) /\ CooOf(m).size > 0
         /\ SumFunctionOnSet(CoordinateTerms(CooOf(m), x), CoordinatesOf(CooOf(m), r))
              = Product(m, x, r)
<1> DEFINE C == CooOf(m)
           n == Len(m.entries)
           D == DOMAIN m.entries
           f == CoordinateTerms(C, x)
           S == CoordinatesOf(C, r)
           R == {k \in D : m.entries[k].i - 1 = r}
           g == [k \in R |-> m.entries[k].a * x[m.entries[k].j - 1]]
           b == [k \in S |-> k + 1]
<1>1. /\ n \in Nat \ {0} /\ D = 1 .. n
      /\ \A k \in D : m.entries[k].a \in Int /\ m.entries[k].j \in 1 .. m.columns
      /\ m.columns \in Nat
  BY EntriesAre
<1>2. /\ C.size = n
      /\ \A k \in 0 .. n - 1 : /\ C.row_index[k] = m.entries[k + 1].i - 1
                               /\ C.column_index[k] = m.entries[k + 1].j - 1
                               /\ C.value[k] = m.entries[k + 1].a
  BY DEF CooOf
<1>3. Product(m, x, r) = SumFunctionOnSet(g, R)
  <2>1. Product(m, x, r) = SumFunction(g) /\ DOMAIN g = R
    BY DEF Product
  <2> HIDE DEF g, R
  <2>2. QED
    BY <2>1, Zenon DEF SumFunction
<1>4. \A k \in D : m.entries[k].a * x[m.entries[k].j - 1] \in Int
  <2> SUFFICES ASSUME NEW k \in D PROVE m.entries[k].a * x[m.entries[k].j - 1] \in Int
    OBVIOUS
  <2> DEFINE e == m.entries[k].a
             j == m.entries[k].j
  <2>1. e \in Int /\ j \in 1 .. m.columns
    BY <1>1
  <2> HIDE DEF e, j
  <2>2. x[j - 1] \in Int
    BY <1>1, <2>1 DEF IsVector
  <2>3. e * x[j - 1] \in Int
    BY <2>1, <2>2
  <2>4. QED
    BY <2>3 DEF e, j
<1> HIDE DEF C, n, D
<1>5. \A k \in 0 .. n - 1 : k \in Int /\ k + 1 \in D
  BY <1>1
<1>6. \A k \in 0 .. n - 1 : f[k] = m.entries[k + 1].a * x[m.entries[k + 1].j - 1] /\ f[k] \in Int
  BY <1>2, <1>4, <1>5 DEF CoordinateTerms
<1>7. ValidTerms(C, x) /\ C.size > 0
  BY <1>1, <1>2, <1>6 DEF ValidTerms
<1>8. \A k \in S : /\ k \in 0 .. n - 1 /\ b[k] = k + 1 /\ b[k] \in R /\ f[k] = g[b[k]]
  BY <1>2, <1>5, <1>6 DEF CoordinatesOf
<1>9. \A k, l \in S : b[k] = b[l] => k = l
  <2> SUFFICES ASSUME NEW k \in S, NEW l \in S, b[k] = b[l] PROVE k = l
    OBVIOUS
  <2>1. k + 1 = l + 1 /\ k \in Int /\ l \in Int
    BY <1>5, <1>8
  <2>2. QED
    BY <2>1
<1>10. \A p \in R : \E k \in S : b[k] = p
  <2> SUFFICES ASSUME NEW p \in R PROVE \E k \in S : b[k] = p
    OBVIOUS
  <2>1. p - 1 \in 0 .. n - 1 /\ (p - 1) + 1 = p
    BY <1>1
  <2>2. p - 1 \in S
    BY <1>2, <2>1 DEF CoordinatesOf
  <2>3. QED
    BY <2>1, <2>2
<1>11. IsFiniteSet(S)
  <2>1. IsFiniteSet(0 .. n - 1) /\ S \in SUBSET (0 .. n - 1)
    BY <1>1, <1>2, IntervalSize DEF CoordinatesOf
  <2>2. QED
    BY <2>1, FS_Subset
<1>12. b \in [S -> R]
  BY <1>8
<1>13. \A p \in R : g[p] \in Int
  BY <1>4
<1> HIDE DEF f, S, R, g, b
<1>14. b \in Bijection(S, R)
  BY <1>9, <1>10, <1>12 DEF Bijection, Injection, Surjection, IsInjective
<1>15. SumFunctionOnSet(f, S) = SumFunctionOnSet(g, R)
  BY <1>8, <1>11, <1>13, <1>14, SumRenamed
<1>16. QED
  BY <1>3, <1>7, <1>15 DEF f, S, C

\* The two parts of a hybrid matrix add up to the product (hybrid-matrix.cpp,
\* hybrid_spmv).
THEOREM HybridRowIs ==
  ASSUME NEW m, IsMatrix(m), NEW x, IsVector(x, m), NEW r \in Rows(m), NEW skip
  PROVE  LET H == HybridOf(m, skip) IN
         /\ ValidTerms(H.coo, x)
         /\ EllRow(H.ell, x, r) \in Int
         /\ EllRow(H.ell, x, r)
              + SumFunctionOnSet(CoordinateTerms(H.coo, x), CoordinatesOf(H.coo, r))
              = Product(m, x, r)
<1> DEFINE H == HybridOf(m, skip)
           C == H.coo
           n == Cardinality(Spilled(m))
           rest == Ascending(Spilled(m))
           s == SortRowMajor(m)
           g == SortedTerms(m, x)
           f == CoordinateTerms(C, x)
           S == CoordinatesOf(C, r)
           mine == {p \in Spilled(m) : RowAt(m, p) = r}
           b == [k \in S |-> rest[k + 1]]
           a == RowStart(m, r)
           length == RowLength(m, r)
           limit == EllRowLength(m)
           kept == AtMost(limit, length)
           next == RowStart(m, r + 1)
<1>1. /\ C.size = n
      /\ \A k \in 0 .. n - 1 : /\ C.row_index[k] = RowAt(m, rest[k + 1])
                               /\ C.column_index[k] = s[rest[k + 1]].j - 1
                               /\ C.value[k] = s[rest[k + 1]].a
      /\ H.ell = Padded(m, limit, skip, 0)
  <2> DEFINE coo == [size         |-> n,
                     row_index    |-> [k \in 0 .. n - 1 |-> RowAt(m, rest[k + 1])],
                     column_index |-> [k \in 0 .. n - 1 |-> s[rest[k + 1]].j - 1],
                     value        |-> [k \in 0 .. n - 1 |-> s[rest[k + 1]].a]]
  <2>1. C = coo /\ H.ell = Padded(m, limit, skip, 0)
    BY HybridIs
  <2>2. /\ coo.size = n
        /\ \A k \in 0 .. n - 1 : /\ coo.row_index[k] = RowAt(m, rest[k + 1])
                                 /\ coo.column_index[k] = s[rest[k + 1]].j - 1
                                 /\ coo.value[k] = s[rest[k + 1]].a
    OBVIOUS
  <2> HIDE DEF C, coo, H
  <2>3. QED
    BY <2>1, <2>2
<1>2. /\ n \in Nat /\ Spilled(m) \in SUBSET DOMAIN m.entries
      /\ rest \in [1 .. n -> Spilled(m)]
      /\ \A k, l \in 1 .. n : rest[k] = rest[l] => k = l
      /\ \A p \in Spilled(m) : \E k \in 1 .. n : rest[k] = p
  BY SpilledIs DEF Bijection, Injection, Surjection, IsInjective
<1>3. \A p \in DOMAIN m.entries : g[p] = s[p].a * x[s[p].j - 1] /\ g[p] \in Int
  BY SortedTermsAre
<1>4. /\ IsFiniteSet(mine) /\ mine = a + limit + 1 .. next
  BY SpilledOfRow
<1>5. /\ a \in Nat /\ next \in Nat /\ length \in Nat /\ limit \in Nat /\ next = a + length
      /\ next <= Len(m.entries) /\ DOMAIN m.entries = 1 .. Len(m.entries)
      /\ Len(m.entries) \in Nat
  BY RowPlaces, RowLengthIs, LengthsAre, EntriesAre
<1> HIDE DEF C, n, rest, s, g, H, a, next, length, limit
<1>6. \A k \in 0 .. n - 1 : k \in Int /\ k + 1 \in 1 .. n /\ rest[k + 1] \in Spilled(m)
  BY <1>2
<1>7. \A k \in 0 .. n - 1 : f[k] = g[rest[k + 1]] /\ f[k] \in Int
  BY <1>1, <1>2, <1>3, <1>6 DEF CoordinateTerms
<1>8. ValidTerms(C, x)
  BY <1>1, <1>2, <1>7 DEF ValidTerms
<1>9. \A k \in S : /\ k \in 0 .. n - 1 /\ b[k] = rest[k + 1] /\ b[k] \in mine /\ f[k] = g[b[k]]
  BY <1>1, <1>6, <1>7 DEF CoordinatesOf
<1>10. \A k, l \in S : b[k] = b[l] => k = l
  <2> SUFFICES ASSUME NEW k \in S, NEW l \in S, b[k] = b[l] PROVE k = l
    OBVIOUS
  <2>1. rest[k + 1] = rest[l + 1] /\ k + 1 \in 1 .. n /\ l + 1 \in 1 .. n /\ k \in Int /\ l \in Int
    BY <1>6, <1>9
  <2>2. k + 1 = l + 1
    BY <1>2, <2>1
  <2>3. QED
    BY <2>1, <2>2
<1>11. \A p \in mine : \E k \in S : b[k] = p
  <2> SUFFICES ASSUME NEW p \in mine PROVE \E k \in S : b[k] = p
    OBVIOUS
  <2>1. PICK l \in 1 .. n : rest[l] = p
    BY <1>2
  <2>2. l - 1 \in 0 .. n - 1 /\ (l - 1) + 1 = l
    BY <1>2
  <2>3. l - 1 \in S
    BY <1>1, <2>1, <2>2 DEF CoordinatesOf
  <2>4. QED
    BY <2>1, <2>2, <2>3
<1>12. IsFiniteSet(S)
  <2>1. IsFiniteSet(0 .. n - 1) /\ S \in SUBSET (0 .. n - 1)
    BY <1>1, <1>2, IntervalSize DEF CoordinatesOf
  <2>2. QED
    BY <2>1, FS_Subset
<1>13. b \in [S -> mine]
  BY <1>9
<1>14. \A p \in mine : g[p] \in Int
  BY <1>2, <1>3
<1> HIDE DEF f, S, mine, b
<1>15. b \in Bijection(S, mine)
  BY <1>10, <1>11, <1>13 DEF Bijection, Injection, Surjection, IsInjective
<1>16. SumFunctionOnSet(f, S) = SumFunctionOnSet(g, mine)
  BY <1>9, <1>12, <1>14, <1>15, SumRenamed
<1> DEFINE head == a + 1 .. a + kept
<1>17. EllRow(H.ell, x, r) = SumFunctionOnSet(g, head)
  <2>1. EllRow(Padded(m, limit, skip, 0), x, r) = SumFunctionOnSet(g, head)
    BY <1>5, EllRowIs DEF g, a, length
  <2>2. QED
    BY <1>1, <2>1
<1>18. /\ head \cap mine = {} /\ head \cup mine = a + 1 .. next
       /\ a + 1 .. next \subseteq DOMAIN m.entries /\ IsFiniteSet(head)
  <2>1. kept \in Nat /\ (limit < length => kept = limit) /\ (length <= limit => kept = length)
    BY <1>5 DEF AtMost
  <2> HIDE DEF kept
  <2>2. head \cap mine = {} /\ head \cup mine = a + 1 .. next
    BY <1>4, <1>5, <2>1
  <2>3. IsFiniteSet(head)
    BY <1>5, <2>1, IntervalSize
  <2>4. QED
    BY <1>5, <2>2, <2>3
<1> HIDE DEF head
<1>19. \A p \in head \cup mine : g[p] \in Int
  BY <1>3, <1>18
<1>20. SumFunctionOnSet(g, head \cup mine) = SumFunctionOnSet(g, head) + SumFunctionOnSet(g, mine)
  BY <1>4, <1>18, <1>19, SumOfParts
<1>21. SumFunctionOnSet(g, head) \in Int
  BY <1>18, <1>19, SumIsInt
<1>22. Product(m, x, r) = SumFunctionOnSet(g, a + 1 .. next)
  BY ProductIs DEF g, a, next
<1>23. QED
  BY <1>8, <1>16, <1>17, <1>18, <1>20, <1>21, <1>22 DEF f, S, C, H

\* Rows as long as the longest have all entries (ell-matrix.cpp, ell_spmv).
THEOREM EllProductIs ==
  ASSUME NEW m, IsMatrix(m), NEW x, IsVector(x, m), NEW r \in Rows(m), NEW skip
  PROVE  EllRow(EllOf(m, skip), x, r) = Product(m, x, r)
<1> DEFINE longest == MaxRowLength(m)
           n == RowLength(m, r)
           a == RowStart(m, r)
           g == SortedTerms(m, x)
           P == Padded(m, longest, skip, UndefinedColumn)
<1>1. longest \in Nat /\ n \in Nat /\ n <= longest
  BY LengthsAre, RowLengthIs
<1>2. EllOf(m, skip) = P
  BY DEF EllOf
<1>3. RowStart(m, r + 1) = a + n
  BY RowLengthIs
<1> HIDE DEF longest, n, g, a
<1>4. EllRow(P, x, r) = SumFunctionOnSet(g, a + 1 .. a + AtMost(longest, n))
  BY <1>1, EllRowIs DEF g, a, n
<1>5. AtMost(longest, n) = n
  BY <1>1 DEF AtMost
<1>6. Product(m, x, r) = SumFunctionOnSet(g, a + 1 .. a + n)
  BY <1>3, ProductIs DEF g, a
<1>7. QED
  BY <1>2, <1>4, <1>5, <1>6

\* All sums are of integers.
LEMMA ProductIsInt ==
  ASSUME NEW m, IsMatrix(m), NEW x, IsVector(x, m), NEW r \in Rows(m)
  PROVE  Product(m, x, r) \in Int
<1> DEFINE K == RowStart(m, r) + 1 .. RowStart(m, r + 1)
           g == SortedTerms(m, x)
<1>1. K \subseteq DOMAIN m.entries /\ IsFiniteSet(K)
  <2>1. /\ RowStart(m, r) \in Nat /\ RowStart(m, r + 1) \in Nat
        /\ RowStart(m, r + 1) <= Len(m.entries) /\ DOMAIN m.entries = 1 .. Len(m.entries)
        /\ Len(m.entries) \in Nat
    BY RowPlaces, EntriesAre
  <2> DEFINE a == RowStart(m, r)
             b == RowStart(m, r + 1)
  <2>2. a + 1 \in Int /\ b \in Int /\ K \subseteq DOMAIN m.entries
    BY <2>1
  <2> HIDE DEF a, b
  <2>3. IsFiniteSet(a + 1 .. b)
    <3> DEFINE c == a + 1
    <3> HIDE DEF c
    <3>1. IsFiniteSet(c .. b)
      BY <2>2, IntervalSize DEF c
    <3>2. QED
      BY <3>1 DEF c
  <2>4. QED
    BY <2>2, <2>3 DEF a, b
<1>2. \A p \in K : g[p] \in Int
  BY <1>1, SortedTermsAre
<1> HIDE DEF K, g
<1>3. SumFunctionOnSet(g, K) \in Int
  BY <1>1, <1>2, SumIsInt
<1>4. QED
  BY <1>3, ProductIs DEF K, g

\* A sum with one number that is not zero.
LEMMA SumOfPicked ==
  ASSUME NEW f, NEW S, IsFiniteSet(S), NEW a \in S, f[a] \in Int,
         \A s \in S \ {a} : f[s] = 0
  PROVE  SumFunctionOnSet(f, S) = f[a]
<1> DEFINE T == {a}
<1>1. T \in SUBSET S /\ \A s \in S : f[s] \in Int
  OBVIOUS
<1>2. \A s \in S \ T : f[s] = 0
  OBVIOUS
<1> HIDE DEF T
<1>3. SumFunctionOnSet(f, S) = SumFunctionOnSet(f, T)
  BY <1>1, <1>2, SumOfRest
<1>4. SumFunctionOnSet(f, T) = f[a]
  BY SumOfOne DEF T
<1>5. QED
  BY <1>3, <1>4

\* A schedule gives each iteration to one thread,
LEMMA ScheduledIsShared ==
  ASSUME NEW n \in Nat, NEW c \in Nat \ {0}, NEW T \in Nat \ {0}
  PROVE  IsShared([t \in 0 .. T - 1 |-> Scheduled(n, c, T, t)], 0 .. T - 1, 0 .. n - 1)
<1> DEFINE share == [t \in 0 .. T - 1 |-> Scheduled(n, c, T, t)]
<1>1. share \in [0 .. T - 1 -> SUBSET (0 .. n - 1)]
  BY DEF Scheduled
<1>2. ASSUME NEW k \in 0 .. n - 1
      PROVE  \E t \in 0 .. T - 1 : k \in share[t]
  <2> DEFINE q == k \div c
             t == q % T
  <2>1. q \in Nat
    BY QuotientAndRest
  <2> HIDE DEF q
  <2>2. t \in 0 .. T - 1
    BY <2>1, QuotientAndRest
  <2>3. k \in Scheduled(n, c, T, t)
    BY DEF Scheduled, q
  <2> HIDE DEF t
  <2>4. k \in share[t]
    BY <2>2, <2>3
  <2>5. QED
    BY <2>2, <2>4
<1>3. \A t, u \in 0 .. T - 1 : t # u => share[t] \cap share[u] = {}
  BY DEF Scheduled
<1>4. QED
  BY <1>1, <1>2, <1>3 DEF IsShared

\* and so do blocks.
LEMMA BlocksAreShared ==
  ASSUME NEW n \in Nat, NEW T \in Nat \ {0}
  PROVE  IsShared([t \in 0 .. T - 1 |-> Block(n, T, t)], 0 .. T - 1, 0 .. n - 1)
<1> DEFINE share == [t \in 0 .. T - 1 |-> Block(n, T, t)]
<1>1. share \in [0 .. T - 1 -> SUBSET (0 .. n - 1)]
  BY BlockIsWithin
<1>2. BlockStart(n, T, 0) = 0 /\ BlockStart(n, T, T) = n
  <2> DEFINE q == n \div T
             e == n % T
  <2>1. q \in Nat /\ e \in 0 .. T - 1 /\ n = (q * T) + e
    BY QuotientAndRest
  <2> HIDE DEF q, e
  <2>2. BlockStart(n, T, 0) = (0 * q) + AtMost(e, 0) /\ BlockStart(n, T, T) = (T * q) + AtMost(e, T)
    BY DEF BlockStart, q, e
  <2>3. AtMost(e, 0) = 0 /\ AtMost(e, T) = e /\ T * q = q * T /\ 0 * q = 0
    BY <2>1 DEF AtMost
  <2>4. QED
    BY <2>1, <2>2, <2>3
<1>3. ASSUME NEW k \in 0 .. n - 1
      PROVE  \E t \in 0 .. T - 1 : k \in Block(n, T, t)
  <2> DEFINE G == {t \in 0 .. T : BlockStart(n, T, t) <= k \/ \E u \in 0 .. T - 1 : k \in Block(n, T, u)}
  <2>1. 0 \in G
    BY <1>2
  <2>2. ASSUME NEW t \in 0 .. T - 1, t \in G
        PROVE  t + 1 \in G
    <3>4. BlockStart(n, T, t) \in Nat /\ BlockStart(n, T, t + 1) \in Nat
      <4>1. t \in Nat /\ t + 1 \in Nat /\ t <= t + 1
        OBVIOUS
      <4>2. QED
        BY <4>1, BlockStartGrows
    <3>1. CASE BlockStart(n, T, t) <= k /\ k < BlockStart(n, T, t + 1)
      <4>2. k \in Block(n, T, t)
        BY <3>1, <3>4 DEF Block
      <4>3. QED
        BY <4>2
    <3>2. CASE BlockStart(n, T, t + 1) <= k
      BY <3>2
    <3>3. CASE \E u \in 0 .. T - 1 : k \in Block(n, T, u)
      BY <3>3
    <3>5. QED
      BY <2>2, <3>1, <3>2, <3>3, <3>4
  <2>3. \A t \in 0 .. T : t \in G
    <3> HIDE DEF G
    <3>1. QED
      BY <2>1, <2>2, UpTo
  <2>4. T \in G
    BY <2>3
  <2>5. ~ (n <= k)
    OBVIOUS
  <2>6. QED
    BY <1>2, <2>4, <2>5
<1>4. \A t, u \in 0 .. T - 1 : t # u => share[t] \cap share[u] = {}
  BY BlocksDiffer
<1>5. \A k \in 0 .. n - 1 : \E t \in 0 .. T - 1 : k \in share[t]
  BY <1>3
<1>6. QED
  BY <1>1, <1>4, <1>5 DEF IsShared
=============================================================================
