-------------------------- MODULE PageDistribution --------------------------
(***************************************************************************)
(* aligned-allocator.hpp: which thread each page of an array is given to,  *)
(* and which page, hence which thread, an element belongs to.  An array    *)
(* starts at address p and has n elements of `size` bytes each; p and the  *)
(* size of a page are multiples of the size of an element.                 *)
(***************************************************************************)
EXTENDS StaticSchedule

AlignDown(p, page_size) == p - (p % page_size)

NumPages(p, size, n, page_size) ==
  CeilDiv(p + n * size - AlignDown(p, page_size), page_size)

PageAddress(p, page, page_size) == AlignDown(p, page_size) + page * page_size

\* The threads (one at most) whose elements include that at the address.
OwnersOf(p, size, n, T, address) ==
  {t \in 0 .. T - 1 : /\ p + size * ThreadStart(n, T, t) <= address
                      /\ address < p + size * ThreadStart(n, T, t + 1)}

\* A page before the first element, as after the last, goes to the last thread.
ThreadOfPage(p, size, n, T, page, page_size) ==
  LET owners == OwnersOf(p, size, n, T, PageAddress(p, page, page_size))
  IN  IF owners = {} THEN T - 1
      ELSE CHOOSE t \in owners : \A u \in owners : t <= u

\* Mutant of PageOfIndex: counted from p instead of from the page p lies in.
PageOfIndexFromStart(p, size, n, index, page_size) ==
  LET page == (size * index) \div page_size
      num_pages == NumPages(p, size, n, page_size)
  IN  IF page \in 0 .. num_pages - 1 THEN page ELSE num_pages - 1

\* The loop leaves the pages behind one by one; it ends at the last page with
\* an index that is too large (a negative one is converted to size_t).
PageOfIndex(p, size, n, index, page_size) ==
  LET page == (p + size * index - AlignDown(p, page_size)) \div page_size
      num_pages == NumPages(p, size, n, page_size)
  IN  IF index >= 0 /\ page < num_pages THEN page ELSE num_pages - 1

ThreadOfIndex(p, size, n, index, T, page_size) ==
  ThreadOfPage(p, size, n, T, PageOfIndex(p, size, n, index, page_size), page_size)

\* Where distribute_pages moves the pages of an array, if the kernel can.
Distributed(p, size, n, T, page_size) ==
  [page \in 0 .. NumPages(p, size, n, page_size) - 1 |->
     ThreadOfPage(p, size, n, T, page, page_size)]
=============================================================================
