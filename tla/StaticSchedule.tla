--------------------------- MODULE StaticSchedule ---------------------------
(***************************************************************************)
(* How n iterations, rows or elements 0 .. n-1 are shared out among T      *)
(* threads: by the OpenMP runtime, for the loops of the kernels, and by    *)
(* the code's own arithmetic, which the reference strings and the page     *)
(* distribution use to predict it.                                         *)
(***************************************************************************)
EXTENDS Integers

CeilDiv(n, d) == (n + d - 1) \div d

AtMost(n, k) == IF k <= n THEN k ELSE n

\* schedule(static, chunk): blocks of chunk iterations dealt out in turn.
\* Not defined for chunk <= 0.
Scheduled(n, chunk, T, t) == {k \in 0 .. n - 1 : (k \div chunk) % T = t}

\* No schedule clause: GCC gives each thread one block, and the first
\* n % T threads one iteration more.
BlockStart(n, T, t) == t * (n \div T) + AtMost(n % T, t)
Block(n, T, t) == BlockStart(n, T, t) .. BlockStart(n, T, t + 1) - 1

\* Mutants of ThreadStart: rows_per_thread rounded down; balanced blocks.
ThreadStartRoundedDown(n, T, t) == AtMost(n, t * (n \div T))
ThreadStartBalanced(n, T, t) == BlockStart(n, T, t)

\* start_row .. end_row - 1, with rows_per_thread rounded up.
ThreadStart(n, T, t) == AtMost(n, t * CeilDiv(n, T))
ThreadRange(n, T, t) == ThreadStart(n, T, t) .. ThreadStart(n, T, t + 1) - 1
=============================================================================
