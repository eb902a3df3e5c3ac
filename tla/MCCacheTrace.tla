--------------------------- MODULE MCCacheTrace -----------------------------
(* Two first-level caches of one and two lines and a second-level cache of *)
(* three lines, in every arrangement of parents, with two threads.         *)
EXTENDS CacheTrace

MCCacheOrder == <<"L1a", "L1b", "L2">>
MCCacheSize == [L1a |-> 2, L1b |-> 4, L2 |-> 6]
MCLineSize == [L1a |-> 2, L1b |-> 2, L2 |-> 2]

\* A stream, a reuse across the line boundary, and threads that share lines.
MCStringChoices ==
  LET a == <<0, 0>>  b == <<2, 1>>  c == <<5, 0>>  d == <<6, 1>>
  IN  { <<<<a, b, a>>, <<>>>>, <<<<a, b, c, d>>, <<a, b>>>>,
        <<<<a, b, c>>, <<a, b, c>>>>, <<<<a, a, b>>, <<d, c, d, b>>>>,
        <<<<a, b, a, c, b>>, <<c, c, a>>>> }

MCStrings == {[i \in {0, 1} |-> s[i + 1]] : s \in MCStringChoices}
=============================================================================
