---------------------------- MODULE AbstractLRU -----------------------------
(***************************************************************************)
(* What a least-recently-used cache of CacheLines lines promises, with no  *)
(* set and no queue: each line has an age, the number of distinct lines    *)
(* referenced since its own last reference, and a line is resident exactly *)
(* while its age is below CacheLines.  Ages saturate at CacheLines.        *)
(***************************************************************************)
EXTENDS Naturals

CONSTANTS CacheLines, Lines

VARIABLES age, ret

vars == <<age, ret>>

Resident == {y \in Lines : age[y] < CacheLines}

\* Any residents, aged 0, 1, 2 ... without gaps: no two share an age.
Init ==
  /\ age \in [Lines -> 0 .. CacheLines]
  /\ \A y \in Resident :
       /\ \A z \in Resident : age[y] = age[z] => y = z
       /\ \A a \in 0 .. age[y] : \E z \in Resident : age[z] = a
  /\ ret = 0

\* A reference to y makes it the youngest; the lines younger than y age by
\* one.  A line that is not resident is older than all residents.
Reference(y) ==
  /\ ret' = IF age[y] < CacheLines THEN 0 ELSE 1
  /\ age' = [z \in Lines |->
               IF z = y THEN 0
               ELSE IF age[z] < age[y] THEN age[z] + 1
               ELSE age[z]]

Next == \E y \in Lines : Reference(y)

Spec == Init /\ [][Next]_vars
=============================================================================
