------------------------ MODULE MCTraceCacheMisses --------------------------
(* Two CPUs with strings of up to three references to three lines of two  *)
(* bytes, on two NUMA domains, share a cache of two lines.                 *)
EXTENDS TraceCacheMisses

MCAddresses == {0, 2, 5}
MCReferences == {<<0, 0>>, <<2, 0>>, <<5, 1>>}
=============================================================================
