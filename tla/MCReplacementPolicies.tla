----------------------- MODULE MCReplacementPolicies ------------------------
(* Four lines of two bytes, of which one is referenced at both its bytes;  *)
(* caches of three lines and an LRU cache of two.                          *)
EXTENDS ReplacementPolicies

MCAddresses == {0, 1, 2, 4, 6}
=============================================================================
