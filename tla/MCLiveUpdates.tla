---------------------------- MODULE MCLiveUpdates ----------------------------
EXTENDS LiveUpdates, TLC

CONSTANTS s1, s2, n1, c1, c2

(* Sessions and pages are interchangeable.                                 *)
Interchangeable == Permutations({s1, s2}) \cup Permutations({c1, c2})

=============================================================================
