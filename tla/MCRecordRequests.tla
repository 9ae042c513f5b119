-------------------------- MODULE MCRecordRequests --------------------------
(* TLC instance of RecordRequests: two transactions on one case and on the  *)
(* intake of a station.                                                     *)
EXTENDS RecordRequests

CONSTANTS p1, p2, k1, k2, m1, m2

\* Request slots and object keys are interchangeable.
Symmetry == Permutations(Request) \cup Permutations(Key) \cup Permutations(Manager)
=============================================================================
