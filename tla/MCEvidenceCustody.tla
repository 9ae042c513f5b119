-------------------------- MODULE MCEvidenceCustody --------------------------
(* TLC instance of EvidenceCustody: two investigators and the charge desk,   *)
(* two transactions at a time.                                               *)
EXTENDS EvidenceCustody, TLC

CONSTANTS i1, i2, k1, k2, p1, p2

\* Investigators, object keys and request slots are interchangeable.
Symmetry == Permutations(Officer) \cup Permutations(Key) \cup Permutations(Request)
=============================================================================
