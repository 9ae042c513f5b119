----------------------------- MODULE MCCaseEmail -----------------------------
(* TLC instance of CaseEmail: two events that two transactions may report, *)
(* two rows, two workers and two addresses.                                *)
EXTENDS CaseEmail, TLC

CONSTANTS e1, e2, q1, q2, w1, w2, a1, a2
=============================================================================
