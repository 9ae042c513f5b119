----------------------------- MODULE MCCaseFile -----------------------------
(* TLC instance of CaseFile: two complaints at two stations, two staff     *)
(* accounts that the administrator may move, promote and deactivate.       *)
EXTENDS CaseSchema, TLC

CONSTANTS c1, c2, i1, i2, s1, s2

\* Both officers start as investigators of the first station.
MCInitialPosting ==
    [o \in Officer |-> [station |-> s1, role |-> "INVESTIGATING_OFFICER", active |-> TRUE]]

\* What the administrator may turn a staff account into: an investigator of
\* either station, or one who is not active, or a charge officer.
MCNewPostings ==
    {[station |-> s, role |-> "INVESTIGATING_OFFICER", active |-> TRUE] : s \in Station}
    \cup {[station |-> s1, role |-> "INVESTIGATING_OFFICER", active |-> FALSE],
          [station |-> s1, role |-> "CHARGE_OFFICER", active |-> TRUE]}

\* The officers are interchangeable.
Staff == Permutations(Officer)
=============================================================================
