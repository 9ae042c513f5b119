--------------------------- MODULE MCCaseRequests ---------------------------
(* TLC instances of CaseRequests.  Each cfg chooses the operations that    *)
(* compete, the staff and the number of requests open at once.             *)
EXTENDS CaseRequests, TLC

CONSTANTS c1, c2, charge, commander, i1, i2, s1, s2, r1, r2

\* One officer of each kind at the first station.
MCInitialPosting ==
    [o \in Officer |->
        [station |-> s1, active |-> TRUE,
         role |-> CASE o = charge -> "CHARGE_OFFICER"
                    [] o = commander -> "STATION_COMMANDER"
                    [] OTHER -> "INVESTIGATING_OFFICER"]]

\* What the administrator may turn a staff account into: a charge officer of
\* either station, active or not.
MCDeskPostings ==
    {p \in {[station |-> s1, role |-> "CHARGE_OFFICER", active |-> FALSE],
            [station |-> s2, role |-> "CHARGE_OFFICER", active |-> TRUE]} : p.station \in Station}

\* An active investigator of either station.
MCCasePostings ==
    {[station |-> s, role |-> "INVESTIGATING_OFFICER", active |-> TRUE] : s \in Station}

\* Request slots are interchangeable.
Slots == Permutations(Request)
=============================================================================
