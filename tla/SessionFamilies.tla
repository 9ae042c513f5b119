--------------------------- MODULE SessionFamilies ---------------------------
(***************************************************************************)
(* What session rotation promises for one account.  A sign-in starts a     *)
(* family of sessions, named by the first; at every moment at most one     *)
(* session of a family can be used; a refresh replaces it by one that was  *)
(* never used before; and a family that has ended, by logout, reuse of an  *)
(* old token, expiry, password recovery or a change of the account, never  *)
(* comes back.                                                             *)
(***************************************************************************)
CONSTANT Session

VARIABLES
    holder,      \* the sessions of each family that can be used
    issued       \* the sessions issued so far

familyVars == <<holder, issued>>

Live == {f \in Session : holder[f] # {}}

FamilyInit ==
    /\ holder = [f \in Session |-> {}]
    /\ issued = {}

\* The families in F end.
Without(F) == [f \in Session |-> IF f \in F THEN {} ELSE holder[f]]

SignIn(n) ==
    /\ n \notin issued
    /\ holder' = [holder EXCEPT ![n] = {n}]
    /\ issued' = issued \cup {n}

Rotate(f, n) ==
    /\ f \in Live
    /\ n \notin issued
    /\ holder' = [holder EXCEPT ![f] = {n}]
    /\ issued' = issued \cup {n}

End(F) ==
    /\ holder' = Without(F)
    /\ UNCHANGED issued

\* All families end and a new one starts, in one transaction.
Restart(n) ==
    /\ n \notin issued
    /\ holder' = [Without(Live) EXCEPT ![n] = {n}]
    /\ issued' = issued \cup {n}

FamilyNext ==
    \/ \E n \in Session : SignIn(n) \/ Restart(n)
    \/ \E f, n \in Session : Rotate(f, n)
    \/ \E F \in SUBSET Live : End(F)

FamilySpec == FamilyInit /\ [][FamilyNext]_familyVars

-----------------------------------------------------------------------------
\* What is in use was issued, and so was the session that names its family.
HoldersIssued ==
    \A f \in Session : holder[f] \subseteq issued /\ (holder[f] # {} => f \in issued)

\* A family has one session in use at most, and no session is in use in two.
OneHolder ==
    \A f, g \in Session : \A m \in holder[f], n \in holder[g] : f = g <=> m = n

\* A session that was issued and cannot be used never comes back into use, and
\* a family that has ended is not continued by a new session either.
EndedForGood ==
    [][\A f \in Session :
          /\ f \in issued /\ holder[f] = {} => holder'[f] = {}
          /\ \A n \in issued : n \in holder'[f] => n \in holder[f]]_familyVars
=============================================================================
