------------------------------ MODULE SingleUse ------------------------------
(***************************************************************************)
(* What the two kinds of emailed link promise, whatever calls overlap: a   *)
(* password changes only together with the consumption of one issued       *)
(* permit, and a permit that has been consumed or withdrawn stays so.      *)
(***************************************************************************)
CONSTANTS Permits, Initial

VARIABLES state, password

vars == <<state, password>>

Init ==
    /\ state \in [Permits -> {"none", "issued"}]
    /\ password = Initial

Issue(p) ==
    /\ state[p] = "none"
    /\ state' = [state EXCEPT ![p] = "issued"]
    /\ UNCHANGED password

Use(p) ==
    /\ state[p] = "issued"
    /\ state' = [state EXCEPT ![p] = "used"]
    /\ password' = p

\* One call may withdraw several permits.
Withdraw(S) ==
    /\ \A p \in S : state[p] = "issued"
    /\ state' = [p \in Permits |-> IF p \in S THEN "withdrawn" ELSE state[p]]
    /\ UNCHANGED password

Next ==
    \/ \E p \in Permits : Issue(p) \/ Use(p)
    \/ \E S \in SUBSET Permits : Withdraw(S)

Spec == Init /\ [][Next]_vars
=============================================================================
