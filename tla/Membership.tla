---------------------------- MODULE Membership ----------------------------
(* What the trust records promise, without records: a cluster is a set of    *)
(* members that starts as the root alone.  A member may bring anyone in who  *)
(* was never revoked and may take anyone out, itself and the root included;  *)
(* what it did while it was a member stands when it is taken out later.      *)
CONSTANTS Identity, Root

VARIABLES
    members,    \* who is a member
    revoked     \* who may never be one again

Init == members = {Root} /\ revoked = {}

Admit(n, j) ==
    /\ n \in members
    /\ members' = members \cup ({j} \ revoked)
    /\ UNCHANGED revoked

Revoke(n, x) ==
    /\ n \in members
    /\ members' = members \ {x}
    /\ revoked' = revoked \cup {x}

Next == \E n, x \in Identity : Admit(n, x) \/ Revoke(n, x)

Spec == Init /\ [][Next]_<<members, revoked>>
=============================================================================
