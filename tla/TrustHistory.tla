--------------------------- MODULE TrustHistory ---------------------------
(* One cluster whose members always hear of each other's records at once,    *)
(* and one node that hears of them, from members, in any order.  The records *)
(* are made the way Cluster.admit, Cluster.Revoke and Cluster.RevokeSelf     *)
(* make them.  None of these asks whether the node is still a member; but    *)
(* what a node signs that the others no longer trust does not get to them    *)
(* (the transport drops what it sends).  That a node acts as a member after  *)
(* it was revoked, because it or those it talks to have not heard, is in     *)
(* Gossip and not here.                                                      *)
(*                                                                           *)
(* The question is whether judging every record from the root at query time  *)
(* gives the membership that the operations, taken in order, promise.        *)
EXTENDS Trust

CONSTANTS
    HostName,   \* the os.Hostname of the node with each identity
    SameSecond, \* whether two records may carry the same unix second
    Reenrols    \* whether a node that has already acted as a member may lose
                \* its state (a save that failed) and enrol again

ASSUME HistoryAssumption ==
    /\ HostName \in [Identity -> Name]
    /\ SameSecond \in BOOLEAN
    /\ Reenrols \in BOOLEAN

VARIABLES
    now,        \* the clock
    set,        \* the records as the members know them
    pending,    \* records that have not reached the late node
    late        \* the records of the late node

historyVars == <<now, set, pending, late>>

RootSet == AddAdmission(NewSet, SelfAdmit(Root, HostName[Root], 0))

HistoryInit ==
    /\ now = 0
    /\ set = RootSet
    /\ pending = {}
    /\ late = RootSet

Tick == now' \in (IF SameSecond THEN {now, now + 1} ELSE {now + 1}) \cap Time

(* An identity enrols again only while it has signed nothing: its state file *)
(* holds the seed alone until New has saved the root and the records.        *)
Signed(j) ==
    \/ \E i \in DOMAIN set.adm : set.adm[i].admitter = j
    \/ \E i \in DOMAIN set.rev : set.rev[i].revoker = j

MayEnrol(j) == j \notin DOMAIN set.adm \/ ~Signed(j) \/ Reenrols

(* broadcast: the others take the record r, which makes their set s, if they *)
(* take the node n that signed it for a member (quicTransport.serve).        *)
Spread(n, s, r) ==
    /\ IF Valid(set, n) THEN set' = s /\ pending' = pending \cup {r}
                        ELSE UNCHANGED <<set, pending>>
    /\ UNCHANGED late

admitHost(s, j) ==
    IF j \in DOMAIN s.adm /\ Valid(s, j) THEN s.adm[j].host ELSE FreeHost(s)

admit(n, j) ==
    LET host == admitHost(set, j)
        a == Admit(n, j, HostName[j], host, now')
    IN  /\ j # n
        /\ MayEnrol(j)
        /\ ~NameTaken(set, HostName[j], j)
        /\ host # 0
        /\ Tick
        /\ Spread(n, AddAdmission(set, a), a)

(* Cluster.Revoke, and Cluster.RevokeSelf when x is n.                       *)
revoke(n, x) ==
    LET r == Revoke(n, x, now')
    IN  /\ Tick
        /\ Spread(n, AddRevocation(set, r), r)

Deliver(r) ==
    /\ pending' = pending \ {r}
    /\ late' = IF "admitter" \in DOMAIN r THEN AddAdmission(late, r)
                                          ELSE AddRevocation(late, r)
    /\ UNCHANGED <<now, set>>

HistoryNext ==
    \/ \E n, x \in Identity : admit(n, x) \/ revoke(n, x)
    \/ \E r \in pending : Deliver(r)

HistorySpec == HistoryInit /\ [][HistoryNext]_historyVars

-----------------------------------------------------------------------------
(* The cluster as its operators see it.                                      *)
Abstract == INSTANCE Membership WITH members <- Members(set), revoked <- DOMAIN set.rev

(* Judging the records at query time gives, after every operation, the       *)
(* membership the operations promise when they are taken in order: what a    *)
(* member did before it was revoked stands, what it is judged to have done   *)
(* afterwards does not, and the root is a member like the others             *)
(* (Set.Valid and Set.validAt).                                              *)
JudgedAsPromised == Abstract!Spec

(* A node that has received every record, in whatever order, judges every    *)
(* identity as the others do ("records may arrive in any order").            *)
ArrivalOrderIrrelevant ==
    pending = {} => Members(late) = Members(set)

(* Two members never hold one overlay slot, although slots of revoked        *)
(* members are handed out again once every slot has been used (FreeHost).    *)
NoSharedSlot ==
    \A i, j \in validAdmissions(set) : set.adm[i].host = set.adm[j].host => i = j
=============================================================================
