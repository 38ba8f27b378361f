---------------------------- MODULE GossipProofs ----------------------------
(* Proofs about Gossip, for every number of nodes, names, slots and crashes  *)
(* and every length of time: records stay well formed, filed under their own *)
(* identity and each with a second of its own; what a node knows only grows; *)
(* no node ever gives one overlay slot to two identities; any two nodes that *)
(* push and pull come out with the same records; and whoever has left stays  *)
(* out wherever that is known.  Who is judged a member, and so who is        *)
(* reached, matters to the last only.                                        *)
EXTENDS Gossip, TrustProofs

Fine(s) == IsTrustSet(s) /\ Keyed(s)

-----------------------------------------------------------------------------
(* What the operators do to one set. *)

(* A set without records is fine.                                            *)
LEMMA FineNew == Fine(NewSet)
  BY DEF Fine, NewSet, IsTrustSet, IsPartial, Keyed

(* A set, and a queue, to which a new admission is written.                  *)
LEMMA FinePutAdm ==
    ASSUME NEW s, Fine(s), NEW a \in Admission
    PROVE  Fine(broadcastAdm(s, a)) /\ Fine(AddAdmission(s, a))
<1>1. broadcastAdm(s, a) = [adm |-> Put(s.adm, a.identity, a), rev |-> s.rev]
  BY DEF broadcastAdm, Fine, IsTrustSet
<1>2. a.identity \in Identity /\ IsPartial(s.adm, Identity, Admission)
  BY DEF Admission, Fine, IsTrustSet
<1>3. /\ IsPartial(Put(s.adm, a.identity, a), Identity, Admission)
      /\ \A i \in DOMAIN Put(s.adm, a.identity, a) : Put(s.adm, a.identity, a)[i].identity = i
  BY <1>2 DEF IsPartial, Put, Fine, Keyed
<1>4. Fine(broadcastAdm(s, a))
  BY <1>1, <1>3 DEF Fine, IsTrustSet, Keyed
<1> QED
  BY <1>4 DEF AddAdmission, broadcastAdm

(* A set, and a queue, to which a new revocation is written.                 *)
LEMMA FinePutRev ==
    ASSUME NEW s, Fine(s), NEW r \in Revocation
    PROVE  Fine(broadcastRev(s, r)) /\ Fine(AddRevocation(s, r))
<1>1. broadcastRev(s, r) = [adm |-> s.adm, rev |-> Put(s.rev, r.identity, r)]
  BY DEF broadcastRev, Fine, IsTrustSet
<1>2. r.identity \in Identity /\ IsPartial(s.rev, Identity, Revocation)
  BY DEF Revocation, Fine, IsTrustSet
<1>3. /\ IsPartial(Put(s.rev, r.identity, r), Identity, Revocation)
      /\ \A i \in DOMAIN Put(s.rev, r.identity, r) : Put(s.rev, r.identity, r)[i].identity = i
  BY <1>2 DEF IsPartial, Put, Fine, Keyed
<1>4. Fine(broadcastRev(s, r))
  BY <1>1, <1>3 DEF Fine, IsTrustSet, Keyed
<1> QED
  BY <1>4 DEF AddRevocation, broadcastRev

(* A queue from which a broadcast is dropped.                                *)
LEMMA FineDrop ==
    ASSUME NEW q, Fine(q), NEW i
    PROVE  Fine(dropAdm(q, i)) /\ Fine(dropRev(q, i))
<1>1. /\ dropAdm(q, i) = [adm |-> Without(q.adm, i), rev |-> q.rev]
      /\ dropRev(q, i) = [adm |-> q.adm, rev |-> Without(q.rev, i)]
  BY DEF Fine, IsTrustSet, dropAdm, dropRev
<1>2. /\ IsPartial(Without(q.adm, i), Identity, Admission)
      /\ IsPartial(Without(q.rev, i), Identity, Revocation)
  BY DEF Fine, IsTrustSet, IsPartial, Without
<1>3. /\ \A j \in DOMAIN Without(q.adm, i) : Without(q.adm, i)[j].identity = j
      /\ \A j \in DOMAIN Without(q.rev, i) : Without(q.rev, i)[j].identity = j
  BY DEF Fine, Keyed, Without
<1> QED
  BY <1>1, <1>2, <1>3 DEF Fine, IsTrustSet, Keyed

(* A set that has merged another.                                            *)
LEMMA FineMerge ==
    ASSUME NEW s, NEW rs, Fine(s), Fine(rs)
    PROVE  Fine(Merge(s, rs))
<1>1. /\ IsPartial(Merge(s, rs).adm, Identity, Admission)
      /\ IsPartial(Merge(s, rs).rev, Identity, Revocation)
  BY DEF Fine, IsTrustSet, IsPartial, Merge
<1>2. Keyed(Merge(s, rs))
  BY DEF Fine, Keyed, Merge
<1>3. Merge(s, rs) = [adm |-> Merge(s, rs).adm, rev |-> Merge(s, rs).rev]
  BY DEF Merge
<1> QED
  BY <1>1, <1>2, <1>3 DEF Fine, IsTrustSet

(* Each of them only adds to a set: an admission is replaced by a newer one, *)
(* a revocation by nothing.                                                  *)
LEMMA SetsGrow ==
    ASSUME NEW s, Fine(s)
    PROVE  /\ Grows(s, s)
           /\ Grows(NewSet, s)
           /\ \A a \in Admission : Grows(s, AddAdmission(s, a))
           /\ \A r \in Revocation : Grows(s, AddRevocation(s, r))
           /\ \A rs : Fine(rs) => Grows(s, Merge(s, rs))
<1>1. \A i \in DOMAIN s.adm : s.adm[i].issuedAt \in Int
  BY DEF Fine, IsTrustSet, IsPartial, Admission, Time
<1>2. Grows(s, s) /\ Grows(NewSet, s)
  BY <1>1 DEF Grows, NewSet
<1>3. ASSUME NEW a \in Admission PROVE Grows(s, AddAdmission(s, a))
  <2>1. CASE StoresAdmission(s, a)
    <3>1. AddAdmission(s, a) = [adm |-> Put(s.adm, a.identity, a), rev |-> s.rev]
      BY <2>1 DEF AddAdmission, Fine, IsTrustSet
    <3>2. a.issuedAt \in Int
      BY DEF Admission, Time
    <3>3. \A i \in DOMAIN s.adm : s.adm[i].issuedAt <= Put(s.adm, a.identity, a)[i].issuedAt
      BY <1>1, <2>1, <3>2 DEF Put, StoresAdmission
    <3>4. DOMAIN s.adm \subseteq DOMAIN Put(s.adm, a.identity, a)
      BY DEF Put
    <3> QED
      BY <3>1, <3>3, <3>4 DEF Grows
  <2> QED
    BY <1>2, <2>1 DEF AddAdmission
<1>4. ASSUME NEW r \in Revocation PROVE Grows(s, AddRevocation(s, r))
  <2>1. CASE StoresRevocation(s, r)
    <3>1. AddRevocation(s, r) = [adm |-> s.adm, rev |-> Put(s.rev, r.identity, r)]
      BY <2>1 DEF AddRevocation, Fine, IsTrustSet
    <3>2. \A i \in DOMAIN s.rev : i \in DOMAIN Put(s.rev, r.identity, r) /\ Put(s.rev, r.identity, r)[i] = s.rev[i]
      BY <2>1 DEF Put, StoresRevocation
    <3> QED
      BY <1>1, <3>1, <3>2 DEF Grows
  <2> QED
    BY <1>2, <2>1 DEF AddRevocation
<1>5. ASSUME NEW rs, Fine(rs) PROVE Grows(s, Merge(s, rs))
  <2>1. \A i \in DOMAIN rs.adm : rs.adm[i].identity = i /\ rs.adm[i].issuedAt \in Int
    BY <1>5 DEF Fine, Keyed, IsTrustSet, IsPartial, Admission, Time
  <2>2. \A i \in DOMAIN rs.rev : rs.rev[i].identity = i
    BY <1>5 DEF Fine, Keyed
  <2>3. /\ DOMAIN s.adm \subseteq DOMAIN Merge(s, rs).adm
        /\ \A i \in DOMAIN s.adm : s.adm[i].issuedAt <= Merge(s, rs).adm[i].issuedAt
    BY <1>1, <2>1 DEF Merge, StoresAdmission
  <2>4. /\ DOMAIN s.rev \subseteq DOMAIN Merge(s, rs).rev
        /\ \A i \in DOMAIN s.rev : Merge(s, rs).rev[i] = s.rev[i]
    BY <2>2 DEF Merge, StoresRevocation
  <2> QED
    BY <2>3, <2>4 DEF Grows
<1> QED
  BY <1>2, <1>3, <1>4, <1>5

(* What AddAdmission asks of a record besides being newer.                   *)
Admissible(a) == ValidateAdmission(a) /\ (a.admitter = a.identity => a.identity = Root)

(* What each operator adds to the records of a set, all of which stay        *)
(* acceptable: nothing to none,                                              *)
LEMMA NewHolds == Acceptable(NewSet) /\ Records(NewSet) = {}
  BY DEF Acceptable, Records, NewSet, Range

(* one admission,                                                            *)
LEMMA AdmHolds ==
    ASSUME NEW s, Fine(s), Acceptable(s), NEW a \in Admission, Admissible(a)
    PROVE  /\ Acceptable(AddAdmission(s, a)) /\ Records(AddAdmission(s, a)) \subseteq Records(s) \cup {a}
           /\ Acceptable(broadcastAdm(s, a)) /\ Records(broadcastAdm(s, a)) \subseteq Records(s) \cup {a}
<1> DEFINE t == broadcastAdm(s, a)
<1>1. t = [adm |-> Put(s.adm, a.identity, a), rev |-> s.rev]
  BY DEF broadcastAdm, Fine, IsTrustSet
<1>2. /\ DOMAIN t.adm = DOMAIN s.adm \cup {a.identity} /\ t.rev = s.rev
      /\ \A i \in DOMAIN t.adm : t.adm[i] = IF i = a.identity THEN a ELSE s.adm[i]
  BY <1>1 DEF Put
<1> HIDE DEF t
<1>3. Acceptable(t)
  BY <1>2 DEF Acceptable, Admissible
<1>4. Records(t) \subseteq Records(s) \cup {a}
  BY <1>2 DEF Records, Range
<1>5. AddAdmission(s, a) = s \/ AddAdmission(s, a) = t
  BY DEF AddAdmission, broadcastAdm, t
<1> QED BY <1>3, <1>4, <1>5 DEF t

(* one revocation,                                                           *)
LEMMA RevHolds ==
    ASSUME NEW s, Fine(s), Acceptable(s), NEW r \in Revocation, ValidateRevocation(r)
    PROVE  /\ Acceptable(AddRevocation(s, r)) /\ Records(AddRevocation(s, r)) \subseteq Records(s) \cup {r}
           /\ Acceptable(broadcastRev(s, r)) /\ Records(broadcastRev(s, r)) \subseteq Records(s) \cup {r}
<1> DEFINE t == broadcastRev(s, r)
<1>1. t = [adm |-> s.adm, rev |-> Put(s.rev, r.identity, r)]
  BY DEF broadcastRev, Fine, IsTrustSet
<1>2. /\ DOMAIN t.rev = DOMAIN s.rev \cup {r.identity} /\ t.adm = s.adm
      /\ \A i \in DOMAIN t.rev : t.rev[i] = IF i = r.identity THEN r ELSE s.rev[i]
  BY <1>1 DEF Put
<1> HIDE DEF t
<1>3. Acceptable(t)
  BY <1>2 DEF Acceptable
<1>4. Records(t) \subseteq Records(s) \cup {r}
  BY <1>2 DEF Records, Range
<1>5. AddRevocation(s, r) = s \/ AddRevocation(s, r) = t
  BY DEF AddRevocation, broadcastRev, t
<1> QED BY <1>3, <1>4, <1>5 DEF t

(* less than it had,                                                         *)
LEMMA DropHolds ==
    ASSUME NEW q, Fine(q), Acceptable(q), NEW i
    PROVE  /\ Acceptable(dropAdm(q, i)) /\ Records(dropAdm(q, i)) \subseteq Records(q)
           /\ Acceptable(dropRev(q, i)) /\ Records(dropRev(q, i)) \subseteq Records(q)
<1>1. /\ dropAdm(q, i) = [adm |-> Without(q.adm, i), rev |-> q.rev]
      /\ dropRev(q, i) = [adm |-> q.adm, rev |-> Without(q.rev, i)]
  BY DEF Fine, IsTrustSet, dropAdm, dropRev
<1>2. ASSUME NEW f PROVE /\ DOMAIN Without(f, i) \subseteq DOMAIN f
                         /\ \A j \in DOMAIN Without(f, i) : Without(f, i)[j] = f[j]
  BY DEF Without
<1> QED BY <1>1, <1>2 DEF Acceptable, Records, Range

(* or the records of both.                                                   *)
LEMMA MergeHolds ==
    ASSUME NEW s, NEW t, Fine(s), Fine(t), Acceptable(s), Acceptable(t)
    PROVE  Acceptable(Merge(s, t)) /\ Records(Merge(s, t)) \subseteq Records(s) \cup Records(t)
<1> DEFINE u == Merge(s, t)
<1>1. /\ \A i \in DOMAIN u.adm : (i \in DOMAIN s.adm /\ u.adm[i] = s.adm[i]) \/ (i \in DOMAIN t.adm /\ u.adm[i] = t.adm[i])
      /\ \A i \in DOMAIN u.rev : (i \in DOMAIN s.rev /\ u.rev[i] = s.rev[i]) \/ (i \in DOMAIN t.rev /\ u.rev[i] = t.rev[i])
  BY DEF Merge
<1> HIDE DEF u
<1>2. Acceptable(u)
  BY <1>1 DEF Acceptable
<1>3. Records(u) \subseteq Records(s) \cup Records(t)
  BY <1>1 DEF Records, Range
<1> QED BY <1>2, <1>3 DEF u

(* Two different claims on a slot are never equally strong.                  *)
LEMMA ClaimsOrdered ==
    ASSUME NEW s, Fine(s), NEW i \in DOMAIN s.adm, NEW j \in DOMAIN s.adm, i # j
    PROVE  StrongerClaim(s.adm[i], s.adm[j]) \/ StrongerClaim(s.adm[j], s.adm[i])
<1>1. /\ s.adm[i].issuedAt \in Int /\ s.adm[j].issuedAt \in Int
      /\ i \in Nat /\ j \in Nat
  BY TrustAssumption DEF Fine, IsTrustSet, IsPartial, Admission, Time
<1>2. s.adm[i].identity = i /\ s.adm[j].identity = j
  BY DEF Fine, Keyed
<1> QED
  BY <1>1, <1>2 DEF StrongerClaim

-----------------------------------------------------------------------------
(* The invariant. *)

(* GossipInv, with the parts about one set taken together.                   *)
LEMMA InvParts ==
    GossipInv <=>
        /\ now \in Time
        /\ crashes \in 0 .. MaxCrash
        /\ status \in [Identity -> {"out", "up", "down", "gone"}]
        /\ DOMAIN set = Identity /\ DOMAIN queue = Identity
        /\ \A n \in Identity : /\ Fine(set[n]) /\ Fine(queue[n])
                               /\ status[n] = "out" => set[n] = NewSet
        /\ SecondsDiffer
  BY DEF GossipInv, TypeOK, Fine

(* The records that admit, revoke and leave sign are well formed.            *)
LEMMA SignedFine ==
    ASSUME GossipInv, now < MaxTime, NEW n \in Identity, NEW x \in Identity
    PROVE  /\ now + 1 \in Time
           /\ Revoke(n, x, now + 1) \in Revocation
           /\ admitHost(set[n], x) # 0 =>
                 Admit(n, x, HostName[x], admitHost(set[n], x), now + 1) \in Admission
<1>1. now + 1 \in Time
  BY TrustAssumption DEF GossipInv, TypeOK, Time
<1>2. admitHost(set[n], x) \in Host \cup {0}
  <2>1. CASE x \in DOMAIN set[n].adm
    <3>1. set[n].adm[x].host \in Host
      BY <2>1 DEF GossipInv, TypeOK, IsTrustSet, IsPartial, Admission
    <3> QED
      BY <3>1, FreeHostType DEF admitHost
  <2>2. CASE x \notin DOMAIN set[n].adm
    BY <2>2, FreeHostType DEF admitHost
  <2> QED
    BY <2>1, <2>2
<1> QED
  BY <1>1, <1>2, GossipAssumption DEF Revoke, Revocation, Admit, Admission

(* The root alone, with its own admission.                                   *)
LEMMA GossipInit == Init => GossipInv
<1> SUFFICES ASSUME Init PROVE GossipInv
  OBVIOUS
<1>1. HostName[Root] \in Name
  BY TrustAssumption, GossipAssumption
<1>2. Fine(InitRoot)
  <2>1. SelfAdmit(Root, HostName[Root], 0) \in Admission
    BY <1>1, RootSetType
  <2> QED
    BY <2>1, FineNew, FinePutAdm DEF InitRoot
<1>3. \A n \in Identity : /\ Fine(set[n]) /\ Fine(queue[n])
                          /\ status[n] = "out" => set[n] = NewSet
  BY <1>2, FineNew DEF Init
<1>4. now \in Time /\ crashes \in 0 .. MaxCrash
  BY TrustAssumption, GossipAssumption DEF Init, Time
<1>5. status \in [Identity -> {"out", "up", "down", "gone"}] /\ DOMAIN set = Identity /\ DOMAIN queue = Identity
  BY DEF Init
<1>6. SecondsDiffer
  <2> DEFINE a == SelfAdmit(Root, HostName[Root], 0)
  <2>1. a \in Admission
    BY <1>1, RootSetType
  <2>2. Admissible(a) /\ a.issuedAt = 0
    BY <1>1 DEF Admissible, SelfAdmit, Admit, ValidateAdmission, rootHost
  <2>3. Acceptable(InitRoot) /\ Records(InitRoot) \subseteq {a}
    BY <2>1, <2>2, FineNew, NewHolds, AdmHolds DEF InitRoot
  <2>4. \A n \in Identity : /\ Acceptable(set[n]) /\ Acceptable(queue[n])
                            /\ Records(set[n]) \subseteq {a} /\ Records(queue[n]) = {}
    BY <2>3, NewHolds DEF Init
  <2> HIDE DEF a
  <2>5. Known \subseteq {a} /\ now = 0
    BY <2>4 DEF Known, Init
  <2> QED BY <2>2, <2>4, <2>5 DEF SecondsDiffer
<1> QED
  BY <1>3, <1>4, <1>5, <1>6, InvParts

(* Every step signs at most one record, with a second that no other has.     *)
LEMMA SecondsNext ==
    ASSUME GossipInv, [Next]_vars
    PROVE  SecondsDiffer'
<1> DEFINE Only(X) == \A m \in Identity :
               /\ Acceptable(set'[m]) /\ Records(set'[m]) \subseteq Known \cup X
               /\ Acceptable(queue'[m]) /\ Records(queue'[m]) \subseteq Known \cup X
           Signed == \E x : Only({x}) /\ x.issuedAt = now + 1 /\ now' = now + 1
           Nothing == Only({}) /\ now' = now
<1>0. /\ now \in Int
      /\ DOMAIN set = Identity /\ DOMAIN queue = Identity
      /\ \A n \in Identity : /\ Fine(set[n]) /\ Fine(queue[n])
                             /\ Acceptable(set[n]) /\ Acceptable(queue[n])
                             /\ Records(set[n]) \subseteq Known /\ Records(queue[n]) \subseteq Known
  BY InvParts DEF SecondsDiffer, Known, Time
<1>1. ASSUME NEW n \in Identity, NEW j \in Identity, admit(n, j) PROVE Signed
  <2> DEFINE a == Admit(n, j, HostName[j], admitHost(set[n], j), now + 1)
             s == AddAdmission(set[n], a)
  <2>1. now < MaxTime /\ admitHost(set[n], j) # 0 /\ n # j
    BY <1>1 DEF admit, Up
  <2>2. a \in Admission
    BY <2>1, SignedFine
  <2>3. Admissible(a) /\ a.issuedAt = now + 1
    BY <2>1, GossipAssumption DEF Admissible, Admit, ValidateAdmission, GossipAssumption
  <2>4. /\ now' = now + 1
        /\ queue' = [queue EXCEPT ![n] = broadcastAdm(queue[n], a)]
        /\ set' = [set EXCEPT ![n] = s, ![j] = s] \/ set' = [set EXCEPT ![n] = s]
    BY <1>1 DEF admit
  <2>5. /\ Acceptable(s) /\ Records(s) \subseteq Known \cup {a}
        /\ Acceptable(broadcastAdm(queue[n], a)) /\ Records(broadcastAdm(queue[n], a)) \subseteq Known \cup {a}
    <3> HIDE DEF a
    <3> QED BY <1>0, <2>2, <2>3, AdmHolds
  <2> HIDE DEF a, s
  <2>6. Only({a})
    BY <1>0, <2>4, <2>5
  <2> HIDE DEF Only
  <2> QED BY <2>3, <2>4, <2>6
<1>2. ASSUME NEW n \in Identity, NEW x \in Identity, revoke(n, x) PROVE Signed
  <2> DEFINE r == Revoke(n, x, now + 1)
             s == AddRevocation(set[n], r)
  <2>1. r \in Revocation /\ ValidateRevocation(r) /\ r.issuedAt = now + 1
    <3>1. r \in Revocation
      BY <1>2, SignedFine DEF revoke
    <3> QED BY <3>1 DEF Revoke, ValidateRevocation
  <2>2. now' = now + 1 /\ queue' = [queue EXCEPT ![n] = broadcastRev(queue[n], r)] /\ set' = [set EXCEPT ![n] = s]
    BY <1>2 DEF revoke
  <2> HIDE DEF r
  <2>3. /\ Acceptable(s) /\ Records(s) \subseteq Known \cup {r}
        /\ Acceptable(broadcastRev(queue[n], r)) /\ Records(broadcastRev(queue[n], r)) \subseteq Known \cup {r}
    BY <1>0, <2>1, RevHolds
  <2> HIDE DEF s
  <2>4. Only({r})
    BY <1>0, <2>2, <2>3
  <2> HIDE DEF Only
  <2> QED BY <2>1, <2>2, <2>4
<1>3. ASSUME NEW n \in Identity, NEW told \in SUBSET Identity, leave(n, told) PROVE Signed
  <2> DEFINE r == Revoke(n, n, now + 1)
  <2>1. r \in Revocation /\ ValidateRevocation(r) /\ r.issuedAt = now + 1
    <3>1. r \in Revocation
      BY <1>3, SignedFine DEF leave
    <3> QED BY <3>1 DEF Revoke, ValidateRevocation
  <2>2. /\ now' = now + 1
        /\ set'[n] = NewSet /\ queue'[n] = NewSet
        /\ \A m \in Identity \ {n} :
              \/ set'[m] = set[m] /\ queue'[m] = queue[m]
              \/ set'[m] = AddRevocation(set[m], r) /\ queue'[m] = broadcastRev(queue[m], r)
    BY <1>3 DEF leave
  <2> HIDE DEF r
  <2>3. \A m \in Identity :
           /\ Acceptable(AddRevocation(set[m], r)) /\ Records(AddRevocation(set[m], r)) \subseteq Known \cup {r}
           /\ Acceptable(broadcastRev(queue[m], r)) /\ Records(broadcastRev(queue[m], r)) \subseteq Known \cup {r}
    BY <1>0, <2>1, RevHolds
  <2>4. Only({r})
    BY <1>0, <2>2, <2>3, NewHolds
  <2> HIDE DEF Only
  <2> QED BY <2>1, <2>2, <2>4
<1>4. ASSUME NEW n \in Identity, NEW m \in Identity, NEW i \in Identity, NotifyAdm(n, m, i)
      PROVE  Nothing
  <2> DEFINE a == queue[n].adm[i]
             s == AddAdmission(set[m], a)
  <2>1. a \in Admission /\ a \in Known /\ a.identity = i
    BY <1>0, <1>4 DEF NotifyAdm, Fine, IsTrustSet, IsPartial, Keyed, Records, Range
  <2>2. Admissible(a)
    BY <1>4, <2>1 DEF NotifyAdm, StoresAdmission, Admissible
  <2>3. now' = now /\ queue' = [queue EXCEPT ![m] = broadcastAdm(queue[m], a)] /\ set' = [set EXCEPT ![m] = s]
    BY <1>4 DEF NotifyAdm
  <2> HIDE DEF a
  <2>4. /\ Acceptable(s) /\ Records(s) \subseteq Known
        /\ Acceptable(broadcastAdm(queue[m], a)) /\ Records(broadcastAdm(queue[m], a)) \subseteq Known
    BY <1>0, <2>1, <2>2, AdmHolds
  <2> HIDE DEF s
  <2> QED BY <1>0, <2>3, <2>4
<1>5. ASSUME NEW n \in Identity, NEW m \in Identity, NEW i \in Identity, NotifyRev(n, m, i)
      PROVE  Nothing
  <2> DEFINE r == queue[n].rev[i]
             s == AddRevocation(set[m], r)
  <2>1. r \in Revocation /\ r \in Known
    BY <1>0, <1>5 DEF NotifyRev, Fine, IsTrustSet, IsPartial, Records, Range
  <2>2. ValidateRevocation(r)
    BY <1>5 DEF NotifyRev, StoresRevocation
  <2>3. now' = now /\ queue' = [queue EXCEPT ![m] = broadcastRev(queue[m], r)] /\ set' = [set EXCEPT ![m] = s]
    BY <1>5 DEF NotifyRev
  <2> HIDE DEF r
  <2>4. /\ Acceptable(s) /\ Records(s) \subseteq Known
        /\ Acceptable(broadcastRev(queue[m], r)) /\ Records(broadcastRev(queue[m], r)) \subseteq Known
    BY <1>0, <2>1, <2>2, RevHolds
  <2> HIDE DEF s
  <2> QED BY <1>0, <2>3, <2>4
<1>6. ASSUME NEW n \in Identity, NEW i \in Identity, DropAdm(n, i) \/ DropRev(n, i) PROVE Nothing
  <2>1. \E q : /\ Acceptable(q) /\ Records(q) \subseteq Known /\ queue' = [queue EXCEPT ![n] = q]
    BY <1>0, <1>6, DropHolds DEF DropAdm, DropRev
  <2>2. now' = now /\ set' = set
    BY <1>6 DEF DropAdm, DropRev
  <2> QED BY <1>0, <2>1, <2>2
<1>7. ASSUME NEW n \in Identity, NEW m \in Identity, MergeRemoteState(n, m) PROVE Nothing
  <2> DEFINE s == Merge(set[m], set[n])
  <2>1. Acceptable(s) /\ Records(s) \subseteq Known
    BY <1>0, MergeHolds
  <2>2. set' = [set EXCEPT ![m] = s] /\ now' = now /\ queue' = queue
    BY <1>7 DEF MergeRemoteState
  <2> HIDE DEF s
  <2> QED BY <1>0, <2>1, <2>2
<1>8. ASSUME NEW n \in Identity, Stop(n) \/ Start(n) PROVE Nothing
  BY <1>0, <1>8, NewHolds DEF Stop, Start
<1>9. ASSUME UNCHANGED vars PROVE Nothing
  BY <1>0, <1>9 DEF vars
<1> HIDE DEF Only
<1>10. Signed \/ Nothing
  <2> HIDE DEF Signed, Nothing
  <2> QED BY <1>1, <1>2, <1>3, <1>4, <1>5, <1>6, <1>7, <1>8, <1>9 DEF Next
<1>11. /\ \A a \in Known : a.issuedAt \in Int /\ a.issuedAt <= now
       /\ \A a, b \in Known : a.issuedAt = b.issuedAt => a = b
  <2>1. ASSUME NEW s, Fine(s), NEW a \in Records(s) PROVE a.issuedAt \in Int
    BY <2>1 DEF Fine, IsTrustSet, IsPartial, Records, Range, Admission, Revocation, Time
  <2>2. \A a \in Known : a.issuedAt \in Int
    BY <1>0, <2>1 DEF Known
  <2> QED BY <2>2 DEF GossipInv, SecondsDiffer
<1>12. ASSUME NEW X, Only(X) PROVE Known' \subseteq Known \cup X
  BY <1>12 DEF Only, Known
<1>13. ASSUME NEW X, Only(X) PROVE \A n \in Identity : Acceptable(set'[n]) /\ Acceptable(queue'[n])
  BY <1>13 DEF Only
<1>14. CASE Nothing
  <2>1. Known' \subseteq Known
    BY <1>12, <1>14
  <2> QED BY <1>11, <1>13, <1>14, <2>1 DEF SecondsDiffer
<1>15. CASE Signed
  <2>1. PICK x : Only({x}) /\ x.issuedAt = now + 1 /\ now' = now + 1
    BY <1>15
  <2>2. Known' \subseteq Known \cup {x}
    BY <1>12, <2>1
  <2>3. \A a \in Known' : a.issuedAt <= now'
    BY <1>0, <1>11, <2>1, <2>2
  <2>4. \A a, b \in Known' : a.issuedAt = b.issuedAt => a = b
    BY <1>0, <1>11, <2>1, <2>2
  <2> QED BY <1>13, <2>1, <2>3, <2>4 DEF SecondsDiffer
<1> QED BY <1>10, <1>14, <1>15

(* Every step keeps GossipInv and makes no set smaller, except the one its   *)
(* node forgets when it leaves.                                              *)
LEMMA GossipNext ==
    ASSUME GossipInv, [Next]_vars
    PROVE  /\ GossipInv'
           /\ \A n \in Identity : status'[n] # "gone" => Grows(set[n], set'[n])
<1> DEFINE Types == /\ now' \in Time
                    /\ crashes' \in 0 .. MaxCrash
                    /\ status' \in [Identity -> {"out", "up", "down", "gone"}]
                    /\ DOMAIN set' = Identity /\ DOMAIN queue' = Identity
           Sets == \A m \in Identity : /\ Fine(set'[m]) /\ Fine(queue'[m])
                                       /\ status'[m] = "out" => set'[m] = NewSet
                                       /\ status'[m] # "gone" => Grows(set[m], set'[m])
<1>0. /\ now \in Time
      /\ crashes \in 0 .. MaxCrash
      /\ status \in [Identity -> {"out", "up", "down", "gone"}]
      /\ DOMAIN set = Identity /\ DOMAIN queue = Identity
      /\ \A n \in Identity : /\ Fine(set[n]) /\ Fine(queue[n]) /\ Grows(set[n], set[n])
                             /\ status[n] = "out" => set[n] = NewSet
  BY InvParts, SetsGrow
<1> SUFFICES Types /\ Sets
  BY SecondsNext DEF GossipInv, TypeOK, Fine
<1>1. ASSUME NEW n \in Identity, NEW j \in Identity, admit(n, j) PROVE Types /\ Sets
  <2> DEFINE a == Admit(n, j, HostName[j], admitHost(set[n], j), now + 1)
             s == AddAdmission(set[n], a)
  <2>1. now < MaxTime /\ admitHost(set[n], j) # 0
    BY <1>1 DEF admit
  <2>2. a \in Admission /\ now + 1 \in Time
    BY <2>1, SignedFine
  <2>3. Fine(s) /\ Grows(set[n], s) /\ Grows(NewSet, s) /\ Fine(broadcastAdm(queue[n], a))
    BY <1>0, <2>2, FinePutAdm, SetsGrow
  <2>4. /\ now' = now + 1 /\ crashes' = crashes /\ status[n] = "up" /\ status[j] = "out"
        /\ queue' = [queue EXCEPT ![n] = broadcastAdm(queue[n], a)]
        /\ \/ set' = [set EXCEPT ![n] = s, ![j] = s] /\ status' = [status EXCEPT ![j] = "up"]
           \/ set' = [set EXCEPT ![n] = s] /\ status' = status
    BY <1>1 DEF admit, Up
  <2> HIDE DEF a, s
  <2> QED
    BY <1>0, <2>2, <2>3, <2>4
<1>2. ASSUME NEW n \in Identity, NEW x \in Identity, revoke(n, x) PROVE Types /\ Sets
  <2> DEFINE r == Revoke(n, x, now + 1)
             s == AddRevocation(set[n], r)
  <2>1. r \in Revocation /\ now + 1 \in Time
    BY <1>2, SignedFine DEF revoke
  <2>2. Fine(s) /\ Grows(set[n], s) /\ Fine(broadcastRev(queue[n], r))
    BY <1>0, <2>1, FinePutRev, SetsGrow
  <2>3. /\ now' = now + 1 /\ crashes' = crashes /\ status' = status /\ status[n] = "up"
        /\ queue' = [queue EXCEPT ![n] = broadcastRev(queue[n], r)]
        /\ set' = [set EXCEPT ![n] = s]
    BY <1>2 DEF revoke, Up
  <2> HIDE DEF r, s
  <2> QED
    BY <1>0, <2>1, <2>2, <2>3
<1>3. ASSUME NEW n \in Identity, NEW told \in SUBSET Identity, leave(n, told) PROVE Types /\ Sets
  <2> DEFINE r == Revoke(n, n, now + 1)
  <2>1. r \in Revocation /\ now + 1 \in Time
    BY <1>3, SignedFine DEF leave
  <2>2. \A m \in Identity : /\ Fine(AddRevocation(set[m], r)) /\ Grows(set[m], AddRevocation(set[m], r))
                            /\ Fine(broadcastRev(queue[m], r))
    BY <1>0, <2>1, FinePutRev, SetsGrow
  <2>3. /\ now' = now + 1 /\ crashes' = crashes /\ status' = [status EXCEPT ![n] = "gone"]
        /\ DOMAIN set' = Identity /\ DOMAIN queue' = Identity
        /\ set'[n] = NewSet /\ queue'[n] = NewSet
        /\ \A m \in told : status[m] = "up"
        /\ \A m \in Identity \ {n} :
              \/ set'[m] = set[m] /\ queue'[m] = queue[m]
              \/ /\ m \in told
                 /\ set'[m] = AddRevocation(set[m], r) /\ queue'[m] = broadcastRev(queue[m], r)
    BY <1>3 DEF leave, Reaches, Up
  <2> HIDE DEF r
  <2>4. Types
    BY <1>0, <2>1, <2>3
  <2>5. ASSUME NEW m \in Identity \ {n}
        PROVE  /\ Fine(set'[m]) /\ Fine(queue'[m]) /\ Grows(set[m], set'[m])
               /\ status'[m] = "out" => set'[m] = NewSet
    BY <1>0, <2>2, <2>3
  <2>6. Fine(set'[n]) /\ Fine(queue'[n]) /\ status'[n] = "gone"
    BY <1>0, <2>3, FineNew
  <2> QED
    BY <2>4, <2>5, <2>6
<1>4. ASSUME NEW n \in Identity, NEW m \in Identity, NEW i \in Identity, NotifyAdm(n, m, i)
      PROVE  Types /\ Sets
  <2> DEFINE a == queue[n].adm[i]
             s == AddAdmission(set[m], a)
  <2>1. a \in Admission
    BY <1>0, <1>4 DEF NotifyAdm, Fine, IsTrustSet, IsPartial
  <2>2. Fine(s) /\ Grows(set[m], s) /\ Fine(broadcastAdm(queue[m], a))
    BY <1>0, <2>1, FinePutAdm, SetsGrow
  <2>3. /\ now' = now /\ crashes' = crashes /\ status' = status /\ status[m] = "up"
        /\ queue' = [queue EXCEPT ![m] = broadcastAdm(queue[m], a)]
        /\ set' = [set EXCEPT ![m] = s]
    BY <1>4 DEF NotifyAdm, Reaches, Up
  <2> HIDE DEF a, s
  <2> QED
    BY <1>0, <2>2, <2>3
<1>5. ASSUME NEW n \in Identity, NEW m \in Identity, NEW i \in Identity, NotifyRev(n, m, i)
      PROVE  Types /\ Sets
  <2> DEFINE r == queue[n].rev[i]
             s == AddRevocation(set[m], r)
  <2>1. r \in Revocation
    BY <1>0, <1>5 DEF NotifyRev, Fine, IsTrustSet, IsPartial
  <2>2. Fine(s) /\ Grows(set[m], s) /\ Fine(broadcastRev(queue[m], r))
    BY <1>0, <2>1, FinePutRev, SetsGrow
  <2>3. /\ now' = now /\ crashes' = crashes /\ status' = status /\ status[m] = "up"
        /\ queue' = [queue EXCEPT ![m] = broadcastRev(queue[m], r)]
        /\ set' = [set EXCEPT ![m] = s]
    BY <1>5 DEF NotifyRev, Reaches, Up
  <2> HIDE DEF r, s
  <2> QED
    BY <1>0, <2>2, <2>3
<1>6. ASSUME NEW n \in Identity, NEW i \in Identity, DropAdm(n, i) \/ DropRev(n, i) PROVE Types /\ Sets
  <2>1. \E q : Fine(q) /\ queue' = [queue EXCEPT ![n] = q]
    BY <1>0, <1>6, FineDrop DEF DropAdm, DropRev
  <2>2. UNCHANGED <<now, crashes, status, set>>
    BY <1>6 DEF DropAdm, DropRev
  <2> QED
    BY <1>0, <2>1, <2>2
<1>7. ASSUME NEW n \in Identity, NEW m \in Identity, MergeRemoteState(n, m) PROVE Types /\ Sets
  <2> DEFINE s == Merge(set[m], set[n])
  <2>1. Fine(s) /\ Grows(set[m], s)
    BY <1>0, FineMerge, SetsGrow
  <2>2. set' = [set EXCEPT ![m] = s] /\ status[m] = "up" /\ UNCHANGED <<now, crashes, status, queue>>
    BY <1>7 DEF MergeRemoteState, Reaches, Up
  <2> HIDE DEF s
  <2> QED
    BY <1>0, <2>1, <2>2
<1>8. ASSUME NEW n \in Identity, Stop(n) PROVE Types /\ Sets
  BY <1>0, <1>8, FineNew, GossipAssumption DEF Stop
<1>9. ASSUME NEW n \in Identity, Start(n) PROVE Types /\ Sets
  BY <1>0, <1>9 DEF Start
<1>10. CASE UNCHANGED vars
  BY <1>0, <1>10 DEF vars
<1> HIDE DEF Types, Sets
<1> QED
  BY <1>1, <1>2, <1>3, <1>4, <1>5, <1>6, <1>7, <1>8, <1>9, <1>10 DEF Next

-----------------------------------------------------------------------------
(* In every reachable state the records of every node are well formed, filed *)
(* under their own identity, and absent where there is no membership.        *)
THEOREM GossipInvariant == Spec => []GossipInv
  BY GossipInit, GossipNext, PTL DEF Spec

(* No node ever loses a record or replaces it by an older one, short of      *)
(* leaving (AddAdmission, AddRevocation, Merge under any delivery order).    *)
THEOREM RecordsNeverShrink == Spec => RecordsOnlyGrow
<1>1. GossipInv /\ [Next]_vars => [\A n \in Identity : status'[n] # "gone" => Grows(set[n], set'[n])]_vars
  BY GossipNext
<1> QED
  BY <1>1, GossipInvariant, PTL DEF Spec, RecordsOnlyGrow

(* No node ever entitles two identities to one overlay slot, although        *)
(* members hand slots out without knowing of each other (assignedAddr,       *)
(* HostConflict).                                                            *)
THEOREM SlotsAreExclusive == Spec => []SlotsExclusive
<1>1. GossipInv => SlotsExclusive
  <2> SUFFICES ASSUME GossipInv, NEW n \in Identity, NEW i \in Identity, NEW j \in Identity,
                      Assigned(set[n], i), Assigned(set[n], j),
                      set[n].adm[i].host = set[n].adm[j].host, i # j
               PROVE  FALSE
    BY DEF SlotsExclusive
  <2>1. i \in validAdmissions(set[n]) /\ j \in validAdmissions(set[n])
    BY DEF Assigned, validAdmissions
  <2>2. StrongerClaim(set[n].adm[i], set[n].adm[j]) \/ StrongerClaim(set[n].adm[j], set[n].adm[i])
    BY <2>1, InvParts, ClaimsOrdered DEF validAdmissions
  <2>3. HostConflict(set[n], i) \/ HostConflict(set[n], j)
    BY <2>1, <2>2 DEF HostConflict, validAdmissions
  <2> QED
    BY <2>3 DEF Assigned
<1> QED
  BY <1>1, GossipInvariant, PTL

-----------------------------------------------------------------------------
(* Push/pull.  Two nodes whose sets are alike have the same admissions and   *)
(* a revocation of the same identities.                                      *)

Alike(s, t) == s.adm = t.adm /\ DOMAIN s.rev = DOMAIN t.rev

(* A set as nodes keep them, and two such sets that hold no two admissions   *)
(* of one identity and one second.                                           *)
Kept(s) == Fine(s) /\ Acceptable(s)

Compatible(s, t) ==
    \A i \in DOMAIN s.adm \cap DOMAIN t.adm :
        s.adm[i].issuedAt = t.adm[i].issuedAt => s.adm[i] = t.adm[i]

(* Of two admissions of an identity Merge keeps the newer, of two            *)
(* revocations its own.                                                      *)
LEMMA MergeIs ==
    ASSUME NEW s, NEW t, Kept(s), Kept(t)
    PROVE  /\ Kept(Merge(s, t))
           /\ DOMAIN Merge(s, t).adm = DOMAIN s.adm \cup DOMAIN t.adm
           /\ \A i \in DOMAIN Merge(s, t).adm : Merge(s, t).adm[i] =
                 IF i \in DOMAIN t.adm /\ (i \in DOMAIN s.adm => s.adm[i].issuedAt < t.adm[i].issuedAt)
                 THEN t.adm[i] ELSE s.adm[i]
           /\ DOMAIN Merge(s, t).rev = DOMAIN s.rev \cup DOMAIN t.rev
           /\ \A i \in DOMAIN Merge(s, t).rev : Merge(s, t).rev[i] =
                 IF i \in DOMAIN s.rev THEN s.rev[i] ELSE t.rev[i]
<1>1. /\ \A i \in DOMAIN t.adm :
            StoresAdmission(s, t.adm[i]) <=> (i \in DOMAIN s.adm => s.adm[i].issuedAt < t.adm[i].issuedAt)
      /\ \A i \in DOMAIN t.rev : StoresRevocation(s, t.rev[i]) <=> i \notin DOMAIN s.rev
  BY DEF Kept, Fine, Keyed, Acceptable, StoresAdmission, StoresRevocation
<1>2. Kept(Merge(s, t))
  BY FineMerge, MergeHolds DEF Kept
<1> QED BY <1>1, <1>2 DEF Merge

(* The seconds of kept admissions are numbers.                               *)
LEMMA KeptTimes ==
    ASSUME NEW s, Kept(s)
    PROVE  \A i \in DOMAIN s.adm : s.adm[i].issuedAt \in Int
  BY DEF Kept, Fine, IsTrustSet, IsPartial, Admission, Time

(* Functions are equal when their domains and values are.                    *)
LEMMA SameAdmissions ==
    ASSUME NEW s, NEW t, Kept(s), Kept(t), DOMAIN s.adm = DOMAIN t.adm,
           \A i \in DOMAIN s.adm : s.adm[i] = t.adm[i]
    PROVE  s.adm = t.adm
  BY DEF Kept, Fine, IsTrustSet, IsPartial

(* Both ends of a push/pull come out alike.                                  *)
LEMMA MergeMeets ==
    ASSUME NEW s, NEW t, Kept(s), Kept(t), Compatible(s, t)
    PROVE  /\ Alike(Merge(s, t), Merge(t, s))
           /\ Alike(Merge(s, Merge(t, s)), Merge(t, s))
<1> DEFINE st == Merge(s, t)
           ts == Merge(t, s)
           last == Merge(s, ts)
<1>1. Kept(st) /\ Kept(ts) /\ Kept(last)
  BY MergeIs
<1>2. /\ \A i \in DOMAIN s.adm : s.adm[i].issuedAt \in Int
      /\ \A i \in DOMAIN t.adm : t.adm[i].issuedAt \in Int
  BY KeptTimes
<1>3. DOMAIN st.adm = DOMAIN ts.adm /\ DOMAIN st.rev = DOMAIN ts.rev
  <2>1. DOMAIN st.adm = DOMAIN s.adm \cup DOMAIN t.adm /\ DOMAIN st.rev = DOMAIN s.rev \cup DOMAIN t.rev
    BY MergeIs
  <2>2. DOMAIN ts.adm = DOMAIN t.adm \cup DOMAIN s.adm /\ DOMAIN ts.rev = DOMAIN t.rev \cup DOMAIN s.rev
    BY MergeIs
  <2> HIDE DEF st, ts
  <2> QED BY <2>1, <2>2
<1>4. DOMAIN last.adm = DOMAIN ts.adm /\ DOMAIN last.rev = DOMAIN ts.rev
  <2>1. DOMAIN ts.adm = DOMAIN t.adm \cup DOMAIN s.adm /\ DOMAIN ts.rev = DOMAIN t.rev \cup DOMAIN s.rev
    BY MergeIs
  <2> HIDE DEF ts
  <2>2. DOMAIN last.adm = DOMAIN s.adm \cup DOMAIN ts.adm /\ DOMAIN last.rev = DOMAIN s.rev \cup DOMAIN ts.rev
    BY <1>1, MergeIs
  <2> HIDE DEF last
  <2> QED BY <2>1, <2>2
<1>5. ASSUME NEW i \in DOMAIN st.adm PROVE st.adm[i] = ts.adm[i]
  BY <1>2, <1>3, MergeIs DEF Compatible
<1>6. ASSUME NEW i \in DOMAIN last.adm PROVE last.adm[i] = ts.adm[i]
  <2>1. last.adm[i] = IF i \in DOMAIN s.adm => s.adm[i].issuedAt < ts.adm[i].issuedAt
                      THEN ts.adm[i] ELSE s.adm[i]
    BY <1>1, <1>4, MergeIs
  <2>2. ts.adm[i] = IF i \in DOMAIN s.adm /\ (i \in DOMAIN t.adm => t.adm[i].issuedAt < s.adm[i].issuedAt)
                    THEN s.adm[i] ELSE t.adm[i]
    BY <1>4, MergeIs
  <2>3. i \in DOMAIN s.adm \cup DOMAIN t.adm
    BY <1>4, MergeIs
  <2> HIDE DEF st, ts, last
  <2> QED BY <1>2, <2>1, <2>2, <2>3 DEF Compatible
<1> HIDE DEF st, ts, last
<1>7. st.adm = ts.adm /\ last.adm = ts.adm
  BY <1>1, <1>3, <1>4, <1>5, <1>6, SameAdmissions
<1> QED BY <1>3, <1>4, <1>7 DEF Alike, st, ts, last

(* And it does not matter whose set arrives first.                           *)
LEMMA MergeOrder ==
    ASSUME NEW s, NEW t, NEW u, Kept(s), Kept(t), Kept(u),
           Compatible(s, t), Compatible(s, u), Compatible(t, u)
    PROVE  Alike(Merge(Merge(s, t), u), Merge(Merge(s, u), t))
<1> DEFINE st == Merge(s, t)
           su == Merge(s, u)
           stu == Merge(st, u)
           sut == Merge(su, t)
<1>1. Kept(st) /\ Kept(su)
  BY MergeIs
<1>2. /\ \A i \in DOMAIN s.adm : s.adm[i].issuedAt \in Int
      /\ \A i \in DOMAIN t.adm : t.adm[i].issuedAt \in Int
      /\ \A i \in DOMAIN u.adm : u.adm[i].issuedAt \in Int
  BY KeptTimes
<1>3. /\ DOMAIN st.adm = DOMAIN s.adm \cup DOMAIN t.adm
      /\ DOMAIN st.rev = DOMAIN s.rev \cup DOMAIN t.rev
      /\ DOMAIN su.adm = DOMAIN s.adm \cup DOMAIN u.adm
      /\ DOMAIN su.rev = DOMAIN s.rev \cup DOMAIN u.rev
  BY MergeIs
<1>4. /\ \A i \in DOMAIN st.adm : st.adm[i] =
            IF i \in DOMAIN t.adm /\ (i \in DOMAIN s.adm => s.adm[i].issuedAt < t.adm[i].issuedAt)
            THEN t.adm[i] ELSE s.adm[i]
      /\ \A i \in DOMAIN su.adm : su.adm[i] =
            IF i \in DOMAIN u.adm /\ (i \in DOMAIN s.adm => s.adm[i].issuedAt < u.adm[i].issuedAt)
            THEN u.adm[i] ELSE s.adm[i]
  BY MergeIs
<1> HIDE DEF st, su
<1>5. /\ Kept(stu) /\ Kept(sut)
      /\ DOMAIN stu.adm = DOMAIN st.adm \cup DOMAIN u.adm
      /\ DOMAIN stu.rev = DOMAIN st.rev \cup DOMAIN u.rev
      /\ DOMAIN sut.adm = DOMAIN su.adm \cup DOMAIN t.adm
      /\ DOMAIN sut.rev = DOMAIN su.rev \cup DOMAIN t.rev
  BY <1>1, MergeIs
<1>6. /\ \A i \in DOMAIN stu.adm : stu.adm[i] =
            IF i \in DOMAIN u.adm /\ (i \in DOMAIN st.adm => st.adm[i].issuedAt < u.adm[i].issuedAt)
            THEN u.adm[i] ELSE st.adm[i]
      /\ \A i \in DOMAIN sut.adm : sut.adm[i] =
            IF i \in DOMAIN t.adm /\ (i \in DOMAIN su.adm => su.adm[i].issuedAt < t.adm[i].issuedAt)
            THEN t.adm[i] ELSE su.adm[i]
  BY <1>1, MergeIs
<1> HIDE DEF stu, sut
<1>7. DOMAIN stu.adm = DOMAIN sut.adm /\ DOMAIN stu.rev = DOMAIN sut.rev
  BY <1>3, <1>5
<1>8. ASSUME NEW i \in DOMAIN stu.adm PROVE stu.adm[i] = sut.adm[i]
  BY <1>2, <1>3, <1>4, <1>5, <1>6, <1>7 DEF Compatible
<1>9. stu.adm = sut.adm
  BY <1>5, <1>7, <1>8, SameAdmissions
<1> QED BY <1>7, <1>9 DEF Alike, st, su, stu, sut

(* Whoever exchanges sets has the same records afterwards, whether each      *)
(* sends its set before or after it has merged the other's, and what a node  *)
(* has after two exchanges does not depend on which came first               *)
(* (LocalState, MergeRemoteState, Merge).                                    *)
PushPullAgrees ==
    \A n, m \in Identity :
        /\ Alike(Merge(set[n], set[m]), Merge(set[m], set[n]))
        /\ Alike(Merge(set[n], Merge(set[m], set[n])), Merge(set[m], set[n]))
        /\ \A k \in Identity : Alike(Merge(Merge(set[n], set[m]), set[k]), Merge(Merge(set[n], set[k]), set[m]))

(* The sets of nodes are compatible, because every record has a second of    *)
(* its own.                                                                  *)
LEMMA SetsCompatible ==
    ASSUME GossipInv, NEW n \in Identity, NEW m \in Identity
    PROVE  Kept(set[n]) /\ Compatible(set[n], set[m])
<1>1. Kept(set[n])
  BY InvParts DEF Kept, SecondsDiffer
<1>2. \A i \in DOMAIN set[n].adm : set[n].adm[i] \in Known
  BY DEF Known, Records, Range
<1>3. \A i \in DOMAIN set[m].adm : set[m].adm[i] \in Known
  BY DEF Known, Records, Range
<1>4. \A a, b \in Known : a.issuedAt = b.issuedAt => a = b
  BY DEF GossipInv, SecondsDiffer
<1> QED BY <1>1, <1>2, <1>3, <1>4 DEF Compatible

(* At every moment of every run any two nodes that push and pull come out    *)
(* with the same records (Merge).                                            *)
THEOREM PushPullAgreesTheorem == Spec => []PushPullAgrees
<1>1. GossipInv => PushPullAgrees
  <2> SUFFICES ASSUME GossipInv PROVE PushPullAgrees
    OBVIOUS
  <2>1. \A n, m \in Identity : Kept(set[n]) /\ Compatible(set[n], set[m])
    BY SetsCompatible
  <2> QED BY <2>1, MergeMeets, MergeOrder DEF PushPullAgrees
<1> QED BY <1>1, GossipInvariant, PTL

-----------------------------------------------------------------------------
(* Verdicts. *)

(* No two nodes keep different revocations of one identity.                  *)
RevokedAlike ==
    \A n, m \in Identity : \A i \in DOMAIN set[n].rev \cap DOMAIN set[m].rev :
        set[n].rev[i] = set[m].rev[i]

(* As long as that is so, push/pull makes sets equal, not just alike, and    *)
(* nodes with alike sets judge everybody alike: the disagreement that        *)
(* AddRevocation leaves behind (trust/set.go:78) needs an identity that was  *)
(* revoked twice.                                                            *)
THEOREM VerdictsAgreeTheorem ==
    Spec => [](RevokedAlike => \A n, m \in Identity :
                   /\ SameRecords(n, m) => Members(set[n]) = Members(set[m])
                   /\ Merge(set[n], set[m]) = Merge(set[m], set[n]))
<1>1. ASSUME GossipInv, RevokedAlike, NEW n \in Identity, NEW m \in Identity, SameRecords(n, m)
      PROVE  Members(set[n]) = Members(set[m])
  <2>1. Kept(set[n]) /\ Kept(set[m])
    BY <1>1, SetsCompatible
  <2>2. set[n].rev = set[m].rev
    BY <1>1, <2>1 DEF RevokedAlike, SameRecords, Kept, Fine, IsTrustSet, IsPartial
  <2>3. set[n] = set[m]
    BY <1>1, <2>1, <2>2 DEF SameRecords, Kept, Fine, IsTrustSet
  <2> QED BY <2>3
<1>2. ASSUME GossipInv, RevokedAlike, NEW n \in Identity, NEW m \in Identity
      PROVE  Merge(set[n], set[m]) = Merge(set[m], set[n])
  <2> DEFINE s == set[n]
             t == set[m]
             st == Merge(s, t)
             ts == Merge(t, s)
  <2>1. Kept(s) /\ Kept(t) /\ Compatible(s, t)
    BY <1>2, SetsCompatible
  <2>2. \A i \in DOMAIN s.rev \cap DOMAIN t.rev : s.rev[i] = t.rev[i]
    BY <1>2 DEF RevokedAlike
  <2> HIDE DEF s, t
  <2>3. Kept(st) /\ Kept(ts) /\ st.adm = ts.adm /\ DOMAIN st.rev = DOMAIN ts.rev
    BY <2>1, MergeIs, MergeMeets DEF Alike
  <2>4. \A i \in DOMAIN st.rev : st.rev[i] = ts.rev[i]
    BY <2>1, <2>2, <2>3, MergeIs
  <2> HIDE DEF st, ts
  <2>5. st.rev = ts.rev
    BY <2>3, <2>4 DEF Kept, Fine, IsTrustSet, IsPartial
  <2>6. st = ts
    BY <2>3, <2>5 DEF Kept, Fine, IsTrustSet
  <2> QED BY <2>6 DEF st, ts, s, t
<1>3. GossipInv => (RevokedAlike => \A n, m \in Identity :
                        /\ SameRecords(n, m) => Members(set[n]) = Members(set[m])
                        /\ Merge(set[n], set[m]) = Merge(set[m], set[n]))
  BY <1>1, <1>2
<1> QED BY <1>3, GossipInvariant, PTL

(* A node that knows somebody to have left, or to have been put out by the   *)
(* root, does not trust them, and never again will, whatever reaches it,     *)
(* short of leaving itself or of hearing that the root was revoked before    *)
(* (AddRevocation, AddAdmission, valid).                                     *)
OutForGood ==
    [][\A n, x \in Identity :
          /\ Final(set[n], x)
          /\ status'[n] # "gone"
          /\ set[n].rev[x].revoker = Root => ~RevokedAt(set'[n], Root, set[n].rev[x].issuedAt)
          => ~Trusts(n, x) /\ Final(set'[n], x) /\ ~Trusts(n, x)']_vars

(* So it is in every run.                                                    *)
THEOREM OutForGoodTheorem == Spec => OutForGood
<1> DEFINE Out == \A n, x \in Identity :
                     /\ Final(set[n], x)
                     /\ status'[n] # "gone"
                     /\ set[n].rev[x].revoker = Root => ~RevokedAt(set'[n], Root, set[n].rev[x].issuedAt)
                     => ~Trusts(n, x) /\ Final(set'[n], x) /\ ~Trusts(n, x)'
<1>1. ASSUME GossipInv, [Next]_vars PROVE Out
  <2> SUFFICES ASSUME NEW n \in Identity, NEW x \in Identity, Final(set[n], x), status'[n] # "gone",
                      set[n].rev[x].revoker = Root => ~RevokedAt(set'[n], Root, set[n].rev[x].issuedAt)
               PROVE  ~Trusts(n, x) /\ Final(set'[n], x) /\ ~Trusts(n, x)'
    OBVIOUS
  <2>1. IsTrustSet(set[n]) /\ IsTrustSet(set'[n]) /\ Grows(set[n], set'[n])
    BY <1>1, GossipNext DEF GossipInv, TypeOK
  <2>2. Final(set'[n], x)
    BY <2>1 DEF Final, Grows
  <2> QED BY <2>1, <2>2, FinalIsOut DEF Trusts
<1>2. GossipInv /\ [Next]_vars => [Out]_vars
  BY <1>1
<1> QED BY <1>2, GossipInvariant, PTL DEF Spec, OutForGood
=============================================================================
