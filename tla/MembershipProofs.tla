-------------------------- MODULE MembershipProofs --------------------------
(* Who is a member, for any number of identities and records: the judgement  *)
(* of the records gives the membership that the operations promise           *)
(* (TrustHistory), and the cache in front of it is sound (SetCache).         *)
(*                                                                           *)
(* The theorems about TrustHistory assume what the model's two switches say: *)
(* that no two records carry the same second, and that no node enrols again  *)
(* after it has signed a record.  Without either of the two the records are  *)
(* not judged as promised, and TLC has the histories.                        *)
EXTENDS TrustHistory, TrustProofs, SetCache

-----------------------------------------------------------------------------
(* Records that were all made by members.                                    *)

(* In s, p was there and not revoked at time t.                              *)
Stood(s, p, t) == p \in DOMAIN s.adm /\ ~RevokedAt(s, p, t)

(* Every record kept in s was signed by somebody who stood at the time, and  *)
(* an admission by somebody admitted before it.                              *)
Grounded(s) ==
    /\ IsTrustSet(s)
    /\ Root \in DOMAIN s.adm
    /\ \A i \in DOMAIN s.adm \ {Root} :
          /\ Stood(s, s.adm[i].admitter, s.adm[i].issuedAt)
          /\ s.adm[s.adm[i].admitter].issuedAt < s.adm[i].issuedAt
    /\ \A i \in DOMAIN s.rev :
          s.rev[i].revoker # i => Stood(s, s.rev[i].revoker, s.rev[i].issuedAt)

(* Whoever stood at a time is judged to have been a member at it, unless the *)
(* question is on the way to its own answer.                                 *)
LEMMA StoodIsValid ==
    ASSUME NEW s, Grounded(s), NEW id \in DOMAIN s.adm, NEW at \in Int,
           ~RevokedAt(s, id, at), NEW v \in SUBSET Question, <<id, at>> \notin v,
           \A x \in DOMAIN s.adm, t \in Time :
               s.adm[x].issuedAt < s.adm[id].issuedAt => <<x, t>> \notin v
    PROVE  validAt(s)[Ask(id, at, v)]
<1> DEFINE ok == validAt(s)
           Clear(i, w) == \A x \in DOMAIN s.adm, t \in Time :
                              s.adm[x].issuedAt < s.adm[i].issuedAt => <<x, t>> \notin w
           Holds(n) == \A i \in DOMAIN s.adm, a \in Int, w \in SUBSET Question :
                          /\ s.adm[i].issuedAt < n /\ ~RevokedAt(s, i, a)
                          /\ <<i, a>> \notin w /\ Clear(i, w)
                          => ok[Ask(i, a, w)]
           S == {n \in Nat : Holds(n)}
<1>1. /\ \A i \in DOMAIN s.adm : i \in Identity /\ s.adm[i].issuedAt \in Time /\ s.adm[i].issuedAt \in Nat
      /\ Time \subseteq Int /\ IsTrustSet(s)
  BY TrustAssumption DEF TrustAssumption, Grounded, IsTrustSet, IsPartial, Admission, Time
<1>2. \A q \in Asking : ok[q] = Judgement(s, ok, q)
  BY <1>1, ValidAtUnfolds
<1> HIDE DEF ok
<1>3. 0 \in S
  BY <1>1
<1>4. ASSUME NEW n \in Nat, n \in S PROVE n + 1 \in S
  <2> SUFFICES ASSUME NEW i \in DOMAIN s.adm, NEW a \in Int, NEW w \in SUBSET Question,
                      s.adm[i].issuedAt < n + 1, ~RevokedAt(s, i, a), <<i, a>> \notin w, Clear(i, w)
               PROVE  ok[Ask(i, a, w)]
    OBVIOUS
  <2> DEFINE q == Ask(i, a, w)
             p == s.adm[i].admitter
             t == s.adm[i].issuedAt
             u == w \cup {<<i, a>>}
  <2>1. q \in Asking /\ q.id = i /\ q.at = a /\ q.visiting = w
    BY <1>1 DEF Ask, Asking
  <2>2. ok[q] = Judgement(s, ok, q)
    BY <1>2, <2>1
  <2>3. CASE i = Root
    BY <2>1, <2>2, <2>3 DEF Judgement
  <2>4. CASE i # Root
    <3>1. p \in DOMAIN s.adm /\ ~RevokedAt(s, p, t) /\ s.adm[p].issuedAt < t
      BY <2>4 DEF Grounded, Stood
    <3>2. p # i
      BY <1>1, <3>1
    <3>3. u \in SUBSET Question
      BY <1>1 DEF Question
    <3>4. <<p, t>> \notin u
      BY <1>1, <3>1, <3>2
    <3>5. Clear(p, u)
      <4> SUFFICES ASSUME NEW x \in DOMAIN s.adm, NEW e \in Time, s.adm[x].issuedAt < s.adm[p].issuedAt
                   PROVE  <<x, e>> \notin u
        OBVIOUS
      <4>1. s.adm[x].issuedAt < t
        BY <1>1, <3>1
      <4> QED BY <1>1, <4>1
    <3>6. s.adm[p].issuedAt < n
      BY <1>1, <3>1
    <3>7. ok[Ask(p, t, u)]
      BY <1>1, <1>4, <3>1, <3>3, <3>4, <3>5, <3>6
    <3> HIDE DEF p, t, u
    <3>8. Judgement(s, ok, q) = ok[Ask(p, t, u)]
      BY <2>1, <2>4, <3>2, <3>7 DEF Judgement, p, t, u
    <3> QED BY <2>2, <3>7, <3>8
  <2> QED BY <2>3, <2>4
<1>5. Nat \subseteq S
  <2> HIDE DEF S
  <2> QED BY <1>3, <1>4, NatInSet
<1>6. s.adm[id].issuedAt + 1 \in S /\ s.adm[id].issuedAt < s.adm[id].issuedAt + 1
  BY <1>1, <1>5
<1> QED BY <1>6 DEF ok

(* Judgement from such records, the members are those who were admitted and     *)
(* never revoked.                                                            *)
LEMMA GroundedMembers ==
    ASSUME NEW s, Grounded(s)
    PROVE  /\ Members(s) = DOMAIN s.adm \ DOMAIN s.rev
           /\ validAdmissions(s) = DOMAIN s.adm \ DOMAIN s.rev
           /\ \A id \in Identity : Valid(s, id) <=> id \in DOMAIN s.adm \ DOMAIN s.rev
<1> DEFINE ok == validAt(s)
<1>1. /\ \A i \in DOMAIN s.adm : i \in Identity /\ s.adm[i].issuedAt \in Time
      /\ \A i \in DOMAIN s.rev : /\ i \in Identity /\ s.rev[i].issuedAt \in Time
                                 /\ s.rev[i].issuedAt <= Forever /\ s.rev[i].revoker \in Identity
      /\ Time \subseteq Int /\ Forever \in Int /\ Forever \notin Time /\ IsTrustSet(s)
  BY TrustAssumption DEF TrustAssumption, Grounded, IsTrustSet, IsPartial, Admission, Revocation, Time, Forever
<1>2. \A q \in Asking : ok[q] = Judgement(s, ok, q)
  BY <1>1, ValidAtUnfolds
<1>3. ASSUME NEW id \in Identity PROVE Valid(s, id) <=> id \in DOMAIN s.adm \ DOMAIN s.rev
  <2> DEFINE q == Ask(id, Forever, {})
             p == s.rev[id].revoker
             t == s.rev[id].issuedAt
  <2>1. q \in Asking /\ q.id = id /\ q.at = Forever /\ q.visiting = {}
    BY <1>1 DEF Ask, Asking
  <2>2. Valid(s, id) = Judgement(s, ok, q)
    BY <1>2, <2>1 DEF Valid
  <2>3. CASE id \notin DOMAIN s.rev /\ id \in DOMAIN s.adm
    BY <1>1, <2>3, StoodIsValid DEF Valid, RevokedAt
  <2>4. CASE id \notin DOMAIN s.adm
    BY <2>1, <2>2, <2>4 DEF Judgement, Grounded
  <2>5. CASE id \in DOMAIN s.rev
    <3>0. RevokedAt(s, id, Forever)
      BY <1>1, <2>5 DEF RevokedAt
    <3>1. CASE p = id
      BY <2>1, <2>2, <2>5, <3>0, <3>1 DEF Judgement
    <3>2. CASE p # id
      <4> DEFINE v == IF id = Root THEN {} ELSE {<<id, Forever>>}
      <4>1. p \in DOMAIN s.adm /\ ~RevokedAt(s, p, t)
        BY <2>5, <3>2 DEF Grounded, Stood
      <4>2. t \in Int
        BY <1>1, <2>5
      <4>a. v \in SUBSET Question
        <5>1. <<id, Forever>> \in Question
          BY <1>1 DEF Question
        <5> QED BY <5>1
      <4>3. <<p, t>> \notin v /\ \A x \in DOMAIN s.adm, e \in Time : <<x, e>> \notin v
        BY <1>1, <3>2
      <4> HIDE DEF p, t, v
      <4>4. ok[Ask(p, t, v)]
        BY <4>1, <4>2, <4>a, <4>3, StoodIsValid
      <4>5. Judgement(s, ok, q) = FALSE
        <5>1. CASE id = Root
          BY <2>1, <3>0, <4>4, <5>1 DEF Judgement, p, t, v
        <5>2. CASE id # Root
          <6>1. v = {} \cup {<<id, Forever>>}
            BY <5>2 DEF v
          <6> QED BY <2>1, <3>0, <4>4, <5>2, <6>1 DEF Judgement, p, t
        <5> QED BY <5>1, <5>2
      <4> QED BY <2>2, <2>5, <4>5
    <3> QED BY <3>1, <3>2
  <2> QED BY <2>3, <2>4, <2>5
<1> QED BY <1>1, <1>3 DEF Members, validAdmissions

-----------------------------------------------------------------------------
(* The invariant.                                                            *)

(* The records as they may travel: kept by the members, kept by the late     *)
(* node, or on their way to it.                                              *)
Revs == {set.rev[i] : i \in DOMAIN set.rev} \cup {late.rev[i] : i \in DOMAIN late.rev}
            \cup (pending \cap Revocation)

RecordsTyped ==
    /\ now \in Time
    /\ IsTrustSet(set) /\ IsTrustSet(late)
    /\ pending \subseteq Admission \cup Revocation

(* Each record is kept under the identity it is about.                       *)
Keyed ==
    /\ \A i \in DOMAIN set.adm : set.adm[i].identity = i
    /\ \A i \in DOMAIN late.rev : late.rev[i].identity = i
    /\ \A i \in DOMAIN set.rev : set.rev[i].identity = i

(* No record is from the future.                                             *)
Dated ==
    /\ \A i \in DOMAIN set.adm : set.adm[i].issuedAt <= now
    /\ \A r \in Revs : r.issuedAt <= now

(* The root admitted itself, everybody else was admitted by somebody         *)
(* admitted before.                                                          *)
Rooted ==
    /\ Root \in DOMAIN set.adm /\ set.adm[Root].admitter = Root
    /\ \A i \in DOMAIN set.adm \ {Root} :
          /\ set.adm[i].admitter \in DOMAIN set.adm
          /\ set.adm[set.adm[i].admitter].issuedAt < set.adm[i].issuedAt

(* Whoever a revocation names had made every record of its own before it.    *)
RevokedSignNoMore ==
    \A r \in Revs :
        /\ ValidateRevocation(r)
        /\ r.identity \in DOMAIN set.rev
        /\ r.revoker \in DOMAIN set.adm
        /\ \A i \in DOMAIN set.adm \ {Root} :
              set.adm[i].admitter = r.identity => set.adm[i].issuedAt < r.issuedAt
        /\ \A q \in Revs :
              q.revoker = r.identity /\ q.identity # q.revoker => q.issuedAt < r.issuedAt

(* What the late node lacks is on its way to it, and nothing that is on its  *)
(* way is newer than what the members have.                                  *)
NoneNewer(a) ==
    /\ a.identity \in DOMAIN set.adm
    /\ a = set.adm[a.identity] \/ a.issuedAt < set.adm[a.identity].issuedAt

LateBehind ==
    /\ \A i \in DOMAIN late.adm : late.adm[i].identity = i /\ NoneNewer(late.adm[i])
    /\ \A a \in pending \cap Admission :
          NoneNewer(a) /\ ValidateAdmission(a) /\ a.admitter # a.identity
    /\ \A i \in DOMAIN set.adm :
          (i \in DOMAIN late.adm /\ late.adm[i] = set.adm[i]) \/ set.adm[i] \in pending
    /\ \A i \in DOMAIN set.rev :
          i \in DOMAIN late.rev \/ \E r \in pending \cap Revocation : r.identity = i

RecordsInv ==
    /\ RecordsTyped
    /\ Keyed
    /\ Dated
    /\ Rooted
    /\ RevokedSignNoMore
    /\ LateBehind

-----------------------------------------------------------------------------
(* Nobody a revocation names signed anything at its time or later.           *)
LEMMA SignerStood ==
    ASSUME RecordsInv, NEW s \in {set, late}
    PROVE  /\ \A i \in DOMAIN set.adm \ {Root} :
                 ~RevokedAt(s, set.adm[i].admitter, set.adm[i].issuedAt)
           /\ \A i \in DOMAIN s.rev :
                 s.rev[i].revoker # i => ~RevokedAt(s, s.rev[i].revoker, s.rev[i].issuedAt)
<1>1. \A i \in DOMAIN s.rev : /\ s.rev[i].issuedAt \in Int /\ s.rev[i].identity = i
                              /\ s.rev[i] \in Revs
  BY DEF RecordsInv, RecordsTyped, Keyed, IsTrustSet, IsPartial, Revocation, Time, Revs
<1>2. \A i \in DOMAIN set.adm : set.adm[i].issuedAt \in Int
  BY DEF RecordsInv, RecordsTyped, IsTrustSet, IsPartial, Admission, Time
<1>3. ASSUME NEW i \in DOMAIN set.adm \ {Root}, NEW p \in DOMAIN s.rev, p = set.adm[i].admitter
      PROVE  ~(s.rev[p].issuedAt <= set.adm[i].issuedAt)
  <2> DEFINE r == s.rev[p]
  <2>1. r \in Revs /\ r.identity = p /\ r.issuedAt \in Int
    BY <1>1
  <2> HIDE DEF r
  <2>2. set.adm[i].issuedAt < r.issuedAt
    BY <1>3, <2>1 DEF RecordsInv, RevokedSignNoMore
  <2> QED BY <1>2, <2>1, <2>2 DEF r
<1>4. ASSUME NEW i \in DOMAIN s.rev, s.rev[i].revoker # i,
             NEW p \in DOMAIN s.rev, p = s.rev[i].revoker
      PROVE  ~(s.rev[p].issuedAt <= s.rev[i].issuedAt)
  <2> DEFINE r == s.rev[p]
             q == s.rev[i]
  <2>1. r \in Revs /\ r.identity = p /\ r.issuedAt \in Int /\ q \in Revs /\ q.identity = i
        /\ q.issuedAt \in Int /\ q.revoker = p /\ p # i
    BY <1>1, <1>4
  <2> HIDE DEF r, q
  <2>2. q.issuedAt < r.issuedAt
    BY <2>1 DEF RecordsInv, RevokedSignNoMore
  <2> QED BY <2>1, <2>2 DEF r, q
<1> QED BY <1>3, <1>4 DEF RevokedAt

(* The members' records are grounded.                                        *)
LEMMA SetGrounded == RecordsInv => Grounded(set)
<1> SUFFICES ASSUME RecordsInv PROVE Grounded(set)
  OBVIOUS
<1>1. \A i \in DOMAIN set.rev : set.rev[i].revoker \in DOMAIN set.adm
  <2>1. \A i \in DOMAIN set.rev : set.rev[i] \in Revs
    BY DEF Revs
  <2> QED BY <2>1 DEF RecordsInv, RevokedSignNoMore
<1>2. set \in {set, late}
  OBVIOUS
<1>3. /\ \A i \in DOMAIN set.adm \ {Root} :
            ~RevokedAt(set, set.adm[i].admitter, set.adm[i].issuedAt)
      /\ \A i \in DOMAIN set.rev :
            set.rev[i].revoker # i => ~RevokedAt(set, set.rev[i].revoker, set.rev[i].issuedAt)
  BY <1>2, SignerStood
<1> QED BY <1>1, <1>3 DEF RecordsInv, RecordsTyped, Rooted, Grounded, Stood

(* Once nothing is on its way to it, the late node has the members' records, *)
(* except that it may have another revocation of the same identity.          *)
LEMMA LateGrounded ==
    RecordsInv /\ pending = {} =>
        /\ Grounded(late)
        /\ DOMAIN late.adm = DOMAIN set.adm
        /\ DOMAIN late.rev = DOMAIN set.rev
<1> SUFFICES ASSUME RecordsInv, pending = {}
             PROVE  /\ Grounded(late)
                    /\ DOMAIN late.adm = DOMAIN set.adm
                    /\ DOMAIN late.rev = DOMAIN set.rev
  OBVIOUS
<1>1. \A i \in DOMAIN late.rev :
          late.rev[i] \in Revs /\ late.rev[i].identity = i /\ late.rev[i].revoker \in DOMAIN set.adm
  <2>1. \A i \in DOMAIN late.rev : late.rev[i] \in Revs
    BY DEF Revs
  <2> QED BY <2>1 DEF RecordsInv, RevokedSignNoMore, Keyed
<1>2. DOMAIN late.adm = DOMAIN set.adm /\ \A i \in DOMAIN set.adm : late.adm[i] = set.adm[i]
  <2>1. \A i \in DOMAIN late.adm : i \in DOMAIN set.adm
    BY DEF RecordsInv, LateBehind, NoneNewer
  <2>2. \A i \in DOMAIN set.adm : i \in DOMAIN late.adm /\ late.adm[i] = set.adm[i]
    BY DEF RecordsInv, LateBehind
  <2> QED BY <2>1, <2>2
<1>3. DOMAIN late.rev = DOMAIN set.rev
  <2>1. \A i \in DOMAIN late.rev : i \in DOMAIN set.rev
    BY <1>1 DEF RecordsInv, RevokedSignNoMore
  <2>2. \A i \in DOMAIN set.rev : i \in DOMAIN late.rev
    BY DEF RecordsInv, LateBehind
  <2> QED BY <2>1, <2>2
<1>4. late \in {set, late}
  OBVIOUS
<1>5. /\ \A i \in DOMAIN set.adm \ {Root} :
            ~RevokedAt(late, set.adm[i].admitter, set.adm[i].issuedAt)
      /\ \A i \in DOMAIN late.rev :
            late.rev[i].revoker # i => ~RevokedAt(late, late.rev[i].revoker, late.rev[i].issuedAt)
  BY <1>4, SignerStood
<1>6. \A i \in DOMAIN late.adm \ {Root} :
          /\ late.adm[i] = set.adm[i]
          /\ set.adm[i].admitter \in DOMAIN late.adm
          /\ late.adm[set.adm[i].admitter] = set.adm[set.adm[i].admitter]
          /\ set.adm[set.adm[i].admitter].issuedAt < set.adm[i].issuedAt
  BY <1>2 DEF RecordsInv, Rooted
<1>7. \A i \in DOMAIN late.adm \ {Root} :
          /\ Stood(late, late.adm[i].admitter, late.adm[i].issuedAt)
          /\ late.adm[late.adm[i].admitter].issuedAt < late.adm[i].issuedAt
  BY <1>2, <1>5, <1>6 DEF Stood
<1> QED BY <1>1, <1>2, <1>3, <1>5, <1>7 DEF RecordsInv, RecordsTyped, Rooted, Grounded, Stood

(* The set a cluster starts with: the root alone (Bootstrap.InitRoot).       *)
LEMMA RootAlone ==
    /\ IsTrustSet(RootSet)
    /\ DOMAIN RootSet.adm = {Root} /\ DOMAIN RootSet.rev = {}
    /\ RootSet.adm[Root].identity = Root /\ RootSet.adm[Root].admitter = Root
    /\ RootSet.adm[Root].issuedAt = 0
<1> DEFINE a == SelfAdmit(Root, HostName[Root], 0)
<1>1. HostName[Root] \in Name /\ Root \in Identity
  BY TrustAssumption, HistoryAssumption DEF TrustAssumption, HistoryAssumption
<1>2. a \in Admission /\ IsTrustSet(NewSet)
  BY <1>1, RootSetType
<1>3. a.identity = Root /\ a.admitter = Root /\ a.issuedAt = 0 /\ StoresAdmission(NewSet, a)
  BY <1>1 DEF SelfAdmit, Admit, StoresAdmission, ValidateAdmission, NewSet, rootHost
<1> HIDE DEF a
<1> QED BY <1>2, <1>3, AddAdmissionType, AddAdmissionStores DEF RootSet, a, NewSet

(* The invariant at the start.                                               *)
LEMMA HistoryInitInv == HistoryInit => RecordsInv
<1> SUFFICES ASSUME HistoryInit PROVE RecordsInv
  OBVIOUS
<1>1. now \in Time /\ 0 \in Time
  BY TrustAssumption DEF TrustAssumption, HistoryInit, Time
<1>2. Revs = {}
  BY RootAlone DEF HistoryInit, Revs
<1>3. RecordsTyped /\ Keyed
  BY <1>1, RootAlone DEF HistoryInit, RecordsTyped, Keyed
<1>4. Dated /\ Rooted /\ RevokedSignNoMore
  BY <1>2, RootAlone DEF HistoryInit, Dated, Rooted, RevokedSignNoMore
<1>5. LateBehind
  BY RootAlone DEF HistoryInit, LateBehind, NoneNewer
<1> QED BY <1>3, <1>4, <1>5 DEF RecordsInv

(* What the invariant says of whoever is a member, and of the records of     *)
(* the members.                                                              *)
LEMMA MembersKnown ==
    ASSUME RecordsInv
    PROVE  /\ Members(set) = DOMAIN set.adm \ DOMAIN set.rev
           /\ validAdmissions(set) = DOMAIN set.adm \ DOMAIN set.rev
           /\ \A id \in Identity : Valid(set, id) <=> id \in DOMAIN set.adm \ DOMAIN set.rev
           /\ \A i \in DOMAIN set.adm : set.adm[i].issuedAt \in Int /\ set.adm[i].issuedAt <= now
           /\ \A r \in Revs : r \in Revocation /\ r.issuedAt \in Int /\ r.issuedAt <= now
           /\ now \in Int
<1>1. /\ Members(set) = DOMAIN set.adm \ DOMAIN set.rev
      /\ validAdmissions(set) = DOMAIN set.adm \ DOMAIN set.rev
      /\ \A id \in Identity : Valid(set, id) <=> id \in DOMAIN set.adm \ DOMAIN set.rev
  BY SetGrounded, GroundedMembers
<1>2. now \in Int /\ \A i \in DOMAIN set.adm : set.adm[i].issuedAt \in Int
  BY DEF RecordsInv, RecordsTyped, IsTrustSet, IsPartial, Admission, Time
<1>3. \A r \in Revs : r \in Revocation
  BY DEF RecordsInv, RecordsTyped, IsTrustSet, IsPartial, Revs
<1>4. \A r \in Revocation : r.issuedAt \in Int
  BY DEF Revocation, Time
<1> QED BY <1>1, <1>2, <1>3, <1>4 DEF RecordsInv, Dated

(* A member admits somebody: the record is stored, as it is newer than any.  *)
LEMMA AdmitInv ==
    ASSUME RecordsInv, ~SameSecond, ~Reenrols, NEW n \in Identity, NEW j \in Identity,
           admit(n, j), Valid(set, n)
    PROVE  /\ RecordsInv'
           /\ DOMAIN set'.adm = DOMAIN set.adm \cup {j}
           /\ set'.rev = set.rev
           /\ n \in DOMAIN set.adm \ DOMAIN set.rev
           /\ NoSharedSlot => NoSharedSlot'
<1> DEFINE host == admitHost(set, j)
           a == Admit(n, j, HostName[j], host, now')
<1> HIDE DEF host
<1>1. now' = now + 1 /\ now' \in Time /\ now' \in Int /\ now < now'
  BY MembersKnown DEF admit, Tick, Time
<1>2. n \in DOMAIN set.adm \ DOMAIN set.rev /\ n # j
  BY MembersKnown DEF admit
<1>3. /\ j # Root
      /\ \A i \in DOMAIN set.adm : set.adm[i].admitter # j
      \/ j \notin DOMAIN set.adm
  BY DEF admit, MayEnrol, Signed, RecordsInv, Rooted
<1>4. j # Root
  BY <1>3 DEF RecordsInv, Rooted
<1>5. \A i \in DOMAIN set.adm \ {Root} : set.adm[i].admitter # j
  BY <1>3 DEF RecordsInv, Rooted
<1>6. host \in Host /\ host # 0
  <2>1. j \in DOMAIN set.adm => set.adm[j].host \in Host
    BY DEF RecordsInv, RecordsTyped, IsTrustSet, IsPartial, Admission
  <2>2. host # 0
    BY DEF admit, host
  <2> QED BY <2>1, <2>2, FreeHostType DEF host, admitHost
<1>7. a \in Admission
  BY <1>1, <1>6, HistoryAssumption DEF HistoryAssumption, Admit, Admission
<1>8. /\ a.identity = j /\ a.admitter = n /\ a.issuedAt = now' /\ a.host = host
      /\ ValidateAdmission(a)
  BY <1>6, HistoryAssumption DEF HistoryAssumption, Admit, ValidateAdmission
<1>9. /\ set' = AddAdmission(set, a) /\ pending' = pending \cup {a} /\ late' = late
  BY DEF admit, Spread, host
<1> HIDE DEF a
<1>10. StoresAdmission(set, a)
  BY <1>1, <1>2, <1>8, MembersKnown DEF StoresAdmission
<1>11. /\ IsTrustSet(set')
       /\ DOMAIN set'.adm = DOMAIN set.adm \cup {j}
       /\ set'.adm[j] = a
       /\ \A i \in DOMAIN set.adm \ {j} : set'.adm[i] = set.adm[i]
       /\ set'.rev = set.rev
  BY <1>7, <1>8, <1>9, <1>10, AddAdmissionType, AddAdmissionStores DEF RecordsInv, RecordsTyped
<1>12. a \notin Revocation
  BY <1>7 DEF Admission, Revocation
<1>13. Revs' = Revs
  BY <1>9, <1>11, <1>12 DEF Revs
<1>14. RecordsTyped'
  BY <1>1, <1>7, <1>9, <1>11 DEF RecordsInv, RecordsTyped
<1>15. Keyed'
  BY <1>8, <1>9, <1>11 DEF RecordsInv, Keyed
<1>16. Dated'
  BY <1>1, <1>8, <1>11, <1>13, MembersKnown DEF Dated
<1>17. Rooted'
  <2>1. Root \in DOMAIN set'.adm /\ set'.adm[Root].admitter = Root
    BY <1>4, <1>11 DEF RecordsInv, Rooted
  <2>2. ASSUME NEW i \in DOMAIN set'.adm \ {Root}
        PROVE  /\ set'.adm[i].admitter \in DOMAIN set'.adm
               /\ set'.adm[set'.adm[i].admitter].issuedAt < set'.adm[i].issuedAt
    <3>1. CASE i = j
      BY <1>1, <1>2, <1>8, <1>11, <3>1, MembersKnown
    <3>2. CASE i # j
      <4>1. i \in DOMAIN set.adm \ {Root} /\ set'.adm[i] = set.adm[i]
        BY <1>11, <3>2
      <4>2. set.adm[i].admitter \in DOMAIN set.adm \ {j}
            /\ set.adm[set.adm[i].admitter].issuedAt < set.adm[i].issuedAt
        BY <1>5, <4>1 DEF RecordsInv, Rooted
      <4> QED BY <1>11, <4>1, <4>2
    <3> QED BY <3>1, <3>2
  <2> QED BY <2>1, <2>2 DEF Rooted
<1>18. RevokedSignNoMore'
  <2> SUFFICES ASSUME NEW r \in Revs
               PROVE  /\ ValidateRevocation(r)
                      /\ r.identity \in DOMAIN set'.rev
                      /\ r.revoker \in DOMAIN set'.adm
                      /\ \A i \in DOMAIN set'.adm \ {Root} :
                            set'.adm[i].admitter = r.identity => set'.adm[i].issuedAt < r.issuedAt
                      /\ \A q \in Revs :
                            q.revoker = r.identity /\ q.identity # q.revoker => q.issuedAt < r.issuedAt
    BY <1>13 DEF RevokedSignNoMore
  <2>1. /\ ValidateRevocation(r)
        /\ r.identity \in DOMAIN set.rev
        /\ r.revoker \in DOMAIN set.adm
        /\ \A i \in DOMAIN set.adm \ {Root} :
              set.adm[i].admitter = r.identity => set.adm[i].issuedAt < r.issuedAt
        /\ \A q \in Revs :
              q.revoker = r.identity /\ q.identity # q.revoker => q.issuedAt < r.issuedAt
    BY DEF RecordsInv, RevokedSignNoMore
  <2>2. \A i \in DOMAIN set'.adm \ {Root} :
            set'.adm[i].admitter = r.identity => set'.adm[i].issuedAt < r.issuedAt
    BY <1>2, <1>8, <1>11, <2>1
  <2> QED BY <1>11, <2>1, <2>2
<1>19. LateBehind'
  <2> DEFINE Now(b) == /\ b.identity \in DOMAIN set'.adm
                       /\ b = set'.adm[b.identity] \/ b.issuedAt < set'.adm[b.identity].issuedAt
  <2>1. ASSUME NEW b \in Admission, NoneNewer(b) PROVE Now(b)
    <3>1. /\ b.issuedAt \in Int /\ b.identity \in DOMAIN set.adm
          /\ b = set.adm[b.identity] \/ b.issuedAt < set.adm[b.identity].issuedAt
      BY <2>1 DEF Admission, NoneNewer, Time
    <3>2. b.issuedAt <= now
      BY <3>1, MembersKnown
    <3>3. CASE b.identity = j
      <4>1. b.issuedAt < a.issuedAt
        BY <1>1, <1>8, <3>1, <3>2, MembersKnown
      <4> QED BY <1>11, <3>3, <4>1
    <3>4. CASE b.identity # j
      BY <1>11, <3>1, <3>4
    <3> QED BY <3>3, <3>4
  <2>2. Now(a)
    BY <1>8, <1>11
  <2>3. \A i \in DOMAIN late.adm : late.adm[i].identity = i /\ Now(late.adm[i])
    <3>1. \A i \in DOMAIN late.adm : late.adm[i] \in Admission
      BY DEF RecordsInv, RecordsTyped, IsTrustSet, IsPartial
    <3> HIDE DEF Now
    <3> QED BY <2>1, <3>1 DEF RecordsInv, LateBehind
  <2>4. \A b \in pending' \cap Admission :
            Now(b) /\ ValidateAdmission(b) /\ b.admitter # b.identity
    <3> HIDE DEF Now
    <3> QED BY <1>2, <1>8, <1>9, <2>1, <2>2 DEF RecordsInv, LateBehind
  <2>5. \A i \in DOMAIN set'.adm :
            (i \in DOMAIN late'.adm /\ late'.adm[i] = set'.adm[i]) \/ set'.adm[i] \in pending'
    BY <1>9, <1>11 DEF RecordsInv, LateBehind
  <2>6. \A i \in DOMAIN set'.rev :
            i \in DOMAIN late'.rev \/ \E r \in pending' \cap Revocation : r.identity = i
    BY <1>9, <1>11 DEF RecordsInv, LateBehind
  <2> QED BY <1>9, <2>3, <2>4, <2>5, <2>6 DEF LateBehind, NoneNewer
<1>20. RecordsInv'
  BY <1>14, <1>15, <1>16, <1>17, <1>18, <1>19 DEF RecordsInv
<1>21. (RecordsInv => Grounded(set))'
  BY SetGrounded, PTL
<1>22. validAdmissions(set') = (DOMAIN set.adm \cup {j}) \ DOMAIN set.rev
  <2>1. Grounded(set')
    BY <1>20, <1>21
  <2> QED BY <1>11, <2>1, GroundedMembers
<1>23. ASSUME NoSharedSlot PROVE NoSharedSlot'
  <2>1. ASSUME NEW i \in validAdmissions(set), i # j PROVE set.adm[i].host # host
    <3>1. CASE j \in DOMAIN set.adm /\ Valid(set, j)
      <4>1. host = set.adm[j].host /\ j \in validAdmissions(set)
        BY <3>1 DEF host, admitHost, validAdmissions
      <4> QED BY <1>23, <2>1, <4>1 DEF NoSharedSlot
    <3>2. CASE ~(j \in DOMAIN set.adm /\ Valid(set, j))
      <4>1. host = FreeHost(set) /\ IsTrustSet(set)
        BY <3>2 DEF host, admitHost, RecordsInv, RecordsTyped
      <4> QED BY <1>6, <2>1, <4>1, FreeHostUnused
    <3> QED BY <3>1, <3>2
  <2>2. \A i \in validAdmissions(set') : i # j => i \in validAdmissions(set) /\ set'.adm[i] = set.adm[i]
    BY <1>11, <1>22, MembersKnown
  <2>3. \A i \in validAdmissions(set') : i # j => set'.adm[i].host # set'.adm[j].host
    BY <1>8, <1>11, <2>1, <2>2
  <2>4. \A i, k \in validAdmissions(set') :
            i # j /\ k # j /\ set'.adm[i].host = set'.adm[k].host => i = k
    BY <1>23, <2>2 DEF NoSharedSlot
  <2> QED BY <2>3, <2>4 DEF NoSharedSlot
<1> QED BY <1>2, <1>11, <1>20, <1>23

(* A member revokes somebody, perhaps itself, perhaps once more.             *)
LEMMA RevokeInv ==
    ASSUME RecordsInv, ~SameSecond, NEW n \in Identity, NEW x \in Identity,
           revoke(n, x), Valid(set, n)
    PROVE  /\ RecordsInv'
           /\ DOMAIN set'.rev = DOMAIN set.rev \cup {x}
           /\ set'.adm = set.adm
           /\ n \in DOMAIN set.adm \ DOMAIN set.rev
           /\ NoSharedSlot => NoSharedSlot'
<1> DEFINE r == Revoke(n, x, now')
<1>1. now' = now + 1 /\ now' \in Time /\ now' \in Int /\ now < now'
  BY MembersKnown DEF revoke, Tick, Time
<1>2. n \in DOMAIN set.adm \ DOMAIN set.rev
  BY MembersKnown DEF revoke
<1>3. r \in Revocation /\ r.identity = x /\ r.revoker = n /\ r.issuedAt = now' /\ ValidateRevocation(r)
  BY <1>1 DEF Revoke, Revocation, ValidateRevocation
<1>4. set' = AddRevocation(set, r) /\ pending' = pending \cup {r} /\ late' = late
  BY DEF revoke, Spread
<1> HIDE DEF r
<1>5. /\ IsTrustSet(set')
      /\ set'.adm = set.adm
      /\ DOMAIN set'.rev = DOMAIN set.rev \cup {x}
      /\ \A i \in DOMAIN set'.rev : \/ i \in DOMAIN set.rev /\ set'.rev[i] = set.rev[i]
                                    \/ i = x /\ set'.rev[i] = r
  <2>1. IsTrustSet(set)
    BY DEF RecordsInv, RecordsTyped
  <2>2. CASE x \in DOMAIN set.rev
    <3>1. ~StoresRevocation(set, r)
      BY <1>3, <2>2 DEF StoresRevocation
    <3> QED BY <1>3, <1>4, <2>1, <2>2, <3>1, AddRevocationStores
  <2>3. CASE x \notin DOMAIN set.rev
    <3>1. StoresRevocation(set, r)
      BY <1>3, <2>3 DEF StoresRevocation
    <3> QED BY <1>3, <1>4, <2>1, <3>1, AddRevocationStores, AddRevocationType
  <2> QED BY <2>2, <2>3
<1>6. r \notin Admission
  BY <1>3 DEF Admission, Revocation
<1>7. Revs' \subseteq Revs \cup {r}
  BY <1>4, <1>5 DEF Revs
<1>8. RecordsTyped'
  BY <1>1, <1>3, <1>4, <1>5 DEF RecordsInv, RecordsTyped
<1>9. Keyed'
  BY <1>3, <1>4, <1>5 DEF RecordsInv, Keyed
<1>10. Dated'
  BY <1>1, <1>3, <1>5, <1>7, MembersKnown DEF Dated
<1>11. Rooted'
  BY <1>5 DEF RecordsInv, Rooted
<1>12. RevokedSignNoMore'
  <2>1. ASSUME NEW p \in Revs \cup {r}
        PROVE  /\ ValidateRevocation(p)
               /\ p.identity \in DOMAIN set'.rev
               /\ p.revoker \in DOMAIN set'.adm
    BY <1>2, <1>3, <1>5 DEF RecordsInv, RevokedSignNoMore
  <2>2. ASSUME NEW p \in Revs \cup {r}, NEW i \in DOMAIN set.adm \ {Root}, set.adm[i].admitter = p.identity
        PROVE  set.adm[i].issuedAt < p.issuedAt
    <3>1. CASE p \in Revs
      BY <2>2, <3>1 DEF RecordsInv, RevokedSignNoMore
    <3>2. CASE p = r
      BY <1>1, <1>3, <3>2, MembersKnown
    <3> QED BY <3>1, <3>2
  <2>3. ASSUME NEW p \in Revs \cup {r}, NEW q \in Revs \cup {r},
               q.revoker = p.identity, q.identity # q.revoker
        PROVE  q.issuedAt < p.issuedAt
    <3>1. CASE p \in Revs /\ q \in Revs
      BY <2>3, <3>1 DEF RecordsInv, RevokedSignNoMore
    <3>2. CASE p \in Revs /\ q = r
      <4>1. p.identity \in DOMAIN set.rev
        BY <3>2 DEF RecordsInv, RevokedSignNoMore
      <4> QED BY <1>2, <1>3, <2>3, <3>2, <4>1
    <3>3. CASE p = r /\ q \in Revs
      BY <1>1, <1>3, <3>3, MembersKnown
    <3>4. CASE p = r /\ q = r
      BY <1>3, <2>3, <3>4
    <3> QED BY <3>1, <3>2, <3>3, <3>4
  <2> QED BY <1>5, <1>7, <2>1, <2>2, <2>3 DEF RevokedSignNoMore
<1>13. LateBehind'
  <2>1. \A i \in DOMAIN late.adm : late.adm[i].identity = i /\ NoneNewer(late.adm[i])
    BY DEF RecordsInv, LateBehind
  <2>2. \A b \in pending' \cap Admission :
            NoneNewer(b) /\ ValidateAdmission(b) /\ b.admitter # b.identity
    BY <1>4, <1>6 DEF RecordsInv, LateBehind
  <2>3. \A i \in DOMAIN set.adm :
            (i \in DOMAIN late.adm /\ late.adm[i] = set.adm[i]) \/ set.adm[i] \in pending'
    BY <1>4 DEF RecordsInv, LateBehind
  <2>4. \A i \in DOMAIN set'.rev :
            i \in DOMAIN late'.rev \/ \E p \in pending' \cap Revocation : p.identity = i
    BY <1>3, <1>4, <1>5 DEF RecordsInv, LateBehind
  <2> QED BY <1>4, <1>5, <2>1, <2>2, <2>3, <2>4 DEF LateBehind, NoneNewer
<1>14. RecordsInv'
  BY <1>8, <1>9, <1>10, <1>11, <1>12, <1>13 DEF RecordsInv
<1>15. (RecordsInv => Grounded(set))'
  BY SetGrounded, PTL
<1>16. validAdmissions(set') \subseteq validAdmissions(set)
  <2>1. Grounded(set')
    BY <1>14, <1>15
  <2> QED BY <1>5, <2>1, GroundedMembers, MembersKnown
<1>17. NoSharedSlot => NoSharedSlot'
  BY <1>5, <1>16 DEF NoSharedSlot
<1> QED BY <1>2, <1>5, <1>14, <1>17

(* A record reaches the late node.                                           *)
LEMMA DeliverInv ==
    ASSUME RecordsInv, NEW r \in pending, Deliver(r)
    PROVE  RecordsInv'
<1>1. now' = now /\ set' = set /\ pending' = pending \ {r} /\ IsTrustSet(late)
  BY DEF Deliver, RecordsInv, RecordsTyped
<1>2. CASE r \in Admission
  <2>1. late' = AddAdmission(late, r) /\ r \notin Revocation
    BY <1>2 DEF Deliver, Admission, Revocation
  <2>2. /\ NoneNewer(r) /\ ValidateAdmission(r) /\ r.admitter # r.identity
    BY <1>2 DEF RecordsInv, LateBehind
  <2>3. IsTrustSet(late') /\ late'.rev = late.rev
    BY <1>1, <1>2, <2>1, AddAdmissionType
  <2>4. Revs' = Revs
    BY <1>1, <2>1, <2>3 DEF Revs
  <2>5. RecordsTyped' /\ Keyed' /\ Dated' /\ Rooted' /\ RevokedSignNoMore'
    BY <1>1, <2>3, <2>4 DEF RecordsInv, RecordsTyped, Keyed, Dated, Rooted, RevokedSignNoMore
  <2>6. /\ r.identity \in DOMAIN late'.adm
        /\ \A i \in DOMAIN late'.adm \ {r.identity} : i \in DOMAIN late.adm /\ late'.adm[i] = late.adm[i]
        /\ \A i \in DOMAIN late.adm \ {r.identity} : i \in DOMAIN late'.adm
        /\ \/ late'.adm[r.identity] = r
           \/ /\ r.identity \in DOMAIN late.adm /\ late'.adm = late.adm
              /\ ~(late.adm[r.identity].issuedAt < r.issuedAt)
    <3>1. CASE StoresAdmission(late, r)
      BY <1>1, <1>2, <2>1, <3>1, AddAdmissionStores
    <3>2. CASE ~StoresAdmission(late, r)
      <4>1. late' = late /\ r.identity \in DOMAIN late.adm /\ ~(late.adm[r.identity].issuedAt < r.issuedAt)
        BY <1>1, <1>2, <2>1, <2>2, <3>2, AddAdmissionStores DEF StoresAdmission
      <4> QED BY <4>1
    <3> QED BY <3>1, <3>2
  <2>7. LateBehind'
    <3>1. \A i \in DOMAIN late'.adm : late'.adm[i].identity = i /\ NoneNewer(late'.adm[i])
      BY <2>2, <2>6 DEF RecordsInv, LateBehind
    <3>2. \A b \in pending' \cap Admission :
              NoneNewer(b) /\ ValidateAdmission(b) /\ b.admitter # b.identity
      BY <1>1 DEF RecordsInv, LateBehind
    <3>3. ASSUME NEW i \in DOMAIN set.adm
          PROVE  (i \in DOMAIN late'.adm /\ late'.adm[i] = set.adm[i]) \/ set.adm[i] \in pending'
      <4>1. (i \in DOMAIN late.adm /\ late.adm[i] = set.adm[i]) \/ set.adm[i] \in pending
        BY DEF RecordsInv, LateBehind
      <4>2. CASE i # r.identity
        <5>1. set.adm[i].identity = i
          BY DEF RecordsInv, Keyed
        <5> QED BY <1>1, <2>6, <4>1, <4>2, <5>1
      <4>3. CASE i = r.identity
        <5>1. /\ set.adm[i].issuedAt \in Int /\ r.issuedAt \in Int
              /\ i \in DOMAIN late.adm => late.adm[i].issuedAt \in Int
          BY <1>2 DEF RecordsInv, RecordsTyped, IsTrustSet, IsPartial, Admission, Time
        <5>2. r = set.adm[i] \/ r.issuedAt < set.adm[i].issuedAt
          BY <2>2, <4>3 DEF NoneNewer
        <5>3. i \in DOMAIN late.adm => late.adm[i] = set.adm[i] \/ late.adm[i].issuedAt < set.adm[i].issuedAt
          BY <2>6 DEF RecordsInv, LateBehind, NoneNewer
        <5>4. CASE r = set.adm[i]
          BY <2>6, <4>3, <5>1, <5>3, <5>4
        <5>5. CASE r # set.adm[i]
          <6>1. CASE set.adm[i] \in pending
            BY <1>1, <5>5, <6>1
          <6>2. CASE i \in DOMAIN late.adm /\ late.adm[i] = set.adm[i]
            <7>1. ~(late.adm[i].issuedAt < r.issuedAt)
              BY <5>1, <5>2, <5>5, <6>2
            <7>2. ~StoresAdmission(late, r)
              BY <4>3, <6>2, <7>1 DEF StoresAdmission
            <7> QED BY <1>1, <1>2, <2>1, <6>2, <7>2, AddAdmissionStores
          <6> QED BY <4>1, <6>1, <6>2
        <5> QED BY <5>4, <5>5
      <4> QED BY <4>2, <4>3
    <3>4. \A i \in DOMAIN set.rev :
              i \in DOMAIN late'.rev \/ \E p \in pending' \cap Revocation : p.identity = i
      BY <1>1, <2>1, <2>3 DEF RecordsInv, LateBehind
    <3> QED BY <1>1, <3>1, <3>2, <3>3, <3>4 DEF LateBehind, NoneNewer
  <2> QED BY <2>5, <2>7 DEF RecordsInv
<1>3. CASE r \in Revocation
  <2>1. late' = AddRevocation(late, r) /\ r \notin Admission
    BY <1>3 DEF Deliver, Admission, Revocation
  <2>2. r \in Revs
    BY <1>3 DEF Revs
  <2>3. IsTrustSet(late') /\ late'.adm = late.adm /\ DOMAIN late.rev \subseteq DOMAIN late'.rev
    BY <1>1, <1>3, <2>1, AddRevocationType
  <2>4. /\ r.identity \in DOMAIN late'.rev
        /\ \A i \in DOMAIN late'.rev : \/ i \in DOMAIN late.rev /\ late'.rev[i] = late.rev[i]
                                       \/ i = r.identity /\ late'.rev[i] = r
    <3>1. ValidateRevocation(r)
      BY <2>2 DEF RecordsInv, RevokedSignNoMore
    <3>2. CASE StoresRevocation(late, r)
      BY <1>1, <1>3, <2>1, <3>2, AddRevocationStores
    <3>3. CASE ~StoresRevocation(late, r)
      <4>1. late' = late /\ r.identity \in DOMAIN late.rev
        BY <1>1, <1>3, <2>1, <3>1, <3>3, AddRevocationStores DEF StoresRevocation
      <4> QED BY <4>1
    <3> QED BY <3>2, <3>3
  <2>5. Revs' \subseteq Revs
    BY <1>1, <1>3, <2>2, <2>4 DEF Revs
  <2>6. RecordsTyped' /\ Keyed' /\ Dated' /\ Rooted'
    BY <1>1, <2>3, <2>4, <2>5 DEF RecordsInv, RecordsTyped, Keyed, Dated, Rooted
  <2>7. RevokedSignNoMore'
    BY <1>1, <2>5 DEF RecordsInv, RevokedSignNoMore
  <2>8. LateBehind'
    <3>1. \A b \in pending' \cap Admission :
              NoneNewer(b) /\ ValidateAdmission(b) /\ b.admitter # b.identity
      BY <1>1 DEF RecordsInv, LateBehind
    <3>2. \A i \in DOMAIN set.adm :
              (i \in DOMAIN late.adm /\ late.adm[i] = set.adm[i]) \/ set.adm[i] \in pending'
      <4>1. \A i \in DOMAIN set.adm : set.adm[i] # r
        BY <2>1 DEF RecordsInv, RecordsTyped, IsTrustSet, IsPartial
      <4> QED BY <1>1, <4>1 DEF RecordsInv, LateBehind
    <3>3. \A i \in DOMAIN set.rev :
              i \in DOMAIN late'.rev \/ \E p \in pending' \cap Revocation : p.identity = i
      BY <1>1, <2>3, <2>4 DEF RecordsInv, LateBehind
    <3>4. \A i \in DOMAIN late.adm : late.adm[i].identity = i /\ NoneNewer(late.adm[i])
      BY DEF RecordsInv, LateBehind
    <3> QED BY <1>1, <2>3, <3>1, <3>2, <3>3, <3>4 DEF LateBehind, NoneNewer
  <2> QED BY <2>6, <2>7, <2>8 DEF RecordsInv
<1> QED BY <1>2, <1>3 DEF RecordsInv, RecordsTyped

(* What a node signs that is no member stays with it; time goes on.          *)
LEMMA UnheardInv ==
    ASSUME RecordsInv, ~SameSecond, NEW n \in Identity, NEW x \in Identity,
           admit(n, x) \/ revoke(n, x), ~Valid(set, n)
    PROVE  RecordsInv' /\ set' = set
<1>1. /\ now' = now + 1 /\ now' \in Time /\ now \in Int
      /\ set' = set /\ pending' = pending /\ late' = late
  BY MembersKnown DEF admit, revoke, Spread, Tick, Time
<1>2. \A r \in Revs \cup {set.adm[i] : i \in DOMAIN set.adm} : r.issuedAt <= now => r.issuedAt <= now'
  <2>1. /\ \A r \in Revs : r.issuedAt \in Int
        /\ \A i \in DOMAIN set.adm : set.adm[i].issuedAt \in Int
    BY MembersKnown
  <2> QED BY <1>1, <2>1
<1> QED BY <1>1, <1>2 DEF RecordsInv, RecordsTyped, Keyed, Dated, Rooted, RevokedSignNoMore,
                          LateBehind, NoneNewer, Revs

(* A step is an admission, a revocation, a delivery, or none.                *)
LEMMA RecordsNext ==
    ASSUME ~SameSecond, ~Reenrols
    PROVE  RecordsInv /\ [HistoryNext]_historyVars => RecordsInv'
<1> SUFFICES ASSUME RecordsInv, [HistoryNext]_historyVars PROVE RecordsInv'
  OBVIOUS
<1>1. ASSUME NEW n \in Identity, NEW x \in Identity, admit(n, x) PROVE RecordsInv'
  BY <1>1, AdmitInv, UnheardInv
<1>2. ASSUME NEW n \in Identity, NEW x \in Identity, revoke(n, x) PROVE RecordsInv'
  BY <1>2, RevokeInv, UnheardInv
<1>3. ASSUME NEW r \in pending, Deliver(r) PROVE RecordsInv'
  BY <1>3, DeliverInv
<1>4. CASE UNCHANGED historyVars
  BY <1>4 DEF historyVars, RecordsInv, RecordsTyped, Keyed, Dated, Rooted, RevokedSignNoMore,
              LateBehind, NoneNewer, Revs
<1> QED BY <1>1, <1>2, <1>3, <1>4 DEF HistoryNext

(* The inductive invariant: every record that has spread was made by a       *)
(* member of the moment, whoever was revoked signed nothing afterwards, and  *)
(* what the late node lacks is on its way to it.                             *)
THEOREM RecordsInvariant ==
    ASSUME ~SameSecond, ~Reenrols
    PROVE  HistorySpec => []RecordsInv
<1>1. RecordsInv /\ [HistoryNext]_historyVars => RecordsInv'
  BY RecordsNext
<1> QED BY <1>1, HistoryInitInv, PTL DEF HistorySpec

(* No two members hold one overlay slot: Set.FreeHost hands out no slot a    *)
(* member holds, and a member that is admitted again keeps its own           *)
(* (Cluster.admit).                                                          *)
THEOREM NoSharedSlotTheorem ==
    ASSUME ~SameSecond, ~Reenrols
    PROVE  HistorySpec => []NoSharedSlot
<1>1. HistoryInit => NoSharedSlot
  <2> SUFFICES ASSUME HistoryInit PROVE NoSharedSlot
    OBVIOUS
  <2>1. DOMAIN set.adm = {Root}
    BY RootAlone DEF HistoryInit
  <2> QED BY <2>1 DEF NoSharedSlot, validAdmissions
<1>2. RecordsInv /\ NoSharedSlot /\ [HistoryNext]_historyVars => NoSharedSlot'
  <2> SUFFICES ASSUME RecordsInv, NoSharedSlot, [HistoryNext]_historyVars PROVE NoSharedSlot'
    OBVIOUS
  <2>1. set' = set => NoSharedSlot'
    BY DEF NoSharedSlot
  <2>2. ASSUME NEW n \in Identity, NEW x \in Identity, admit(n, x) PROVE NoSharedSlot'
    BY <2>1, <2>2, AdmitInv, UnheardInv
  <2>3. ASSUME NEW n \in Identity, NEW x \in Identity, revoke(n, x) PROVE NoSharedSlot'
    BY <2>1, <2>3, RevokeInv, UnheardInv
  <2> QED BY <2>1, <2>2, <2>3 DEF HistoryNext, historyVars, Deliver
<1>3. HistorySpec => []RecordsInv
  BY RecordsInvariant
<1> QED BY <1>1, <1>2, <1>3, PTL DEF HistorySpec

(* Whatever the order in which a node receives the records, once it has all  *)
(* of them it judges everybody as the others do (Set.AddAdmission and        *)
(* Set.AddRevocation, Set.Valid).                                            *)
THEOREM ArrivalOrderTheorem ==
    ASSUME ~SameSecond, ~Reenrols
    PROVE  HistorySpec => []ArrivalOrderIrrelevant
<1>1. RecordsInv => ArrivalOrderIrrelevant
  <2> SUFFICES ASSUME RecordsInv, pending = {} PROVE Members(late) = Members(set)
    BY DEF ArrivalOrderIrrelevant
  <2>1. Grounded(late) /\ DOMAIN late.adm = DOMAIN set.adm /\ DOMAIN late.rev = DOMAIN set.rev
    BY LateGrounded
  <2> QED BY <2>1, GroundedMembers, MembersKnown
<1>2. HistorySpec => []RecordsInv
  BY RecordsInvariant
<1> QED BY <1>1, <1>2, PTL

(* Judging the records at query time (Set.validAt) implements the membership *)
(* that the operations promise when they are taken in order: an admission    *)
(* brings in one identity unless it was revoked, a revocation takes out one  *)
(* and nobody it had admitted, a delivery changes nothing.                   *)
THEOREM JudgedAsPromisedTheorem ==
    ASSUME ~SameSecond, ~Reenrols
    PROVE  HistorySpec => JudgedAsPromised
<1>1. HistoryInit => Abstract!Init
  <2> SUFFICES ASSUME HistoryInit PROVE Abstract!Init
    OBVIOUS
  <2>1. Members(set) = DOMAIN set.adm \ DOMAIN set.rev
    BY HistoryInitInv, MembersKnown
  <2>2. DOMAIN set.adm = {Root} /\ DOMAIN set.rev = {}
    BY RootAlone DEF HistoryInit
  <2> QED BY <2>1, <2>2 DEF Abstract!Init
<1>2. RecordsInv /\ RecordsInv' /\ [HistoryNext]_historyVars
      => [Abstract!Next]_<<Members(set), DOMAIN set.rev>>
  <2> SUFFICES ASSUME RecordsInv, RecordsInv', [HistoryNext]_historyVars
               PROVE  [Abstract!Next]_<<Members(set), DOMAIN set.rev>>
    OBVIOUS
  <2>1. Members(set) = DOMAIN set.adm \ DOMAIN set.rev
    BY MembersKnown
  <2>2. Members(set') = DOMAIN set'.adm \ DOMAIN set'.rev
    <3>1. (RecordsInv => Grounded(set))'
      BY SetGrounded, PTL
    <3> QED BY <3>1, GroundedMembers
  <2>3. ASSUME NEW n \in Identity, NEW x \in Identity, admit(n, x), Valid(set, n)
        PROVE  Abstract!Admit(n, x)
    <3>1. /\ DOMAIN set'.adm = DOMAIN set.adm \cup {x} /\ set'.rev = set.rev
          /\ n \in DOMAIN set.adm \ DOMAIN set.rev
      BY <2>3, AdmitInv
    <3> QED BY <2>1, <2>2, <3>1 DEF Abstract!Admit
  <2>4. ASSUME NEW n \in Identity, NEW x \in Identity, revoke(n, x), Valid(set, n)
        PROVE  Abstract!Revoke(n, x)
    <3>1. /\ DOMAIN set'.rev = DOMAIN set.rev \cup {x} /\ set'.adm = set.adm
          /\ n \in DOMAIN set.adm \ DOMAIN set.rev
      BY <2>4, RevokeInv
    <3> QED BY <2>1, <2>2, <3>1 DEF Abstract!Revoke
  <2>5. CASE set' = set
    BY <2>5
  <2>6. ASSUME NEW n \in Identity, NEW x \in Identity, admit(n, x) \/ revoke(n, x), ~Valid(set, n)
        PROVE  set' = set
    BY <2>6, UnheardInv
  <2> QED BY <2>3, <2>4, <2>5, <2>6 DEF HistoryNext, historyVars, Deliver, Abstract!Next
<1>3. HistorySpec => []RecordsInv
  BY RecordsInvariant
<1> QED BY <1>1, <1>2, <1>3, PTL DEF HistorySpec, JudgedAsPromised, Abstract!Spec

-----------------------------------------------------------------------------
(* The cache of trust.Set is sound and its answers are linearizable, for any *)
(* number of goroutines, identities and record changes.                      *)

(* At the start nobody holds a lock and the one map there is is empty.       *)
LEMMA CacheInit == Init => CacheInv
  <1> SUFFICES ASSUME Init PROVE CacheInv
    OBVIOUS
  <1> USE CacheAssumption DEF Init, Map, Active, Verdict, Answer
  <1>1. TypeOK
    BY DEF TypeOK
  <1>2. ReadersExcludeWriter /\ TruthFollowsRecords /\ RoomForMap /\ OnlyYesStored
    BY DEF ReadersExcludeWriter, TruthFollowsRecords, RoomForMap, OnlyYesStored
  <1>3. FutureMapsEmpty
    BY DEF FutureMapsEmpty
  <1>4. PendingStoresSound /\ SeenCurrent /\ SeenAnswers
    BY DEF PendingStoresSound, SeenCurrent, SeenAnswers, Judged
  <1>5. CacheSound
    BY DEF CacheSound
  <1> QED
    BY <1>1, <1>2, <1>3, <1>4, <1>5 DEF CacheInv

(* The write side: a change is made and the map replaced under the lock.     *)
LEMMA CacheWrite == CacheInv /\ Write => CacheInv'
  <1> SUFFICES ASSUME CacheInv, Write PROVE CacheInv'
    OBVIOUS
  <1> USE CacheAssumption DEF Map, Active, Verdict, Answer
  <1>1. CASE Lock
    <2> USE <1>1 DEF CacheInv, Lock
    <2>1. TypeOK'
      BY DEF TypeOK
    <2>2. (ReadersExcludeWriter /\ TruthFollowsRecords /\ RoomForMap /\ OnlyYesStored)'
      BY DEF TypeOK, ReadersExcludeWriter, TruthFollowsRecords, RoomForMap, OnlyYesStored
    <2>3. (FutureMapsEmpty /\ CacheSound)'
      BY DEF FutureMapsEmpty, CacheSound
    <2>4. (PendingStoresSound /\ SeenCurrent /\ SeenAnswers)'
      BY DEF PendingStoresSound, SeenCurrent, SeenAnswers, Judged
    <2> QED
      BY <2>1, <2>2, <2>3, <2>4
  <1>2. CASE ChangeRecord
    <2> USE <1>2 DEF CacheInv, ChangeRecord
    <2>1. TypeOK'
      BY DEF TypeOK
    <2>2. (ReadersExcludeWriter /\ TruthFollowsRecords /\ RoomForMap /\ OnlyYesStored)'
      BY DEF TypeOK, ReadersExcludeWriter, TruthFollowsRecords, RoomForMap, OnlyYesStored
    <2>3. (FutureMapsEmpty /\ CacheSound)'
      BY DEF FutureMapsEmpty, CacheSound
    <2>4. (PendingStoresSound /\ SeenCurrent /\ SeenAnswers)'
      BY DEF PendingStoresSound, SeenCurrent, SeenAnswers, Judged
    <2> QED
      BY <2>1, <2>2, <2>3, <2>4
  <1>3. CASE KeepRecords
    <2> USE <1>3 DEF CacheInv, KeepRecords
    <2>1. TypeOK'
      BY DEF TypeOK
    <2>2. (ReadersExcludeWriter /\ TruthFollowsRecords /\ RoomForMap /\ OnlyYesStored)'
      BY DEF TypeOK, ReadersExcludeWriter, TruthFollowsRecords, RoomForMap, OnlyYesStored
    <2>3. (FutureMapsEmpty /\ CacheSound)'
      BY DEF FutureMapsEmpty, CacheSound
    <2>4. (PendingStoresSound /\ SeenCurrent /\ SeenAnswers)'
      BY DEF PendingStoresSound, SeenCurrent, SeenAnswers, Judged
    <2> QED
      BY <2>1, <2>2, <2>3, <2>4
  <1>4. CASE Forget
    <2> USE <1>4 DEF CacheInv, Forget
    <2>0. cur \in Map /\ cur + 1 \in Map /\ \A r \in Reader : cached[r] # cur + 1
      BY DEF TypeOK, RoomForMap, FutureMapsEmpty
    <2>1. TypeOK'
      <3>1. seen' \in [Reader -> SUBSET {"yes", "no"}]
        BY DEF TypeOK
      <3> QED
        BY <2>0, <3>1 DEF TypeOK
    <2>2. (ReadersExcludeWriter /\ TruthFollowsRecords /\ RoomForMap /\ OnlyYesStored)'
      BY DEF TypeOK, ReadersExcludeWriter, TruthFollowsRecords, RoomForMap, OnlyYesStored
    <2>3. maps'[cur'] = {}
      BY <2>0 DEF FutureMapsEmpty
    <2>4. FutureMapsEmpty' /\ CacheSound'
      BY <2>0, <2>3 DEF TypeOK, FutureMapsEmpty, CacheSound
    <2>5. PendingStoresSound'
      BY <2>0 DEF PendingStoresSound
    <2>6. \A r \in Reader : pc[r] # "idle" => seen'[r] = seen[r] \cup {Verdict(arg[r], records)}
      BY DEF TypeOK
    <2>7. SeenCurrent'
      BY <2>6 DEF SeenCurrent
    <2>8. SeenAnswers'
      BY <2>6 DEF SeenAnswers, Judged
    <2> QED
      BY <2>1, <2>2, <2>4, <2>5, <2>7, <2>8
  <1>5. CASE Unlock
    <2> USE <1>5 DEF CacheInv, Unlock
    <2>1. TypeOK'
      BY DEF TypeOK
    <2>2. (ReadersExcludeWriter /\ TruthFollowsRecords /\ RoomForMap /\ OnlyYesStored)'
      BY DEF TypeOK, ReadersExcludeWriter, TruthFollowsRecords, RoomForMap, OnlyYesStored
    <2>3. (FutureMapsEmpty /\ CacheSound)'
      BY DEF FutureMapsEmpty, CacheSound
    <2>4. (PendingStoresSound /\ SeenCurrent /\ SeenAnswers)'
      BY DEF PendingStoresSound, SeenCurrent, SeenAnswers, Judged
    <2> QED
      BY <2>1, <2>2, <2>3, <2>4
  <1> QED
    BY <1>1, <1>2, <1>3, <1>4, <1>5 DEF Write

(* The read side: one call of Valid, step by step.                           *)
LEMMA CacheRead == ASSUME NEW r \in Reader, CacheInv, Read(r) PROVE CacheInv'
  <1> USE CacheAssumption DEF Map, Active, Verdict, Answer, Goto, locks
  <1>1. ASSUME NEW id \in Id, Call(r, id) PROVE CacheInv'
    <2> USE <1>1 DEF CacheInv, Call
    <2>1. TypeOK'
      BY DEF TypeOK
    <2>2. (ReadersExcludeWriter /\ TruthFollowsRecords /\ RoomForMap /\ OnlyYesStored)'
      BY DEF TypeOK, ReadersExcludeWriter, TruthFollowsRecords, RoomForMap, OnlyYesStored
    <2>3. (FutureMapsEmpty /\ CacheSound)'
      BY DEF TypeOK, FutureMapsEmpty, CacheSound
    <2>4. PendingStoresSound'
      BY DEF TypeOK, PendingStoresSound, Judged
    <2>5. SeenCurrent'
      BY DEF TypeOK, SeenCurrent
    <2>6. SeenAnswers'
      BY DEF TypeOK, SeenAnswers, SeenCurrent, Judged
    <2> QED
      BY <2>1, <2>2, <2>3, <2>4, <2>5, <2>6
  <1>2. CASE Load(r)
    <2> USE <1>2 DEF CacheInv, Load
    <2>1. TypeOK'
      BY DEF TypeOK
    <2>2. (ReadersExcludeWriter /\ TruthFollowsRecords /\ RoomForMap /\ OnlyYesStored)'
      BY DEF TypeOK, ReadersExcludeWriter, TruthFollowsRecords, RoomForMap, OnlyYesStored
    <2>3. (FutureMapsEmpty /\ CacheSound)'
      BY DEF TypeOK, FutureMapsEmpty, CacheSound
    <2>4. PendingStoresSound'
      BY DEF TypeOK, PendingStoresSound, Judged
    <2>5. SeenCurrent'
      BY DEF TypeOK, SeenCurrent
    <2>6. SeenAnswers'
      <3>1. arg[r] \in truth => "yes" \in seen[r]
        BY DEF SeenCurrent
      <3>2. arg[r] \in maps[cur] => "yes" \in seen[r]
        BY <3>1 DEF CacheSound
      <3>3. \A q \in Reader : Judged(q) /\ cached[q] = cur /\ arg[q] = arg[r] => "yes" \in seen[r]
        BY <3>1 DEF PendingStoresSound
      <3>4. /\ cached'[r] = cur /\ pc'[r] = "lookup"
            /\ \A q \in Reader \ {r} : cached'[q] = cached[q] /\ pc'[q] = pc[q]
        BY DEF TypeOK
      <3>5. \A q \in Reader : Judged(q)' => Judged(q) /\ q # r
        BY <3>4 DEF Judged
      <3>6. ASSUME NEW q \in Reader, q # r
            PROVE  SeenAnswers!(q)'
        BY <3>4, <3>5, <3>6 DEF SeenAnswers
      <3>7. SeenAnswers!(r)'
        BY <3>2, <3>3, <3>4, <3>5
      <3> QED
        BY <3>6, <3>7 DEF SeenAnswers
    <2> QED
      BY <2>1, <2>2, <2>3, <2>4, <2>5, <2>6
  <1>3. CASE Hit(r)
    <2> USE <1>3 DEF CacheInv, Hit
    <2>1. TypeOK'
      BY DEF TypeOK
    <2>2. (ReadersExcludeWriter /\ TruthFollowsRecords /\ RoomForMap /\ OnlyYesStored)'
      BY DEF TypeOK, ReadersExcludeWriter, TruthFollowsRecords, RoomForMap, OnlyYesStored
    <2>3. (FutureMapsEmpty /\ CacheSound)'
      BY DEF TypeOK, FutureMapsEmpty, CacheSound
    <2>4. PendingStoresSound'
      BY DEF TypeOK, PendingStoresSound, Judged
    <2>5. SeenCurrent'
      BY DEF TypeOK, SeenCurrent
    <2>6. SeenAnswers'
      BY DEF TypeOK, SeenAnswers, SeenCurrent, Judged
    <2> QED
      BY <2>1, <2>2, <2>3, <2>4, <2>5, <2>6
  <1>4. CASE Miss(r)
    <2> USE <1>4 DEF CacheInv, Miss
    <2>1. TypeOK'
      BY DEF TypeOK
    <2>2. (ReadersExcludeWriter /\ TruthFollowsRecords /\ RoomForMap /\ OnlyYesStored)'
      BY DEF TypeOK, ReadersExcludeWriter, TruthFollowsRecords, RoomForMap, OnlyYesStored
    <2>3. (FutureMapsEmpty /\ CacheSound)'
      BY DEF TypeOK, FutureMapsEmpty, CacheSound
    <2>4. PendingStoresSound'
      BY DEF TypeOK, PendingStoresSound, Judged
    <2>5. SeenCurrent'
      BY DEF TypeOK, SeenCurrent
    <2>6. SeenAnswers'
      BY DEF TypeOK, SeenAnswers, SeenCurrent, Judged
    <2> QED
      BY <2>1, <2>2, <2>3, <2>4, <2>5, <2>6
  <1>5. CASE RLock(r)
    <2> USE <1>5 DEF CacheInv, RLock
    <2>1. TypeOK'
      BY DEF TypeOK
    <2>2. (ReadersExcludeWriter /\ TruthFollowsRecords /\ RoomForMap /\ OnlyYesStored)'
      BY DEF TypeOK, ReadersExcludeWriter, TruthFollowsRecords, RoomForMap, OnlyYesStored
    <2>3. (FutureMapsEmpty /\ CacheSound)'
      BY DEF TypeOK, FutureMapsEmpty, CacheSound
    <2>4. PendingStoresSound'
      BY DEF TypeOK, PendingStoresSound, Judged
    <2>5. SeenCurrent'
      BY DEF TypeOK, SeenCurrent
    <2>6. SeenAnswers'
      BY DEF TypeOK, SeenAnswers, SeenCurrent, Judged
    <2> QED
      BY <2>1, <2>2, <2>3, <2>4, <2>5, <2>6
  <1>6. CASE Judge(r)
    <2> USE <1>6 DEF CacheInv, Judge
    <2>1. TypeOK'
      BY DEF TypeOK
    <2>2. (ReadersExcludeWriter /\ TruthFollowsRecords /\ RoomForMap /\ OnlyYesStored)'
      BY DEF TypeOK, ReadersExcludeWriter, TruthFollowsRecords, RoomForMap, OnlyYesStored
    <2>3. (FutureMapsEmpty /\ CacheSound)'
      BY DEF TypeOK, FutureMapsEmpty, CacheSound
    <2>0. records = truth
      BY DEF ReadersExcludeWriter, TruthFollowsRecords
    <2>4. PendingStoresSound'
      BY <2>0 DEF TypeOK, PendingStoresSound, Judged
    <2>5. SeenCurrent'
      BY DEF TypeOK, SeenCurrent
    <2>6. SeenAnswers'
      <3>1. Answer(r)' = Verdict(arg[r], truth) /\ pc'[r] = "runlock"
        BY <2>0 DEF TypeOK
      <3>2. \A q \in Reader \ {r} : ans'[q] = ans[q] /\ pc'[q] = pc[q]
        BY DEF TypeOK
      <3>3. Answer(r)' \in seen[r]
        BY <3>1 DEF SeenCurrent
      <3>4. \A q \in Reader : Judged(q)' => Judged(q) \/ (q = r /\ arg[r] \in truth)
        BY <3>1, <3>2 DEF Judged
      <3>5. \A q \in Reader : pc[q] # "idle" /\ arg[q] = arg[r] /\ arg[r] \in truth => "yes" \in seen[q]
        BY DEF SeenCurrent
      <3> QED
        BY <3>1, <3>2, <3>3, <3>4, <3>5 DEF SeenAnswers
    <2> QED
      BY <2>1, <2>2, <2>3, <2>4, <2>5, <2>6
  <1>7. CASE RUnlock(r)
    <2> USE <1>7 DEF CacheInv, RUnlock
    <2>1. TypeOK'
      BY DEF TypeOK
    <2>2. (ReadersExcludeWriter /\ TruthFollowsRecords /\ RoomForMap /\ OnlyYesStored)'
      BY DEF TypeOK, ReadersExcludeWriter, TruthFollowsRecords, RoomForMap, OnlyYesStored
    <2>3. (FutureMapsEmpty /\ CacheSound)'
      BY DEF TypeOK, FutureMapsEmpty, CacheSound
    <2>4. PendingStoresSound'
      BY DEF TypeOK, PendingStoresSound, Judged
    <2>5. SeenCurrent'
      BY DEF TypeOK, SeenCurrent
    <2>6. SeenAnswers'
      BY DEF TypeOK, SeenAnswers, SeenCurrent, Judged
    <2> QED
      BY <2>1, <2>2, <2>3, <2>4, <2>5, <2>6
  <1>8. CASE Store(r)
    <2> USE <1>8 DEF CacheInv, Store
    <2>1. TypeOK'
      BY DEF TypeOK
    <2>2. (ReadersExcludeWriter /\ TruthFollowsRecords /\ RoomForMap /\ OnlyYesStored)'
      BY DEF TypeOK, ReadersExcludeWriter, TruthFollowsRecords, RoomForMap, OnlyYesStored
    <2>7. Judged(r)
      BY DEF Judged, OnlyYesStored
    <2>0. ~Judged(r)' /\ \A q \in Reader : Judged(q)' => Judged(q)
      BY DEF TypeOK, Judged
    <2>3. (FutureMapsEmpty /\ CacheSound)'
      <3>1. cached[r] = cur => arg[r] \in truth
        BY <2>7 DEF PendingStoresSound
      <3>2. \A m \in Map : maps'[m] = IF m = cached[r] THEN maps[m] \cup {arg[r]} ELSE maps[m]
        BY DEF TypeOK
      <3> QED
        BY <3>1, <3>2 DEF TypeOK, FutureMapsEmpty, CacheSound
    <2>4. PendingStoresSound'
      BY DEF TypeOK, PendingStoresSound, Judged
    <2>5. SeenCurrent'
      BY DEF TypeOK, SeenCurrent
    <2>6. SeenAnswers'
      <3>1. \A q \in Reader : pc'[q] # "load" /\ pc'[q] # "idle" => pc[q] # "load" /\ pc[q] # "idle"
        BY DEF TypeOK
      <3>2. \A m \in Map : maps'[m] = IF m = cached[r] THEN maps[m] \cup {arg[r]} ELSE maps[m]
        BY DEF TypeOK
      <3>3. ASSUME NEW q \in Reader, pc'[q] \in Active \ {"load"}, arg[q] \in maps'[cached[q]]
            PROVE "yes" \in seen[q]
        <4>1. CASE arg[q] \in maps[cached[q]]
          BY <3>1, <3>3, <4>1 DEF TypeOK, SeenAnswers
        <4>2. CASE cached[q] = cached[r] /\ arg[q] = arg[r]
          BY <3>1, <3>3, <4>2, <2>7 DEF TypeOK, SeenAnswers
        <4> QED
          BY <3>2, <3>3, <4>1, <4>2 DEF TypeOK
      <3>4. \A q \in Reader : pc'[q] \in {"runlock", "store", "return"} => pc[q] \in {"runlock", "store", "return"}
        BY DEF TypeOK
      <3> QED
        BY <2>0, <3>1, <3>3, <3>4 DEF SeenAnswers, TypeOK
    <2> QED
      BY <2>1, <2>2, <2>3, <2>4, <2>5, <2>6
  <1>9. CASE Return(r)
    <2> USE <1>9 DEF CacheInv, Return
    <2>1. TypeOK'
      BY DEF TypeOK
    <2>2. (ReadersExcludeWriter /\ TruthFollowsRecords /\ RoomForMap /\ OnlyYesStored)'
      BY DEF TypeOK, ReadersExcludeWriter, TruthFollowsRecords, RoomForMap, OnlyYesStored
    <2>3. (FutureMapsEmpty /\ CacheSound)'
      BY DEF TypeOK, FutureMapsEmpty, CacheSound
    <2>4. PendingStoresSound'
      BY DEF TypeOK, PendingStoresSound, Judged
    <2>5. SeenCurrent'
      BY DEF TypeOK, SeenCurrent
    <2>6. SeenAnswers'
      BY DEF TypeOK, SeenAnswers, SeenCurrent, Judged
    <2> QED
      BY <2>1, <2>2, <2>3, <2>4, <2>5, <2>6
  <1> QED
    BY <1>1, <1>2, <1>3, <1>4, <1>5, <1>6, <1>7, <1>8, <1>9 DEF Read

(* A step is one of a writer, one of a reader, or none.                      *)
LEMMA CacheNext == CacheInv /\ [Next]_vars => CacheInv'
  <1> SUFFICES ASSUME CacheInv, [Next]_vars PROVE CacheInv'
    OBVIOUS
  <1>1. CASE Write
    BY <1>1, CacheWrite
  <1>2. ASSUME NEW r \in Reader, Read(r) PROVE CacheInv'
    BY <1>2, CacheRead
  <1>3. CASE UNCHANGED vars
    BY <1>3 DEF vars, CacheInv, TypeOK, ReadersExcludeWriter, TruthFollowsRecords,
       RoomForMap, OnlyYesStored, FutureMapsEmpty, PendingStoresSound, SeenCurrent, SeenAnswers,
       CacheSound, Judged, Verdict, Answer
  <1> QED
    BY <1>1, <1>2, <1>3 DEF Next

(* The inductive invariant holds in every state: locks exclude each other,   *)
(* maps not yet created are empty, and whoever is about to store an answer   *)
(* in the map in use judged the records as they still are.                   *)
THEOREM CacheInvariant == Spec => []CacheInv
  BY CacheInit, CacheNext, PTL DEF Spec

(* Set.Valid's cache never calls a non-member a member: the map in use holds *)
(* members of the latest records only, however many goroutines are in Valid. *)
THEOREM CacheIsSound == Spec => []CacheSound
  <1>1. CacheInv => CacheSound
    BY DEF CacheInv
  <1> QED
    BY <1>1, CacheInvariant, PTL

(* Every answer of Set.Valid was right at some moment of the call.           *)
THEOREM AnswersAreLinearizable == Spec => []AnswersLinearizable
  <1>1. CacheInv => AnswersLinearizable
    BY DEF CacheInv, SeenAnswers, AnswersLinearizable, Answer
  <1> QED
    BY <1>1, CacheInvariant, PTL
=============================================================================
