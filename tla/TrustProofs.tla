---------------------------- MODULE TrustProofs ----------------------------
(* What the operators of Trust return, for the proofs about the modules that *)
(* keep sets; that the judgement of membership is what the calls of validAt  *)
(* compute; and what records cannot do to it, whatever a set holds.          *)
EXTENDS Trust, WellFoundedInduction, FiniteSetTheorems, TLAPS

(* Min of a set of naturals is in it and below everything in it (FreeHost    *)
(* hands out the lowest free slot).                                          *)
LEMMA MinNat ==
    ASSUME NEW S \in SUBSET Nat, S # {}
    PROVE  Min(S) \in S /\ \A y \in S : Min(S) <= y
<1> DEFINE R == OpToRel(<, Nat)
<1>1. \A y, x \in Nat : y < x => <<y, x>> \in R
  BY DEF OpToRel
<1>2. IsWellFoundedOn(R, Nat)
  BY NatLessThanWellFounded
<1> HIDE DEF R
<1>3. PICK x \in S : \A y \in S : ~(<<y, x>> \in R)
  BY <1>2, WFMin
<1>4. ASSUME NEW y \in S PROVE x <= y
  <2>1. y \in Nat /\ x \in Nat
    OBVIOUS
  <2>2. ~(y < x)
    BY <1>1, <1>3, <2>1, Zenon
  <2> QED
    BY <2>1, <2>2, SMT
<1> QED
  BY <1>4 DEF Min

(* A set of naturals with 0 and the successors of its elements is all of     *)
(* them.                                                                     *)
LEMMA NatInSet ==
    ASSUME NEW S, 0 \in S, \A n \in Nat : n \in S => n + 1 \in S
    PROVE  Nat \subseteq S
<1> DEFINE T == Nat \ S
<1> SUFFICES ASSUME T # {} PROVE FALSE
  OBVIOUS
<1>1. T \in SUBSET Nat
  OBVIOUS
<1> HIDE DEF T
<1>2. Min(T) \in T /\ \A y \in T : Min(T) <= y
  BY <1>1, MinNat
<1> DEFINE x == Min(T)
<1> HIDE DEF x
<1>3. x \in T /\ \A y \in T : x <= y
  BY <1>2 DEF x
<1>4. x \in Nat /\ x # 0 /\ x - 1 \in Nat
  BY <1>3 DEF T
<1>5. x - 1 \in S
  BY <1>3, <1>4 DEF T
<1> QED BY <1>3, <1>4, <1>5 DEF T

(* An empty set and the root's own admission are well typed (NewSet,         *)
(* Bootstrap.InitRoot).                                                      *)
LEMMA RootSetType ==
    ASSUME NEW n \in Name
    PROVE  /\ IsTrustSet(NewSet)
           /\ SelfAdmit(Root, n, 0) \in Admission
  BY TrustAssumption DEF IsTrustSet, NewSet, IsPartial, SelfAdmit, Admit, rootHost, Admission, Host, Time

(* AddAdmission keeps a set well typed, forgets nobody and leaves the        *)
(* revocations alone.                                                        *)
LEMMA AddAdmissionType ==
    ASSUME NEW s, IsTrustSet(s), NEW a \in Admission
    PROVE  /\ IsTrustSet(AddAdmission(s, a))
           /\ DOMAIN s.adm \subseteq DOMAIN AddAdmission(s, a).adm
           /\ AddAdmission(s, a).rev = s.rev
<1>1. CASE StoresAdmission(s, a)
  <2>1. AddAdmission(s, a) = [adm |-> Put(s.adm, a.identity, a), rev |-> s.rev]
    BY <1>1 DEF AddAdmission, IsTrustSet
  <2>2. a.identity \in Identity /\ IsPartial(s.adm, Identity, Admission)
    BY DEF Admission, IsTrustSet
  <2>3. /\ IsPartial(Put(s.adm, a.identity, a), Identity, Admission)
        /\ DOMAIN Put(s.adm, a.identity, a) = DOMAIN s.adm \cup {a.identity}
    BY <2>2 DEF IsPartial, Put
  <2> QED
    BY <2>1, <2>3 DEF IsTrustSet
<1>2. CASE ~StoresAdmission(s, a)
  BY <1>2 DEF AddAdmission
<1> QED
  BY <1>1, <1>2

(* After AddAdmission of a record that validates and is not self-signed, the *)
(* identity has a record: this one, or one at least as new.                  *)
LEMMA AddAdmissionKnows ==
    ASSUME NEW s, IsTrustSet(s), NEW a \in Admission,
           ValidateAdmission(a), a.admitter # a.identity
    PROVE  a.identity \in DOMAIN AddAdmission(s, a).adm
<1>1. CASE a.identity \in DOMAIN s.adm
  BY <1>1, AddAdmissionType
<1>2. CASE a.identity \notin DOMAIN s.adm
  <2>1. StoresAdmission(s, a)
    BY <1>2 DEF StoresAdmission
  <2> QED
    BY <2>1 DEF AddAdmission, IsTrustSet, Put
<1> QED
  BY <1>1, <1>2

(* AddRevocation likewise.                                                   *)
LEMMA AddRevocationType ==
    ASSUME NEW s, IsTrustSet(s), NEW r \in Revocation
    PROVE  /\ IsTrustSet(AddRevocation(s, r))
           /\ DOMAIN s.rev \subseteq DOMAIN AddRevocation(s, r).rev
           /\ AddRevocation(s, r).adm = s.adm
<1>1. CASE StoresRevocation(s, r)
  <2>1. AddRevocation(s, r) = [adm |-> s.adm, rev |-> Put(s.rev, r.identity, r)]
    BY <1>1 DEF AddRevocation, IsTrustSet
  <2>2. r.identity \in Identity /\ IsPartial(s.rev, Identity, Revocation)
    BY DEF Revocation, IsTrustSet
  <2>3. /\ IsPartial(Put(s.rev, r.identity, r), Identity, Revocation)
        /\ DOMAIN Put(s.rev, r.identity, r) = DOMAIN s.rev \cup {r.identity}
    BY <2>2 DEF IsPartial, Put
  <2> QED
    BY <2>1, <2>3 DEF IsTrustSet
<1>2. CASE ~StoresRevocation(s, r)
  BY <1>2 DEF AddRevocation
<1> QED
  BY <1>1, <1>2

(* FreeHost is a slot of the overlay network, or 0 when there is none.       *)
LEMMA FreeHostType ==
    ASSUME NEW s
    PROVE  FreeHost(s) \in Host \cup {0}
<1> DEFINE unused(ids) == Host \ {s.adm[i].host : i \in ids}
<1>1. ASSUME NEW ids, unused(ids) # {} PROVE Min(unused(ids)) \in Host
  <2>1. unused(ids) \in SUBSET Nat /\ unused(ids) \in SUBSET Host
    BY TrustAssumption DEF Host
  <2> HIDE DEF unused
  <2> QED
    BY <1>1, <2>1, MinNat
<1>2. FreeHost(s) = IF unused(DOMAIN s.adm) # {} THEN Min(unused(DOMAIN s.adm))
                    ELSE IF unused(validAdmissions(s)) # {} THEN Min(unused(validAdmissions(s)))
                    ELSE 0
  BY DEF FreeHost
<1> HIDE DEF unused
<1> QED
  BY <1>1, <1>2

-----------------------------------------------------------------------------
(* What validAt answers.  Its recursion ends because each call records a      *)
(* question of which the records can ask only so many.                       *)

(* One step of the judgement, with the answers to further questions taken    *)
(* from ok.                                                                  *)
Judgement(s, ok, q) ==
    LET id == q.id
        asked == q.visiting \cup {<<id, q.at>>}
    IN  IF id = Root
        THEN RevokedAt(s, id, q.at) =>
                 /\ s.rev[id].revoker # id
                 /\ ~ok[Ask(s.rev[id].revoker, s.rev[id].issuedAt, q.visiting)]
        ELSE /\ <<id, q.at>> \notin q.visiting
             /\ ~ /\ RevokedAt(s, id, q.at)
                  /\ \/ s.rev[id].revoker = id
                     \/ ok[Ask(s.rev[id].revoker, s.rev[id].issuedAt, asked)]
             /\ id \in DOMAIN s.adm
             /\ s.adm[id].admitter # id
             /\ ok[Ask(s.adm[id].admitter, s.adm[id].issuedAt, asked)]

(* The questions that records can ask, and how far a question is from those  *)
(* that ask nothing more.                                                    *)
Askable == Identity \X Time
Rank(q) ==
    4 * Cardinality(Askable \ q.visiting) + (IF q.at \in Time THEN 0 ELSE 2)
        + (IF q.id = Root THEN 1 ELSE 0)

(* There are finitely many questions to ask of the records.                  *)
LEMMA AskableFinite == IsFiniteSet(Askable)
<1>1. IsFiniteSet(Identity) /\ MaxTime \in Int /\ 0 \in Int
  BY TrustAssumption DEF TrustAssumption
<1>2. IsFiniteSet(Time)
  BY <1>1, FS_Interval DEF Time
<1> QED BY <1>1, <1>2, FS_Product DEF Askable

(* The distance of a question is a number, with a bound.                     *)
LEMMA RankBounded ==
    ASSUME NEW q \in Asking
    PROVE  Rank(q) \in Nat /\ Rank(q) <= 4 * Cardinality(Askable) + 3
<1>1. Cardinality(Askable \ q.visiting) \in Nat /\ Cardinality(Askable) \in Nat
      /\ Cardinality(Askable \ q.visiting) <= Cardinality(Askable)
  <2>1. Askable \ q.visiting \in SUBSET Askable
    OBVIOUS
  <2> QED BY <2>1, AskableFinite, FS_Subset, FS_CardinalityType
<1> QED BY <1>1 DEF Rank

(* A question asked on the way to q is nearer to the end.                    *)
LEMMA RankDecreases ==
    ASSUME NEW q \in Asking, NEW id \in Identity, NEW at \in Time,
           NEW v \in SUBSET Question,
           \/ q.id = Root /\ id # Root /\ v = q.visiting
           \/ q.id # Root /\ <<q.id, q.at>> \notin q.visiting /\ v = q.visiting \cup {<<q.id, q.at>>}
    PROVE  Ask(id, at, v) \in Asking /\ Rank(Ask(id, at, v)) < Rank(q)
<1> DEFINE y == Ask(id, at, v)
           n == Cardinality(Askable \ q.visiting)
           m == Cardinality(Askable \ v)
<1>0. at \in Int
  BY TrustAssumption DEF TrustAssumption, Time
<1>1. y \in Asking /\ y.at \in Time /\ y.id = id /\ y.visiting = v
  BY <1>0 DEF Ask, Asking
<1>2. IsFiniteSet(Askable \ q.visiting) /\ n \in Nat
  <2>1. Askable \ q.visiting \in SUBSET Askable
    OBVIOUS
  <2> QED BY <2>1, AskableFinite, FS_Subset, FS_CardinalityType
<1>3. CASE q.id = Root /\ id # Root /\ v = q.visiting
  BY <1>1, <1>2, <1>3 DEF Rank
<1>4. CASE q.id # Root /\ <<q.id, q.at>> \notin q.visiting /\ v = q.visiting \cup {<<q.id, q.at>>}
  <2>1. Askable \ v = (Askable \ q.visiting) \ {<<q.id, q.at>>}
    BY <1>4
  <2>2. m \in Nat /\ m = IF <<q.id, q.at>> \in Askable \ q.visiting THEN n - 1 ELSE n
    <3> DEFINE x == <<q.id, q.at>>
               T == Askable \ q.visiting
    <3> HIDE DEF x, T
    <3>1. Cardinality(T \ {x}) \in Nat /\ Cardinality(T \ {x}) = IF x \in T THEN Cardinality(T) - 1 ELSE Cardinality(T)
      BY <1>2, FS_RemoveElement, FS_CardinalityType DEF T
    <3> QED BY <2>1, <3>1 DEF x, T
  <2>3. q.at \in Time => m = n - 1
    <3>1. q.at \in Time => <<q.id, q.at>> \in Askable
      BY DEF Askable, Asking
    <3> QED BY <1>4, <2>2, <3>1
  <2>4. q.at \notin Time => m = n
    BY <2>2 DEF Askable
  <2> HIDE DEF y, n, m
  <2>5. Rank(y) = 4 * m + 0 + (IF id = Root THEN 1 ELSE 0)
    BY <1>1 DEF Rank, m
  <2>6. Rank(q) = 4 * n + (IF q.at \in Time THEN 0 ELSE 2) + 0
    BY <1>4 DEF Rank, n
  <2>7. Rank(y) < Rank(q)
    BY <1>2, <2>2, <2>3, <2>4, <2>5, <2>6
  <2> QED BY <1>1, <2>7 DEF y
<1> QED BY <1>3, <1>4

(* A step of the judgement looks at nearer questions only.                   *)
LEMMA JudgedIsLocal ==
    ASSUME NEW s, IsTrustSet(s), NEW q \in Asking,
           NEW f \in [Asking -> BOOLEAN], NEW g \in [Asking -> BOOLEAN],
           \A y \in Asking : Rank(y) < Rank(q) => f[y] = g[y]
    PROVE  Judgement(s, f, q) = Judgement(s, g, q)
<1> DEFINE id == q.id
           asked == q.visiting \cup {<<id, q.at>>}
<1>1. id \in Identity /\ q.at \in Int /\ q.visiting \in SUBSET Question /\ asked \in SUBSET Question
  BY DEF Asking, Question
<1>2. id \in DOMAIN s.rev => s.rev[id].revoker \in Identity /\ s.rev[id].issuedAt \in Time
  BY DEF IsTrustSet, IsPartial, Revocation
<1>3. id \in DOMAIN s.adm => s.adm[id].admitter \in Identity /\ s.adm[id].issuedAt \in Time
  BY DEF IsTrustSet, IsPartial, Admission
<1>4. CASE id = Root
  <2>1. CASE id \in DOMAIN s.rev /\ s.rev[id].revoker # id
    <3> DEFINE y == Ask(s.rev[id].revoker, s.rev[id].issuedAt, q.visiting)
    <3>1. f[y] = g[y]
      BY <1>1, <1>2, <1>4, <2>1, RankDecreases
    <3> QED BY <1>4, <3>1 DEF Judgement
  <2>2. CASE ~(id \in DOMAIN s.rev /\ s.rev[id].revoker # id)
    BY <1>4, <2>2 DEF Judgement, RevokedAt
  <2> QED BY <2>1, <2>2
<1>5. CASE id # Root /\ <<id, q.at>> \notin q.visiting
  <2> DEFINE y == Ask(s.rev[id].revoker, s.rev[id].issuedAt, asked)
             z == Ask(s.adm[id].admitter, s.adm[id].issuedAt, asked)
  <2>1. id \in DOMAIN s.rev => f[y] = g[y]
    BY <1>1, <1>2, <1>5, RankDecreases
  <2>2. id \in DOMAIN s.adm => f[z] = g[z]
    BY <1>1, <1>3, <1>5, RankDecreases
  <2> QED BY <1>5, <2>1, <2>2 DEF Judgement, RevokedAt
<1>6. CASE id # Root /\ <<id, q.at>> \in q.visiting
  BY <1>6 DEF Judgement
<1> QED BY <1>4, <1>5, <1>6

(* The judgement has an answer to every question.                            *)
LEMMA JudgementExists ==
    ASSUME NEW s, IsTrustSet(s)
    PROVE  \E f \in [Asking -> BOOLEAN] : f = [q \in Asking |-> Judgement(s, f, q)]
<1> DEFINE Good(n, f) == \A q \in Asking : Rank(q) < n => f[q] = Judgement(s, f, q)
           S == {n \in Nat : \E f \in [Asking -> BOOLEAN] : Good(n, f)}
<1>1. 0 \in S
  <2>1. [q \in Asking |-> FALSE] \in [Asking -> BOOLEAN]
    OBVIOUS
  <2>2. \A q \in Asking : ~(Rank(q) < 0)
    BY RankBounded
  <2> QED BY <2>1, <2>2
<1>2. ASSUME NEW n \in Nat, n \in S PROVE n + 1 \in S
  <2>1. PICK f \in [Asking -> BOOLEAN] : Good(n, f)
    BY <1>2
  <2> DEFINE g == [q \in Asking |-> Judgement(s, f, q)]
  <2>2. \A q \in Asking : Judgement(s, f, q) \in BOOLEAN
    BY DEF Judgement
  <2>3. g \in [Asking -> BOOLEAN] /\ \A q \in Asking : g[q] = Judgement(s, f, q)
    BY <2>2
  <2> HIDE DEF g
  <2>4. ASSUME NEW q \in Asking, Rank(q) < n + 1 PROVE g[q] = Judgement(s, g, q)
    <3>1. \A y \in Asking : Rank(y) < Rank(q) => Rank(y) < n
      BY <2>4, RankBounded
    <3>2. \A y \in Asking : Rank(y) < Rank(q) => f[y] = g[y]
      BY <2>1, <2>3, <3>1
    <3> QED BY <2>3, <3>2, JudgedIsLocal
  <2> QED BY <2>3, <2>4
<1>3. Nat \subseteq S
  <2> HIDE DEF S
  <2> QED BY <1>1, <1>2, NatInSet
<1> DEFINE K == 4 * Cardinality(Askable) + 4
<1>4. K \in Nat /\ \A q \in Asking : Rank(q) < K
  BY AskableFinite, FS_CardinalityType, RankBounded
<1> HIDE DEF K
<1>5. PICK f \in [Asking -> BOOLEAN] : Good(K, f)
  BY <1>3, <1>4
<1>6. f = [q \in Asking |-> Judgement(s, f, q)]
  BY <1>4, <1>5
<1> QED BY <1>6

(* What validAt answers, one call at a time.                                 *)
LEMMA ValidAtUnfolds ==
    ASSUME NEW s, IsTrustSet(s)
    PROVE  /\ validAt(s) \in [Asking -> BOOLEAN]
           /\ \A q \in Asking : validAt(s)[q] = Judgement(s, validAt(s), q)
<1>1. validAt(s) = CHOOSE f : f = [q \in Asking |-> Judgement(s, f, q)]
  BY DEF validAt, Judgement
<1>2. \E f : f = [q \in Asking |-> Judgement(s, f, q)]
  BY JudgementExists
<1>3. validAt(s) = [q \in Asking |-> Judgement(s, validAt(s), q)]
  BY <1>1, <1>2, Zenon
<1> DEFINE ok == validAt(s)
<1> HIDE DEF ok
<1>4. ok = [q \in Asking |-> Judgement(s, ok, q)]
  BY <1>3, Zenon DEF ok
<1>5. \A q \in Asking : Judgement(s, ok, q) \in BOOLEAN
  BY DEF Judgement
<1>6. ok \in [Asking -> BOOLEAN] /\ \A q \in Asking : ok[q] = Judgement(s, ok, q)
  BY <1>4, <1>5
<1> QED BY <1>6 DEF ok

(* What AddAdmission leaves of a set.                                        *)
LEMMA AddAdmissionStores ==
    ASSUME NEW s, IsTrustSet(s), NEW a \in Admission
    PROVE  /\ ~StoresAdmission(s, a) => AddAdmission(s, a) = s
           /\ StoresAdmission(s, a) =>
                 /\ DOMAIN AddAdmission(s, a).adm = DOMAIN s.adm \cup {a.identity}
                 /\ AddAdmission(s, a).adm[a.identity] = a
                 /\ \A i \in DOMAIN s.adm \ {a.identity} : AddAdmission(s, a).adm[i] = s.adm[i]
<1>1. CASE StoresAdmission(s, a)
  <2>1. AddAdmission(s, a) = [adm |-> Put(s.adm, a.identity, a), rev |-> s.rev]
    BY <1>1 DEF AddAdmission, IsTrustSet
  <2> QED BY <1>1, <2>1 DEF Put
<1>2. CASE ~StoresAdmission(s, a)
  BY <1>2 DEF AddAdmission
<1> QED BY <1>1, <1>2

(* And AddRevocation.                                                        *)
LEMMA AddRevocationStores ==
    ASSUME NEW s, IsTrustSet(s), NEW r \in Revocation
    PROVE  /\ ~StoresRevocation(s, r) => AddRevocation(s, r) = s
           /\ StoresRevocation(s, r) =>
                 /\ DOMAIN AddRevocation(s, r).rev = DOMAIN s.rev \cup {r.identity}
                 /\ AddRevocation(s, r).rev[r.identity] = r
                 /\ \A i \in DOMAIN s.rev \ {r.identity} : AddRevocation(s, r).rev[i] = s.rev[i]
<1>1. CASE StoresRevocation(s, r)
  <2>1. AddRevocation(s, r) = [adm |-> s.adm, rev |-> Put(s.rev, r.identity, r)]
    BY <1>1 DEF AddRevocation, IsTrustSet
  <2> QED BY <1>1, <2>1 DEF Put
<1>2. CASE ~StoresRevocation(s, r)
  BY <1>2 DEF AddRevocation
<1> QED BY <1>1, <1>2

(* FreeHost never hands out the slot of a member.                            *)
LEMMA FreeHostUnused ==
    ASSUME NEW s, IsTrustSet(s), FreeHost(s) # 0
    PROVE  \A i \in validAdmissions(s) : s.adm[i].host # FreeHost(s)
<1> DEFINE unused(ids) == Host \ {s.adm[i].host : i \in ids}
<1>1. ASSUME NEW ids, unused(ids) # {}
      PROVE  \A i \in ids : s.adm[i].host # Min(unused(ids))
  <2>1. unused(ids) \in SUBSET Nat
    BY TrustAssumption DEF Host
  <2>2. Min(unused(ids)) \in unused(ids)
    <3> HIDE DEF unused
    <3> QED BY <1>1, <2>1, MinNat
  <2> QED BY <2>2
<1>2. FreeHost(s) = IF unused(DOMAIN s.adm) # {} THEN Min(unused(DOMAIN s.adm))
                    ELSE IF unused(validAdmissions(s)) # {} THEN Min(unused(validAdmissions(s)))
                    ELSE 0
  BY DEF FreeHost
<1>3. validAdmissions(s) \subseteq DOMAIN s.adm
  BY DEF validAdmissions
<1> HIDE DEF unused
<1> QED BY <1>1, <1>2, <1>3

-----------------------------------------------------------------------------
(* What records cannot do.  A set may hold anything that anybody has signed: *)
(* AddAdmission and AddRevocation take records of strangers too, and only    *)
(* valid tells who counts.                                                   *)

(* What holds of a question when it holds of those nearer to the end holds   *)
(* of all.                                                                   *)
LEMMA RankInduction ==
    ASSUME NEW G,
           \A q \in Asking : (\A y \in Asking : Rank(y) < Rank(q) => y \in G) => q \in G
    PROVE  Asking \subseteq G
<1> DEFINE S == {n \in Nat : \A q \in Asking : Rank(q) < n => q \in G}
<1>1. 0 \in S
  BY RankBounded
<1>2. ASSUME NEW n \in Nat, n \in S PROVE n + 1 \in S
  <2>1. ASSUME NEW q \in Asking, Rank(q) < n + 1 PROVE q \in G
    <3>1. \A y \in Asking : Rank(y) < Rank(q) => Rank(y) < n
      BY <2>1, RankBounded
    <3> QED BY <1>2, <3>1
  <2> QED BY <2>1
<1>3. Nat \subseteq S
  <2> HIDE DEF S
  <2> QED BY <1>1, <1>2, NatInSet
<1>4. ASSUME NEW q \in Asking PROVE q \in G
  <2>1. Rank(q) \in Nat /\ Rank(q) + 1 \in Nat /\ Rank(q) < Rank(q) + 1
    BY RankBounded
  <2> QED BY <1>3, <2>1
<1> QED BY <1>4

(* A group without the root that nobody outside it has admitted.             *)
Outsiders(s, T) ==
    /\ T \subseteq Identity \ {Root}
    /\ \A x \in T \cap DOMAIN s.adm : s.adm[x].admitter \in T

(* None of them was a member at any time.                                    *)
LEMMA OutsidersNeverIn ==
    ASSUME NEW s, IsTrustSet(s), NEW T, Outsiders(s, T)
    PROVE  \A q \in Asking : q.id \in T => ~validAt(s)[q]
<1> DEFINE ok == validAt(s)
           G == {q \in Asking : q.id \in T => ~ok[q]}
<1>1. \A q \in Asking : ok[q] = Judgement(s, ok, q)
  BY ValidAtUnfolds
<1> HIDE DEF ok
<1>2. ASSUME NEW q \in Asking, \A y \in Asking : Rank(y) < Rank(q) => y \in G, q.id \in T
      PROVE  ~Judgement(s, ok, q)
  <2> DEFINE id == q.id
             asked == q.visiting \cup {<<id, q.at>>}
  <2>1. id # Root /\ id \in Identity /\ asked \in SUBSET Question
    BY <1>2 DEF Outsiders, Asking, Question
  <2>2. CASE id \in DOMAIN s.adm /\ <<id, q.at>> \notin q.visiting
    <3> DEFINE y == Ask(s.adm[id].admitter, s.adm[id].issuedAt, asked)
    <3>1. s.adm[id].admitter \in Identity /\ s.adm[id].issuedAt \in Time /\ s.adm[id].admitter \in T
      BY <1>2, <2>2 DEF IsTrustSet, IsPartial, Admission, Outsiders
    <3>2. y \in Asking /\ Rank(y) < Rank(q)
      BY <2>1, <2>2, <3>1, RankDecreases
    <3>3. y.id = s.adm[id].admitter
      BY DEF Ask
    <3>4. ~ok[y]
      BY <1>2, <3>1, <3>2, <3>3
    <3> QED BY <2>1, <3>4 DEF Judgement
  <2>3. CASE ~(id \in DOMAIN s.adm /\ <<id, q.at>> \notin q.visiting)
    BY <2>1, <2>3 DEF Judgement
  <2> QED BY <2>2, <2>3
<1>3. \A q \in Asking : (\A y \in Asking : Rank(y) < Rank(q) => y \in G) => q \in G
  BY <1>1, <1>2
<1>4. Asking \subseteq G
  <2> HIDE DEF G
  <2> QED BY <1>3, RankInduction
<1> QED BY <1>4 DEF ok

(* Valid asks about the end of time.                                         *)
LEMMA ValidAsks ==
    ASSUME NEW s, NEW x \in Identity
    PROVE  /\ Valid(s, x) = validAt(s)[Ask(x, Forever, {})]
           /\ Ask(x, Forever, {}) \in Asking /\ Ask(x, Forever, {}).id = x
           /\ Ask(x, Forever, {}).at = Forever /\ Forever \in Int
  BY TrustAssumption DEF Valid, Ask, Asking, Forever

(* Nobody is a member whose admissions do not lead to the root: however many *)
(* strangers admit each other, and whatever times they put on it, none of    *)
(* them is let in (Set.validAt, AddAdmission).                               *)
THEOREM OutsidersStayOut ==
    ASSUME NEW s, IsTrustSet(s), NEW T, Outsiders(s, T)
    PROVE  \A x \in T : ~Valid(s, x)
<1> SUFFICES ASSUME NEW x \in T PROVE ~Valid(s, x)
  OBVIOUS
<1>1. x \in Identity
  BY DEF Outsiders
<1> QED BY <1>1, ValidAsks, OutsidersNeverIn

(* Two sets with the same admission of an identity, and the same revocation  *)
(* of it or one that counts for nothing and none, judge it alike.            *)
LEMMA JudgedAlike ==
    ASSUME NEW s, IsTrustSet(s), NEW t, IsTrustSet(t), NEW q \in Asking,
           NEW f \in [Asking -> BOOLEAN], NEW g \in [Asking -> BOOLEAN],
           \A y \in Asking : Rank(y) < Rank(q) => f[y] = g[y],
           q.id \in DOMAIN s.adm <=> q.id \in DOMAIN t.adm,
           q.id \in DOMAIN s.adm => s.adm[q.id] = t.adm[q.id],
           \/ /\ q.id \in DOMAIN s.rev <=> q.id \in DOMAIN t.rev
              /\ q.id \in DOMAIN s.rev => s.rev[q.id] = t.rev[q.id]
           \/ /\ q.id \in DOMAIN s.rev /\ q.id \notin DOMAIN t.rev
              /\ s.rev[q.id].revoker # q.id
              /\ \A v \in SUBSET Question : ~f[Ask(s.rev[q.id].revoker, s.rev[q.id].issuedAt, v)]
    PROVE  Judgement(s, f, q) = Judgement(t, g, q)
<1> DEFINE id == q.id
           asked == q.visiting \cup {<<id, q.at>>}
<1>1. q.visiting \in SUBSET Question /\ asked \in SUBSET Question /\ id \in Identity
  BY DEF Asking, Question
<1>2. CASE /\ id \in DOMAIN s.rev <=> id \in DOMAIN t.rev
           /\ id \in DOMAIN s.rev => s.rev[id] = t.rev[id]
  <2>1. Judgement(s, g, q) = Judgement(t, g, q)
    BY <1>2 DEF Judgement, RevokedAt
  <2>2. Judgement(s, f, q) = Judgement(s, g, q)
    BY JudgedIsLocal
  <2> QED BY <2>1, <2>2
<1>3. CASE /\ id \in DOMAIN s.rev /\ id \notin DOMAIN t.rev
           /\ s.rev[id].revoker # id
           /\ \A v \in SUBSET Question : ~f[Ask(s.rev[id].revoker, s.rev[id].issuedAt, v)]
  <2>1. /\ ~f[Ask(s.rev[id].revoker, s.rev[id].issuedAt, q.visiting)]
        /\ ~f[Ask(s.rev[id].revoker, s.rev[id].issuedAt, asked)]
    BY <1>1, <1>3
  <2>2. CASE id = Root
    BY <1>3, <2>1, <2>2 DEF Judgement, RevokedAt
  <2>3. CASE id # Root
    <3> DEFINE z == Ask(s.adm[id].admitter, s.adm[id].issuedAt, asked)
    <3>1. id \in DOMAIN s.adm /\ <<id, q.at>> \notin q.visiting => f[z] = g[z]
      <4> SUFFICES ASSUME id \in DOMAIN s.adm, <<id, q.at>> \notin q.visiting PROVE f[z] = g[z]
        OBVIOUS
      <4>1. s.adm[id].admitter \in Identity /\ s.adm[id].issuedAt \in Time
        BY DEF IsTrustSet, IsPartial, Admission
      <4> QED BY <1>1, <2>3, <4>1, RankDecreases
    <3>2. Judgement(s, f, q) = (/\ <<id, q.at>> \notin q.visiting /\ id \in DOMAIN s.adm
                                /\ s.adm[id].admitter # id /\ f[z])
      BY <1>3, <2>1, <2>3 DEF Judgement
    <3>3. Judgement(t, g, q) = (/\ <<id, q.at>> \notin q.visiting /\ id \in DOMAIN s.adm
                                /\ s.adm[id].admitter # id /\ g[z])
      BY <1>3, <2>3 DEF Judgement, RevokedAt
    <3> HIDE DEF z
    <3> QED BY <3>1, <3>2, <3>3
  <2> QED BY <2>2, <2>3
<1> QED BY <1>2, <1>3

(* A set without the records of the outsiders and those they have signed.    *)
Stripped(s, T) ==
    [adm |-> [i \in DOMAIN s.adm \ T |-> s.adm[i]],
     rev |-> [i \in {j \in DOMAIN s.rev \ T : s.rev[j].revoker \notin T} |-> s.rev[i]]]

(* Nor have outsiders a say about others: everybody else is judged as if the *)
(* set did not hold their records, the revocations they signed included      *)
(* (Set.validAt, AddRevocation).                                             *)
THEOREM OutsidersChangeNothing ==
    ASSUME NEW s, IsTrustSet(s), NEW T, Outsiders(s, T)
    PROVE  \A x \in Identity : Valid(s, x) <=> Valid(Stripped(s, T), x)
<1> DEFINE t == Stripped(s, T)
           f == validAt(s)
           g == validAt(t)
           G == {q \in Asking : f[q] = g[q]}
<1>1. /\ DOMAIN t.adm = DOMAIN s.adm \ T /\ \A i \in DOMAIN t.adm : t.adm[i] = s.adm[i]
      /\ DOMAIN t.rev = {j \in DOMAIN s.rev \ T : s.rev[j].revoker \notin T}
      /\ \A i \in DOMAIN t.rev : t.rev[i] = s.rev[i]
      /\ t = [adm |-> t.adm, rev |-> t.rev]
      /\ t.adm = [i \in DOMAIN t.adm |-> t.adm[i]] /\ t.rev = [i \in DOMAIN t.rev |-> t.rev[i]]
  BY DEF Stripped
<1> HIDE DEF t
<1>2. IsTrustSet(t)
  BY <1>1 DEF IsTrustSet, IsPartial
<1>3. Outsiders(t, T)
  BY <1>1 DEF Outsiders
<1>4. /\ f \in [Asking -> BOOLEAN] /\ g \in [Asking -> BOOLEAN]
      /\ \A q \in Asking : f[q] = Judgement(s, f, q) /\ g[q] = Judgement(t, g, q)
  BY <1>2, ValidAtUnfolds
<1>5. \A q \in Asking : q.id \in T => ~f[q] /\ ~g[q]
  BY <1>2, <1>3, OutsidersNeverIn
<1> HIDE DEF f, g
<1>6. ASSUME NEW q \in Asking, \A y \in Asking : Rank(y) < Rank(q) => y \in G PROVE q \in G
  <2>1. CASE q.id \in T
    BY <1>4, <1>5, <2>1
  <2>2. CASE q.id \notin T
    <3> DEFINE id == q.id
    <3>1. \A y \in Asking : Rank(y) < Rank(q) => f[y] = g[y]
      BY <1>6
    <3>2. id \in DOMAIN s.rev => s.rev[id].revoker \in Identity /\ s.rev[id].issuedAt \in Int
      BY TrustAssumption DEF IsTrustSet, IsPartial, Revocation, Time
    <3>3. ASSUME id \in DOMAIN s.rev, s.rev[id].revoker \in T, NEW v \in SUBSET Question
          PROVE  ~f[Ask(s.rev[id].revoker, s.rev[id].issuedAt, v)]
      <4> DEFINE y == Ask(s.rev[id].revoker, s.rev[id].issuedAt, v)
      <4>1. y \in Asking /\ y.id \in T
        BY <3>2, <3>3 DEF Ask, Asking
      <4> QED BY <1>5, <4>1
    <3>4. id \in DOMAIN s.adm <=> id \in DOMAIN t.adm
      BY <1>1, <2>2
    <3>5. id \in DOMAIN s.adm => s.adm[id] = t.adm[id]
      BY <1>1, <2>2
    <3>6. \/ /\ id \in DOMAIN s.rev <=> id \in DOMAIN t.rev
             /\ id \in DOMAIN s.rev => s.rev[id] = t.rev[id]
          \/ /\ id \in DOMAIN s.rev /\ id \notin DOMAIN t.rev
             /\ s.rev[id].revoker # id
             /\ \A v \in SUBSET Question : ~f[Ask(s.rev[id].revoker, s.rev[id].issuedAt, v)]
      BY <1>1, <2>2, <3>3
    <3>7. Judgement(s, f, q) = Judgement(t, g, q)
      BY <1>2, <1>4, <3>1, <3>4, <3>5, <3>6, JudgedAlike
    <3> QED BY <1>4, <3>7
  <2> QED BY <2>1, <2>2
<1>7. Asking \subseteq G
  <2> HIDE DEF G
  <2> QED BY <1>6, RankInduction
<1>8. ASSUME NEW x \in Identity PROVE Valid(s, x) <=> Valid(t, x)
  <2>1. f[Ask(x, Forever, {})] = g[Ask(x, Forever, {})]
    BY <1>7, ValidAsks
  <2> QED BY <2>1, ValidAsks DEF f, g
<1> QED BY <1>8 DEF t

(* A revocation nothing can undo: by the node itself, which left, or by the  *)
(* root while it was a member.                                               *)
Final(s, x) ==
    /\ x \in DOMAIN s.rev
    /\ \/ s.rev[x].revoker = x
       \/ s.rev[x].revoker = Root /\ ~RevokedAt(s, Root, s.rev[x].issuedAt)

(* Whoever is out by it was no member from then on, whatever else the set    *)
(* holds.                                                                    *)
LEMMA FinalFrom ==
    ASSUME NEW s, IsTrustSet(s), NEW x \in Identity, Final(s, x),
           NEW q \in Asking, q.id = x, s.rev[x].issuedAt <= q.at
    PROVE  ~validAt(s)[q]
<1> DEFINE f == validAt(s)
           at == s.rev[x].issuedAt
           by == s.rev[x].revoker
           asked == q.visiting \cup {<<q.id, q.at>>}
<1>1. \A y \in Asking : f[y] = Judgement(s, f, y)
  BY ValidAtUnfolds
<1>2. at \in Int /\ by \in Identity /\ Root \in Identity /\ asked \in SUBSET Question
  BY TrustAssumption DEF Final, IsTrustSet, IsPartial, Revocation, Time, Asking, Question
<1>3. RevokedAt(s, x, q.at)
  BY DEF RevokedAt, Final
<1> HIDE DEF f
<1>4. CASE by = x
  <2>1. ~Judgement(s, f, q)
    BY <1>3, <1>4 DEF Judgement
  <2> QED BY <1>1, <2>1 DEF f
<1>5. CASE by # x
  <2>1. by = Root /\ x # Root /\ ~RevokedAt(s, Root, at)
    BY <1>5 DEF Final
  <2> DEFINE p == Ask(Root, at, asked)
  <2>2. p \in Asking /\ p.id = Root /\ p.at = at
    BY <1>2 DEF Ask, Asking
  <2>3. f[p]
    BY <1>1, <2>1, <2>2 DEF Judgement
  <2>4. p = Ask(by, at, asked)
    BY <2>1
  <2> HIDE DEF p
  <2>5. ~Judgement(s, f, q)
    BY <1>3, <2>1, <2>3, <2>4 DEF Judgement
  <2> QED BY <1>1, <2>5 DEF f
<1> QED BY <1>4, <1>5

(* So it is no member.                                                       *)
LEMMA FinalIsOut ==
    ASSUME NEW s, IsTrustSet(s), NEW x \in Identity, Final(s, x)
    PROVE  ~Valid(s, x)
<1>1. s.rev[x].issuedAt <= Forever
  BY TrustAssumption DEF Final, IsTrustSet, IsPartial, Revocation, Time, Forever
<1> QED BY <1>1, ValidAsks, FinalFrom

(* What it signs from then on counts for nothing, even with a member's key:  *)
(* nobody is a member by an admission of its, and everybody is judged as if  *)
(* a revocation of its did not exist (Set.validAt).                          *)
THEOREM LateSignaturesVoid ==
    ASSUME NEW s, IsTrustSet(s), NEW x \in Identity, Final(s, x), NEW y \in Identity \ {x}
    PROVE  /\ /\ y # Root /\ y \in DOMAIN s.adm
              /\ s.adm[y].admitter = x /\ s.rev[x].issuedAt <= s.adm[y].issuedAt
              => ~Valid(s, y)
           /\ /\ y \in DOMAIN s.rev
              /\ s.rev[y].revoker = x /\ s.rev[x].issuedAt <= s.rev[y].issuedAt
              => \A z \in Identity : Valid(s, z) <=> Valid([s EXCEPT !.rev = Without(@, y)], z)
<1> DEFINE f == validAt(s)
<1>1. f \in [Asking -> BOOLEAN] /\ \A q \in Asking : f[q] = Judgement(s, f, q)
  BY ValidAtUnfolds
<1>2. ASSUME NEW at \in Int, s.rev[x].issuedAt <= at, NEW v \in SUBSET Question PROVE ~f[Ask(x, at, v)]
  <2>1. Ask(x, at, v) \in Asking /\ Ask(x, at, v).id = x /\ Ask(x, at, v).at = at
    BY DEF Ask, Asking
  <2> QED BY <1>2, <2>1, FinalFrom
<1> HIDE DEF f
<1>3. ASSUME y # Root, y \in DOMAIN s.adm, s.adm[y].admitter = x, s.rev[x].issuedAt <= s.adm[y].issuedAt
      PROVE  ~Valid(s, y)
  <2> DEFINE q == Ask(y, Forever, {})
             v == q.visiting \cup {<<q.id, q.at>>}
  <2>1. q \in Asking /\ q.id = y /\ v \in SUBSET Question
    BY ValidAsks DEF Asking, Question
  <2>2. s.adm[y].issuedAt \in Int
    BY <1>3, TrustAssumption DEF IsTrustSet, IsPartial, Admission, Time
  <2>3. ~f[Ask(s.adm[y].admitter, s.adm[y].issuedAt, v)]
    BY <1>2, <1>3, <2>1, <2>2
  <2> HIDE DEF q
  <2>4. ~Judgement(s, f, q)
    BY <1>3, <2>1, <2>3 DEF Judgement
  <2> QED BY <1>1, <2>1, <2>4, ValidAsks DEF f, q
<1>4. ASSUME y \in DOMAIN s.rev, s.rev[y].revoker = x, s.rev[x].issuedAt <= s.rev[y].issuedAt,
             NEW z \in Identity
      PROVE  Valid(s, z) <=> Valid([s EXCEPT !.rev = Without(@, y)], z)
  <2> DEFINE t == [s EXCEPT !.rev = Without(@, y)]
             g == validAt(t)
             G == {q \in Asking : f[q] = g[q]}
  <2>1. /\ t = [adm |-> s.adm, rev |-> t.rev] /\ t.adm = s.adm
        /\ DOMAIN t.rev = DOMAIN s.rev \ {y} /\ \A i \in DOMAIN t.rev : t.rev[i] = s.rev[i]
        /\ t.rev = [i \in DOMAIN t.rev |-> t.rev[i]]
    BY DEF IsTrustSet, Without
  <2> HIDE DEF t
  <2>2. IsTrustSet(t)
    BY <2>1 DEF IsTrustSet, IsPartial
  <2>3. g \in [Asking -> BOOLEAN] /\ \A q \in Asking : g[q] = Judgement(t, g, q)
    BY <2>2, ValidAtUnfolds
  <2> HIDE DEF g
  <2>4. s.rev[y].issuedAt \in Int
    BY <1>4, TrustAssumption DEF IsTrustSet, IsPartial, Revocation, Time
  <2>5. \A v \in SUBSET Question : ~f[Ask(s.rev[y].revoker, s.rev[y].issuedAt, v)]
    BY <1>2, <1>4, <2>4
  <2>6. ASSUME NEW q \in Asking, \A w \in Asking : Rank(w) < Rank(q) => w \in G PROVE q \in G
    <3>1. \A w \in Asking : Rank(w) < Rank(q) => f[w] = g[w]
      BY <2>6
    <3>2. \/ /\ q.id \in DOMAIN s.rev <=> q.id \in DOMAIN t.rev
             /\ q.id \in DOMAIN s.rev => s.rev[q.id] = t.rev[q.id]
          \/ /\ q.id \in DOMAIN s.rev /\ q.id \notin DOMAIN t.rev
             /\ s.rev[q.id].revoker # q.id
             /\ \A v \in SUBSET Question : ~f[Ask(s.rev[q.id].revoker, s.rev[q.id].issuedAt, v)]
      BY <1>4, <2>1, <2>5
    <3>3. Judgement(s, f, q) = Judgement(t, g, q)
      BY <1>1, <2>1, <2>2, <2>3, <3>1, <3>2, JudgedAlike
    <3> QED BY <1>1, <2>3, <3>3
  <2>7. Asking \subseteq G
    <3> HIDE DEF G
    <3> QED BY <2>6, RankInduction
  <2>8. f[Ask(z, Forever, {})] = g[Ask(z, Forever, {})]
    BY <2>7, ValidAsks
  <2>9. Valid(s, z) <=> Valid(t, z)
    BY <2>8, ValidAsks DEF f, g
  <2> QED BY <2>9 DEF t
<1> QED BY <1>3, <1>4
=============================================================================
