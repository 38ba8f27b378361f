------------------------------- MODULE Trust -------------------------------
(* The membership set of internal/trust: which records a node keeps and how  *)
(* it decides, from a pinned root, who is a member.                          *)
(*                                                                           *)
(* A set is a record [adm, rev] of two partial functions from identities to  *)
(* the one admission and the one revocation kept for each.  Nothing here is  *)
(* a state machine: TrustHistory, Gossip and Enrol are, and all of them keep *)
(* sets of this module and change them with its operators.  A definition     *)
(* whose name starts with Bug is a wrong version of the one it stands before *)
(* and is used only to see that a property notices the difference.           *)
EXTENDS Integers, FiniteSetsExt, Functions

CONSTANTS
    Identity,   \* public keys, as numbers: < is bytes.Compare
    Root,       \* the identity the set pins
    Name,       \* node names
    MaxHost,    \* overlay.MaxHost: the last slot of the overlay network
    MaxTime     \* bound on the clock, in unix seconds

ASSUME TrustAssumption ==
    /\ Identity \subseteq Nat /\ IsFiniteSet(Identity)
    /\ Root \in Identity
    /\ Name # {}
    /\ MaxHost \in Nat \ {0}
    /\ MaxTime \in Nat

Time == 0 .. MaxTime
Host == 1 .. MaxHost

Forever == MaxTime + 1      \* math.MaxInt64: later than every record

(* The records.  `signer' is who made the signature; Verify succeeds when it *)
(* is the key the record names.                                              *)
Admission == [identity: Identity, name: Name, host: Host, admitter: Identity,
              issuedAt: Time, signer: Identity]
Revocation == [identity: Identity, revoker: Identity, issuedAt: Time,
               signer: Identity]

IsPartial(f, S, T) == DOMAIN f \subseteq S /\ f \in [DOMAIN f -> T]

IsTrustSet(s) ==
    /\ s = [adm |-> s.adm, rev |-> s.rev]
    /\ IsPartial(s.adm, Identity, Admission)
    /\ IsPartial(s.rev, Identity, Revocation)

NewSet == [adm |-> [i \in {} |-> 0], rev |-> [i \in {} |-> 0]]

Without(f, k) == [j \in DOMAIN f \ {k} |-> f[j]]
Put(f, k, v) == [j \in DOMAIN f \cup {k} |-> IF j = k THEN v ELSE f[j]]

-----------------------------------------------------------------------------
(* Making and checking records. *)

rootHost == 1

BugAdmit(admitter, identity, name, host, now) ==
    [identity |-> identity, name |-> name, host |-> host, admitter |-> admitter,
     issuedAt |-> 1000 * now, signer |-> admitter]

Admit(admitter, identity, name, host, now) ==
    [identity |-> identity, name |-> name, host |-> host, admitter |-> admitter,
     issuedAt |-> now, signer |-> admitter]

SelfAdmit(id, name, now) == Admit(id, id, name, rootHost, now)

Revoke(revoker, identity, now) ==
    [identity |-> identity, revoker |-> revoker, issuedAt |-> now, signer |-> revoker]

ValidateAdmission(a) == a.name \in Name /\ a.host # 0 /\ a.signer = a.admitter

ValidateRevocation(r) == r.signer = r.revoker

-----------------------------------------------------------------------------
(* Judging membership.  A question <<id, at>> asks whether id was a member   *)
(* at that time; a question met again on the way to its own answer is        *)
(* answered no.  The root's questions are not recorded.                      *)

Question == Identity \X Int

BugRevokedAt(s, id, at) == id \in DOMAIN s.rev

RevokedAt(s, id, at) == id \in DOMAIN s.rev /\ s.rev[id].issuedAt <= at

(* The arguments of validAt: the question, and those on the way to it.       *)
Asking == [id: Identity, at: Int, visiting: SUBSET Question]
Ask(id, at, visiting) == [id |-> id, at |-> at, visiting |-> visiting]

validAt(s) ==
    LET ok[q \in Asking] ==
          LET id == q.id
              asked == q.visiting \cup {<<id, q.at>>}
          IN  IF id = Root
              THEN RevokedAt(s, id, q.at) =>
                       /\ s.rev[id].revoker # id
                       /\ ~ok[Ask(s.rev[id].revoker, s.rev[id].issuedAt, q.visiting)]
              ELSE /\ <<id, q.at>> \notin q.visiting
                   /\ ~ /\ RevokedAt(s, id, q.at)
                        /\ \/ s.rev[id].revoker = id
                           \/ ok[Ask(s.rev[id].revoker, s.rev[id].issuedAt, asked)]
                   /\ id \in DOMAIN s.adm
                   /\ s.adm[id].admitter # id
                   /\ ok[Ask(s.adm[id].admitter, s.adm[id].issuedAt, asked)]
    IN  ok

Valid(s, id) == validAt(s)[Ask(id, Forever, {})]

(* validAdmissions: the identities whose records it yields.                  *)
validAdmissions(s) == {i \in DOMAIN s.adm : Valid(s, i)}

Members(s) == {i \in Identity : Valid(s, i)}

-----------------------------------------------------------------------------
(* Keeping records: of two admissions of an identity the newer, of two       *)
(* revocations the one that came first.                                      *)

BugStoresAdmission(s, a) ==
    /\ ValidateAdmission(a)
    /\ Valid(s, a.admitter)
    /\ a.identity \in DOMAIN s.adm => s.adm[a.identity].issuedAt < a.issuedAt

BugStoresOlder(s, a) ==
    /\ ValidateAdmission(a)
    /\ a.admitter = a.identity => a.identity = Root
    /\ a.identity \in DOMAIN s.adm => s.adm[a.identity].issuedAt # a.issuedAt

StoresAdmission(s, a) ==
    /\ ValidateAdmission(a)
    /\ a.admitter = a.identity => a.identity = Root
    /\ a.identity \in DOMAIN s.adm => s.adm[a.identity].issuedAt < a.issuedAt

AddAdmission(s, a) ==
    IF StoresAdmission(s, a) THEN [s EXCEPT !.adm = Put(@, a.identity, a)] ELSE s

StoresRevocation(s, r) == ValidateRevocation(r) /\ r.identity \notin DOMAIN s.rev

AddRevocation(s, r) ==
    IF StoresRevocation(s, r) THEN [s EXCEPT !.rev = Put(@, r.identity, r)] ELSE s

BugMerge(s, rs) ==
    LET newAdm == {i \in DOMAIN rs.adm : StoresAdmission(s, rs.adm[i])}
    IN  [s EXCEPT !.adm = [i \in DOMAIN s.adm \cup newAdm |->
                              IF i \in newAdm THEN rs.adm[i] ELSE s.adm[i]]]

(* Merge adds every record of rs.  The records of a set are one per identity *)
(* and kind, so the order the loop takes them in cannot matter.              *)
Merge(s, rs) ==
    LET newAdm == {i \in DOMAIN rs.adm : StoresAdmission(s, rs.adm[i])}
        newRev == {i \in DOMAIN rs.rev : StoresRevocation(s, rs.rev[i])}
    IN  [adm |-> [i \in DOMAIN s.adm \cup newAdm |->
                    IF i \in newAdm THEN rs.adm[i] ELSE s.adm[i]],
         rev |-> [i \in DOMAIN s.rev \cup newRev |->
                    IF i \in newRev THEN rs.rev[i] ELSE s.rev[i]]]

-----------------------------------------------------------------------------
(* Names and overlay slots. *)

NameTaken(s, name, except) ==
    \E i \in validAdmissions(s) : s.adm[i].name = name /\ i # except

BugFreeHostShared(s) ==
    LET fresh == Host \ {s.adm[i].host : i \in DOMAIN s.adm}
    IN  IF fresh # {} THEN Min(fresh) ELSE rootHost

(* FreeHost is the lowest slot no record uses, else the lowest one no valid  *)
(* record uses, else 0 for ErrOverlayFull.                                   *)
FreeHost(s) ==
    LET unused(ids) == Host \ {s.adm[i].host : i \in ids}
        fresh  == unused(DOMAIN s.adm)
        reused == unused(validAdmissions(s))
    IN  IF fresh # {} THEN Min(fresh) ELSE IF reused # {} THEN Min(reused) ELSE 0

StrongerClaim(a, b) ==
    \/ a.issuedAt < b.issuedAt
    \/ a.issuedAt = b.issuedAt /\ a.identity < b.identity

HostConflict(s, id) ==
    /\ id \in DOMAIN s.adm
    /\ \E i \in validAdmissions(s) \ {id} :
          s.adm[i].host = s.adm[id].host /\ StrongerClaim(s.adm[i], s.adm[id])

BugAssigned(s, id) ==
    /\ Valid(s, id)
    /\ id \in DOMAIN s.adm
    /\ s.adm[id].host \in Host

(* assignedAddr succeeds: id is a member, its slot fits the overlay network  *)
(* (a root without a record has slot 0, which is no address), and nobody     *)
(* else holds the slot with a stronger claim.                                *)
Assigned(s, id) ==
    /\ Valid(s, id)
    /\ id \in DOMAIN s.adm
    /\ s.adm[id].host \in Host
    /\ ~HostConflict(s, id)
=============================================================================
