------------------------------ MODULE Gossip ------------------------------
(* The cluster: every node keeps a set of membership records of its own and  *)
(* the records spread by broadcast and by push/pull (internal/cluster).      *)
(* Nodes act on what they know: a member the others have revoked goes on     *)
(* admitting and revoking until it hears of it, and beyond.                  *)
(*                                                                           *)
(* Memberlist and QUIC are outside: a broadcast reaches any subset of the    *)
(* nodes it is sent to and is then dropped from the queue, push/pull carries *)
(* a whole set one way (the other half may be lost), and both go only where  *)
(* the transport lets them.                                                  *)
EXTENDS Trust

CONSTANTS
    HostName,   \* the os.Hostname of the node with each identity
    MaxCrash    \* bound on how often agents stop or crash and are started again

ASSUME GossipAssumption ==
    /\ HostName \in [Identity -> Name]
    /\ MaxCrash \in Nat

VARIABLES
    now,        \* the clock; no two records carry the same second
    crashes,
    status,     \* out: no state but the seed; up; down: stopped, state kept;
                \* gone: left the cluster and forgot it
    set,        \* Cluster.set, and for a node that is down its state file
    queue       \* Cluster.queue: one broadcast per identity and kind of record

vars == <<now, crashes, status, set, queue>>

TypeOK ==
    /\ now \in Time
    /\ crashes \in 0 .. MaxCrash
    /\ status \in [Identity -> {"out", "up", "down", "gone"}]
    /\ DOMAIN set = Identity /\ DOMAIN queue = Identity
    /\ \A n \in Identity : IsTrustSet(set[n]) /\ IsTrustSet(queue[n])

Up == {n \in Identity : status[n] = "up"}

InitRoot == AddAdmission(NewSet, SelfAdmit(Root, HostName[Root], 0))

Init ==
    /\ now = 0
    /\ crashes = 0
    /\ status = [n \in Identity |-> IF n = Root THEN "up" ELSE "out"]
    /\ set = [n \in Identity |-> IF n = Root THEN InitRoot ELSE NewSet]
    /\ queue = [n \in Identity |-> NewSet]

-----------------------------------------------------------------------------
(* The transport.  Both ends check the other's membership when they connect, *)
(* and the receiving end again for every packet and stream.  A connection    *)
(* from before a revocation stays with the sender until its peer closes it.  *)

Trusts(n, m) == Valid(set[n], m)

Reaches(n, m) ==
    /\ n # m
    /\ {n, m} \subseteq Up
    /\ Trusts(m, n)
    /\ Trusts(n, m) \/ m \in DOMAIN set[n].rev

(* broadcast: a queued broadcast of the same name is replaced.               *)
broadcastAdm(q, a) == [q EXCEPT !.adm = Put(@, a.identity, a)]
broadcastRev(q, r) == [q EXCEPT !.rev = Put(@, r.identity, r)]

-----------------------------------------------------------------------------
(* What operators and joiners set off. *)

admitHost(s, j) ==
    IF j \in DOMAIN s.adm /\ Valid(s, j) THEN s.adm[j].host ELSE FreeHost(s)

(* The joiner's checks: the welcome must prove the member and the joiner are *)
(* members, and New that the slot is the joiner's to use.                    *)
Accepts(j, n, s) == Valid(s, n) /\ Valid(s, j) /\ Assigned(s, j)

(* An enrolment that is carried through.  Admitted, the joiner either starts *)
(* with the records of the welcome or is back where it was (the welcome was  *)
(* lost, it refused it, or it stopped before it had saved anything).         *)
admit(n, j) ==
    LET host == admitHost(set[n], j)
        a == Admit(n, j, HostName[j], host, now + 1)
        s == AddAdmission(set[n], a)
    IN  /\ n \in Up /\ status[j] = "out" /\ now < MaxTime
        /\ ~NameTaken(set[n], HostName[j], j)
        /\ host # 0
        /\ now' = now + 1
        /\ queue' = [queue EXCEPT ![n] = broadcastAdm(@, a)]
        /\ \/ /\ Accepts(j, n, s)
              /\ set' = [set EXCEPT ![n] = s, ![j] = s]
              /\ status' = [status EXCEPT ![j] = "up"]
           \/ /\ set' = [set EXCEPT ![n] = s]
              /\ UNCHANGED status
        /\ UNCHANGED crashes

(* The revoke command, for any identity but the node's own.                  *)
revoke(n, x) ==
    LET r == Revoke(n, x, now + 1)
    IN  /\ n \in Up /\ x # n /\ now < MaxTime
        /\ now' = now + 1
        /\ set' = [set EXCEPT ![n] = AddRevocation(@, r)]
        /\ queue' = [queue EXCEPT ![n] = broadcastRev(@, r)]
        /\ UNCHANGED <<status, crashes>>

(* The leave command: RevokeSelf hands the record to the members it reaches  *)
(* (some of them: `told'), then the agent stops and forgets the cluster.     *)
leave(n, told) ==
    LET r == Revoke(n, n, now + 1)
        new(m) == m \in told /\ StoresRevocation(set[m], r)
    IN  /\ n \in Up /\ now < MaxTime
        /\ \A m \in told : Reaches(n, m)
        /\ now' = now + 1
        /\ set' = [m \in Identity |-> IF m = n THEN NewSet
                                      ELSE IF new(m) THEN AddRevocation(set[m], r)
                                      ELSE set[m]]
        /\ queue' = [m \in Identity |-> IF m = n THEN NewSet
                                        ELSE IF new(m) THEN broadcastRev(queue[m], r)
                                        ELSE queue[m]]
        /\ status' = [status EXCEPT ![n] = "gone"]
        /\ UNCHANGED crashes

-----------------------------------------------------------------------------
(* Spreading records. *)

(* NotifyMsg: a record that changes the set is broadcast on.                 *)
NotifyAdm(n, m, i) ==
    /\ Reaches(n, m)
    /\ i \in DOMAIN queue[n].adm
    /\ StoresAdmission(set[m], queue[n].adm[i])
    /\ set' = [set EXCEPT ![m] = AddAdmission(@, queue[n].adm[i])]
    /\ queue' = [queue EXCEPT ![m] = broadcastAdm(@, queue[n].adm[i])]
    /\ UNCHANGED <<now, crashes, status>>

NotifyRev(n, m, i) ==
    /\ Reaches(n, m)
    /\ i \in DOMAIN queue[n].rev
    /\ StoresRevocation(set[m], queue[n].rev[i])
    /\ set' = [set EXCEPT ![m] = AddRevocation(@, queue[n].rev[i])]
    /\ queue' = [queue EXCEPT ![m] = broadcastRev(@, queue[n].rev[i])]
    /\ UNCHANGED <<now, crashes, status>>

(* The retransmit limit: a broadcast is sent a few times and dropped, however*)
(* many nodes it has reached.                                                *)
dropAdm(q, i) == [q EXCEPT !.adm = Without(@, i)]
dropRev(q, i) == [q EXCEPT !.rev = Without(@, i)]

DropAdm(n, i) ==
    /\ i \in DOMAIN queue[n].adm
    /\ queue' = [queue EXCEPT ![n] = dropAdm(@, i)]
    /\ UNCHANGED <<now, crashes, status, set>>

DropRev(n, i) ==
    /\ i \in DOMAIN queue[n].rev
    /\ queue' = [queue EXCEPT ![n] = dropRev(@, i)]
    /\ UNCHANGED <<now, crashes, status, set>>

(* Push/pull, either way over a stream that either side opened: m receives   *)
(* LocalState of n.                                                          *)
MergeRemoteState(n, m) ==
    /\ Reaches(n, m) \/ Reaches(m, n)
    /\ set' = [set EXCEPT ![m] = Merge(@, set[n])]
    /\ UNCHANGED <<now, crashes, status, queue>>

-----------------------------------------------------------------------------
(* Stopping and starting. *)

Stop(n) ==
    /\ n \in Up /\ crashes < MaxCrash
    /\ crashes' = crashes + 1
    /\ status' = [status EXCEPT ![n] = "down"]
    /\ queue' = [queue EXCEPT ![n] = NewSet]
    /\ UNCHANGED <<now, set>>

(* New refuses a node its own records no longer make a member, or that has   *)
(* lost its slot.                                                            *)
Start(n) ==
    /\ status[n] = "down"
    /\ Assigned(set[n], n)
    /\ status' = [status EXCEPT ![n] = "up"]
    /\ UNCHANGED <<now, crashes, set, queue>>

Next ==
    \/ \E n, x \in Identity : admit(n, x) \/ revoke(n, x)
    \/ \E n \in Identity, told \in SUBSET Identity : leave(n, told)
    \/ \E n, m, i \in Identity : NotifyAdm(n, m, i) \/ NotifyRev(n, m, i)
    \/ \E n, i \in Identity : DropAdm(n, i) \/ DropRev(n, i)
    \/ \E n, m \in Identity : MergeRemoteState(n, m)
    \/ \E n \in Identity : Stop(n) \/ Start(n)

Spec == Init /\ [][Next]_vars

(* Memberlist runs push/pull with a random peer at every interval, so it     *)
(* keeps coming round to each pair that stays able to talk.                  *)
PushPullFairness == \A n, m \in Identity : WF_vars(MergeRemoteState(n, m))

FairSpec == Spec /\ PushPullFairness

-----------------------------------------------------------------------------
(* Nodes that are up and trust each other end up with the same admissions    *)
(* and with a revocation of the same identities, whatever was lost on the    *)
(* way: MergeRemoteState repairs what the broadcasts missed.                 *)
SameRecords(n, m) ==
    /\ set[n].adm = set[m].adm
    /\ DOMAIN set[n].rev = DOMAIN set[m].rev

RecordsConverge ==
    <>[](\A n, m \in Up : Trusts(n, m) /\ Trusts(m, n) => SameRecords(n, m))

(* On every node at most one identity is entitled to each overlay slot, also *)
(* when two members handed the slot out without knowing of each other        *)
(* (HostConflict makes the weaker claim yield, assignedAddr refuses it).     *)
SlotsExclusive ==
    \A n \in Identity : \A i, j \in Identity :
        Assigned(set[n], i) /\ Assigned(set[n], j) /\ set[n].adm[i].host = set[n].adm[j].host
            => i = j

(* What a node knows only grows, whatever arrives late, twice or out of      *)
(* order: it keeps a record of everybody it had one of, an admission at      *)
(* least as new and the very same revocation, until it leaves ("Records only *)
(* grow").                                                                   *)
Grows(old, new) ==
    /\ DOMAIN old.adm \subseteq DOMAIN new.adm
    /\ \A i \in DOMAIN old.adm : old.adm[i].issuedAt <= new.adm[i].issuedAt
    /\ DOMAIN old.rev \subseteq DOMAIN new.rev
    /\ \A i \in DOMAIN old.rev : new.rev[i] = old.rev[i]

RecordsOnlyGrow == [][\A n \in Identity : status'[n] # "gone" => Grows(set[n], set'[n])]_vars

(* Why these two hold: every record, kept or under way, is filed under its   *)
(* own identity, so that StrongerClaim orders any two claims on a slot and   *)
(* Merge compares records of the same node.                                  *)
Keyed(s) ==
    /\ \A i \in DOMAIN s.adm : s.adm[i].identity = i
    /\ \A i \in DOMAIN s.rev : s.rev[i].identity = i

(* No record gets anywhere that AddAdmission or AddRevocation would refuse,  *)
(* and no two of those there are carry the same second, which is why nodes   *)
(* that exchange their sets keep the same admissions (trust/set.go:62).  The *)
(* model's one clock sees to the seconds; the code does not.                 *)
Acceptable(s) ==
    /\ \A i \in DOMAIN s.adm : /\ ValidateAdmission(s.adm[i])
                               /\ s.adm[i].admitter = i => i = Root
    /\ \A i \in DOMAIN s.rev : ValidateRevocation(s.rev[i])

Records(s) == Range(s.adm) \cup Range(s.rev)
Known == UNION {Records(set[n]) \cup Records(queue[n]) : n \in Identity}

SecondsDiffer ==
    /\ \A n \in Identity : Acceptable(set[n]) /\ Acceptable(queue[n])
    /\ \A a \in Known : a.issuedAt <= now
    /\ \A a, b \in Known : a.issuedAt = b.issuedAt => a = b

(* The inductive invariant: types, records under their own identities and    *)
(* each with a second of its own, and nothing known to a node that is not    *)
(* yet in (AddAdmission, AddRevocation, Merge, enrol).                       *)
GossipInv ==
    /\ TypeOK
    /\ \A n \in Identity : /\ Keyed(set[n]) /\ Keyed(queue[n])
                           /\ status[n] = "out" => set[n] = NewSet
    /\ SecondsDiffer

(* Nodes that trust each other, and whose sets hold an admission and a       *)
(* revocation of the same identities, agree on whom the revocations put out  *)
(* ("a node reaches the same verdict about the whole cluster offline").      *)
VerdictsAgree ==
    \A n, m \in Up : SameRecords(n, m) /\ Trusts(n, m) /\ Trusts(m, n) =>
        \A x \in DOMAIN set[n].rev : Trusts(n, x) = Trusts(m, x)
=============================================================================
