----------------------------- MODULE MeshProofs -----------------------------
(* Nothing is missed on the way from a change of membership to the           *)
(* interface, for any number of peers, networks, changes and faults.         *)
EXTENDS Mesh, WellFoundedInduction, TLAPS

-----------------------------------------------------------------------------
(* A set of numbers has a least one.                                         *)
LEMMA LeastExists ==
    ASSUME NEW S \in SUBSET Nat, S # {}
    PROVE  Min(S) \in S
<1> DEFINE R == OpToRel(<, Nat)
<1>1. \A y, x \in Nat : y < x => <<y, x>> \in R
  BY DEF OpToRel
<1>2. IsWellFoundedOn(R, Nat)
  BY NatLessThanWellFounded
<1> HIDE DEF R
<1>3. PICK x \in S : \A y \in S : ~(<<y, x>> \in R)
  BY <1>2, WFMin
<1>4. ASSUME NEW y \in S PROVE x <= y
  <2>1. y \in Nat /\ x \in Nat
    OBVIOUS
  <2>2. ~(y < x)
    BY <1>1, <1>3, <2>1, Zenon
  <2> QED
    BY <2>1, <2>2, SMT
<1> QED
  BY <1>4 DEF Min

(* A network is routed to one of the peers, or to nobody.                    *)
LEMMA RoutedToPeer ==
    ASSUME NEW ps \in SUBSET Peer, NEW n \in Net
    PROVE  routedBy(ps, n) \in ps \cup {Nobody}
<1> DEFINE by == {p \in ps : n \in AllowedIPs[p]}
<1>1. by \in SUBSET Nat /\ by \subseteq ps
  BY MeshAssumption DEF MeshAssumption
<1>2. by # {} => Min(by) \in by
  <2> HIDE DEF by
  <2> QED BY <1>1, LeastExists
<1> QED BY <1>1, <1>2 DEF routedBy

(* So what ConfigureDevice makes of a snapshot is typed.                     *)
LEMMA ConfiguredType ==
    ASSUME NEW ps \in SUBSET Peer, NEW r
    PROVE  Configured(ps, r).allowed \in [Net -> ps \cup {Nobody}]
  BY RoutedToPeer DEF Configured

(* An event about another node keeps watch from being settled, and one about *)
(* this node changes nothing.                                                *)
LEMMA EventAppended ==
    ASSUME NEW s \in Seq({"own", "other"}), NEW e \in {"own", "other"}
    PROVE  /\ Append(s, e) \in Seq({"own", "other"})
           /\ (\A i \in DOMAIN Append(s, e) : Append(s, e)[i] = "own")
                 <=> (e = "own" /\ \A i \in DOMAIN s : s[i] = "own")
<1>1. Append(s, e) \in Seq({"own", "other"})
  OBVIOUS
<1>2. ASSUME \A i \in DOMAIN Append(s, e) : Append(s, e)[i] = "own"
      PROVE  e = "own" /\ \A i \in DOMAIN s : s[i] = "own"
  <2>1. e = "own"
    <3>1. Len(s) + 1 \in DOMAIN Append(s, e) /\ Append(s, e)[Len(s) + 1] = e
      OBVIOUS
    <3> QED BY <1>2, <3>1
  <2>2. ASSUME NEW i \in DOMAIN s PROVE s[i] = "own"
    <3>1. i \in DOMAIN Append(s, e) /\ Append(s, e)[i] = s[i]
      OBVIOUS
    <3> QED BY <1>2, <3>1
  <2> QED BY <2>1, <2>2
<1>3. ASSUME e = "own", \A i \in DOMAIN s : s[i] = "own"
      PROVE  \A i \in DOMAIN Append(s, e) : Append(s, e)[i] = "own"
  BY <1>3
<1> QED BY <1>1, <1>2, <1>3

(* Taking the first event off the channel loses nothing if it is our own.    *)
LEMMA EventTaken ==
    ASSUME NEW s \in Seq({"own", "other"}), s # <<>>
    PROVE  /\ Tail(s) \in Seq({"own", "other"})
           /\ Head(s) = "own" /\ (\A i \in DOMAIN Tail(s) : Tail(s)[i] = "own")
                 => \A i \in DOMAIN s : s[i] = "own"
<1>1. Tail(s) \in Seq({"own", "other"}) /\ Len(Tail(s)) = Len(s) - 1 /\ Len(s) \in Nat
  OBVIOUS
<1>2. ASSUME Head(s) = "own", \A i \in DOMAIN Tail(s) : Tail(s)[i] = "own", NEW i \in DOMAIN s
      PROVE  s[i] = "own"
  <2>1. i \in 1 .. Len(s)
    OBVIOUS
  <2>2. CASE i = 1
    BY <1>2, <2>2
  <2>3. CASE i # 1
    <3>1. i - 1 \in DOMAIN Tail(s) /\ Tail(s)[i - 1] = s[i]
      BY <1>1, <2>1, <2>3
    <3> QED BY <1>2, <3>1
  <2> QED BY <2>2, <2>3
<1> QED BY <1>1, <1>2

-----------------------------------------------------------------------------
USE DEF net, signals, watched, channel, applied, ctl

(* A set of peers is never the mark of no snapshot.                          *)
LEMMA NeverNobody == \A S \in SUBSET Peer : S # Never
BY MeshAssumption DEF Never

(* peerPrefixes yields destinations.                                         *)
LEMMA PrefixesIn ==
    ASSUME NEW ps \in SUBSET Peer
    PROVE  peerPrefixes(ps) \subseteq Dst
BY DEF peerPrefixes, Dst

(* Whatever is tried, and however it ends, is noted within the bounds.       *)
LEMMA Attempts ==
    ASSUME ok \subseteq {"iface", "hosts", "disk"}, faults \in 0 .. MaxFault,
           NEW what \in {"iface", "hosts", "disk"}, Tried(what) \/ Failed(what)
    PROVE  ok' \subseteq {"iface", "hosts", "disk"} /\ faults' \in 0 .. MaxFault
<1>1. ok' = ok \cup {what} \/ ok' = ok \ {what}
  BY DEF Tried, Failed
<1>2. ok' \subseteq {"iface", "hosts", "disk"}
  BY <1>1, Zenon
<1>3. faults' \in 0 .. MaxFault
  BY MeshAssumption DEF Tried, Failed, Fault
<1> QED BY <1>2, <1>3

(* The invariant holds when New returns.                                     *)
LEMMA MeshInit == Init => MeshInv
<1> SUFFICES ASSUME Init PROVE MeshInv
  OBVIOUS
<1>1. TypeOK
  BY MeshAssumption DEF Init, TypeOK, Down, Never
<1>2. SnapshotInv /\ AppliedInv /\ StopInv
  BY DEF Init, SnapshotInv, AppliedInv, StopInv
<1> QED BY <1>1, <1>2 DEF MeshInv

(* What changes the membership always leaves a signal behind.                *)
LEMMA ChangesSignal ==
    ASSUME MeshInv, MemberEvent \/ RecordsChange \/ signalChanged \/ Admit \/ Announce
    PROVE  MeshInv' /\ ~Settled'
<1> USE DEF MeshInv
<1>1. UNCHANGED <<watch, listed, peers, sub, slot, iface, hosts, ok, disk, main, todo, done, forward, faults>>
  BY DEF MemberEvent, RecordsChange, signalChanged, Admit, Announce
<1>2. /\ members' \subseteq Peer /\ good' \subseteq Peer /\ due' \subseteq Peer
      /\ changes' \in 0 .. MaxChange /\ owed' \in 0 .. changes'
      /\ events' \in Seq({"own", "other"}) /\ Len(events') <= EventCap
      /\ changed' \in 0 .. 1
      /\ ~Settled'
  <2> USE MeshAssumption
  <2>1. CASE MemberEvent
    BY <2>1, EventAppended DEF MemberEvent, Change, Tell, TypeOK, Settled
  <2>2. CASE RecordsChange
    BY <2>2 DEF RecordsChange, Change, TypeOK, Settled
  <2>3. CASE signalChanged
    BY <2>3 DEF signalChanged, TypeOK, Settled
  <2>4. CASE Admit
    BY <2>4 DEF Admit, Change, TypeOK, Settled
  <2>5. CASE Announce
    BY <2>5, EventAppended DEF Announce, Tell, TypeOK, Settled
  <2> QED BY <2>1, <2>2, <2>3, <2>4, <2>5
<1>3. TypeOK'
  BY <1>1, <1>2 DEF TypeOK
<1>4. SnapshotInv'
  BY <1>1, <1>2 DEF SnapshotInv
<1>5. AppliedInv' /\ StopInv'
  BY <1>1 DEF AppliedInv, StopInv
<1> QED BY <1>2, <1>3, <1>4, <1>5

(* forwardEvents turns an event into a signal before it is gone.             *)
LEMMA Forwarded ==
    ASSUME MeshInv, forwardEvents \/ ForwardEnds
    PROVE  MeshInv'
<1> USE DEF MeshInv
<1>1. UNCHANGED <<net, watched, channel, applied, ctl, faults>>
  BY DEF forwardEvents, ForwardEnds
<1>2. /\ events' \in Seq({"own", "other"}) /\ Len(events') <= EventCap
      /\ changed' \in 0 .. 1 /\ forward' \in {"run", "ended"}
      /\ forward = "ended" => forward' = "ended"
      /\ Settled' => Settled
  <2>1. CASE forwardEvents
    <3>1. events \in Seq({"own", "other"}) /\ events # <<>> /\ events' = Tail(events)
      BY <2>1 DEF forwardEvents, TypeOK
    <3>2. Len(events') <= EventCap
      BY <3>1, MeshAssumption DEF TypeOK
    <3>3. Head(events) \in {"own", "other"}
      BY <3>1
    <3>4. Settled' => Settled
      BY <2>1, <3>1, <3>3, EventTaken DEF forwardEvents, Settled
    <3> QED BY <2>1, <3>1, <3>2, <3>4, EventTaken DEF forwardEvents, TypeOK
  <2>2. CASE ForwardEnds
    BY <2>2 DEF ForwardEnds, TypeOK, Settled
  <2> QED BY <2>1, <2>2
<1>3. TypeOK'
  BY <1>1, <1>2 DEF TypeOK
<1>4. SnapshotInv'
  BY <1>1, <1>2 DEF SnapshotInv, Verified
<1>5. AppliedInv' /\ StopInv'
  BY <1>1, <1>2 DEF AppliedInv, StopInv
<1> QED BY <1>3, <1>4, <1>5

(* The steps of watch, from taking a signal to delivering the snapshot.      *)
LEMMA Watched ==
    ASSUME MeshInv, Watch
    PROVE  MeshInv'
<1> USE DEF MeshInv, WatchStep
<1>1. CASE WatchTakes
  <2>1. TypeOK'
    BY <1>1 DEF WatchTakes, TypeOK
  <2>2. SnapshotInv'
    BY <1>1 DEF WatchTakes, SnapshotInv
  <2>3. AppliedInv' /\ StopInv'
    BY <1>1 DEF WatchTakes, AppliedInv, StopInv
  <2> QED BY <2>1, <2>2, <2>3
<1>2. CASE WatchEnds
  <2>1. TypeOK'
    BY <1>2 DEF WatchEnds, TypeOK
  <2>2. SnapshotInv'
    BY <1>2 DEF WatchEnds, SnapshotInv
  <2>3. AppliedInv' /\ StopInv'
    BY <1>2 DEF WatchEnds, AppliedInv, StopInv
  <2> QED BY <2>1, <2>2, <2>3
<1>3. CASE ListMembers
  <2>1. TypeOK'
    BY <1>3 DEF ListMembers, TypeOK
  <2>2. SnapshotInv'
    BY <1>3 DEF ListMembers, SnapshotInv
  <2>3. AppliedInv' /\ StopInv'
    BY <1>3 DEF ListMembers, AppliedInv, StopInv
  <2> QED BY <2>1, <2>2, <2>3
<1>4. CASE VerifyMembers
  <2>1. TypeOK'
    BY <1>4 DEF VerifyMembers, TypeOK
  <2>2. SnapshotInv'
    BY <1>4 DEF VerifyMembers, SnapshotInv, Settled, Verified
  <2>3. AppliedInv' /\ StopInv'
    BY <1>4 DEF VerifyMembers, AppliedInv, StopInv
  <2> QED BY <2>1, <2>2, <2>3
<1>5. CASE SavePeers
  <2>0. /\ "iface" \in ok' <=> "iface" \in ok
        /\ "hosts" \in ok' <=> "hosts" \in ok
        /\ "disk" \in ok' => disk' = listed
    BY <1>5 DEF SavePeers, Tried, Failed
  <2>1. TypeOK'
    <3>0. ok' \subseteq {"iface", "hosts", "disk"} /\ faults' \in 0 .. MaxFault
      BY <1>5, Attempts DEF SavePeers, TypeOK
    <3>1. disk' \subseteq Peer
      BY <1>5 DEF SavePeers, TypeOK
    <3> QED BY <1>5, <3>0, <3>1 DEF SavePeers, TypeOK
  <2>2. SnapshotInv'
    BY <1>5 DEF SavePeers, SnapshotInv, Settled, Verified
  <2>3. AppliedInv' /\ StopInv'
    BY <1>5, <2>0 DEF SavePeers, AppliedInv, StopInv
  <2> QED BY <2>1, <2>2, <2>3
<1>6. CASE Deliver
  <2>0. sub # "closed"
    BY <1>6 DEF Deliver, StopInv
  <2>1. TypeOK'
    BY <1>6 DEF Deliver, TypeOK
  <2>2. SnapshotInv'
    BY <1>6, <2>0 DEF Deliver, SnapshotInv, Settled, Verified
  <2>3. AppliedInv' /\ StopInv'
    BY <1>6 DEF Deliver, AppliedInv, StopInv
  <2> QED BY <2>1, <2>2, <2>3
<1> QED BY <1>1, <1>2, <1>3, <1>4, <1>5, <1>6 DEF Watch

(* The loop reads snapshots and applies them.                                *)
LEMMA Applied ==
    ASSUME MeshInv, Members \/ LoopReads \/ SetUpInterface \/ SetUpFails \/ WriteHosts
    PROVE  MeshInv'
<1> USE DEF MeshInv, MainStep
<1>1. CASE Members
  <2>1. TypeOK'
    BY <1>1 DEF Members, TypeOK
  <2>2. SnapshotInv'
    BY <1>1 DEF Members, SnapshotInv, Settled, Verified
  <2>3. AppliedInv' /\ StopInv'
    BY <1>1 DEF Members, AppliedInv, StopInv
  <2> QED BY <2>1, <2>2, <2>3
<1>2. CASE LoopReads
  <2>1. TypeOK'
    BY <1>2, NeverNobody DEF LoopReads, TypeOK
  <2>2. SnapshotInv'
    BY <1>2 DEF LoopReads, SnapshotInv, Settled, Verified
  <2>3. AppliedInv' /\ StopInv'
    BY <1>2 DEF LoopReads, AppliedInv, StopInv
  <2> QED BY <2>1, <2>2, <2>3
<1>3. CASE SetUpInterface
  <2>0. todo \subseteq Peer
    BY <1>3 DEF SetUpInterface, TypeOK
  <2>1. TypeOK'
    <3>1. iface'.up \in {"no", "yes"} /\ iface'.peers \subseteq Peer
          /\ iface'.allowed \in [Net -> iface'.peers \cup {Nobody}] /\ iface'.routes \subseteq Dst
      BY <1>3, <2>0, PrefixesIn, ConfiguredType DEF SetUpInterface, Configured
    <3> QED BY <1>3, <3>1 DEF SetUpInterface, Tried, TypeOK
  <2>2. SnapshotInv'
    BY <1>3 DEF SetUpInterface, SnapshotInv, Settled, Verified
  <2>3. AppliedInv'
    BY <1>3 DEF SetUpInterface, Tried, AppliedInv
  <2>4. StopInv'
    BY <1>3 DEF SetUpInterface, StopInv
  <2> QED BY <2>1, <2>2, <2>3, <2>4
<1>4. CASE SetUpFails
  <2>0. todo \subseteq Peer /\ peerPrefixes(todo) \subseteq Dst
    BY <1>4, PrefixesIn DEF SetUpFails, TypeOK
  <2>1. TypeOK'
    <3>1. iface'.up \in {"no", "yes"} /\ iface'.peers \subseteq Peer
          /\ iface'.allowed \in [Net -> iface'.peers \cup {Nobody}] /\ iface'.routes \subseteq Dst
      <4>1. CASE iface' = Down
        BY <4>1 DEF Down
      <4>2. CASE iface' = iface
        BY <4>2 DEF TypeOK
      <4>3. ASSUME NEW r \in SUBSET Dst, iface' = Configured(todo, r)
            PROVE  iface'.up \in {"no", "yes"} /\ iface'.peers \subseteq Peer
                   /\ iface'.allowed \in [Net -> iface'.peers \cup {Nobody}] /\ iface'.routes \subseteq Dst
        BY <2>0, <4>3, ConfiguredType DEF Configured
      <4>4. \/ iface' \in {Down, iface}
            \/ \E r \in SUBSET Dst : iface' = Configured(todo, r)
        <5>1. iface.routes \subseteq Dst
          BY DEF TypeOK
        <5>2. ASSUME NEW r \in SUBSET peerPrefixes(todo)
              PROVE  iface.routes \cup r \in SUBSET Dst
          BY <2>0, <5>1
        <5>3. ASSUME NEW r \in SUBSET iface.routes
              PROVE  peerPrefixes(todo) \cup r \in SUBSET Dst
          BY <2>0, <5>1
        <5> QED BY <1>4, <5>2, <5>3 DEF SetUpFails
      <4> QED BY <4>1, <4>2, <4>3, <4>4
    <3>2. ok' \subseteq {"iface", "hosts", "disk"} /\ faults' \in 0 .. MaxFault
      BY <1>4, Attempts DEF SetUpFails, TypeOK
    <3> QED BY <1>4, <3>1, <3>2 DEF SetUpFails, TypeOK
  <2>2. SnapshotInv'
    BY <1>4 DEF SetUpFails, SnapshotInv, Settled, Verified
  <2>3. AppliedInv' /\ StopInv'
    BY <1>4 DEF SetUpFails, Failed, AppliedInv, StopInv
  <2> QED BY <2>1, <2>2, <2>3
<1>5. CASE WriteHosts
  <2>0. /\ "iface" \in ok' <=> "iface" \in ok
        /\ "disk" \in ok' <=> "disk" \in ok
        /\ "hosts" \in ok' => hosts' = todo
    BY <1>5 DEF WriteHosts, Tried, Failed
  <2>1. TypeOK'
    <3>0. ok' \subseteq {"iface", "hosts", "disk"} /\ faults' \in 0 .. MaxFault
      BY <1>5, Attempts DEF WriteHosts, TypeOK
    <3>1. hosts' \subseteq Peer
      BY <1>5 DEF WriteHosts, TypeOK
    <3> QED BY <1>5, <3>0, <3>1 DEF WriteHosts, TypeOK
  <2>2. SnapshotInv'
    BY <1>5 DEF WriteHosts, SnapshotInv, Settled, Verified
  <2>3. AppliedInv' /\ StopInv'
    BY <1>5, <2>0 DEF WriteHosts, AppliedInv, StopInv
  <2> QED BY <2>1, <2>2, <2>3
<1> QED BY <1>1, <1>2, <1>3, <1>4, <1>5

(* The steps that only move the end of the agent on.                         *)
LEMMA Stopping ==
    ASSUME MeshInv, Stop \/ MemberlistShutdown \/ CloseDone \/ WaitRoutines \/ CloseSubs
    PROVE  MeshInv'
<1> USE DEF MeshInv, MainStep
<1>1. CASE Stop
  <2>1. TypeOK'
    BY <1>1 DEF Stop, TypeOK
  <2>2. SnapshotInv'
    BY <1>1 DEF Stop, SnapshotInv, Settled, Verified
  <2>3. AppliedInv' /\ StopInv'
    BY <1>1 DEF Stop, AppliedInv, StopInv
  <2> QED BY <2>1, <2>2, <2>3
<1>2. CASE MemberlistShutdown
  <2>1. TypeOK'
    BY <1>2 DEF MemberlistShutdown, TypeOK
  <2>2. SnapshotInv'
    BY <1>2 DEF MemberlistShutdown, SnapshotInv, Settled, Verified
  <2>3. AppliedInv' /\ StopInv'
    BY <1>2 DEF MemberlistShutdown, AppliedInv, StopInv
  <2> QED BY <2>1, <2>2, <2>3
<1>3. CASE CloseDone
  <2>1. TypeOK'
    BY <1>3 DEF CloseDone, TypeOK
  <2>2. SnapshotInv'
    BY <1>3 DEF CloseDone, SnapshotInv, Settled, Verified
  <2>3. AppliedInv' /\ StopInv'
    BY <1>3 DEF CloseDone, AppliedInv, StopInv
  <2> QED BY <2>1, <2>2, <2>3
<1>4. CASE WaitRoutines
  <2>1. TypeOK'
    BY <1>4 DEF WaitRoutines, TypeOK
  <2>2. SnapshotInv'
    BY <1>4 DEF WaitRoutines, SnapshotInv, Settled, Verified
  <2>3. AppliedInv' /\ StopInv'
    BY <1>4 DEF WaitRoutines, AppliedInv, StopInv
  <2> QED BY <2>1, <2>2, <2>3
<1>5. CASE CloseSubs
  <2>1. TypeOK'
    BY <1>5 DEF CloseSubs, TypeOK
  <2>2. SnapshotInv'
    BY <1>5 DEF CloseSubs, SnapshotInv, Settled, Verified
  <2>3. AppliedInv' /\ StopInv'
    BY <1>5 DEF CloseSubs, AppliedInv, StopInv
  <2> QED BY <2>1, <2>2, <2>3
<1> QED BY <1>1, <1>2, <1>3, <1>4, <1>5

(* Leave's last save and word, and what the end of the loop clears.          *)
LEMMA Leaving ==
    ASSUME MeshInv, LeavePersists \/ LeaveAnnounces \/ ClearHosts \/ DownInterface
    PROVE  MeshInv'
<1> USE DEF MeshInv, MainStep
<1>1. CASE LeavePersists
  <2>1. TypeOK'
    <3>0. ok' \subseteq {"iface", "hosts", "disk"} /\ faults' \in 0 .. MaxFault
      BY <1>1, Attempts DEF LeavePersists, TypeOK
    <3>1. disk' \subseteq Peer
      BY <1>1 DEF LeavePersists, TypeOK
    <3> QED BY <1>1, <3>0, <3>1 DEF LeavePersists, TypeOK
  <2>2. SnapshotInv'
    BY <1>1 DEF LeavePersists, SnapshotInv, Settled, Verified
  <2>3. AppliedInv' /\ StopInv'
    BY <1>1 DEF LeavePersists, Tried, Failed, AppliedInv, StopInv
  <2> QED BY <2>1, <2>2, <2>3
<1>2. CASE LeaveAnnounces
  <2>0. events' \in Seq({"own", "other"}) /\ Len(events') <= EventCap /\ (Settled' => Settled)
    BY <1>2, EventAppended, MeshAssumption DEF LeaveAnnounces, Tell, TypeOK, Settled
  <2>1. TypeOK'
    BY <1>2, <2>0 DEF LeaveAnnounces, TypeOK
  <2>2. SnapshotInv'
    BY <1>2, <2>0 DEF LeaveAnnounces, SnapshotInv, Verified
  <2>3. AppliedInv' /\ StopInv'
    BY <1>2 DEF LeaveAnnounces, AppliedInv, StopInv
  <2> QED BY <2>1, <2>2, <2>3
<1>3. CASE ClearHosts
  <2>1. TypeOK'
    <3>0. ok' \subseteq {"iface", "hosts", "disk"} /\ faults' \in 0 .. MaxFault
      BY <1>3, Attempts DEF ClearHosts, TypeOK
    <3>1. hosts' \subseteq Peer
      BY <1>3 DEF ClearHosts, TypeOK
    <3> QED BY <1>3, <3>0, <3>1 DEF ClearHosts, TypeOK
  <2>2. SnapshotInv'
    BY <1>3 DEF ClearHosts, SnapshotInv, Settled, Verified
  <2>3. AppliedInv' /\ StopInv'
    BY <1>3 DEF ClearHosts, Tried, Failed, AppliedInv, StopInv
  <2> QED BY <2>1, <2>2, <2>3
<1>4. CASE DownInterface
  <2>1. TypeOK'
    <3>1. ok' \subseteq {"iface", "hosts", "disk"} /\ faults' \in 0 .. MaxFault
      BY <1>4, Attempts DEF DownInterface, TypeOK
    <3>2. iface'.up \in {"no", "yes"} /\ iface'.peers \subseteq Peer
          /\ iface'.allowed \in [Net -> iface'.peers \cup {Nobody}] /\ iface'.routes \subseteq Dst
      BY <1>4 DEF DownInterface, Down, TypeOK
    <3> QED BY <1>4, <3>1, <3>2 DEF DownInterface, TypeOK
  <2>2. SnapshotInv'
    BY <1>4 DEF DownInterface, SnapshotInv, Settled, Verified
  <2>3. AppliedInv' /\ StopInv'
    BY <1>4 DEF DownInterface, Tried, Failed, AppliedInv, StopInv, Down
  <2> QED BY <2>1, <2>2, <2>3
<1> QED BY <1>1, <1>2, <1>3, <1>4

(* Every step of memberlist, watch and the loop keeps the invariant.         *)
LEMMA MeshNext == MeshInv /\ [Next]_vars => MeshInv'
<1> SUFFICES ASSUME MeshInv, [Next]_vars PROVE MeshInv'
  OBVIOUS
<1>1. CASE UNCHANGED vars
  <2>1. TypeOK'
    BY <1>1 DEF vars, MeshInv, TypeOK
  <2>2. SnapshotInv'
    BY <1>1 DEF vars, MeshInv, SnapshotInv, Settled, Verified
  <2>3. AppliedInv' /\ StopInv'
    BY <1>1 DEF vars, MeshInv, AppliedInv, StopInv
  <2> QED BY <2>1, <2>2, <2>3 DEF MeshInv
<1>2. CASE MemberEvent \/ RecordsChange \/ signalChanged \/ Admit \/ Announce
  BY <1>2, ChangesSignal
<1>3. CASE forwardEvents \/ ForwardEnds
  BY <1>3, Forwarded
<1>4. CASE Watch
  BY <1>4, Watched
<1>5. CASE Members \/ LoopReads \/ SetUpInterface \/ SetUpFails \/ WriteHosts
  BY <1>5, Applied
<1>6. CASE Stop \/ MemberlistShutdown \/ CloseDone \/ WaitRoutines \/ CloseSubs
  BY <1>6, Stopping
<1>7. CASE LeavePersists \/ LeaveAnnounces \/ ClearHosts \/ DownInterface
  BY <1>7, Leaving
<1> QED BY <1>1, <1>2, <1>3, <1>4, <1>5, <1>6, <1>7 DEF Next, Loop

-----------------------------------------------------------------------------
(* Whenever a snapshot on its way to the interface is not the current one, a *)
(* signal or an event is under way to watch (signalChanged, forwardEvents,   *)
(* watch).                                                                   *)
THEOREM MeshInvariant == Spec => []MeshInv
<1> QED BY MeshInit, MeshNext, PTL DEF Spec

(* Once nothing is under way, the interface, the hosts file and the state    *)
(* file are those of exactly the verified members (apply).                   *)
THEOREM NothingIsMissed == Spec => []NothingMissed
<1>1. MeshInv => NothingMissed
  <2> SUFFICES ASSUME MeshInv, Quiet PROVE NothingMissed
    BY DEF NothingMissed
  <2>1. Settled
    BY DEF Quiet, Settled
  <2>2. todo = Verified /\ peers = Verified
    BY <2>1 DEF Quiet, MeshInv, SnapshotInv
  <2>3. todo # Never
    BY <2>2, NeverNobody DEF MeshInv, TypeOK, Verified
  <2> QED BY <2>2, <2>3 DEF NothingMissed, MeshInv, AppliedInv, Quiet
<1> QED BY <1>1, MeshInvariant, PTL

(* watch never sends on a channel that Leave has closed, and no routine      *)
(* outlives the loop (Leave).                                                *)
THEOREM ClosedIsUnused == Spec => []ClosedUnused
<1>1. MeshInv => ClosedUnused
  BY DEF MeshInv, StopInv, ClosedUnused
<1> QED BY <1>1, MeshInvariant, PTL

(* An agent that has stopped leaves neither interface nor hosts entries, and *)
(* its last snapshot on disk (Leave, DownInterface).                         *)
THEOREM EndLeavesNothing == Spec => []LeavesNothing
<1>1. MeshInv => LeavesNothing
  BY DEF MeshInv, StopInv, AppliedInv, LeavesNothing
<1> QED BY <1>1, MeshInvariant, PTL
=============================================================================
