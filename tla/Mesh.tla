-------------------------------- MODULE Mesh --------------------------------
(* From a change of membership to the interface: memberlist events and new   *)
(* records become change signals, watch turns a signal into one verified     *)
(* snapshot, and the agent's loop applies the snapshots to WireGuard and the *)
(* hosts file until it is told to stop.                                      *)
(*                                                                           *)
(* A peer stands for its name, its overlay address and its metadata; `good`  *)
(* are those whose metadata the records at hand verify (verifyMeta).         *)
(* memberlist and the kernel are external.                                   *)
EXTENDS Integers, Sequences, FiniteSetsExt

CONSTANTS
    Peer,       \* the other nodes, as numbers in the order of their names
    Net,        \* networks a peer may advertise
    Inside,     \* those that overlap the overlay network
    AllowedIPs, \* what each peer advertises
    EventCap,   \* room in the events channel
    MaxChange,  \* bound on changes of membership
    MaxFault    \* bound on failing writes and failing kernel calls

ASSUME MeshAssumption ==
    /\ Peer \subseteq Nat \ {0}
    /\ Inside \subseteq Net
    /\ AllowedIPs \in [Peer -> SUBSET Net]
    /\ EventCap \in Nat \ {0}
    /\ MaxChange \in Nat /\ MaxFault \in Nat

VARIABLES
    members,    \* memberlist's live nodes
    good,       \* peers whose metadata verifies
    due,        \* peers just admitted here, yet to announce themselves
    owed,       \* handlers that have changed the records and will signal it
    events,     \* the events channel
    changed,    \* the one-slot change signal
    watch,      \* where the watch goroutine is
    listed,     \* what it has read of memberlist, then of that verified
    peers,      \* boot.Peers
    disk,       \* boot.Peers in the state file
    sub,        \* the Members channel of the loop: none, empty, full or closed
    slot,       \* the snapshot in it
    main,       \* where the loop is
    todo,       \* the snapshot it applies
    iface,      \* the interface
    hosts,      \* peers in the managed block of the hosts file
    ok,         \* what the last attempt on the interface, the hosts, the disk did
    forward,    \* where forwardEvents is
    done,       \* whether done is closed
    changes, faults

net     == <<members, good, due, owed, changes>>
signals == <<events, changed, forward>>
watched == <<watch, listed, peers>>
channel == <<sub, slot>>
applied == <<iface, hosts, ok, disk>>
ctl     == <<main, todo, done>>
vars    == <<net, signals, watched, channel, applied, ctl, faults>>

Never == {0}        \* no snapshot has been applied yet
Nobody == 0

(* What is reachable through the interface: a peer's own address or a        *)
(* network behind it.                                                        *)
Dst == ({"host"} \X Peer) \cup ({"net"} \X Net)

Down == [up |-> "no", peers |-> {}, allowed |-> [n \in Net |-> Nobody], routes |-> {}]

(* Types, with the capacities of the channels: the change signal holds one   *)
(* (signalChanged drops what does not fit) and events EventCap; a network is *)
(* routed to a peer of the interface or to nobody.                           *)
TypeOK ==
    /\ members \subseteq Peer /\ good \subseteq Peer /\ due \subseteq Peer
    /\ changes \in 0 .. MaxChange /\ owed \in 0 .. changes /\ faults \in 0 .. MaxFault
    /\ events \in Seq({"own", "other"}) /\ Len(events) <= EventCap
    /\ changed \in 0 .. 1 /\ done \in 0 .. 1
    /\ forward \in {"run", "ended"}
    /\ watch \in {"wait", "list", "verify", "save", "deliver", "ended"}
    /\ listed \subseteq Peer /\ peers \subseteq Peer /\ disk \subseteq Peer
    /\ sub \in {"none", "empty", "full", "closed"} /\ slot \subseteq Peer
    /\ main \in {"start", "wait", "apply", "hosts", "leave", "announce", "shutdown",
                 "done", "join", "close", "clear", "down", "ended"}
    /\ todo \in (SUBSET Peer) \cup {Never}
    /\ main \in {"apply", "hosts"} => todo # Never
    /\ iface.up \in {"no", "yes"} /\ iface.peers \subseteq Peer
    /\ iface.allowed \in [Net -> iface.peers \cup {Nobody}] /\ iface.routes \subseteq Dst
    /\ hosts \subseteq Peer
    /\ ok \subseteq {"iface", "hosts", "disk"}

(* New: memberlist has announced this node to itself, persist has saved the  *)
(* peers of the last run, an older agent's hosts entries may still be there. *)
Init ==
    /\ members = {} /\ good \in SUBSET Peer /\ due = {} /\ owed = 0 /\ changes = 0 /\ faults = 0
    /\ events = <<"own">> /\ changed = 0 /\ forward = "run" /\ done = 0
    /\ watch = "wait" /\ listed = {}
    /\ peers \in {{}, Peer} /\ disk = peers
    /\ sub = "none" /\ slot = {}
    /\ main = "start" /\ todo = Never
    /\ iface = Down /\ hosts \in {{}, Peer} /\ ok = {"iface", "hosts", "disk"}

Fault == faults < MaxFault /\ faults' = faults + 1
Change == changes < MaxChange /\ changes' = changes + 1

(* What an attempt on the interface, the hosts file or the disk came to.     *)
Tried(what) == ok' = ok \cup {what} /\ UNCHANGED faults
Failed(what) == ok' = ok \ {what} /\ Fault

Verified == members \cap good

Gossiping == main \notin {"done", "join", "close", "clear", "down", "ended"}

-----------------------------------------------------------------------------
(* What changes the membership. *)

(* ChannelEventDelegate: memberlist waits for room in the channel.           *)
Tell(e) == Len(events) < EventCap /\ events' = Append(events, e)

MemberEvent ==
    /\ Gossiping /\ Change /\ Tell("other")
    /\ \E p \in Peer :
          members' \in {members \cup {p}, members \ {p}}
    /\ UNCHANGED <<good, due, owed, changed, forward, watched, channel, applied, ctl, faults>>

(* NotifyMsg, MergeRemoteState and Revoke: the records change first, the     *)
(* signal is given later.                                                    *)
RecordsChange ==
    /\ Gossiping /\ Change
    /\ \E p \in Peer : good' \in {good \cup {p}, good \ {p}}
    /\ owed' = owed + 1
    /\ UNCHANGED <<members, due, signals, watched, channel, applied, ctl, faults>>

BugsignalChanged ==
    /\ owed > 0
    /\ owed' = owed - 1 /\ changed' = IF watch = "wait" THEN 1 ELSE changed
    /\ UNCHANGED <<members, good, due, changes, events, forward, watched, channel,
                   applied, ctl, faults>>

(* A signal already pending is enough.                                       *)
signalChanged ==
    /\ owed > 0
    /\ owed' = owed - 1 /\ changed' = 1
    /\ UNCHANGED <<members, good, due, changes, events, forward, watched, channel,
                   applied, ctl, faults>>

(* admit: no signal; the new member makes itself heard when it joins.        *)
Admit ==
    /\ Gossiping /\ Change
    /\ \E p \in Peer \ good : good' = good \cup {p} /\ due' = due \cup {p}
    /\ UNCHANGED <<members, owed, signals, watched, channel, applied, ctl, faults>>

Announce ==
    /\ Gossiping /\ Tell("other")
    /\ \E p \in due : due' = due \ {p} /\ members' = members \cup {p}
    /\ UNCHANGED <<good, owed, changes, changed, forward, watched, channel, applied, ctl, faults>>

-----------------------------------------------------------------------------
(* forwardEvents and watch. *)

BugforwardEvents ==
    /\ forward = "run" /\ events # <<>>
    /\ events' = Tail(events)
    /\ changed' = IF Head(events) = "own" \/ watch # "wait" THEN changed ELSE 1
    /\ UNCHANGED <<net, forward, watched, channel, applied, ctl, faults>>

forwardEvents ==
    /\ forward = "run" /\ events # <<>>
    /\ events' = Tail(events)
    /\ changed' = IF Head(events) = "own" THEN changed ELSE 1
    /\ UNCHANGED <<net, forward, watched, channel, applied, ctl, faults>>

ForwardEnds ==
    /\ forward = "run" /\ done = 1
    /\ forward' = "ended"
    /\ UNCHANGED <<net, events, changed, watched, channel, applied, ctl, faults>>

WatchStep(from, to) == watch = from /\ watch' = to

WatchTakes ==
    /\ WatchStep("wait", "list") /\ changed = 1
    /\ changed' = 0
    /\ UNCHANGED <<net, events, forward, listed, peers, channel, applied, ctl, faults>>

WatchEnds ==
    /\ WatchStep("wait", "ended") /\ done = 1
    /\ UNCHANGED <<net, signals, listed, peers, channel, applied, ctl, faults>>

(* snapshot reads the members in one go and then asks about each.            *)
ListMembers ==
    /\ WatchStep("list", "verify")
    /\ listed' = members
    /\ UNCHANGED <<net, signals, peers, channel, applied, ctl, faults>>

VerifyMembers ==
    /\ WatchStep("verify", "save")
    /\ listed' = listed \cap good
    /\ UNCHANGED <<net, signals, peers, channel, applied, ctl, faults>>

(* A failing save is logged.                                                 *)
SavePeers ==
    /\ WatchStep("save", "deliver")
    /\ peers' = listed
    /\ \/ Tried("disk") /\ disk' = listed
       \/ Failed("disk") /\ UNCHANGED disk
    /\ UNCHANGED <<net, signals, listed, channel, iface, hosts, ctl>>

BugDeliver ==
    /\ WatchStep("deliver", "wait")
    /\ sub \in {"none", "empty"}
    /\ sub' = IF sub = "none" THEN "none" ELSE "full"
    /\ slot' = IF sub = "none" THEN slot ELSE listed
    /\ UNCHANGED <<net, signals, listed, peers, applied, ctl, faults>>

(* A snapshot nobody has read yet is replaced, so sending never blocks.      *)
Deliver ==
    /\ WatchStep("deliver", "wait")
    /\ sub' = IF sub = "none" THEN "none" ELSE "full"
    /\ slot' = IF sub = "none" THEN slot ELSE listed
    /\ UNCHANGED <<net, signals, listed, peers, applied, ctl, faults>>

-----------------------------------------------------------------------------
(* The agent's loop. *)

MainStep(from, to) == main = from /\ main' = to

BugMembers ==
    /\ MainStep("start", "wait")
    /\ sub' = "empty"
    /\ UNCHANGED <<net, signals, slot, watched, applied, todo, done, faults>>

(* Members asks for a first snapshot.                                        *)
Members ==
    /\ MainStep("start", "wait")
    /\ sub' = "empty" /\ changed' = 1
    /\ UNCHANGED <<net, events, forward, slot, watched, applied, todo, done, faults>>

LoopReads ==
    /\ MainStep("wait", "apply") /\ sub = "full"
    /\ sub' = "empty" /\ todo' = slot
    /\ UNCHANGED <<net, signals, watched, slot, applied, done, faults>>

(* A network goes to the first by name that advertises it, unless it         *)
(* overlaps the overlay.                                                     *)
routedBy(ps, n) ==
    LET by == {p \in ps : n \in AllowedIPs[p]}
    IN  IF n \in Inside \/ by = {} THEN Nobody ELSE Min(by)

peerPrefixes(ps) ==
    {<<"host", p>> : p \in ps} \cup {<<"net", n>> : n \in {m \in Net : routedBy(ps, m) # Nobody}}

(* ConfigureDevice with ReplacePeers.                                        *)
Configured(ps, routes) ==
    [up |-> "yes", peers |-> ps, allowed |-> [n \in Net |-> routedBy(ps, n)],
     routes |-> routes]

(* Routes are added one by one and the stale ones removed last.              *)
SetUpInterface ==
    /\ MainStep("apply", "hosts")
    /\ iface' = Configured(todo, peerPrefixes(todo))
    /\ Tried("iface")
    /\ UNCHANGED <<net, signals, watched, channel, hosts, disk, todo, done>>

(* It fails before or after the peers are replaced, among the routes it adds *)
(* or among those it removes; apply then takes the interface down, which may *)
(* fail too.                                                                 *)
SetUpFails ==
    LET wanted == peerPrefixes(todo)
    IN  /\ MainStep("apply", "hosts")
        /\ Failed("iface")
        /\ \/ iface' \in {Down, iface}
           \/ \E r \in SUBSET wanted : iface' = Configured(todo, iface.routes \cup r)
           \/ \E r \in SUBSET iface.routes : iface' = Configured(todo, wanted \cup r)
        /\ UNCHANGED <<net, signals, watched, channel, hosts, disk, todo, done>>

WriteHosts ==
    /\ MainStep("hosts", "wait")
    /\ \/ Tried("hosts") /\ hosts' = todo
       \/ Failed("hosts") /\ UNCHANGED hosts
    /\ UNCHANGED <<net, signals, watched, channel, iface, disk, todo, done>>

-----------------------------------------------------------------------------
(* Stopping: Leave, then the hosts file and the interface. *)

Stop ==
    /\ MainStep("wait", "leave")
    /\ UNCHANGED <<net, signals, watched, channel, applied, todo, done, faults>>

(* watch holds the same mutex while it stores and saves a snapshot.          *)
LeavePersists ==
    /\ MainStep("leave", "announce")
    /\ \/ Tried("disk") /\ disk' = peers
       \/ Failed("disk") /\ UNCHANGED disk
    /\ UNCHANGED <<net, signals, watched, channel, iface, hosts, todo, done>>

(* memberlist tells of this node's own leaving too.                          *)
LeaveAnnounces ==
    /\ MainStep("announce", "shutdown") /\ Tell("own")
    /\ UNCHANGED <<net, changed, forward, watched, channel, applied, todo, done, faults>>

MemberlistShutdown ==
    /\ MainStep("shutdown", "done")
    /\ UNCHANGED <<net, signals, watched, channel, applied, todo, done, faults>>

CloseDone ==
    /\ MainStep("done", "join")
    /\ done' = 1
    /\ UNCHANGED <<net, signals, watched, channel, applied, todo, faults>>

BugWaitRoutines ==
    /\ MainStep("join", "close") /\ forward = "ended"
    /\ UNCHANGED <<net, signals, watched, channel, applied, todo, done, faults>>

WaitRoutines ==
    /\ MainStep("join", "close") /\ forward = "ended" /\ watch = "ended"
    /\ UNCHANGED <<net, signals, watched, channel, applied, todo, done, faults>>

CloseSubs ==
    /\ MainStep("close", "clear")
    /\ sub' = "closed"
    /\ UNCHANGED <<net, signals, watched, slot, applied, todo, done, faults>>

ClearHosts ==
    /\ MainStep("clear", "down")
    /\ \/ Tried("hosts") /\ hosts' = {}
       \/ Failed("hosts") /\ UNCHANGED hosts
    /\ UNCHANGED <<net, signals, watched, channel, iface, disk, todo, done>>

BugDownInterface ==
    /\ MainStep("down", "ended")
    /\ \/ Tried("iface") /\ iface' = [iface EXCEPT !.peers = {}]
       \/ Failed("iface") /\ UNCHANGED iface
    /\ UNCHANGED <<net, signals, watched, channel, hosts, disk, todo, done>>

DownInterface ==
    /\ MainStep("down", "ended")
    /\ \/ Tried("iface") /\ iface' = Down
       \/ Failed("iface") /\ UNCHANGED iface
    /\ UNCHANGED <<net, signals, watched, channel, hosts, disk, todo, done>>

Watch == WatchTakes \/ WatchEnds \/ ListMembers \/ VerifyMembers \/ SavePeers \/ Deliver

Loop ==
    \/ Members \/ LoopReads \/ SetUpInterface \/ SetUpFails \/ WriteHosts
    \/ LeavePersists \/ LeaveAnnounces \/ MemberlistShutdown \/ CloseDone
    \/ WaitRoutines \/ CloseSubs \/ ClearHosts \/ DownInterface

Next ==
    \/ MemberEvent \/ RecordsChange \/ signalChanged \/ Admit \/ Announce
    \/ forwardEvents \/ ForwardEnds \/ Watch \/ Loop \/ Stop

Spec == Init /\ [][Next]_vars

(* Goroutines run when they can, and an admitted node joins.                 *)
FairSpec ==
    /\ Spec
    /\ WF_vars(signalChanged) /\ WF_vars(Announce)
    /\ WF_vars(forwardEvents) /\ WF_vars(ForwardEnds)
    /\ WF_vars(Watch) /\ WF_vars(Loop)

-----------------------------------------------------------------------------
Quiet ==
    /\ main = "wait" /\ sub = "empty" /\ watch = "wait" /\ changed = 0
    /\ \A i \in DOMAIN events : events[i] = "own"
    /\ owed = 0 /\ due = {}

(* No change of membership is lost on its way: once nothing is under way the *)
(* agent has applied a snapshot, and it is the current one.  Peers, networks *)
(* and routes of the interface, the hosts file and the state file are those  *)
(* of exactly the verified members, unless the last attempt failed           *)
(* (forwardEvents, watch, apply).                                            *)
NothingMissed ==
    Quiet =>
        /\ todo = Verified /\ peers = Verified
        /\ "iface" \in ok => iface = Configured(Verified, peerPrefixes(Verified))
        /\ "hosts" \in ok => hosts = Verified
        /\ "disk" \in ok => disk = Verified

(* watch never sends on a channel that Leave has closed, and once the loop   *)
(* has ended no routine is left ("watch has stopped: nothing sends on these  *)
(* any more").                                                               *)
ClosedUnused ==
    /\ watch = "deliver" => sub # "closed"
    /\ main = "ended" => watch = "ended" /\ forward = "ended"

(* An agent that has stopped leaves no interface and no hosts entries, and   *)
(* its state file names the last snapshot, unless that write failed.         *)
LeavesNothing ==
    main = "ended" =>
        /\ "iface" \in ok => iface = Down
        /\ "hosts" \in ok => hosts = {}
        /\ "disk" \in ok => disk = peers

(* However the changes fall, the interface is brought up from a first        *)
(* snapshot and ends up with the members there are, or the agent is stopping.*)
Converges == <>[](\/ main \notin {"start", "wait", "apply", "hosts"}
                  \/ todo = Verified /\ ("iface" \in ok => iface.peers = Verified))

(* Leave returns: it does not wait for a watch that waits for the loop.      *)
LeaveReturns == main = "leave" ~> main = "ended"

-----------------------------------------------------------------------------
(* Why they hold: the parts of the inductive invariant. *)

(* No signal of a change is under way to watch.                              *)
Settled ==
    /\ changed = 0 /\ owed = 0 /\ due = {}
    /\ \A i \in DOMAIN events : events[i] = "own"

(* Unless a signal is under way, what watch has read, stored and delivered   *)
(* is up to date, as far as it has got.                                      *)
SnapshotInv ==
    /\ main = "start" <=> sub = "none"
    /\ watch = "deliver" => peers = listed
    /\ Settled =>
          /\ watch = "verify" => listed = members
          /\ watch \in {"save", "deliver"} => listed = Verified
          /\ watch = "wait" /\ main # "start" =>
                /\ peers = Verified
                /\ sub = "full" => slot = Verified
                /\ sub = "empty" => todo = Verified

(* What the last good attempt of each kind has left.                         *)
AppliedInv ==
    /\ main = "start" => todo = Never
    /\ "disk" \in ok => disk = peers
    /\ todo # Never /\ main \in {"wait", "hosts"} /\ "iface" \in ok =>
          iface = Configured(todo, peerPrefixes(todo))
    /\ todo # Never /\ main = "wait" /\ "hosts" \in ok => hosts = todo

(* How far Leave and the end of the loop have got.                           *)
StopInv ==
    /\ main \in {"close", "clear", "down", "ended"} => watch = "ended" /\ forward = "ended"
    /\ sub = "closed" => main \in {"clear", "down", "ended"}
    /\ main \in {"down", "ended"} /\ "hosts" \in ok => hosts = {}
    /\ main = "ended" /\ "iface" \in ok => iface = Down

(* Whenever the snapshot that watch, the channel or the loop has is not the  *)
(* current one, a signal or an event is still on its way to watch            *)
(* (signalChanged, forwardEvents, watch, Members, apply, Leave).             *)
MeshInv == TypeOK /\ SnapshotInv /\ AppliedInv /\ StopInv
=============================================================================
