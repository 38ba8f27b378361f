------------------------------- MODULE Agent -------------------------------
(* One node's agent process: AgentCmd.Run from loading the state file to     *)
(* exit, the control server and its requests, signals, crashes and restarts, *)
(* and the leave command when no agent is running.                           *)
(*                                                                           *)
(* The state file is told apart by what a later start makes of it: nothing,  *)
(* a seed alone, a membership, or a membership that holds this node's own    *)
(* revocation.  The interface is the kernel's, so it outlives the process.   *)
EXTENDS Integers

CONSTANTS
    Req,            \* control requests
    Kind,           \* "invite", "revoke" or "leave" for each
    MaxStart,       \* bound on starts of the agent
    Faults          \* the steps of a leave, and of the clean-up, that may fail

ASSUME AgentAssumption ==
    /\ Kind \in [Req -> {"invite", "revoke", "leave"}]
    /\ MaxStart \in Nat \ {0}
    /\ Faults \subseteq {"revoke", "hosts", "down", "forget"}

VARIABLES
    main,       \* where Run is
    starts,
    file,       \* the state file
    boot,       \* what Load made of it
    ctxDone,    \* the context is cancelled, by a signal or by stop()
    cluster,    \* the Cluster: none, running, left
    revoked,    \* its set holds this node's own revocation
    iface, hosts, \* the interface exists; the hosts file has our entries
    requested, done, err,   \* leaving.requested, .done (closed), .err (set)
    ctl,        \* the control server: none, listening, closing
    req,        \* how far each request is
    reply,      \* what its sender was told
    admitted,   \* history: a cluster holds an admission of this identity
    unrevoked,  \* history: leaves that go on without a revocation, being forced
    abandoned   \* history: the state was deleted on purpose: by a leave, or forced

leaving == <<requested, done, err>>
system == <<iface, hosts>>
disk == <<file, boot>>
node == <<cluster, revoked>>
control == <<ctl, req, reply>>
history == <<admitted, unrevoked, abandoned>>
vars == <<main, starts, file, boot, ctxDone, cluster, revoked, iface, hosts, requested,
          done, err, ctl, req, reply, admitted, unrevoked, abandoned>>

Running == {"load", "bootstrap", "idle", "new", "listen", "join", "loop", "leave",
            "hosts", "down", "forget", "done", "close", "wait"}
Handling == {"start", "added", "revoking", "revokedSelf", "requested", "waiting"}

TypeOK ==
    /\ main \in Running \cup {"stopped"}
    /\ starts \in 0 .. MaxStart
    /\ file \in {"none", "seed", "member", "revoked"}
    /\ boot \in {"none", "seed", "member", "revoked"}
    /\ cluster \in {"none", "running", "left"}
    /\ ctl \in {"none", "listening", "closing"}
    /\ req \in [Req -> Handling \cup {"idle", "accepted", "answered"}]
    /\ reply \in [Req -> {"none", "ok", "error", "closed"}]
    /\ unrevoked \subseteq Req
    /\ {ctxDone, revoked, iface, hosts, requested, done, err, admitted, abandoned} \subseteq BOOLEAN

Init ==
    /\ main = "stopped" /\ starts = 0
    /\ file = "none" /\ boot = "none"
    /\ ctxDone = FALSE /\ cluster = "none" /\ revoked = FALSE
    /\ iface = FALSE /\ hosts = FALSE
    /\ requested = FALSE /\ done = FALSE /\ err = FALSE
    /\ ctl = "none"
    /\ req = [r \in Req |-> "idle"] /\ reply = [r \in Req |-> "none"]
    /\ admitted = FALSE /\ unrevoked = {} /\ abandoned = FALSE

Goto(from, to) == main = from /\ main' = to

(* Bootstrap.save, as saveState calls it: what the set holds now.            *)
Saved == IF revoked THEN "revoked" ELSE "member"

-----------------------------------------------------------------------------
(* Run, up to the loop. *)

Start ==
    /\ Goto("stopped", "load") /\ starts < MaxStart
    /\ starts' = starts + 1
    /\ ctxDone' = FALSE /\ cluster' = "none" /\ revoked' = FALSE
    /\ requested' = FALSE /\ done' = FALSE /\ err' = FALSE
    /\ UNCHANGED <<disk, system, control, history>>

BugLoad ==
    /\ Goto("load", "bootstrap")
    /\ boot' = IF file = "none" THEN "seed" ELSE file
    /\ IF file = "none" THEN admitted' = FALSE /\ abandoned' = FALSE
                        ELSE UNCHANGED <<admitted, abandoned>>
    /\ UNCHANGED <<unrevoked, starts, file, ctxDone, node, system, leaving, control>>

(* A node without an identity makes one, and saves it before anything else.  *)
Load ==
    /\ Goto("load", "bootstrap")
    /\ boot' = IF file = "none" THEN "seed" ELSE file
    /\ file' = boot'
    /\ IF file = "none" THEN admitted' = FALSE /\ abandoned' = FALSE
                        ELSE UNCHANGED <<admitted, abandoned>>
    /\ UNCHANGED <<unrevoked, starts, ctxDone, node, system, leaving, control>>

(* Already enrolled, or admitted now (by a member, or by itself as the root):*)
(* the outcome is in memory only until New has saved it.                     *)
Bootstrap ==
    /\ \/ Goto("bootstrap", "new") /\ admitted' = TRUE
       \/ boot = "seed" /\ Goto("bootstrap", "idle") /\ UNCHANGED admitted
       \/ boot = "seed" /\ Goto("bootstrap", "stopped") /\ admitted' \in {admitted, TRUE}
    /\ UNCHANGED <<starts, disk, ctxDone, node, system, leaving, control, unrevoked, abandoned>>

Idle ==
    /\ ctxDone
    /\ Goto("idle", "stopped")
    /\ UNCHANGED <<starts, disk, ctxDone, node, system, leaving, control, history>>

(* wg.New or cluster.New fails, or what precedes them (an address, a port);  *)
(* cluster.New always does for a node its own records have revoked.  wg.New  *)
(* probes for the kernel module by creating the interface.                   *)
NewFails ==
    /\ Goto("new", "stopped")
    /\ iface' \in {iface, TRUE}
    /\ UNCHANGED <<starts, disk, ctxDone, node, hosts, leaving, control, history>>

New ==
    /\ boot # "revoked"
    /\ Goto("new", "listen")
    /\ iface' = TRUE
    /\ cluster' = "running"
    /\ file' = "member"
    /\ UNCHANGED <<starts, boot, ctxDone, revoked, hosts, leaving, control, history>>

Listen ==
    /\ \/ Goto("listen", "join") /\ ctl' = "listening" /\ UNCHANGED <<cluster, file>>
       \/ /\ Goto("listen", "stopped")                  \* cl.Leave, then the error
          /\ cluster' = "left" /\ file' = Saved /\ UNCHANGED ctl
    /\ UNCHANGED <<starts, boot, ctxDone, revoked, system, leaving, req, reply, history>>

(* The retry gives up only when the context is done.                         *)
Join ==
    /\ \/ Goto("join", "loop") /\ UNCHANGED <<cluster, file>>
       \/ ctxDone /\ Goto("join", "forget") /\ cluster' = "left" /\ file' = Saved
    /\ UNCHANGED <<starts, boot, ctxDone, revoked, system, leaving, control, history>>

-----------------------------------------------------------------------------
(* The loop and the way out. *)

(* apply: the interface and the hosts entries follow the snapshot; a setup   *)
(* that fails takes the interface down again, if that works.                 *)
Apply ==
    /\ Goto("loop", "loop")
    /\ iface' \in BOOLEAN
    /\ hosts' \in {hosts, TRUE}
    /\ UNCHANGED <<starts, disk, ctxDone, node, leaving, control, history>>

Terminate ==
    /\ ctxDone
    /\ Goto("loop", "leave")
    /\ UNCHANGED <<starts, disk, ctxDone, node, system, leaving, control, history>>

LeaveCluster ==
    /\ Goto("leave", "hosts")
    /\ cluster' = "left"
    /\ file' = Saved
    /\ UNCHANGED <<starts, boot, ctxDone, revoked, system, leaving, control, history>>

RemoveHosts ==
    /\ Goto("hosts", "down")
    /\ \/ hosts' = FALSE
       \/ "hosts" \in Faults /\ UNCHANGED hosts           \* logged
    /\ UNCHANGED <<starts, disk, ctxDone, node, iface, leaving, control, history>>

DownInterface ==
    /\ Goto("down", "forget")
    /\ \/ iface' = FALSE
       \/ "down" \in Faults /\ UNCHANGED iface            \* the loop's error
    /\ UNCHANGED <<starts, disk, ctxDone, node, hosts, leaving, control, history>>

(* forget: only a leave that has been requested by now deletes the state.    *)
forget ==
    /\ Goto("forget", "done")
    /\ \/ ~requested /\ UNCHANGED <<file, err, abandoned>>
       \/ requested /\ file' = "none" /\ abandoned' = TRUE /\ UNCHANGED err
       \/ requested /\ "forget" \in Faults /\ err' = TRUE /\ UNCHANGED <<file, abandoned>>
    /\ UNCHANGED <<starts, boot, ctxDone, node, system, requested, done, control, admitted, unrevoked>>

(* The deferred calls, last in first out: close(leave.done), ctl.Close().    *)
BugCloseDone ==
    /\ Goto("done", "close")
    /\ UNCHANGED <<starts, disk, ctxDone, node, system, leaving, control, history>>

CloseDone ==
    /\ Goto("done", "close")
    /\ done' = TRUE
    /\ UNCHANGED <<starts, disk, ctxDone, node, system, requested, err, control, history>>

Close ==
    /\ Goto("close", "wait")
    /\ ctl' = "closing"
    /\ UNCHANGED <<starts, disk, ctxDone, node, system, leaving, req, reply, history>>

BugCloseWait ==
    /\ Goto("wait", "stopped")
    /\ ctl' = "none"
    /\ UNCHANGED <<starts, disk, ctxDone, node, system, leaving, req, reply, history>>

CloseWait ==
    /\ \A r \in Req : req[r] \notin Handling
    /\ Goto("wait", "stopped")
    /\ ctl' = "none"
    /\ req' = [r \in Req |-> IF req[r] = "accepted" THEN "answered" ELSE req[r]]
    /\ reply' = [r \in Req |-> IF req[r] = "accepted" THEN "closed" ELSE reply[r]]
    /\ UNCHANGED <<starts, disk, ctxDone, node, system, leaving, history>>

-----------------------------------------------------------------------------
(* The control server and its requests. *)

Move(r, from, to) == req[r] = from /\ req' = [req EXCEPT ![r] = to]

Connect(r) ==
    /\ ctl = "listening"
    /\ Move(r, "idle", "accepted")
    /\ UNCHANGED <<main, starts, disk, ctxDone, node, system, leaving, ctl, reply, history>>

(* track: a server that is closing takes on no more requests.                *)
Track(r) ==
    /\ \/ ctl = "listening" /\ Move(r, "accepted", "start") /\ UNCHANGED reply
       \/ /\ ctl = "closing" /\ Move(r, "accepted", "answered")
          /\ reply' = [reply EXCEPT ![r] = "closed"]
    /\ UNCHANGED <<main, starts, disk, ctxDone, node, system, leaving, ctl, history>>

Answer(r, from, what) ==
    /\ Move(r, from, "answered")
    /\ reply' = [reply EXCEPT ![r] = what]

(* An invite mints a token, or is refused; both are answered at once.        *)
Invite(r) ==
    /\ Kind[r] = "invite"
    /\ \E what \in {"ok", "error"} : Answer(r, "start", what)
    /\ UNCHANGED <<main, starts, disk, ctxDone, node, system, leaving, ctl, history>>

(* A revoke of another node: refused, or stored and broadcast, then saved.   *)
Revoke(r) ==
    /\ Kind[r] = "revoke"
    /\ \/ Move(r, "start", "added") /\ UNCHANGED <<reply, file>>
       \/ Answer(r, "start", "error") /\ UNCHANGED file
       \/ Answer(r, "added", "ok") /\ file' = Saved
    /\ UNCHANGED <<main, starts, boot, ctxDone, node, system, leaving, ctl, history>>

(* A leave: RevokeSelf stores the revocation and tells the members, ...      *)
RevokeSelf(r) ==
    /\ Kind[r] = "leave"
    /\ Move(r, "start", "revoking")
    /\ revoked' = TRUE
    /\ UNCHANGED <<main, starts, disk, ctxDone, cluster, system, leaving, ctl, reply, history>>

(* It fails: the node stays where it is, unless the operator insists.        *)
RevokeSelfFails(r) ==
    /\ Kind[r] = "leave" /\ "revoke" \in Faults
    /\ \/ Answer(r, "start", "error") /\ UNCHANGED unrevoked
       \/ Move(r, "start", "revokedSelf") /\ unrevoked' = unrevoked \cup {r} /\ UNCHANGED reply
    /\ UNCHANGED <<main, starts, disk, ctxDone, node, system, leaving, ctl, admitted, abandoned>>

(* ... then saves it, ...                                                    *)
PersistSelf(r) ==
    /\ Move(r, "revoking", "revokedSelf")
    /\ file' = Saved
    /\ UNCHANGED <<main, starts, boot, ctxDone, node, system, leaving, ctl, reply, history>>

(* ... the handler asks for the state to be forgotten, stops the agent, ...  *)
Request(r) ==
    /\ Move(r, "revokedSelf", "requested")
    /\ requested' = TRUE
    /\ UNCHANGED <<main, starts, disk, ctxDone, node, system, done, err, ctl, reply, history>>

StopAgent(r) ==
    /\ Move(r, "requested", "waiting")
    /\ ctxDone' = TRUE
    /\ UNCHANGED <<main, starts, disk, node, system, leaving, ctl, reply, history>>

BugWaitDone(r) ==
    /\ Answer(r, "waiting", IF err THEN "error" ELSE "ok")
    /\ UNCHANGED <<main, starts, disk, ctxDone, node, system, leaving, ctl, history>>

(* ... and answers once the agent has torn down.                             *)
WaitDone(r) ==
    /\ done
    /\ Answer(r, "waiting", IF err THEN "error" ELSE "ok")
    /\ UNCHANGED <<main, starts, disk, ctxDone, node, system, leaving, ctl, history>>

-----------------------------------------------------------------------------
(* From outside. *)

Signal ==
    /\ main \in Running /\ ~ctxDone
    /\ ctxDone' = TRUE
    /\ UNCHANGED <<main, starts, disk, node, system, leaving, control, history>>

(* The process dies: the interface, the hosts entries and the file stay.     *)
Crash ==
    /\ main \in Running
    /\ main' = "stopped" /\ cluster' = "none" /\ ctl' = "none"
    /\ req' = [r \in Req |-> IF req[r] = "idle" THEN "idle" ELSE "answered"]
    /\ reply' = [r \in Req |-> IF req[r] \notin {"idle", "answered"} THEN "closed" ELSE reply[r]]
    /\ UNCHANGED <<starts, disk, ctxDone, revoked, system, leaving, history>>

(* leave --force when nothing listens: no agent, or one that has not got to  *)
(* Listen yet or is past Close.  Each step that fails ends it.               *)
forced ==
    /\ ctl # "listening"
    /\ \/ iface' = FALSE /\ hosts' = FALSE /\ file' = "none" /\ abandoned' = TRUE
       \/ iface' = FALSE /\ "hosts" \in Faults /\ UNCHANGED <<hosts, file, abandoned>>
       \/ iface' = FALSE /\ hosts' = FALSE /\ "forget" \in Faults /\ UNCHANGED <<file, abandoned>>
    /\ UNCHANGED <<main, starts, boot, ctxDone, node, leaving, control, admitted, unrevoked>>

Run ==
    \/ Load \/ Bootstrap \/ Idle \/ New \/ NewFails \/ Listen \/ Join \/ Terminate
    \/ LeaveCluster \/ RemoveHosts \/ DownInterface \/ forget \/ CloseDone \/ Close \/ CloseWait

Serve(r) ==
    \/ Track(r) \/ Invite(r) \/ Revoke(r) \/ RevokeSelf(r) \/ RevokeSelfFails(r)
    \/ PersistSelf(r) \/ Request(r) \/ StopAgent(r) \/ WaitDone(r)

Next ==
    \/ Start \/ Run \/ Apply \/ Signal \/ Crash \/ forced
    \/ \E r \in Req : Connect(r) \/ Serve(r)

Spec == Init /\ [][Next]_vars

(* Run and the handlers are goroutines: each goes on when it can.  A select  *)
(* with two ready channels picks at random, so a context that is done is     *)
(* noticed even if snapshots keep coming.                                    *)
FairSpec ==
    /\ Spec
    /\ WF_vars(Run)
    /\ \A r \in Req : WF_vars(Serve(r))

-----------------------------------------------------------------------------
(* What Server.Close waits for: a request that a handler has taken on is not *)
(* left without an answer by an agent that stops of its own accord.          *)
HandlersAnswer ==
    /\ TypeOK
    /\ \A r \in Req : req[r] \in Handling => ctl # "none"

(* The sender of r, a leave, is being told `what'.                           *)
Tells(r, what) == Kind[r] = "leave" /\ reply[r] = "none" /\ reply'[r] \in what

(* RevokeSelf has been refused, and the leave with it.                       *)
Refused(r) == req[r] = "start" /\ reply'[r] = "error" /\ UNCHANGED <<node, leaving, ctxDone>>

(* A leave that is not refused at the outset is answered only by an agent    *)
(* that is out of the gossip ring and whose set holds the revocation, unless *)
(* it was forced without one (agentControl.Leave waits for leaving.done),    *)
(* whatever signal got in between.                                           *)
LeaveAnsweredLast ==
    [][\A r \in Req : Tells(r, {"ok", "error"}) =>
          Refused(r) \/ (cluster = "left" /\ (revoked \/ r \in unrevoked))]_vars

(* An agent told to stop does stop: the leave handler waits for Run, and     *)
(* Run, closing the control server, waits for the handler (the order of      *)
(* Run's deferred calls).                                                    *)
AgentStops == ctxDone /\ main \in Running ~> main = "stopped"

(* No cluster holds an admission of an identity this node has lost: the seed *)
(* is in the file before anybody can admit it, and goes only when the node   *)
(* leaves (Load: "the identity is persisted immediately").                   *)
IdentityKept == admitted /\ file = "none" => abandoned

(* A leave that is reported done has revoked the node, or says that it has   *)
(* not (LeaveResult.Revoked), and has left the ring, torn the interface down and deleted the state file ("A leave is answered only  *)
(* once the agent has ...", and LeaveCmd.report).                            *)
LeaveIsComplete ==
    [][\A r \in Req : Tells(r, {"ok"}) =>
          (revoked \/ r \in unrevoked) /\ cluster = "left" /\ ~iface /\ file = "none"]_vars
=============================================================================
