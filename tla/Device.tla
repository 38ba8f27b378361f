------------------------------- MODULE Device -------------------------------
(* The WireGuard interface of one agent: where it comes from (the kernel, or *)
(* a device that runs in the agent on a tun interface), and how              *)
(* SetUpInterface brings it, its address and its routes in line with a       *)
(* snapshot of the peers.  Any step may fail, the device may stop on its     *)
(* own, the operator may delete the interface, and the agent may die; a      *)
(* kernel interface outlives it, with everything that was set on it.         *)
EXTENDS Integers

CONSTANTS
    Node,           \* possible peers; a node also stands for the prefix of its overlay address
    Advertised,     \* AllowedIPs of each of them, as apply has filtered them
    OwnAddr,        \* addresses the agent may have, one per start; its former one may be a peer's by now
    Elsewhere,      \* destinations that another interface of the host routes
    MaxStart,       \* bound on the agent's starts; each has a key of its own
    MaxSetUp,       \* bound on the snapshots applied
    MaxDevFault     \* bound on what goes wrong

(* hostPrefix(OverlayAddr), and the networks the node advertises.            *)
peerPrefixes(n) == {n} \cup Advertised[n]
Wanted(ns) == UNION {peerPrefixes(n) : n \in ns}

ASSUME DeviceAssumption ==
    /\ OwnAddr \cap Elsewhere = {}
    /\ MaxStart \in Nat /\ MaxSetUp \in Nat /\ MaxDevFault \in Nat

VARIABLES
    plat,       \* "kernel", or where the device runs in the agent: "linux", "darwin", "windows"
    link,       \* the interface as the operating system has it
    other,      \* a utun interface of another program
    record,     \* what /var/run/wireguard/<name>.name says (macOS)
    dev,        \* userspaceDevice.dev: none, being made, running, or stopped on its own
    sock,       \* whether the device has its control socket
    osName,     \* userspaceDevice.osName, and Create's before it is kept: how the interface was called
    alive,      \* whether the agent runs
    starts,     \* how often it has started: State.privKey
    own,        \* State.overlayAddr
    dpc,        \* where it is in apply
    nodes,      \* the snapshot it applies
    todo,       \* routes still to add, or to delete
    setUps,
    devFaults

linkVars == <<link, record, dev, sock, osName>>
agentVars == <<plat, alive, starts, own, setUps>>
deviceVars == <<linkVars, other, agentVars, dpc, nodes, todo, devFaults>>

Platform == {"kernel", "linux", "darwin", "windows"}
Utun == {"utun0", "utun1"}
Netlink == plat \in {"kernel", "linux"}
Userspace == plat # "kernel"

(* An interface without anything set on it; a Wintun adapter is up for as    *)
(* long as it is there.                                                      *)
NewLink(name) == [name |-> name, key |-> 0, peers |-> {}, addrs |-> {}, routes |-> {},
                  set |-> IF plat = "windows" THEN {"up"} ELSE {}]
NoLink == [name |-> "none", key |-> 0, peers |-> {}, addrs |-> {}, routes |-> {}, set |-> {}]
Present == link.name # "none"

DeviceInit ==
    /\ plat \in Platform
    /\ link = NoLink /\ other = "none" /\ record = "none"
    /\ dev = "none" /\ sock = FALSE /\ osName = "none"
    /\ alive = FALSE /\ starts = 0 /\ own \in OwnAddr
    /\ dpc = "idle" /\ nodes = {} /\ todo = {}
    /\ setUps = 0 /\ devFaults = 0

-----------------------------------------------------------------------------
(* Where the interface comes from. *)

(* kernelDevice.Create: an interface that is there already will do.          *)
LinkAdd == IF Present THEN link ELSE NewLink("wg")

(* wg.New, called for every start of the agent: on a kernel with WireGuard   *)
(* the probe makes the interface.                                            *)
platform ==
    /\ ~alive /\ starts < MaxStart
    /\ alive' = TRUE
    /\ starts' = starts + 1
    /\ own' \in OwnAddr
    /\ link' = IF Userspace THEN link ELSE LinkAdd
    /\ UNCHANGED <<plat, record, dev, sock, osName, other, setUps, dpc, nodes, todo, devFaults>>

DevStep(from, to) == alive /\ dpc = from /\ dpc' = to

BugSetUpInterface(ns) ==
    /\ setUps < MaxSetUp
    /\ setUps' = setUps + 1
    /\ nodes' = ns
    /\ DevStep("idle", IF Userspace /\ dev # "running" THEN "tun" ELSE "configure")
    /\ link' = IF Userspace THEN link ELSE LinkAdd
    /\ UNCHANGED <<plat, record, dev, sock, osName, other, alive, starts, own, todo, devFaults>>

(* SetUpInterface is called; a device that runs, or the kernel's, is used as *)
(* it is, and one that has stopped is closed before it is replaced.          *)
SetUpInterface(ns) ==
    /\ setUps < MaxSetUp
    /\ setUps' = setUps + 1
    /\ nodes' = ns
    /\ DevStep("idle", IF Userspace /\ dev # "running" THEN "tun" ELSE "configure")
    /\ link' = IF Userspace THEN link ELSE LinkAdd
    /\ dev' = IF dev = "stopped" THEN "none" ELSE dev
    /\ sock' = (sock /\ dev # "stopped")
    /\ osName' = IF dev = "stopped" THEN "none" ELSE osName
    /\ UNCHANGED <<plat, record, other, alive, starts, own, todo, devFaults>>

(* What createTUN calls the interface: macOS chooses itself.                 *)
tunName == IF plat = "darwin" THEN Utun \ {other} ELSE {"wg"}

createTUN ==
    /\ DevStep("tun", "listen")
    /\ \E name \in tunName : link' = NewLink(name) /\ osName' = name
    /\ dev' = "making"
    /\ UNCHANGED <<record, sock, other, agentVars, nodes, todo, devFaults>>

uapiListen ==
    /\ DevStep("listen", "publish")
    /\ sock' = TRUE
    /\ UNCHANGED <<link, record, dev, osName, other, agentVars, nodes, todo, devFaults>>

(* published, which records nothing but on macOS; then the device is kept.   *)
(* It may have stopped in the meantime, and the interface be gone: the name  *)
(* is recorded all the same.                                                 *)
published ==
    /\ DevStep("publish", "configure")
    /\ record' = IF plat = "darwin" THEN osName ELSE record
    /\ dev' = IF dev = "making" THEN "running" ELSE dev
    /\ UNCHANGED <<link, sock, osName, other, agentVars, nodes, todo, devFaults>>

(* The way out of Create when a step of it fails: everything that has been   *)
(* opened is closed.  WriteFile may have emptied the record before.          *)
CreateFails ==
    /\ dev' = "none" /\ sock' = FALSE /\ link' = NoLink /\ osName' = "none"
    /\ IF plat = "darwin" /\ dpc = "publish" THEN record' \in {record, "none"} ELSE UNCHANGED record

-----------------------------------------------------------------------------
(* The rest of SetUpInterface.  Every call needs the interface to be there.  *)

OnLink(from, to, l) ==
    /\ DevStep(from, to) /\ Present
    /\ link' = l
    /\ UNCHANGED <<record, dev, sock, osName, other, agentVars, nodes, devFaults>>

Route(d, static) == [dst |-> d, static |-> static]
Dsts(rs) == {r.dst : r \in rs}

(* ConfigureDevice with the peers of nodesToPeerConfigs and ReplacePeers.    *)
ConfigureDevice ==
    /\ OnLink("configure", "addr", [link EXCEPT !.key = starts, !.peers = nodes])
    /\ UNCHANGED todo

(* The address is added, and the system makes a route of its own to it.      *)
SetAddr ==
    /\ OnLink("addr", "mtu", [link EXCEPT !.addrs = @ \cup {own}, !.routes = @ \cup {Route(own, FALSE)}])
    /\ UNCHANGED todo

SetMTU ==
    /\ OnLink("mtu", "up", [link EXCEPT !.set = @ \cup {"mtu"}])
    /\ UNCHANGED todo

(* Nothing to do on Windows, where the adapter is up.                        *)
Up ==
    /\ OnLink("up", "routes", IF plat = "windows" THEN link ELSE [link EXCEPT !.set = @ \cup {"up"}])
    /\ todo' = Wanted(nodes)

(* What RTM_ADD asks for: a static route.                                    *)
routeMessage(d) == Route(d, TRUE)

(* The stack's answer.  On Linux and macOS one table serves all interfaces:  *)
(* a destination that any of them has is refused with EEXIST, which AddRoute *)
(* takes for success.  Windows keeps the routes of each interface apart.     *)
sendRoute(rs, m) ==
    IF m.dst \in Dsts(rs) \/ (m.dst \in Elsewhere /\ plat # "windows") THEN rs ELSE rs \cup {m}

AddRoute(d) ==
    /\ OnLink("routes", "routes", [link EXCEPT !.routes = sendRoute(@, routeMessage(d))])
    /\ d \in todo /\ todo' = todo \ {d}

(* Routes of the three linkers: all the routes that netlink lists; the       *)
(* static ones; those that a program has added.                              *)
netlinkRoutes == Dsts(link.routes)
staticRoutes == {r.dst : r \in {s \in link.routes : s.static}}
managedRoutes == staticRoutes
Routes == CASE Netlink -> netlinkRoutes [] plat = "darwin" -> staticRoutes [] OTHER -> managedRoutes

BugremoveStaleRoutes ==
    /\ OnLink("routes", "stale", link)
    /\ todo = {} /\ todo' = Routes \cap Wanted(Node \ nodes)

removeStaleRoutes ==
    /\ OnLink("routes", "stale", link)
    /\ todo = {} /\ todo' = Routes \ (Wanted(nodes) \cup {own})

(* On Linux whatever the kernel lists for the destination is deleted, a      *)
(* route of its own making, too.                                             *)
DelRoute(d) ==
    /\ OnLink("stale", "stale", [link EXCEPT !.routes = {r \in @ : r.dst # d}])
    /\ d \in todo /\ todo' = todo \ {d}

SetUpReturns ==
    /\ DevStep("stale", "ok") /\ todo = {}
    /\ UNCHANGED <<linkVars, other, agentVars, nodes, todo, devFaults>>

-----------------------------------------------------------------------------
(* What goes wrong, and taking the interface down. *)

DevFault == devFaults < MaxDevFault /\ devFaults' = devFaults + 1

(* Create fails; published can fail on macOS only.                           *)
SetUpFails ==
    /\ alive /\ dpc' = "down" /\ DevFault
    /\ \/ dpc = "tun" /\ UNCHANGED linkVars
       \/ dpc = "listen" /\ CreateFails
       \/ dpc = "publish" /\ plat = "darwin" /\ CreateFails
    /\ UNCHANGED <<other, agentVars, nodes, todo>>

(* A later call fails, as it must when the interface has gone.               *)
StepFails ==
    /\ alive /\ dpc' = "down"
    /\ dpc \in {"configure", "addr", "mtu", "up", "routes", "stale"}
    /\ \/ DevFault
       \/ ~Present /\ UNCHANGED devFaults
    /\ todo' = {}
    /\ UNCHANGED <<linkVars, other, agentVars, nodes>>

(* The agent is told to stop, between two snapshots.                         *)
StopAgent ==
    /\ DevStep("idle", "stop")
    /\ UNCHANGED <<linkVars, other, agentVars, nodes, todo, devFaults>>

(* device.Delete: the kernel's interface if there is one; the agent's own    *)
(* device with its socket and its record, if it has one.                     *)
Delete ==
    IF Userspace /\ dev = "none" THEN UNCHANGED linkVars
    ELSE link' = NoLink /\ dev' = "none" /\ sock' = FALSE /\ osName' = "none" /\ record' = "none"

(* DownInterface, after a failed set-up and at the end.                      *)
DownInterface ==
    /\ DevStep("down", "downed") \/ DevStep("stop", "ended")
    /\ Delete
    /\ UNCHANGED <<other, agentVars, nodes, todo, devFaults>>

(* It fails: the kernel does not delete the interface, or the record cannot  *)
(* be deleted once the device has been stopped.                              *)
DownFails ==
    /\ DevStep("down", "idle") \/ DevStep("stop", "quit")
    /\ DevFault
    /\ \/ ~Userspace /\ Present /\ UNCHANGED linkVars
       \/ /\ plat = "darwin" /\ dev # "none"
          /\ link' = NoLink /\ dev' = "none" /\ sock' = FALSE /\ osName' = "none" /\ UNCHANGED record
    /\ UNCHANGED <<other, agentVars, nodes, todo>>

(* The agent goes on, having applied a snapshot or failed to.                *)
NextSnapshot ==
    /\ DevStep("ok", "idle") \/ DevStep("downed", "idle")
    /\ UNCHANGED <<linkVars, other, agentVars, nodes, todo, devFaults>>

(* The process ends, at any point: its device goes with it, a kernel         *)
(* interface and the record do not.                                          *)
AgentEnds ==
    /\ alive
    /\ \/ dpc \in {"ended", "quit"} /\ UNCHANGED devFaults
       \/ dpc \notin {"ended", "quit"} /\ DevFault
    /\ alive' = FALSE
    /\ link' = IF Userspace THEN NoLink ELSE link
    /\ dev' = "none" /\ sock' = FALSE /\ osName' = "none"
    /\ dpc' = "idle" /\ todo' = {}
    /\ UNCHANGED <<plat, record, other, starts, own, setUps, nodes>>

(* The device stops on its own, or somebody deletes the interface.           *)
LinkVanishes ==
    /\ Present /\ DevFault
    /\ link' = NoLink
    /\ dev' = IF dev = "none" THEN "none" ELSE "stopped"
    /\ UNCHANGED <<record, sock, osName, other, agentVars, dpc, nodes, todo>>

(* leave --force with no agent: wg.Remove.                                   *)
removeKernel ==
    /\ ~alive /\ ~Userspace /\ Present
    /\ link' = NoLink
    /\ UNCHANGED <<record, dev, sock, osName, other, agentVars, dpc, nodes, todo, devFaults>>

(* Another program makes or closes a utun interface.                         *)
OtherTun ==
    /\ plat = "darwin"
    /\ other' \in (Utun \cup {"none"}) \ {link.name}
    /\ UNCHANGED <<linkVars, agentVars, dpc, nodes, todo, devFaults>>

DeviceNext ==
    \/ platform \/ (\E ns \in SUBSET Node : SetUpInterface(ns))
    \/ createTUN \/ uapiListen \/ published \/ SetUpFails
    \/ ConfigureDevice \/ SetAddr \/ SetMTU \/ Up \/ removeStaleRoutes \/ SetUpReturns
    \/ (\E d \in Wanted(Node) \cup OwnAddr : AddRoute(d) \/ DelRoute(d))
    \/ StepFails \/ StopAgent \/ DownInterface \/ DownFails \/ NextSnapshot
    \/ AgentEnds \/ LinkVanishes \/ removeKernel \/ OtherTun

DeviceSpec == DeviceInit /\ [][DeviceNext]_deviceVars

-----------------------------------------------------------------------------
(* What the interface has routes to when its peers are ns.                   *)
Reach(ns) == IF plat = "windows" THEN Wanted(ns) ELSE Wanted(ns) \ Elsewhere

(* When SetUpInterface returns without an error and the interface is still   *)
(* there, it has the key of this start, which is the one gossiped, exactly   *)
(* the peers of the snapshot, and exactly the routes to them and to its own  *)
(* address: no peer and no route that an earlier snapshot, a failed attempt  *)
(* or an agent that died has left.  A destination that the host routes       *)
(* elsewhere stays there, but on Windows.  The address is the agent's alone  *)
(* only where the device is the agent's own: on the kernel's interface       *)
(* SetAddr adds it to those that agents which died have left there.          *)
SetUpIsExact ==
    dpc = "ok" /\ Present =>
        /\ link.key = starts /\ link.peers = nodes
        /\ Dsts(link.routes) = {own} \cup Reach(nodes)
        /\ link.set = {"mtu", "up"}
        /\ own \in link.addrs /\ (Userspace => link.addrs = {own})

(* Where the device runs in the agent no error path leaves half of one: when *)
(* none is being made, an interface has a running device and a control       *)
(* socket has a device that Delete will close (userspaceDevice.Create).      *)
NoHalfDevice ==
    Userspace /\ dpc \notin {"listen", "publish"} =>
        /\ Present => dev = "running"
        /\ sock => dev # "none"

(* Once DownInterface has succeeded nothing of the interface is left, also   *)
(* of a device that had stopped on its own or was never made (Delete: "A     *)
(* device that is not running is not an error").                             *)
DownLeavesNothing == dpc \in {"downed", "ended"} => ~Present /\ dev = "none" /\ ~sock

(* lookup: the interface whose addresses the status command lists.           *)
lookup ==
    IF plat = "darwin" THEN IF record \in {link.name, other} THEN record ELSE "none"
    ELSE link.name

(* While a device of the agent runs, status reports on that one, and never   *)
(* on an interface of another program whose name an old record still has.    *)
StatusFindsOwn == dev = "running" => lookup = link.name

-----------------------------------------------------------------------------
(* The inductive invariant behind these: what each step of SetUpInterface    *)
(* has made of the interface, if it is still there.                          *)

Raised == {"routes", "stale", "ok"}
Sized == {"up"} \cup Raised
Addressed == {"mtu"} \cup Sized
Configured == {"addr"} \cup Addressed

Dest == Wanted(Node) \cup OwnAddr

RouteType == [dst : Dest, static : BOOLEAN]
LinkType == [name : {"none", "wg"} \cup Utun, key : Nat, peers : SUBSET Node, addrs : SUBSET OwnAddr,
             routes : SUBSET RouteType, set : SUBSET {"mtu", "up"}]

DeviceTypeOK ==
    /\ plat \in Platform
    /\ link \in LinkType
    /\ dev \in {"none", "making", "running", "stopped"}
    /\ sock \in BOOLEAN /\ alive \in BOOLEAN
    /\ starts \in Nat /\ own \in OwnAddr
    /\ dpc \in {"idle", "tun", "listen", "publish", "configure", "down", "downed", "stop", "ended", "quit"}
              \cup Configured
    /\ nodes \subseteq Node
    /\ todo \subseteq Dest

(* The agent's own device, its interface and its socket come and go together.*)
DeviceLife ==
    /\ ~Userspace => dev = "none" /\ ~sock
    /\ Userspace => (Present <=> dev \in {"making", "running"})
    /\ dev = "making" => dpc \in {"listen", "publish"}
    /\ dpc = "tun" => Userspace /\ dev = "none" /\ ~sock
    /\ dpc \in {"listen", "publish"} => Userspace /\ dev \in {"making", "stopped"}
    /\ sock => dev # "none"
    /\ ~alive => dev = "none" /\ dpc = "idle"
    /\ dev = "making" => osName = link.name
    /\ plat = "darwin" /\ dev = "running" => record = link.name
    /\ DownLeavesNothing

LinkIsOurs ==
    /\ Userspace => link.addrs \subseteq {own}
    /\ plat = "windows" => "up" \in link.set
    /\ plat # "windows" => Dsts(link.routes) \cap Elsewhere = {}
    /\ ~Netlink => \A r \in link.routes : ~r.static => r.dst = own

SetUpSoFar ==
    /\ dpc \in Configured => link.key = starts /\ link.peers = nodes
    /\ dpc \in Addressed => own \in link.addrs /\ own \in Dsts(link.routes)
    /\ dpc \in Sized => "mtu" \in link.set
    /\ dpc \in Raised => "up" \in link.set
    /\ dpc = "routes" => todo \subseteq Wanted(nodes) /\ Reach(nodes) \ todo \subseteq Dsts(link.routes)
    /\ dpc \in {"stale", "ok"} =>
          /\ Reach(nodes) \subseteq Dsts(link.routes)
          /\ Dsts(link.routes) \subseteq Wanted(nodes) \cup {own} \cup todo
          /\ todo \cap (Wanted(nodes) \cup {own}) = {}
    /\ dpc = "ok" => todo = {}

DeviceInv == DeviceTypeOK /\ DeviceLife /\ (Present => LinkIsOurs /\ SetUpSoFar)
=============================================================================
