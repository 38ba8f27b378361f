# cheesecloth: a verification development

cheesecloth joins machines into a WireGuard mesh. Nodes prove membership with
signed records that spread by gossip; nobody is in charge after the first node
(the root) has made the cluster. This directory models the parts of the program
that decide who is a member, spread that knowledge, let nodes in, connect them
and apply the membership to the machine. The modules are translated from
`src/internal`; TLC checks them on small instances and TLAPS proves the most
important properties for every instance.

## 1. Inventory

| Part | State | Operations | Talks to |
|---|---|---|---|
| Trust set (`trust/set.go`, `records.go`) | one admission and one revocation per identity, pinned root | AddAdmission, AddRevocation, Merge, Valid, NameTaken, FreeHost, HostConflict | everything below reads it |
| Verdict cache (`trust/set.go`) | RWMutex, an atomically replaced map of members | Valid, forget | all goroutines that ask Valid |
| Record gossip (`cluster/cluster.go`) | set, broadcast queue, stateMu, state file | admit, Revoke, RevokeSelf, NotifyMsg, GetBroadcasts, LocalState, MergeRemoteState, New, Leave | memberlist (external) |
| Enrolment (`enrol/*`, `cluster/enrol.go`) | token store, exchange per connection | Mint, gc, lookup, consume, Server.Handle, Join | Cluster.admit, transport (enrolment slots) |
| QUIC transport (`cluster/transport.go`) | connection per peer, dials in flight, backlog | connect, dial, adopt, register, forget, Shutdown | quic-go (external), memberlist |
| Membership pipeline (`cluster/cluster.go`, `cli/agent_loop.go`, `wg/wireguard.go`) | events channel, change signal, subscriber channel, boot.Peers, interface, hosts block | forwardEvents, signalChanged, watch, snapshot, Members, apply, SetUpInterface, DownInterface, Leave | memberlist events, kernel |
| Agent (`cli/agent.go`, `control.go`, `leave.go`, `control/control.go`) | position of Run, `leaving`, control server, requests, state file | Run, loop, forget, Listen, Close, Invite, Revoke, Leave, leave --force | operator, service manager |
| Interface (`wg/*`) | kernel or userspace device, control socket, address, routes, macOS name record | New, Create, Delete, SetUpInterface, DownInterface, Remove, lookup | kernel, agent loop, leave --force, status |
| Hosts file (`etchosts/etchosts.go`) | the managed block of each interface | WriteEntries | other agents on the machine |
| State file (`cluster/state.go`, `replace_*.go`) | one file and a temporary one | save, loadState, Forget | status, leave --force |
| Config file (`cli/config.go`, `configcmd.go`) | a section per interface | selectSection, Resolve, dump, write | operator, other commands |
| Windows service (`cli/execute_windows.go`, `notify/scm_windows.go`) | status reported, agent's context | Execute, Ready, Stopping | Service Control Manager |
| Overlay arithmetic (`overlay/overlay.go`) | none | MaxHost, Addr | admit, assignedAddr |
| Encodings, identity keys, command line, status output | none | | |

What is hard here: records arrive in any order and are judged recursively, each
at the time another was signed; two members act on different knowledge;
Valid fills its cache without a lock; several exchanges use one token and one
free slot; both ends dial at once; Leave is called by the reader of the very
channel that the routine it waits for sends on; a leave, a signal and other
requests stop the agent at the same time; files and kernel calls fail half-way;
files are read and replaced by several processes; an interface may outlive its
agent; the power may fail before a rename is on the disk; processes crash between
any two of these. `hazards` in `PROJECT.json` lists each at its line, with the properties aimed at it.

## 2. Modules

`Trust` holds the records and the operators on them; it has no variables and is
extended by three state machines (`TrustHistory`, `Gossip`, `Enrol`). The other
machines stand alone: what they need of the trust set is a parameter.

**Trust** (`trust/*`, `assignedAddr`). A set is a record of two partial
functions. Identities are numbers, so that `<` is `bytes.Compare`; a signature is
a `signer` field that Validate compares; times are whole seconds, as in the
records. `validAt` keeps the recursion of the code, with its set of questions
under way, as a recursive function on records of its three arguments (`Ask`). A definition called `BugX` is a wrong
version of `X` that a run must notice; the specifications never use it.

**Membership** is the abstract specification of the trust set: a set of members
and a set of identities that may never be members again. **TrustHistory** makes
records the way `admit`, `Revoke` and `RevokeSelf` do, gives them to one set at
once and to a second set in any order. Any node may sign, as in the code; the others take
nothing from one they no longer trust (`Spread`, after `quicTransport.serve`), and since they
hear of a revocation at once, what a revoked node signs gets nowhere. Nodes that act in
ignorance of their revocation are in Gossip. It is shown to implement `Membership`
under the mapping `members <- Members(set)`, `revoked <- DOMAIN set.rev`. The
abstraction is not in the code: the code only stores records and judges them
whenever it is asked.

**SetCache** (`Set.Valid`, `forget`) takes one step per memory access: load the
map, look up, RLock, judge, RUnlock, store. `records` is just the set of
identities that are members. Two history variables say what was true when.

**Gossip** (`cluster/cluster.go`) has one set and one broadcast queue per node.
A broadcast reaches any subset of nodes and is then dropped; push/pull carries a
whole set one way; both need the transport's consent (`Reaches`: the receiver
judges the sender a member, from the receiver's own records). Enrolment is one
step here, carried through or lost, and `Enrol` opens it up. A stopped node keeps
its records; `Start` applies the checks of `New`. There is one clock, and every
record has a second of its own: that is the model's doing, not the code's, and everything
that rests on SecondsDiffer is said of such records only (see 6 and 7).

**Enrol** (`enrol/*`, `cluster/enrol.go`, `Cluster.admit`) has the joiner and the
member's handler of several connections, one message under way on each. A
handler's program counter goes through hello, challenge, proof, consume,
`welcomeFits`, lock, name, slot, sign, save, unlock, welcome, ack. Meanwhile tokens are minted
and expire, a revocation arrives, the state file is saved, the save fails, and
the member crashes. MACs and nonces are left out: a joiner knows its token or it
does not. A frame's size is its number of records.

**Agent** (`cli/agent.go` and around it): `Run` from Load through its deferred
calls, requests on the control socket with their handlers, signals, failing
clean-up steps, a crash, restarts, and `leave --force`. The state file is
abstracted to what the next start makes of it.

**Transport** (`cluster/transport.go`): two members, callers on each that look
up, join or start a dial, dial, adopt, finish; accept; the tie-break (`keepNew`,
`preferredDialer`, `register`); forget; the steps of Shutdown; crash and restart.
A connection is the set of ends at which it is open. Connection slots are used
again when nothing refers to them, which bounds the state but not the history.

**Mesh** (`cluster/cluster.go`, `cli/agent_loop.go`, `wg/wireguard.go`): events
channel, `forwardEvents`, the one-slot change signal, `watch`, the one-slot
Members channel, `apply`, the interface with its peers, allowed networks and
routes, the hosts block, `boot.Peers` in memory and on disk, and `Leave` step by
step. Writes and kernel calls may fail where the code handles it.

Six further modules are about what the agent does to its host. They share no
state, with each other or with the modules above, and run together as `MCHost`,
where the variable `part` picks the one that moves.

**EtcHosts** (`etchosts/etchosts.go`): several agents in `WriteEntries` on one
file. A name leads to an inode and an open file stays with its inode, so a
rename under an agent that has opened the old file does what it does on a real
system. `renames` says whether rename works here as a rule; where it does not, and when it
fails once, the file is truncated, copied and synced in steps. What is not synced may be lost with the power,
and the last rename with it. A line is an owner, an address and names; the
order in which a Go map is walked is any order.

**StateFile** (`state.save`, `loadState`, `Forget`, `replace_*.go`) has one saver
(`stateMu`), readers, and `leave --force`. On Windows an open file cannot be
replaced or deleted, and `retryBusy` gives up after `BusyTries`. **AtomicFile** is
what it is shown to implement: a register
that holds a whole version, is replaced by newer ones only, and may fall back
by one change when the power fails. The mapping decodes the inode the name leads to.
Enrol, Agent and Gossip save in one step and crash as a process does, which leaves the file as it was:
they use the register without `Lose`. With it `IdentityKept` and `WelcomeIsDurable` would not hold,
because the rename at `cluster/state.go:62` is not followed by a sync of the directory (see 7).

**Device** (`wg/*`): the kernel's interface or the agent's own device, each call of
`SetUpInterface`, failures of each, `DownInterface`, an agent that dies and
another, perhaps with another address, that takes over what is left, an interface that vanishes, and on macOS
the record that leads from the agent's name to a utun interface, whose number
another program may get next. `plat` chooses the stack; the three linkers differ in
which routes they list, in whether a destination routed elsewhere is refused, and in
what `Up` does, and are otherwise one set of actions, mapped to one platform's lines each.

**Config** (`cli/config.go`, `configcmd.go`): sections, `selectSection`, `Resolve`,
`render`, `dump`, and several `config --init` commands that read, check and append.
A file with two sections of one name does not parse, as with the YAML decoder.

**WindowsService** (`cli/execute_windows.go`, `notify/scm_windows.go`): the service's
handler, the agent's reports and the manager's requests. `svc.Run` is external and
always ready to receive, so a send is one step; a request carries the status of the moment at
which `svc.Run` took it (`current`).

**Overlay** (`overlay/overlay.go`): MaxHost and Addr with the word's width as a
parameter and every shift and subtraction taken modulo it. `Or` is Go's `|`: the word
with those bits. It has only initial states, one for each network.

`MCx` gives constants of module `x` their values; `xProofs` has the proofs about `x`.
**MembershipProofs** has those about TrustHistory and SetCache, **HostProofs** those about
EtcHosts, Config, WindowsService, StateFile, Device and Overlay, and **TrustProofs** those on the
operators of Trust.

## 3. Runs

| Run | Checks | Shows |
|---|---|---|
| history | ArrivalOrderIrrelevant, NoSharedSlot, JudgedAsPromised | every history of three identities over five seconds is judged as `Membership` promises, and a node that hears the records in another order agrees |
| setcache | AnswersLinearizable, CacheInv | the cache never calls a non-member a member, and every answer was right during the call |
| gossip | GossipInv, RecordsConverge, RecordsOnlyGrow | nothing is unlearnt, and push/pull repairs every loss between nodes that trust each other |
| gossip_slots | SlotsExclusive | two members that hand out one slot unknown to each other never make two nodes entitled to it |
| gossip_verdicts | VerdictsAgree (violated) | see 6 |
| enrol | TokenUsesBound, AdmissionsDistinct | three exchanges at once, one token of two uses, room for two handlers |
| enrol_crash | WelcomeIsDurable, EnrolInv, HandlersEnd | crash or failing save anywhere, joiners that fall silent |
| agent | HandlersAnswer, IdentityKept, LeaveAnsweredLast, AgentStops | an invite, a revoke and a leave, refused, done or forced, with signals, failing steps, a crash and a second start |
| agent_leave | LeaveIsComplete (violated) | see 6 |
| transport | DialInv, SidesAgree, Settle | two callers on one side, one on the other, and any one fault; the two sides come to rest on one connection |
| mesh | MeshInv, NothingMissed, ClosedUnused, LeavesNothing, Converges, LeaveReturns | two changes anywhere in the pipeline and one failing step |
| host, hosts file | ForeignKept, WriteIsExact, NoStrayTemp | nobody's lines survive crashes and power losses as long as no rename fails, and copies that are neither cut off nor overlapped; an undisturbed write is exact, whatever earlier ones left |
| host, state file | StateInv, ImplementsRegister, SaveEnds | readers and restarts see a whole version; a save ends although a reader keeps the file |
| host, interface | DeviceInv, SetUpIsExact | after a successful set-up key, peers and routes are those of the snapshot and nothing else, on every platform; so is the address, but for those that dead agents left on the kernel's interface; no error path leaves half a device |
| host, config file | InitIsRoundTrip, DumpIsFaithful | what is written or printed makes an agent run as it would have |
| host, service | StoppedIsLast, StopIsObeyed | the manager hears of the end last and a stop gets through |
| host, overlay | SlotsHaveAddresses | slots 1 to MaxHost, and no others, have distinct addresses inside the network |

CacheInv, GossipInv, EnrolInv, MeshInv, StateInv, DeviceInv and DialInv contain the type
invariants of their modules. Weaker properties that follow from them are proved
and not listed again: CacheSound, and NoHalfDevice, DownLeavesNothing and
StatusFindsOwn of Device.

Each property of a passing run has a mutant in `PROJECT.json`: a plausible bug
in one definition that makes the property fail under the same configuration.

**Bounds.** Three identities are the fewest with a member that is neither root
nor joiner; four are needed for
two joiners of one slot (gossip_slots). Five seconds in `history` allow two admissions,
a revocation of the root or of another, and two more acts; `MaxHost = 2` there makes slots be
used again. Two members that revoke each other occur in `gossip` and `gossip_verdicts`, where
each may act before it has heard of the other; five seconds in the latter are the fewest for an
identity with an effective and an ineffective revocation. In `enrol` node 1 tries twice under two names and node 3 takes the
first of them; `MaxFrame = 3` is met once a revocation has arrived beside an
admission, so that handlers are refused and, raced, find their welcome too
large. `enrol_crash` has two connections and stops the clock to keep liveness
checkable; `enrol` has the third. `transport` needs two callers for a dial that is waited
for, and two slots so that an old and a new connection coexist; with one caller on each
side it also passes with `MaxFault = 2` (160,000 states).
In `host` the hosts file starts with a doubled line of one agent, a line of the other and two of
nobody, and two calls with one fault, which may be a rename that fails this once, overlap or follow each other; three saves with two
faults and two readers let a reader span two replacements; two starts, three
snapshots and two faults let an agent take over what another, killed in its second
snapshot, has left, whose address may be a peer's by then (`OwnAddr` and `Node` overlap); two `config --init` commands start from files with none, one and two
sections. The service gets three requests, so that one is answered late and a stop follows. `Overlay` has
words of 4 bits, 3-bit IPv4 and 8-bit IPv6 addresses, in which all the boundaries
occur (0, 1, one less than the word, the word, more); base addresses of IPv6 (`Base6`) are
those with all, no, and only upper bits set, of IPv4 all.
`mesh` needs a second change while the first is under way; a channel of one
event (the code's has more) makes it full sooner, which blocks memberlist as it would
there. `SetCache` has two readers and two changes, and a proof for the rest.
Symmetry is used in setcache only: elsewhere identities are ordered.

Deadlock checking is off except in setcache: agents and commands stop, bounds run out, and an idle
cluster does nothing.

## 4. Fairness

- Gossip: weak fairness of each push/pull. memberlist runs one with a random
  peer at every interval, so a pair that stays able to talk gets its turn.
  Broadcasts are given no fairness; they may all be lost.
- Enrol: weak fairness of each handler (a goroutine; its waits for the joiner end by
  `enrolWait` or `exchangeTime`), strong fairness of taking stateMu (Go's mutex
  hands over to a waiter after 1 ms). None for the joiner.
- Agent: weak fairness of Run and of each handler; the loop's `select` picks among
  ready cases at random, so a cancelled context is seen. None for operators.
- Transport: weak fairness of callers (memberlist keeps probing), of accept,
  forget, the steps of Shutdown with the restart (`dist/cheesecloth.service` and
  the launchd plist restart an agent), and of a close reaching the other end.
  Settle is conditional: callers that go on dialling on an outdated answer of
  `lookup` are excluded, because two of them can keep replacing each other's connection for ever.
- Mesh: weak fairness of the goroutines, and of an admitted node announcing itself.
- StateFile: weak fairness of the goroutine that saves. None for readers: one may
  keep the file open for ever.
- WindowsService: weak fairness of the handler, and of an agent whose context is
  done (Agent's AgentStops is about that). None for the manager.

## 5. Proofs

Assumptions on the constants are those of the modules (`TrustAssumption`,
`HistoryAssumption`, `GossipAssumption`, `EnrolAssumption`, `CacheAssumption`,
`AgentAssumption`, `TransportAssumption`, `MeshAssumption`, `HostsAssumption`,
`ConfigAssumption`, `StateAssumption`, `DeviceAssumption`, `OverlayAssumption`). They type the constants
(identities are naturals so that claims can be compared, connections are finite so
that uses can be counted); `OverlayAssumption` also has that a word is longer than an
IPv4 address, and `DeviceAssumption` also has that no other interface of the host
routes an address of the agent; a peer may have one, now or later. Some theorems need a
hypothesis besides, named below; each is met by the constants of its run, and what
TLC finds without it is in section 6 or beside the theorem.

Every inductive invariant was checked by TLC before it was proved, where no run
lists it on the constants of its run: RecordsInv (122,472 states), AgentInv (232,167),
TransportInv (260,162), DistinctInv (866,372 of enrol, 56,858 of enrol_crash),
HostsInv and ServiceInv (300,113), ConfigInv (8,728).

- **TrustProofs** has the lemmas on the operators of `Trust`. The main one is
  `ValidAtUnfolds`: the recursive function `validAt`, with its set of
  questions under way, exists and satisfies its equation for every question over
  the integers. A question asks only questions of a smaller Rank (those of the root,
  those at no time of a record, and how many questions are not yet under way), so by
  induction on Rank there is one judgement of each (`JudgementExists`).
  By the same induction (`RankInduction`) three theorems hold of every set of records, in whatever
  order and by whomever they were signed. `OutsidersStayOut`: a group
  without the root that nobody outside it admitted has no member, however its identities admit each other.
  `OutsidersChangeNothing`: everybody else is judged as if the records of the group and the
  revocations it signed were not there. `LateSignaturesVoid`: what a node signs after it left, or after
  the root revoked it, counts for nothing. TLC agreed on all 117,649 sets of three identities and two
  seconds before they were proved.
- **MembershipProofs**, on TrustHistory. `RecordsInvariant`, hence
  `JudgedAsPromisedTheorem` (the refinement of `Membership`), `ArrivalOrderTheorem` and
  `NoSharedSlotTheorem`. The code judges each record at the time another was
  signed, so nothing about members is inductive by itself. RecordsInv
  says of the records that have spread that each was signed by somebody admitted before and not revoked by
  then (Dated, Rooted), that whoever is revoked signs no more (RevokedSignNoMore),
  and that what the late node lacks is on its way (LateBehind). Both sets are then Grounded, and in a
  Grounded set the recursion comes out as "admitted and not revoked"
  (`StoodIsValid`, by induction on the time of admission; `GroundedMembers`), which is what
  `Membership` promises.
  Hypotheses: `~SameSecond` and `~Reenrols`; section 6 has what happens without.
- **MembershipProofs**, on SetCache. `CacheInvariant`, hence `CacheIsSound` and
  `AnswersAreLinearizable`. CacheSound is not inductive: a reader that judged
  before a change may store after it. What saves the code is the order of two loads,
  and the invariant says so: a reader about to store "yes" in the map in use judged the present
  records (PendingStoresSound); maps to come are empty and loaded by nobody
  (FutureMapsEmpty); readers exclude the writer. For linearizability it also
  relates every cached or pending "yes" to what the reader has seen since its call (SeenAnswers).
- **EnrolProofs.** `EnrolInvariant`, hence `EnrolTypeCorrect`,
  `TokensAreBounded` and `WelcomesAreDurable`. TokenInv: uses left plus uses
  spent never exceed those minted. MutexInv: exactly the handler that holds
  stateMu is inside admit. DurableInv: from the save on, through every
  message, the joiner is on disk or its save failed.
  `AdmissionsDistinctTheorem` rests on DistinctInv besides: what CheckName and ChooseHost
  found stays true until the admission is stored (ChecksHold), although revocations arrive without
  stateMu, and the file is as free of clashes as memory, since a crash goes back to it.
  Hypothesis: `RevokedForGood`, every revocation is the root's or of the one who
  signed it. Otherwise it is false: with the root, nodes 1, 3 and 4, three slots and
  `Incoming = {Revoke(3, 1, 1), Revoke(Root, 3, 1)}`, node 3 revokes 1, node 4 gets the slot
  of 1, and the root's revocation of 3 turns out to be no later than what 3 signed, so that 1 is
  a member again; the code leaves such a clash to HostConflict, which
  `SlotsAreExclusive` is about. Enrol has no admissions from other members, so the
  theorem says something of the root's admissions only.
- **GossipProofs.** `GossipInvariant` (types; every record, kept or queued, is acceptable, filed
  under its own identity, and has a second of its own), hence `RecordsNeverShrink` and `SlotsAreExclusive`:
  because records sit under their own identities StrongerClaim is a strict total
  order on two different claims, so of two holders of a slot one is refused.
  `PushPullAgreesTheorem` is the part of RecordsConverge that needs no fairness: at any moment, any two
  nodes that push and pull come out with the same admissions and revocations of the same
  identities, and whose set arrives first does not matter. It rests on two laws of Merge
  (`MergeMeets`, `MergeOrder`), which hold of sets without two admissions of one identity and one
  second; SecondsDiffer of the invariant provides that, and it holds because the model's clock
  moves with every record, which the code's does not: of admissions of one identity in one second
  these theorems say nothing (section 6 has what happens). `VerdictsAgreeTheorem` bounds the
  disagreement of section 6: while no two nodes keep different revocations of one identity, push/pull makes sets equal
  and nodes that hold records of the same identities have the same members. `OutForGoodTheorem`: a revocation by the node itself,
  or by the root while it was a member, is final on every node that has it, whatever arrives later
  (`FinalIsOut` of TrustProofs). A root that turns out to have been revoked before is excepted:
  without that TLC finds a violation (as gossip_verdicts).
- **AgentProofs.** `AgentInvariant`, hence `HandlersAnswerTheorem`,
  `IdentityKeptTheorem` and `LeaveAnsweredLastTheorem`. No server outlives its
  Run (ServerInv), so no handler meets the fresh channels of the next start; a handled leave
  has stored its revocation or was forced without (RevokedInv); `leaving.done` is closed after the cluster was left (DoneInv);
  and from Load to the admission the seed is in the file (SeedInv).
- **TransportProofs.** `TransportInvariant`, hence `DialInvTheorem` and
  `SidesAgreeTheorem`. An open end is the registered connection, the one a
  dial is about to register, or one that accept has yet to take (EndsKnown); a dialled
  one belongs to a caller that adopts it (DialledOwned). So when nothing is under way
  only registered ends are open, and both sides have the same.
- **MeshProofs.** `MeshInvariant`, hence `NothingIsMissed`, `ClosedIsUnused` and
  `EndLeavesNothing`. NothingMissed is about quiet states only; the invariant says for
  every state that unless a signal, an event or a debt of one is under way (Settled), what
  watch has listed, verified, stored and delivered is current as far as it has got
  (SnapshotInv). AppliedInv has what the last good attempt on the interface,
  the hosts file and the disk left, StopInv in which order Leave ends the routines. `TypeOK` has that
  every network is routed to a peer of the interface or to nobody.
- **HostProofs**, hosts file. `WriteEntriesExact` is about the algorithm alone: from any
  file and any entries, in whatever order the maps are walked, `writeEntries` keeps all
  lines of others in their order and writes each of its own exactly once. It is an
  induction on the lines of the file, then on the entries left.
  `HostsInvariant` carries it through the steps of any number of agents, hence
  `ForeignKeptTheorem`, `WriteIsExactTheorem` and `NoStrayTempTheorem`. The
  invariant needs that every inode a rename can bring back is whole on the disk
  (RenameKeeps), the same of all but the file that is being copied over, whose lines are in the
  temporary one (CopyKeeps), and that calls that overlap are known to (OverlapNoted).
- **HostProofs**, config file. `ConfigInvariant`: what a `config --init` is about to append makes an agent
  run as its command line would (RenderedRight), every section reads back as it was meant
  (FileSound), and as long as no two commands add one interface the file parses and has
  each section once (AppendedOnce). Hence
  `InitIsRoundTripTheorem` and `DumpIsFaithfulTheorem`.
  Hypotheses: `AllExpressible`, no setting is a zero value that is not the default
  (`configcmd.go` leaves such values out; section 6), and for the first also `AllParse`,
  the file could be read to begin with, without which the property fails at once.
- **HostProofs**, service. `StoppedIsLastTheorem`, from where the two
  goroutines can be when the manager has been told what (ServiceInv).
- **HostProofs**, state file. `StateInvariant`, hence `ReadsSeeOneVersion` and the refinement
  `StateFileIsRegister`. That readers see whole versions is not inductive: what
  is needed is that the inode in place *and the one before it* are whole and
  flushed, because a power loss may bring the former back, and that a version
  being written has never been in place, so the temporary file is nobody's.
- **HostProofs**, interface. `DeviceInvariant`, hence `SetUpExact`, `NoHalfDevices`,
  `DownIsComplete` and `StatusIsRight`. The invariant says for each step of
  SetUpInterface what it has made of the interface so far (SetUpSoFar),
  but only while there is one, since it may vanish at any point; that
  device, socket and interface come and go together (DeviceLife); and that
  routes the listing of a platform does not show lead to the own address (LinkIsOurs),
  without which a stale route could hide from removeStaleRoutes. SetUpExact says of the address
  that it is there, and that it is the only one where the device is the agent's own.
- **HostProofs**, overlay addresses. `SlotsHaveAddressesTheorem`, for words of any size, so also the
  code's 64 bits, and every network. `1<<bits - 1` does not wrap away because
  MaxHost treats the full word apart (`MaxHostFits`); and `Addr` may or where it means to
  add (`OrIsSum`), since the host bits of a masked address are 0: below them the
  or has the bits of the slot (`LowBits`), from them on those of the network (`HighBits`), and words
  with the same bits are the same (`SameBits`, by induction on the width). For IPv6 only the lower word is
  or'ed, so `AddrIsSum` also shows that no slot carries into the upper one. That the recursive
  function `pow2` exists is `Pow2Unfolds`.

The library's induction theorems take a predicate as a parameter and cannot be used. Where a
proof goes by induction it uses `NatInSet` of TrustProofs (or `UpTo` of HostProofs): a set
that has 0 and with each number the next has them all. The predicate is then membership in a set,
which the provers can instantiate. That a set of numbers has a least one (`MinNat`) comes
from the well-foundedness of `<`.

Only model-checked:

- what must happen in the end (RecordsConverge, HandlersEnd, AgentStops, Settle,
  Converges, LeaveReturns, SaveEnds, StopIsObeyed), because the prover has neither fairness nor ENABLED.

## 6. Disagreements between code and documentation

Two are kept as runs.

- **gossip_verdicts.** `AddRevocation` keeps the revocation that came first
  (`trust/set.go:78`), also when it is ineffective because its signer was no
  member at the time, and merging does not exchange it. So of two nodes that trust each other
  one may keep an ineffective revocation of an identity and the other an effective one, and they
  disagree for ever on whether it is a member: in the trace the root revokes node 1, which
  revokes node 3 before it hears of that; the root admits 3 afterwards, hears of the ineffective
  revocation, and then revokes 3 to no effect of its own, while 3 stores that second revocation
  and knows itself to be out. `docs/design.md:203`
  says the sets merge "without a winner having to be chosen", `docs/design.md:80` that verdicts agree.
  By `VerdictsAgreeTheorem` this takes an identity that was revoked twice.
- **agent_leave.** A leave that arrives while Join is being retried ends Run
  without the loop (`cli/agent.go:166`), so the interface stays, and the leave is
  answered ok; `docs/design.md:185` says it is answered only once the interface is down.

The following were seen with TLC while the models were written. Each formula,
added to its module and checked with the constants given, is violated.

| Module, formula | Constants | What happens |
|---|---|---|
| TrustHistory, JudgedAsPromised | `SameSecond = TRUE` | an admitter revoked in the second in which it admitted takes the new node out with it (`trust/set.go:193`; `docs/membership.md:59` says such admissions stay valid) |
| TrustHistory, ArrivalOrderIrrelevant | `SameSecond = TRUE`, `MaxTime = 3` | of records of one identity with the same second each node keeps the one it heard of first, and equal times leave open which act came first (`trust/set.go:62`, `78`, `193`; `docs/design.md:80`) |
| TrustHistory, JudgedAsPromised | `Reenrols = TRUE`, `MaxHost = 3` | a newer admission by somebody else replaces the one a member's standing rested on (`trust/set.go:62`), and falls with its signer |
| Gossip, `[][\A n, x \in Identity : revoke(n, x) /\ Trusts(n, n) => ~Trusts(n, x)']_vars` | as gossip_verdicts | a second revocation is not stored, so Revoke reports success without effect (`cluster/cluster.go:173`) |
| Gossip, `\A n, m \in Up : SameRecords(n, m) => Members(set[n]) = Members(set[m])` | as gossip_verdicts, `MaxTime = 4` | X is revoked, admits Y before it hears of that, and Y revokes X once more: whichever of the two effective revocations a node keeps X is out, but by the earlier one Y never was a member (`trust/set.go:78`) |
| Enrol, `\A c \in Conn : srv[c] = "write" => Size(records[c]) <= MaxFrame` | as enrol, `Conn = {"c2", "c3"}`, `MaxHost = 3`, `MaxFrame = 2` | two handlers find room before either admits; the second signs an admission it cannot deliver (`enrol/server.go:146`, against the comment at 74) |
| Enrol, `\A c \in Conn : cli[c] = "enrolled" => Joiner[c] \in DOMAIN set.adm` | as enrol_crash | a save that fails is only logged; after a restart the member does not know the node it welcomed (`cluster/cluster.go:249`: "the state only speeds up the next start") |
| Agent, `[][\A r \in Req : Tells(r, {"ok"}) => file = "none"]_vars` | as agent_leave | a leave that arrives when a signal has ended the loop is answered ok with the state kept (`cli/agent.go:181`) |
| Agent, `[][requested /\ file = "none" /\ main \in {"done", "close", "wait"} => file' = "none"]_vars` | `Req = {"leave", "revoke"}` | a revoke handler under way saves the state that forget has deleted (`cluster/cluster.go:177`) |
| Agent, `[][\A r \in Req : Tells(r, {"error"}) => cluster = "running"]_vars` | `Faults = {"forget"}` | a leave whose last step fails is reported with "the agent stays where it is" (`cli/leave.go:33`) although the node has left |
| Transport, `\A n \in Node, k \in Caller : pc[n][k] = "adopt" => ~(Live(n, table[n]) /\ client(table[n]) = n)` | as transport | the answer of lookup is used after the lock was dropped, so a node dials twice in a row (`cluster/transport.go:459`, against the comment at 452); SidesAgree holds all the same |
| Transport, `[][\A n \in Node : life[n] = "done" /\ life'[n] = "down" /\ faults' = faults => \A c \in Conn : n \notin open[c]]_vars` | as transport, one caller | a connection registered after Shutdown has listed them is destroyed without telling the peer (`cluster/transport.go:622`, against 615), which finds out by its idle timeout |
| EtcHosts, WriteIsExact without `a \notin mixed` | as host | two agents whose calls overlap: the later rename brings back the block that the other has just replaced, until that agent writes again (`cli/hosts.go:9`: they "only ever touch their own entries") |
| EtcHosts, ForeignKept without `~harmed` | as host | a copy that is cut off leaves the file empty or in part (`etchosts/etchosts.go:162`, against 46: "Lines without the banner are kept as they are") |
| Device, `dpc = "ok" /\ Present => link.addrs = {own}` | as host | an agent with a new address takes over an interface of one that died: AddrReplace adds to what is there (`wg/link_linux.go:81`) |
| Device, `dpc = "ok" /\ Present => (link.addrs \ {own}) \cap nodes = {}` | as host | the same, when the former address has been given to a peer by then: the host takes itself for that peer |
| Config, InitIsRoundTrip and DumpIsFaithful | a member `"port" :> "0"` of `MCGiven` | a value that is its type's zero but not the default is left out of what is written and printed (`cli/configcmd.go:39`, against 67: "as the agent would settle them") |
| Config, `Parses(cfgFile)` | as host | two `config --init` of one interface both find it free; no command can read the file afterwards (`cli/configcmd.go:226`) |
| WindowsService, `running = "running" => reported = "running"` | as host | the handler repeats the status of the moment at which `svc.Run` took the request (`cli/execute_windows.go:79`), over one the agent has reported since; a running service then stands as starting and accepts no stop (against 19: "stops when the manager says so") |

## 7. Limits and plan

Not modelled, and why:

- Cryptography and TLS: a record has a signer, a connection an identity. Encodings (`overlay/node.go`,
  `wire`) are functions without state.
- A power loss that takes back the last rename of the state file, in Enrol, Agent and Gossip. StateFile has it, and
  says what the file is afterwards: the version before. A node may then not know a joiner it welcomed, or make a
  new identity although a cluster has admitted the first (`cluster/state.go:62`).
- Clocks that differ between nodes. `docs/operations.md:280`, `docs/design.md:227` and
  `docs/membership.md:221` require them to be synchronised. Giving each record of TrustHistory
  any time not yet used makes ArrivalOrderIrrelevant, NoSharedSlot and JudgedAsPromised fail, so nothing is left to check without that assumption.
- Events that memberlist sends before `forwardEvents` runs (`cluster/cluster.go:144`): whether the agent can block
  depends on memberlist's own locks, which are not in the repository.
- The choice of an address to advertise (`cli/bind.go`), checks that only refuse a setting (`Validate`, `check`),
  status output, service installation, systemd notification and paths: no state that a later step depends on.
- The layout of ioctls and routing messages in `link_darwin.go`, and a torn append to the config file,
  which would need the syntax of YAML.
- memberlist's failure detector, quic-go, `svc.Run`, the file systems and network stacks: external, and
  present only as what they may do to this code. In particular a rename is taken to be atomic and, after a
  power loss, done or not; on Windows the short refusal a reader meets during a rename, which `readFile` waits out, is left out.

What the models leave for later: failing saves in Gossip, which make a restart forget; Enrol as the
refinement of Gossip's one-step admit; two processes on one state file.

A theorem left for later: AdmissionsDistinct with admissions that arrive from other members, which
needs a weaker property than distinct slots.
