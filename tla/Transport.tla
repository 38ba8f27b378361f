----------------------------- MODULE Transport -----------------------------
(* The QUIC transport between two members: who dials, which connection both  *)
(* keep when they dial each other at once, and how one side goes away.       *)
(*                                                                           *)
(* A connection is open or not at each of its two ends.  The far end learns  *)
(* of a close from the wire or, when nothing was sent, from its idle         *)
(* timeout.  Both members trust each other here: Gossip has the rest.        *)
EXTENDS Integers, Sequences

CONSTANTS
    Node,       \* the two identities, as numbers: < is bytes.Compare
    Caller,     \* for each node its goroutines that want to send
    Slot,       \* connections of each node's own, used again when nothing refers to them
    MaxFault    \* bound on failed dials, lost connections, crashes, shutdowns

ASSUME TransportAssumption ==
    /\ Node \subseteq Int
    /\ \E a, b \in Node : a # b /\ Node = {a, b}
    /\ \A n \in Node : "none" \notin Caller[n]
    /\ Slot \subseteq Nat
    /\ MaxFault \in Nat

VARIABLES
    life,       \* up, the stages of Shutdown, or down
    faults,
    open,       \* the ends at which it is alive
    backlog,    \* connections to each node that accept has not taken in yet
    table,      \* quicTransport.conns: the connection to the other node
    snap,       \* the connections Shutdown has listed
    dialing,    \* quicTransport.dialing: whose dial is in flight
    pc,         \* where each caller is in connect
    dialled     \* the connection it has dialled

vars == <<life, faults, open, backlog, table, snap, dialing, pc, dialled>>

None == <<>>
Nobody == "none"
Conn == Node \X Slot

(* The node that dialled a connection.                                       *)
client(c) == c[1]

Stage == {"up", "deaf", "listed", "closed", "done", "down"}

TypeOK ==
    /\ life \in [Node -> Stage]
    /\ faults \in 0 .. MaxFault
    /\ open \in [Conn -> SUBSET Node]
    /\ backlog \in [Node -> Seq(Conn)]
    /\ table \in [Node -> Conn \cup {None}]
    /\ snap \in [Node -> Conn \cup {None}]
    /\ DOMAIN dialing = Node /\ DOMAIN pc = Node
    /\ \A n \in Node :
          /\ dialing[n] \in Caller[n] \cup {Nobody}
          /\ pc[n] \in [Caller[n] -> {"idle", "looked", "wait", "dial", "adopt", "finish"}]
    /\ dialled \in [Node -> Conn \cup {None}]

Peer(n) == CHOOSE m \in Node : m # n

Init ==
    /\ life = [n \in Node |-> "up"]
    /\ faults = 0
    /\ open = [c \in Conn |-> {}]
    /\ backlog = [n \in Node |-> <<>>]
    /\ table = [n \in Node |-> None]
    /\ snap = [n \in Node |-> None]
    /\ dialing = [n \in Node |-> Nobody]
    /\ pc = [n \in Node |-> [k \in Caller[n] |-> "idle"]]
    /\ dialled = [n \in Node |-> None]

Live(n, c) == c # None /\ n \in open[c]

(* CloseWithError at n, for each of a set of connections.                    *)
CloseAt(n, cs) == [c \in Conn |-> IF c \in cs THEN open[c] \ {n} ELSE open[c]]

Range(s) == {s[i] : i \in DOMAIN s}

Unused(c) ==
    /\ open[c] = {}
    /\ \A n \in Node : c \notin {table[n], snap[n], dialled[n]} \cup Range(backlog[n])

Fault == faults < MaxFault /\ faults' = faults + 1

Step(n, k, from, to) == pc[n][k] = from /\ pc' = [pc EXCEPT ![n][k] = to]

-----------------------------------------------------------------------------
(* Keeping one of two connections. *)

preferredDialer(a, b) == IF b < a THEN b ELSE a

BugkeepNew(cur, cl, preferred) == TRUE

keepNew(cur, cl, preferred) == cur # preferred \/ cl = preferred

Bugregister(n, c) ==
    LET cur == table[n]
    IN  IF Live(n, cur) /\ ~keepNew(client(cur), client(c), preferredDialer(n, Peer(n)))
        THEN open' = CloseAt(n, {c}) /\ UNCHANGED table
        ELSE UNCHANGED open /\ table' = [table EXCEPT ![n] = c]

(* register, and serve: once done is closed the connection is not served but *)
(* dropped again.                                                            *)
register(n, c) ==
    LET cur == table[n]
    IN  IF Live(n, cur) /\ ~keepNew(client(cur), client(c), preferredDialer(n, Peer(n)))
        THEN open' = CloseAt(n, {c}) /\ UNCHANGED table
        ELSE IF life[n] \in {"done", "down"}
             THEN open' = CloseAt(n, {c, cur}) /\ table' = [table EXCEPT ![n] = None]
             ELSE open' = CloseAt(n, {cur}) /\ table' = [table EXCEPT ![n] = c]

-----------------------------------------------------------------------------
(* A caller in connect. *)

(* WriteToAddress or DialAddressTimeout before done is closed, then connect: *)
(* lookup finds nothing to use.                                              *)
Lookup(n, k) ==
    /\ life[n] \in Stage \ {"done", "down"}
    /\ ~Live(n, table[n])
    /\ Step(n, k, "idle", "looked")
    /\ UNCHANGED <<life, faults, open, backlog, table, snap, dialing, dialled>>

(* What lookup saw may be out of date by now: another caller's dial may have *)
(* come and gone.                                                            *)
JoinOrDial(n, k) ==
    /\ \/ dialing[n] # Nobody /\ Step(n, k, "looked", "wait") /\ UNCHANGED dialing
       \/ /\ dialing[n] = Nobody /\ Step(n, k, "looked", "dial")
          /\ dialing' = [dialing EXCEPT ![n] = k]
    /\ UNCHANGED <<life, faults, open, backlog, table, snap, dialled>>

Dial(n, k) ==
    /\ life[n] # "down" /\ life[Peer(n)] = "up"
    /\ Step(n, k, "dial", "adopt")
    /\ \E i \in Slot :
          LET c == <<n, i>>
          IN  /\ Unused(c) /\ \A j \in Slot : j < i => ~Unused(<<n, j>>)
              /\ open' = [open EXCEPT ![c] = Node]
              /\ backlog' = [backlog EXCEPT ![Peer(n)] = Append(@, c)]
              /\ dialled' = [dialled EXCEPT ![n] = c]
    /\ UNCHANGED <<life, faults, table, snap, dialing>>

(* The peer does not answer or refuses, the deadline passes, or this node's  *)
(* QUIC transport is gone.                                                   *)
DialFails(n, k) ==
    /\ Step(n, k, "dial", "finish")
    /\ \/ (life[n] = "down" \/ life[Peer(n)] # "up") /\ UNCHANGED faults
       \/ Fault
    /\ UNCHANGED <<life, open, backlog, table, snap, dialing, dialled>>

AdoptDialled(n, k) ==
    /\ Step(n, k, "adopt", "finish")
    /\ register(n, dialled[n])
    /\ dialled' = [dialled EXCEPT ![n] = None]
    /\ UNCHANGED <<life, faults, backlog, snap, dialing>>

BugFinish(n, k) ==
    /\ Step(n, k, "finish", "idle")
    /\ dialing' = [dialing EXCEPT ![n] = Nobody]
    /\ UNCHANGED <<life, faults, open, backlog, table, snap, dialled>>

(* close(call.done) lets those go that waited for this dial.                 *)
Finish(n, k) ==
    /\ pc[n][k] = "finish"
    /\ pc' = [pc EXCEPT ![n] = [j \in Caller[n] |->
                IF j = k \/ pc[n][j] = "wait" THEN "idle" ELSE pc[n][j]]]
    /\ dialing' = [dialing EXCEPT ![n] = Nobody]
    /\ UNCHANGED <<life, faults, open, backlog, table, snap, dialled>>

(* The waiter's own deadline passes first.                                   *)
GiveUp(n, k) ==
    /\ Step(n, k, "wait", "idle") /\ Fault
    /\ UNCHANGED <<life, open, backlog, table, snap, dialing, dialled>>

-----------------------------------------------------------------------------
(* The accept loop, and the goroutines that serve a connection. *)

Accept(n) ==
    /\ life[n] = "up" /\ backlog[n] # <<>>
    /\ register(n, Head(backlog[n]))
    /\ backlog' = [backlog EXCEPT ![n] = Tail(@)]
    /\ UNCHANGED <<life, faults, snap, dialing, pc, dialled>>

(* The far end is gone, and this one hears of it.                            *)
CloseArrives(n, c) ==
    /\ open[c] = {n}
    /\ open' = [open EXCEPT ![c] = {}]
    /\ UNCHANGED <<life, faults, backlog, table, snap, dialing, pc, dialled>>

(* Nothing came through for the idle timeout.                                *)
IdleTimeout(n, c) ==
    /\ n \in open[c] /\ open[c] = Node
    /\ Fault
    /\ open' = CloseAt(n, {c})
    /\ UNCHANGED <<life, backlog, table, snap, dialing, pc, dialled>>

(* The goroutine that reads from the connection ends: it is dead, or done is *)
(* closed while a packet waits for memberlist.                               *)
forget(n) ==
    /\ table[n] # None /\ (~Live(n, table[n]) \/ life[n] = "done")
    /\ table' = [table EXCEPT ![n] = None]
    /\ open' = CloseAt(n, {table[n]})
    /\ UNCHANGED <<life, faults, backlog, snap, dialing, pc, dialled>>

(* DialAddressTimeout: no stream can be opened, so the connection is dropped *)
(* although it may still be alive.                                           *)
DropConn(n) ==
    /\ life[n] \notin {"done", "down"} /\ Live(n, table[n])
    /\ Fault
    /\ table' = [table EXCEPT ![n] = None]
    /\ open' = CloseAt(n, {table[n]})
    /\ UNCHANGED <<life, backlog, snap, dialing, pc, dialled>>

-----------------------------------------------------------------------------
(* Shutdown, and a crash. *)

(* ln.Close: connections not yet accepted are refused.                       *)
StopListening(n) ==
    /\ life[n] = "up" /\ Fault
    /\ life' = [life EXCEPT ![n] = "deaf"]
    /\ open' = CloseAt(n, Range(backlog[n]))
    /\ backlog' = [backlog EXCEPT ![n] = <<>>]
    /\ UNCHANGED <<table, snap, dialing, pc, dialled>>

ListConns(n) ==
    /\ life[n] = "deaf"
    /\ life' = [life EXCEPT ![n] = "listed"]
    /\ snap' = [snap EXCEPT ![n] = table[n]]
    /\ UNCHANGED <<faults, open, backlog, table, dialing, pc, dialled>>

CloseConns(n) ==
    /\ life[n] = "listed"
    /\ life' = [life EXCEPT ![n] = "closed"]
    /\ open' = CloseAt(n, {snap[n]})
    /\ snap' = [snap EXCEPT ![n] = None]
    /\ UNCHANGED <<faults, backlog, table, dialing, pc, dialled>>

CloseDone(n) ==
    /\ life[n] = "closed"
    /\ life' = [life EXCEPT ![n] = "done"]
    /\ UNCHANGED <<faults, open, backlog, table, snap, dialing, pc, dialled>>

(* qt.Close ends what is still open without a word to the peer.              *)
CloseTransport(n) ==
    /\ life[n] = "done"
    /\ life' = [life EXCEPT ![n] = "down"]
    /\ open' = CloseAt(n, Conn)
    /\ UNCHANGED <<faults, backlog, table, snap, dialing, pc, dialled>>

Gone(n) ==
    /\ open' = CloseAt(n, Conn)
    /\ backlog' = [backlog EXCEPT ![n] = <<>>]
    /\ table' = [table EXCEPT ![n] = None]
    /\ snap' = [snap EXCEPT ![n] = None]
    /\ dialing' = [dialing EXCEPT ![n] = Nobody]
    /\ pc' = [pc EXCEPT ![n] = [k \in Caller[n] |-> "idle"]]
    /\ dialled' = [dialled EXCEPT ![n] = None]

Crash(n) ==
    /\ life[n] # "down" /\ Fault
    /\ life' = [life EXCEPT ![n] = "down"]
    /\ Gone(n)

Restart(n) ==
    /\ life[n] = "down"
    /\ life' = [life EXCEPT ![n] = "up"]
    /\ Gone(n)
    /\ UNCHANGED faults

Call(n, k) ==
    \/ Lookup(n, k) \/ JoinOrDial(n, k) \/ Dial(n, k) \/ DialFails(n, k)
    \/ AdoptDialled(n, k) \/ Finish(n, k)

Shutdown(n) ==
    \/ ListConns(n) \/ CloseConns(n)
    \/ CloseDone(n) \/ CloseTransport(n) \/ Restart(n)

Next ==
    \E n \in Node :
        \/ \E k \in Caller[n] : Call(n, k) \/ GiveUp(n, k)
        \/ Accept(n) \/ forget(n) \/ DropConn(n)
        \/ \E c \in Conn : CloseArrives(n, c) \/ IdleTimeout(n, c)
        \/ StopListening(n) \/ Shutdown(n) \/ Crash(n)

Spec == Init /\ [][Next]_vars

(* Goroutines run when they can, memberlist keeps probing the peer, a close  *)
(* is heard of by the idle timeout at the latest, and the service manager    *)
(* starts an agent that has stopped.                                         *)
FairSpec ==
    /\ Spec
    /\ \A n \in Node :
          /\ \A k \in Caller[n] : WF_vars(Call(n, k))
          /\ WF_vars(Accept(n)) /\ WF_vars(forget(n)) /\ WF_vars(Shutdown(n))
          /\ \A c \in Conn : WF_vars(CloseArrives(n, c))

-----------------------------------------------------------------------------
Quiet ==
    /\ \A n \in Node : life[n] = "up" /\ backlog[n] = <<>>
    /\ \A n \in Node : \A k \in Caller[n] : pc[n][k] \notin {"dial", "adopt"}
    /\ \A c \in Conn : open[c] \in {{}, Node}
    /\ \A n \in Node : table[n] # None => Live(n, table[n])

(* Once nothing is under way both sides use the same connection, or neither  *)
(* has one, and no other is left open (register: "both sides keep the same   *)
(* one and close the other").                                                *)
SidesAgree ==
    Quiet => \A n \in Node : \A c \in Conn : open[c] = Node => table[n] = c

Redials(n) ==
    \E k \in Caller[n] : pc[n][k] = "looked" /\ pc'[n][k] = "dial" /\ Live(n, table[n])

(* When faults have stopped, and no caller keeps dialling on an answer of    *)
(* lookup that has meanwhile become wrong, the two settle on a connection    *)
(* and keep it: they do not go on closing each other's for ever.             *)
Settle ==
    <>[][\A n \in Node : ~Redials(n)]_vars
        => <>[](\A n \in Node : Live(n, table[n]) /\ table[n] = table[Peer(n)])

(* At most one caller has a dial in flight, the one dialing names, and       *)
(* whoever waits has a dial to wait for: nobody is left behind when a dial   *)
(* has ended, however it ended (connect).                                    *)
DialInv ==
    /\ TypeOK
    /\ \A n \in Node : \A k \in Caller[n] :
          /\ pc[n][k] \in {"dial", "adopt", "finish"} <=> dialing[n] = k
          /\ pc[n][k] = "wait" => dialing[n] # Nobody
          /\ pc[n][k] = "adopt" => dialled[n] # None
=============================================================================
