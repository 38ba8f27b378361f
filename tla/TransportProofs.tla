-------------------------- MODULE TransportProofs --------------------------
(* Theorems about the transport for any two identities, any goroutines that  *)
(* send, any number of connections and any number of faults.                 *)
EXTENDS Transport, TLAPS

USE DEF vars

(* Every end that is alive is accounted for: it is the one in conns, the one *)
(* a dial is about to hand to register, or one that accept has yet to take.  *)
EndsKnown ==
    \A n \in Node : \A c \in Conn :
        n \in open[c] => c \in {table[n], dialled[n]} \cup Range(backlog[n])

(* A connection that has been dialled belongs to a caller that adopts it.    *)
DialledOwned ==
    \A n \in Node : dialled[n] # None => \E k \in Caller[n] : pc[n][k] = "adopt"

(* The part of DialInv that is not typing.                                   *)
Dialling ==
    \A n \in Node : \A k \in Caller[n] :
        /\ pc[n][k] \in {"dial", "adopt", "finish"} <=> dialing[n] = k
        /\ pc[n][k] = "wait" => dialing[n] # Nobody
        /\ pc[n][k] = "adopt" => dialled[n] # None

TransportInv == DialInv /\ EndsKnown /\ DialledOwned

-----------------------------------------------------------------------------
(* What the assumptions say of the peer of a node.                           *)
LEMMA PeerProps ==
    ASSUME NEW n \in Node
    PROVE  Peer(n) \in Node /\ Peer(n) # n /\ Node = {n, Peer(n)}
BY TransportAssumption DEF TransportAssumption, Peer

(* None stands for no connection.                                            *)
LEMMA NoneNotConn == None \notin Conn
BY DEF None, Conn

(* The set of connections in a queue, as it grows and shrinks.               *)
LEMMA RangeAppend ==
    ASSUME NEW S, NEW s \in Seq(S), NEW c \in S
    PROVE  Range(Append(s, c)) = Range(s) \cup {c}
<1>1. /\ DOMAIN Append(s, c) = 1 .. Len(s) + 1 /\ DOMAIN s = 1 .. Len(s) /\ Len(s) \in Nat
      /\ Append(s, c)[Len(s) + 1] = c /\ \A i \in 1 .. Len(s) : Append(s, c)[i] = s[i]
  OBVIOUS
<1>2. Len(s) + 1 \in 1 .. Len(s) + 1 /\ 1 .. Len(s) + 1 = (1 .. Len(s)) \cup {Len(s) + 1}
  BY <1>1
<1> QED BY <1>1, <1>2, Zenon DEF Range

(* Head and Tail share out the connections in a queue.                       *)
LEMMA RangeTail ==
    ASSUME NEW S, NEW s \in Seq(S), s # <<>>
    PROVE  /\ Head(s) \in S /\ Tail(s) \in Seq(S)
           /\ Range(s) = Range(Tail(s)) \cup {Head(s)}
<1>1. /\ Head(s) \in S /\ Tail(s) \in Seq(S) /\ Head(s) = s[1]
      /\ Len(s) \in Nat \ {0} /\ DOMAIN s = 1 .. Len(s) /\ DOMAIN Tail(s) = 1 .. Len(s) - 1
      /\ \A i \in 1 .. Len(s) - 1 : Tail(s)[i] = s[i + 1]
  OBVIOUS
<1>2. ASSUME NEW x \in Range(s) PROVE x \in Range(Tail(s)) \cup {Head(s)}
  <2>1. PICK i \in 1 .. Len(s) : x = s[i]
    BY <1>1, <1>2 DEF Range
  <2>2. CASE i = 1
    BY <1>1, <2>1, <2>2
  <2>3. CASE i # 1
    <3>1. i - 1 \in DOMAIN Tail(s) /\ Tail(s)[i - 1] = x
      BY <1>1, <2>1, <2>3
    <3> QED BY <3>1 DEF Range
  <2> QED BY <2>2, <2>3
<1>3. ASSUME NEW x \in Range(Tail(s)) PROVE x \in Range(s)
  <2>1. PICK i \in 1 .. Len(s) - 1 : x = Tail(s)[i]
    BY <1>1, <1>3 DEF Range
  <2>2. i + 1 \in DOMAIN s /\ s[i + 1] = x
    BY <1>1, <2>1
  <2> QED BY <2>2 DEF Range
<1>4. 1 \in DOMAIN s
  BY <1>1
<1>5. Head(s) \in Range(s)
  BY <1>1, <1>4 DEF Range
<1> QED BY <1>1, <1>2, <1>3, <1>5

(* What closing ends at n leaves open.                                       *)
LEMMA CloseAtProps ==
    ASSUME TypeOK, NEW n \in Node, NEW cs
    PROVE  /\ CloseAt(n, cs) \in [Conn -> SUBSET Node]
           /\ \A m \in Node, c \in Conn :
                 m \in CloseAt(n, cs)[c] <=> m \in open[c] /\ (m = n => c \notin cs)
BY DEF CloseAt, TypeOK

(* register gives c a place in the table or closes it, and closes whatever   *)
(* it takes out of the table.                                                *)
LEMMA RegisterProps ==
    ASSUME TypeOK, NEW n \in Node, NEW c \in Conn, register(n, c)
    PROVE  /\ open' \in [Conn -> SUBSET Node] /\ table' \in [Node -> Conn \cup {None}]
           /\ \A m \in Node, d \in Conn : m \in open'[d] => m \in open[d]
           /\ \A d \in Conn : n \in open'[d] => d = table'[n] \/ (d # c /\ d # table[n])
           /\ \A m \in Node : m # n => table'[m] = table[m]
<1>1. CloseAt(n, {c}) \in [Conn -> SUBSET Node] /\ CloseAt(n, {c, table[n]}) \in [Conn -> SUBSET Node]
      /\ CloseAt(n, {table[n]}) \in [Conn -> SUBSET Node]
  BY CloseAtProps
<1>2. table \in [Node -> Conn \cup {None}]
  BY DEF TypeOK
<1>3. CASE open' = CloseAt(n, {c}) /\ UNCHANGED table
  BY <1>1, <1>2, <1>3, CloseAtProps
<1>4. CASE open' = CloseAt(n, {c, table[n]}) /\ table' = [table EXCEPT ![n] = None]
  BY <1>1, <1>2, <1>4, CloseAtProps
<1>5. CASE open' = CloseAt(n, {table[n]}) /\ table' = [table EXCEPT ![n] = c]
  BY <1>1, <1>2, <1>5, CloseAtProps
<1> QED BY <1>3, <1>4, <1>5 DEF register

(* DialInv is the type invariant and what is said of dials.                  *)
LEMMA DialInvParts == DialInv <=> TypeOK /\ Dialling
BY DEF DialInv, Dialling

(* Two transports that have not begun satisfy the invariant.                 *)
LEMMA TransportInitInv == Init => TransportInv
<1> SUFFICES ASSUME Init PROVE TransportInv
  OBVIOUS
<1>1. TypeOK
  BY TransportAssumption DEF TransportAssumption, Init, TypeOK, Stage
<1>2. Dialling
  BY TransportAssumption DEF TransportAssumption, Init, Dialling, Nobody
<1>3. EndsKnown /\ DialledOwned
  BY DEF Init, EndsKnown, DialledOwned
<1> QED BY <1>1, <1>2, <1>3, DialInvParts DEF TransportInv

(* A caller on its way through connect.                                      *)
LEMMA CallKeepsInv ==
    ASSUME TransportInv, NEW n \in Node, NEW k \in Caller[n], Call(n, k) \/ GiveUp(n, k)
    PROVE  TransportInv'
<1>0. TypeOK /\ Dialling /\ EndsKnown /\ DialledOwned /\ Nobody \notin Caller[n]
  BY DialInvParts, TransportAssumption DEF TransportInv, TransportAssumption, Nobody
<1> SUFFICES TypeOK' /\ Dialling' /\ EndsKnown' /\ DialledOwned'
  BY DEF TransportInv, DialInv, Dialling
<1> USE <1>0 DEF Step
<1>1. CASE Lookup(n, k)
  <2>1. TypeOK'
    BY <1>1 DEF Lookup, TypeOK
  <2>2. Dialling'
    BY <1>1 DEF Lookup, TypeOK, Dialling
  <2>3. EndsKnown'
    BY <1>1 DEF Lookup, TypeOK, EndsKnown
  <2>4. DialledOwned'
    BY <1>1 DEF Lookup, TypeOK, DialledOwned
  <2> QED BY <2>1, <2>2, <2>3, <2>4
<1>2. CASE JoinOrDial(n, k)
  <2>0. UNCHANGED <<life, faults, open, backlog, table, snap, dialled>>
    BY <1>2 DEF JoinOrDial
  <2>1. CASE dialing[n] # Nobody /\ Step(n, k, "looked", "wait") /\ UNCHANGED dialing
    <3>1. TypeOK'
      BY <2>0, <2>1 DEF TypeOK
    <3>2. Dialling'
      BY <2>0, <2>1 DEF TypeOK, Dialling
    <3>3. EndsKnown' /\ DialledOwned'
      BY <2>0, <2>1 DEF TypeOK, EndsKnown, DialledOwned
    <3> QED BY <3>1, <3>2, <3>3
  <2>2. CASE /\ dialing[n] = Nobody /\ Step(n, k, "looked", "dial")
             /\ dialing' = [dialing EXCEPT ![n] = k]
    <3>1. TypeOK'
      BY <2>0, <2>2 DEF TypeOK
    <3>2. Dialling'
      BY <2>0, <2>2 DEF TypeOK, Dialling
    <3>3. EndsKnown' /\ DialledOwned'
      BY <2>0, <2>2 DEF TypeOK, EndsKnown, DialledOwned
    <3> QED BY <3>1, <3>2, <3>3
  <2> QED BY <1>2, <2>1, <2>2 DEF JoinOrDial
<1>3. CASE Dial(n, k)
  <2>0. Peer(n) \in Node /\ Peer(n) # n /\ Node = {n, Peer(n)}
    BY PeerProps
  <2>1. PICK i \in Slot :
          LET c == <<n, i>>
          IN  /\ open' = [open EXCEPT ![c] = Node]
              /\ backlog' = [backlog EXCEPT ![Peer(n)] = Append(@, c)]
              /\ dialled' = [dialled EXCEPT ![n] = c]
    BY <1>3 DEF Dial
  <2> DEFINE c == <<n, i>>
  <2>2. c \in Conn
    BY DEF Conn
  <2> HIDE DEF c
  <2>3. /\ pc[n][k] = "dial" /\ pc' = [pc EXCEPT ![n][k] = "adopt"]
        /\ UNCHANGED <<life, faults, table, snap, dialing>>
    BY <1>3 DEF Dial
  <2>4. TypeOK'
    BY <2>0, <2>1, <2>2, <2>3 DEF TypeOK, c
  <2>5. Dialling'
    <3>1. dialled'[n] # None /\ \A m \in Node : m # n => dialled'[m] = dialled[m]
      BY <2>1, <2>2, NoneNotConn DEF TypeOK, c
    <3> QED BY <2>3, <3>1 DEF TypeOK, Dialling
  <2>6. dialled[n] = None
    BY <2>3 DEF Dialling, DialledOwned
  <2>7. Range(backlog'[Peer(n)]) = Range(backlog[Peer(n)]) \cup {c} /\ backlog'[n] = backlog[n]
    BY <2>0, <2>1, <2>2, RangeAppend DEF TypeOK, c
  <2>8. EndsKnown'
    BY <2>0, <2>1, <2>2, <2>3, <2>6, <2>7, NoneNotConn DEF TypeOK, EndsKnown, c
  <2>9. DialledOwned'
    BY <2>1, <2>2, <2>3 DEF TypeOK, DialledOwned, c
  <2> QED BY <2>4, <2>5, <2>8, <2>9
<1>4. CASE DialFails(n, k)
  <2>1. TypeOK'
    <3>1. faults' \in 0 .. MaxFault
      BY <1>4, TransportAssumption DEF TransportAssumption, DialFails, Fault, TypeOK
    <3> QED BY <1>4, <3>1 DEF DialFails, TypeOK
  <2>2. Dialling'
    BY <1>4 DEF DialFails, TypeOK, Dialling
  <2>3. EndsKnown'
    BY <1>4 DEF DialFails, TypeOK, EndsKnown
  <2>4. DialledOwned'
    BY <1>4 DEF DialFails, TypeOK, DialledOwned
  <2> QED BY <2>1, <2>2, <2>3, <2>4
<1>5. CASE AdoptDialled(n, k)
  <2>1. /\ pc[n][k] = "adopt" /\ pc' = [pc EXCEPT ![n][k] = "finish"]
        /\ register(n, dialled[n]) /\ dialled' = [dialled EXCEPT ![n] = None]
        /\ UNCHANGED <<life, faults, backlog, snap, dialing>>
    BY <1>5 DEF AdoptDialled
  <2>2. dialled[n] \in Conn
    BY <2>1 DEF Dialling, TypeOK
  <2>3. TypeOK'
    BY <2>1, <2>2, RegisterProps DEF TypeOK
  <2>4. Dialling'
    BY <2>1 DEF TypeOK, Dialling
  <2>5. EndsKnown'
    BY <2>1, <2>2, RegisterProps DEF TypeOK, EndsKnown
  <2>6. DialledOwned'
    BY <2>1 DEF TypeOK, DialledOwned
  <2> QED BY <2>3, <2>4, <2>5, <2>6
<1>6. CASE Finish(n, k)
  <2>1. TypeOK'
    BY <1>6 DEF Finish, TypeOK
  <2>2. Dialling'
    BY <1>6 DEF Finish, TypeOK, Dialling
  <2>3. EndsKnown'
    BY <1>6 DEF Finish, TypeOK, EndsKnown
  <2>4. DialledOwned'
    BY <1>6 DEF Finish, TypeOK, DialledOwned
  <2> QED BY <2>1, <2>2, <2>3, <2>4
<1>7. CASE GiveUp(n, k)
  <2>1. TypeOK'
    <3>1. faults' \in 0 .. MaxFault
      BY <1>7, TransportAssumption DEF TransportAssumption, GiveUp, Fault, TypeOK
    <3> QED BY <1>7, <3>1 DEF GiveUp, TypeOK
  <2>2. Dialling'
    BY <1>7 DEF GiveUp, TypeOK, Dialling
  <2>3. EndsKnown'
    BY <1>7 DEF GiveUp, TypeOK, EndsKnown
  <2>4. DialledOwned'
    BY <1>7 DEF GiveUp, TypeOK, DialledOwned
  <2> QED BY <2>1, <2>2, <2>3, <2>4
<1> QED BY <1>1, <1>2, <1>3, <1>4, <1>5, <1>6, <1>7 DEF Call

(* Connections taken in, lost, or dropped.                                   *)
LEMMA ConnKeepsInv ==
    ASSUME TransportInv, NEW n \in Node,
           \/ Accept(n) \/ forget(n) \/ DropConn(n)
           \/ \E c \in Conn : CloseArrives(n, c) \/ IdleTimeout(n, c)
    PROVE  TransportInv'
<1>0. TypeOK /\ Dialling /\ EndsKnown /\ DialledOwned
  BY DialInvParts DEF TransportInv
<1> SUFFICES TypeOK' /\ Dialling' /\ EndsKnown' /\ DialledOwned'
  BY DEF TransportInv, DialInv, Dialling
<1> USE <1>0
<1>1. CASE Accept(n)
  <2> DEFINE c == Head(backlog[n])
  <2>1. /\ backlog[n] # <<>> /\ register(n, c) /\ backlog' = [backlog EXCEPT ![n] = Tail(@)]
        /\ UNCHANGED <<life, faults, snap, dialing, pc, dialled>>
    BY <1>1 DEF Accept
  <2>2. /\ c \in Conn /\ Tail(backlog[n]) \in Seq(Conn)
        /\ Range(backlog[n]) = Range(Tail(backlog[n])) \cup {c}
    BY <2>1, RangeTail DEF TypeOK
  <2> HIDE DEF c
  <2>3. TypeOK'
    BY <2>1, <2>2, RegisterProps DEF TypeOK
  <2>4. Dialling' /\ DialledOwned'
    BY <2>1 DEF Dialling, DialledOwned
  <2>5. EndsKnown'
    BY <2>1, <2>2, RegisterProps DEF TypeOK, EndsKnown
  <2> QED BY <2>3, <2>4, <2>5
<1>2. CASE forget(n)
  <2>1. TypeOK'
    BY <1>2, CloseAtProps DEF forget, TypeOK
  <2>2. Dialling' /\ DialledOwned'
    BY <1>2 DEF forget, TypeOK, Dialling, DialledOwned
  <2>3. EndsKnown'
    BY <1>2, CloseAtProps DEF forget, TypeOK, EndsKnown
  <2> QED BY <2>1, <2>2, <2>3
<1>3. CASE DropConn(n)
  <2>0. faults' \in 0 .. MaxFault
    BY <1>3, TransportAssumption DEF TransportAssumption, DropConn, Fault, TypeOK
  <2>1. TypeOK'
    BY <1>3, <2>0, CloseAtProps DEF DropConn, TypeOK
  <2>2. Dialling' /\ DialledOwned'
    BY <1>3 DEF DropConn, TypeOK, Dialling, DialledOwned
  <2>3. EndsKnown'
    BY <1>3, CloseAtProps DEF DropConn, TypeOK, EndsKnown
  <2> QED BY <2>1, <2>2, <2>3
<1>4. ASSUME NEW c \in Conn, CloseArrives(n, c) \/ IdleTimeout(n, c)
      PROVE  TypeOK' /\ Dialling' /\ EndsKnown' /\ DialledOwned'
  <2>0. faults' \in 0 .. MaxFault
    BY <1>4, TransportAssumption DEF TransportAssumption, CloseArrives, IdleTimeout, Fault, TypeOK
  <2>1. /\ open' \in [Conn -> SUBSET Node] /\ \A m \in Node, d \in Conn : m \in open'[d] => m \in open[d]
        /\ UNCHANGED <<life, backlog, table, snap, dialing, pc, dialled>>
    <3>1. CASE CloseArrives(n, c)
      BY <3>1 DEF CloseArrives, TypeOK
    <3>2. CASE IdleTimeout(n, c)
      BY <3>2, CloseAtProps DEF IdleTimeout
    <3> QED BY <1>4, <3>1, <3>2
  <2>2. TypeOK'
    BY <2>0, <2>1 DEF TypeOK
  <2>3. Dialling' /\ DialledOwned' /\ EndsKnown'
    BY <2>1 DEF Dialling, DialledOwned, EndsKnown
  <2> QED BY <2>2, <2>3
<1> QED BY <1>1, <1>2, <1>3, <1>4

(* One side stopping, in an orderly way or not, and starting again.          *)
LEMMA ShutdownKeepsInv ==
    ASSUME TransportInv, NEW n \in Node, StopListening(n) \/ Shutdown(n) \/ Crash(n)
    PROVE  TransportInv'
<1>0. TypeOK /\ Dialling /\ EndsKnown /\ DialledOwned
  BY DialInvParts DEF TransportInv
<1> SUFFICES TypeOK' /\ Dialling' /\ EndsKnown' /\ DialledOwned'
  BY DEF TransportInv, DialInv, Dialling
<1> USE <1>0
<1>1. CASE StopListening(n)
  <2>0. faults' \in 0 .. MaxFault
    BY <1>1, TransportAssumption DEF TransportAssumption, StopListening, Fault, TypeOK
  <2>1. TypeOK'
    BY <1>1, <2>0, CloseAtProps DEF StopListening, TypeOK, Stage
  <2>2. Dialling' /\ DialledOwned'
    BY <1>1 DEF StopListening, TypeOK, Dialling, DialledOwned
  <2>3. EndsKnown'
    BY <1>1, CloseAtProps DEF StopListening, TypeOK, EndsKnown
  <2> QED BY <2>1, <2>2, <2>3
<1>2. CASE ListConns(n)
  <2>1. TypeOK'
    BY <1>2 DEF ListConns, TypeOK, Stage
  <2>2. Dialling' /\ DialledOwned'
    BY <1>2 DEF ListConns, TypeOK, Dialling, DialledOwned
  <2>3. EndsKnown'
    BY <1>2 DEF ListConns, TypeOK, EndsKnown
  <2> QED BY <2>1, <2>2, <2>3
<1>3. CASE CloseConns(n)
  <2>1. TypeOK'
    BY <1>3, CloseAtProps DEF CloseConns, TypeOK, Stage
  <2>2. Dialling' /\ DialledOwned'
    BY <1>3 DEF CloseConns, TypeOK, Dialling, DialledOwned
  <2>3. EndsKnown'
    BY <1>3, CloseAtProps DEF CloseConns, TypeOK, EndsKnown
  <2> QED BY <2>1, <2>2, <2>3
<1>4. CASE CloseDone(n)
  <2>1. TypeOK'
    BY <1>4 DEF CloseDone, TypeOK, Stage
  <2>2. Dialling' /\ DialledOwned'
    BY <1>4 DEF CloseDone, TypeOK, Dialling, DialledOwned
  <2>3. EndsKnown'
    BY <1>4 DEF CloseDone, TypeOK, EndsKnown
  <2> QED BY <2>1, <2>2, <2>3
<1>5. CASE CloseTransport(n)
  <2>1. TypeOK'
    BY <1>5, CloseAtProps DEF CloseTransport, TypeOK, Stage
  <2>2. Dialling' /\ DialledOwned'
    BY <1>5 DEF CloseTransport, TypeOK, Dialling, DialledOwned
  <2>3. EndsKnown'
    BY <1>5, CloseAtProps DEF CloseTransport, TypeOK, EndsKnown
  <2> QED BY <2>1, <2>2, <2>3
<1>6. ASSUME Gone(n), faults' \in 0 .. MaxFault, life' \in [Node -> Stage]
      PROVE  TypeOK' /\ Dialling' /\ EndsKnown' /\ DialledOwned'
  <2>1. TypeOK'
    BY <1>6, CloseAtProps DEF Gone, TypeOK
  <2>2. Dialling'
    BY <1>6, TransportAssumption DEF TransportAssumption, Gone, TypeOK, Dialling, Nobody
  <2>3. DialledOwned'
    BY <1>6 DEF Gone, TypeOK, DialledOwned
  <2>4. EndsKnown'
    BY <1>6, CloseAtProps DEF Gone, TypeOK, EndsKnown
  <2> QED BY <2>1, <2>2, <2>3, <2>4
<1>7. CASE Crash(n)
  <2>1. faults' \in 0 .. MaxFault
    BY <1>7, TransportAssumption DEF TransportAssumption, Crash, Fault, TypeOK
  <2>2. life' \in [Node -> Stage]
    BY <1>7 DEF Crash, TypeOK, Stage
  <2> QED BY <1>6, <1>7, <2>1, <2>2 DEF Crash
<1>8. CASE Restart(n)
  <2>1. life' \in [Node -> Stage]
    BY <1>8 DEF Restart, TypeOK, Stage
  <2> QED BY <1>6, <1>8, <2>1 DEF Restart, TypeOK
<1> QED BY <1>1, <1>2, <1>3, <1>4, <1>5, <1>7, <1>8 DEF Shutdown

(* Every step of either transport keeps the invariant.                       *)
LEMMA TransportNextInv == TransportInv /\ [Next]_vars => TransportInv'
<1> SUFFICES ASSUME TransportInv, [Next]_vars PROVE TransportInv'
  OBVIOUS
<1>1. CASE UNCHANGED vars
  BY <1>1 DEF TransportInv, DialInv, TypeOK, EndsKnown, DialledOwned
<1>2. CASE Next
  BY <1>2, CallKeepsInv, ConnKeepsInv, ShutdownKeepsInv DEF Next
<1> QED BY <1>1, <1>2

(* The inductive invariant holds of every behaviour of the two transports.   *)
THEOREM TransportInvariant == Spec => []TransportInv
BY TransportInitInv, TransportNextInv, PTL DEF Spec

(* connect has one dial in flight at most, and whoever waits has one to wait *)
(* for, through failures, crashes and restarts.                              *)
THEOREM DialInvTheorem == Spec => []DialInv
<1>1. TransportInv => DialInv
  BY DEF TransportInv
<1> QED BY <1>1, TransportInvariant, PTL

(* Once nothing is under way, a connection that is still open is the one     *)
(* both sides have in their tables (register).                               *)
THEOREM SidesAgreeTheorem == Spec => []SidesAgree
<1>1. TransportInv => SidesAgree
  <2> SUFFICES ASSUME TransportInv, Quiet, NEW n \in Node, NEW c \in Conn, open[c] = Node
               PROVE  table[n] = c
    BY DEF SidesAgree
  <2>1. dialled[n] = None
    BY DEF TransportInv, Quiet, DialledOwned
  <2>2. Range(backlog[n]) = {}
    BY DEF Quiet, Range
  <2> QED BY <2>1, <2>2, NoneNotConn DEF TransportInv, EndsKnown
<1> QED BY <1>1, TransportInvariant, PTL
=============================================================================
