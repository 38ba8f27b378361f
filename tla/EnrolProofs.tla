---------------------------- MODULE EnrolProofs ----------------------------
(* Proofs about Enrol, for every number of connections, tokens, slots and    *)
(* records: EnrolInv is inductive, and gives the type invariant, the bound   *)
(* on the uses of a token, the exclusion inside admit and the durability of  *)
(* what a welcomed joiner has seen; for all of these it does not matter how  *)
(* membership is judged.  DistinctInv, for which it does, keeps the names    *)
(* and slots of members apart.                                               *)
EXTENDS Enrol, TrustProofs, FiniteSetTheorems

USE EnrolAssumption DEF None

-----------------------------------------------------------------------------
(* Types. *)

(* The initial state is well typed: the root alone, on disk and in memory.   *)
LEMMA TypeInit == Init => TypeOK
<1> SUFFICES ASSUME Init PROVE TypeOK
  OBVIOUS
<1>1. IsTrustSet(RootSet) /\ IsTrustSet(NewSet)
  <2>1. PICK n \in Name : n = CHOOSE m \in Name : TRUE
    BY TrustAssumption
  <2> QED
    BY <2>1, RootSetType, AddAdmissionType DEF RootSet
<1>2. now \in Time /\ crashes \in 0 .. MaxCrash
  BY TrustAssumption DEF Init, Time
<1>3. IsPartial(tokens, Token, Nat)
  BY DEF Init, IsPartial
<1> QED
  BY <1>1, <1>2, <1>3 DEF Init, TypeOK, InFlight, Admitting

(* A slot that admit chooses is one of the network's, or 0.                  *)
LEMMA AdmitHostType ==
    ASSUME IsTrustSet(set), NEW j \in Identity
    PROVE  admitHost(j) \in Host \cup {0}
<1>1. CASE j \in DOMAIN set.adm
  <2>1. set.adm[j] \in Admission
    BY <1>1 DEF IsTrustSet, IsPartial
  <2> QED
    BY <2>1, FreeHostType DEF admitHost, Admission
<1>2. CASE j \notin DOMAIN set.adm
  BY <1>2, FreeHostType DEF admitHost
<1> QED
  BY <1>1, <1>2

(* The admission a member signs is well typed.                               *)
LEMMA SignedType ==
    ASSUME TypeOK, NEW c \in Conn, host[c] # 0
    PROVE  Admit(Self, Joiner[c], NameOf[c], host[c], now) \in Admission
  BY DEF TypeOK, Admit, Admission

(* Every step keeps the types.                                               *)
LEMMA TypeNext == TypeOK /\ DurableInv /\ [Next]_vars => TypeOK'
<1> SUFFICES ASSUME TypeOK, DurableInv, [Next]_vars PROVE TypeOK'
  OBVIOUS
<1>1. ASSUME NEW t \in Token, Mint(t) PROVE TypeOK'
  <2>1. IsPartial(tokens', Token, Nat)
    BY <1>1 DEF Mint, TypeOK, IsPartial, Put, gc
  <2>2. minted' \subseteq Token
    BY <1>1 DEF Mint, TypeOK
  <2> QED
    BY <1>1, <2>1, <2>2 DEF Mint, TypeOK, admitVars
<1>2. ASSUME NEW t \in Token, Expire(t) PROVE TypeOK'
  BY <1>2 DEF Expire, TypeOK, admitVars
<1>3. ASSUME NEW c \in Conn, Client(c) PROVE TypeOK'
  BY <1>3 DEF Client, Dial, SendHello, SendProof, AcceptWelcome, GiveUp, Step, Send,
              TypeOK, admitVars, tokenVars, InFlight
<1>4. ASSUME NEW c \in Conn, ReadHello(c) PROVE TypeOK'
  <2>1. IsPartial(tokens', Token, Nat)
    BY <1>4 DEF ReadHello, TypeOK, IsPartial, gc
  <2> QED
    BY <1>4, <2>1 DEF ReadHello, Step, Send, TypeOK, admitVars, InFlight
<1>5. ASSUME NEW c \in Conn, ReadProof(c) PROVE TypeOK'
  <2>1. IsPartial(tokens', Token, Nat) /\ spent' \in [Token -> SUBSET Conn]
    BY <1>5 DEF ReadProof, consume, CanConsume, Without, TypeOK, IsPartial
  <2> QED
    BY <1>5, <2>1 DEF ReadProof, Step, Send, TypeOK, admitVars, InFlight
<1>6. ASSUME NEW c \in Conn, welcomeFits(c) \/ SendWelcome(c) \/ ReadAck(c) \/ Timeout(c)
      PROVE  TypeOK'
  BY <1>6 DEF welcomeFits, SendWelcome, ReadAck, Timeout, Refuse, Step, Send,
              TypeOK, admitVars, tokenVars, InFlight
<1>7. ASSUME NEW c \in Conn, LockState(c) \/ CheckName(c) PROVE TypeOK'
  BY <1>7 DEF LockState, CheckName, Refuse, Step, Send, TypeOK, tokenVars, InFlight, Admitting
<1>8. ASSUME NEW c \in Conn, ChooseHost(c) PROVE TypeOK'
  <2>1. admitHost(Joiner[c]) \in Host \cup {0}
    BY AdmitHostType DEF TypeOK
  <2> QED
    BY <1>8, <2>1 DEF ChooseHost, Refuse, Step, Send, TypeOK, tokenVars, InFlight, Admitting
<1>9. ASSUME NEW c \in Conn, SignAdmission(c) PROVE TypeOK'
  <2>1. host[c] # 0
    BY <1>9 DEF SignAdmission, Step, DurableInv
  <2>2. IsTrustSet(set')
    BY <1>9, <2>1, SignedType, AddAdmissionType DEF SignAdmission, TypeOK
  <2> QED
    BY <1>9, <2>2 DEF SignAdmission, Step, TypeOK, tokenVars, InFlight, Admitting
<1>10. ASSUME NEW c \in Conn, SaveState(c) \/ ReturnRecords(c) PROVE TypeOK'
  <2>1. CASE SaveState(c)
    BY <2>1 DEF SaveState, Step, TypeOK, tokenVars, InFlight, Admitting
  <2>2. CASE ReturnRecords(c)
    <3>1. \A d \in Conn : IsTrustSet(records'[d])
      <4>1. \A d \in Conn : records'[d] = set \/ records'[d] = records[d]
        BY <2>2 DEF ReturnRecords
      <4> QED
        BY <4>1 DEF TypeOK
    <3> QED
      BY <2>2, <3>1 DEF ReturnRecords, Step, TypeOK, tokenVars, InFlight, Admitting
  <2> QED
    BY <1>10, <2>1, <2>2
<1>11. ASSUME NEW r \in Incoming, Notify(r) PROVE TypeOK'
  <2>1. IsTrustSet(set')
    BY <1>11, AddRevocationType DEF Notify, TypeOK
  <2> QED
    BY <1>11, <2>1 DEF Notify, TypeOK, tokenVars
<1>12. ASSUME persist \/ Tick PROVE TypeOK'
  <2>1. now' \in Time
    BY <1>12, TrustAssumption DEF persist, Tick, TypeOK, Time
  <2> QED
    BY <1>12, <2>1 DEF persist, Tick, TypeOK, tokenVars
<1>13. ASSUME Crash PROVE TypeOK'
  <2>1. IsPartial(tokens', Token, Nat)
    BY <1>13 DEF Crash, IsPartial
  <2>2. srv' \in [Conn -> InFlight \cup {"idle", "ended"}] /\ crashes' \in 0 .. MaxCrash
    BY <1>13 DEF Crash, TypeOK
  <2> QED
    BY <1>13, <2>1, <2>2 DEF Crash, TypeOK
<1>14. CASE UNCHANGED vars
  BY <1>14 DEF vars, TypeOK
<1> QED
  BY <1>1, <1>2, <1>3, <1>4, <1>5, <1>6, <1>7, <1>8, <1>9, <1>10, <1>11, <1>12, <1>13, <1>14
  DEF Next, Handle

-----------------------------------------------------------------------------
(* Tokens. *)

(* One more connection in spent adds at most one.                            *)
LEMMA SpentGrows ==
    ASSUME TypeOK, NEW t \in Token, NEW c \in Conn
    PROVE  /\ Cardinality(spent[t]) \in Nat
           /\ Cardinality(spent[t] \cup {c}) \in Nat
           /\ Cardinality(spent[t] \cup {c}) <= Cardinality(spent[t]) + 1
<1>1. IsFiniteSet(spent[t])
  BY FS_Subset DEF TypeOK
<1>2. Cardinality(spent[t]) \in Nat
  BY <1>1, FS_CardinalityType
<1>3. Cardinality(spent[t] \cup {c}) =
          IF c \in spent[t] THEN Cardinality(spent[t]) ELSE Cardinality(spent[t]) + 1
  BY <1>1, FS_AddElement
<1> QED
  BY <1>2, <1>3

(* Nothing is minted and nothing is spent at first.                          *)
LEMMA TokenInit == Init => TokenInv
<1> SUFFICES ASSUME Init PROVE TokenInv
  OBVIOUS
<1>1. \A t \in Token : spent[t] = {} /\ Uses[t] \in Nat
  BY DEF Init
<1>2. TokenUsesBound
  <2> SUFFICES ASSUME NEW t \in Token PROVE Cardinality(spent[t]) <= Uses[t]
    BY DEF TokenUsesBound
  <2>1. Cardinality(spent[t]) = 0
    BY <1>1, FS_EmptySet
  <2>2. Uses[t] \in Nat
    BY <1>1
  <2> QED
    BY <2>1, <2>2
<1> QED
  BY <1>1, <1>2 DEF Init, TokenInv

(* Every step keeps the token store's invariant: consume moves one use from  *)
(* tokens to spent, gc and a crash only drop tokens.                         *)
LEMMA TokenNext == TypeOK /\ TokenInv /\ [Next]_vars => TokenInv'
<1> SUFFICES ASSUME TypeOK, TokenInv, [Next]_vars PROVE TokenInv'
  OBVIOUS
<1>1. ASSUME NEW t \in Token, Mint(t) PROVE TokenInv'
  <2>1. spent' = spent /\ spent[t] = {} /\ Uses[t] \in Nat \ {0} /\ Cardinality({}) = 0
    BY <1>1, FS_EmptySet DEF Mint, TokenInv
  <2>2. /\ DOMAIN tokens' \subseteq DOMAIN tokens \cup {t}
        /\ tokens'[t] = Uses[t]
        /\ \A u \in DOMAIN tokens' \ {t} : u \in DOMAIN tokens /\ tokens'[u] = tokens[u]
    BY <1>1 DEF Mint, Put, gc
  <2>3. minted' = minted \cup {t}
    BY <1>1 DEF Mint
  <2>4. \A u \in DOMAIN tokens' : tokens'[u] # 0 /\ Cardinality(spent'[u]) + tokens'[u] <= Uses[u]
    <3> TAKE u \in DOMAIN tokens'
    <3>1. CASE u = t
      BY <3>1, <2>1, <2>2
    <3>2. CASE u # t
      BY <3>2, <2>1, <2>2 DEF TokenInv
    <3> QED
      BY <3>1, <3>2
  <2>5. DOMAIN tokens' \subseteq minted'
    BY <2>2, <2>3 DEF TokenInv
  <2> QED
    BY <2>1, <2>3, <2>4, <2>5 DEF TokenInv, TokenUsesBound
<1>2. CASE /\ UNCHANGED <<spent, minted>>
           /\ DOMAIN tokens' \subseteq DOMAIN tokens
           /\ \A u \in DOMAIN tokens' : tokens'[u] = tokens[u]
  BY <1>2 DEF TokenInv, TokenUsesBound
<1>3. ASSUME NEW c \in Conn, ReadProof(c), consume(c) PROVE TokenInv'
  <2> DEFINE t == TokenOf[c]
  <2>1. t \in Token /\ t \in DOMAIN tokens /\ t \in minted /\ minted' = minted
    BY <1>3 DEF consume, CanConsume, ReadProof, TokenInv
  <2>2. /\ spent'[t] = spent[t] \cup {c}
        /\ \A u \in Token \ {t} : spent'[u] = spent[u]
    BY <1>3 DEF consume, TypeOK
  <2>3. tokens[t] \in Nat /\ Uses[t] \in Nat
    BY <2>1 DEF TypeOK, IsPartial
  <2>4. /\ DOMAIN tokens' \subseteq DOMAIN tokens
        /\ \A u \in DOMAIN tokens' \ {t} : tokens'[u] = tokens[u]
        /\ t \in DOMAIN tokens' => tokens[t] > 1 /\ tokens'[t] = tokens[t] - 1
    BY <1>3, <2>3 DEF consume, Without
  <2>5. /\ Cardinality(spent[t]) \in Nat /\ Cardinality(spent'[t]) \in Nat
        /\ Cardinality(spent'[t]) <= Cardinality(spent[t]) + 1
    BY <2>1, <2>2, SpentGrows
  <2>6. Cardinality(spent[t]) + tokens[t] <= Uses[t] /\ tokens[t] # 0
    BY <2>1 DEF TokenInv
  <2> HIDE DEF t
  <2>7. /\ Cardinality(spent'[t]) <= Uses[t]
        /\ t \in DOMAIN tokens' => tokens'[t] # 0 /\ Cardinality(spent'[t]) + tokens'[t] <= Uses[t]
    BY <2>3, <2>4, <2>5, <2>6
  <2>8. TokenUsesBound'
    BY <2>2, <2>7 DEF TokenInv, TokenUsesBound
  <2>9. \A u \in DOMAIN tokens' : tokens'[u] # 0 /\ Cardinality(spent'[u]) + tokens'[u] <= Uses[u]
    <3> TAKE u \in DOMAIN tokens'
    <3>1. CASE u = t
      BY <3>1, <2>7
    <3>2. CASE u # t
      <4>1. u \in DOMAIN tokens /\ u \in Token /\ tokens'[u] = tokens[u] /\ spent'[u] = spent[u]
        BY <3>2, <2>2, <2>4 DEF TypeOK, IsPartial
      <4> QED
        BY <4>1 DEF TokenInv
    <3> QED
      BY <3>1, <3>2
  <2>10. \A u \in Token : u \notin minted' => spent'[u] = {}
    BY <2>1, <2>2 DEF TokenInv
  <2> QED
    BY <2>1, <2>4, <2>8, <2>9, <2>10 DEF TokenInv
<1>4. ASSUME NEW t \in Token, Expire(t) PROVE TokenInv'
  BY <1>4, <1>2 DEF Expire
<1>5. ASSUME NEW c \in Conn, Client(c) PROVE TokenInv'
  BY <1>5, <1>2 DEF Client, Dial, SendHello, SendProof, AcceptWelcome, GiveUp, tokenVars
<1>6. ASSUME NEW c \in Conn, Handle(c), ~ReadHello(c), ~ReadProof(c) PROVE TokenInv'
  BY <1>6, <1>2 DEF Handle, welcomeFits, SendWelcome, ReadAck, Timeout, LockState, CheckName,
                    ChooseHost, SignAdmission, SaveState, ReturnRecords, tokenVars
<1>7. ASSUME NEW c \in Conn, ReadHello(c) PROVE TokenInv'
  BY <1>7, <1>2 DEF ReadHello, gc
<1>8. ASSUME NEW c \in Conn, ReadProof(c), ~consume(c) PROVE TokenInv'
  BY <1>8, <1>2 DEF ReadProof
<1>9. ASSUME NEW r \in Incoming, Notify(r) PROVE TokenInv'
  BY <1>9, <1>2 DEF Notify, tokenVars
<1>10. CASE persist \/ Tick \/ Crash
  BY <1>10, <1>2 DEF persist, Tick, Crash, tokenVars
<1>11. CASE UNCHANGED vars
  BY <1>11, <1>2 DEF vars
<1> QED
  BY <1>1, <1>3, <1>4, <1>5, <1>6, <1>7, <1>8, <1>9, <1>10, <1>11 DEF Next

-----------------------------------------------------------------------------
(* stateMu. *)

(* Every step keeps stateMu with the one handler inside admit.               *)
LEMMA MutexNext == TypeOK /\ MutexInv /\ [Next]_vars => MutexInv'
<1> SUFFICES ASSUME TypeOK, MutexInv, [Next]_vars PROVE MutexInv'
  OBVIOUS
<1>1. CASE UNCHANGED <<cli, srv, stateMu>>
  BY <1>1 DEF MutexInv
<1>2. ASSUME NEW c \in Conn, Client(c) PROVE MutexInv'
  <2>1. /\ stateMu' = stateMu
        /\ \E s \in {"dialled", "helloed", "proved", "enrolled", "failed"} : cli' = [cli EXCEPT ![c] = s]
    BY <1>2 DEF Client, Dial, SendHello, SendProof, AcceptWelcome, GiveUp, Step, admitVars
  <2>2. srv' = srv \/ (srv[c] = "idle" /\ srv' = [srv EXCEPT ![c] = "accept"])
    BY <1>2 DEF Client, Dial, SendHello, SendProof, AcceptWelcome, GiveUp, MutexInv
  <2> QED
    BY <2>1, <2>2 DEF MutexInv, TypeOK, Admitting
<1>3. ASSUME NEW c \in Conn,
             ReadHello(c) \/ ReadProof(c) \/ welcomeFits(c) \/ SendWelcome(c) \/ ReadAck(c) \/ Timeout(c)
      PROVE  MutexInv'
  <2>1. /\ stateMu' = stateMu /\ cli' = cli
        /\ srv[c] \notin Admitting \cup {"idle"}
        /\ \E to \in {"challenged", "ended", "consumed", "fits", "welcomed"} :
              srv' = [srv EXCEPT ![c] = to]
    BY <1>3 DEF ReadHello, ReadProof, welcomeFits, SendWelcome, ReadAck, Timeout, Refuse, Step,
                admitVars, Admitting
  <2> QED
    BY <2>1 DEF MutexInv, TypeOK, Admitting
<1>4. ASSUME NEW c \in Conn, LockState(c) PROVE MutexInv'
  BY <1>4 DEF LockState, Step, MutexInv, TypeOK, Admitting
<1>5. ASSUME NEW c \in Conn,
             CheckName(c) \/ ChooseHost(c) \/ SignAdmission(c) \/ SaveState(c) \/ ReturnRecords(c)
      PROVE  MutexInv'
  <2>1. /\ srv[c] \in Admitting /\ cli' = cli
        /\ \E to \in Admitting \cup {"ended", "write"} :
              /\ srv' = [srv EXCEPT ![c] = to]
              /\ stateMu' = IF to \in Admitting THEN stateMu ELSE None
    BY <1>5 DEF CheckName, ChooseHost, SignAdmission, SaveState, ReturnRecords, Refuse, Step, Admitting
  <2> QED
    BY <2>1 DEF MutexInv, TypeOK, Admitting
<1>6. CASE Crash
  <2>1. \A c \in Conn : srv'[c] \notin Admitting /\ (srv[c] = "idle" => srv'[c] = "idle")
    BY <1>6 DEF Crash, InFlight, Admitting
  <2> QED
    BY <1>6, <2>1 DEF Crash, MutexInv
<1>7. CASE ~Crash /\ ~\E c \in Conn : Client(c) \/ Handle(c)
  BY <1>7, <1>1 DEF Next, Mint, Expire, Notify, persist, Tick, admitVars, vars
<1> QED
  BY <1>2, <1>3, <1>4, <1>5, <1>6, <1>7 DEF Next, Handle

-----------------------------------------------------------------------------
(* The state file. *)

(* Every step keeps the state file ahead of what joiners have seen.          *)
LEMMA DurableNext == TypeOK /\ DurableInv /\ [Next]_vars => DurableInv'
<1> SUFFICES ASSUME TypeOK, DurableInv, [Next]_vars PROVE DurableInv'
  OBVIOUS
<1>1. CASE UNCHANGED <<set, disk, unsaved, host, srv, msg, cli>>
  BY <1>1 DEF DurableInv, WelcomeIsDurable
<1>2. ASSUME NEW c \in Conn, Client(c) PROVE DurableInv'
  <2>1. UNCHANGED <<set, disk, unsaved, host>>
    BY <1>2 DEF Client, Dial, SendHello, SendProof, AcceptWelcome, GiveUp, admitVars
  <2>2. /\ srv' = srv \/ srv' = [srv EXCEPT ![c] = "accept"]
        /\ msg' = msg \/ \E m \in {"hello", "proof", "ack"} : msg' = [msg EXCEPT ![c] = m]
        /\ \E s \in {"dialled", "helloed", "proved", "enrolled", "failed"} : cli' = [cli EXCEPT ![c] = s]
        /\ cli'[c] = "enrolled" \/ msg'[c] = "ack" => msg[c] \in {"welcome", "ack"}
    BY <1>2 DEF Client, Dial, SendHello, SendProof, AcceptWelcome, GiveUp, Step, Send, Receive, TypeOK
  <2> QED
    BY <2>1, <2>2 DEF DurableInv, WelcomeIsDurable, TypeOK
<1>3. ASSUME NEW c \in Conn,
             ReadHello(c) \/ ReadProof(c) \/ welcomeFits(c) \/ SendWelcome(c) \/ ReadAck(c) \/ Timeout(c)
      PROVE  DurableInv'
  <2>1. UNCHANGED <<set, disk, unsaved, host, cli>>
    BY <1>3 DEF ReadHello, ReadProof, welcomeFits, SendWelcome, ReadAck, Timeout, admitVars
  <2>2. \E to \in {"challenged", "ended", "consumed", "fits", "welcomed"} : srv' = [srv EXCEPT ![c] = to]
    BY <1>3 DEF ReadHello, ReadProof, welcomeFits, SendWelcome, ReadAck, Timeout, Refuse, Step
  <2>3. msg' = msg \/ \E m \in {"challenge", "refusal", "welcome"} : msg' = [msg EXCEPT ![c] = m]
    BY <1>3 DEF ReadHello, ReadProof, welcomeFits, SendWelcome, ReadAck, Timeout, Refuse, Send
  <2>4. srv'[c] = "welcomed" \/ (msg' # msg /\ msg'[c] = "welcome") => srv[c] = "write"
    BY <1>3 DEF ReadHello, ReadProof, welcomeFits, SendWelcome, ReadAck, Timeout, Refuse, Step, Send, TypeOK
  <2> QED
    BY <2>1, <2>2, <2>3, <2>4 DEF DurableInv, WelcomeIsDurable, TypeOK
<1>4. ASSUME NEW c \in Conn, LockState(c) \/ CheckName(c) \/ ChooseHost(c) PROVE DurableInv'
  <2>1. UNCHANGED <<set, disk, unsaved, cli>>
    BY <1>4 DEF LockState, CheckName, ChooseHost
  <2>2. /\ \E to \in {"locked", "named", "hosted", "ended"} : srv' = [srv EXCEPT ![c] = to]
        /\ msg' = msg \/ msg' = [msg EXCEPT ![c] = "refusal"]
    BY <1>4 DEF LockState, CheckName, ChooseHost, Refuse, Step, Send
  <2>3. /\ \A d \in Conn \ {c} : host'[d] = host[d]
        /\ srv'[c] = "hosted" => host'[c] # 0
    BY <1>4 DEF LockState, CheckName, ChooseHost, Refuse, Step, TypeOK
  <2> QED
    BY <2>1, <2>2, <2>3 DEF DurableInv, WelcomeIsDurable, TypeOK
<1>5. ASSUME NEW c \in Conn, SignAdmission(c) PROVE DurableInv'
  <2> DEFINE a == Admit(Self, Joiner[c], NameOf[c], host[c], now)
  <2>1. host[c] # 0
    BY <1>5 DEF SignAdmission, Step, DurableInv
  <2>2. /\ a \in Admission /\ a.identity = Joiner[c] /\ a.admitter # a.identity
        /\ ValidateAdmission(a)
    BY <2>1, SignedType DEF Admit, ValidateAdmission
  <2>3. set' = AddAdmission(set, a) /\ IsTrustSet(set)
    BY <1>5 DEF SignAdmission, TypeOK
  <2> HIDE DEF a
  <2>4. DOMAIN set.adm \subseteq DOMAIN set'.adm /\ Joiner[c] \in DOMAIN set'.adm
    BY <2>2, <2>3, AddAdmissionType, AddAdmissionKnows
  <2>5. UNCHANGED <<disk, unsaved, host, msg, cli>> /\ srv' = [srv EXCEPT ![c] = "admitted"]
    BY <1>5 DEF SignAdmission, Step
  <2> QED
    BY <2>4, <2>5 DEF DurableInv, WelcomeIsDurable, TypeOK
<1>6. ASSUME NEW c \in Conn, SaveState(c) PROVE DurableInv'
  <2>1. srv[c] = "admitted" /\ srv' = [srv EXCEPT ![c] = "saved"]
    BY <1>6 DEF SaveState, Step
  <2>2. UNCHANGED <<set, host, msg, cli>>
    BY <1>6 DEF SaveState
  <2>3. \/ disk' = set /\ unsaved' = unsaved
        \/ disk' = disk /\ unsaved' = unsaved \cup {Joiner[c]}
    BY <1>6 DEF SaveState
  <2>4. /\ DOMAIN disk.adm \cup unsaved \subseteq DOMAIN disk'.adm \cup unsaved'
        /\ Joiner[c] \in DOMAIN disk'.adm \cup unsaved'
        /\ DOMAIN disk'.adm \subseteq DOMAIN set'.adm
    BY <2>1, <2>2, <2>3 DEF DurableInv
  <2> QED
    BY <2>1, <2>2, <2>4 DEF DurableInv, WelcomeIsDurable, TypeOK
<1>7. ASSUME NEW c \in Conn, ReturnRecords(c) PROVE DurableInv'
  <2>1. srv[c] = "saved" /\ srv' = [srv EXCEPT ![c] = "write"]
    BY <1>7 DEF ReturnRecords, Step
  <2>2. UNCHANGED <<set, disk, unsaved, msg, cli>> /\ \A d \in Conn \ {c} : host'[d] = host[d]
    BY <1>7 DEF ReturnRecords, TypeOK
  <2> QED
    BY <2>1, <2>2 DEF DurableInv, WelcomeIsDurable, TypeOK
<1>8. ASSUME NEW r \in Incoming, Notify(r) PROVE DurableInv'
  <2>1. set'.adm = set.adm
    BY <1>8, AddRevocationType DEF Notify, TypeOK
  <2> QED
    BY <1>8, <2>1 DEF Notify, DurableInv, WelcomeIsDurable
<1>9. CASE persist
  <2>1. /\ DOMAIN disk.adm \subseteq DOMAIN disk'.adm
        /\ DOMAIN disk'.adm \subseteq DOMAIN set'.adm
    BY <1>9 DEF persist, DurableInv
  <2> QED
    BY <1>9, <2>1 DEF persist, DurableInv, WelcomeIsDurable
<1>10. CASE Crash
  <2>1. \A c \in Conn : srv'[c] \in {"idle", "ended"}
    BY <1>10 DEF Crash, TypeOK
  <2> QED
    BY <1>10, <2>1 DEF Crash, DurableInv, WelcomeIsDurable
<1>11. CASE \/ \E t \in Token : Mint(t) \/ Expire(t)
            \/ Tick
            \/ UNCHANGED vars
  BY <1>11, <1>1 DEF Mint, Expire, Tick, admitVars, vars
<1> QED
  BY <1>2, <1>3, <1>4, <1>5, <1>6, <1>7, <1>8, <1>9, <1>10, <1>11 DEF Next, Handle

-----------------------------------------------------------------------------
(* EnrolInv holds in every reachable state.                                  *)
THEOREM EnrolInvariant == Spec => []EnrolInv
<1>1. Init => EnrolInv
  <2> SUFFICES ASSUME Init PROVE MutexInv /\ DurableInv
    BY TypeInit, TokenInit DEF EnrolInv
  <2> QED
    BY DEF Init, MutexInv, DurableInv, WelcomeIsDurable, Admitting
<1>2. EnrolInv /\ [Next]_vars => EnrolInv'
  BY TypeNext, TokenNext, MutexNext, DurableNext DEF EnrolInv
<1> QED
  BY <1>1, <1>2, PTL DEF Spec

(* The variables keep their types; in particular every record in memory and  *)
(* on disk is well formed and every slot handed out is in the network.       *)
THEOREM EnrolTypeCorrect == Spec => []TypeOK
<1>1. EnrolInv => TypeOK
  BY DEF EnrolInv
<1> QED
  BY <1>1, EnrolInvariant, PTL

(* No token is spent more often than it was minted for, with any number of   *)
(* joiners proving it at once (TokenStore.lookup, consume).                  *)
THEOREM TokensAreBounded == Spec => []TokenUsesBound
<1>1. EnrolInv => TokenUsesBound
  BY DEF EnrolInv, TokenInv
<1> QED
  BY <1>1, EnrolInvariant, PTL

(* Whoever believes it is enrolled is in the state file of the member that   *)
(* admitted it, wherever that member crashes, unless writing the file failed *)
(* (Cluster.admit saves before the welcome is written).                      *)
THEOREM WelcomesAreDurable == Spec => []WelcomeIsDurable
<1>1. EnrolInv => WelcomeIsDurable
  BY DEF EnrolInv, DurableInv
<1> QED
  BY <1>1, EnrolInvariant, PTL

-----------------------------------------------------------------------------
(* Names and slots.  How membership is judged matters here, and with it what *)
(* revocations the other members may send: when somebody was revoked by a    *)
(* member whose own revocation then turns out to be older, it is a member    *)
(* again, and its slot may be in use by then.                                *)

(* Every revocation is the root's, or of the one who signed it.              *)
RevokedForGood == \A r \in Incoming : r.identity # Root /\ r.revoker \in {Root, r.identity}

(* Records that only this member and the root have signed.                   *)
OwnRecords(s) ==
    /\ \A j \in DOMAIN s.adm \ {Root} : s.adm[j].admitter = Self /\ j # Self
    /\ \A j \in DOMAIN s.rev : j # Root /\ s.rev[j].revoker \in {Root, j}

(* The members of a set share no slot and no name.                           *)
Distinct(s) ==
    \A i, j \in validAdmissions(s) :
        s.adm[i].host = s.adm[j].host \/ s.adm[i].name = s.adm[j].name => i = j

(* Between the checks of admit and the admission they lead to, what they     *)
(* found stays so.                                                           *)
ChecksHold ==
    \A c \in Conn :
        /\ srv[c] \in {"named", "hosted"} => ~NameTaken(set, NameOf[c], Joiner[c])
        /\ srv[c] = "hosted" =>
              \A i \in validAdmissions(set) : set.adm[i].host = host[c] => i = Joiner[c]

(* What keeps AdmissionsDistinct through a crash, which goes back to the     *)
(* records of the state file, and through a revocation that arrives inside   *)
(* admit, which does not take stateMu.                                       *)
DistinctInv ==
    /\ OwnRecords(set) /\ OwnRecords(disk)
    /\ Distinct(set) /\ Distinct(disk)
    /\ ChecksHold

(* Such records make members of the root and, where the root is the member   *)
(* that admits, of everybody who is admitted and not revoked.                *)
LEMMA OwnRecordsJudged ==
    ASSUME NEW s, IsTrustSet(s), OwnRecords(s), NEW j \in Identity
    PROVE  Valid(s, j) <=> j = Root \/ (Self = Root /\ j \in DOMAIN s.adm /\ j \notin DOMAIN s.rev)
<1> DEFINE ok == validAt(s)
<1>1. \A q \in Asking : ok[q] = Judgement(s, ok, q)
  BY ValidAtUnfolds
<1>2. Valid(s, j) = ok[Ask(j, Forever, {})]
  BY DEF Valid
<1> HIDE DEF ok
<1>3. Root \in Identity /\ Forever \in Int /\ \A t \in Time : t \in Int /\ t <= Forever
  BY TrustAssumption DEF TrustAssumption, Time, Forever
<1>4. ASSUME NEW at \in Int, NEW v \in SUBSET Question PROVE ok[Ask(Root, at, v)]
  <2>1. Ask(Root, at, v) \in Asking /\ Ask(Root, at, v).id = Root
    BY <1>3 DEF Ask, Asking
  <2> QED BY <1>1, <2>1 DEF Judgement, RevokedAt, OwnRecords
<1>5. CASE j = Root
  BY <1>2, <1>3, <1>4, <1>5
<1>6. CASE j # Root
  <2> DEFINE q == Ask(j, Forever, {})
             asked == {<<j, Forever>>}
  <2>1. q \in Asking /\ q.id = j /\ q.at = Forever /\ q.visiting = {} /\ asked \in SUBSET Question
    BY <1>3 DEF Ask, Asking, Question
  <2>2. ok[q] <=> /\ ~ /\ RevokedAt(s, j, Forever)
                       /\ \/ s.rev[j].revoker = j
                          \/ ok[Ask(s.rev[j].revoker, s.rev[j].issuedAt, asked)]
                  /\ j \in DOMAIN s.adm
                  /\ s.adm[j].admitter # j
                  /\ ok[Ask(s.adm[j].admitter, s.adm[j].issuedAt, asked)]
    <3>1. q.visiting \cup {<<q.id, q.at>>} = asked
      BY <2>1
    <3> HIDE DEF q, asked
    <3> QED BY <1>1, <1>6, <2>1, <3>1 DEF Judgement
  <2> HIDE DEF q, asked
  <2>3. j \in DOMAIN s.rev => s.rev[j].issuedAt \in Time /\ s.rev[j].revoker \in {Root, j}
    BY DEF IsTrustSet, IsPartial, Revocation, OwnRecords
  <2>4. j \in DOMAIN s.rev => ~ok[q]
    BY <1>3, <1>4, <2>1, <2>2, <2>3 DEF RevokedAt
  <2>5. j \in DOMAIN s.adm => s.adm[j].issuedAt \in Int /\ s.adm[j].admitter = Self /\ j # Self
    BY <1>3, <1>6 DEF IsTrustSet, IsPartial, Admission, OwnRecords
  <2>6. CASE Self = Root
    <3>1. j \in DOMAIN s.adm /\ j \notin DOMAIN s.rev => ok[q]
      BY <1>4, <2>1, <2>2, <2>5, <2>6 DEF RevokedAt
    <3> QED BY <1>2, <1>6, <2>2, <2>4, <2>6, <3>1 DEF q
  <2>7. CASE Self # Root
    <3>1. ASSUME NEW t \in Int PROVE ~ok[Ask(Self, t, asked)]
      <4>1. Self \notin DOMAIN s.adm
        BY <2>7 DEF OwnRecords
      <4>2. Ask(Self, t, asked) \in Asking /\ Ask(Self, t, asked).id = Self
        BY <2>1 DEF Ask, Asking
      <4>3. ok[Ask(Self, t, asked)] = Judgement(s, ok, Ask(Self, t, asked))
        BY <1>1, <4>2
      <4>4. ~Judgement(s, ok, Ask(Self, t, asked))
        <5> DEFINE r == Ask(Self, t, asked)
        <5> HIDE DEF r
        <5>1. r.id = Self
          BY <4>2 DEF r
        <5>2. ~Judgement(s, ok, r)
          BY <2>7, <4>1, <5>1 DEF Judgement
        <5> QED BY <5>2 DEF r
      <4> QED BY <4>3, <4>4
    <3>2. ~ok[q]
      BY <2>2, <2>5, <3>1
    <3> QED BY <1>2, <1>6, <2>7, <3>2 DEF q
  <2> QED BY <2>6, <2>7
<1> QED BY <1>5, <1>6

(* So a new revocation makes nobody a member, ...                            *)
LEMMA RevocationShrinks ==
    ASSUME RevokedForGood, NEW s, IsTrustSet(s), OwnRecords(s), NEW r \in Incoming, StoresRevocation(s, r)
    PROVE  LET new == AddRevocation(s, r)
           IN  /\ OwnRecords(new) /\ new.adm = s.adm
               /\ validAdmissions(new) \subseteq validAdmissions(s)
<1> DEFINE new == AddRevocation(s, r)
<1>1. r \in Revocation /\ r.identity # Root /\ r.revoker \in {Root, r.identity}
  BY DEF RevokedForGood
<1>2. /\ DOMAIN new.rev = DOMAIN s.rev \cup {r.identity} /\ new.rev[r.identity] = r
      /\ \A i \in DOMAIN s.rev \ {r.identity} : new.rev[i] = s.rev[i]
  BY <1>1, AddRevocationStores
<1>3. IsTrustSet(new) /\ new.adm = s.adm
  BY <1>1, AddRevocationType
<1> HIDE DEF new
<1>4. OwnRecords(new)
  <2>1. \A j \in DOMAIN new.rev : j # Root /\ new.rev[j].revoker \in {Root, j}
    BY <1>1, <1>2 DEF OwnRecords
  <2> QED BY <1>3, <2>1 DEF OwnRecords
<1>5. \A j \in Identity : Valid(new, j) => Valid(s, j)
  BY <1>2, <1>3, <1>4, OwnRecordsJudged
<1>6. DOMAIN s.adm \subseteq Identity
  BY DEF IsTrustSet, IsPartial
<1> QED BY <1>3, <1>4, <1>5, <1>6 DEF validAdmissions, new

(* ... and a new admission at most the one who is admitted.                  *)
LEMMA AdmissionAdds ==
    ASSUME NEW s, IsTrustSet(s), OwnRecords(s), NEW a \in Admission, a.admitter = Self, a.identity # Self
    PROVE  LET new == AddAdmission(s, a)
           IN  /\ OwnRecords(new)
               /\ validAdmissions(new) \subseteq validAdmissions(s) \cup {a.identity}
               /\ \A i \in DOMAIN new.adm \ {a.identity} : i \in DOMAIN s.adm /\ new.adm[i] = s.adm[i]
               /\ new = s \/ new.adm[a.identity] = a
<1> DEFINE new == AddAdmission(s, a)
<1>1. CASE ~StoresAdmission(s, a)
  <2>1. new = s
    BY <1>1, AddAdmissionStores
  <2> QED BY <2>1
<1>2. CASE StoresAdmission(s, a)
  <2>1. /\ DOMAIN new.adm = DOMAIN s.adm \cup {a.identity} /\ new.adm[a.identity] = a
        /\ \A i \in DOMAIN s.adm \ {a.identity} : new.adm[i] = s.adm[i]
    BY <1>2, AddAdmissionStores
  <2>2. IsTrustSet(new) /\ new.rev = s.rev
    BY <1>2, AddAdmissionType DEF AddAdmission
  <2> HIDE DEF new
  <2>3. OwnRecords(new)
    BY <2>1, <2>2 DEF OwnRecords
  <2>4. \A j \in Identity \ {a.identity} : j \in DOMAIN new.adm /\ Valid(new, j) => Valid(s, j)
    BY <2>1, <2>2, <2>3, OwnRecordsJudged
  <2>5. DOMAIN new.adm \subseteq Identity
    BY <2>2 DEF IsTrustSet, IsPartial
  <2>6. validAdmissions(new) \subseteq validAdmissions(s) \cup {a.identity}
    BY <2>1, <2>4, <2>5 DEF validAdmissions
  <2> QED BY <2>1, <2>3, <2>6 DEF new
<1> QED BY <1>1, <1>2

(* The slot that admit chooses is nobody else's.                             *)
LEMMA AdmitHostFree ==
    ASSUME IsTrustSet(set), Distinct(set), NEW j \in Identity, admitHost(j) # 0
    PROVE  \A i \in validAdmissions(set) : set.adm[i].host = admitHost(j) => i = j
<1>1. CASE j \in DOMAIN set.adm /\ Valid(set, j)
  BY <1>1 DEF admitHost, Distinct, validAdmissions
<1>2. CASE ~(j \in DOMAIN set.adm /\ Valid(set, j))
  BY <1>2, FreeHostUnused DEF admitHost
<1> QED BY <1>1, <1>2

(* The root alone shares nothing.                                            *)
LEMMA DistinctInit == Init => DistinctInv
<1> SUFFICES ASSUME Init PROVE DistinctInv
  OBVIOUS
<1>1. PICK n \in Name : n = CHOOSE m \in Name : TRUE
  BY TrustAssumption
<1> DEFINE a == SelfAdmit(Root, n, 0)
<1>2. IsTrustSet(NewSet) /\ a \in Admission /\ a.identity = Root
  BY TrustAssumption DEF TrustAssumption, NewSet, IsTrustSet, IsPartial, SelfAdmit, Admit, Admission,
     Host, Time, rootHost
<1>3. RootSet = AddAdmission(NewSet, a)
  BY <1>1 DEF RootSet
<1>4. /\ DOMAIN RootSet.adm \subseteq {Root} /\ DOMAIN RootSet.rev = {}
  <2>1. RootSet.rev = NewSet.rev
    BY <1>3 DEF AddAdmission, NewSet
  <2>2. DOMAIN RootSet.adm \subseteq {Root}
    BY <1>2, <1>3, AddAdmissionStores DEF NewSet
  <2> QED BY <2>1, <2>2 DEF NewSet
<1>5. OwnRecords(RootSet) /\ Distinct(RootSet)
  BY <1>4 DEF OwnRecords, Distinct, validAdmissions
<1> QED BY <1>5 DEF Init, DistinctInv, ChecksHold

(* Every step keeps names and slots apart.                                   *)
LEMMA DistinctNext ==
    ASSUME RevokedForGood, TypeOK, MutexInv, DurableInv, DistinctInv, [Next]_vars
    PROVE  DistinctInv'
<1> USE DEF DistinctInv
<1>1. ASSUME UNCHANGED <<set, disk, host>>, \A c \in Conn : srv'[c] \in {"named", "hosted"} => srv'[c] = srv[c]
      PROVE  DistinctInv'
  <2>1. ChecksHold'
    BY <1>1 DEF ChecksHold
  <2> QED BY <1>1, <2>1
<1>2. ASSUME NEW c \in Conn,
             \/ Client(c) \/ ReadHello(c) \/ ReadProof(c) \/ welcomeFits(c) \/ SendWelcome(c) \/ ReadAck(c)
             \/ LockState(c) \/ Timeout(c)
      PROVE  DistinctInv'
  BY <1>1, <1>2 DEF Client, Dial, SendHello, SendProof, AcceptWelcome, GiveUp, ReadHello, ReadProof,
     welcomeFits, SendWelcome, ReadAck, LockState, Timeout, Step, Refuse, admitVars, TypeOK
<1>3. ASSUME NEW c \in Conn, CheckName(c) PROVE DistinctInv'
  <2>1. UNCHANGED <<set, disk, host>>
    BY <1>3 DEF CheckName
  <2>2. \A d \in Conn \ {c} : srv'[d] = srv[d]
    BY <1>3 DEF CheckName, Step, Refuse, TypeOK
  <2>3. \/ srv'[c] = "named" /\ ~NameTaken(set, NameOf[c], Joiner[c])
        \/ srv'[c] \notin {"named", "hosted"}
    BY <1>3 DEF CheckName, Step, Refuse, TypeOK
  <2>4. ChecksHold'
    BY <2>1, <2>2, <2>3 DEF ChecksHold
  <2> QED BY <2>1, <2>4
<1>4. ASSUME NEW c \in Conn, ChooseHost(c) PROVE DistinctInv'
  <2>1. UNCHANGED <<set, disk>>
    BY <1>4 DEF ChooseHost
  <2>2. \A d \in Conn \ {c} : srv'[d] = srv[d] /\ host'[d] = host[d]
    BY <1>4 DEF ChooseHost, Step, Refuse, TypeOK
  <2>3. \/ srv'[c] \notin {"named", "hosted"}
        \/ srv[c] = "named" /\ srv'[c] = "hosted" /\ host'[c] = admitHost(Joiner[c]) /\ host'[c] # 0
    BY <1>4 DEF ChooseHost, Step, Refuse, TypeOK
  <2>4. ASSUME srv'[c] = "hosted"
        PROVE  /\ ~NameTaken(set, NameOf[c], Joiner[c])
               /\ \A i \in validAdmissions(set) : set.adm[i].host = host'[c] => i = Joiner[c]
    BY <2>3, <2>4, AdmitHostFree DEF ChecksHold, TypeOK
  <2>5. ChecksHold'
    BY <2>1, <2>2, <2>3, <2>4 DEF ChecksHold
  <2> QED BY <2>1, <2>5
<1>5. ASSUME NEW c \in Conn, SignAdmission(c) PROVE DistinctInv'
  <2> DEFINE a == Admit(Self, Joiner[c], NameOf[c], host[c], now)
             j == Joiner[c]
             V == validAdmissions(set)
             W == validAdmissions(set')
  <2>1. srv[c] = "hosted" /\ host[c] # 0 /\ set' = AddAdmission(set, a) /\ UNCHANGED <<disk, host>>
    BY <1>5 DEF SignAdmission, Step, DurableInv
  <2>2. a \in Admission /\ a.admitter = Self /\ a.identity = j /\ j # Self /\ a.name = NameOf[c] /\ a.host = host[c]
    <3>1. a \in Admission
      BY <2>1, SignedType
    <3> QED BY <3>1 DEF Admit
  <2>3. /\ OwnRecords(set') /\ W \subseteq V \cup {j}
        /\ \A i \in DOMAIN set'.adm \ {j} : i \in DOMAIN set.adm /\ set'.adm[i] = set.adm[i]
        /\ set' = set \/ set'.adm[j] = a
    <3> HIDE DEF a, j
    <3> QED BY <2>1, <2>2, AdmissionAdds DEF TypeOK
  <2>4. \A i \in V : i # j => set.adm[i].name # a.name /\ set.adm[i].host # a.host
    BY <2>1, <2>2 DEF ChecksHold, NameTaken
  <2> HIDE DEF a, j
  <2>5. W \subseteq DOMAIN set'.adm
    BY DEF validAdmissions
  <2>6. Distinct(set')
    <3>1. CASE set' = set
      BY <3>1
    <3>2. CASE set'.adm[j] = a
      <4>1. \A i \in W \ {j} : i \in V /\ set'.adm[i] = set.adm[i]
        BY <2>3, <2>5
      <4> SUFFICES ASSUME NEW i \in W, NEW k \in W,
                          set'.adm[i].host = set'.adm[k].host \/ set'.adm[i].name = set'.adm[k].name
                   PROVE  i = k
        BY DEF Distinct
      <4> HIDE DEF V, W
      <4>2. CASE i # j /\ k # j
        BY <4>1, <4>2 DEF Distinct, V
      <4>3. CASE i = j \/ k = j
        BY <2>4, <3>2, <4>1, <4>3
      <4> QED BY <4>2, <4>3
    <3> QED BY <2>3, <3>1, <3>2
  <2>7. \A d \in Conn : srv'[d] \notin {"named", "hosted"}
    BY <1>5 DEF SignAdmission, Step, TypeOK, MutexInv, Admitting
  <2> QED BY <2>1, <2>3, <2>6, <2>7 DEF ChecksHold
<1>6. ASSUME NEW c \in Conn, SaveState(c) PROVE DistinctInv'
  <2>1. UNCHANGED <<set, host>> /\ disk' \in {set, disk}
    BY <1>6 DEF SaveState
  <2>2. \A d \in Conn : srv'[d] \in {"named", "hosted"} => srv'[d] = srv[d]
    BY <1>6 DEF SaveState, Step, TypeOK
  <2>3. ChecksHold'
    BY <2>1, <2>2 DEF ChecksHold
  <2> QED BY <2>1, <2>3
<1>7. ASSUME NEW c \in Conn, ReturnRecords(c) PROVE DistinctInv'
  <2>1. UNCHANGED <<set, disk>> /\ srv'[c] = "write" /\ \A d \in Conn \ {c} : srv'[d] = srv[d] /\ host'[d] = host[d]
    BY <1>7 DEF ReturnRecords, Step, TypeOK
  <2>2. ChecksHold'
    BY <2>1 DEF ChecksHold
  <2> QED BY <2>1, <2>2
<1>8. ASSUME NEW r \in Incoming, Notify(r) PROVE DistinctInv'
  <2> DEFINE V == validAdmissions(set)
             W == validAdmissions(set')
  <2>1. StoresRevocation(set, r) /\ set' = AddRevocation(set, r) /\ UNCHANGED <<disk, host, srv>>
    BY <1>8 DEF Notify
  <2>2. OwnRecords(set') /\ set'.adm = set.adm /\ W \subseteq V
    BY <2>1, RevocationShrinks DEF TypeOK
  <2>3. Distinct(set')
    BY <2>2 DEF Distinct
  <2>4. ChecksHold'
    BY <2>1, <2>2 DEF ChecksHold, NameTaken
  <2> QED BY <2>1, <2>2, <2>3, <2>4
<1>9. CASE persist
  <2>1. UNCHANGED <<set, host, srv>> /\ disk' \in {set, disk}
    BY <1>9 DEF persist
  <2>2. ChecksHold'
    BY <2>1 DEF ChecksHold
  <2> QED BY <2>1, <2>2
<1>10. CASE Crash
  <2>1. set' = disk /\ disk' = disk /\ \A c \in Conn : srv'[c] \notin {"named", "hosted"}
    BY <1>10 DEF Crash, TypeOK, InFlight, Admitting
  <2> QED BY <2>1 DEF ChecksHold
<1>11. CASE \/ \E t \in Token : Mint(t) \/ Expire(t)
            \/ Tick
            \/ UNCHANGED vars
  BY <1>1, <1>11 DEF Mint, Expire, Tick, admitVars, vars
<1> QED
  BY <1>2, <1>3, <1>4, <1>5, <1>6, <1>7, <1>8, <1>9, <1>10, <1>11 DEF Next, Handle

(* No two members that this one has admitted share a slot or a name, with    *)
(* any number of exchanges at once, revocations arriving between the checks  *)
(* of Cluster.admit and the admission, and crashes that lose records which   *)
(* were not saved; when revocations are the root's or of the signer itself.  *)
THEOREM AdmissionsDistinctTheorem ==
    ASSUME RevokedForGood
    PROVE  Spec => []AdmissionsDistinct
<1>1. DistinctInv => AdmissionsDistinct
  BY DEF DistinctInv, Distinct, AdmissionsDistinct
<1>2. EnrolInv /\ DistinctInv /\ [Next]_vars => DistinctInv'
  BY DistinctNext DEF EnrolInv
<1> QED
  BY <1>1, <1>2, DistinctInit, EnrolInvariant, PTL DEF Spec
=============================================================================
