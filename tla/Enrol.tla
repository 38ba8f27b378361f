------------------------------- MODULE Enrol -------------------------------
(* Enrolment at one member: the token store, the exchange of internal/enrol  *)
(* run by several connections at once, and Cluster.admit under stateMu,      *)
(* while records keep arriving by gossip and the member may crash.           *)
(*                                                                           *)
(* A connection carries one message at a time, because the exchange strictly *)
(* alternates.  MACs, nonces and transcripts are left out: a joiner knows    *)
(* its token, and who is at the other end is settled by the transport.       *)
(* A record stands for one entry of the welcome, so a frame's size is the    *)
(* number of records in it.                                                  *)
EXTENDS Trust

CONSTANTS
    Self,           \* the member
    Conn,           \* enrolment connections
    Joiner,         \* the identity that dials each connection
    NameOf,         \* the name it gives in its hello
    Token, TokenOf, \* invitations, and the one each joiner was given
    Uses,           \* how many enrolments each was minted for
    MaxEnrolments,  \* transport.maxEnrolments
    MaxFrame,       \* enrol.maxFrame, in records
    Incoming,       \* records other members may send
    MaxCrash,       \* bound on crashes of the member
    MaxUnsaved      \* bound on admissions it fails to save

ASSUME EnrolAssumption ==
    /\ Self \in Identity
    /\ IsFiniteSet(Conn) /\ "none" \notin Conn
    /\ Joiner \in [Conn -> Identity \ {Self}]
    /\ NameOf \in [Conn -> Name]
    /\ TokenOf \in [Conn -> Token]
    /\ Uses \in [Token -> Nat \ {0}]
    /\ MaxEnrolments \in Nat \ {0}
    /\ MaxFrame \in Nat
    /\ MaxCrash \in Nat
    /\ MaxUnsaved \in Nat
    /\ Incoming \subseteq Revocation

VARIABLES
    now,        \* the clock
    crashes,
    set, disk,  \* the member's records, in memory and in its state file
    dirty,      \* a record arrived by gossip and has not been saved
    unsaved,    \* history: joiners whose admission the member failed to save
    minted,     \* tokens handed out
    tokens,     \* TokenStore: the uses each pending token has left
    expired,    \* tokens past their time
    stateMu,    \* the handler that holds it
    cli, srv,   \* how far joiner and member are on each connection
    msg,        \* the message under way
    host,       \* the slot admit chose
    records,    \* what admit returned, then what the welcome carries
    spent       \* history: the connections that consumed a use of each token

tokenVars == <<minted, tokens, expired, spent>>
admitVars == <<now, crashes, set, disk, dirty, unsaved, stateMu, host, records>>
vars == <<now, crashes, set, disk, dirty, unsaved, minted, tokens, expired, stateMu,
          cli, srv, msg, host, records, spent>>

None == "none"

(* Where a handler holds a slot of enrolSem, and where it holds stateMu.     *)
Admitting == {"locked", "named", "hosted", "admitted", "saved"}
InFlight == {"accept", "challenged", "consumed", "fits", "write", "welcomed"} \cup Admitting

(* Types; in particular every slot that FreeHost or an earlier admission     *)
(* gives a joiner is one of the overlay network, or 0 for none.              *)
TypeOK ==
    /\ now \in Time
    /\ crashes \in 0 .. MaxCrash
    /\ IsTrustSet(set) /\ IsTrustSet(disk)
    /\ dirty \in BOOLEAN
    /\ unsaved \subseteq Identity
    /\ minted \subseteq Token
    /\ IsPartial(tokens, Token, Nat)
    /\ expired \subseteq Token
    /\ stateMu \in Conn \cup {None}
    /\ cli \in [Conn -> {"idle", "dialled", "helloed", "proved", "enrolled", "failed"}]
    /\ srv \in [Conn -> InFlight \cup {"idle", "ended"}]
    /\ msg \in [Conn -> {None, "hello", "challenge", "proof", "refusal", "welcome", "ack"}]
    /\ host \in [Conn -> Host \cup {0}]
    /\ DOMAIN records = Conn /\ \A c \in Conn : IsTrustSet(records[c])
    /\ spent \in [Token -> SUBSET Conn]

RootSet == AddAdmission(NewSet, SelfAdmit(Root, CHOOSE n \in Name : TRUE, 0))

Init ==
    /\ now = 0 /\ crashes = 0
    /\ set = RootSet /\ disk = RootSet /\ dirty = FALSE /\ unsaved = {}
    /\ minted = {} /\ tokens = [t \in {} |-> 0] /\ expired = {}
    /\ stateMu = None
    /\ cli = [c \in Conn |-> "idle"]
    /\ srv = [c \in Conn |-> "idle"]
    /\ msg = [c \in Conn |-> None]
    /\ host = [c \in Conn |-> 0]
    /\ records = [c \in Conn |-> NewSet]
    /\ spent = [t \in Token |-> {}]

Step(pc, c, from, to) == pc[c] = from /\ pc' = [pc EXCEPT ![c] = to]
Send(c, m) == msg' = [msg EXCEPT ![c] = m]
Receive(c, m) == msg[c] = m

-----------------------------------------------------------------------------
(* The token store. *)

gc == [t \in DOMAIN tokens \ expired |-> tokens[t]]

Mint(t) ==
    /\ t \notin minted
    /\ minted' = minted \cup {t}
    /\ tokens' = Put(gc, t, Uses[t])
    /\ UNCHANGED <<expired, spent, admitVars, cli, srv, msg>>

Expire(t) ==
    /\ t \in minted \ expired
    /\ expired' = expired \cup {t}
    /\ UNCHANGED <<minted, tokens, spent, admitVars, cli, srv, msg>>

Bugconsume(c) ==
    LET t == TokenOf[c]
    IN  /\ tokens' = IF t \notin DOMAIN tokens THEN tokens
                     ELSE IF tokens[t] > 1 THEN [tokens EXCEPT ![t] = @ - 1]
                     ELSE Without(tokens, t)
        /\ spent' = [spent EXCEPT ![t] = @ \cup {c}]

CanConsume(t) == t \in DOMAIN tokens \ expired

(* consume: true, and a use is gone, if the token is still there and in time.*)
consume(c) ==
    LET t == TokenOf[c]
    IN  /\ CanConsume(t)
        /\ tokens' = IF tokens[t] > 1 THEN [tokens EXCEPT ![t] = @ - 1] ELSE Without(tokens, t)
        /\ spent' = [spent EXCEPT ![t] = @ \cup {c}]

-----------------------------------------------------------------------------
(* The joiner: Join. *)

(* The agent tries one member address after another, so a joiner has one     *)
(* connection at a time.  The member takes it in if a slot is free.          *)
Dial(c) ==
    /\ cli[c] = "idle" /\ TokenOf[c] \in minted
    /\ \A d \in Conn \ {c} : Joiner[d] = Joiner[c] => cli[d] \in {"idle", "failed"}
    /\ IF Cardinality({d \in Conn : srv[d] \in InFlight}) < MaxEnrolments
       THEN /\ cli' = [cli EXCEPT ![c] = "dialled"]
            /\ srv' = [srv EXCEPT ![c] = "accept"]
       ELSE /\ cli' = [cli EXCEPT ![c] = "failed"]      \* busy
            /\ UNCHANGED srv
    /\ UNCHANGED <<tokenVars, admitVars, msg>>

SendHello(c) ==
    /\ Step(cli, c, "dialled", "helloed")
    /\ Send(c, "hello")
    /\ UNCHANGED <<tokenVars, admitVars, srv>>

SendProof(c) ==
    /\ Receive(c, "challenge")
    /\ Step(cli, c, "helloed", "proved")
    /\ Send(c, "proof")
    /\ UNCHANGED <<tokenVars, admitVars, srv>>

(* The welcome is believed only as far as its records prove it.              *)
AcceptWelcome(c) ==
    /\ Receive(c, "welcome")
    /\ Valid(records[c], Self) /\ Valid(records[c], Joiner[c])
    /\ Step(cli, c, "proved", "enrolled")
    /\ Send(c, "ack")
    /\ UNCHANGED <<tokenVars, admitVars, srv>>

(* A refusal, a welcome that does not check out, a closed connection, the    *)
(* deadline, or a joiner that stops.                                         *)
GiveUp(c) ==
    /\ cli[c] \in {"dialled", "helloed", "proved"}
    /\ cli' = [cli EXCEPT ![c] = "failed"]
    /\ UNCHANGED <<tokenVars, admitVars, srv, msg>>

-----------------------------------------------------------------------------
(* The member: Server.handle. *)

ReadHello(c) ==
    /\ Receive(c, "hello")
    /\ tokens' = gc
    /\ \/ /\ TokenOf[c] \in DOMAIN gc
          /\ Step(srv, c, "accept", "challenged")
          /\ Send(c, "challenge")
       \/ /\ TokenOf[c] \notin DOMAIN gc                \* errSilent
          /\ Step(srv, c, "accept", "ended")
          /\ UNCHANGED msg
    /\ UNCHANGED <<minted, expired, spent, admitVars, cli>>

ReadProof(c) ==
    /\ Receive(c, "proof")
    /\ \/ /\ consume(c)
          /\ Step(srv, c, "challenged", "consumed")
       \/ /\ ~CanConsume(TokenOf[c])
          /\ Step(srv, c, "challenged", "ended")
          /\ UNCHANGED <<tokens, spent>>
    /\ UNCHANGED <<minted, expired, admitVars, cli, msg>>

Size(s) == Cardinality(DOMAIN s.adm) + Cardinality(DOMAIN s.rev)

Refuse(c, from) ==
    /\ Step(srv, c, from, "ended")
    /\ Send(c, "refusal")

welcomeFits(c) ==
    /\ \/ /\ Size(set) + 1 <= MaxFrame
          /\ Step(srv, c, "consumed", "fits")
          /\ UNCHANGED msg
       \/ /\ Size(set) + 1 > MaxFrame
          /\ Refuse(c, "consumed")
    /\ UNCHANGED <<tokenVars, admitVars, cli>>

SendWelcome(c) ==
    /\ \/ /\ Size(records[c]) <= MaxFrame
          /\ Step(srv, c, "write", "welcomed")
          /\ Send(c, "welcome")
       \/ /\ Size(records[c]) > MaxFrame                \* frame too large
          /\ Step(srv, c, "write", "ended")
          /\ UNCHANGED msg
    /\ UNCHANGED <<tokenVars, admitVars, cli>>

ReadAck(c) ==
    /\ Receive(c, "ack")
    /\ Step(srv, c, "welcomed", "ended")
    /\ UNCHANGED <<tokenVars, admitVars, cli, msg>>

BugTimeout(c) ==
    /\ srv[c] \in {"challenged", "welcomed"}
    /\ srv' = [srv EXCEPT ![c] = "ended"]
    /\ UNCHANGED <<tokenVars, admitVars, cli, msg>>

(* The stream does not come within enrolWait, or the exchange does not end   *)
(* within exchangeTime.                                                      *)
Timeout(c) ==
    /\ srv[c] \in {"accept", "challenged", "welcomed"}
    /\ srv' = [srv EXCEPT ![c] = "ended"]
    /\ UNCHANGED <<tokenVars, admitVars, cli, msg>>

-----------------------------------------------------------------------------
(* The member: Cluster.admit. *)

BugLockState(c) ==
    /\ Step(srv, c, "fits", "locked")
    /\ stateMu' = c
    /\ UNCHANGED <<now, crashes, set, disk, dirty, unsaved, host, records, tokenVars, cli, msg>>

LockState(c) ==
    /\ stateMu = None
    /\ Step(srv, c, "fits", "locked")
    /\ stateMu' = c
    /\ UNCHANGED <<now, crashes, set, disk, dirty, unsaved, host, records, tokenVars, cli, msg>>

CheckName(c) ==
    /\ \/ /\ ~NameTaken(set, NameOf[c], Joiner[c])
          /\ Step(srv, c, "locked", "named")
          /\ UNCHANGED <<msg, stateMu>>
       \/ /\ NameTaken(set, NameOf[c], Joiner[c])
          /\ Refuse(c, "locked")
          /\ stateMu' = None
    /\ UNCHANGED <<now, crashes, set, disk, dirty, unsaved, host, records, tokenVars, cli>>

admitHost(j) == IF j \in DOMAIN set.adm /\ Valid(set, j) THEN set.adm[j].host ELSE FreeHost(set)

ChooseHost(c) ==
    /\ \/ /\ admitHost(Joiner[c]) # 0
          /\ Step(srv, c, "named", "hosted")
          /\ host' = [host EXCEPT ![c] = admitHost(Joiner[c])]
          /\ UNCHANGED <<msg, stateMu>>
       \/ /\ admitHost(Joiner[c]) = 0                   \* ErrOverlayFull
          /\ Refuse(c, "named")
          /\ stateMu' = None
          /\ UNCHANGED host
    /\ UNCHANGED <<now, crashes, set, disk, dirty, unsaved, records, tokenVars, cli>>

SignAdmission(c) ==
    /\ Step(srv, c, "hosted", "admitted")
    /\ set' = AddAdmission(set, Admit(Self, Joiner[c], NameOf[c], host[c], now))
    /\ UNCHANGED <<now, crashes, disk, dirty, unsaved, stateMu, host, records, tokenVars, cli, msg>>

BugSaveState(c) ==
    /\ Step(srv, c, "admitted", "saved")
    /\ UNCHANGED <<admitVars, tokenVars, cli, msg>>

(* saveState: an error of the file system is logged, and the exchange goes   *)
(* on as if the file had been written.                                       *)
SaveState(c) ==
    /\ Step(srv, c, "admitted", "saved")
    /\ \/ disk' = set /\ UNCHANGED unsaved
       \/ /\ Cardinality(unsaved) < MaxUnsaved
          /\ unsaved' = unsaved \cup {Joiner[c]}
          /\ UNCHANGED disk
    /\ UNCHANGED <<now, crashes, set, dirty, stateMu, host, records, tokenVars, cli, msg>>

ReturnRecords(c) ==
    /\ Step(srv, c, "saved", "write")
    /\ records' = [records EXCEPT ![c] = set]
    /\ host' = [host EXCEPT ![c] = 0]
    /\ stateMu' = None
    /\ UNCHANGED <<now, crashes, set, disk, dirty, unsaved, tokenVars, cli, msg>>

-----------------------------------------------------------------------------
(* Meanwhile. *)

(* NotifyMsg stores the record without stateMu and then takes it to save.    *)
Notify(r) ==
    /\ StoresRevocation(set, r)
    /\ set' = AddRevocation(set, r)
    /\ dirty' = TRUE
    /\ UNCHANGED <<now, crashes, disk, unsaved, stateMu, host, records, tokenVars, cli, srv, msg>>

persist ==
    /\ dirty /\ stateMu = None
    /\ disk' \in {set, disk}
    /\ dirty' = FALSE
    /\ UNCHANGED <<now, crashes, set, unsaved, stateMu, host, records, tokenVars, cli, srv, msg>>

Tick ==
    /\ now < MaxTime
    /\ now' = now + 1
    /\ UNCHANGED <<crashes, set, disk, dirty, unsaved, stateMu, host, records, tokenVars, cli, srv, msg>>

(* The member's agent dies and is started again: tokens and connections are  *)
(* gone, the records are those of the state file.                            *)
Crash ==
    /\ crashes < MaxCrash
    /\ crashes' = crashes + 1
    /\ set' = disk
    /\ dirty' = FALSE
    /\ tokens' = [t \in {} |-> 0]
    /\ stateMu' = None
    /\ host' = [c \in Conn |-> 0]
    /\ srv' = [c \in Conn |-> IF srv[c] \in InFlight THEN "ended" ELSE srv[c]]
    /\ UNCHANGED <<now, disk, unsaved, records, minted, expired, spent, cli, msg>>

Client(c) == Dial(c) \/ SendHello(c) \/ SendProof(c) \/ AcceptWelcome(c) \/ GiveUp(c)

Handle(c) ==
    \/ ReadHello(c) \/ ReadProof(c) \/ welcomeFits(c) \/ SendWelcome(c) \/ ReadAck(c)
    \/ LockState(c) \/ CheckName(c) \/ ChooseHost(c) \/ SignAdmission(c) \/ SaveState(c)
    \/ ReturnRecords(c) \/ Timeout(c)

Next ==
    \/ \E t \in Token : Mint(t) \/ Expire(t)
    \/ \E c \in Conn : Client(c) \/ Handle(c)
    \/ \E r \in Incoming : Notify(r)
    \/ persist \/ Tick \/ Crash

Spec == Init /\ [][Next]_vars

(* A handler is a goroutine that runs whenever it can; what it waits for     *)
(* from the joiner is bounded by a deadline, what it waits for from other    *)
(* handlers is stateMu, which Go hands to every waiter in the end.           *)
FairSpec == Spec /\ \A c \in Conn : WF_vars(Handle(c)) /\ SF_vars(LockState(c))

-----------------------------------------------------------------------------
(* A token admits at most as many nodes as it was minted for, however many   *)
(* exchanges prove it at once (both pass lookup; consume decides).           *)
TokenUsesBound == \A t \in Token : Cardinality(spent[t]) <= Uses[t]

(* Two different nodes admitted by this member, and not revoked, never share *)
(* a slot or a name: the checks and the admission they lead to are one step  *)
(* under stateMu ("two joiners cannot be handed the same slot").             *)
AdmissionsDistinct ==
    \A i, j \in validAdmissions(set) :
        set.adm[i].host = set.adm[j].host \/ set.adm[i].name = set.adm[j].name => i = j

(* A joiner that believes it is a member is known to the member that         *)
(* admitted it, also after a crash of that member at any point: the          *)
(* admission is in the state file before the welcome is sent, unless writing *)
(* the file failed.                                                          *)
WelcomeIsDurable ==
    \A c \in Conn : cli[c] = "enrolled" => Joiner[c] \in DOMAIN disk.adm \cup unsaved

(* Why those two hold.  A use of a token is either left or spent, and only   *)
(* tokens that were minted are pending.                                      *)
TokenInv ==
    /\ DOMAIN tokens \subseteq minted
    /\ \A t \in Token : t \notin minted => spent[t] = {}
    /\ \A t \in DOMAIN tokens : tokens[t] # 0 /\ Cardinality(spent[t]) + tokens[t] <= Uses[t]
    /\ TokenUsesBound

(* stateMu is held by the one handler inside admit, and there is no handler  *)
(* before the joiner has dialled.                                            *)
MutexInv ==
    \A c \in Conn : /\ srv[c] \in Admitting <=> stateMu = c
                    /\ cli[c] = "idle" => srv[c] = "idle"

(* The file lags behind memory, but not behind what a joiner may have seen.  *)
DurableInv ==
    /\ DOMAIN disk.adm \subseteq DOMAIN set.adm
    /\ \A c \in Conn : srv[c] = "hosted" => host[c] # 0
    /\ \A c \in Conn : srv[c] = "admitted" => Joiner[c] \in DOMAIN set.adm
    /\ \A c \in Conn :
          srv[c] \in {"saved", "write", "welcomed"} \/ msg[c] \in {"welcome", "ack"} =>
              Joiner[c] \in DOMAIN disk.adm \cup unsaved
    /\ WelcomeIsDurable

(* The inductive invariant of enrolment: the three together (TokenStore,     *)
(* Cluster.admit, saveState).                                                *)
EnrolInv == TypeOK /\ TokenInv /\ MutexInv /\ DurableInv

(* Every handler ends, so enrolment slots are not lost to joiners that go    *)
(* silent (enrolWait, exchangeTime).                                         *)
HandlersEnd == \A c \in Conn : srv[c] \in InFlight ~> srv[c] = "ended"
=============================================================================
