---------------------------- MODULE AgentProofs ----------------------------
(* Theorems about the agent's life cycle: who answers a control request, how *)
(* late a leave is answered, and that an admitted identity is not lost.      *)
(* They hold for any requests, any number of starts and any set of faults.   *)
EXTENDS Agent, TLAPS

USE DEF leaving, system, disk, node, control, history, vars

(* The part of Run during which a control server exists: from Listen up to   *)
(* the end of its deferred Close.                                            *)
Serving == {"join", "loop", "leave", "hosts", "down", "forget", "done", "close", "wait"}

(* The steps a leave handler is in once RevokeSelf has stored the record, or *)
(* the failure to has been passed over.                                      *)
Leaving == {"revoking", "revokedSelf", "requested", "waiting"}

(* Nothing is handled without a server, and no server outlives its Run: a    *)
(* handler cannot see the fresh state of the next start.                     *)
ServerInv == ctl # "none" => main \in Serving

(* A leave is handled by an agent whose set holds the revocation, unless it  *)
(* was forced without one.                                                   *)
RevokedInv == \A r \in Req : req[r] \in Leaving => revoked \/ r \in unrevoked

(* leaving.done is closed after the Cluster has left, and it is Run's last   *)
(* step but those of Close.  A crash keeps it until the next start.          *)
DoneInv ==
    /\ main \in {"hosts", "down", "forget", "done", "close", "wait"} => cluster = "left"
    /\ done /\ main \in Running => main \in {"close", "wait"}

(* Between Load and the admission the seed is in the file, unless somebody   *)
(* forced it away.                                                           *)
SeedInv == main = "bootstrap" /\ file = "none" => abandoned

AgentInv ==
    /\ HandlersAnswer /\ ServerInv /\ RevokedInv /\ DoneInv
    /\ SeedInv /\ IdentityKept

-----------------------------------------------------------------------------
(* An agent that has not begun satisfies the invariant.                      *)
LEMMA AgentInitInv == Init => AgentInv
<1> SUFFICES ASSUME Init PROVE AgentInv
  OBVIOUS
<1> USE DEF Init, Running, Handling, Serving, Leaving
<1>1. starts \in 0 .. MaxStart
  BY AgentAssumption DEF AgentAssumption
<1>2. TypeOK
  BY <1>1 DEF TypeOK
<1> QED BY <1>2 DEF AgentInv, HandlersAnswer, ServerInv, RevokedInv, DoneInv, SeedInv, IdentityKept

(* Run's steps and what happens to the process from outside.                 *)
LEMMA AgentRunKeepsInv ==
    ASSUME AgentInv, Start \/ Run \/ Apply \/ Signal \/ Crash \/ forced
    PROVE  AgentInv'
<1> USE DEF AgentInv, HandlersAnswer, Running, Handling, Serving, Leaving, Goto, Saved
<1>1. CASE Start
  <2>1. TypeOK'
    <3>1. starts' \in 0 .. MaxStart
      BY <1>1, AgentAssumption DEF AgentAssumption, Start, TypeOK
    <3> QED BY <1>1, <3>1 DEF Start, TypeOK
  <2>2. \A r \in Req : req'[r] \in Handling => ctl' # "none"
    BY <1>1 DEF Start, TypeOK, ServerInv
  <2>3. ServerInv' /\ DoneInv' /\ SeedInv' /\ IdentityKept'
    BY <1>1 DEF Start, TypeOK, ServerInv, DoneInv, SeedInv, IdentityKept
  <2>4. RevokedInv'
    BY <1>1 DEF Start, TypeOK, ServerInv, RevokedInv
  <2> QED BY <2>1, <2>2, <2>3, <2>4
<1>2. CASE Load
  BY <1>2 DEF Load, TypeOK, ServerInv, RevokedInv, DoneInv, SeedInv, IdentityKept
<1>3. CASE Bootstrap
  BY <1>3 DEF Bootstrap, TypeOK, ServerInv, RevokedInv, DoneInv, SeedInv, IdentityKept
<1>4. CASE Idle
  BY <1>4 DEF Idle, TypeOK, ServerInv, RevokedInv, DoneInv, SeedInv, IdentityKept
<1>5. CASE New
  BY <1>5 DEF New, TypeOK, ServerInv, RevokedInv, DoneInv, SeedInv, IdentityKept
<1>6. CASE NewFails
  BY <1>6 DEF NewFails, TypeOK, ServerInv, RevokedInv, DoneInv, SeedInv, IdentityKept
<1>7. CASE Listen
  BY <1>7 DEF Listen, TypeOK, ServerInv, RevokedInv, DoneInv, SeedInv, IdentityKept
<1>8. CASE Join
  BY <1>8 DEF Join, TypeOK, ServerInv, RevokedInv, DoneInv, SeedInv, IdentityKept
<1>9. CASE Terminate
  BY <1>9 DEF Terminate, TypeOK, ServerInv, RevokedInv, DoneInv, SeedInv, IdentityKept
<1>10. CASE LeaveCluster
  BY <1>10 DEF LeaveCluster, TypeOK, ServerInv, RevokedInv, DoneInv, SeedInv, IdentityKept
<1>11. CASE RemoveHosts
  BY <1>11 DEF RemoveHosts, TypeOK, ServerInv, RevokedInv, DoneInv, SeedInv, IdentityKept
<1>12. CASE DownInterface
  BY <1>12 DEF DownInterface, TypeOK, ServerInv, RevokedInv, DoneInv, SeedInv, IdentityKept
<1>13. CASE forget
  BY <1>13 DEF forget, TypeOK, ServerInv, RevokedInv, DoneInv, SeedInv, IdentityKept
<1>14. CASE CloseDone
  BY <1>14 DEF CloseDone, TypeOK, ServerInv, RevokedInv, DoneInv, SeedInv, IdentityKept
<1>15. CASE Close
  BY <1>15 DEF Close, TypeOK, ServerInv, RevokedInv, DoneInv, SeedInv, IdentityKept
<1>16. CASE CloseWait
  BY <1>16 DEF CloseWait, TypeOK, ServerInv, RevokedInv, DoneInv, SeedInv, IdentityKept
<1>17. CASE Apply
  <2>1. TypeOK'
    BY <1>17 DEF Apply, TypeOK
  <2>2. \A r \in Req : req'[r] \in Handling => ctl' # "none"
    BY <1>17 DEF Apply, TypeOK, ServerInv
  <2>3. ServerInv' /\ DoneInv' /\ SeedInv' /\ IdentityKept'
    BY <1>17 DEF Apply, TypeOK, ServerInv, DoneInv, SeedInv, IdentityKept
  <2>4. RevokedInv'
    BY <1>17 DEF Apply, TypeOK, ServerInv, RevokedInv
  <2> QED BY <2>1, <2>2, <2>3, <2>4
<1>18. CASE Signal
  BY <1>18 DEF Signal, TypeOK, ServerInv, RevokedInv, DoneInv, SeedInv, IdentityKept
<1>19. CASE Crash
  BY <1>19 DEF Crash, TypeOK, ServerInv, RevokedInv, DoneInv, SeedInv, IdentityKept
<1>20. CASE forced
  <2>1. TypeOK'
    <3>1. file' \in {"none", "seed", "member", "revoked"} /\ {iface', hosts', abandoned'} \subseteq BOOLEAN
      BY <1>20 DEF forced, TypeOK
    <3> QED BY <1>20, <3>1 DEF forced, TypeOK
  <2>2. \A r \in Req : req'[r] \in Handling => ctl' # "none"
    BY <1>20 DEF forced, TypeOK, ServerInv
  <2>3. ServerInv' /\ DoneInv' /\ SeedInv' /\ IdentityKept'
    BY <1>20 DEF forced, TypeOK, ServerInv, DoneInv, SeedInv, IdentityKept
  <2>4. RevokedInv'
    BY <1>20 DEF forced, TypeOK, ServerInv, RevokedInv
  <2> QED BY <2>1, <2>2, <2>3, <2>4
<1> QED BY <1>1, <1>2, <1>3, <1>4, <1>5, <1>6, <1>7, <1>8, <1>9, <1>10, <1>11, <1>12, <1>13, <1>14, <1>15, <1>16, <1>17, <1>18, <1>19, <1>20 DEF Run

(* The steps of the control server's handlers.                               *)
LEMMA AgentServeKeepsInv ==
    ASSUME AgentInv, NEW r \in Req, Connect(r) \/ Serve(r)
    PROVE  AgentInv'
<1> USE DEF AgentInv, HandlersAnswer, Running, Handling, Serving, Leaving, Move, Answer, Saved
<1>1. CASE Connect(r)
  BY <1>1 DEF Connect, TypeOK, ServerInv, RevokedInv, DoneInv, SeedInv, IdentityKept
<1>2. CASE Track(r)
  BY <1>2 DEF Track, TypeOK, ServerInv, RevokedInv, DoneInv, SeedInv, IdentityKept
<1>3. CASE Invite(r)
  BY <1>3 DEF Invite, TypeOK, ServerInv, RevokedInv, DoneInv, SeedInv, IdentityKept
<1>4. CASE Revoke(r)
  BY <1>4 DEF Revoke, TypeOK, ServerInv, RevokedInv, DoneInv, SeedInv, IdentityKept
<1>5. CASE RevokeSelf(r)
  BY <1>5 DEF RevokeSelf, TypeOK, ServerInv, RevokedInv, DoneInv, SeedInv, IdentityKept
<1>6. CASE PersistSelf(r)
  BY <1>6 DEF PersistSelf, TypeOK, ServerInv, RevokedInv, DoneInv, SeedInv, IdentityKept
<1>7. CASE Request(r)
  BY <1>7 DEF Request, TypeOK, ServerInv, RevokedInv, DoneInv, SeedInv, IdentityKept
<1>8. CASE StopAgent(r)
  BY <1>8 DEF StopAgent, TypeOK, ServerInv, RevokedInv, DoneInv, SeedInv, IdentityKept
<1>9. CASE WaitDone(r)
  BY <1>9 DEF WaitDone, TypeOK, ServerInv, RevokedInv, DoneInv, SeedInv, IdentityKept
<1>10. CASE RevokeSelfFails(r)
  BY <1>10 DEF RevokeSelfFails, TypeOK, ServerInv, RevokedInv, DoneInv, SeedInv, IdentityKept
<1> QED BY <1>1, <1>2, <1>3, <1>4, <1>5, <1>6, <1>7, <1>8, <1>9, <1>10 DEF Serve

(* Every step of the agent, its handlers and its clients keeps the           *)
(* invariant.                                                                *)
LEMMA AgentNextInv == AgentInv /\ [Next]_vars => AgentInv'
<1> SUFFICES ASSUME AgentInv, [Next]_vars PROVE AgentInv'
  OBVIOUS
<1>1. CASE UNCHANGED vars
  BY <1>1 DEF AgentInv, HandlersAnswer, TypeOK, ServerInv, RevokedInv, DoneInv, SeedInv, IdentityKept
<1>2. CASE Next
  BY <1>2, AgentRunKeepsInv, AgentServeKeepsInv DEF Next
<1> QED BY <1>1, <1>2

(* The inductive invariant holds of every behaviour of the agent.            *)
THEOREM AgentInvariant == Spec => []AgentInv
BY AgentInitInv, AgentNextInv, PTL DEF Spec

(* Server.Close waits for the requests it has taken on: a handler never runs *)
(* without its server, whatever stops the agent.                             *)
THEOREM HandlersAnswerTheorem == Spec => []HandlersAnswer
<1>1. AgentInv => HandlersAnswer
  BY DEF AgentInv
<1> QED BY <1>1, AgentInvariant, PTL

(* An identity that a cluster has admitted is in the state file, unless it   *)
(* was deleted on purpose (Load saves the seed before anybody can admit it). *)
THEOREM IdentityKeptTheorem == Spec => []IdentityKept
<1>1. AgentInv => IdentityKept
  BY DEF AgentInv
<1> QED BY <1>1, AgentInvariant, PTL

(* A leave that is not refused is answered by an agent which is out of the   *)
(* gossip ring and whose set holds the revocation, unless it was forced      *)
(* without one, whatever signal or failure got in between.                   *)
THEOREM LeaveAnsweredLastTheorem == Spec => LeaveAnsweredLast
<1> USE DEF Tells
<1>1. ASSUME AgentInv, [Next]_vars, NEW r \in Req, Tells(r, {"ok", "error"})
      PROVE  Refused(r) \/ (cluster = "left" /\ (revoked \/ r \in unrevoked))
  <2> USE DEF AgentInv, HandlersAnswer, TypeOK
  <2>1. PICK q \in Req : Invite(q) \/ Revoke(q) \/ RevokeSelfFails(q) \/ WaitDone(q)
    BY <1>1 DEF Next, Run, Serve, Start, Load, Bootstrap, Idle, New, NewFails, Listen, Join, Terminate,
       LeaveCluster, RemoveHosts, DownInterface, forget, CloseDone, Close, CloseWait, Apply, Signal, Crash,
       forced, Connect, Track, RevokeSelf, PersistSelf, Request, StopAgent, Goto, Move, Answer
  <2>2. q = r
    BY <1>1, <2>1 DEF Invite, Revoke, RevokeSelfFails, WaitDone, Answer, Move
  <2>3. RevokeSelfFails(r) \/ WaitDone(r)
    BY <1>1, <2>1, <2>2 DEF Invite, Revoke
  <2>4. CASE RevokeSelfFails(r)
    BY <1>1, <2>4 DEF RevokeSelfFails, Refused, Answer, Move
  <2>5. CASE WaitDone(r)
    <3>1. req[r] = "waiting" /\ done
      BY <2>5 DEF WaitDone, Answer, Move
    <3>2. revoked \/ r \in unrevoked
      BY <1>1, <3>1 DEF RevokedInv, Leaving
    <3>3. main \in {"close", "wait"}
      BY <1>1, <3>1 DEF ServerInv, Serving, DoneInv, Handling, Running
    <3> QED BY <1>1, <3>2, <3>3 DEF DoneInv
  <2> QED BY <2>3, <2>4, <2>5
<1>2. AgentInv /\ [Next]_vars =>
        [\A r \in Req : Tells(r, {"ok", "error"}) =>
            Refused(r) \/ (cluster = "left" /\ (revoked \/ r \in unrevoked))]_vars
  BY <1>1
<1> QED BY <1>2, AgentInvariant, PTL DEF Spec, LeaveAnsweredLast
=============================================================================
