--------------------------- MODULE WindowsService ---------------------------
(* The agent as a Windows service: the service's handler and the agent, two  *)
(* goroutines, both report to the Service Control Manager over one channel,  *)
(* while the manager asks for the state and for a stop.                      *)
EXTENDS Naturals

CONSTANT MaxRequest     \* bound on the manager's requests

ASSUME ServiceAssumption == MaxRequest \in Nat

VARIABLES
    reported,   \* what the manager was last told
    request,    \* what the manager asks for and svc.Run offers to the handler
    current,    \* CurrentStatus in that offer: the status when the request was taken
    handler,    \* where service.Execute is
    held,       \* r.CurrentStatus of the request it answers
    running,    \* where the agent is
    cancelled,  \* whether the agent's context is done
    done,       \* whether the agent's result is in the channel of that name
    requests

serviceVars == <<reported, request, current, handler, held, running, cancelled, done, requests>>

Stops == {"stop", "shutdown"}

(* What goes with each status: only a running service accepts a stop.        *)
Accepts(status) == IF status = "running" THEN Stops ELSE {}

ServiceInit ==
    /\ reported = "none" /\ request = "none" /\ current = "none" /\ held = "none"
    /\ handler = "begin" /\ running = "off"
    /\ cancelled = FALSE /\ done = FALSE /\ requests = 0

(* svc.Run takes a request from the manager, which asks for the state at any *)
(* time and for a stop when the status says so, and offers it to the handler *)
(* with the status of the moment.                                            *)
Control(cmd) ==
    /\ request = "none" /\ handler \notin {"begin", "returned"}
    /\ requests < MaxRequest
    /\ cmd \in {"interrogate"} \cup Accepts(reported)
    /\ request' = cmd
    /\ current' = reported
    /\ requests' = requests + 1
    /\ UNCHANGED <<reported, handler, held, running, cancelled, done>>

-----------------------------------------------------------------------------
(* service.Execute.  svc.Run is always there to receive, so a send takes one *)
(* step.                                                                     *)

Execute ==
    /\ handler = "begin" /\ handler' = "select"
    /\ reported' = "start pending"
    /\ running' = "starting"
    /\ UNCHANGED <<request, current, held, cancelled, done, requests>>

Interrogate ==
    /\ handler = "select" /\ request = "interrogate"
    /\ handler' = "answer"
    /\ held' = current
    /\ request' = "none"
    /\ UNCHANGED <<reported, current, running, cancelled, done, requests>>

Answer ==
    /\ handler = "answer" /\ handler' = "select"
    /\ reported' = held
    /\ UNCHANGED <<request, current, held, running, cancelled, done, requests>>

BugStop ==
    /\ handler = "select" /\ request \in Stops
    /\ request' = "none"
    /\ cancelled' = (cancelled \/ request = "stop")
    /\ UNCHANGED <<reported, current, handler, held, running, done, requests>>

Stop ==
    /\ handler = "select" /\ request \in Stops
    /\ request' = "none"
    /\ cancelled' = TRUE
    /\ UNCHANGED <<reported, current, handler, held, running, done, requests>>

BugServiceEnds ==
    /\ handler = "select" /\ (done \/ cancelled)
    /\ handler' = "returned"
    /\ reported' = "stopped"
    /\ cancelled' = TRUE
    /\ UNCHANGED <<request, current, held, running, done, requests>>

(* The agent has returned; cancel is deferred.                               *)
ServiceEnds ==
    /\ handler = "select" /\ done
    /\ handler' = "returned"
    /\ reported' = "stopped"
    /\ cancelled' = TRUE
    /\ UNCHANGED <<request, current, held, running, done, requests>>

-----------------------------------------------------------------------------
(* The agent, and what it reports through notify.SCM. *)

(* The first snapshot has been applied (SCM.Ready).                          *)
Ready ==
    /\ running = "starting" /\ running' = "running"
    /\ reported' = "running"
    /\ UNCHANGED <<request, current, handler, held, cancelled, done, requests>>

(* The loop sees its context done, by the manager or by a leave              *)
(* (SCM.Stopping).                                                           *)
Stopping ==
    /\ running \in {"starting", "running"} /\ running' = "stopping"
    /\ reported' = "stop pending"
    /\ UNCHANGED <<request, current, handler, held, cancelled, done, requests>>

RunReturns ==
    /\ running' = "ended" /\ done' = TRUE
    /\ UNCHANGED <<reported, request, current, handler, held, cancelled, requests>>

ServiceNext ==
    \/ \E cmd \in {"interrogate"} \cup Stops : Control(cmd)
    \/ Execute \/ Interrogate \/ Answer \/ Stop \/ ServiceEnds
    \/ Ready \/ Stopping
    \/ running = "stopping" /\ RunReturns
    \/ running \in {"starting", "running"} /\ RunReturns    \* with an error, or before the loop

HandlerStep == Execute \/ Interrogate \/ Answer \/ Stop \/ ServiceEnds
AgentStep == (cancelled /\ Stopping) \/ (running = "stopping" /\ RunReturns)

(* Both goroutines run; an agent whose context is done stops.                *)
ServiceSpec ==
    /\ ServiceInit /\ [][ServiceNext]_serviceVars
    /\ WF_serviceVars(HandlerStep) /\ WF_serviceVars(AgentStep)

-----------------------------------------------------------------------------
(* The manager is told that the service has stopped only when the agent has  *)
(* ended, its interface down, and is told nothing after that: neither the    *)
(* agent nor a request answered late reports once Execute has returned,      *)
(* where nobody would receive it.                                            *)
StoppedIsLast ==
    /\ reported = "stopped" => running = "ended"
    /\ handler = "returned" => reported = "stopped"

(* A stop, or a shutdown, that the manager asks for ends the service, which  *)
(* says so, whatever else is asked meanwhile (Execute: "stops when the       *)
(* manager says so").                                                        *)
StopIsObeyed == request \in Stops ~> reported = "stopped"
=============================================================================
