------------------------------- MODULE Shutdown --------------------------------
(***************************************************************************)
(* main (cmd/praetor-server/main.go) from the moment that everything is    *)
(* started: it waits for a signal, stops the gRPC server gracefully or by  *)
(* force, shuts the HTTP server down with what is left of the SAME ten     *)
(* seconds, and closes the database pool.  Streams, their goroutines and   *)
(* the jobs of handleMessage go on meanwhile, as Telemetry has them; no    *)
(* part of the sequence waits for jobs, only the pool for its connections. *)
(***************************************************************************)
EXTENDS Telemetry

CONSTANT Requests   \* places for requests to the REST API at one time

VARIABLES
  main,    \* where main is
  how,     \* the branch that ended the select on GracefulStop
  late,    \* shutdownCtx is over
  api      \* where the handler of a REST request is

mainVars == <<main, how, late, api>>
serverVars == <<allTeleVars, mainVars>>

MainPhases == {"up",       \* waiting for the signal
               "grpc",     \* GracefulStop under way
               "stop",     \* in grpcServer.Stop
               "http",     \* in httpServer.Shutdown
               "closing",  \* in the deferred db.Close: nothing is acquired any more
               "exited"}

InHandler == {"active",    \* accepted, no database connection
              "query",     \* holds a connection
              "ready"}     \* the answer is still to be written

ServerTypeOK ==
  /\ TelemetryTypeOK
  /\ main \in MainPhases
  /\ how \in {"none", "graceful", "forced"}
  /\ late \in BOOLEAN
  /\ api \in [Requests -> InHandler \cup {"idle", "cut"}]

ShutdownInit ==
  /\ TelemetryInit
  /\ main = "up"
  /\ how = "none"
  /\ late = FALSE
  /\ api = [r \in Requests |-> "idle"]

OpenWire(s) == wire[s] \in {"open", "halfClosed"}
Returned(s) == phase[s] \in {"idle", "gone"}

-----------------------------------------------------------------------------
(***************************************************************************)
(* Streams and jobs, as long as the process is there.                      *)
(***************************************************************************)

\* The listener is closed when GracefulStop begins.
AcceptStream(s, h) ==
  /\ main = "up"
  /\ Open(s, h)
  /\ UNCHANGED <<chanVars, teleVars, mainVars>>

StreamEvent(s) ==
  /\ \/ (HalfClose(s) \/ Break(s)) /\ UNCHANGED chanVars
     \/ AgentSends(s)
  /\ UNCHANGED <<teleVars, mainVars>>

ReceiverStep(s) == Receiver(s) /\ UNCHANGED <<teleVars, mainVars>>

\* The goroutine of Connect.
HandlerStep(s) ==
  /\ \/ (StartConnect(s) \/ EndConnect(s)) /\ UNCHANGED teleVars
     \/ TeleLoop(s)
  /\ UNCHANGED mainVars

\* A closed pool lets no statement begin: Acquire fails, which GiveUp stands for.
UsesPool(j) == j.body.kind \in {"event", "result"}

JobStep(j) ==
  /\ \/ GiveUp(j)
     \/ Begin(j) /\ (UsesPool(j) => main # "closing")
  /\ UNCHANGED mainVars

StoreStep(j) == ByStore(j) /\ UNCHANGED mainVars

(***************************************************************************)
(* The REST API.                                                           *)
(***************************************************************************)
ApiGoto(r, from, to) ==
  /\ api[r] = from
  /\ api' = [api EXCEPT ![r] = to]
  /\ UNCHANGED <<allTeleVars, main, how, late>>

\* The HTTP listener stays open while the gRPC server is being stopped.
AcceptRequest(r) == main \in {"up", "grpc", "stop"} /\ ApiGoto(r, "idle", "active")

\* The handler acquires a connection; once the pool is closed it answers 500.
Query(r) == ApiGoto(r, "active", IF main = "closing" THEN "ready" ELSE "query")

RequestStep(r) == Query(r) \/ ApiGoto(r, "query", "ready") \/ ApiGoto(r, "ready", "idle")

-----------------------------------------------------------------------------
(***************************************************************************)
(* main.                                                                   *)
(***************************************************************************)
MainGoto(from, to) ==
  /\ main = from
  /\ main' = to
  /\ UNCHANGED <<allTeleVars, late, api>>

\* SIGINT or SIGTERM; a second one is swallowed.
Signal == MainGoto("up", "grpc") /\ UNCHANGED how

\* The timer of shutdownCtx.
Expire ==
  /\ main \in {"grpc", "stop", "http"} /\ ~late
  /\ late' = TRUE
  /\ UNCHANGED <<allTeleVars, main, how, api>>

\* case <-stopped: GracefulStop has returned.  Which streams it waits for is
\* grpc-go's accounting: those that were accepted and whose handler has not returned.
Stopped ==
  /\ \A s \in Streams : Returned(s)
  /\ how' = "graceful"
  /\ MainGoto("grpc", "http")

\* Mutant: the forced stop waits for the streams too.
ForceWhenDone ==
  /\ late /\ \A s \in Streams : Returned(s)
  /\ how' = "forced"
  /\ MainGoto("grpc", "stop")

\* case <-shutdownCtx.Done().
ForceStop ==
  /\ late
  /\ how' = "forced"
  /\ MainGoto("grpc", "stop")

\* Stop closes the connections, which ends the contexts of their streams.
StopWire(s) ==
  /\ main = "stop"
  /\ Break(s)
  /\ UNCHANGED <<chanVars, teleVars, mainVars>>

\* Stop has returned; handlers may still be on their way out.
StopDone ==
  /\ \A s \in Streams : ~OpenWire(s)
  /\ MainGoto("stop", "http") /\ UNCHANGED how

\* Mutant: the HTTP server is not shut down but left to the exit.
SkipHttpShutdown == MainGoto("http", "closing") /\ UNCHANGED how

\* Shutdown returns when no request is left or when its context is over: after a
\* forced stop it is over already.
HttpShutdown ==
  /\ late \/ \A r \in Requests : api[r] \notin InHandler
  /\ MainGoto("http", "closing") /\ UNCHANGED how

\* Connections of the pool that have been acquired.
PoolInUse ==
  \/ \E s \in Streams : loop[s] = "beat"
  \/ \E j \in jobs : UsesPool(j) /\ j.state \in {"writing", "applied"}
  \/ \E r \in Requests : api[r] = "query"

\* db.Close returns and so does main: what still runs ends where it is.
Exit ==
  /\ main = "closing" /\ ~PoolInUse
  /\ main' = "exited"
  /\ IF \A s \in Streams : Returned(s) THEN UNCHANGED allVars ELSE HandlerRestart
  /\ loop' = [s \in Streams |-> "select"]
  /\ jobs' = Killed
  /\ api' = [r \in Requests |-> IF api[r] \in InHandler THEN "cut" ELSE api[r]]
  /\ UNCHANGED <<stored, how, late>>

\* The process dies at any point, and is started again.
Crash ==
  /\ main # "exited"
  /\ TelemetryRestart
  /\ main' = "up" /\ how' = "none" /\ late' = FALSE
  /\ api' = [r \in Requests |-> "idle"]

MainStep ==
  \/ Stopped \/ ForceStop \/ StopDone \/ HttpShutdown \/ Exit
  \/ \E s \in Streams : StopWire(s)

-----------------------------------------------------------------------------
ShutdownNext ==
  \/ \E s \in Streams, h \in Hosts : AcceptStream(s, h)
  \/ \E s \in Streams : StreamEvent(s) \/ ReceiverStep(s) \/ HandlerStep(s)
  \/ \E j \in jobs : JobStep(j) \/ StoreStep(j)
  \/ \E r \in Requests : AcceptRequest(r) \/ RequestStep(r)
  \/ Signal \/ Expire \/ MainStep
  \/ Crash

ShutdownSpec == ShutdownInit /\ [][ShutdownNext]_serverVars

\* Goroutines are scheduled, timers fire, and the database answers a heartbeat and a
\* query some time or fails them.  Nothing is owed by agents, clients, the network,
\* the stores that a job writes to, crashes and whoever sends the signal.
Fairness ==
  /\ \A s \in Streams :
       /\ WF_serverVars(HandlerStep(s)) /\ WF_serverVars(ReceiverStep(s))
       /\ \A n \in 1 .. MaxMsgs :
            WF_serverVars(\E j \in jobs : j.stream = s /\ j.msg = n /\ JobStep(j))
  /\ \A r \in Requests : WF_serverVars(RequestStep(r))
  /\ WF_serverVars(Expire) /\ WF_serverVars(MainStep)

FairShutdownSpec == ShutdownSpec /\ Fairness

-----------------------------------------------------------------------------
(***************************************************************************)
(* Properties.                                                             *)
(***************************************************************************)

\* A request to the API that was accepted is cut off by a shutdown only if the
\* ten seconds were over: used up by a stream that stayed open, or by itself.
CutOnlyWhenLate == \A r \in Requests : api[r] = "cut" => late

\* A signal ends the process although agents keep their streams open for ever, a
\* store never answers and requests are under way, unless it crashes before.
SignalEnds == main \notin {"up", "exited"} ~> main \in {"up", "exited"}
=============================================================================
