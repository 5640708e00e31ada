---------------------------- MODULE CommandBroker -----------------------------
(***************************************************************************)
(* The command broker (internal/command/broker.go) over the stream         *)
(* registry, with the table it writes (internal/db/store/commands.go), the *)
(* HTTP handler that calls it and the goroutines in which results arrive.  *)
(*                                                                         *)
(* A command is one POST /v1/commands.  Issue runs in the goroutine of its *)
(* request, in three steps that others interleave with: INSERT the row,    *)
(* look the stream up, send on it.  A result is handled in a goroutine of  *)
(* its own.  The rate limiter, modelled in RateLimiter, only appears here  *)
(* as the choice between going on and refusing.                            *)
(***************************************************************************)
EXTENDS StreamRegistry

CONSTANT Cmds   \* commands, each issued once

VARIABLES
  issue,      \* where the Issue call of a command is, or how it ended
  target,     \* IssueRequest.HostID
  route,      \* the stream Issue got from registry.Get
  row,        \* command_executions.status, "absent" before the INSERT
  down,       \* stream -> CommandRequests sent on it and not yet received
  executed,   \* commands an agent has received (and runs)
  up,         \* CommandResults sent by agents, not yet taken by a select loop
  workers,    \* HandleResult goroutines
  dropped     \* commands with a result that was not recorded (5 s, DB error)

brokerVars == <<issue, target, route, row, down, executed, up, workers, dropped>>
allVars == <<vars, brokerVars>>

Outcomes == {"completed", "failed"}

Running == {"admitted", "stored", "routed"}

\* Issue's returns: nil, "not connected (command queued ...)", a failed Send, an
\* error without an id; and a process that died in the middle.
Ended == {"sent", "queued", "sendFailed", "refused", "crashed"}

Results == [cmd : Cmds, outcome : Outcomes]
Packets == [cmd : Cmds, outcome : Outcomes, stream : Streams]

BrokerTypeOK ==
  /\ TypeOK
  /\ issue \in [Cmds -> {"idle"} \cup Running \cup Ended]
  /\ target \in [Cmds -> Hosts \cup {None}]
  /\ route \in [Cmds -> Streams \cup {None}]
  /\ row \in [Cmds -> {"absent", "pending"} \cup Outcomes]
  /\ down \in [Streams -> SUBSET Cmds]
  /\ executed \subseteq Cmds
  /\ up \subseteq Packets
  /\ workers \subseteq Results
  /\ dropped \subseteq Cmds
  /\ \A c \in Cmds : issue[c] # "idle" => target[c] \in Hosts

BrokerInit ==
  /\ Init
  /\ issue = [c \in Cmds |-> "idle"]
  /\ target = [c \in Cmds |-> None]
  /\ route = [c \in Cmds |-> None]
  /\ row = [c \in Cmds |-> "absent"]
  /\ down = [s \in Streams |-> {}]
  /\ executed = {}
  /\ up = {}
  /\ workers = {}
  /\ dropped = {}

Goto(c, pc) == issue' = [issue EXCEPT ![c] = pc]

-----------------------------------------------------------------------------
(***************************************************************************)
(* Issue, step by step.                                                    *)
(***************************************************************************)

\* The request reaches Issue and the limiter lets it pass, or refuses it.
Start(c, h) ==
  /\ issue[c] = "idle"
  /\ target' = [target EXCEPT ![c] = h]
  /\ Goto(c, "admitted") \/ Goto(c, "refused")
  /\ UNCHANGED <<vars, route, row, down, executed, up, workers, dropped>>

\* Mutant: the row is written only after the command was sent.
StoreLater(c) ==
  /\ issue[c] = "admitted"
  /\ Goto(c, "stored")
  /\ UNCHANGED <<vars, target, route, row, down, executed, up, workers, dropped>>

\* INSERT ... 'pending'.
Store(c) ==
  /\ issue[c] = "admitted"
  /\ row' = [row EXCEPT ![c] = "pending"]
  /\ Goto(c, "stored")
  /\ UNCHANGED <<vars, target, route, down, executed, up, workers, dropped>>

\* The INSERT returns an error: unknown host, database gone, or the client left
\* and cancelled the request's context - in which case it may have committed.
StoreFails(c) ==
  /\ issue[c] = "admitted"
  /\ \E v \in {"absent", "pending"} : row' = [row EXCEPT ![c] = v]
  /\ Goto(c, "refused")
  /\ UNCHANGED <<vars, target, route, down, executed, up, workers, dropped>>

\* Mutant: a lookup that returns any registered stream.
RouteAny(c) ==
  /\ issue[c] = "stored"
  /\ \E h \in Hosts : route' = [route EXCEPT ![c] = Lookup(h)]
  /\ Goto(c, IF route'[c] = None THEN "queued" ELSE "routed")
  /\ UNCHANGED <<vars, target, row, down, executed, up, workers, dropped>>

\* registry.Get: without a stream Issue is over, and nobody sends the row later.
Route(c) ==
  /\ issue[c] = "stored"
  /\ route' = [route EXCEPT ![c] = Lookup(target[c])]
  /\ Goto(c, IF route'[c] = None THEN "queued" ELSE "routed")
  /\ UNCHANGED <<vars, target, row, down, executed, up, workers, dropped>>

\* Mutant: the message is on the wire although the caller is told it failed.
PushMisreports(c) ==
  /\ issue[c] = "routed"
  /\ down' = [down EXCEPT ![route[c]] = @ \cup {c}]
  /\ Goto(c, IF wire[route[c]] = "open" THEN "sent" ELSE "sendFailed")
  /\ UNCHANGED <<vars, target, route, row, executed, up, workers, dropped>>

\* stream.Send: it fails when the stream broke after the lookup.
Push(c) ==
  /\ issue[c] = "routed"
  /\ IF wire[route[c]] = "dead"
       THEN Goto(c, "sendFailed") /\ UNCHANGED down
       ELSE Goto(c, "sent") /\ down' = [down EXCEPT ![route[c]] = @ \cup {c}]
  /\ UNCHANGED <<vars, target, route, row, executed, up, workers, dropped>>

-----------------------------------------------------------------------------
(***************************************************************************)
(* The agent: it runs what it receives and reports on any stream it has    *)
(* open.  Nothing acknowledges a result, so it may report again.           *)
(***************************************************************************)
Receive(c, s) ==
  /\ c \in down[s] /\ wire[s] # "dead"
  /\ down' = [down EXCEPT ![s] = @ \ {c}]
  /\ executed' = executed \cup {c}
  /\ UNCHANGED <<vars, issue, target, route, row, up, workers, dropped>>

Report(c, s) ==
  /\ c \in executed /\ wire[s] = "open" /\ owner[s] = target[c]
  /\ ~ \E p \in up : p.cmd = c /\ p.stream = s
  /\ \E o \in Outcomes : up' = up \cup {[cmd |-> c, outcome |-> o, stream |-> s]}
  /\ UNCHANGED <<vars, issue, target, route, row, down, executed, workers, dropped>>

(***************************************************************************)
(* The server side of a result.                                            *)
(***************************************************************************)

\* Mutant: the message is taken from the channel and no goroutine is started.
TakeAndForget(p) ==
  /\ phase[p.stream] = "serving"
  /\ up' = up \ {p}
  /\ UNCHANGED <<vars, issue, target, route, row, down, executed, workers, dropped>>

\* The select loop takes the message and handleMessage starts the goroutine.
Take(p) ==
  /\ phase[p.stream] = "serving"
  /\ up' = up \ {p}
  /\ workers' = workers \cup {[cmd |-> p.cmd, outcome |-> p.outcome]}
  /\ UNCHANGED <<vars, issue, target, route, row, down, executed, dropped>>

\* UPDATE ... WHERE id: a row that exists gets the result, whatever it held.
Complete(w) ==
  /\ workers' = workers \ {w}
  /\ row' = [row EXCEPT ![w.cmd] = IF @ = "absent" THEN @ ELSE w.outcome]
  /\ UNCHANGED <<vars, issue, target, route, down, executed, up, dropped>>

\* The update fails or takes more than 5 seconds; HandleResult logs that.
CompleteFails(w) ==
  /\ workers' = workers \ {w}
  /\ dropped' = dropped \cup {w.cmd}
  /\ UNCHANGED <<vars, issue, target, route, row, down, executed, up>>

\* Mutant: the new process marks the rows it finds pending as failed.
RestartFailsPending ==
  /\ Restart
  /\ issue' = [c \in Cmds |-> IF issue[c] \in Running THEN "crashed" ELSE issue[c]]
  /\ row' = [c \in Cmds |-> IF row[c] = "pending" THEN "failed" ELSE row[c]]
  /\ workers' = {}
  /\ UNCHANGED <<target, route, down, executed, up, dropped>>

\* A crash ends every goroutine; the table stays.
BrokerRestart ==
  /\ Restart
  /\ issue' = [c \in Cmds |-> IF issue[c] \in Running THEN "crashed" ELSE issue[c]]
  /\ workers' = {}
  /\ UNCHANGED <<target, route, row, down, executed, up, dropped>>

-----------------------------------------------------------------------------
Issuing(c) == Store(c) \/ StoreFails(c) \/ Route(c) \/ Push(c)

StreamStep == (Network \/ \E s \in Streams : Handler(s)) /\ UNCHANGED brokerVars

BrokerNext ==
  \/ StreamStep
  \/ \E c \in Cmds, h \in Hosts : Start(c, h)
  \/ \E c \in Cmds : Issuing(c)
  \/ \E c \in Cmds, s \in Streams : Receive(c, s) \/ Report(c, s)
  \/ \E p \in up : Take(p)
  \/ \E w \in workers : Complete(w) \/ CompleteFails(w)
  \/ BrokerRestart

BrokerSpec == BrokerInit /\ [][BrokerNext]_allVars

\* Goroutines are scheduled, and an agent that stays connected runs what it
\* receives and reports it; no fairness for clients, network and crashes.
Fairness ==
  /\ \A s \in Streams : WF_allVars(Handler(s) /\ UNCHANGED brokerVars)
  /\ \A c \in Cmds : WF_allVars(Issuing(c))
  /\ \A c \in Cmds, s \in Streams : WF_allVars(Receive(c, s)) /\ WF_allVars(Report(c, s))
  /\ \A p \in Packets : WF_allVars(p \in up /\ Take(p))
  /\ \A w \in Results : WF_allVars(w \in workers /\ (Complete(w) \/ CompleteFails(w)))

FairBrokerSpec == BrokerSpec /\ Fairness

-----------------------------------------------------------------------------
(***************************************************************************)
(* Properties.                                                             *)
(***************************************************************************)

\* A command is on a wire, or on an agent, only when its audit row exists and
\* was never removed by anything after ("Serialize for audit log": the INSERT
\* comes before the Send), whatever fails in between.
AuditedBeforeSent ==
  \A c \in Cmds :
    c \in executed \cup UNION {down[s] : s \in Streams} => row[c] # "absent"

\* A command only ever travels to the host it names: the stream that Issue holds
\* across an unlocked gap is one of its target, even if that stream has since
\* been replaced, has left or is gone.
OnlyToTarget ==
  \A c \in Cmds :
    /\ route[c] # None => owner[route[c]] = target[c]
    /\ \A s \in Streams : c \in down[s] => owner[s] = target[c]

\* A command that Issue has refused, or could not send on the stream it found, does
\* not run, then or later, and its row stays as it was inserted: callers may safely
\* issue it again.  Nothing is said of one that was "queued" for a host without a
\* stream: it is accepted, and QueuedIsDelivered is about it.
ErrorMeansNotRun ==
  \A c \in Cmds :
    issue[c] \in {"sendFailed", "refused"} =>
      /\ c \notin executed \cup UNION {down[s] : s \in Streams}
      /\ row[c] \in {"absent", "pending"}

\* The broker keeps CommandAudit's promise about the table.
Audit == INSTANCE CommandAudit WITH status <- row
AuditKept == Audit!Spec

\* A command that was sent ends in a terminal status, unless its stream is
\* closed first or a result of it could not be written.
SentIsSettled ==
  \A c \in Cmds :
    issue[c] = "sent" ~>
      \/ row[c] \in Outcomes \/ c \in dropped
      \/ route[c] # None /\ wire[route[c]] # "open"

\* "host not connected (command queued with id ...)" (broker.go): a queued
\* command reaches its agent once the host is connected for good.  The code
\* does not do it: nothing reads pending rows when an agent connects.
Connected(h) == Lookup(h) # None /\ wire[Lookup(h)] = "open"

QueuedIsDelivered ==
  \A c \in Cmds :
    <>[](issue[c] = "queued" /\ Connected(target[c])) => <>(c \in executed)
=============================================================================
