------------------------------- MODULE Telemetry -------------------------------
(***************************************************************************)
(* What handleMessage (internal/stream/handler.go) does with the messages  *)
(* that the select loop takes: a heartbeat is written inside the loop,     *)
(* metrics, logs, results and security events each in a goroutine of its   *)
(* own, with 5 seconds and a context that is not the stream's.  Below it   *)
(* the writers (internal/storage) that convert a batch and POST it once,   *)
(* and SecurityEventStore.Insert.  What an UPDATE for a result does is in  *)
(* CommandBroker; here it is one more write.                               *)
(*                                                                         *)
(* The stores (VictoriaMetrics, Loki and the database) are only the        *)
(* sequence of what they have accepted, in the order of acceptance.        *)
(***************************************************************************)
EXTENDS StreamHandler

CONSTANTS Kinds,     \* Kinds[n]: what the n-th message of a stream may be (bound)
          Batches    \* sequences of entries that a log or metric batch may carry

\* "other" is a ConfigAck or a message that the server does not know.
ASSUME TelemetryAssumption ==
  /\ Kinds \in [1 .. MaxMsgs -> SUBSET {"beat", "other", "logs", "metrics", "event", "result"}]
  /\ \A b \in Batches : b \in Seq([source : STRING, severity : STRING, line : Nat])

VARIABLES
  loop,     \* "select", or "beat" while the loop waits for UpdateHeartbeat
  jobs,     \* goroutines of handleMessage, the finished ones included
  stored    \* what the stores have accepted

teleVars == <<loop, jobs, stored>>
allTeleVars == <<allVars, teleVars>>

Bodies(n) ==
  [kind : Kinds[n] \cap {"beat", "other", "result"}]
    \cup [kind : Kinds[n] \cap {"logs", "metrics"}, entries : Batches]
    \cup [kind : Kinds[n] \cap {"event"}, host : Hosts]

Active == {"started",   \* no request or statement sent yet
           "writing",   \* sent, the store has not applied it
           "applied"}   \* the store has applied it, the answer is on its way
Over == {"ok",          \* Write or Insert has returned nil
         "dropped",     \* it has failed, and nothing is or will be stored
         "late",        \* given up, while the store may still apply it
         "inDoubt"}     \* given up or killed, although the store has applied it

TelemetryTypeOK ==
  /\ HandlerTypeOK
  /\ loop \in [Streams -> {"select", "beat"}]
  /\ \A j \in jobs :
       /\ j.stream \in Streams /\ j.msg \in 1 .. MaxMsgs /\ j.body \in Bodies(j.msg)
       /\ j.state \in Active \cup Over
       /\ j = [stream |-> j.stream, msg |-> j.msg, body |-> j.body, state |-> j.state]
  /\ \A i \in DOMAIN stored : stored[i].stream \in Streams /\ stored[i].msg \in 1 .. MaxMsgs

TelemetryInit ==
  /\ HandlerInit
  /\ loop = [s \in Streams |-> "select"]
  /\ jobs = {}
  /\ stored = <<>>

-----------------------------------------------------------------------------
(***************************************************************************)
(* Loki's writer: one stream per source, entries in the order of the batch.*)
(***************************************************************************)
SourceOf(e) == IF e.source = "" THEN "unknown" ELSE e.source

SourcesOf(batch) == {SourceOf(batch[i]) : i \in DOMAIN batch}

\* Mutant: a source's entries are assigned where they must be appended.
AddLast(bySource, e) == [bySource EXCEPT ![SourceOf(e)] = <<e>>]

\* bySource[src] = append(bySource[src], e)
AddEntry(bySource, e) == [bySource EXCEPT ![SourceOf(e)] = Append(@, e)]

\* The map bySource after the first i entries; no key stands for an empty slice.
Groups(batch) ==
  LET group[i \in 0 .. Len(batch)] ==
        IF i = 0 THEN [src \in SourcesOf(batch) |-> <<>>]
        ELSE AddEntry(group[i - 1], batch[i])
  IN group

BySource(batch) == Groups(batch)[Len(batch)]

\* The severity label is that of the source's first entry, whatever the others have.
LokiPush(host, batch) ==
  {[host_id |-> host, source |-> src, severity |-> BySource(batch)[src][1].severity,
    values |-> BySource(batch)[src]] : src \in SourcesOf(batch)}

\* VictoriaMetrics: one line per metric, the host's label first.
Lines(host, batch) == [i \in DOMAIN batch |-> [host_id |-> host, metric |-> batch[i]]]

\* What a job asks its store to accept.  The row of an event has the host_id of
\* the message, everything else that of the certificate.
Request(j) ==
  CASE j.body.kind = "logs"    -> [streams |-> LokiPush(owner[j.stream], j.body.entries)]
    [] j.body.kind = "metrics" -> [lines |-> Lines(owner[j.stream], j.body.entries)]
    [] j.body.kind = "event"   -> [row |-> j.body.host]
    [] j.body.kind = "result"  -> [update |-> j.msg]

-----------------------------------------------------------------------------
(***************************************************************************)
(* The select loop: it is not in its select while a heartbeat is written.  *)
(***************************************************************************)
HandleMessage(s) ==
  /\ loop[s] = "select"
  /\ Take(s)
  /\ \E b \in Bodies(Head(msgCh[s])) :
       /\ loop' = [loop EXCEPT ![s] = IF b.kind = "beat" THEN "beat" ELSE @]
       /\ jobs' = IF b.kind \in {"beat", "other"} THEN jobs
                  ELSE jobs \cup {[stream |-> s, msg |-> Head(msgCh[s]), body |-> b,
                                   state |-> "started"]}
  /\ UNCHANGED stored

\* UpdateHeartbeat returns: done, failed, or the stream's context is over.
BeatEnds(s) ==
  /\ loop[s] = "beat"
  /\ loop' = [loop EXCEPT ![s] = "select"]
  /\ UNCHANGED <<allVars, jobs, stored>>

LeaveLoop(s) ==
  /\ loop[s] = "select"
  /\ ReturnOnErr(s) \/ ReturnOnBroken(s)
  /\ UNCHANGED teleVars

(***************************************************************************)
(* A job.                                                                  *)
(***************************************************************************)
Become(j, state) ==
  /\ jobs' = (jobs \ {j}) \cup {[j EXCEPT !.state = state]}
  /\ UNCHANGED <<allVars, loop>>

Empty(j) == j.body.kind \in {"logs", "metrics"} /\ j.body.entries = <<>>

\* The POST or the statement is sent; an empty batch is a success at once.
Begin(j) ==
  /\ j.state = "started"
  /\ Become(j, IF Empty(j) THEN "ok" ELSE "writing")
  /\ UNCHANGED stored

\* The store applies what it was sent, also when nobody waits for it any more.
Apply(j) ==
  /\ j.state \in {"writing", "late"}
  /\ Become(j, IF j.state = "writing" THEN "applied" ELSE "inDoubt")
  /\ stored' = Append(stored, [stream |-> j.stream, msg |-> j.msg, data |-> Request(j)])

Answer(j) == j.state = "applied" /\ Become(j, "ok") /\ UNCHANGED stored

\* Mutant: the status of the response is not looked at.
RejectUnseen(j) == j.state = "writing" /\ Become(j, "ok") /\ UNCHANGED stored

\* A status other than 200 and 204, a refused connection, a host_id without a row.
\* An UPDATE is accepted whether or not it finds the command's row.
Reject(j) == j.state = "writing" /\ Become(j, "dropped") /\ UNCHANGED stored

\* How a job stands that nobody waits for any more.
Abandoned(state) ==
  CASE state = "started" -> "dropped"
    [] state = "writing" -> "late"
    [] state = "applied" -> "inDoubt"
    [] OTHER -> state

\* Mutant: a write that takes too long is made again.
GiveUpAndRetry(j) ==
  /\ j.state \in Active
  /\ Become(j, "started")
  /\ UNCHANGED stored

\* Mutant: the write ends with the stream, and not after 5 seconds.
GiveUpWithStream(j) ==
  /\ j.state \in Active /\ wire[j.stream] = "dead"
  /\ Become(j, Abandoned(j.state))
  /\ UNCHANGED stored

\* The 5 seconds are over, before a connection was free, or before the answer, or
\* while the answer was on its way.
GiveUp(j) ==
  /\ j.state \in Active
  /\ Become(j, Abandoned(j.state))
  /\ UNCHANGED stored

\* The process ends and its goroutines with it.
Killed == {[j EXCEPT !.state = Abandoned(@)] : j \in jobs}

TelemetryRestart ==
  /\ HandlerRestart
  /\ loop' = [s \in Streams |-> "select"]
  /\ jobs' = Killed
  /\ UNCHANGED stored

-----------------------------------------------------------------------------
StreamAndReceiver ==
  /\ \/ Network /\ UNCHANGED chanVars
     \/ \E s \in Streams : AgentSends(s) \/ StartConnect(s) \/ Receiver(s) \/ EndConnect(s)
  /\ UNCHANGED teleVars

TeleLoop(s) == HandleMessage(s) \/ BeatEnds(s) \/ LeaveLoop(s)

\* What a job does by itself, and what it takes a store to do.
ByStore(j) == Apply(j) \/ Answer(j) \/ Reject(j)

TelemetryNext ==
  \/ StreamAndReceiver
  \/ \E s \in Streams : TeleLoop(s)
  \/ \E j \in jobs : Begin(j) \/ GiveUp(j) \/ ByStore(j)
  \/ TelemetryRestart

TelemetrySpec == TelemetryInit /\ [][TelemetryNext]_allTeleVars

-----------------------------------------------------------------------------
(***************************************************************************)
(* Properties.                                                             *)
(***************************************************************************)
StoredJobs == {<<stored[i].stream, stored[i].msg>> : i \in DOMAIN stored}

\* However a write's answer and its timeout race, and whatever is applied after it
\* was given up, a store never holds a message twice: nothing is tried again.
StoredOnce ==
  \A i, k \in DOMAIN stored :
    stored[i].stream = stored[k].stream /\ stored[i].msg = stored[k].msg => i = k

\* A write reported as done is in the store, and one that was refused or never
\* sent is not, then or later: only a timeout or a kill leaves it open.  (That an
\* UPDATE was executed does not say that it found a row.)
ReportsAreTrue ==
  \A j \in jobs :
    /\ j.state = "ok" => <<j.stream, j.msg>> \in StoredJobs \/ Empty(j)
    /\ j.state \in {"started", "dropped"} => <<j.stream, j.msg>> \notin StoredJobs

\* The values are the batch's entries at these positions, each once and in order.
InBatchOrder(values, batch, positions) ==
  \E at \in [DOMAIN values -> positions] :
    /\ \A k, l \in DOMAIN values : k < l => at[k] < at[l]
    /\ \A i \in positions : \E k \in DOMAIN values : at[k] = i
    /\ \A k \in DOMAIN values : values[k] = batch[at[k]]

KeepsBatch(push, host, batch) ==
  /\ {p.source : p \in push} = SourcesOf(batch)
  /\ \A p, q \in push : p.source = q.source => p = q
  /\ \A p \in push :
       /\ p.host_id = host
       /\ InBatchOrder(p.values, batch, {k \in DOMAIN batch : SourceOf(batch[k]) = p.source})

\* A Loki push holds every entry of its batch exactly once, in the order of the batch
\* among those of its source, no two streams with the same labels, and all
\* under the host of the certificate.
PushKeepsBatch ==
  \A j \in jobs, i \in DOMAIN stored :
    j.body.kind = "logs" /\ stored[i].stream = j.stream /\ stored[i].msg = j.msg =>
      KeepsBatch(stored[i].data.streams, owner[j.stream], j.body.entries)

\* No goroutine of handleMessage stays for ever, even if no store ever answers.
WritesEnd ==
  \A s \in Streams, n \in 1 .. MaxMsgs :
    (\E j \in jobs : j.stream = s /\ j.msg = n)
      ~> (\E j \in jobs : j.stream = s /\ j.msg = n /\ j.state \in Over)

\* How far a write has come: nothing sent, sent, one side knows how it ended, or over
\* for both.
Stage(state) ==
  CASE state = "started" -> 0
    [] state = "writing" -> 1
    [] state \in {"applied", "late"} -> 2
    [] OTHER -> 3

\* A write goes forward or stays, with the batch it was started with, whoever moves
\* it: its goroutine, its store, the 5 seconds or the end of the process.  So each
\* takes three steps at most, what was reported of it stays, and none disappears.
WritesOnlyAdvance ==
  [][\A j \in jobs : \E k \in jobs' :
       /\ k.stream = j.stream /\ k.msg = j.msg /\ k.body = j.body
       /\ k.state = j.state \/ Stage(j.state) < Stage(k.state)]_jobs

\* "host_id is always sourced from the cert - never from the AgentMessage payload"
\* (stream/handler.go): whatever a stream's messages are stored as, it is under the
\* host of its certificate.  A security event is stored under its payload's.
HostIsCertified ==
  \A i \in DOMAIN stored :
    LET d == stored[i].data
        h == owner[stored[i].stream]
    IN /\ "row" \in DOMAIN d => d.row = h
       /\ "lines" \in DOMAIN d => \A k \in DOMAIN d.lines : d.lines[k].host_id = h
       /\ "streams" \in DOMAIN d => \A p \in d.streams : p.host_id = h
=============================================================================
