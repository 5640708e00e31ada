# praetor-server in TLA+

Specifications of the server in this repository (`src/`): the state machines of
its components, what they promise, TLC runs on small instances and TLAPS proofs
for every value of the constants. `PROJECT.json` maps each definition to the
source lines it stands for, and lists the runs, the code mutations that each
checked property must detect, the hazards and the theorems.

## 1. The system and its components

Agents on managed hosts enroll with a one-time token, get a client certificate
and from then on hold one bidirectional gRPC stream (`Connect`) to the server.
Heartbeats, metrics, logs, security events and command results come up the
stream; pings, configuration and commands go down. Operators use a REST API and a
CLI that runs in a process of its own, on the same PostgreSQL database.

| Component | State | Operations | Talks to |
|---|---|---|---|
| Stream registry (`internal/stream/registry.go`) | map host_id -> stream, under a mutex | Add, Remove, Get, GetSender | called by the handler, the broker and the config service |
| Connect handler (`internal/stream/handler.go`) | per stream: two goroutines, `msgCh` (16), `errCh` (1), a ticker | receive, select loop, ping, handle message | registry, HostStore, broker, config service, writers; starts a goroutine per result, event and batch |
| Command broker (`internal/command/broker.go`, `db/store/commands.go`) | rows of `command_executions` | Issue (limit, INSERT, Get, Send), HandleResult (UPDATE) | REST handler above, registry and agents below |
| Rate limiter (`internal/command/ratelimit.go`) | bucket per host: count and reset time | Allow | called by Issue |
| Config push (`internal/configpush/service.go`, `db/store/configs.go`) | rows of `host_configs` | SyncOnConnect, Push, HandleAck, SetField (CLI) | registry; started by the handler |
| Enrollment (`internal/enrollment/service.go`, stores `hosts`, `tokens`, `identities`) | rows of `enrollment_tokens`, `hosts`, `agent_identities` | Enroll: first enrollment and renewal | CA, database |
| Host status (`internal/staleness`, `handleHeartbeat`, `db/store/hosts.go`) | `hosts.status`, `hosts.last_heartbeat_at`; a ticker | UpdateHeartbeat, Upsert, sweep, webhook | handler, webhook receiver |
| Certificate authority (`internal/ca/ca.go`) | four files of `data_dir/ca`, keys in memory | New (generate or load), IssueClient, RootBundlePEM | Enrollment, TLS |
| Enrollment tokens (`db/store/tokens.go`, `cmd/praetor-server/token.go`, REST routes) | rows of `enrollment_tokens` | issue, list, revoke | Enrollment claims them |
| Token format, configuration file, database connection, migrations | none beyond start | pure functions and I/O | - |
| Telemetry writers (Loki, VictoriaMetrics), security events | none of their own; one HTTP POST or INSERT per batch, 5 seconds each | Write, Insert, two SELECTs | called by goroutines that handleMessage starts; stores outside |
| Main and shutdown (`cmd/praetor-server/main.go`) | the servers it started, a deadline of 10 s | wiring, mTLS interceptors, GracefulStop or Stop, HTTP Shutdown, closing the pool | all |

**What is hard, and the property each component lives by.**

- *Registry and handler.* An agent that lost its network reconnects while the
  handler of the old stream is still running. Add overwrites and the deferred
  Remove deletes *by host*, so both handlers work on one entry. The registry
  must only hand out live streams of the right host and must not forget streams.
- *Handler internals.* Recv runs in one goroutine, the loop in another; EOF does
  not cancel the context; messages may wait in a channel nobody reads any more.
  Nothing may be lost or swapped while a stream is open, and handlers must return.
- *Telemetry.* A batch is written by a goroutine with a context of its own; nobody waits for it.
  Its timeout races the store, which may apply what was already given up. Nothing may be stored
  twice, what is reported must be true, grouping must keep every entry, no goroutine may stay.
- *Shutdown.* GracefulStop waits for streams that nobody tells to end, its deadline is shared with the
  HTTP server, the pool waits for its connections. A signal must end the process, and requests must not
  be cut before the deadline.
- *Broker.* INSERT, lookup and Send are not one step. Streams are replaced and
  break in between, the process dies in between, results arrive on other
  streams, twice, or never. Commands must be audited first, reach only the host
  they name, and one that was refused or whose Send failed must not run.
- *Config push.* A row read in one step is sent in another on a stream found in a
  third. An agent must only get its own configuration, and none of the updates
  made before it connected may be missed.
- *Enrollment.* Five statements in five transactions, concurrent calls, statements
  that fail or are reported as failed after they committed. Tokens are single-use,
  certificates are on record, a machine has one host_id.
- *Status.* Heartbeats stamped by another clock than the one that judges them, delayed and out of
  order, sweeps that fail or run late, a webhook that fails. No host may fall
  without silence, none be alerted twice, no dead host stay online.
- *Limiter, tokens.* Boundaries: resets, expiry instants, integer width, and the same
  WHERE clause written several times.
- *CA.* The first start may die inside any of four file writes. What agents were
  given must verify with every later process.

Every hazard is listed at its line in `PROJECT.json`, with the properties that
cover it or the reason why none does.

## 2. Modules

```
StreamRegistry            registry + handler phases + wires
  |- CommandBroker        EXTENDS it; implements CommandAudit
  |- ConfigPush           EXTENDS it
  |- StreamHandler        EXTENDS it; implements StreamRegistry!Spec
       |- Telemetry       EXTENDS it: handleMessage, its goroutines, the stores
            |- Shutdown   EXTENDS it: main, REST requests, the pool: the server
Enrollment, TokenTable    both implement TokenLife
CAStore                   implements TrustRoot
HostStatus    RateLimiter
```

- **StreamRegistry.** `registry` is `Registry.streams`; `owner` the host_id from
  the client certificate; `phase` where `Connect` is: `accepted` (before Add),
  `serving` (select loop), `leaving` (returned, the deferred Remove still to run),
  `gone`. `wire` is the transport: half-closed by the agent (Recv returns
  io.EOF), or dead (context done). `Add` and `Remove` are one step each, as they run under
  the lock; the gap between a return and its Remove is two actions. A restart
  empties the registry. The mTLS interceptor is the reason why every opened
  stream has an owner.
- **CommandAudit / CommandBroker.** `CommandAudit` is the abstract promise about
  `command_executions`: a command runs only after its row exists, a row leaves
  `pending` only after its command ran, rows stay. `CommandBroker` is `Issue` as
  Store, Route, Push (with StoreFails for an INSERT that failed or seemed to),
  the agent (external: runs what it receives, reports on any open stream, maybe
  repeatedly), Take (the loop starts a goroutine) and Complete/CompleteFails. The
  limiter is the choice in Start. `AuditKept` is the refinement, `status <- row`.
- **ConfigPush.** One task per stream (SyncOnConnect: read, find, send) and one per
  call of Push (find, read, send). `AgentVersion` is the 0 the handler passes.
  `atConnect` and `past` are history: the version, and the streams already over, when a stream was added. `SetField` is the CLI in its own process. No code of the server calls
  `Push`; it is modelled because it is the service's other entry point.
- **StreamHandler.** The receiving goroutine (Recv, RecvFails, Put), both channels and the
  select loop (Take, ReturnOnErr, ReturnOnBroken). An errCh and an msgCh that
  are both ready are a free choice, as in Go. `ImplementsRegistry` shows it to be a
  refinement of `StreamRegistry`'s handler, which has only phases.
- **Telemetry.** `loop` says whether the select loop waits for UpdateHeartbeat, which runs inside it.
  `jobs` are the goroutines for metrics, logs, events and command results, finished ones included: `started` (no
  request sent), `writing`, `applied` (by the store, not answered), then `ok`, `dropped`,
  `late` (given up while the store may still apply it) or `inDoubt` (applied, but given up or killed). `stored` is what the
  stores have accepted, in order. `GiveUp` is the 5 seconds, at any point; `Apply` is the store, also for a
  `late` job. A metric batch is written as a log batch is, so that the shutdown run leaves that kind out and telemetry_host has
  it. `BySource` (the loop over the batch, `Groups` after each of its turns), `LokiPush` and `Lines` are the writers' conversions, `Request` what is sent: the event's row has the
  payload's host_id.
- **Shutdown.** `main` is where main() is: `up`, `grpc` (GracefulStop), `stop` (Stop), `http`,
  `closing` (the deferred db.Close), `exited`. `late` is shutdownCtx, one for both servers. Stop
  closes connections (`StopWire` is Break) and does not wait for handlers. The HTTP
  listener stays open until `http`. A REST request is `active`, `query` (holds a connection), `ready`;
  its place is free again when it was answered, so that there may be any number. `PoolInUse` is what
  db.Close waits for: a heartbeat, an event's INSERT, a result's UPDATE, a request's query. `Exit` ends what
  still runs. `Crash` is a death at any point and a new start. All steps of streams are those of Telemetry.
- **Enrollment.** A call is Begin or BeginRenewal, then Claim, Resolve, Sign, Upsert, Mark,
  Record. Every statement may fail, and may be committed nevertheless. The foreign
  key on `used_by_host_id` needs no guard in Mark: Upsert has written the row and no code deletes hosts. A call
  stands for the ULID and the certificate made in it. One organisation.
- **HostStatus.** Relative, saturating time: `age` is NOW() - last_heartbeat_at, `silence` the
  true time since the row was last written for the agent. Heartbeats in flight have a
  delay and the lag of the agent's clock. NOW() is the only other clock: the server's own, which stamps a heartbeat that
  carries no time, counts as the database's. Sweep is the UPDATE ... RETURNING,
  Notify one webhook call, Tick one unit of time with the ticker's one-place channel.
- **RateLimiter.** `count` and `left` are the bucket; `passed[h][a]` is a history: how many commands of the
  host were admitted at most `a` units ago.
- **TokenLife / TrustRoot.** Two more promises. `TokenLife`: a token has no row, is good, spent or void,
  and leaves `good` once. `TrustRoot`: a root is chosen once and is behind all that is used and given. `LifeKept` and
  `TrustKept` are the refinements: a token's life is read off its columns; the root is chosen when root.key is whole.
- **CAStore.** Key generations instead of keys; a file is missing, truncated or
  holds a generation. `OpenFile` and `FillFile` are os.WriteFile's two steps.
- **TokenTable.** Lifetimes are signed integers of a given width, with the wrap-around of
  `time.Duration(ttl) * time.Second`. The four WHERE clauses that decide whether a token is good
  (Claim, List, ListActive, the query of `token list`) are four definitions; all four compare with the database's
  NOW(). expires_at is computed on the issuer's clock (`api/handler.go:191`, `token.go:75`), which is off by up to `Skew`.

Definitions marked "Mutant" are not part of any specification: each is a
definition of the code with one plausible error, and `PROJECT.json` names the
property that it breaks.

## 3. Runs

| Run | Instance | Shows |
|---|---|---|
| registry_found | 1 host, 2 streams | *violated*: a connected agent may be unknown to the registry |
| broker | 2 hosts, 2 streams, 1 command | only live streams of the right host are handed out, a stream is unlisted only by a rival of its host, dead streams are forgotten for good; audit first, right host, refused or failed to send means not run, CommandAudit implemented, sent commands are settled |
| broker_queued | 1 host, 2 streams, 1 command | *violated*: a "queued" command is never delivered |
| config | 2 hosts, 2 streams, 1 Push, 2 versions | own configuration only; a sync is as fresh as its connect; a stream is synced unless another handler of its host overlaps with its own |
| shutdown | 1 host, 1 stream, channel of 1, 2 messages (event, heartbeat or other; logs or a result), 1 place for requests | order, no loss, refinement of StreamRegistry, handlers return, when a receiver leaks; stored once, true reports, grouping, writes only go forward and end; requests cut only late, a signal ends the process |
| telemetry_host | 2 hosts, 1 stream, 1 message of any kind | *violated*: an event is stored under another host than the certificate's |
| enrollment | 3 calls, 2 tokens, 2 machines | single use, certificates backed, tokens traceable, host_ids stable, TokenLife implemented |
| status | 1 host, timeout 3, interval 2, lags -1, 0, 1, 2 heartbeats in flight | one alert per fall, bounded staleness, silence before offline, dead hosts fall |
| limiter | 2 hosts, limit 2, window 2 | twice the limit at most, refusals justified |
| ca | 2 agents, 4 starts | trust survives every crash, TrustRoot implemented |
| ca_start | 2 agents, 4 starts | *violated*: a crash in the first start makes the server unstartable |
| tokens | 2 tokens, durations of 5 bits, 1 s = 3, limit 6, skew 1 | limit respected under wrap-around, four WHERE clauses agree, TokenLife implemented |

Why these bounds are enough. An entry of the registry is fought over by two streams of one
host, and a second host shows that entries do not mix; the theorems cover any number of either.
Commands share nothing but the registry, so one is enough for TLC, and the proofs cover any number. Two
messages over a channel of one make a receiver wait with a full channel behind a loop that is
gone. Streams share nothing with each other in Telemetry, and main only asks
whether all have returned, so that one stream, in every state, next to a request is every combination that main can
tell apart; `Kinds` says what each message may be, so that a heartbeat in the loop, a job on the
pool and a job outside it overlap. The batch has three entries of two sources that alternate, one
with an empty name, and unequal severities; the other batch is empty. Three enrollments are two rivals and a renewal. A
timeout larger than the interval and a delay plus lag smaller than the timeout are the
proportions of the defaults (90 s, 30 s). One host is enough for HostStatus: the rows of a sweep
are independent, except that calls for them are queued.
Durations of five bits make products of ttl and second wrap several times; a skew of 1 makes an issuer's clock
early, late or right.
Symmetry is used where only invariants and `[][A]_v` properties are checked, never with a
liveness property (`config`, `enrollment`, `tokens`).
CHECK_DEADLOCK is off where the instance runs out of streams, calls or starts.

### Disagreements found

- `ConnectedIsFound` (bug): `Open s1, Register s1, Break s1, Open s2, Register s2,
  Leave s1, Deregister s1` leaves `s2` served and unlisted: `handler.go:63` removes by
  host. Commands are answered "not connected" and configuration is not sent until
  the agent connects again.
- `QueuedIsDelivered` (message against code): `broker.go:102` says "command queued",
  but no code reads pending rows when an agent connects.
- `HostIsCertified` (comment against code): `securityevents.go:46` stores an event under the host_id of the
  message, while `handler.go:202` says "host_id is always sourced from the cert — never from the
  AgentMessage payload". Metrics and logs do take the certificate's.
- `StartSucceeds` (bug): `ca.go` writes `root.key` first and takes its presence as "CA
  exists"; a crash before the last of the four files is whole makes every later
  start fail until someone deletes the directory.

Seen while modelling, and not the subject of a run:

- A sync whose stream was just unlisted by an older handler sends nothing, and the
  sync of an *older* stream can send an older version on the new one after a newer
  one (`configpush/service.go:55-66`).
- The handler passes version 0 to SyncOnConnect, so that an agent that is up to date
  is sent its configuration on each connect; `service.go:53` says "if its version is stale".
- `configcmd.go:73` promises a push "on next agent heartbeat or connect"; heartbeats push nothing.
- A renewal that reports another machine_id rewrites the host's row, and the earlier
  machine's next enrollment gets a new host_id (`service.go:118` says "stable").
- A webhook call that fails is not repeated; a host is marked offline although it was heard
  a moment ago if its clock is late by the timeout, as the agent's timestamp is stored (`handler.go:191`).
- After a shutdown that a stream used all ten seconds of, `httpServer.Shutdown` gets an expired context and
  returns at once: `main.go:157` then cuts whatever requests are under way (`CutOnlyWhenLate` allows it).
  With an agent connected this is the normal case, as nothing ends a stream on a signal.
- Jobs are not waited for: main may exit with batches and events unsent (`dropped`) or in doubt.
- A result for a command_id that is not in the table is logged as received: the UPDATE finds no row and
  returns no error (`store/commands.go:60`).
- The severity label of a Loki stream is that of the source's first entry in the batch (`loki/writer.go:81`).
- An event whose host_id has no row in `hosts` fails its foreign key and is lost.
- `token list` decides in SQL, with NOW(), which rows to show, and then with the CLI's own clock which to call
  "expired" (`token.go:134` and `169`): on a machine whose clock is behind, `--include-expired` shows a token that has
  expired as "active". The STATUS column is not modelled.
- A command whose Send failed is answered like one that was sent or queued: 202, "pending" (`api/handler.go:288-293`).
  Only the error that Issue returns tells them apart.
- When the HTTP port is taken the server logs it and runs on without an API (`main.go:135`).
- Enroll writes status `enrolled`, which neither `hosts.go:109` nor the migration lists, and which no
  sweep looks at: a host that dies before its first heartbeat stays `enrolled`.
- The limiter's windows are fixed: twice the maximum passes around a reset.
- A `ttl_seconds` of about 2^63 ns or more wraps around before it is compared with the maximum
  (`api/handler.go:177`): some are accepted with another lifetime, never one above the limit.

## 4. Fairness

- Goroutines are scheduled: weak fairness of each handler, receiver, loop, of Issue's
  steps and of HandleResult. The Go scheduler gives that.
- A `dead` wire is one the server has *noticed* (context done, or a ping that failed).
  Networks owe nothing: a silent partition that no side notices is a wire that stays
  open for ever, and no property says that its handler returns.
- `CommandBroker`: an agent that stays connected receives what is sent and reports it.
  `SentIsSettled` excuses closed streams and results that could not be written.
- `Shutdown`: timers fire (`Expire`, and the 5 seconds, which are what makes `JobStep` fair), main goes
  on, handlers of requests run, and the database answers a heartbeat or a query, or fails it, some time: neither has
  a timeout of its own, so that `OpenStreamIsRead`, `ClosedStreamReturns` and `SignalEnds` would not hold otherwise.
  No store owes an answer to a job (`ByStore` has no fairness): `WritesEnd` holds without one.
- `HostStatus`: time passes; `SF(Sweep)` says that a database that is asked again and again
  answers some time (`SweepFails` consumes ticks meanwhile). Restarts are bounded, as each one
  starts the ticker anew.
- Never assumed: clients, operators, crashes, the webhook's receiver, the CLI.

## 5. Proofs

`X_proofs` holds the theorems about `X`; `tlapm` checks them for all values of the constants.

- **StreamRegistry_proofs.** `TypeCorrect`, `OnlyLiveRegistered`, `OnlyRivalsUnlist`.
  The inductive invariant is `TypeOK /\ RegisteredIsLive /\ UnlistedOnlyByRival`; the two
  properties need nothing beyond the types, which say that an opened stream has a host.
  Deregister keeps `RegisteredIsLive` because it deletes the entry of its own host,
  whosever it is; Register keeps it because it overwrites. A rival, once past Add, never
  goes back to a phase before it.
- **Shutdown_proofs.** About StreamHandler: `HandlerImplementsRegistry`, `MessagesInOrder`, `HandlerTypeCorrect`.
  Every step of the goroutines is a step of StreamRegistry or a stutter, because an error
  reaches errCh only when the wire is no longer open (`Channels`), and an opened stream
  never opens again. `InOrder` is an equation between sequences; the invariant states it number
  by number (`CountsFrom`), and three lemmas say what Append, Tail and `\o` do to
  consecutive numbers.
  About the server: `ServerImplementsHandler` shows each step of it to be a step of StreamHandler or a
  stutter (Stop is a Break, an exit a Restart), whence `ServerKeepsOrder` and `ServerImplementsRegistry`.
  `CutsAreLate` follows from `MainInv`, which says for each position of main what
  the deadline, the requests and the branch taken are. `StoredAtMostOnce` and `ReportsAlwaysTrue`
  follow from `JobsInv`: a job's state tells whether its message is stored, and no two jobs
  are of one message. That a new job's message is new is not a fact about jobs: it is the numbering of messages
  (`TakesNext`), so that the proof needs the handler's invariant. Steps that only change job
  states (a timeout, an answer, a kill) are one lemma, `Relabel`, with the legal changes as its hypothesis.
  `ServerTypeCorrect` is a corollary of all of it. `PushesKeepBatches` has two halves. `DataInv`: what is
  stored is what its job asks for, and no step changes what a job asks for (its body stays, its stream's host does
  not change once there is a job). `PushKeeps`: the request for a batch keeps the batch, whatever the batch. That is an induction
  along the loop of `loki/writer.go`: after i entries the slice of each source holds its entries among the
  first i, in order (`GroupedUpTo`). The induction theorems of the library take an operator and cannot be
  used; `SetInduction` states the principle for sets of naturals, from the well-foundedness of `<`, and
  `GroupsExist` and `GroupsUnfold` give the recursive function its equations. `WritesNeverGoBack`: each step moves a job
  to a later `Stage` or leaves it, which is the safety half of `WritesEnd` (and what fairness then
  has to add is that a step is taken at all).
- **ConfigPush_proofs.** `ConfigTypeCorrect`, `ConfigImplementsRegistry`, `OnlyOwnConfigSent`, `SyncAlwaysFresh`, `UndisputedSessionsSynced`.
  A step of the config service is one of the registry, so that the registry's invariants are
  reused. What is added says what each task has established by the step it has come
  to: its host, whose stream it found, that what it read is not newer than the row and,
  for a sync, not older than its connect. `UnlistedOnlyByRival` is too weak for the last theorem, as it excuses
  any rival that ever was. `UndisputedIsListed` excuses only one that was between Add and Remove meanwhile: streams
  that were over when a stream was added (`past`, a history variable) stay over, so that their Remove cannot come
  again. A sync then finds its own stream, or one that disputes it.
- **CommandBroker_proofs.** `BrokerTypeCorrect`, `NeverMisdelivered`, `AuditFirst`, `ErrorNeverRuns`,
  `BrokerImplementsRegistry`, `LookupsAreRight`, `BrokerImplementsAudit`. The strengthening ties together what the steps of Issue
  have established: a route is a stream of the target (owners never change once set);
  a command whose Issue has not ended as `sent` is nowhere on a wire or an agent and its row is absent or
  pending; results only exist of commands that ran.
  The refinement follows: Complete is Settle because the worker's command was executed,
  Receive is Execute because the row exists.
  About the limiter, for any hosts, limit and window: `LimiterTypeCorrect`, `NeverMoreThanTwice`, `RefusalsAreJustified`.
  Twice the limit per window is not inductive, as it does not say how much of it is before the current
  bucket. `BucketInv` does: while a bucket counts, what passed since it was made is its count, and what passed
  in the rest of the window is the limit at most. When a bucket is over, what the last window saw is within the
  limit, so that a reset starts from there. A refusal finds the count at the limit in a bucket younger than the window.
- **Enrollment_proofs.** `TypeCorrect`, `TokensAreSingleUse`, `TokensAreTraceable`,
  `CertificatesAreBacked`, `HostIDsAreStable`, `EnrollmentKeepsTokenLife`. The invariants follow a call through its
  statements: past Claim its token is used and no other call is past Claim with it; past Upsert its host
  has a row; done means that identity, host and token are all on record. Stability rests on the
  unique index: two rows never have one machine_id. `EnrollmentKeepsTokenLife` needs only the types: Claim is
  Spend, whether or not the call learns of it, Revoke and Expire are Void or nothing, and no other statement
  touches the columns. With TokenTable's theorem it says that the two models of the table agree.
- **HostStatus_proofs.** `StatusTypeCorrect`, `AlertsNeverExceedFalls`, `StalenessIsBounded`,
  `SilenceBeforeOffline`. The first two properties are inductive with the types; the action property
  follows from `BoundedStaleness` at the moment RunOnce reads the row.
- **CAStore_proofs.** `CATypeCorrect`, `RootAlwaysMatches`, `TrustAlwaysSurvives`, `CAImplementsTrustRoot`. None of them is
  inductive. The invariant is that one generation at most is ever on disk (root.key is the first
  file to exist, and nothing is generated once it does), that a process works with that
  generation and that agents were only given material of it. The refinement also needs `RootWritten`: root.key is
  missing, empty or whole according to the step that the writing process has come to, so that filling it is
  the one step that chooses a root, and whoever serves can read it.
- **TokenTable_proofs.** `TableTypeCorrect`, `ListsAlwaysAgree`, `TableKeepsTokenLife` and, from it, `DeadTokensStayDead`, for
  any width of durations: the product of ttl and second wraps around to some duration, and
  the comparison with the maximum bounds whatever came out, up to the skew. The types are enough for the lists;
  the refinement also needs that only rows are claimed, or else an INSERT could find its id used.

Assumptions used: only the `ASSUME`s of the modules (markers such as `None` are no stream and no
host, bounds are naturals).

Type invariants are proved; a run checks one only where it states a bound that code enforces
(`ServerTypeOK`: msgCh, TokenTable's `TypeOK`: lifetimes).

Every invariant and action property of a passing run is a theorem. Only model-checked: liveness
(`DeadStreamForgotten`, `SentIsSettled`, `OpenStreamIsRead`, `ClosedStreamReturns`, `ReceiverEnds`, `WritesEnd`,
`SignalEnds`, `DeadGoesOffline`), as the prover handles neither ENABLED nor, therefore, fairness; and the four
violated properties, of which TLC's counterexamples are the proof.
Theorems that no run states, as what they say follows from one that it does, or is its reason:
the refinements of the registry by broker and config service, `DeadTokensStayDead`, `RootAlwaysMatches`.

## 6. What is left out

- What concurrent Sends do inside grpc-go: pings, commands and configuration are sent from different
  goroutines; a Send is one atomic step here.
- Payloads, tiers, timestamps, the spelling of metric and label names (that `sanitizeLabelName` may turn two labels,
  or a label and host_id, into one), listing routes and the two SELECTs on security events, bearer authentication, token
  format, YAML, migrations' mechanics.
- A power loss: `Stop` in CAStore is the death of the process, in which what was written stays. Files that were
  written and never synced (`os.WriteFile` does not) may be lost or empty after one.
- Certificate contents and validity periods; the server certificate's year is not modelled.
- Other organisations than one; the database's own failures beyond "a statement fails, and may have
  been committed".
- In a shutdown: the staleness job and config syncs, which hold connections as events do; Enroll calls; failures
  while the server starts. The size of the pool (25) and how goroutines queue for it: a job may give
  up before its statement is sent, whatever the reason.
- A composition of the limiter with the broker: the limiter's verdict is a choice in `Start`.
- The agent, which is outside the repository, is honest and modelled by what the server sees of it.

## 7. Plan

1. Done: registry, broker, config, handler, telemetry, shutdown, enrollment, status, limiter, CA, tokens, and
   proofs of all their safety properties.
2. Composition of RateLimiter with CommandBroker, so that refusals and the quota used up by
   commands that fail are in one behaviour.
3. Config syncs and the staleness job in Shutdown.
4. Certificates with validity periods: renewal before expiry, and the server certificate's year.
