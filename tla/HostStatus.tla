------------------------------ MODULE HostStatus ------------------------------
(***************************************************************************)
(* The status of a host (hosts.status, hosts.last_heartbeat_at): written   *)
(* by Enroll, by the heartbeats that arrive on the host's streams          *)
(* (handleHeartbeat in internal/stream/handler.go) and by the sweep of     *)
(* internal/staleness/staleness.go, which also calls the webhook.          *)
(*                                                                         *)
(* Time is discrete and relative: not last_heartbeat_at is kept but how    *)
(* long ago it is, and nothing beyond Timeout + 1 is told apart.           *)
(***************************************************************************)
EXTENDS Integers, FiniteSets

CONSTANTS Hosts,
          Timeout,    \* HeartbeatTimeout
          Interval,   \* CheckInterval
          Lags,       \* how far an agent's clock may be behind the database's
          MaxLag,     \* the largest of them; negative ones are clocks ahead
          MaxDelay,   \* bound: from stamping a heartbeat to handling it
          MaxFlight,  \* bound: heartbeats of a host on their way
          MaxFalls,   \* bound: times a host is found stale
          MaxBoots    \* bound: restarts of the server

ASSUME StatusAssumption ==
  /\ {Timeout, Interval, MaxLag, MaxDelay, MaxFlight, MaxFalls, MaxBoots} \subseteq Nat
  /\ Interval > 0
  /\ Lags \subseteq Int /\ \A l \in Lags : l <= MaxLag

VARIABLES
  status,   \* hosts.status, "absent" without a row
  age,      \* NOW() - last_heartbeat_at
  silence,  \* time since the server wrote the row for a heartbeat or enrollment
  alive,    \* the agent is running
  flight,   \* heartbeats not handled yet, of whatever stream of the host
  timer,    \* time since the ticker of staleness.Run fired
  due,      \* a tick is in the ticker's channel
  queue,    \* hosts the running sweep has yet to call the webhook for
  falls,    \* times a host went from online to offline
  alerts,   \* webhook calls that were answered
  boots     \* restarts of the server

vars == <<status, age, silence, alive, flight, timer, due, queue, falls, alerts, boots>>

Old == Timeout + 1
Sat(n) == IF n > Old THEN Old ELSE n

Statuses == {"absent", "enrolled", "online", "offline"}

TypeOK ==
  /\ status \in [Hosts -> Statuses]
  /\ age \in [Hosts -> Int] /\ silence \in [Hosts -> 0 .. Old]
  /\ alive \in [Hosts -> BOOLEAN]
  /\ flight \in [Hosts -> SUBSET [delay : 0 .. MaxDelay, lag : Lags]]
  /\ timer \in 0 .. Interval - 1 /\ due \in BOOLEAN
  /\ queue \subseteq Hosts
  /\ falls \in [Hosts -> Nat] /\ alerts \in [Hosts -> Nat]
  /\ boots \in 0 .. MaxBoots
  /\ \A h \in Hosts : age[h] <= Old

Init ==
  /\ status = [h \in Hosts |-> "absent"]
  /\ age = [h \in Hosts |-> Old]
  /\ silence = [h \in Hosts |-> Old]
  /\ alive = [h \in Hosts |-> FALSE]
  /\ flight = [h \in Hosts |-> {}]
  /\ timer = 0 /\ due = FALSE /\ queue = {} /\ boots = 0
  /\ falls = [h \in Hosts |-> 0] /\ alerts = [h \in Hosts |-> 0]

-----------------------------------------------------------------------------
(***************************************************************************)
(* Agents and time.                                                        *)
(***************************************************************************)

\* An agent enrolls, or renews its certificate while its stream is up: either
\* way Upsert writes status 'enrolled' and last_heartbeat_at = now.
EnrollHost(h) ==
  /\ status' = [status EXCEPT ![h] = "enrolled"]
  /\ age' = [age EXCEPT ![h] = 0]
  /\ silence' = [silence EXCEPT ![h] = 0]
  /\ alive' = [alive EXCEPT ![h] = TRUE]
  /\ UNCHANGED <<flight, timer, due, queue, falls, alerts, boots>>

Die(h) ==
  /\ alive[h] /\ alive' = [alive EXCEPT ![h] = FALSE]
  /\ UNCHANGED <<status, age, silence, flight, timer, due, queue, falls, alerts, boots>>

SendHeartbeat(h) ==
  /\ alive[h] /\ falls[h] < MaxFalls
  /\ \E l \in Lags : flight' = [flight EXCEPT ![h] = @ \cup {[delay |-> 0, lag |-> l]}]
  /\ Cardinality(flight'[h]) <= MaxFlight
  /\ UNCHANGED <<status, age, silence, alive, timer, due, queue, falls, alerts, boots>>

\* Mutant: a one-shot timer instead of a ticker.
TickOnce ==
  /\ \A h \in Hosts : \A m \in flight[h] : m.delay < MaxDelay
  /\ age' = [h \in Hosts |-> Sat(age[h] + 1)]
  /\ silence' = [h \in Hosts |-> Sat(silence[h] + 1)]
  /\ flight' = [h \in Hosts |-> {[m EXCEPT !.delay = @ + 1] : m \in flight[h]}]
  /\ timer' = IF timer = Interval - 1 THEN timer ELSE timer + 1
  /\ due' = (due \/ timer < timer')
  /\ UNCHANGED <<status, alive, queue, falls, alerts, boots>>

\* One unit of time; the ticker keeps one tick for a sweep that runs late.
Tick ==
  /\ \A h \in Hosts : \A m \in flight[h] : m.delay < MaxDelay
  /\ age' = [h \in Hosts |-> Sat(age[h] + 1)]
  /\ silence' = [h \in Hosts |-> Sat(silence[h] + 1)]
  /\ flight' = [h \in Hosts |-> {[m EXCEPT !.delay = @ + 1] : m \in flight[h]}]
  /\ timer' = (timer + 1) % Interval
  /\ due' = (due \/ timer' = 0)
  /\ UNCHANGED <<status, alive, queue, falls, alerts, boots>>

(***************************************************************************)
(* Heartbeats.  Those of two streams of a host are handled in any order.   *)
(***************************************************************************)

\* Mutant: the UPDATE sets the status only.
BeatStatusOnly(h, m) ==
  /\ flight' = [flight EXCEPT ![h] = @ \ {m}]
  /\ status' = [status EXCEPT ![h] = "online"]
  /\ silence' = [silence EXCEPT ![h] = 0]
  /\ UNCHANGED <<age, alive, timer, due, queue, falls, alerts, boots>>

\* handleHeartbeat: UPDATE ... SET last_heartbeat_at, status = 'online', with the
\* agent's timestamp, whatever the row held; or with the server's own time if
\* the heartbeat has none.
Beat(h, m) ==
  /\ flight' = [flight EXCEPT ![h] = @ \ {m}]
  /\ status' = [status EXCEPT ![h] = "online"]
  /\ \E t \in {Sat(m.delay + m.lag), 0} : age' = [age EXCEPT ![h] = t]
  /\ silence' = [silence EXCEPT ![h] = 0]
  /\ UNCHANGED <<alive, timer, due, queue, falls, alerts, boots>>

\* The stream breaks first, or the UPDATE fails (handleMessage's error is logged).
Lose(h, m) ==
  /\ flight' = [flight EXCEPT ![h] = @ \ {m}]
  /\ UNCHANGED <<status, age, silence, alive, timer, due, queue, falls, alerts, boots>>

(***************************************************************************)
(* The staleness job: one goroutine, sweep then webhooks, then wait.       *)
(***************************************************************************)
\* Mutant: CheckInterval where HeartbeatTimeout is meant.
StaleEarly(h) == status[h] = "online" /\ age[h] > Interval

Stale(h) == status[h] = "online" /\ age[h] > Timeout

\* Mutant: the UPDATE also returns the hosts that are offline already.
SweepAll ==
  /\ due /\ queue = {} /\ due' = FALSE
  /\ LET old == {h \in Hosts : status[h] \in {"online", "offline"} /\ age[h] > Timeout}
     IN  /\ status' = [h \in Hosts |-> IF h \in old THEN "offline" ELSE status[h]]
         /\ falls' = [h \in Hosts |-> IF Stale(h) THEN falls[h] + 1 ELSE falls[h]]
         /\ queue' \in {old, {}}
  /\ UNCHANGED <<age, silence, alive, flight, timer, alerts, boots>>

\* RunOnce: UPDATE ... WHERE online and stale RETURNING.  If the rows cannot be
\* read the statuses are set and nobody is notified.
Sweep ==
  /\ due /\ queue = {} /\ due' = FALSE
  /\ LET stale == {h \in Hosts : Stale(h)}
     IN  /\ status' = [h \in Hosts |-> IF h \in stale THEN "offline" ELSE status[h]]
         /\ falls' = [h \in Hosts |-> IF h \in stale THEN falls[h] + 1 ELSE falls[h]]
         /\ queue' \in {stale, {}}
  /\ UNCHANGED <<age, silence, alive, flight, timer, alerts, boots>>

SweepFails ==
  /\ due /\ queue = {} /\ due' = FALSE
  /\ UNCHANGED <<status, age, silence, alive, flight, timer, queue, falls, alerts, boots>>

\* notifyWebhook: one POST per host, logged and forgotten when it fails.
Notify(h) ==
  /\ h \in queue /\ queue' = queue \ {h}
  /\ alerts' \in {alerts, [alerts EXCEPT ![h] = @ + 1]}
  /\ UNCHANGED <<status, age, silence, alive, flight, timer, due, falls, boots>>

\* The server restarts: streams, ticker and pending notifications are gone.
ServerRestart ==
  /\ boots < MaxBoots /\ boots' = boots + 1
  /\ flight' = [h \in Hosts |-> {}]
  /\ timer' = 0 /\ due' = FALSE /\ queue' = {}
  /\ UNCHANGED <<status, age, silence, alive, falls, alerts>>

-----------------------------------------------------------------------------
Handle(h) == \E m \in flight[h] : Beat(h, m) \/ Lose(h, m)

Next ==
  \/ Tick \/ Sweep \/ SweepFails \/ ServerRestart
  \/ \E h \in Hosts : EnrollHost(h) \/ Die(h) \/ SendHeartbeat(h) \/ Handle(h) \/ Notify(h)

Spec == Init /\ [][Next]_vars

\* Time passes, handlers and the job run; an UPDATE that is tried again and again
\* succeeds some time.  Agents, crashes and the webhook's receiver owe nothing.
FairSpec ==
  /\ Spec
  /\ WF_vars(Tick) /\ SF_vars(Sweep)
  /\ \A h \in Hosts : WF_vars(Handle(h)) /\ WF_vars(Notify(h))

-----------------------------------------------------------------------------
(***************************************************************************)
(* Properties.                                                             *)
(***************************************************************************)

\* The webhook is called at most once for every time a host was found stale:
\* heartbeats, sweeps and calls still pending may interleave as they like.
AlertsAreTransitions ==
  \A h \in Hosts : alerts[h] + (IF h \in queue THEN 1 ELSE 0) <= falls[h]

\* What last_heartbeat_at says may be worse than the truth, by no more than the
\* delay of a heartbeat and the lag of the agent's clock: also when an older
\* heartbeat of another stream overwrites a newer one.
BoundedStaleness ==
  \A h \in Hosts : age[h] <= silence[h] + MaxDelay + MaxLag

\* So a host is marked offline only if it was silent for nearly the timeout.
OfflineAfterSilence ==
  [][\A h \in Hosts :
       status[h] = "online" /\ status'[h] = "offline" =>
         silence[h] + MaxDelay + MaxLag > Timeout]_vars

\* A host whose agent died does not stay online, whatever its clock said, once
\* the server stops restarting (each restart starts the ticker anew), and
\* although sweeps fail, ticks are dropped while the webhook is slow, and
\* heartbeats still on their way put it online once more.
DeadGoesOffline ==
  \A h \in Hosts : <>[]~alive[h] => <>[](status[h] # "online")
=============================================================================
