-------------------------- MODULE HostStatus_proofs ---------------------------
(***************************************************************************)
(* Proofs about host statuses, for any hosts, timeouts, intervals, clocks  *)
(* and delays.                                                             *)
(***************************************************************************)
EXTENDS HostStatus, TLAPS

Beats == [delay : 0 .. MaxDelay, lag : Lags]

IInv == TypeOK /\ AlertsAreTransitions /\ BoundedStaleness

USE StatusAssumption

LEMMA Numbers == /\ {Timeout, Interval, MaxLag, MaxDelay} \subseteq Nat /\ Old \in Nat
                 /\ \A l \in Lags : l \in Int /\ l <= MaxLag
  BY DEF Old

\* How late a heartbeat can make its host look.
LEMMA BeatBounds ==
  \A m \in Beats : m.delay + m.lag \in Int /\ m.delay + m.lag <= MaxDelay + MaxLag
<1> SUFFICES ASSUME NEW d \in 0 .. MaxDelay, NEW l \in Lags
             PROVE  d + l \in Int /\ d + l <= MaxDelay + MaxLag
  BY DEF Beats
<1>1. l \in Int /\ l <= MaxLag
  BY Numbers
<1>2. QED BY <1>1, Numbers

LEMMA SatBelow == \A n \in Int : Sat(n) \in Int /\ Sat(n) <= n /\ Sat(n) <= Old
  BY Numbers DEF Sat

\* A unit of time brings heartbeats no further than their longest delay.
LEMMA FlightAges ==
  ASSUME TypeOK, NEW h \in Hosts, \A m \in flight[h] : m.delay < MaxDelay
  PROVE  {[m EXCEPT !.delay = @ + 1] : m \in flight[h]} \in SUBSET Beats
<1> SUFFICES ASSUME NEW m \in flight[h] PROVE [m EXCEPT !.delay = @ + 1] \in Beats
  OBVIOUS
<1>1. m \in Beats /\ m.delay < MaxDelay
  BY DEF TypeOK, Beats
<1>2. m.delay + 1 \in 0 .. MaxDelay
  BY <1>1, Numbers DEF Beats
<1>3. QED BY <1>1, <1>2 DEF Beats

-----------------------------------------------------------------------------
(***************************************************************************)
(* Each action preserves the invariant.                                    *)
(***************************************************************************)
LEMMA TickStep == ASSUME IInv, Tick PROVE IInv'
<1> USE DEF IInv, Tick
<1>1. \A h \in Hosts : /\ age[h] \in Int /\ silence[h] \in 0 .. Old
                       /\ Sat(age[h] + 1) \in Int /\ Sat(age[h] + 1) <= Old
                       /\ Sat(silence[h] + 1) \in 0 .. Old
  BY Numbers, SatBelow DEF TypeOK, Sat
<1>2. flight' \in [Hosts -> SUBSET Beats]
  BY FlightAges
<1>3. timer' \in 0 .. Interval - 1
  BY DEF TypeOK
<1>4. due' \in BOOLEAN
  <2>1. due \in BOOLEAN
    BY DEF TypeOK
  <2>2. QED BY <2>1
<1>5. age' \in [Hosts -> Int] /\ silence' \in [Hosts -> 0 .. Old] /\ \A h \in Hosts : age'[h] <= Old
  BY <1>1
<1>6. TypeOK'
  BY <1>2, <1>3, <1>4, <1>5 DEF TypeOK, Beats
<1>7. AlertsAreTransitions'
  BY DEF AlertsAreTransitions
<1>8. BoundedStaleness'
  <2> SUFFICES ASSUME NEW h \in Hosts PROVE age'[h] <= silence'[h] + MaxDelay + MaxLag
    BY DEF BoundedStaleness
  <2>1. age'[h] = Sat(age[h] + 1) /\ silence'[h] = Sat(silence[h] + 1)
    OBVIOUS
  <2>2. age[h] <= silence[h] + MaxDelay + MaxLag
    BY DEF BoundedStaleness
  <2>3. QED BY <1>1, <2>1, <2>2, Numbers DEF Sat
<1>9. QED BY <1>6, <1>7, <1>8

LEMMA EnrollStep == ASSUME IInv, NEW h \in Hosts, EnrollHost(h) PROVE IInv'
<1> USE DEF IInv, EnrollHost
<1>1. TypeOK'
  BY Numbers DEF TypeOK, Statuses
<1>2. AlertsAreTransitions'
  BY DEF AlertsAreTransitions
<1>3. BoundedStaleness'
  BY Numbers DEF BoundedStaleness, TypeOK
<1>4. QED BY <1>1, <1>2, <1>3

\* The agent and the losses on the way touch neither row nor alerts.
LEMMA AgentStep ==
  ASSUME IInv, NEW h \in Hosts,
         Die(h) \/ SendHeartbeat(h) \/ \E m \in flight[h] : Lose(h, m)
  PROVE  IInv'
<1> USE DEF IInv
<1>1. alive' \in [Hosts -> BOOLEAN]
  BY DEF TypeOK, Die, SendHeartbeat, Lose
<1>2. flight' \in [Hosts -> SUBSET Beats]
  <2>1. 0 \in 0 .. MaxDelay
    BY Numbers
  <2>2. CASE SendHeartbeat(h)
    BY <2>1, <2>2 DEF TypeOK, SendHeartbeat, Beats
  <2>3. CASE Die(h) \/ \E m \in flight[h] : Lose(h, m)
    BY <2>3 DEF TypeOK, Die, Lose, Beats
  <2>4. QED BY <2>2, <2>3
<1>3. UNCHANGED <<status, age, silence, timer, due, queue, falls, alerts, boots>>
  BY DEF Die, SendHeartbeat, Lose
<1>4. TypeOK'
  BY <1>1, <1>2, <1>3 DEF TypeOK, Beats
<1>5. AlertsAreTransitions' /\ BoundedStaleness'
  BY <1>3 DEF AlertsAreTransitions, BoundedStaleness
<1>6. QED BY <1>4, <1>5

LEMMA BeatStep == ASSUME IInv, NEW h \in Hosts, NEW m \in flight[h], Beat(h, m) PROVE IInv'
<1> USE DEF IInv, Beat
<1>1. m \in Beats
  BY DEF TypeOK, Beats
<1>2. m.delay + m.lag \in Int /\ m.delay + m.lag <= MaxDelay + MaxLag
  BY <1>1, BeatBounds
<1>3. PICK t \in {Sat(m.delay + m.lag), 0} : age' = [age EXCEPT ![h] = t]
  OBVIOUS
<1>4. t \in Int /\ t <= Old /\ t <= MaxDelay + MaxLag
  BY <1>2, <1>3, SatBelow, Numbers
<1>5. \A g \in Hosts : age'[g] = (IF g = h THEN t ELSE age[g])
                       /\ silence'[g] = (IF g = h THEN 0 ELSE silence[g])
  BY <1>3 DEF TypeOK
<1>6. TypeOK'
  <2>1. age' \in [Hosts -> Int] /\ \A g \in Hosts : age'[g] <= Old
    BY <1>3, <1>4, <1>5 DEF TypeOK
  <2>2. 0 \in 0 .. Old
    BY Numbers
  <2>3. QED BY <2>1, <2>2 DEF TypeOK, Statuses
<1>7. AlertsAreTransitions'
  BY DEF AlertsAreTransitions
<1>8. BoundedStaleness'
  BY <1>4, <1>5, Numbers DEF BoundedStaleness
<1>9. QED BY <1>6, <1>7, <1>8

LEMMA SweepStep == ASSUME IInv, Sweep PROVE IInv'
<1> USE DEF IInv, Sweep
<1>1. \A h \in Hosts : falls'[h] = (IF Stale(h) THEN falls[h] + 1 ELSE falls[h])
                       /\ (h \in queue' => Stale(h))
  OBVIOUS
<1>2. falls' \in [Hosts -> Nat]
  BY <1>1 DEF TypeOK
<1>3. TypeOK'
  BY <1>2 DEF TypeOK, Statuses
<1>4. AlertsAreTransitions'
  BY <1>1 DEF AlertsAreTransitions, TypeOK
<1>5. BoundedStaleness'
  BY DEF BoundedStaleness
<1>6. QED BY <1>3, <1>4, <1>5

LEMMA JobStep ==
  ASSUME IInv, SweepFails \/ ServerRestart \/ \E h \in Hosts : Notify(h) PROVE IInv'
<1> USE DEF IInv
<1>1. CASE SweepFails
  BY <1>1 DEF SweepFails, TypeOK, AlertsAreTransitions, BoundedStaleness
<1>2. CASE ServerRestart
  <2>1. TypeOK'
    <3>1. boots' \in 0 .. MaxBoots /\ timer' \in 0 .. Interval - 1
      BY <1>2 DEF ServerRestart, TypeOK
    <3>2. flight' \in [Hosts -> SUBSET Beats] /\ queue' \subseteq Hosts /\ due' \in BOOLEAN
      BY <1>2 DEF ServerRestart
    <3>3. QED
      BY <1>2, <3>1, <3>2 DEF ServerRestart, TypeOK, Beats
  <2>2. AlertsAreTransitions' /\ BoundedStaleness'
    BY <1>2 DEF ServerRestart, TypeOK, AlertsAreTransitions, BoundedStaleness
  <2>3. QED BY <2>1, <2>2
<1>3. ASSUME NEW h \in Hosts, Notify(h) PROVE IInv'
  <2>1. TypeOK'
    BY <1>3 DEF Notify, TypeOK
  <2>2. \A g \in Hosts : \/ alerts'[g] = alerts[g]
                         \/ g = h /\ alerts'[g] = alerts[g] + 1
    BY <1>3 DEF Notify, TypeOK
  <2>3. \A g \in Hosts : alerts[g] \in Nat /\ falls[g] \in Nat
    BY DEF TypeOK
  <2>4. AlertsAreTransitions'
    BY <1>3, <2>2, <2>3 DEF Notify, AlertsAreTransitions
  <2>5. BoundedStaleness'
    BY <1>3 DEF Notify, BoundedStaleness
  <2>6. QED BY <2>1, <2>4, <2>5
<1>4. QED BY <1>1, <1>2, <1>3

LEMMA Initially == Init => IInv
<1> SUFFICES ASSUME Init PROVE IInv
  OBVIOUS
<1> USE DEF Init
<1>1. Old \in 0 .. Old /\ 0 \in 0 .. Interval - 1 /\ 0 \in 0 .. MaxBoots
  BY Numbers DEF Old
<1>2. TypeOK
  <2>1. /\ age \in [Hosts -> Int] /\ silence \in [Hosts -> 0 .. Old]
        /\ \A h \in Hosts : age[h] <= Old
    BY <1>1, Numbers
  <2>2. flight \in [Hosts -> SUBSET Beats] /\ alive \in [Hosts -> BOOLEAN]
    OBVIOUS
  <2>3. status \in [Hosts -> Statuses] /\ due \in BOOLEAN /\ queue \subseteq Hosts
    BY DEF Statuses
  <2>4. falls \in [Hosts -> Nat] /\ alerts \in [Hosts -> Nat]
    OBVIOUS
  <2>5. QED
    BY <1>1, <2>1, <2>2, <2>3, <2>4 DEF TypeOK, Beats
<1>3. AlertsAreTransitions
  BY DEF AlertsAreTransitions
<1>4. BoundedStaleness
  BY <1>1, Numbers DEF BoundedStaleness
<1>5. QED BY <1>2, <1>3, <1>4 DEF IInv

LEMMA Inductive == IInv /\ [Next]_vars => IInv'
<1> SUFFICES ASSUME IInv, [Next]_vars PROVE IInv'
  OBVIOUS
<1>1. CASE UNCHANGED vars
  BY <1>1 DEF vars, IInv, TypeOK, AlertsAreTransitions, BoundedStaleness
<1>2. QED
  BY <1>1, TickStep, SweepStep, JobStep, EnrollStep, AgentStep, BeatStep DEF Next, Handle

LEMMA Invariance == Spec => []IInv
  BY Initially, Inductive, PTL DEF Spec

-----------------------------------------------------------------------------
(***************************************************************************)
(* The theorems.                                                           *)
(***************************************************************************)

\* Types of rows, timers and heartbeats on their way.
THEOREM StatusTypeCorrect == Spec => []TypeOK
  BY Invariance, PTL DEF IInv

\* notifyWebhook is called at most once for each time RunOnce's UPDATE took a
\* host from online to offline.
THEOREM AlertsNeverExceedFalls == Spec => []AlertsAreTransitions
  BY Invariance, PTL DEF IInv

\* last_heartbeat_at lags behind what the server has heard by no more than the
\* longest delay of a heartbeat and the lag of the agent's clock.
THEOREM StalenessIsBounded == Spec => []BoundedStaleness
  BY Invariance, PTL DEF IInv

\* RunOnce marks a host offline only after the timeout, less delay and lag, of
\* silence.
THEOREM SilenceBeforeOffline == Spec => OfflineAfterSilence
<1> DEFINE Silent == \A h \in Hosts : status[h] = "online" /\ status'[h] = "offline"
                                      => silence[h] + MaxDelay + MaxLag > Timeout
<1>1. IInv /\ [Next]_vars => Silent
  <2> SUFFICES ASSUME IInv, [Next]_vars, NEW h \in Hosts,
                      status[h] = "online", status'[h] = "offline"
               PROVE  silence[h] + MaxDelay + MaxLag > Timeout
    OBVIOUS
  <2>1. age[h] \in Int /\ silence[h] \in Int /\ age[h] <= silence[h] + MaxDelay + MaxLag
    BY Numbers DEF IInv, TypeOK, BoundedStaleness
  <2>2. CASE Sweep
    <3>1. age[h] > Timeout
      BY <2>2 DEF Sweep, Stale
    <3>2. QED BY <2>1, <3>1, Numbers
  <2>3. ASSUME NEW g \in Hosts, EnrollHost(g) \/ \E m \in flight[g] : Beat(g, m) PROVE FALSE
    BY <2>3 DEF EnrollHost, Beat, IInv, TypeOK
  <2>4. CASE status' = status
    BY <2>4
  <2>5. QED
    BY <2>2, <2>3, <2>4 DEF Next, Handle, Tick, SweepFails, ServerRestart, Die, SendHeartbeat,
       Lose, Notify, vars
<1>2. Silent => [Silent]_vars
  OBVIOUS
<1>3. QED BY <1>1, Invariance, PTL DEF Spec, OfflineAfterSilence
=============================================================================
