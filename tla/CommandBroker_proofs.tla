------------------------- MODULE CommandBroker_proofs -------------------------
(***************************************************************************)
(* What is proved of the package internal/command.  First the broker: its  *)
(* safety properties and its refinement of CommandAudit, for any number of *)
(* hosts, streams and commands.  Then the rate limiter, which shares no    *)
(* variable with it, for any hosts, limit and window.                      *)
(*                                                                         *)
(* A behaviour of the broker is one of the registry, so what               *)
(* StreamRegistry_proofs shows is available as it stands.  What is added   *)
(* is where a command can be, by how far its Issue call has come.          *)
(***************************************************************************)
EXTENDS CommandBroker, RateLimiter, StreamRegistry_proofs

\* A command is unsent, and its row untouched by results, until Push succeeds.
Unsent(c) ==
  /\ c \notin executed
  /\ \A s \in Streams : c \notin down[s]
  /\ row[c] \in {"absent", "pending"}

\* What the position of an Issue call says about its row and its stream.
Progress ==
  \A c \in Cmds :
    /\ issue[c] # "sent" => Unsent(c)
    /\ issue[c] \in {"idle", "admitted"} => row[c] = "absent"
    /\ issue[c] \in {"stored", "routed", "sent"} => row[c] # "absent"
    /\ issue[c] \in {"routed", "sent"} => route[c] # None
    /\ issue[c] = "idle" => route[c] = None /\ target[c] = None

\* Every result under way is of a command that ran.
Reported ==
  /\ \A p \in up : p.cmd \in executed
  /\ \A w \in workers : w.cmd \in executed

BInv == IInv /\ BrokerTypeOK /\ Progress /\ Reported /\ OnlyToTarget

\* A step of the broker is a step of the registry, or leaves the registry alone.
LEMMA RegistryStep == [BrokerNext]_allVars => [Next]_vars
<1> SUFFICES ASSUME [BrokerNext]_allVars PROVE [Next]_vars
  OBVIOUS
<1>1. CASE StreamStep
  BY <1>1 DEF StreamStep, Next
<1>2. CASE BrokerRestart
  BY <1>2 DEF BrokerRestart, Next
<1>3. CASE \E c \in Cmds, h \in Hosts : Start(c, h)
  BY <1>3 DEF Start
<1>4. CASE \E c \in Cmds : Issuing(c)
  BY <1>4 DEF Issuing, Store, StoreFails, Route, Push
<1>5. CASE \E c \in Cmds, s \in Streams : Receive(c, s) \/ Report(c, s)
  BY <1>5 DEF Receive, Report
<1>6. CASE \/ \E p \in up : Take(p)
           \/ \E w \in workers : Complete(w) \/ CompleteFails(w)
  BY <1>6 DEF Take, Complete, CompleteFails
<1>7. CASE UNCHANGED allVars
  BY <1>7 DEF allVars
<1>8. QED
  BY <1>1, <1>2, <1>3, <1>4, <1>5, <1>6, <1>7 DEF BrokerNext

\* The registry's inductive invariant survives every step of the broker.
LEMMA RegistryInv == IInv /\ [BrokerNext]_allVars => IInv'
  BY RegistryStep, TypeStep, LiveStep, RivalStep DEF IInv

\* Streams that have been opened keep their host.
LEMMA OwnerStable ==
  ASSUME IInv, [BrokerNext]_allVars, NEW s \in Streams, owner[s] # None
  PROVE  owner'[s] = owner[s]
<1>1. phase[s] # "idle"
  BY DEF IInv, TypeOK
<1>2. [Next]_vars
  BY RegistryStep
<1>3. QED
  BY <1>1, <1>2 DEF Next, Network, Handler, Open, HalfClose, Break, Register, Leave,
       Deregister, Restart, vars, IInv, TypeOK

\* A step of the streams alone: the broker's variables stay, and so does the
\* owner of every stream a command has been routed to or sent on.
LEMMA StreamsOnly ==
  ASSUME BInv, [BrokerNext]_allVars, IInv', UNCHANGED brokerVars
  PROVE  BInv'
<1>1. BrokerTypeOK'
  BY DEF BInv, BrokerTypeOK, brokerVars, IInv
<1>2. Progress'
  BY DEF BInv, Progress, Unsent, brokerVars
<1>3. Reported'
  BY DEF BInv, Reported, brokerVars
<1>4. OnlyToTarget'
  <2> SUFFICES ASSUME NEW c \in Cmds
               PROVE  /\ route[c] # None => owner'[route[c]] = target[c]
                      /\ \A s \in Streams : c \in down[s] => owner'[s] = target[c]
    BY DEF OnlyToTarget, brokerVars
  <2>1. issue[c] = "idle" => route[c] = None /\ \A s \in Streams : c \notin down[s]
    BY DEF BInv, Progress, Unsent
  <2>2. issue[c] # "idle" => target[c] # None
    BY NoneAssumption DEF BInv, BrokerTypeOK
  <2>3. route[c] \in Streams \cup {None}
    BY DEF BInv, BrokerTypeOK
  <2>4. QED
    BY <2>1, <2>2, <2>3, OwnerStable DEF BInv, OnlyToTarget
<1>5. QED
  BY <1>1, <1>2, <1>3, <1>4 DEF BInv

\* The steps of Issue preserve the invariant: what Route reads from the registry
\* belongs to the target host, by RegisteredIsLive.
LEMMA IssueStep ==
  ASSUME BInv, NEW c \in Cmds,
         Issuing(c) \/ \E h \in Hosts : Start(c, h)
  PROVE  BInv'
<1> USE NoneAssumption DEF BInv, BrokerTypeOK, Outcomes, Running, Ended, Goto
<1>0. IInv'
  BY DEF Issuing, Start, Store, StoreFails, Route, Push, vars, IInv, TypeOK, Phases, Wires,
     RegisteredIsLive, UnlistedOnlyByRival, Live, Lookup
<1>1. ASSUME NEW h \in Hosts, Start(c, h) PROVE BInv'
  <2>1. BrokerTypeOK'
    BY <1>0, <1>1 DEF Start, IInv
  <2>2. Progress' /\ Reported'
    BY <1>1 DEF Start, Progress, Unsent, Reported
  <2>3. OnlyToTarget'
    BY <1>1 DEF Start, vars, OnlyToTarget, Progress, Unsent
  <2>4. QED
    BY <1>0, <2>1, <2>2, <2>3
<1>2. CASE Store(c) \/ StoreFails(c)
  <2>1. BrokerTypeOK'
    BY <1>0, <1>2 DEF Store, StoreFails, IInv
  <2>2. Progress' /\ Reported'
    BY <1>2 DEF Store, StoreFails, Progress, Unsent, Reported
  <2>3. OnlyToTarget'
    BY <1>2 DEF Store, StoreFails, vars, OnlyToTarget
  <2>4. QED
    BY <1>0, <2>1, <2>2, <2>3
<1>3. CASE Route(c)
  <2>1. Lookup(target[c]) \in Streams \cup {None}
    BY <1>3 DEF Route, IInv, TypeOK, Lookup
  <2>2. Lookup(target[c]) # None => owner[Lookup(target[c])] = target[c]
    BY <1>3 DEF Route, IInv, RegisteredIsLive, Lookup
  <2>3. BrokerTypeOK'
    BY <1>0, <1>3, <2>1 DEF Route, IInv
  <2>4. Progress' /\ Reported'
    BY <1>3, <2>1 DEF Route, Progress, Unsent, Reported
  <2>5. OnlyToTarget'
    BY <1>3, <2>2 DEF Route, vars, OnlyToTarget
  <2>6. QED
    BY <1>0, <2>3, <2>4, <2>5
<1>4. CASE Push(c)
  <2>1. route[c] \in Streams /\ owner[route[c]] = target[c]
    BY <1>4 DEF Push, Progress, OnlyToTarget
  <2>2. BrokerTypeOK'
    BY <1>0, <1>4 DEF Push, IInv
  <2>3. Progress' /\ Reported'
    BY <1>4 DEF Push, Progress, Unsent, Reported
  <2>4. OnlyToTarget'
    BY <1>4, <2>1 DEF Push, vars, OnlyToTarget
  <2>5. QED
    BY <1>0, <2>2, <2>3, <2>4
<1>5. QED
  BY <1>1, <1>2, <1>3, <1>4 DEF Issuing

\* What agents and result goroutines do keeps commands and results apart.
LEMMA AgentStep ==
  ASSUME BInv, NEW c \in Cmds, NEW s \in Streams,
         Receive(c, s) \/ Report(c, s)
  PROVE  BInv'
<1> USE DEF BInv, BrokerTypeOK, Outcomes, Packets, Results
<1>0. IInv'
  BY DEF Receive, Report, vars, IInv, TypeOK, Phases, Wires,
     RegisteredIsLive, UnlistedOnlyByRival, Live, Lookup
<1>1. CASE Receive(c, s)
  <2>1. issue[c] = "sent"
    BY <1>1 DEF Receive, Progress, Unsent
  <2>2. BrokerTypeOK'
    BY <1>0, <1>1 DEF Receive, IInv
  <2>3. Progress' /\ Reported'
    BY <1>1, <2>1 DEF Receive, Progress, Unsent, Reported
  <2>4. OnlyToTarget'
    BY <1>1 DEF Receive, vars, OnlyToTarget
  <2>5. QED
    BY <1>0, <2>2, <2>3, <2>4
<1>2. CASE Report(c, s)
  <2>1. BrokerTypeOK'
    BY <1>0, <1>2 DEF Report, IInv
  <2>2. Progress' /\ Reported'
    BY <1>2 DEF Report, Progress, Unsent, Reported
  <2>3. OnlyToTarget'
    BY <1>2 DEF Report, vars, OnlyToTarget
  <2>4. QED
    BY <1>0, <2>1, <2>2, <2>3
<1>3. QED
  BY <1>1, <1>2

\* Only rows of commands that ran are completed.
LEMMA ResultStep ==
  ASSUME BInv,
         \/ \E p \in up : Take(p)
         \/ \E w \in workers : Complete(w) \/ CompleteFails(w)
  PROVE  BInv'
<1> USE DEF BInv, BrokerTypeOK, Outcomes, Packets, Results
<1>0. IInv'
  BY DEF Take, Complete, CompleteFails, vars, IInv, TypeOK, Phases, Wires,
     RegisteredIsLive, UnlistedOnlyByRival, Live, Lookup
<1>1. CASE \E p \in up : Take(p)
  BY <1>0, <1>1 DEF Take, vars, IInv, Progress, Unsent, Reported, OnlyToTarget
<1>2. ASSUME NEW w \in workers, Complete(w) PROVE BInv'
  <2>1. w.cmd \in Cmds /\ w.outcome \in Outcomes /\ issue[w.cmd] = "sent"
    BY DEF Reported, Progress, Unsent
  <2>2. BrokerTypeOK'
    BY <1>0, <1>2, <2>1 DEF Complete, IInv
  <2>3. Progress' /\ Reported'
    BY <1>2, <2>1 DEF Complete, Progress, Unsent, Reported
  <2>4. OnlyToTarget'
    BY <1>2 DEF Complete, vars, OnlyToTarget
  <2>5. QED
    BY <1>0, <2>2, <2>3, <2>4
<1>3. CASE \E w \in workers : CompleteFails(w)
  BY <1>0, <1>3 DEF CompleteFails, vars, IInv, Progress, Unsent, Reported, OnlyToTarget
<1>4. QED
  BY <1>1, <1>2, <1>3

\* A crash only turns Issue calls in progress into calls nobody answers.
LEMMA RestartStep == ASSUME BInv, IInv', BrokerRestart PROVE BInv'
<1> USE DEF BInv, BrokerTypeOK, Running, Ended
<1>1. BrokerTypeOK'
  BY DEF BrokerRestart, IInv
<1>2. Progress' /\ Reported'
  BY DEF BrokerRestart, Progress, Unsent, Reported
<1>3. OnlyToTarget'
  BY DEF BrokerRestart, Restart, OnlyToTarget
<1>4. QED
  BY <1>1, <1>2, <1>3

\* BInv is inductive.
LEMMA BrokerInductive == BInv /\ [BrokerNext]_allVars => BInv'
<1> SUFFICES ASSUME BInv, [BrokerNext]_allVars PROVE BInv'
  OBVIOUS
<1>0. IInv'
  BY RegistryInv DEF BInv
<1>1. CASE StreamStep \/ UNCHANGED allVars
  BY <1>0, <1>1, StreamsOnly DEF StreamStep, allVars
<1>2. CASE \E c \in Cmds, h \in Hosts : Start(c, h)
  BY <1>2, IssueStep
<1>3. CASE \E c \in Cmds : Issuing(c)
  BY <1>3, IssueStep
<1>4. CASE \E c \in Cmds, s \in Streams : Receive(c, s) \/ Report(c, s)
  BY <1>4, AgentStep
<1>5. CASE \/ \E p \in up : Take(p)
           \/ \E w \in workers : Complete(w) \/ CompleteFails(w)
  BY <1>5, ResultStep
<1>6. CASE BrokerRestart
  BY <1>0, <1>6, RestartStep
<1>7. QED
  BY <1>1, <1>2, <1>3, <1>4, <1>5, <1>6 DEF BrokerNext

LEMMA BrokerInvariance == BrokerSpec => []BInv
<1>1. BrokerInit => BInv
  BY NoneAssumption DEF BrokerInit, Init, BInv, IInv, TypeOK, BrokerTypeOK, Phases, Wires,
     RegisteredIsLive, UnlistedOnlyByRival, Live, Progress, Unsent, Reported,
     OnlyToTarget, Results, Packets
<1>2. QED
  BY <1>1, BrokerInductive, PTL DEF BrokerSpec

\* Types of the whole broker state.
THEOREM BrokerTypeCorrect == BrokerSpec => []BrokerTypeOK
  BY BrokerInvariance, PTL DEF BInv

\* Issuing commands and taking their results does nothing to the registry that the
\* Connect handlers do not do anyway: the broker only reads it.
THEOREM BrokerImplementsRegistry == BrokerSpec => Spec
<1>1. BrokerInit => Init
  BY DEF BrokerInit
<1>2. QED
  BY <1>1, RegistryStep, PTL DEF BrokerSpec, Spec

\* So what Issue gets from the registry is a stream of the target whose handler is
\* still there, and one that it does not find was unlisted by a rival at most.
THEOREM LookupsAreRight == BrokerSpec => [](RegisteredIsLive /\ UnlistedOnlyByRival)
  BY BrokerImplementsRegistry, OnlyLiveRegistered, OnlyRivalsUnlist, PTL

\* A CommandRequest never travels to a host other than the one it names.
THEOREM NeverMisdelivered == BrokerSpec => []OnlyToTarget
  BY BrokerInvariance, PTL DEF BInv

\* The audit row exists before the command can be seen outside the server.
THEOREM AuditFirst == BrokerSpec => []AuditedBeforeSent
<1>1. BInv => AuditedBeforeSent
  BY DEF BInv, Progress, Unsent, AuditedBeforeSent
<1>2. QED
  BY <1>1, BrokerInvariance, PTL

\* A command that Issue refused, or whose Send failed, does not run.
THEOREM ErrorNeverRuns == BrokerSpec => []ErrorMeansNotRun
<1>1. BInv => ErrorMeansNotRun
  BY DEF BInv, Progress, Unsent, ErrorMeansNotRun
<1>2. QED
  BY <1>1, BrokerInvariance, PTL

\* Every step of the broker is a step of CommandAudit or leaves the table and
\* the set of executed commands alone.
LEMMA AuditStep == BInv /\ [BrokerNext]_allVars => [Audit!Next]_Audit!vars
<1> SUFFICES ASSUME BInv, [BrokerNext]_allVars PROVE [Audit!Next]_Audit!vars
  OBVIOUS
<1> USE DEF Audit!vars, Audit!Next
<1>1. CASE StreamStep \/ UNCHANGED allVars \/ BrokerRestart
  BY <1>1 DEF StreamStep, allVars, brokerVars, BrokerRestart
<1>2. CASE \E c \in Cmds, h \in Hosts : Start(c, h)
  BY <1>2 DEF Start
<1>3. ASSUME NEW c \in Cmds, Issuing(c) PROVE [Audit!Next]_Audit!vars
  <2>1. CASE Store(c)
    BY <2>1 DEF Store, Audit!Record, BInv, Progress
  <2>2. CASE StoreFails(c)
    <3>1. row' = row \/ row' = [row EXCEPT ![c] = "pending"]
      BY <2>2 DEF StoreFails, BInv, Progress, BrokerTypeOK
    <3>2. QED
      BY <2>2, <3>1 DEF StoreFails, Audit!Record, BInv, Progress
  <2>3. CASE Route(c) \/ Push(c)
    BY <2>3 DEF Route, Push
  <2>4. QED
    BY <1>3, <2>1, <2>2, <2>3 DEF Issuing
<1>4. ASSUME NEW c \in Cmds, NEW s \in Streams, Receive(c, s) \/ Report(c, s)
      PROVE  [Audit!Next]_Audit!vars
  BY <1>4 DEF Receive, Report, Audit!Execute, BInv, Progress, Unsent
<1>5. CASE \/ \E p \in up : Take(p)
           \/ \E w \in workers : CompleteFails(w)
  BY <1>5 DEF Take, CompleteFails
<1>6. ASSUME NEW w \in workers, Complete(w) PROVE [Audit!Next]_Audit!vars
  <2>1. w.cmd \in Cmds /\ w.outcome \in {"completed", "failed"} /\ w.cmd \in executed
    BY DEF BInv, BrokerTypeOK, Results, Outcomes, Reported
  <2>2. row' = [row EXCEPT ![w.cmd] = w.outcome]
    BY <1>6, <2>1 DEF Complete, BInv, Progress, Unsent
  <2>3. QED
    BY <1>6, <2>1, <2>2 DEF Complete, Audit!Settle
<1>7. QED
  BY <1>1, <1>2, <1>3, <1>4, <1>5, <1>6 DEF BrokerNext

\* The broker implements the abstract audit table.
THEOREM BrokerImplementsAudit == BrokerSpec => AuditKept
<1>1. BrokerInit => Audit!Init
  BY DEF BrokerInit, Audit!Init
<1>2. QED
  BY <1>1, BrokerInvariance, AuditStep, PTL DEF BrokerSpec, AuditKept, Audit!Spec

-----------------------------------------------------------------------------
(***************************************************************************)
(* The rate limiter.                                                       *)
(***************************************************************************)

\* What a bucket says about the commands of the last window.  While it counts, the
\* commands since it was made are those it has counted, and the older ones,
\* however many buckets they are from, are no more than the limit; when it is
\* over, nothing has passed at this instant, and what is left of it is within the
\* limit.  TwiceTheLimit alone is not inductive: it does not say which commands
\* go out of sight by the time the bucket is renewed.
BucketInv(h) ==
  /\ \A a, b \in Ages : a <= b => passed[h][a] <= passed[h][b]
  /\ ~Over(h) => /\ passed[h][Window - left[h]] = count[h]
                 /\ count[h] <= Max
                 /\ passed[h][Window] - count[h] <= Max
  /\ Over(h) => passed[h][0] = 0 /\ passed[h][Window] <= Max
  /\ verdict[h] = "refused" => ~Over(h) /\ count[h] >= Max

LimiterInv == LimiterTypeOK /\ \A h \in HostIDs : BucketInv(h)

\* The empty map of buckets satisfies the invariant.
LEMMA LimiterStarts == LimiterInit => LimiterInv
<1> SUFFICES ASSUME LimiterInit PROVE LimiterInv
  OBVIOUS
<1>1. 0 \in Ages /\ Window \in Ages
  BY LimiterAssumption DEF Ages
<1>2. LimiterTypeOK
  BY LimiterAssumption DEF LimiterInit, LimiterTypeOK
<1>3. \A h \in HostIDs : BucketInv(h)
  <2> TAKE h \in HostIDs
  <2>1. count[h] = 0 /\ left[h] = -1 /\ verdict[h] = "none"
    BY DEF LimiterInit
  <2>2. \A a \in Ages : passed[h][a] = 0
    BY DEF LimiterInit
  <2>3. QED
    BY <1>1, <2>1, <2>2, LimiterAssumption DEF BucketInv, Over
<1>4. QED
  BY <1>2, <1>3 DEF LimiterInv

\* An admitted command, whatever becomes of the bucket, is counted at every age.
LEMMA AdmitCounts ==
  ASSUME NEW h \in HostIDs, LimiterTypeOK, Admit(h)
  PROVE  /\ passed' \in [HostIDs -> [Ages -> Nat]]
         /\ \A a \in Ages : passed'[h][a] = passed[h][a] + 1
         /\ \A g \in HostIDs \ {h} : passed'[g] = passed[g] /\ verdict'[g] = verdict[g]
         /\ verdict' \in [HostIDs -> {"none", "ok", "refused"}] /\ verdict'[h] = "ok"
<1>1. passed' = [passed EXCEPT ![h] = [a \in Ages |-> passed[h][a] + 1]]
  BY DEF Admit
<1>2. [a \in Ages |-> passed[h][a] + 1] \in [Ages -> Nat]
  BY DEF LimiterTypeOK
<1>3. QED
  BY <1>1, <1>2 DEF LimiterTypeOK, Admit

\* Allow keeps the invariant of its host, and does not touch those of others.
LEMMA AllowKeeps ==
  ASSUME NEW h \in HostIDs, LimiterInv, Allow(h)
  PROVE  LimiterInv'
<1> USE LimiterAssumption
<1>1. LimiterTypeOK /\ BucketInv(h) /\ \A g \in HostIDs : BucketInv(g)
  BY DEF LimiterInv
<1>2. count[h] \in Nat /\ left[h] \in -1 .. Window /\ passed[h] \in [Ages -> Nat]
  BY <1>1 DEF LimiterTypeOK
<1>3. 0 \in Ages /\ Window \in Ages /\ (~Over(h) => Window - left[h] \in Ages)
  BY <1>2 DEF Ages, Over
<1>4. CASE Over(h) /\ Renew(h)
  <2>1. /\ count' = [count EXCEPT ![h] = 1] /\ left' = [left EXCEPT ![h] = Window]
        /\ Admit(h)
    BY <1>4 DEF Renew
  <2>2. LimiterTypeOK'
    BY <1>1, <2>1, AdmitCounts DEF LimiterTypeOK
  <2>3. count'[h] = 1 /\ left'[h] = Window
    BY <1>1, <2>1 DEF LimiterTypeOK
  <2>4. passed'[h][0] = 1 /\ passed'[h][Window] - 1 <= Max
    BY <1>1, <1>2, <1>3, <1>4, <2>1, AdmitCounts DEF BucketInv
  <2>5. BucketInv(h)'
    BY <1>1, <1>2, <2>1, <2>3, <2>4, AdmitCounts DEF BucketInv, Over
  <2>6. \A g \in HostIDs \ {h} : BucketInv(g)'
    BY <1>1, <2>1, AdmitCounts DEF BucketInv, Over, LimiterTypeOK
  <2>7. QED
    BY <2>2, <2>5, <2>6 DEF LimiterInv
<1>5. CASE ~Over(h) /\ count[h] >= Max /\ Refuse(h)
  <2>1. LimiterTypeOK'
    BY <1>1, <1>5 DEF LimiterTypeOK, Refuse
  <2>2. \A g \in HostIDs : BucketInv(g)'
    BY <1>1, <1>5 DEF BucketInv, Over, Refuse, LimiterTypeOK
  <2>3. QED
    BY <2>1, <2>2 DEF LimiterInv
<1>6. CASE /\ ~Over(h) /\ count[h] < Max /\ Admit(h) /\ UNCHANGED left
           /\ count' = [count EXCEPT ![h] = @ + 1]
  <2>1. LimiterTypeOK'
    BY <1>1, <1>6, AdmitCounts DEF LimiterTypeOK
  <2>2. count'[h] = count[h] + 1 /\ left'[h] = left[h]
    BY <1>1, <1>6 DEF LimiterTypeOK
  <2>3. /\ passed'[h][Window - left[h]] = passed[h][Window - left[h]] + 1
        /\ passed'[h][Window] = passed[h][Window] + 1
    BY <1>1, <1>3, <1>6, AdmitCounts
  <2>4. passed[h][Window - left[h]] \in Nat /\ passed[h][Window] \in Nat
    BY <1>2, <1>3, <1>6
  <2>5. BucketInv(h)'
    BY <1>1, <1>2, <1>6, <2>2, <2>3, <2>4, AdmitCounts DEF BucketInv, Over
  <2>6. \A g \in HostIDs \ {h} : BucketInv(g)'
    BY <1>1, <1>6, AdmitCounts DEF BucketInv, Over, LimiterTypeOK
  <2>7. QED
    BY <2>1, <2>5, <2>6 DEF LimiterInv
<1>7. QED
  BY <1>4, <1>5, <1>6 DEF Allow

\* When time passes, every command is one unit older, the reset one unit nearer.
LEMMA TickKeeps == ASSUME LimiterInv, Tick PROVE LimiterInv'
<1> USE LimiterAssumption
<1>1. LimiterTypeOK /\ \A g \in HostIDs : BucketInv(g)
  BY DEF LimiterInv
<1>2. LimiterTypeOK'
  <2>1. \A h \in HostIDs : (IF Over(h) THEN -1 ELSE left[h] - 1) \in -1 .. Window
    BY <1>1 DEF LimiterTypeOK, Over
  <2>2. \A h \in HostIDs :
          [a \in Ages |-> IF a = 0 THEN 0 ELSE passed[h][a - 1]] \in [Ages -> Nat]
    BY <1>1 DEF LimiterTypeOK, Ages
  <2>3. QED
    BY <1>1, <2>1, <2>2 DEF LimiterTypeOK, Tick
<1>3. ASSUME NEW h \in HostIDs PROVE BucketInv(h)'
  <2>1. count[h] \in Nat /\ left[h] \in -1 .. Window /\ passed[h] \in [Ages -> Nat]
    BY <1>1 DEF LimiterTypeOK
  <2>2. \A a \in Ages : passed'[h][a] = IF a = 0 THEN 0 ELSE passed[h][a - 1]
    BY DEF Tick
  <2>3. /\ left'[h] = IF left[h] < 0 THEN -1 ELSE left[h] - 1
        /\ count'[h] = count[h] /\ verdict'[h] = "none"
    BY DEF Tick, Over
  <2>4. BucketInv(h)
    BY <1>1
  <2>5. 0 \in Ages /\ Window \in Ages /\ Window - 1 \in Ages
    BY DEF Ages
  <2>6. \A a, b \in Ages : a <= b => passed'[h][a] <= passed'[h][b]
    <3> SUFFICES ASSUME NEW a \in Ages, NEW b \in Ages, a <= b
                 PROVE  passed'[h][a] <= passed'[h][b]
      OBVIOUS
    <3>1. CASE a = 0
      BY <1>2, <2>2, <3>1 DEF LimiterTypeOK
    <3>2. CASE a # 0
      <4>1. a - 1 \in Ages /\ b - 1 \in Ages /\ a - 1 <= b - 1 /\ b # 0
        BY <3>2 DEF Ages
      <4>2. passed[h][a - 1] <= passed[h][b - 1]
        BY <2>4, <4>1 DEF BucketInv
      <4>3. QED
        BY <2>2, <3>2, <4>1, <4>2
    <3>3. QED
      BY <3>1, <3>2
  <2>7. passed'[h][0] = 0 /\ passed'[h][Window] = passed[h][Window - 1]
    BY <2>2, <2>5
  <2>8. passed[h][Window - 1] <= passed[h][Window]
    BY <2>4, <2>5 DEF BucketInv
  <2>9. passed[h][Window - 1] \in Nat /\ passed[h][Window] \in Nat
    BY <2>1, <2>5
  <2>10. CASE left[h] < 0
    BY <2>3, <2>4, <2>6, <2>7, <2>8, <2>9, <2>10 DEF BucketInv, Over
  <2>11. CASE left[h] = 0
    <3>1. passed[h][Window] = count[h] /\ count[h] <= Max
      BY <2>4, <2>11 DEF BucketInv, Over
    <3>2. QED
      BY <2>3, <2>6, <2>7, <2>8, <2>9, <2>11, <3>1 DEF BucketInv, Over
  <2>12. CASE left[h] > 0
    <3>1. /\ Window - left[h] \in Ages /\ Window - (left[h] - 1) \in Ages
          /\ Window - (left[h] - 1) # 0
          /\ (Window - (left[h] - 1)) - 1 = Window - left[h]
      <4>1. Window \in Nat /\ left[h] \in Nat /\ 0 < left[h] /\ left[h] <= Window
        BY <2>1, <2>12
      <4>2. \A w, l \in Nat : 0 < l /\ l <= w =>
              /\ w - l \in 0 .. w /\ w - (l - 1) \in 0 .. w
              /\ w - (l - 1) # 0 /\ (w - (l - 1)) - 1 = w - l
        OBVIOUS
      <4>3. QED
        BY <4>1, <4>2 DEF Ages
    <3>2. /\ passed[h][Window - left[h]] = count[h] /\ count[h] <= Max
          /\ passed[h][Window] - count[h] <= Max
      BY <2>1, <2>4, <2>12 DEF BucketInv, Over
    <3>3. passed'[h][Window - (left[h] - 1)] = count[h]
      BY <2>2, <3>1, <3>2
    <3>4. left'[h] = left[h] - 1 /\ left[h] - 1 >= 0
      BY <2>1, <2>3, <2>12
    <3>5. QED
      BY <2>1, <2>3, <2>6, <2>7, <2>8, <2>9, <3>2, <3>3, <3>4 DEF BucketInv, Over
  <2>13. QED
    BY <2>1, <2>10, <2>11, <2>12
<1>4. QED
  BY <1>2, <1>3 DEF LimiterInv

\* LimiterInv holds in every state the limiter reaches.
LEMMA LimiterInvariance == LimiterSpec => []LimiterInv
<1>1. LimiterInv /\ [LimiterNext]_limiterVars => LimiterInv'
  <2> SUFFICES ASSUME LimiterInv, [LimiterNext]_limiterVars PROVE LimiterInv'
    OBVIOUS
  <2>1. CASE UNCHANGED limiterVars
    BY <2>1 DEF limiterVars, LimiterInv, LimiterTypeOK, BucketInv, Over
  <2>2. QED
    BY <2>1, AllowKeeps, TickKeeps DEF LimiterNext
<1>2. QED
  BY <1>1, LimiterStarts, PTL DEF LimiterSpec

\* Types of the limiter's state, with any hosts, limit and window.
THEOREM LimiterTypeCorrect == LimiterSpec => []LimiterTypeOK
<1>1. LimiterInv => LimiterTypeOK
  BY DEF LimiterInv
<1>2. QED
  BY <1>1, LimiterInvariance, PTL

\* No stretch of time as long as the window sees more than twice the limit pass.
THEOREM NeverMoreThanTwice == LimiterSpec => []TwiceTheLimit
<1>1. LimiterInv => TwiceTheLimit
  <2> SUFFICES ASSUME LimiterInv, NEW h \in HostIDs PROVE passed[h][Window] <= 2 * Max
    BY DEF TwiceTheLimit
  <2>1. BucketInv(h) /\ count[h] \in Nat /\ passed[h][Window] \in Nat
    BY LimiterAssumption DEF LimiterInv, LimiterTypeOK, Ages
  <2>2. QED
    BY <2>1, LimiterAssumption DEF BucketInv
<1>2. QED
  BY <1>1, LimiterInvariance, PTL

\* A refused host has used up its limit within the last window.
THEOREM RefusalsAreJustified == LimiterSpec => []RefusalJustified
<1>1. LimiterInv => RefusalJustified
  <2> SUFFICES ASSUME LimiterInv, NEW h \in HostIDs, verdict[h] = "refused"
               PROVE  passed[h][Window] >= Max
    BY DEF RefusalJustified
  <2>1. /\ BucketInv(h) /\ count[h] \in Nat
        /\ left[h] \in -1 .. Window /\ passed[h] \in [Ages -> Nat]
    BY DEF LimiterInv, LimiterTypeOK
  <2>2. ~Over(h) /\ count[h] >= Max
    BY <2>1 DEF BucketInv
  <2>3. Window \in Ages /\ Window - left[h] \in Ages /\ Window - left[h] <= Window
    BY <2>1, <2>2, LimiterAssumption DEF Ages, Over
  <2>4. passed[h][Window - left[h]] = count[h]
    BY <2>1, <2>2 DEF BucketInv
  <2>5. passed[h][Window - left[h]] <= passed[h][Window]
    BY <2>1, <2>3 DEF BucketInv
  <2>6. passed[h][Window] \in Nat
    BY <2>1, <2>3
  <2>7. QED
    BY <2>1, <2>2, <2>4, <2>5, <2>6, LimiterAssumption
<1>2. QED
  BY <1>1, LimiterInvariance, PTL
=============================================================================
