--------------------------- MODULE ConfigPush_proofs --------------------------
(***************************************************************************)
(* Proofs about configuration push, for any hosts, streams, calls of Push  *)
(* and versions.                                                           *)
(*                                                                         *)
(* A behaviour of the config service is one of the registry, so that the   *)
(* invariants of StreamRegistry_proofs hold.  What is added says, for each *)
(* task, what it has established by the step it has come to.               *)
(***************************************************************************)
EXTENDS ConfigPush, StreamRegistry_proofs

Active == {"read", "find", "send"}

\* The phases of a stream that has been added.
Added == {"serving", "leaving", "gone"}

\* A task works for one host, and what it found is a stream of that host, which
\* for a sync was not over when its own was added.
TasksKnowHost ==
  /\ \A t \in Tasks : pc[t] # "idle" => about[t] \in Hosts
  /\ \A s \in Streams : pc[s] # "idle" => about[s] = owner[s] /\ phase[s] # "accepted"
  /\ \A t \in Tasks : pc[t] = "idle" => dest[t] = None
  /\ \A t \in Pushes : pc[t] = "read" => dest[t] # None
  /\ \A t \in Tasks : dest[t] # None => owner[dest[t]] = about[t] /\ phase[dest[t]] \in Added
  /\ \A s \in Streams : dest[s] # None => dest[s] \notin past[s]

\* What a task has read is not newer than the row, a sync's not older than its
\* connect.
TasksReadRow ==
  /\ \A t \in Tasks : pc[t] \in {"idle", "read"} => ver[t] = 0
  /\ \A t \in Pushes : pc[t] = "find" => ver[t] = 0
  /\ \A t \in Tasks : pc[t] # "idle" => ver[t] <= version[about[t]]
  /\ \A s \in Streams : pc[s] # "idle" => atConnect[s] <= version[owner[s]]
  /\ \A s \in Streams : pc[s] \in {"find", "send"} => ver[s] >= atConnect[s]

GoneIsDead == \A s \in Streams : phase[s] = "gone" => wire[s] = "dead"

\* Only a stream that is over counts as past.  While no other handler of its host
\* has overlapped with it, a stream is listed.
PastIsGone == \A s, t \in Streams : t \in past[s] => phase[t] = "gone"

UndisputedIsListed == \A s \in Streams : Live(s) /\ Undisputed(s) => Lookup(owner[s]) = s

Sessions == PastIsGone /\ UndisputedIsListed

CInv ==
  /\ IInv /\ ConfigTypeOK /\ GoneIsDead /\ Sessions
  /\ TasksKnowHost /\ TasksReadRow
  /\ SentIsOwnConfig /\ UndisputedIsSynced

USE ConfigAssumption

-----------------------------------------------------------------------------
(***************************************************************************)
(* The streams.                                                            *)
(***************************************************************************)

\* A step of the config service is a step of the registry, or leaves it alone.
LEMMA RegistryStep == [ConfigNext]_allVars => [Next]_vars
<1> SUFFICES ASSUME [ConfigNext]_allVars PROVE [Next]_vars
  OBVIOUS
<1>1. CASE StreamStep
  BY <1>1 DEF StreamStep, Next, Handler
<1>2. CASE ConfigRestart
  BY <1>2 DEF ConfigRestart, Next
<1>3. CASE \E s \in Streams : RegisterAndSync(s)
  BY <1>3 DEF RegisterAndSync, Next, Handler
<1>4. CASE (\E h \in Hosts : SetField(h)) \/ \E t \in Pushes, h \in Hosts : CallPush(t, h)
  BY <1>4 DEF SetField, CallPush
<1>5. CASE \E t \in Tasks : Task(t)
  BY <1>5 DEF Task, Read, ReadFails, Find, Send
<1>6. CASE UNCHANGED allVars
  BY <1>6 DEF allVars
<1>7. QED
  BY <1>1, <1>2, <1>3, <1>4, <1>5, <1>6 DEF ConfigNext

\* The registry's inductive invariant survives every step.
LEMMA RegistryInv == IInv /\ [ConfigNext]_allVars => IInv'
  BY RegistryStep, TypeStep, LiveStep, RivalStep DEF IInv

\* What a step of the registry does to a stream that has been opened: it keeps
\* its host, it never opens again, and it does not go back to "accepted".
LEMMA StreamsAge ==
  ASSUME IInv, [Next]_vars, NEW s \in Streams, phase[s] # "idle"
  PROVE  /\ owner[s] \in Hosts /\ owner'[s] = owner[s]
         /\ wire'[s] = "open" => wire[s] = "open"
         /\ phase[s] # "accepted" => phase'[s] # "accepted"
         /\ phase'[s] # "idle"
<1>1. owner[s] \in Hosts
  BY DEF IInv, TypeOK
<1>2. QED
  BY <1>1 DEF Next, Network, Handler, Open, HalfClose, Break, Register, Leave,
     Deregister, Restart, vars, IInv, TypeOK

LEMMA GoneStep == IInv /\ GoneIsDead /\ [Next]_vars => GoneIsDead'
  BY DEF Next, Network, Handler, Open, HalfClose, Break, Register, Leave,
     Deregister, Restart, vars, IInv, TypeOK, GoneIsDead, Phases, Wires

\* A stream that was added stays so, under its host.
LEMMA AddedStays ==
  ASSUME IInv, [Next]_vars, NEW t \in Streams, phase[t] \in Added
  PROVE  phase'[t] \in Added /\ owner'[t] = owner[t] /\ (phase[t] = "gone" => phase'[t] = "gone")
  BY DEF Added, Next, Network, Handler, Open, HalfClose, Break, Register, Leave,
     Deregister, Restart, vars, IInv, TypeOK

\* A stream that no other handler has overlapped with was so before.
LEMMA UndisputedBefore ==
  ASSUME IInv, [Next]_vars, NEW s \in Streams, phase[s] # "idle",
         past'[s] = past[s], Undisputed(s)'
  PROVE  Undisputed(s)
<1> SUFFICES ASSUME NEW t \in Streams \ {s}, owner[t] = owner[s], phase[t] \in Added
             PROVE  t \in past[s]
  BY DEF Undisputed, Added
<1>1. owner'[t] = owner'[s] /\ phase'[t] \in Added
  BY AddedStays, StreamsAge
<1>2. QED BY <1>1 DEF Undisputed, Added

\* A step that leaves past alone but for a stream which it adds.
LEMMA SessionsStep ==
  ASSUME IInv, ConfigTypeOK, Sessions, [Next]_vars,
         \/ UNCHANGED past
         \/ \E s \in Streams : Register(s) /\ Remember(s)
  PROVE  Sessions'
<1>1. \A u \in Streams : past'[u] = past[u] \/ \A t \in past'[u] : phase[t] = "gone"
  BY DEF Remember, ConfigTypeOK
<1>2. PastIsGone'
  <2> SUFFICES ASSUME NEW s \in Streams, NEW t \in Streams, t \in past'[s]
               PROVE  phase'[t] = "gone"
    BY DEF PastIsGone
  <2>1. phase[t] = "gone"
    BY <1>1 DEF Sessions, PastIsGone
  <2>2. QED BY <2>1, AddedStays DEF Added
<1>3. ASSUME NEW u \in Streams, Live(u)', Undisputed(u)' PROVE Lookup(owner[u])' = u
  <2>1. CASE Register(u)
    BY <2>1, StreamsAge DEF Register, Add, Lookup, IInv, TypeOK
  <2>2. CASE ~Register(u)
    <3>1. Live(u) /\ phase[u] # "idle" /\ past'[u] = past[u]
      <4>1. Live(u)
        BY <1>3, <2>2 DEF Live, Next, Network, Handler, Open, HalfClose, Break, Register, Leave,
           Deregister, Restart, vars, IInv, TypeOK
      <4>2. QED BY <4>1, <2>2 DEF Live, Register, Remember, ConfigTypeOK
    <3>2. Undisputed(u) /\ owner'[u] = owner[u] /\ owner[u] \in Hosts
      BY <1>3, <3>1, UndisputedBefore, StreamsAge
    <3>3. registry[owner[u]] = u
      BY <3>1, <3>2 DEF Sessions, UndisputedIsListed, Lookup
    <3>4. ASSUME NEW t \in Streams \ {u}, owner[t] = owner[u], Register(t) \/ Deregister(t)
          PROVE  FALSE
      <4>1. phase[t] \in {"accepted", "leaving"} /\ phase'[t] \in Added
        BY <3>4 DEF Register, Deregister, Added, IInv, TypeOK
      <4>2. owner'[t] = owner'[u]
        BY <3>2, <3>4, <4>1, StreamsAge
      <4>3. t \in past[u]
        BY <1>3, <3>1, <4>1, <4>2 DEF Undisputed, Added
      <4>4. QED BY <4>1, <4>3 DEF Sessions, PastIsGone
    <3>5. ~Deregister(u) /\ ~Restart
      BY <1>3, <3>1 DEF Deregister, Restart, Live, IInv, TypeOK
    <3>6. registry'[owner[u]] = u
      <4>1. CASE \E t \in Streams : Register(t) \/ Deregister(t)
        <5>1. PICK t \in Streams : Register(t) \/ Deregister(t)
          BY <4>1
        <5>2. owner[t] # owner[u]
          BY <2>2, <3>4, <3>5, <5>1
        <5>3. QED BY <3>2, <3>3, <5>1, <5>2 DEF Register, Deregister, Add, Remove, IInv, TypeOK
      <4>2. CASE ~\E t \in Streams : Register(t) \/ Deregister(t)
        <5>1. UNCHANGED registry
          BY <3>5, <4>2 DEF Next, Network, Handler, Open, HalfClose, Break, Leave, vars
        <5>2. QED BY <3>3, <5>1
      <4>3. QED BY <4>1, <4>2
    <3>7. QED BY <3>2, <3>6 DEF Lookup
  <2>3. QED BY <2>1, <2>2
<1>4. QED BY <1>2, <1>3 DEF Sessions, UndisputedIsListed

\* A sync runs on a stream that has been opened.
LEMMA SyncIsOpened ==
  ASSUME CInv, NEW s \in Streams, pc[s] # "idle"
  PROVE  phase[s] # "idle" /\ phase[s] # "accepted" /\ owner[s] \in Hosts /\ about[s] = owner[s]
<1>1. about[s] = owner[s] /\ about[s] \in Hosts /\ phase[s] # "accepted"
  BY DEF CInv, TasksKnowHost, Tasks
<1>2. QED BY <1>1, NoneAssumption DEF CInv, IInv, TypeOK

\* The sync of an undisputed stream finds that stream.
LEMMA UndisputedIsFound ==
  ASSUME CInv, NEW s \in Streams, Undisputed(s), wire[s] = "open", pc[s] # "idle"
  PROVE  Lookup(owner[s]) = s
<1>1. phase[s] \in {"serving", "leaving"}
  BY SyncIsOpened DEF CInv, GoneIsDead, IInv, TypeOK, Phases
<1>2. QED
  BY <1>1 DEF CInv, Sessions, UndisputedIsListed, Live

-----------------------------------------------------------------------------
(***************************************************************************)
(* The steps.                                                              *)
(***************************************************************************)

\* The streams move while versions and tasks stay.
LEMMA StreamsOnly ==
  ASSUME CInv, [Next]_vars, IInv', UNCHANGED configVars
  PROVE  CInv'
<1> USE DEF configVars
<1>1. ConfigTypeOK' /\ GoneIsDead' /\ Sessions'
  BY GoneStep, SessionsStep DEF CInv, ConfigTypeOK, IInv, Tasks
<1>2. \A s \in Streams : owner[s] # None => owner'[s] = owner[s]
  BY StreamsAge DEF CInv, IInv, TypeOK
<1>3. \A t \in Tasks : dest[t] # None => owner'[dest[t]] = about[t] /\ phase'[dest[t]] \in Added
  <2> SUFFICES ASSUME NEW t \in Tasks, dest[t] # None
               PROVE  owner'[dest[t]] = about[t] /\ phase'[dest[t]] \in Added
    OBVIOUS
  <2>1. dest[t] \in Streams /\ owner[dest[t]] = about[t] /\ phase[dest[t]] \in Added
    BY DEF CInv, ConfigTypeOK, TasksKnowHost
  <2>2. QED BY <2>1, AddedStays DEF CInv
<1>4. TasksKnowHost'
  BY <1>3, StreamsAge, SyncIsOpened DEF CInv, TasksKnowHost
<1>5. TasksReadRow'
  BY StreamsAge, SyncIsOpened DEF CInv, TasksReadRow
<1>6. SentIsOwnConfig'
  BY <1>2 DEF CInv, SentIsOwnConfig
<1>7. UndisputedIsSynced'
  BY StreamsAge, SyncIsOpened, UndisputedBefore DEF CInv, UndisputedIsSynced
<1>8. QED BY <1>1, <1>4, <1>5, <1>6, <1>7 DEF CInv

\* Nothing of the streams changes in the steps of a task.
LEMMA StreamsStay ==
  ASSUME CInv, UNCHANGED <<vars, past>>
  PROVE  IInv' /\ GoneIsDead' /\ Sessions'
<1>1. IInv' /\ GoneIsDead'
  BY DEF CInv, vars, IInv, TypeOK, RegisteredIsLive, UnlistedOnlyByRival, Live, Lookup, GoneIsDead
<1>2. PastIsGone'
  BY DEF CInv, Sessions, PastIsGone, vars
<1>3. UndisputedIsListed'
  BY DEF CInv, Sessions, UndisputedIsListed, Undisputed, Live, Lookup, vars
<1>4. QED BY <1>1, <1>2, <1>3 DEF Sessions

LEMMA SetFieldStep ==
  ASSUME CInv, NEW h \in Hosts, SetField(h) PROVE CInv'
<1> USE DEF SetField
<1>1. IInv' /\ GoneIsDead' /\ Sessions'
  BY StreamsStay
<1>2. ConfigTypeOK'
  BY DEF CInv, ConfigTypeOK, TypeOK, vars, Versions
<1>3. \A g \in Hosts : version[g] \in Nat /\ version'[g] \in Nat /\ version[g] <= version'[g]
  BY DEF CInv, ConfigTypeOK, Versions
<1>4. TasksKnowHost'
  BY DEF CInv, TasksKnowHost, vars
<1>5. TasksReadRow'
  <2>1. \A t \in Tasks : pc[t] # "idle" => ver[t] <= version'[about[t]]
    BY <1>3 DEF CInv, TasksReadRow, TasksKnowHost, ConfigTypeOK, Versions
  <2>2. \A s \in Streams : pc[s] # "idle" => atConnect[s] <= version'[owner[s]]
    BY <1>3, SyncIsOpened DEF CInv, TasksReadRow, ConfigTypeOK, Versions
  <2>3. QED BY <2>1, <2>2 DEF CInv, TasksReadRow, vars
<1>6. SentIsOwnConfig'
  <2> SUFFICES ASSUME NEW s \in Streams, NEW v \in sent[s] PROVE owner[s] # None /\ v <= version'[owner[s]]
    BY DEF SentIsOwnConfig, vars
  <2>1. owner[s] \in Hosts /\ v <= version[owner[s]] /\ v \in Nat
    BY DEF CInv, SentIsOwnConfig, ConfigTypeOK, Versions, TypeOK
  <2>2. QED BY <2>1, <1>3, NoneAssumption
<1>7. UndisputedIsSynced'
  BY DEF CInv, UndisputedIsSynced, Undisputed, vars
<1>8. QED BY <1>1, <1>2, <1>4, <1>5, <1>6, <1>7 DEF CInv

LEMMA RegisterStep ==
  ASSUME CInv, NEW s \in Streams, RegisterAndSync(s), IInv' PROVE CInv'
<1> USE DEF RegisterAndSync
<1>1. Register(s) /\ [Next]_vars
  BY DEF Next, Handler
<1>2. phase[s] = "accepted" /\ owner[s] \in Hosts /\ UNCHANGED <<owner, wire>> /\ pc[s] = "idle"
  BY <1>1, SyncIsOpened DEF Register, CInv, IInv, TypeOK
<1>3. s \in Tasks /\ phase' = [phase EXCEPT ![s] = "serving"]
  BY <1>1 DEF Tasks, Register
<1>4. ConfigTypeOK' /\ GoneIsDead' /\ Sessions'
  <2>1. ConfigTypeOK'
    BY <1>1, <1>2, <1>3 DEF CInv, ConfigTypeOK, IInv, Remember
  <2>2. QED BY <1>1, <2>1, GoneStep, SessionsStep DEF CInv
<1>5. \A t \in Tasks : pc'[t] = (IF t = s THEN "read" ELSE pc[t])
                       /\ about'[t] = (IF t = s THEN owner[s] ELSE about[t])
  BY <1>3 DEF CInv, ConfigTypeOK
<1>6. TasksKnowHost'
  <2>1. \A t \in Tasks : dest[t] # None => phase'[dest[t]] \in Added
    <3> SUFFICES ASSUME NEW t \in Tasks, dest[t] # None PROVE phase'[dest[t]] \in Added
      OBVIOUS
    <3>1. dest[t] \in Streams /\ phase[dest[t]] \in Added
      BY DEF CInv, ConfigTypeOK, TasksKnowHost
    <3>2. QED BY <1>1, <3>1, AddedStays DEF CInv
  <2>2. dest[s] = None /\ \A u \in Streams \ {s} : past'[u] = past[u]
    BY <1>2, <1>3 DEF Remember, CInv, ConfigTypeOK, TasksKnowHost
  <2>3. QED
    BY <1>2, <1>3, <1>5, <2>1, <2>2 DEF CInv, TasksKnowHost, IInv, TypeOK, Tasks
<1>7. TasksReadRow'
  <2>1. ver[s] = 0 /\ version[owner[s]] \in Nat
    BY <1>2, <1>3 DEF CInv, TasksReadRow, ConfigTypeOK, Versions
  <2>2. \A u \in Streams : atConnect'[u] = IF u = s THEN version[owner[s]] ELSE atConnect[u]
    BY DEF CInv, ConfigTypeOK, Remember
  <2>3. QED BY <1>2, <1>3, <1>5, <2>1, <2>2 DEF CInv, TasksReadRow, Tasks
<1>8. SentIsOwnConfig'
  BY <1>2 DEF CInv, SentIsOwnConfig
<1>9. UndisputedIsSynced'
  <2> SUFFICES ASSUME NEW u \in Streams, (pc[u] = "done" /\ atConnect[u] > 0 /\ wire[u] = "open" /\ Undisputed(u))'
               PROVE  (\E v \in sent[u] : v >= atConnect[u])'
    BY DEF UndisputedIsSynced
  <2>1. u # s /\ u \in Tasks /\ pc[u] = "done"
    BY <1>5 DEF Tasks
  <2>2. past'[u] = past[u] /\ atConnect'[u] = atConnect[u] /\ phase[u] # "idle"
    BY <2>1, SyncIsOpened DEF Remember, CInv, ConfigTypeOK
  <2>3. Undisputed(u)
    BY <1>1, <2>2, UndisputedBefore DEF CInv
  <2>4. QED BY <1>2, <2>1, <2>2, <2>3 DEF CInv, UndisputedIsSynced
<1>10. QED BY <1>4, <1>6, <1>7, <1>8, <1>9 DEF CInv

LEMMA CallPushStep ==
  ASSUME CInv, NEW t \in Pushes, NEW h \in Hosts, CallPush(t, h) PROVE CInv'
<1> USE DEF CallPush
<1>1. IInv' /\ GoneIsDead' /\ Sessions'
  BY StreamsStay
<1>2. t \in Tasks /\ t \notin Streams
  BY DEF Tasks
<1>3. \A u \in Tasks : pc'[u] = (IF u = t THEN "find" ELSE pc[u])
                       /\ about'[u] = (IF u = t THEN h ELSE about[u])
  BY <1>2 DEF CInv, ConfigTypeOK
<1>4. dest[t] = None /\ ver[t] = 0 /\ version[h] \in Nat
  BY <1>2 DEF CInv, TasksKnowHost, TasksReadRow, ConfigTypeOK, Versions
<1>5. ConfigTypeOK'
  BY <1>2, <1>3 DEF CInv, ConfigTypeOK, TypeOK, vars
<1>6. TasksKnowHost' /\ TasksReadRow'
  BY <1>2, <1>3, <1>4 DEF CInv, TasksKnowHost, TasksReadRow, Tasks, vars
<1>7. SentIsOwnConfig' /\ UndisputedIsSynced'
  BY <1>2, <1>3 DEF CInv, SentIsOwnConfig, UndisputedIsSynced, Undisputed, Tasks, vars
<1>8. QED BY <1>1, <1>5, <1>6, <1>7 DEF CInv

-----------------------------------------------------------------------------
\* A task that returns leaves the invariant alone, if a sync that returns without
\* an error has served an undisputed stream.
LEMMA ReturnKeeps ==
  ASSUME CInv, NEW t \in Tasks, NEW how \in {"done", "failed"}, pc[t] # "idle",
         Return(t, how), UNCHANGED <<vars, version, about, atConnect, past, sent>>,
         t \in Streams /\ how = "done" /\ atConnect[t] > 0 /\ wire[t] = "open" /\ Undisputed(t)
           => \E v \in sent[t] : v >= atConnect[t]
  PROVE  CInv'
<1> USE DEF Return
<1>1. IInv' /\ GoneIsDead' /\ Sessions'
  BY StreamsStay
<1>2. \A u \in Tasks : /\ pc'[u] = (IF u = t THEN how ELSE pc[u])
                       /\ ver'[u] = (IF u = t THEN 0 ELSE ver[u])
                       /\ dest'[u] = (IF u = t THEN None ELSE dest[u])
  BY DEF CInv, ConfigTypeOK
<1>3. 0 \in Versions /\ \A u \in Tasks : about[u] \in Hosts => version[about[u]] \in Nat
  BY DEF Versions, CInv, ConfigTypeOK
<1>4. ConfigTypeOK'
  BY <1>2, <1>3 DEF CInv, ConfigTypeOK, TypeOK, vars
<1>5. TasksKnowHost'
  BY <1>2 DEF CInv, TasksKnowHost, Tasks, vars
<1>6. TasksReadRow'
  BY <1>2, <1>3 DEF CInv, TasksReadRow, TasksKnowHost, Tasks, vars
<1>7. SentIsOwnConfig'
  BY DEF CInv, SentIsOwnConfig, vars
<1>8. UndisputedIsSynced'
  BY <1>2 DEF CInv, UndisputedIsSynced, Undisputed, Tasks, vars
<1>9. QED BY <1>1, <1>4, <1>5, <1>6, <1>7, <1>8 DEF CInv

LEMMA ReadStep ==
  ASSUME CInv, NEW t \in Tasks, Read(t) \/ ReadFails(t) PROVE CInv'
<1> DEFINE v == version[about[t]]
<1>1. v \in Versions /\ v \in Nat /\ about[t] \in Hosts /\ pc[t] = "read"
  BY DEF Read, ReadFails, CInv, ConfigTypeOK, TasksKnowHost, Versions
<1>2. CASE ReadFails(t)
  BY <1>1, <1>2, ReturnKeeps DEF ReadFails
<1>3. CASE t \in Streams /\ v <= AgentVersion /\ Return(t, "done") /\ Read(t)
  <2>1. atConnect[t] <= 0 /\ atConnect[t] \in Nat
    BY <1>1, <1>3, SyncIsOpened DEF AgentVersion, CInv, TasksReadRow, ConfigTypeOK, Versions
  <2>2. QED BY <1>1, <1>3, <2>1, ReturnKeeps DEF Read
<1>4. CASE /\ Read(t)
           /\ ver' = [ver EXCEPT ![t] = v]
           /\ pc' = [pc EXCEPT ![t] = After(t, "read")]
           /\ UNCHANGED dest
  <2>1. IInv' /\ GoneIsDead' /\ Sessions'
    BY <1>4, StreamsStay DEF Read
  <2>2. \A u \in Tasks : /\ pc'[u] = (IF u = t THEN After(t, "read") ELSE pc[u])
                         /\ ver'[u] = (IF u = t THEN v ELSE ver[u])
    BY <1>4 DEF CInv, ConfigTypeOK
  <2>3. After(t, "read") = IF t \in Streams THEN "find" ELSE "send"
    BY DEF After
  <2>4. ConfigTypeOK'
    <3>1. t \notin Streams => t \in Pushes /\ dest[t] # None
      BY <1>1 DEF CInv, TasksKnowHost, Tasks
    <3>2. \A u \in Tasks : pc'[u] = "send" => dest[u] # None /\ about[u] # None
      BY <1>1, <2>2, <2>3, <3>1, NoneAssumption DEF CInv, ConfigTypeOK
    <3>3. pc' \in [Tasks -> {"idle", "read", "find", "send", "done", "failed"}]
      BY <1>4, <2>3 DEF CInv, ConfigTypeOK
    <3>4. ver' \in [Tasks -> Versions]
      BY <1>1, <1>4 DEF CInv, ConfigTypeOK
    <3>5. QED
      BY <1>4, <3>2, <3>3, <3>4 DEF Read, CInv, ConfigTypeOK, TypeOK, vars
  <2>5. TasksKnowHost'
    BY <1>1, <1>4, <2>2, <2>3 DEF Read, CInv, TasksKnowHost, Tasks, vars
  <2>6. TasksReadRow'
    <3>1. t \in Streams => about[t] = owner[t] /\ atConnect[t] <= version[owner[t]]
      BY <1>1, SyncIsOpened DEF CInv, TasksReadRow
    <3>2. QED
      BY <1>1, <1>4, <2>2, <2>3, <3>1 DEF Read, CInv, TasksReadRow, Tasks, vars
  <2>7. SentIsOwnConfig' /\ UndisputedIsSynced'
    BY <1>4, <2>2, <2>3 DEF Read, CInv, SentIsOwnConfig, UndisputedIsSynced, Undisputed, Tasks, vars
  <2>8. QED BY <2>1, <2>4, <2>5, <2>6, <2>7 DEF CInv
<1>5. QED BY <1>2, <1>3, <1>4 DEF Read, ReadFails

LEMMA FindStep ==
  ASSUME CInv, NEW t \in Tasks, Find(t) PROVE CInv'
<1> DEFINE s == Lookup(about[t])
<1>1. pc[t] = "find" /\ about[t] \in Hosts /\ s \in Streams \cup {None}
  BY DEF Find, CInv, TasksKnowHost, Lookup, IInv, TypeOK
<1>2. CASE s = None /\ Return(t, "done")
  <2>1. t \in Streams => ~(wire[t] = "open" /\ Undisputed(t))
    BY <1>1, <1>2, UndisputedIsFound, SyncIsOpened, NoneAssumption
  <2>2. QED BY <1>1, <1>2, <2>1, ReturnKeeps DEF Find
<1>3. CASE s # None /\ Found(t, s)
  <2>1. IInv' /\ GoneIsDead' /\ Sessions'
    BY <1>3, StreamsStay DEF Find
  <2>2. owner[s] = about[t] /\ s \in Streams /\ Live(s)
    BY <1>1, <1>3 DEF Lookup, CInv, IInv, RegisteredIsLive
  <2> HIDE DEF s
  <2>3. \A u \in Tasks : /\ pc'[u] = (IF u = t THEN After(t, "find") ELSE pc[u])
                         /\ dest'[u] = (IF u = t THEN s ELSE dest[u])
    BY <1>3 DEF Found, CInv, ConfigTypeOK
  <2>4. After(t, "find") = IF t \in Streams THEN "send" ELSE "read"
    BY DEF After
  <2>5. ConfigTypeOK'
    BY <1>1, <1>3, <2>2, <2>3, <2>4, NoneAssumption
       DEF Find, Found, CInv, ConfigTypeOK, TypeOK, Tasks, vars
  <2>6. TasksKnowHost'
    <3>1. phase[s] \in Added /\ (t \in Streams => s \notin past[t])
      BY <2>2 DEF Live, Added, CInv, Sessions, PastIsGone
    <3>2. QED
      BY <1>1, <1>3, <2>2, <2>3, <2>4, <3>1, NoneAssumption
         DEF Find, Found, CInv, TasksKnowHost, Tasks, vars
  <2>7. TasksReadRow'
    BY <1>1, <1>3, <2>3, <2>4 DEF Find, Found, CInv, TasksReadRow, Tasks, vars
  <2>8. SentIsOwnConfig' /\ UndisputedIsSynced'
    BY <1>3, <2>3, <2>4 DEF Find, Found, CInv, SentIsOwnConfig, UndisputedIsSynced, Undisputed, Tasks, vars
  <2>9. QED BY <2>1, <2>5, <2>6, <2>7, <2>8 DEF CInv
<1>4. QED BY <1>2, <1>3 DEF Find

LEMMA SendStep ==
  ASSUME CInv, NEW t \in Tasks, Send(t) PROVE CInv'
<1> DEFINE d == dest[t]
<1>1. pc[t] = "send" /\ d \in Streams /\ owner[d] = about[t] /\ about[t] \in Hosts
  BY DEF Send, CInv, TasksKnowHost, ConfigTypeOK
<1>2. CASE wire[d] = "dead" /\ Return(t, "failed") /\ UNCHANGED sent
  BY <1>1, <1>2, ReturnKeeps DEF Send
<1>3. CASE Return(t, "done") /\ sent' = [sent EXCEPT ![d] = @ \cup {ver[t]}]
  <2>1. IInv' /\ GoneIsDead' /\ Sessions'
    BY StreamsStay DEF Send
  <2>2. ver[t] \in Versions /\ ver[t] \in Nat /\ ver[t] <= version[owner[d]]
    BY <1>1 DEF CInv, ConfigTypeOK, TasksReadRow, Versions
  <2> HIDE DEF d
  <2>3. \A u \in Tasks : /\ pc'[u] = (IF u = t THEN "done" ELSE pc[u])
                         /\ ver'[u] = (IF u = t THEN 0 ELSE ver[u])
                         /\ dest'[u] = (IF u = t THEN None ELSE dest[u])
    BY <1>3 DEF Return, CInv, ConfigTypeOK
  <2>4. \A u \in Streams : sent'[u] = IF u = d THEN sent[u] \cup {ver[t]} ELSE sent[u]
    BY <1>3 DEF CInv, ConfigTypeOK
  <2>5. ConfigTypeOK'
    <3>1. 0 \in Versions
      BY DEF Versions
    <3>2. sent' \in [Streams -> SUBSET Versions]
      BY <1>3, <2>2 DEF CInv, ConfigTypeOK
    <3>3. QED
      BY <1>3, <2>3, <3>1, <3>2 DEF Send, Return, CInv, ConfigTypeOK, TypeOK, vars
  <2>6. TasksKnowHost'
    BY <1>1, <2>3 DEF Send, CInv, TasksKnowHost, Tasks, vars
  <2>7. TasksReadRow'
    <3>1. \A u \in Tasks : about[u] \in Hosts => version[about[u]] \in Nat
      BY DEF CInv, ConfigTypeOK, Versions
    <3>2. QED
      BY <1>1, <2>3, <3>1 DEF Send, CInv, TasksReadRow, TasksKnowHost, Tasks, vars
  <2>8. SentIsOwnConfig'
    BY <1>1, <2>2, <2>4, NoneAssumption DEF Send, CInv, SentIsOwnConfig, vars
  <2>9. UndisputedIsSynced'
    <3>1. t \in Streams /\ Undisputed(t) => d = t
      <4> SUFFICES ASSUME t \in Streams, Undisputed(t), d # t PROVE FALSE
        OBVIOUS
      <4>1. owner[d] = owner[t] /\ d = dest[t] /\ dest[t] # None
        BY <1>1, SyncIsOpened DEF d, CInv, ConfigTypeOK
      <4>2. phase[d] \in Added /\ d \notin past[t]
        BY <4>1 DEF CInv, TasksKnowHost
      <4>3. QED BY <1>1, <4>1, <4>2 DEF Undisputed, Added
    <3>2. t \in Streams => ver[t] >= atConnect[t]
      BY <1>1 DEF CInv, TasksReadRow
    <3>3. QED
      BY <2>3, <2>4, <3>1, <3>2 DEF Send, CInv, UndisputedIsSynced, Undisputed, Tasks, vars
  <2>10. QED BY <2>1, <2>5, <2>6, <2>7, <2>8, <2>9 DEF CInv
<1>4. QED BY <1>2, <1>3 DEF Send

\* A crash ends every task and clears what it held.
LEMMA RestartStep ==
  ASSUME CInv, ConfigRestart, [Next]_vars, IInv' PROVE CInv'
<1> USE DEF ConfigRestart
<1>1. GoneIsDead' /\ Sessions' /\ UNCHANGED owner
  BY GoneStep, SessionsStep DEF CInv, Restart
<1>2. \A t \in Tasks : /\ pc'[t] = (IF pc[t] \in Active THEN "failed" ELSE pc[t])
                       /\ ver'[t] = 0 /\ dest'[t] = None
  BY DEF Active
<1>3. ConfigTypeOK'
  <2>1. 0 \in Versions
    BY DEF Versions
  <2>2. pc' \in [Tasks -> {"idle", "read", "find", "send", "done", "failed"}]
    BY DEF CInv, ConfigTypeOK
  <2>3. QED
    BY <1>2, <2>1, <2>2 DEF CInv, ConfigTypeOK, IInv, Active
<1>4. TasksKnowHost'
  BY <1>1, <1>2, StreamsAge, SyncIsOpened DEF CInv, TasksKnowHost, Active, Tasks
<1>5. TasksReadRow'
  <2>1. \A u \in Tasks : about[u] \in Hosts => version[about[u]] \in Nat
    BY DEF CInv, ConfigTypeOK, Versions
  <2>2. QED
    BY <1>1, <1>2, <2>1 DEF CInv, TasksReadRow, TasksKnowHost, Active, Tasks
<1>6. SentIsOwnConfig'
  BY <1>1 DEF CInv, SentIsOwnConfig
<1>7. UndisputedIsSynced'
  BY <1>1, <1>2, StreamsAge, SyncIsOpened, UndisputedBefore DEF CInv, UndisputedIsSynced, Active, Tasks
<1>8. QED BY <1>1, <1>3, <1>4, <1>5, <1>6, <1>7 DEF CInv

LEMMA ConfigInitially == ConfigInit => CInv
<1> SUFFICES ASSUME ConfigInit PROVE CInv
  OBVIOUS
<1> USE DEF ConfigInit
<1>1. IInv /\ GoneIsDead
  BY NoneAssumption DEF Init, IInv, TypeOK, RegisteredIsLive, UnlistedOnlyByRival, Live, Lookup,
     Phases, Wires, GoneIsDead
<1>2. 0 \in Versions
  BY DEF Versions
<1>3. ConfigTypeOK /\ TasksKnowHost /\ TasksReadRow
  BY <1>1, <1>2 DEF IInv, ConfigTypeOK, TasksKnowHost, TasksReadRow, Tasks
<1>4. SentIsOwnConfig /\ UndisputedIsSynced /\ Sessions
  BY DEF SentIsOwnConfig, UndisputedIsSynced, Tasks, Init, Sessions, PastIsGone, UndisputedIsListed, Live
<1>5. QED BY <1>1, <1>3, <1>4 DEF CInv

LEMMA ConfigInductive == CInv /\ [ConfigNext]_allVars => CInv'
<1> SUFFICES ASSUME CInv, [ConfigNext]_allVars PROVE CInv'
  OBVIOUS
<1>1. IInv' /\ [Next]_vars
  BY RegistryInv, RegistryStep DEF CInv
<1>2. CASE StreamStep \/ UNCHANGED allVars
  BY <1>1, <1>2, StreamsOnly DEF StreamStep, allVars
<1>3. ASSUME NEW s \in Streams, RegisterAndSync(s) PROVE CInv'
  BY <1>1, <1>3, RegisterStep
<1>4. ASSUME NEW h \in Hosts, SetField(h) PROVE CInv'
  BY <1>4, SetFieldStep
<1>5. ASSUME NEW t \in Pushes, NEW h \in Hosts, CallPush(t, h) PROVE CInv'
  BY <1>5, CallPushStep
<1>6. ASSUME NEW t \in Tasks, Task(t) PROVE CInv'
  BY <1>6, ReadStep, FindStep, SendStep DEF Task
<1>7. CASE ConfigRestart
  BY <1>1, <1>7, RestartStep
<1>8. QED
  BY <1>2, <1>3, <1>4, <1>5, <1>6, <1>7 DEF ConfigNext

LEMMA ConfigInvariance == ConfigSpec => []CInv
  BY ConfigInitially, ConfigInductive, PTL DEF ConfigSpec

-----------------------------------------------------------------------------
(***************************************************************************)
(* The theorems.                                                           *)
(***************************************************************************)

\* Types of rows, tasks and streams: no task sends before it has found a stream.
THEOREM ConfigTypeCorrect == ConfigSpec => []ConfigTypeOK
  BY ConfigInvariance, PTL DEF CInv

\* Syncs, pushes and the CLI leave the registry to the Connect handlers: the
\* service only reads it.
THEOREM ConfigImplementsRegistry == ConfigSpec => Spec
<1>1. ConfigInit => Init
  BY DEF ConfigInit
<1>2. QED
  BY <1>1, RegistryStep, PTL DEF ConfigSpec, Spec

\* Neither SyncOnConnect nor Push ever sends an agent another host's configuration,
\* although both let go of the registry between Get and Send.
THEOREM OnlyOwnConfigSent == ConfigSpec => []SentIsOwnConfig
  BY ConfigInvariance, PTL DEF CInv

\* What SyncOnConnect sends is no older than the row was when Connect added its
\* stream, and goes to the same host.
THEOREM SyncAlwaysFresh == ConfigSpec => []SyncIsFresh
<1>1. CInv => SyncIsFresh
  <2> SUFFICES ASSUME CInv, NEW s \in Streams, pc[s] = "send"
               PROVE  ver[s] >= atConnect[s] /\ owner[dest[s]] = owner[s]
    BY DEF SyncIsFresh
  <2>1. about[s] = owner[s] /\ dest[s] # None
    BY SyncIsOpened DEF CInv, ConfigTypeOK, Tasks
  <2>2. QED BY <2>1 DEF CInv, TasksKnowHost, TasksReadRow, Tasks
<1>2. QED BY <1>1, ConfigInvariance, PTL

\* A stream is synced unless a handler of the same host overlaps with its own: the
\* registry entry that SyncOnConnect looks up can be missing or another's only
\* through one that was between Add and Remove meanwhile.
THEOREM UndisputedSessionsSynced == ConfigSpec => []UndisputedIsSynced
  BY ConfigInvariance, PTL DEF CInv
=============================================================================
