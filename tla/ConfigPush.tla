------------------------------ MODULE ConfigPush ------------------------------
(***************************************************************************)
(* Agent configuration (internal/configpush/service.go and                 *)
(* internal/db/store/configs.go) over the stream registry.                 *)
(*                                                                         *)
(* The CLI writes a host's configuration into the database from another    *)
(* process.  Whenever a stream is registered, its handler starts a         *)
(* goroutine that runs SyncOnConnect: read the row, look the host's stream *)
(* up, send.  Push does the same with the first two steps swapped; nothing *)
(* in the server calls it.  Both run unlocked between their steps.         *)
(***************************************************************************)
EXTENDS StreamRegistry

CONSTANTS Pushes,      \* calls of Push
          MaxVersion   \* bound: updates of a host's configuration

ASSUME ConfigAssumption ==
  /\ MaxVersion \in Nat
  /\ Pushes \cap Streams = {}

VARIABLES
  version,    \* host_configs.config_version, 0 when there is no row
  pc,         \* next step of a task: the sync of a stream, or a Push
  about,      \* the host a task works for
  ver,        \* the version a task has read
  dest,       \* the stream a task has found
  atConnect,  \* the host's version when the stream was registered (history)
  past,       \* the streams that were over by then (history)
  sent        \* all versions ever sent on a stream

configVars == <<version, pc, about, ver, dest, atConnect, past, sent>>
allVars == <<vars, configVars>>

Tasks == Streams \cup Pushes
Versions == 0 .. MaxVersion

\* Mutant: the handler claims that the agent has version 1.
ClaimedVersion == 1

\* The agent's version as the handler passes it to SyncOnConnect: always 0.
AgentVersion == 0

ConfigTypeOK ==
  /\ TypeOK
  /\ version \in [Hosts -> Versions]
  /\ pc \in [Tasks -> {"idle", "read", "find", "send", "done", "failed"}]
  /\ about \in [Tasks -> Hosts \cup {None}]
  /\ ver \in [Tasks -> Versions]
  /\ dest \in [Tasks -> Streams \cup {None}]
  /\ atConnect \in [Streams -> Versions]
  /\ past \in [Streams -> SUBSET Streams]
  /\ sent \in [Streams -> SUBSET Versions]
  /\ \A t \in Tasks : pc[t] = "send" => dest[t] # None /\ about[t] # None

ConfigInit ==
  /\ Init
  /\ version = [h \in Hosts |-> 0]
  /\ pc = [t \in Tasks |-> "idle"]
  /\ about = [t \in Tasks |-> None]
  /\ ver = [t \in Tasks |-> 0]
  /\ dest = [t \in Tasks |-> None]
  /\ atConnect = [s \in Streams |-> 0]
  /\ past = [s \in Streams |-> {}]
  /\ sent = [s \in Streams |-> {}]

-----------------------------------------------------------------------------
\* `config set`: INSERT with version 1, or the row's version + 1.
SetField(h) ==
  /\ version[h] < MaxVersion
  /\ version' = [version EXCEPT ![h] = @ + 1]
  /\ UNCHANGED <<vars, pc, about, ver, dest, atConnect, past, sent>>

\* What the properties compare the sync of s with.
Remember(s) ==
  /\ atConnect' = [atConnect EXCEPT ![s] = version[owner[s]]]
  /\ past' = [past EXCEPT ![s] = {t \in Streams : phase[t] = "gone"}]

\* Mutant: the sync is given a configuration cached before the agent connected.
RegisterCached(s) ==
  /\ Register(s)
  /\ pc' = [pc EXCEPT ![s] = "find"]
  /\ about' = [about EXCEPT ![s] = owner[s]]
  /\ ver' \in {[ver EXCEPT ![s] = v] : v \in 0 .. version[owner[s]]}
  /\ Remember(s)
  /\ UNCHANGED <<version, dest, sent>>

\* Connect adds the stream and starts the sync goroutine.
RegisterAndSync(s) ==
  /\ Register(s)
  /\ pc' = [pc EXCEPT ![s] = "read"]
  /\ about' = [about EXCEPT ![s] = owner[s]]
  /\ Remember(s)
  /\ UNCHANGED <<version, ver, dest, sent>>

CallPush(t, h) ==
  /\ pc[t] = "idle"
  /\ pc' = [pc EXCEPT ![t] = "find"]
  /\ about' = [about EXCEPT ![t] = h]
  /\ UNCHANGED <<vars, version, ver, dest, atConnect, past, sent>>

\* SyncOnConnect reads first, Push looks up first.
After(t, step) ==
  CASE step = "read" -> IF t \in Streams THEN "find" ELSE "send"
    [] step = "find" -> IF t \in Streams THEN "send" ELSE "read"

\* The task returns; what it has read and found goes with it.
Return(t, how) ==
  /\ pc' = [pc EXCEPT ![t] = how]
  /\ ver' = [ver EXCEPT ![t] = 0]
  /\ dest' = [dest EXCEPT ![t] = None]

\* configs.Get.  SyncOnConnect returns unless the row is newer than what the
\* agent has.
Read(t) ==
  /\ pc[t] = "read"
  /\ LET v == version[about[t]]
     IN  \/ t \in Streams /\ v <= AgentVersion /\ Return(t, "done")
         \/ /\ t \in Pushes \/ v > AgentVersion
            /\ ver' = [ver EXCEPT ![t] = v]
            /\ pc' = [pc EXCEPT ![t] = After(t, "read")]
            /\ UNCHANGED dest
  /\ UNCHANGED <<vars, version, about, atConnect, past, sent>>

\* configs.Get fails: database error, or the 5 seconds of the sync are over.
ReadFails(t) ==
  /\ pc[t] = "read" /\ Return(t, "failed")
  /\ UNCHANGED <<vars, version, about, atConnect, past, sent>>

Found(t, s) ==
  /\ dest' = [dest EXCEPT ![t] = s]
  /\ pc' = [pc EXCEPT ![t] = After(t, "find")]
  /\ UNCHANGED ver

\* Mutant: the lookup ignores which host the task is about.
FindAny(t) ==
  /\ pc[t] = "find"
  /\ \E h \in Hosts : \/ Lookup(h) = None /\ Return(t, "done")
                      \/ Lookup(h) # None /\ Found(t, Lookup(h))
  /\ UNCHANGED <<vars, version, about, atConnect, past, sent>>

\* registry.Get: without a stream the call ends quietly.
Find(t) ==
  /\ pc[t] = "find"
  /\ LET s == Lookup(about[t])
     IN  \/ s = None /\ Return(t, "done")
         \/ s # None /\ Found(t, s)
  /\ UNCHANGED <<vars, version, about, atConnect, past, sent>>

\* stream.Send of a ConfigUpdate; it fails when the stream broke meanwhile.  The
\* agent's answer changes nothing: HandleAck only logs it.
Send(t) ==
  /\ pc[t] = "send"
  /\ \/ /\ wire[dest[t]] = "dead" /\ Return(t, "failed")
        /\ UNCHANGED sent
     \/ /\ wire[dest[t]] # "dead" /\ Return(t, "done")
        /\ sent' = [sent EXCEPT ![dest[t]] = @ \cup {ver[t]}]
  /\ UNCHANGED <<vars, version, about, atConnect, past>>

\* A crash ends the tasks in progress; the row stays.
ConfigRestart ==
  /\ Restart
  /\ pc' = [t \in Tasks |-> IF pc[t] \in {"read", "find", "send"} THEN "failed" ELSE pc[t]]
  /\ ver' = [t \in Tasks |-> 0]
  /\ dest' = [t \in Tasks |-> None]
  /\ UNCHANGED <<version, about, atConnect, past, sent>>

-----------------------------------------------------------------------------
StreamStep ==
  /\ Network \/ \E s \in Streams : Leave(s) \/ Deregister(s)
  /\ UNCHANGED configVars

Task(t) == Read(t) \/ ReadFails(t) \/ Find(t) \/ Send(t)

ConfigNext ==
  \/ StreamStep
  \/ \E s \in Streams : RegisterAndSync(s)
  \/ \E h \in Hosts : SetField(h)
  \/ \E t \in Pushes, h \in Hosts : CallPush(t, h)
  \/ \E t \in Tasks : Task(t)
  \/ ConfigRestart

ConfigSpec == ConfigInit /\ [][ConfigNext]_allVars

-----------------------------------------------------------------------------
(***************************************************************************)
(* Properties.                                                             *)
(***************************************************************************)

\* Nothing is sent to an agent but versions its own host's row has had: the
\* stream found in one step is still of that host when the version read in
\* another step is sent on it.
SentIsOwnConfig ==
  \A s \in Streams : \A v \in sent[s] : owner[s] # None /\ v <= version[owner[s]]

\* What a sync is about to send is at least the version the host had when its
\* stream was registered, and goes to that host: the row is read after Add, so
\* no update made before the agent connected is missed.
SyncIsFresh ==
  \A s \in Streams :
    pc[s] = "send" => ver[s] >= atConnect[s] /\ owner[dest[s]] = owner[s]

\* No other stream of its host has been between Add and Remove since s was added:
\* an older one was over by then, a newer one is not added yet.
Undisputed(s) ==
  \A t \in Streams \ {s} :
    owner[t] = owner[s] /\ phase[t] \in {"serving", "leaving", "gone"} => t \in past[s]

\* A sync that has ended without an error on an open stream has sent it the
\* configuration it was connected under, if no handler of the same host overlapped
\* with it: an older one whose Remove is still to run, or a newer one, is all that
\* can make the lookup come back empty or with another stream.  Streams that are
\* over, however many, and a restart in between, take nothing from a new one.
UndisputedIsSynced ==
  \A s \in Streams :
    pc[s] = "done" /\ atConnect[s] > 0 /\ wire[s] = "open" /\ Undisputed(s) =>
      \E v \in sent[s] : v >= atConnect[s]
=============================================================================
