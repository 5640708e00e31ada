---------------------------- MODULE StreamRegistry ----------------------------
(***************************************************************************)
(* The stream registry (internal/stream/registry.go) together with the     *)
(* part of the Connect handler (internal/stream/handler.go) that uses it:  *)
(* a stream is added when its handler starts and the entry of its HOST is  *)
(* deleted when the handler returns.                                       *)
(*                                                                         *)
(* A stream is one call of the Connect RPC.  The agent of a host may open  *)
(* a new one while the handler of an earlier one has not returned yet (it  *)
(* lost the network, the server has not noticed).                          *)
(***************************************************************************)
EXTENDS Naturals

CONSTANTS Hosts,     \* host_ids, the CN of the client certificates
          Streams,   \* calls of Connect, ever
          None       \* no stream / no host

ASSUME NoneAssumption == None \notin Streams \cup Hosts

VARIABLES
  registry,   \* Registry.streams: host_id -> stream, None when there is no entry
  owner,      \* the host_id that hostIDFromStream reads for a stream
  phase,      \* where the Connect handler of a stream is
  wire        \* the transport below a stream

vars == <<registry, owner, phase, wire>>

Phases == {"idle",      \* the agent has not opened this stream
           "accepted",  \* Connect called, Add not yet
           "serving",   \* registered, in the select loop
           "leaving",   \* the loop has returned, the deferred Remove not yet run
           "gone"}      \* Remove has run, the RPC is over

Wires == {"none", "open", "halfClosed", "dead"}

TypeOK ==
  /\ registry \in [Hosts -> Streams \cup {None}]
  /\ owner \in [Streams -> Hosts \cup {None}]
  /\ phase \in [Streams -> Phases]
  /\ wire \in [Streams -> Wires]
  /\ \A s \in Streams : phase[s] = "idle" <=> owner[s] = None

Init ==
  /\ registry = [h \in Hosts |-> None]
  /\ owner = [s \in Streams |-> None]
  /\ phase = [s \in Streams |-> "idle"]
  /\ wire = [s \in Streams |-> "none"]

(***************************************************************************)
(* Operations of the registry, each under its lock.                        *)
(***************************************************************************)
Add(h, s) == registry' = [registry EXCEPT ![h] = s]

\* Mutant: the deferred Remove is forgotten.
RemoveForgotten(h) == UNCHANGED registry

\* Mutant: Remove drops the map instead of one entry.
RemoveAll(h) == registry' = [g \in Hosts |-> None]

\* Deletes whatever entry the host has, not the caller's own.
Remove(h) == registry' = [registry EXCEPT ![h] = None]

\* Get and GetSender: the stream of h, None for (nil, false).
Lookup(h) == registry[h]

-----------------------------------------------------------------------------
(***************************************************************************)
(* The agent and the network.                                              *)
(***************************************************************************)

\* The agent of h opens stream s and passes mTLS: Connect is called, and
\* hostIDFromStream finds a certificate with a host_id in its CN.
Open(s, h) ==
  /\ phase[s] = "idle"
  /\ owner' = [owner EXCEPT ![s] = h]
  /\ phase' = [phase EXCEPT ![s] = "accepted"]
  /\ wire' = [wire EXCEPT ![s] = "open"]
  /\ UNCHANGED registry

\* The agent closes its sending side: Recv will return io.EOF.
HalfClose(s) ==
  /\ wire[s] = "open"
  /\ wire' = [wire EXCEPT ![s] = "halfClosed"]
  /\ UNCHANGED <<registry, owner, phase>>

\* The transport fails, or the server stops it: the stream's context is done.
Break(s) ==
  /\ wire[s] \in {"open", "halfClosed"}
  /\ wire' = [wire EXCEPT ![s] = "dead"]
  /\ UNCHANGED <<registry, owner, phase>>

(***************************************************************************)
(* The handler.                                                            *)
(***************************************************************************)
Register(s) ==
  /\ phase[s] = "accepted"
  /\ Add(owner[s], s)
  /\ phase' = [phase EXCEPT ![s] = "serving"]
  /\ UNCHANGED <<owner, wire>>

\* Mutant: the select loop has no case for ctx.Done() and none for a failed ping.
LeaveOnEofOnly(s) ==
  /\ phase[s] = "serving"
  /\ wire[s] = "halfClosed"
  /\ phase' = [phase EXCEPT ![s] = "leaving"]
  /\ UNCHANGED <<registry, owner, wire>>

\* A return out of the select loop: context done, Recv error or EOF, or a
\* ping that could not be sent.  None of them happens on an open wire.
Leave(s) ==
  /\ phase[s] = "serving"
  /\ wire[s] # "open"
  /\ phase' = [phase EXCEPT ![s] = "leaving"]
  /\ UNCHANGED <<registry, owner, wire>>

\* Mutant: a cleanup removes the entry of the host again when the RPC is over.
DeregisterAgain(s) ==
  /\ phase[s] \in {"leaving", "gone"}
  /\ Remove(owner[s])
  /\ phase' = [phase EXCEPT ![s] = "gone"]
  /\ wire' = [wire EXCEPT ![s] = "dead"]
  /\ UNCHANGED owner

\* The deferred Remove runs and the RPC ends.
Deregister(s) ==
  /\ phase[s] = "leaving"
  /\ Remove(owner[s])
  /\ phase' = [phase EXCEPT ![s] = "gone"]
  /\ wire' = [wire EXCEPT ![s] = "dead"]
  /\ UNCHANGED owner

\* The server process dies and starts again with an empty registry.
Restart ==
  /\ \E s \in Streams : phase[s] \notin {"idle", "gone"}
  /\ registry' = [h \in Hosts |-> None]
  /\ phase' = [s \in Streams |-> IF phase[s] = "idle" THEN "idle" ELSE "gone"]
  /\ wire' = [s \in Streams |-> IF phase[s] = "idle" THEN "none" ELSE "dead"]
  /\ UNCHANGED owner

Network == \E s \in Streams : (\E h \in Hosts : Open(s, h)) \/ HalfClose(s) \/ Break(s)

Handler(s) == Register(s) \/ Leave(s) \/ Deregister(s)

Next == Network \/ (\E s \in Streams : Handler(s)) \/ Restart

Spec == Init /\ [][Next]_vars

-----------------------------------------------------------------------------
(***************************************************************************)
(* Properties.                                                             *)
(***************************************************************************)

Live(s) == phase[s] \in {"serving", "leaving"}

\* What Get hands to the broker and to the config service is a stream of that
\* very host whose handler has not returned: the deferred Remove leaves no
\* entry behind, although it deletes by host and not by stream.
RegisteredIsLive ==
  \A h \in Hosts : registry[h] # None => owner[registry[h]] = h /\ Live(registry[h])

\* A stream in the select loop can lose its entry only to another stream of the
\* SAME host: one that took it over in Add, or one whose deferred Remove
\* deleted it.  An agent that has opened one stream is always found by Get.
UnlistedOnlyByRival ==
  \A s \in Streams :
    Live(s) /\ Lookup(owner[s]) # s =>
      \E t \in Streams \ {s} :
        owner[t] = owner[s] /\ phase[t] \in {"serving", "leaving", "gone"}

\* A stream whose connection broke does not stay in the registry: its handler
\* returns, and nothing registers it again.
DeadStreamForgotten ==
  \A s \in Streams : wire[s] = "dead" ~> [](\A h \in Hosts : registry[h] # s)

\* "Registry tracks active agent streams, keyed by host_id" and "Get returns the
\* stream for hostID, or (nil, false) if not connected" (registry.go): an agent
\* being served on an open wire is found.  The code does not ensure it: the
\* deferred Remove of an older stream deletes the entry of the newer one.
ConnectedIsFound ==
  \A s \in Streams :
    phase[s] = "serving" /\ wire[s] = "open" => Lookup(owner[s]) # None

=============================================================================
