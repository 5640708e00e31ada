------------------------ MODULE StreamRegistry_proofs -------------------------
(***************************************************************************)
(* The registry's safety properties, for any number of hosts and streams.  *)
(* The properties are inductive together with the type invariant, which    *)
(* says that a stream has an owner from the moment Connect is called.      *)
(***************************************************************************)
EXTENDS StreamRegistry, TLAPS

IInv == TypeOK /\ RegisteredIsLive /\ UnlistedOnlyByRival

USE NoneAssumption

\* The handlers' program counters, the registry and the wires stay in their
\* types under every step of the server and of the network.
LEMMA TypeStep == TypeOK /\ [Next]_vars => TypeOK'
<1> SUFFICES ASSUME TypeOK, [Next]_vars PROVE TypeOK'
  OBVIOUS
<1> USE DEF TypeOK, Phases, Wires
<1>1. ASSUME NEW s \in Streams, NEW h \in Hosts, Open(s, h) PROVE TypeOK'
  BY <1>1 DEF Open
<1>2. ASSUME NEW s \in Streams, HalfClose(s) PROVE TypeOK'
  BY <1>2 DEF HalfClose
<1>3. ASSUME NEW s \in Streams, Break(s) PROVE TypeOK'
  BY <1>3 DEF Break
<1>4. ASSUME NEW s \in Streams, Register(s) PROVE TypeOK'
  BY <1>4 DEF Register, Add
<1>5. ASSUME NEW s \in Streams, Leave(s) PROVE TypeOK'
  BY <1>5 DEF Leave
<1>6. ASSUME NEW s \in Streams, Deregister(s) PROVE TypeOK'
  BY <1>6 DEF Deregister, Remove
<1>7. ASSUME Restart PROVE TypeOK'
  BY <1>7 DEF Restart
<1>8. ASSUME UNCHANGED vars PROVE TypeOK'
  BY <1>8 DEF vars
<1>9. QED
  BY <1>1, <1>2, <1>3, <1>4, <1>5, <1>6, <1>7, <1>8 DEF Next, Network, Handler

\* An entry names a stream of its host whose handler has not returned: only
\* Register creates an entry, and the handler that created it deletes the
\* host's entry, its own or a rival's, on its way out.
LEMMA LiveStep == IInv /\ [Next]_vars => RegisteredIsLive'
<1> SUFFICES ASSUME IInv, [Next]_vars PROVE RegisteredIsLive'
  OBVIOUS
<1> USE DEF IInv, TypeOK, RegisteredIsLive, Live
<1>1. ASSUME NEW s \in Streams, NEW h \in Hosts, Open(s, h) PROVE RegisteredIsLive'
  BY <1>1 DEF Open
<1>2. ASSUME NEW s \in Streams, HalfClose(s) \/ Break(s) PROVE RegisteredIsLive'
  BY <1>2 DEF HalfClose, Break
<1>3. ASSUME NEW s \in Streams, Register(s) PROVE RegisteredIsLive'
  BY <1>3 DEF Register, Add
<1>4. ASSUME NEW s \in Streams, Leave(s) PROVE RegisteredIsLive'
  BY <1>4 DEF Leave
<1>5. ASSUME NEW s \in Streams, Deregister(s) PROVE RegisteredIsLive'
  BY <1>5 DEF Deregister, Remove
<1>6. ASSUME Restart PROVE RegisteredIsLive'
  BY <1>6 DEF Restart
<1>7. ASSUME UNCHANGED vars PROVE RegisteredIsLive'
  BY <1>7 DEF vars
<1>8. QED
  BY <1>1, <1>2, <1>3, <1>4, <1>5, <1>6, <1>7 DEF Next, Network, Handler

\* A live stream loses its entry only to a stream of the same host.
LEMMA RivalStep == IInv /\ [Next]_vars => UnlistedOnlyByRival'
<1> SUFFICES ASSUME IInv, [Next]_vars,
                    NEW s \in Streams, Live(s)', (Lookup(owner[s]) # s)'
             PROVE  \E t \in Streams \ {s} :
                       (owner[t] = owner[s] /\ phase[t] \in {"serving", "leaving", "gone"})'
  BY DEF UnlistedOnlyByRival
<1> DEFINE Rival(t) == owner[t] = owner[s] /\ phase[t] \in {"serving", "leaving", "gone"}
<1> USE DEF IInv, TypeOK, Live, Lookup
<1>1. ASSUME NEW u \in Streams, NEW h \in Hosts, Open(u, h)
      PROVE  \E t \in Streams \ {s} : Rival(t)'
  <2>1. s # u /\ Live(s) /\ Lookup(owner[s]) # s
    BY <1>1 DEF Open
  <2>2. PICK t \in Streams \ {s} : Rival(t)
    BY <2>1 DEF UnlistedOnlyByRival
  <2>3. QED
    BY <1>1, <2>1, <2>2 DEF Open
<1>2. ASSUME NEW u \in Streams, HalfClose(u) \/ Break(u)
      PROVE  \E t \in Streams \ {s} : Rival(t)'
  BY <1>2 DEF HalfClose, Break, UnlistedOnlyByRival
<1>3. ASSUME NEW u \in Streams, Register(u)
      PROVE  \E t \in Streams \ {s} : Rival(t)'
  <2>1. s # u
    BY <1>3 DEF Register, Add
  <2>2. CASE owner[u] = owner[s]
    BY <1>3, <2>1, <2>2 DEF Register
  <2>3. CASE owner[u] # owner[s]
    <3>1. Live(s) /\ Lookup(owner[s]) # s
      BY <1>3, <2>1, <2>3 DEF Register, Add
    <3>2. PICK t \in Streams \ {s} : Rival(t)
      BY <3>1 DEF UnlistedOnlyByRival
    <3>3. QED
      BY <1>3, <3>2 DEF Register
  <2>4. QED
    BY <2>2, <2>3
<1>4. ASSUME NEW u \in Streams, Leave(u)
      PROVE  \E t \in Streams \ {s} : Rival(t)'
  <2>1. Live(s) /\ Lookup(owner[s]) # s
    BY <1>4 DEF Leave
  <2>2. PICK t \in Streams \ {s} : Rival(t)
    BY <2>1 DEF UnlistedOnlyByRival
  <2>3. QED
    BY <1>4, <2>2 DEF Leave
<1>5. ASSUME NEW u \in Streams, Deregister(u)
      PROVE  \E t \in Streams \ {s} : Rival(t)'
  <2>1. s # u
    BY <1>5 DEF Deregister
  <2>2. CASE owner[u] = owner[s]
    BY <1>5, <2>1, <2>2 DEF Deregister
  <2>3. CASE owner[u] # owner[s]
    <3>1. Live(s) /\ Lookup(owner[s]) # s
      BY <1>5, <2>1, <2>3 DEF Deregister, Remove
    <3>2. PICK t \in Streams \ {s} : Rival(t)
      BY <3>1 DEF UnlistedOnlyByRival
    <3>3. QED
      BY <1>5, <3>2 DEF Deregister
  <2>4. QED
    BY <2>2, <2>3
<1>6. ASSUME Restart PROVE \E t \in Streams \ {s} : Rival(t)'
  BY <1>6 DEF Restart
<1>7. ASSUME UNCHANGED vars PROVE \E t \in Streams \ {s} : Rival(t)'
  BY <1>7 DEF vars, UnlistedOnlyByRival
<1>8. QED
  BY <1>1, <1>2, <1>3, <1>4, <1>5, <1>6, <1>7 DEF Next, Network, Handler

\* IInv is inductive, so it holds throughout every behaviour of the registry.
THEOREM Invariance == Spec => []IInv
<1>1. Init => IInv
  BY DEF Init, IInv, TypeOK, RegisteredIsLive, UnlistedOnlyByRival, Live,
         Phases, Wires
<1>2. IInv /\ [Next]_vars => IInv'
  BY TypeStep, LiveStep, RivalStep DEF IInv
<1>3. QED
  BY <1>1, <1>2, PTL DEF Spec

\* The registry's type invariant, whatever the hosts and streams.
THEOREM TypeCorrect == Spec => []TypeOK
  BY Invariance, PTL DEF IInv

\* Get never returns a stream of another host or of a handler that has returned.
THEOREM OnlyLiveRegistered == Spec => []RegisteredIsLive
  BY Invariance, PTL DEF IInv

\* A stream loses its entry only to another stream of its own host.
THEOREM OnlyRivalsUnlist == Spec => []UnlistedOnlyByRival
  BY Invariance, PTL DEF IInv
=============================================================================
