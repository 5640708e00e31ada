---------------------------- MODULE Shutdown_proofs ----------------------------
(***************************************************************************)
(* Proofs about the Connect handler, the jobs that handleMessage starts    *)
(* and main's shutdown around them, for any streams, capacity of msgCh,    *)
(* number of messages and requests.  The first half is about StreamHandler *)
(* alone: types, order of messages, and that every step is one of          *)
(* StreamRegistry or stutters.  The second shows that the whole server's   *)
(* steps are steps of StreamHandler or stutters, and goes on from there.   *)
(***************************************************************************)
EXTENDS Shutdown, StreamRegistry_proofs, SequenceTheorems, WellFoundedInduction

\* What the channels say about the stream: the goroutine runs on a stream that was
\* opened, and an error in errCh means that the wire is no longer open.
Channels ==
  \A s \in Streams :
    /\ phase[s] \in {"idle", "accepted"} => recv[s] = "off"
    /\ recv[s] = "off" => errCh[s] = "empty"
    /\ errCh[s] # "empty" => phase[s] # "idle" /\ wire[s] # "open"

\* q holds the numbers that follow c.
CountsFrom(c, q) == \A i \in 1 .. Len(q) : q[i] = c + i

\* InOrder, message by message.
CountedOn(s) ==
  /\ rcvd[s] <= sent[s]
  /\ CountsFrom(0, taken[s])
  /\ CountsFrom(Len(taken[s]), msgCh[s])
  /\ recv[s] \in {"off", "recv"} => rcvd[s] = Len(taken[s]) + Len(msgCh[s])
  /\ recv[s] = "put" => rcvd[s] = Len(taken[s]) + Len(msgCh[s]) + 1
  /\ recv[s] = "off" => taken[s] = <<>> /\ msgCh[s] = <<>>

Counted == \A s \in Streams : CountedOn(s)

HInv == IInv /\ HandlerTypeOK /\ Channels /\ Counted

USE CapAssumption

-----------------------------------------------------------------------------
(***************************************************************************)
(* Sequences of consecutive numbers.                                       *)
(***************************************************************************)

\* A number appended to a sequence that ends just below it.
LEMMA AppendCounts ==
  ASSUME NEW c \in Nat, NEW q \in Seq(Nat), CountsFrom(c, q), NEW n, n = c + Len(q) + 1
  PROVE  CountsFrom(c, Append(q, n))
<1>1. /\ Len(q) \in Nat /\ Len(Append(q, n)) = Len(q) + 1
      /\ \A i \in 1 .. Len(q) : Append(q, n)[i] = q[i]
      /\ Append(q, n)[Len(q) + 1] = n
  OBVIOUS
<1>2. ASSUME NEW i \in 1 .. Len(q) + 1 PROVE Append(q, n)[i] = c + i
  <2>1. CASE i = Len(q) + 1
    BY <1>1, <2>1
  <2>2. CASE i # Len(q) + 1
    <3>1. i \in 1 .. Len(q)
      BY <1>1, <1>2, <2>2
    <3>2. Append(q, n)[i] = q[i] /\ q[i] = c + i
      BY <1>1, <3>1 DEF CountsFrom
    <3>3. QED BY <3>2
  <2>3. QED BY <2>1, <2>2
<1>3. QED
  BY <1>1, <1>2 DEF CountsFrom

\* The first number taken off.
LEMMA TailCounts ==
  ASSUME NEW c \in Nat, NEW q \in Seq(Nat), CountsFrom(c, q), q # <<>>
  PROVE  /\ Head(q) = c + 1 /\ CountsFrom(c + 1, Tail(q))
         /\ Len(Tail(q)) = Len(q) - 1 /\ Len(q) \in Nat \ {0}
<1>1. /\ Len(q) \in Nat \ {0} /\ Head(q) = q[1] /\ Len(Tail(q)) = Len(q) - 1
      /\ \A i \in 1 .. Len(q) - 1 : Tail(q)[i] = q[i + 1]
  OBVIOUS
<1>2. ASSUME NEW i \in 1 .. Len(q) - 1 PROVE Tail(q)[i] = c + 1 + i
  <2>1. i + 1 \in 1 .. Len(q)
    BY <1>1
  <2>2. Tail(q)[i] = q[i + 1] /\ q[i + 1] = c + (i + 1)
    BY <1>1, <2>1 DEF CountsFrom
  <2>3. QED BY <2>2
<1>3. QED
  BY <1>1, <1>2 DEF CountsFrom

\* Two sequences of which the second goes on where the first ends.
LEMMA ConcatCounts ==
  ASSUME NEW c \in Nat, NEW p \in Seq(Nat), NEW q \in Seq(Nat),
         CountsFrom(c, p), CountsFrom(c + Len(p), q)
  PROVE  /\ p \o q \in Seq(Nat) /\ Len(p \o q) = Len(p) + Len(q)
         /\ CountsFrom(c, p \o q)
<1>1. /\ p \o q \in Seq(Nat) /\ Len(p \o q) = Len(p) + Len(q)
      /\ \A i \in 1 .. Len(p) + Len(q) :
           (p \o q)[i] = IF i <= Len(p) THEN p[i] ELSE q[i - Len(p)]
  BY ConcatProperties
<1>2. ASSUME NEW i \in 1 .. Len(p) + Len(q) PROVE (p \o q)[i] = c + i
  <2>1. Len(p) \in Nat /\ Len(q) \in Nat
    OBVIOUS
  <2>2. CASE i <= Len(p)
    <3>1. i \in 1 .. Len(p)
      BY <2>1, <2>2
    <3>2. p[i] = c + i
      BY <3>1 DEF CountsFrom
    <3>3. QED BY <1>1, <2>2, <3>2
  <2>3. CASE ~(i <= Len(p))
    <3>1. i - Len(p) \in 1 .. Len(q)
      BY <2>1, <2>3
    <3>2. q[i - Len(p)] = (c + Len(p)) + (i - Len(p))
      BY <3>1 DEF CountsFrom
    <3>3. (p \o q)[i] = q[i - Len(p)]
      BY <1>1, <2>3
    <3>4. QED BY <2>1, <3>2, <3>3
  <2>4. QED BY <2>2, <2>3
<1>3. QED
  BY <1>1, <1>2 DEF CountsFrom

-----------------------------------------------------------------------------
(***************************************************************************)
(* The refinement.                                                         *)
(***************************************************************************)

\* The select loop is left only when the wire is not open, so that each step is a
\* step of the registry's handler or leaves the registry alone.
LEMMA RegistryStep == Channels /\ [HandlerNext]_allVars => [Next]_vars
<1> SUFFICES ASSUME Channels, [HandlerNext]_allVars PROVE [Next]_vars
  OBVIOUS
<1>1. CASE Network /\ UNCHANGED chanVars
  BY <1>1 DEF Next
<1>2. ASSUME NEW s \in Streams, AgentSends(s) PROVE [Next]_vars
  BY <1>2 DEF AgentSends
<1>3. ASSUME NEW s \in Streams, StartConnect(s) \/ EndConnect(s) PROVE [Next]_vars
  BY <1>3 DEF StartConnect, EndConnect, Next, Handler
<1>4. ASSUME NEW s \in Streams, Receiver(s) PROVE [Next]_vars
  BY <1>4 DEF Receiver, Recv, RecvFails, Put
<1>5. ASSUME NEW s \in Streams, Loop(s) PROVE [Next]_vars
  <2>1. CASE Take(s)
    BY <2>1 DEF Take, vars
  <2>2. CASE ReturnOnErr(s) \/ ReturnOnBroken(s)
    <3>1. wire[s] # "open"
      BY <2>2 DEF ReturnOnErr, ReturnOnBroken, Channels
    <3>2. Leave(s)
      BY <2>2, <3>1 DEF ReturnOnErr, ReturnOnBroken, Return, Leave
    <3>3. QED BY <3>2 DEF Next, Handler
  <2>3. QED BY <1>5, <2>1, <2>2 DEF Loop
<1>6. CASE HandlerRestart
  BY <1>6 DEF HandlerRestart, Next
<1>7. CASE UNCHANGED allVars
  BY <1>7 DEF allVars
<1>8. QED
  BY <1>1, <1>2, <1>3, <1>4, <1>5, <1>6, <1>7 DEF HandlerNext

-----------------------------------------------------------------------------
(***************************************************************************)
(* The invariant.                                                          *)
(***************************************************************************)

\* The channels hold message numbers and msgCh never more than its capacity.
LEMMA HandlerTypeStep ==
  HInv /\ [HandlerNext]_allVars => HandlerTypeOK'
<1> SUFFICES ASSUME HInv, [HandlerNext]_allVars PROVE HandlerTypeOK'
  OBVIOUS
<1> USE DEF HInv, HandlerTypeOK
<1>1. TypeOK'
  BY RegistryStep, TypeStep
<1>2. CASE Network /\ UNCHANGED chanVars
  BY <1>1, <1>2 DEF chanVars
<1>3. ASSUME NEW s \in Streams, AgentSends(s) PROVE HandlerTypeOK'
  BY <1>1, <1>3 DEF AgentSends
<1>4. ASSUME NEW s \in Streams, StartConnect(s) PROVE HandlerTypeOK'
  BY <1>1, <1>4 DEF StartConnect
<1>5. ASSUME NEW s \in Streams, EndConnect(s) PROVE HandlerTypeOK'
  BY <1>1, <1>5 DEF EndConnect, chanVars
<1>6. ASSUME NEW s \in Streams, Recv(s) PROVE HandlerTypeOK'
  BY <1>1, <1>6 DEF Recv
<1>7. ASSUME NEW s \in Streams, RecvFails(s) PROVE HandlerTypeOK'
  BY <1>1, <1>7 DEF RecvFails
<1>8. ASSUME NEW s \in Streams, Put(s) PROVE HandlerTypeOK'
  <2>1. rcvd[s] \in 1 .. MaxMsgs
    BY <1>8 DEF Put, Counted, CountedOn
  <2>2. Append(msgCh[s], rcvd[s]) \in Seq(1 .. MaxMsgs)
        /\ Len(Append(msgCh[s], rcvd[s])) = Len(msgCh[s]) + 1
    BY <2>1
  <2>3. QED
    BY <1>1, <1>8, <2>2 DEF Put
<1>9. ASSUME NEW s \in Streams, Take(s) PROVE HandlerTypeOK'
  <2>1. /\ Append(taken[s], Head(msgCh[s])) \in Seq(1 .. MaxMsgs)
        /\ Tail(msgCh[s]) \in Seq(1 .. MaxMsgs)
        /\ Len(Tail(msgCh[s])) = Len(msgCh[s]) - 1
    BY <1>9 DEF Take
  <2>2. QED
    BY <1>1, <1>9, <2>1 DEF Take
<1>10. ASSUME NEW s \in Streams, ReturnOnErr(s) \/ ReturnOnBroken(s) PROVE HandlerTypeOK'
  BY <1>1, <1>10 DEF ReturnOnErr, ReturnOnBroken, Return
<1>11. CASE HandlerRestart
  BY <1>1, <1>11 DEF HandlerRestart
<1>12. CASE UNCHANGED allVars
  BY <1>1, <1>12 DEF allVars, chanVars
<1>13. QED
  BY <1>2, <1>3, <1>4, <1>5, <1>6, <1>7, <1>8, <1>9, <1>10, <1>11, <1>12
     DEF HandlerNext, Receiver, Loop

\* An error is put into errCh only once the wire is not open, and a stream that
\* is not open any more never opens again.
LEMMA ChannelsStep ==
  HInv /\ [HandlerNext]_allVars => Channels'
<1> SUFFICES ASSUME HInv, [HandlerNext]_allVars PROVE Channels'
  OBVIOUS
<1> USE DEF HInv, HandlerTypeOK, TypeOK, Channels
<1>1. ASSUME NEW s \in Streams, NEW h \in Hosts, Open(s, h), UNCHANGED chanVars
      PROVE  Channels'
  BY <1>1 DEF Open, chanVars
<1>2. ASSUME NEW s \in Streams, HalfClose(s) \/ Break(s), UNCHANGED chanVars
      PROVE  Channels'
  BY <1>2 DEF HalfClose, Break, chanVars
<1>3. ASSUME NEW s \in Streams, AgentSends(s) PROVE Channels'
  BY <1>3 DEF AgentSends, vars
<1>4. ASSUME NEW s \in Streams, StartConnect(s) PROVE Channels'
  BY <1>4 DEF StartConnect, Register
<1>5. ASSUME NEW s \in Streams, EndConnect(s) PROVE Channels'
  BY <1>5 DEF EndConnect, Deregister, chanVars
<1>6. ASSUME NEW s \in Streams, Receiver(s) PROVE Channels'
  BY <1>6 DEF Receiver, Recv, RecvFails, Put, vars
<1>7. ASSUME NEW s \in Streams, Loop(s) PROVE Channels'
  BY <1>7 DEF Loop, Take, ReturnOnErr, ReturnOnBroken, Return, vars
<1>8. CASE HandlerRestart
  BY <1>8 DEF HandlerRestart, Restart
<1>9. CASE UNCHANGED allVars
  BY <1>9 DEF allVars, vars, chanVars
<1>10. QED
  BY <1>1, <1>2, <1>3, <1>4, <1>5, <1>6, <1>7, <1>8, <1>9 DEF HandlerNext, Network

\* Every message moves from the wire to the receiver, to the end of msgCh and from
\* its head to handleMessage; the two goroutines touch the two ends of the queue.
LEMMA CountedStep ==
  HInv /\ [HandlerNext]_allVars => Counted'
<1> SUFFICES ASSUME HInv, [HandlerNext]_allVars, NEW u \in Streams PROVE CountedOn(u)'
  BY DEF Counted
<1>0. CountedOn(u)
  BY DEF HInv, Counted
<1> USE DEF HInv, HandlerTypeOK
<1>1. CASE UNCHANGED chanVars
  BY <1>0, <1>1 DEF chanVars, CountedOn
<1>2. ASSUME NEW s \in Streams, AgentSends(s) PROVE CountedOn(u)'
  BY <1>0, <1>2 DEF AgentSends, CountedOn
<1>3. ASSUME NEW s \in Streams, StartConnect(s) PROVE CountedOn(u)'
  <2>1. recv[s] = "off"
    BY <1>3 DEF StartConnect, Register, Channels
  <2>2. QED
    BY <1>0, <1>3, <2>1 DEF StartConnect, CountedOn
<1>4. ASSUME NEW s \in Streams, Recv(s) PROVE CountedOn(u)'
  BY <1>0, <1>4 DEF Recv, CountedOn
<1>5. ASSUME NEW s \in Streams, RecvFails(s) PROVE CountedOn(u)'
  BY <1>0, <1>5 DEF RecvFails, CountedOn
<1>6. ASSUME NEW s \in Streams, Put(s) PROVE CountedOn(u)'
  <2>1. CASE u # s
    BY <1>0, <1>6, <2>1 DEF Put, CountedOn
  <2>2. CASE u = s
    <3>1. /\ msgCh[s]' = Append(msgCh[s], rcvd[s]) /\ recv[s]' = "recv"
          /\ UNCHANGED <<taken, rcvd, sent>> /\ recv[s] = "put"
      BY <1>6 DEF Put
    <3>2. /\ msgCh[s] \in Seq(Nat) /\ Len(taken[s]) \in Nat /\ rcvd[s] \in Nat
          /\ Len(Append(msgCh[s], rcvd[s])) = Len(msgCh[s]) + 1 /\ Len(msgCh[s]) \in Nat
      OBVIOUS
    <3>3. CountsFrom(Len(taken[s]), Append(msgCh[s], rcvd[s]))
      BY <1>0, <2>2, <3>1, <3>2, AppendCounts DEF CountedOn
    <3>4. CountsFrom(Len(taken[u])', msgCh[u]')
      BY <2>2, <3>1, <3>3
    <3>5. rcvd[s] = Len(taken[s]) + Len(msgCh[s]) + 1
      BY <1>0, <2>2, <3>1 DEF CountedOn
    <3>6. CountsFrom(0, taken[u]') /\ rcvd[u]' <= sent[u]'
      BY <1>0, <3>1 DEF CountedOn
    <3>7. recv[u]' = "recv" /\ rcvd[u]' = Len(taken[u]') + Len(msgCh[u]')
      BY <2>2, <3>1, <3>2, <3>5
    <3>8. QED
      BY <3>4, <3>6, <3>7 DEF CountedOn
  <2>3. QED BY <2>1, <2>2
<1>7. ASSUME NEW s \in Streams, Take(s) PROVE CountedOn(u)'
  <2>1. CASE u # s
    BY <1>0, <1>7, <2>1 DEF Take, CountedOn
  <2>2. CASE u = s
    <3>1. /\ msgCh[s] # <<>> /\ msgCh[s]' = Tail(msgCh[s])
          /\ taken[s]' = Append(taken[s], Head(msgCh[s])) /\ UNCHANGED <<sent, rcvd, recv>>
      BY <1>7 DEF Take
    <3>2. /\ msgCh[s] \in Seq(Nat) /\ taken[s] \in Seq(Nat) /\ Len(taken[s]) \in Nat
          /\ Len(Append(taken[s], Head(msgCh[s]))) = Len(taken[s]) + 1
      OBVIOUS
    <3>3. /\ Head(msgCh[s]) = Len(taken[s]) + 1
          /\ CountsFrom(Len(taken[s]) + 1, Tail(msgCh[s]))
          /\ Len(Tail(msgCh[s])) = Len(msgCh[s]) - 1 /\ Len(msgCh[s]) \in Nat \ {0}
      BY <1>0, <2>2, <3>1, <3>2, TailCounts DEF CountedOn
    <3>4. CountsFrom(0, Append(taken[s], Head(msgCh[s])))
      <4>1. CountsFrom(0, taken[s])
        BY <1>0, <2>2 DEF CountedOn
      <4>2. Head(msgCh[s]) = 0 + Len(taken[s]) + 1
        BY <3>2, <3>3
      <4>3. QED BY <3>2, <4>1, <4>2, AppendCounts
    <3>5. Len(taken[u]') = Len(taken[s]) + 1 /\ Len(msgCh[u]') = Len(msgCh[s]) - 1
      BY <2>2, <3>1, <3>2, <3>3
    <3>6. CountsFrom(0, taken[u]') /\ CountsFrom(Len(taken[u]'), msgCh[u]')
      BY <2>2, <3>1, <3>3, <3>4, <3>5
    <3>7. recv[u]' # "off"
      BY <1>0, <2>2, <3>1 DEF CountedOn
    <3>8. /\ recv[u]' \in {"off", "recv"} => rcvd[u]' = Len(taken[u]') + Len(msgCh[u]')
          /\ recv[u]' = "put" => rcvd[u]' = Len(taken[u]') + Len(msgCh[u]') + 1
          /\ rcvd[u]' <= sent[u]'
      BY <1>0, <2>2, <3>1, <3>2, <3>3, <3>5 DEF CountedOn
    <3>9. QED
      BY <3>6, <3>7, <3>8 DEF CountedOn
  <2>3. QED BY <2>1, <2>2
<1>8. ASSUME NEW s \in Streams, ReturnOnErr(s) \/ ReturnOnBroken(s) PROVE CountedOn(u)'
  BY <1>0, <1>8 DEF ReturnOnErr, ReturnOnBroken, Return, CountedOn
<1>9. CASE HandlerRestart
  <2>1. recv[u]' = "done" \/ (recv[u]' = "off" /\ recv[u] = "off")
    BY <1>9 DEF HandlerRestart, Channels
  <2>2. QED
    BY <1>0, <1>9, <2>1 DEF HandlerRestart, CountedOn
<1>10. QED
  BY <1>1, <1>2, <1>3, <1>4, <1>5, <1>6, <1>7, <1>8, <1>9
     DEF HandlerNext, Receiver, Loop, EndConnect, allVars

\* HInv holds at first and is inductive.
LEMMA HandlerInitially == HandlerInit => HInv
<1> SUFFICES ASSUME HandlerInit PROVE HInv
  OBVIOUS
<1>1. IInv
  BY DEF HandlerInit, Init, IInv, TypeOK, RegisteredIsLive, UnlistedOnlyByRival, Live,
         Phases, Wires
<1>2. HandlerTypeOK
  BY <1>1 DEF HandlerInit, HandlerTypeOK, IInv
<1>3. Channels /\ Counted
  BY DEF HandlerInit, Init, Channels, Counted, CountedOn, CountsFrom
<1>4. QED BY <1>1, <1>2, <1>3 DEF HInv

LEMMA HandlerStepInv == HInv /\ [HandlerNext]_allVars => HInv'
<1>1. HInv /\ [HandlerNext]_allVars => IInv'
  BY RegistryStep, TypeStep, LiveStep, RivalStep DEF HInv, IInv
<1>2. QED
  BY <1>1, HandlerTypeStep, ChannelsStep, CountedStep DEF HInv

\* So HInv holds throughout every behaviour of the handler.
THEOREM HandlerInvariance == HandlerSpec => []HInv
  BY HandlerInitially, HandlerStepInv, PTL DEF HandlerSpec

\* The handler's channels, goroutines and message counters have their types, and
\* msgCh never holds more than its capacity.
THEOREM HandlerTypeCorrect == HandlerSpec => []HandlerTypeOK
  BY HandlerInvariance, PTL DEF HInv

\* The two goroutines and the two channels implement the registry's view of a handler.
THEOREM HandlerImplementsRegistry == HandlerSpec => ImplementsRegistry
<1>1. HandlerInit => Init
  BY DEF HandlerInit
<1>2. HInv /\ [HandlerNext]_allVars => [Next]_vars
  BY RegistryStep DEF HInv
<1>3. QED
  BY <1>1, <1>2, HandlerInvariance, PTL DEF HandlerSpec, Spec, ImplementsRegistry

\* What was taken, queued and received of a stream is the sequence the agent sent.
LEMMA CountedIsInOrder == HInv => InOrder
<1> SUFFICES ASSUME HInv, NEW s \in Streams, recv[s] # "done"
             PROVE  taken[s] \o msgCh[s] \o (IF recv[s] = "put" THEN <<rcvd[s]>> ELSE <<>>)
                      = [i \in 1 .. rcvd[s] |-> i]
  BY DEF InOrder
<1> DEFINE last == IF recv[s] = "put" THEN <<rcvd[s]>> ELSE <<>>
           p == taken[s] \o msgCh[s]
<1>1. /\ taken[s] \in Seq(Nat) /\ msgCh[s] \in Seq(Nat) /\ rcvd[s] \in Nat
      /\ Len(taken[s]) \in Nat /\ Len(msgCh[s]) \in Nat
      /\ recv[s] \in {"off", "recv", "put"}
  BY DEF HInv, HandlerTypeOK
<1>2. CountedOn(s)
  BY DEF HInv, Counted
<1>3. p \in Seq(Nat) /\ Len(p) = Len(taken[s]) + Len(msgCh[s]) /\ CountsFrom(0, p)
  <2>1. CountsFrom(0, taken[s]) /\ CountsFrom(0 + Len(taken[s]), msgCh[s])
    BY <1>1, <1>2 DEF CountedOn
  <2>2. QED BY <1>1, <2>1, ConcatCounts
<1>4. p \o last \in Seq(Nat) /\ Len(p \o last) = rcvd[s] /\ CountsFrom(0, p \o last)
  <2>1. CASE recv[s] = "put"
    <3>1. rcvd[s] = Len(p) + 1
      BY <1>2, <1>3, <2>1 DEF CountedOn
    <3>2. last \in Seq(Nat) /\ Len(last) = 1 /\ last[1] = rcvd[s]
      BY <1>1, <2>1
    <3> HIDE DEF p, last
    <3>3. CountsFrom(Len(p), last)
      BY <3>1, <3>2 DEF CountsFrom
    <3>4. CountsFrom(0 + Len(p), last)
      <4>1. \A n \in Nat : 0 + n = n
        OBVIOUS
      <4>2. Len(p) \in Nat
        BY <1>3, LenProperties
      <4>3. QED BY <3>3, <4>1, <4>2, Zenon
    <3>5. /\ p \o last \in Seq(Nat) /\ Len(p \o last) = Len(p) + Len(last)
          /\ CountsFrom(0, p \o last)
      BY <1>3, <3>2, <3>4, ConcatCounts
    <3>6. QED BY <3>1, <3>2, <3>5
  <2>2. CASE recv[s] # "put"
    <3>1. last = <<>> /\ rcvd[s] = Len(p)
      BY <1>1, <1>2, <1>3, <2>2 DEF CountedOn
    <3> HIDE DEF p, last
    <3>2. p \o last = p
      BY <1>3, <3>1, ConcatEmptySeq
    <3>3. QED BY <1>3, <3>1, <3>2
  <2>3. QED BY <2>1, <2>2
<1> HIDE DEF p, last
<1>5. p \o last = [i \in 1 .. rcvd[s] |-> i]
  <2> DEFINE q == p \o last
  <2>1. q \in Seq(Nat) /\ Len(q) = rcvd[s] /\ CountsFrom(0, q)
    BY <1>4
  <2> HIDE DEF q
  <2>2. q = [i \in 1 .. Len(q) |-> q[i]]
    BY <2>1
  <2>3. \A i \in 1 .. rcvd[s] : q[i] = i
    BY <1>1, <2>1 DEF CountsFrom
  <2>4. q = [i \in 1 .. rcvd[s] |-> i]
    BY <2>1, <2>2, <2>3
  <2>5. QED BY <2>4 DEF q
<1>6. QED
  BY <1>5 DEF p, last

\* Nothing an agent sends is lost, doubled or reordered on its way to handleMessage.
THEOREM MessagesInOrder == HandlerSpec => []InOrder
  BY HandlerInvariance, CountedIsInOrder, PTL

-----------------------------------------------------------------------------
(***************************************************************************)
(* The server implements the handler.                                      *)
(***************************************************************************)

\* Every step of streams, jobs, requests and main is a step of StreamHandler or
\* leaves its variables alone: Stop breaks wires, an exit is a restart.
LEMMA HandlerSimulated == [ShutdownNext]_serverVars => [HandlerNext]_allVars
<1> SUFFICES ASSUME [ShutdownNext]_serverVars PROVE [HandlerNext]_allVars
  OBVIOUS
<1>1. ASSUME NEW s \in Streams, NEW h \in Hosts, AcceptStream(s, h) PROVE [HandlerNext]_allVars
  BY <1>1 DEF AcceptStream, HandlerNext, Network
<1>2. ASSUME NEW s \in Streams, StreamEvent(s) PROVE [HandlerNext]_allVars
  BY <1>2 DEF StreamEvent, HandlerNext, Network
<1>3. ASSUME NEW s \in Streams, ReceiverStep(s) PROVE [HandlerNext]_allVars
  BY <1>3 DEF ReceiverStep, HandlerNext
<1>4. ASSUME NEW s \in Streams, HandlerStep(s) PROVE [HandlerNext]_allVars
  BY <1>4 DEF HandlerStep, TeleLoop, HandleMessage, BeatEnds, LeaveLoop, Loop, HandlerNext
<1>5. ASSUME NEW j \in jobs, JobStep(j) \/ StoreStep(j) PROVE [HandlerNext]_allVars
  BY <1>5 DEF JobStep, StoreStep, ByStore, Begin, GiveUp, Apply, Answer, Reject, Become
<1>6. ASSUME NEW r \in Requests, AcceptRequest(r) \/ RequestStep(r) PROVE [HandlerNext]_allVars
  BY <1>6 DEF AcceptRequest, RequestStep, Query, ApiGoto, allTeleVars
<1>7. CASE Signal \/ Expire
  BY <1>7 DEF Signal, Expire, MainGoto, allTeleVars
<1>8. CASE MainStep
  <2>1. CASE Stopped \/ ForceStop \/ StopDone \/ HttpShutdown
    BY <2>1 DEF Stopped, ForceStop, StopDone, HttpShutdown, MainGoto, allTeleVars
  <2>2. CASE Exit
    BY <2>2 DEF Exit, HandlerNext
  <2>3. ASSUME NEW s \in Streams, StopWire(s) PROVE [HandlerNext]_allVars
    BY <2>3 DEF StopWire, HandlerNext, Network
  <2>4. QED BY <1>8, <2>1, <2>2, <2>3 DEF MainStep
<1>9. CASE Crash
  BY <1>9 DEF Crash, TelemetryRestart, HandlerNext
<1>10. CASE UNCHANGED serverVars
  BY <1>10 DEF serverVars, allTeleVars
<1>11. QED
  BY <1>1, <1>2, <1>3, <1>4, <1>5, <1>6, <1>7, <1>8, <1>9, <1>10 DEF ShutdownNext

\* The server's streams behave as StreamHandler says, shutdown or not.
THEOREM ServerImplementsHandler == ShutdownSpec => HandlerSpec
<1>1. ShutdownInit => HandlerInit
  BY DEF ShutdownInit, TelemetryInit
<1>2. QED
  BY <1>1, HandlerSimulated, PTL DEF ShutdownSpec, HandlerSpec

\* Hence, for the whole server: messages keep their order, and its streams are
\* those of StreamRegistry.
THEOREM ServerKeepsOrder == ShutdownSpec => []InOrder
  BY ServerImplementsHandler, MessagesInOrder

THEOREM ServerImplementsRegistry == ShutdownSpec => ImplementsRegistry
  BY ServerImplementsHandler, HandlerImplementsRegistry

-----------------------------------------------------------------------------
(***************************************************************************)
(* main.                                                                   *)
(***************************************************************************)

\* What main's position says about the deadline, the requests and the branch taken.
MainInv ==
  /\ main \in MainPhases
  /\ how \in {"none", "graceful", "forced"}
  /\ late \in BOOLEAN
  /\ api \in [Requests -> InHandler \cup {"idle", "cut"}]
  /\ main \in {"up", "grpc"} => how = "none"
  /\ main = "stop" => how = "forced"
  /\ main = "closing" /\ ~late => \A r \in Requests : api[r] \notin InHandler
  /\ CutOnlyWhenLate

\* main goes from one position to the next, and requests are served meanwhile.
LEMMA MainStepInv ==
  ASSUME HInv, MainInv, [ShutdownNext]_serverVars PROVE MainInv'
<1> USE DEF MainInv, CutOnlyWhenLate, MainPhases, InHandler, Returned
<1>1. ASSUME NEW s \in Streams, NEW h \in Hosts, AcceptStream(s, h) PROVE MainInv'
  BY <1>1 DEF AcceptStream, mainVars
<1>2. ASSUME NEW s \in Streams, StreamEvent(s) PROVE MainInv'
  BY <1>2 DEF StreamEvent, mainVars, HalfClose, Break, AgentSends, vars
<1>3. ASSUME NEW s \in Streams, ReceiverStep(s) PROVE MainInv'
  BY <1>3 DEF ReceiverStep, mainVars, Receiver, Recv, RecvFails, Put, vars
<1>4. ASSUME NEW s \in Streams, HandlerStep(s) PROVE MainInv'
  BY <1>4 DEF HandlerStep, mainVars
<1>5. ASSUME NEW j \in jobs, JobStep(j) \/ StoreStep(j) PROVE MainInv'
  BY <1>5 DEF JobStep, StoreStep, ByStore, Begin, GiveUp, Apply, Answer, Reject, Become,
     mainVars, allVars, vars
<1>6. ASSUME NEW r \in Requests, AcceptRequest(r) \/ RequestStep(r) PROVE MainInv'
  BY <1>6 DEF AcceptRequest, RequestStep, Query, ApiGoto, allTeleVars, allVars, vars
<1>7. CASE Signal \/ Expire
  BY <1>7 DEF Signal, Expire, MainGoto, allTeleVars, allVars, vars
<1>8. CASE MainStep
  <2>1. CASE Stopped
    BY <2>1 DEF Stopped, MainGoto, allTeleVars, allVars, vars
  <2>2. CASE ForceStop \/ StopDone \/ HttpShutdown
    BY <2>2 DEF ForceStop, StopDone, HttpShutdown, MainGoto, allTeleVars, allVars, vars
  <2>3. CASE Exit
    <3>1. CASE \A s \in Streams : Returned(s)
      BY <2>3, <3>1 DEF Exit, allVars, vars
    <3>2. CASE ~ \A s \in Streams : Returned(s)
      BY <2>3, <3>2 DEF Exit
    <3>3. QED BY <3>1, <3>2
  <2>4. ASSUME NEW s \in Streams, StopWire(s) PROVE MainInv'
    BY <2>4 DEF StopWire, Break, mainVars
  <2>5. QED BY <1>8, <2>1, <2>2, <2>3, <2>4 DEF MainStep
<1>9. CASE Crash
  BY <1>9 DEF Crash
<1>10. CASE UNCHANGED serverVars
  BY <1>10 DEF serverVars, mainVars, allTeleVars, allVars, vars
<1>11. QED
  BY <1>1, <1>2, <1>3, <1>4, <1>5, <1>6, <1>7, <1>8, <1>9, <1>10 DEF ShutdownNext

\* The server's invariant so far.
THEOREM MainInvariance == ShutdownSpec => [](HInv /\ MainInv)
<1>1. ShutdownInit => HInv /\ MainInv
  <2> SUFFICES ASSUME ShutdownInit PROVE HInv /\ MainInv
    OBVIOUS
  <2>1. HandlerInit
    BY DEF ShutdownInit, TelemetryInit
  <2>2. HInv
    BY <2>1, HandlerInitially
  <2>3. QED
    BY <2>1, <2>2 DEF ShutdownInit, HandlerInit, Init, MainInv, CutOnlyWhenLate,
       MainPhases, InHandler
<1>2. HInv /\ MainInv /\ [ShutdownNext]_serverVars => HInv' /\ MainInv'
  BY HandlerSimulated, HandlerStepInv, MainStepInv
<1>3. QED
  BY <1>1, <1>2, PTL DEF ShutdownSpec

\* A shutdown cuts a request off only after the ten seconds.
THEOREM CutsAreLate == ShutdownSpec => []CutOnlyWhenLate
  BY MainInvariance, PTL DEF MainInv

-----------------------------------------------------------------------------
(***************************************************************************)
(* Jobs.                                                                   *)
(***************************************************************************)
Unstored == {"started", "writing", "late", "dropped"}

SameId(j, k) == j.stream = k.stream /\ j.msg = k.msg

IsRecord(j) ==
  j = [stream |-> j.stream, msg |-> j.msg, body |-> j.body, state |-> j.state]

\* A job is of a message that was taken, and its state tells whether it is stored.
JobOK(j) ==
  /\ IsRecord(j)
  /\ j.stream \in Streams /\ j.msg \in 1 .. Len(taken[j.stream])
  /\ j.body \in Bodies(j.msg) /\ j.state \in Active \cup Over
  /\ j.state \in Unstored => <<j.stream, j.msg>> \notin StoredJobs
  /\ j.state \in {"applied", "inDoubt"} => <<j.stream, j.msg>> \in StoredJobs
  /\ j.state = "ok" => <<j.stream, j.msg>> \in StoredJobs \/ Empty(j)

JobsInv ==
  /\ \E S : stored \in Seq(S)
  /\ \A j \in jobs : JobOK(j)
  /\ \A j, k \in jobs : SameId(j, k) => j = k
  /\ \A i \in DOMAIN stored : \E j \in jobs : SameId(j, stored[i])
  /\ StoredOnce

\* What a job's state may become without a change in the store.
Legal(j, state) ==
  /\ state \in Active \cup Over
  /\ state \in Unstored => j.state \in Unstored
  /\ state \in {"applied", "inDoubt"} => j.state \in {"applied", "inDoubt"}
  /\ state = "ok" => j.state \in {"applied", "ok"} \/ Empty(j)

\* What setting the state of a job changes and leaves alone.
LEMMA SetState ==
  ASSUME NEW j, IsRecord(j), NEW x, NEW k, k = [j EXCEPT !.state = x]
  PROVE  IsRecord(k) /\ SameId(j, k) /\ k.body = j.body /\ k.state = x /\ Empty(k) = Empty(j)
<1>1. k = [stream |-> j.stream, msg |-> j.msg, body |-> j.body, state |-> x]
  BY DEF IsRecord
<1>2. QED
  BY <1>1 DEF IsRecord, SameId, Empty

\* Jobs that only change their states, legally, keep the invariant.
LEMMA Relabel ==
  ASSUME JobsInv, NEW f, jobs' = {[j EXCEPT !.state = f[j]] : j \in jobs},
         UNCHANGED <<stored, taken>>, \A j \in jobs : Legal(j, f[j])
  PROVE  JobsInv'
<1>1. \A j \in jobs : JobOK(j)
  BY DEF JobsInv
<1>2. ASSUME NEW k \in jobs'
      PROVE  \E j \in jobs : /\ k = [j EXCEPT !.state = f[j]] /\ SameId(j, k)
                              /\ k.body = j.body /\ k.state = f[j] /\ IsRecord(k)
                              /\ Empty(k) = Empty(j)
  <2>1. PICK j \in jobs : k = [j EXCEPT !.state = f[j]]
    BY <1>2
  <2>2. QED
    BY <1>1, <2>1, SetState DEF JobOK
<1>3. ASSUME NEW k \in jobs' PROVE JobOK(k)'
  <2>1. PICK j \in jobs : /\ SameId(j, k) /\ k.body = j.body /\ k.state = f[j]
                          /\ IsRecord(k) /\ Empty(k) = Empty(j)
    BY <1>2, <1>3
  <2>2. JobOK(j) /\ Legal(j, f[j]) /\ StoredJobs' = StoredJobs
    BY <1>1 DEF StoredJobs
  <2>3. QED
    BY <2>1, <2>2 DEF JobOK, Legal, SameId, Empty, IsRecord, Bodies
<1>4. ASSUME NEW k \in jobs', NEW l \in jobs', SameId(k, l) PROVE k = l
  <2>1. PICK i \in jobs : k = [i EXCEPT !.state = f[i]] /\ SameId(i, k)
    BY <1>2
  <2>2. PICK j \in jobs : l = [j EXCEPT !.state = f[j]] /\ SameId(j, l)
    BY <1>2
  <2>3. i = j
    BY <1>4, <2>1, <2>2 DEF JobsInv, SameId
  <2>4. QED BY <2>1, <2>2, <2>3
<1>5. ASSUME NEW i \in DOMAIN stored PROVE \E k \in jobs' : SameId(k, stored[i])
  <2>1. PICK j \in jobs : SameId(j, stored[i])
    BY DEF JobsInv
  <2>2. SameId(j, [j EXCEPT !.state = f[j]])
    BY <1>1, SetState DEF JobOK
  <2>3. QED BY <2>1, <2>2 DEF SameId
<1>6. QED
  BY <1>3, <1>4, <1>5 DEF JobsInv, StoredOnce, SameId

\* One job's state changes, the others keep theirs.
LEMMA BecomeKeeps ==
  ASSUME JobsInv, NEW j \in jobs, NEW x, Legal(j, x), Become(j, x), UNCHANGED stored
  PROVE  JobsInv'
<1> DEFINE f == [k \in jobs |-> IF k = j THEN x ELSE k.state]
<1>1. \A k \in jobs : IsRecord(k) /\ Legal(k, k.state)
  BY DEF JobsInv, JobOK, Legal
<1>2. \A k \in jobs : [k EXCEPT !.state = k.state] = k
  BY <1>1 DEF IsRecord
<1>3. jobs' = {[k EXCEPT !.state = f[k]] : k \in jobs}
  <2>1. jobs' = (jobs \ {j}) \cup {[j EXCEPT !.state = x]}
    BY DEF Become
  <2>2. f[j] = x /\ \A k \in jobs \ {j} : f[k] = k.state
    OBVIOUS
  <2> HIDE DEF f
  <2>3. QED BY <1>2, <2>1, <2>2
<1>4. \A k \in jobs : Legal(k, f[k])
  BY <1>1
<1>5. UNCHANGED taken
  BY DEF Become, allVars, chanVars
<1> HIDE DEF f
<1>6. QED
  BY <1>3, <1>4, <1>5, Relabel

\* What ends a process does to its jobs is what a timeout does.
LEMMA KilledKeeps ==
  ASSUME JobsInv, jobs' = Killed, UNCHANGED <<stored, taken>> PROVE JobsInv'
<1> DEFINE f == [j \in jobs |-> Abandoned(j.state)]
<1>1. jobs' = {[j EXCEPT !.state = f[j]] : j \in jobs}
  BY DEF Killed
<1>2. \A j \in jobs : Legal(j, f[j])
  BY DEF JobsInv, JobOK, Legal, Abandoned, Active, Over, Unstored
<1> HIDE DEF f
<1>3. QED
  BY <1>1, <1>2, Relabel

\* A sequence of anything grows by an element.
LEMMA AppendAny ==
  ASSUME NEW q, \E S : q \in Seq(S), NEW e
  PROVE  /\ \E S : Append(q, e) \in Seq(S)
         /\ Len(q) \in Nat /\ DOMAIN q = 1 .. Len(q) /\ DOMAIN Append(q, e) = 1 .. Len(q) + 1
         /\ \A i \in 1 .. Len(q) : Append(q, e)[i] = q[i]
         /\ Append(q, e)[Len(q) + 1] = e
<1>1. PICK S : q \in Seq(S)
  OBVIOUS
<1>2. q \in Seq(S \cup {e})
  BY <1>1
<1>3. QED
  BY <1>2

\* The store takes a job's request that it does not have yet.
LEMMA ApplyKeeps ==
  ASSUME JobsInv, NEW j \in jobs, Apply(j) PROVE JobsInv'
<1> DEFINE e == [stream |-> j.stream, msg |-> j.msg, data |-> Request(j)]
           x == IF j.state = "writing" THEN "applied" ELSE "inDoubt"
<1>1. /\ stored' = Append(stored, e) /\ UNCHANGED taken /\ j.state \in {"writing", "late"}
      /\ jobs' = (jobs \ {j}) \cup {[j EXCEPT !.state = x]}
  BY DEF Apply, Become, allVars, chanVars
<1>2. SameId(j, e) /\ x \in {"applied", "inDoubt"}
  BY DEF SameId
<1> HIDE DEF e, x
<1>3. /\ \E S : stored' \in Seq(S)
      /\ Len(stored) \in Nat /\ DOMAIN stored = 1 .. Len(stored)
      /\ DOMAIN stored' = 1 .. Len(stored) + 1
      /\ \A i \in 1 .. Len(stored) : stored'[i] = stored[i]
      /\ stored'[Len(stored) + 1] = e
  <2>1. \E S : stored \in Seq(S)
    BY DEF JobsInv
  <2>2. stored' = Append(stored, e)
    BY <1>1
  <2>3. /\ \E S : Append(stored, e) \in Seq(S)
        /\ Len(stored) \in Nat /\ DOMAIN stored = 1 .. Len(stored)
        /\ DOMAIN Append(stored, e) = 1 .. Len(stored) + 1
        /\ \A i \in 1 .. Len(stored) : Append(stored, e)[i] = stored[i]
        /\ Append(stored, e)[Len(stored) + 1] = e
    BY <2>1, AppendAny, Zenon
  <2>4. QED BY <2>2, <2>3, Zenon
<1>4. StoredJobs' = StoredJobs \cup {<<j.stream, j.msg>>}
  BY <1>2, <1>3 DEF StoredJobs, SameId
<1>5. JobOK(j) /\ <<j.stream, j.msg>> \notin StoredJobs
  BY <1>1 DEF JobsInv, JobOK, Unstored
<1>6. PICK k : k = [j EXCEPT !.state = x] /\ IsRecord(k) /\ SameId(j, k)
               /\ k.body = j.body /\ k.state = x
  <2> DEFINE k == [j EXCEPT !.state = x]
  <2>1. IsRecord(j) /\ k = [j EXCEPT !.state = x]
    BY <1>5 DEF JobOK
  <2> HIDE DEF k
  <2>2. IsRecord(k) /\ SameId(j, k) /\ k.body = j.body /\ k.state = x
    BY <2>1, SetState
  <2>3. QED BY <2>1, <2>2
<1>7. \A l \in jobs \ {j} : <<l.stream, l.msg>> # <<j.stream, j.msg>>
  BY DEF JobsInv, SameId
<1>8. ASSUME NEW l \in jobs' PROVE JobOK(l)'
  <2>1. CASE l = k
    BY <1>1, <1>2, <1>4, <1>5, <1>6, <2>1
       DEF JobOK, SameId, Active, Over, Unstored, IsRecord, Bodies
  <2>2. CASE l \in jobs \ {j}
    <3>1. JobOK(l)
      BY <2>2 DEF JobsInv
    <3>2. QED
      BY <1>1, <1>4, <1>7, <2>2, <3>1 DEF JobOK, IsRecord, Bodies, Empty
  <2>3. QED BY <1>1, <1>6, <1>8, <2>1, <2>2
<1>9. ASSUME NEW l \in jobs', NEW m \in jobs', SameId(l, m) PROVE l = m
  <2>1. (l = k \/ l \in jobs \ {j}) /\ (m = k \/ m \in jobs \ {j})
    BY <1>1, <1>6, <1>9
  <2>2. k.stream = j.stream /\ k.msg = j.msg
    BY <1>6 DEF SameId
  <2>3. \A i, n \in jobs : SameId(i, n) => i = n
    BY DEF JobsInv
  <2>4. QED BY <1>7, <1>9, <2>1, <2>2, <2>3 DEF SameId
<1>10. ASSUME NEW i \in DOMAIN stored' PROVE \E l \in jobs' : SameId(l, stored'[i])
  <2>1. CASE i = Len(stored) + 1
    BY <1>1, <1>2, <1>3, <1>6, <2>1 DEF SameId
  <2>2. CASE i \in 1 .. Len(stored)
    <3>1. PICK l \in jobs : SameId(l, stored[i])
      BY <1>3, <2>2 DEF JobsInv
    <3>2. QED
      BY <1>1, <1>3, <1>6, <2>2, <3>1 DEF SameId
  <2>3. QED BY <1>3, <1>10, <2>1, <2>2
<1>11. StoredOnce'
  <2>1. \A i \in 1 .. Len(stored) : ~SameId(stored[i], e)
    BY <1>2, <1>3, <1>5 DEF StoredJobs, SameId
  <2>2. \A i, l \in 1 .. Len(stored) : SameId(stored[i], stored[l]) => i = l
    BY <1>3 DEF JobsInv, StoredOnce, SameId
  <2>3. \A i, l \in 1 .. Len(stored) + 1 : SameId(stored'[i], stored'[l]) => i = l
    BY <1>3, <2>1, <2>2 DEF SameId
  <2>4. QED
    BY <1>3, <2>3 DEF StoredOnce, SameId
<1>12. QED
  BY <1>3, <1>8, <1>9, <1>10, <1>11 DEF JobsInv

\* A message taken for handleMessage is the one after those taken before.
LEMMA TakesNext ==
  ASSUME HInv, NEW s \in Streams, Take(s)
  PROVE  /\ Head(msgCh[s]) = Len(taken[s]) + 1 /\ Len(taken[s]) \in Nat
         /\ Len(taken'[s]) = Len(taken[s]) + 1
         /\ \A u \in Streams \ {s} : taken'[u] = taken[u]
<1>1. /\ taken \in [Streams -> Seq(1 .. MaxMsgs)] /\ msgCh[s] \in Seq(1 .. MaxMsgs)
      /\ CountsFrom(Len(taken[s]), msgCh[s]) /\ msgCh[s] # <<>>
  BY DEF HInv, HandlerTypeOK, Counted, CountedOn, Take
<1>2. msgCh[s] \in Seq(Nat) /\ taken[s] \in Seq(Nat) /\ Len(taken[s]) \in Nat
  BY <1>1
<1>3. Head(msgCh[s]) = Len(taken[s]) + 1
  BY <1>1, <1>2, TailCounts
<1>4. taken' = [taken EXCEPT ![s] = Append(@, Head(msgCh[s]))]
  BY DEF Take
<1>5. taken'[s] = Append(taken[s], Head(msgCh[s])) /\ \A u \in Streams \ {s} : taken'[u] = taken[u]
  BY <1>1, <1>4
<1>6. Len(Append(taken[s], Head(msgCh[s]))) = Len(taken[s]) + 1
  BY <1>2, <1>3
<1>7. QED
  BY <1>2, <1>3, <1>5, <1>6

\* Taking a message leaves the jobs there are within the messages taken.
LEMMA TakeKeeps ==
  ASSUME HInv, JobsInv, NEW s \in Streams, Take(s), UNCHANGED stored,
         NEW j \in jobs
  PROVE  JobOK(j)'
<1>1. JobOK(j) /\ StoredJobs' = StoredJobs
  BY DEF JobsInv, StoredJobs
<1>2. j.msg \in 1 .. Len(taken'[j.stream])
  <2>1. CASE j.stream = s
    BY <1>1, <2>1, TakesNext DEF JobOK
  <2>2. CASE j.stream # s
    BY <1>1, <2>2, TakesNext DEF JobOK
  <2>3. QED BY <2>1, <2>2
<1>3. QED
  BY <1>1, <1>2 DEF JobOK, IsRecord, Bodies, Empty

\* handleMessage starts a job for the message, which no job has been of before.
LEMMA HandleKeeps ==
  ASSUME HInv, JobsInv, NEW s \in Streams, HandleMessage(s) PROVE JobsInv'
<1>1. Take(s) /\ UNCHANGED stored
  BY DEF HandleMessage
<1>2. StoredJobs' = StoredJobs
  BY <1>1 DEF StoredJobs
<1>3. \A j \in jobs : JobOK(j)'
  BY <1>1, TakeKeeps
<1>4. CASE jobs' = jobs
  BY <1>1, <1>3, <1>4 DEF JobsInv, StoredOnce, SameId
<1>5. CASE jobs' # jobs
  <2>1. PICK b \in Bodies(Head(msgCh[s])) :
          jobs' = jobs \cup {[stream |-> s, msg |-> Head(msgCh[s]), body |-> b,
                              state |-> "started"]}
    BY <1>5 DEF HandleMessage
  <2>2. PICK k : k = [stream |-> s, msg |-> Head(msgCh[s]), body |-> b, state |-> "started"]
    OBVIOUS
  <2>3. /\ k.stream = s /\ k.msg = Head(msgCh[s]) /\ k.body = b
        /\ k.state = "started" /\ IsRecord(k)
    BY <2>2 DEF IsRecord
  <2>4. k.msg = Len(taken[s]) + 1 /\ b \in Bodies(k.msg)
    BY <1>1, <2>1, <2>3, TakesNext
  <2>5. jobs' = jobs \cup {k}
    BY <2>1, <2>2
  <2>6. \A j \in jobs : ~SameId(j, k)
    <3> SUFFICES ASSUME NEW j \in jobs, SameId(j, k) PROVE FALSE
      OBVIOUS
    <3>1. j.msg \in 1 .. Len(taken[s])
      BY <2>3 DEF JobsInv, JobOK, SameId
    <3>2. QED BY <1>1, <2>4, <3>1, TakesNext DEF SameId
  <2>7. <<k.stream, k.msg>> \notin StoredJobs
    <3> SUFFICES ASSUME NEW i \in DOMAIN stored, stored[i].stream = k.stream,
                        stored[i].msg = k.msg
                 PROVE  FALSE
      BY DEF StoredJobs
    <3>1. PICK j \in jobs : SameId(j, stored[i])
      BY DEF JobsInv
    <3>2. QED BY <2>6, <3>1 DEF SameId
  <2>8. JobOK(k)'
    <3>1. k.msg \in 1 .. Len(taken'[k.stream])
      BY <1>1, <2>3, <2>4, TakesNext
    <3>2. QED
      BY <1>2, <2>3, <2>4, <2>7, <3>1 DEF JobOK, IsRecord, Bodies, Active, Over
  <2>9. \A j \in jobs' : JobOK(j)'
    BY <1>3, <2>5, <2>8
  <2>10. \A j, l \in jobs' : SameId(j, l) => j = l
    <3>1. \A j, l \in jobs : SameId(j, l) => j = l
      BY DEF JobsInv
    <3>2. QED BY <2>5, <2>6, <3>1 DEF SameId
  <2>11. QED
    BY <1>1, <2>5, <2>9, <2>10 DEF JobsInv, StoredOnce, SameId
<1>6. QED BY <1>4, <1>5

\* A step of one job, by itself or by its store.
LEMMA JobKeeps ==
  ASSUME JobsInv, NEW j \in jobs, JobStep(j) \/ StoreStep(j) PROVE JobsInv'
<1>1. JobOK(j)
  BY DEF JobsInv
<1>2. CASE Begin(j)
  <2>1. Legal(j, IF Empty(j) THEN "ok" ELSE "writing")
    BY <1>2 DEF Begin, Legal, Active, Over, Unstored
  <2>2. QED BY <1>2, <2>1, BecomeKeeps DEF Begin
<1>3. CASE GiveUp(j)
  <2>1. Legal(j, Abandoned(j.state))
    BY <1>3 DEF GiveUp, Legal, Abandoned, Active, Over, Unstored
  <2>2. QED BY <1>3, <2>1, BecomeKeeps DEF GiveUp
<1>4. CASE Answer(j)
  BY <1>4, BecomeKeeps DEF Answer, Legal, Active, Over, Unstored
<1>5. CASE Reject(j)
  BY <1>5, BecomeKeeps DEF Reject, Legal, Active, Over, Unstored
<1>6. CASE Apply(j)
  BY <1>6, ApplyKeeps
<1>7. QED
  BY <1>2, <1>3, <1>4, <1>5, <1>6 DEF JobStep, StoreStep, ByStore

\* A step that leaves jobs, store and taken messages alone.
LEMMA JobsStutter ==
  ASSUME JobsInv, UNCHANGED <<jobs, stored, taken>> PROVE JobsInv'
BY DEF JobsInv, JobOK, IsRecord, Bodies, Empty, StoredJobs, StoredOnce

\* Every step of the server keeps what is known of jobs and stores.
LEMMA JobsStep ==
  ASSUME HInv, JobsInv, [ShutdownNext]_serverVars PROVE JobsInv'
<1>1. ASSUME NEW s \in Streams, NEW h \in Hosts, AcceptStream(s, h) PROVE JobsInv'
  BY <1>1, JobsStutter DEF AcceptStream, chanVars, teleVars
<1>2. ASSUME NEW s \in Streams, StreamEvent(s) PROVE JobsInv'
  BY <1>2, JobsStutter DEF StreamEvent, AgentSends, chanVars, teleVars
<1>3. ASSUME NEW s \in Streams, ReceiverStep(s) PROVE JobsInv'
  BY <1>3, JobsStutter DEF ReceiverStep, Receiver, Recv, RecvFails, Put, teleVars
<1>4. ASSUME NEW s \in Streams, HandlerStep(s) PROVE JobsInv'
  <2>1. CASE HandleMessage(s)
    BY <2>1, HandleKeeps
  <2>2. CASE BeatEnds(s)
    BY <2>2, JobsStutter DEF BeatEnds, allVars, chanVars
  <2>3. CASE LeaveLoop(s)
    BY <2>3, JobsStutter DEF LeaveLoop, ReturnOnErr, ReturnOnBroken, Return, teleVars
  <2>4. CASE (StartConnect(s) \/ EndConnect(s)) /\ UNCHANGED teleVars
    BY <2>4, JobsStutter DEF StartConnect, EndConnect, chanVars, teleVars
  <2>5. QED
    BY <1>4, <2>1, <2>2, <2>3, <2>4 DEF HandlerStep, TeleLoop
<1>5. ASSUME NEW j \in jobs, JobStep(j) \/ StoreStep(j) PROVE JobsInv'
  BY <1>5, JobKeeps
<1>6. ASSUME NEW r \in Requests, AcceptRequest(r) \/ RequestStep(r) PROVE JobsInv'
  BY <1>6, JobsStutter DEF AcceptRequest, RequestStep, Query, ApiGoto, allTeleVars, allVars,
     chanVars, teleVars
<1>7. CASE Signal \/ Expire
  BY <1>7, JobsStutter DEF Signal, Expire, MainGoto, allTeleVars, allVars, chanVars, teleVars
<1>8. CASE MainStep
  <2>1. CASE Stopped \/ ForceStop \/ StopDone \/ HttpShutdown
    BY <2>1, JobsStutter DEF Stopped, ForceStop, StopDone, HttpShutdown, MainGoto, allTeleVars,
       allVars, chanVars, teleVars
  <2>2. CASE Exit
    BY <2>2, KilledKeeps DEF Exit, HandlerRestart, allVars, chanVars
  <2>3. ASSUME NEW s \in Streams, StopWire(s) PROVE JobsInv'
    BY <2>3, JobsStutter DEF StopWire, chanVars, teleVars
  <2>4. QED BY <1>8, <2>1, <2>2, <2>3 DEF MainStep
<1>9. CASE Crash
  BY <1>9, KilledKeeps DEF Crash, TelemetryRestart, HandlerRestart
<1>10. CASE UNCHANGED serverVars
  BY <1>10, JobsStutter DEF serverVars, allTeleVars, allVars, chanVars, teleVars
<1>11. QED
  BY <1>1, <1>2, <1>3, <1>4, <1>5, <1>6, <1>7, <1>8, <1>9, <1>10 DEF ShutdownNext

\* The types of the select loops: a loop waits for a heartbeat or it selects.
LEMMA LoopStep ==
  ASSUME loop \in [Streams -> {"select", "beat"}], [ShutdownNext]_serverVars
  PROVE  loop' \in [Streams -> {"select", "beat"}]
<1>1. CASE UNCHANGED loop
  BY <1>1
<1>2. ASSUME NEW s \in Streams, HandleMessage(s) \/ BeatEnds(s)
      PROVE  loop' \in [Streams -> {"select", "beat"}]
  BY <1>2 DEF HandleMessage, BeatEnds
<1>3. CASE Exit \/ Crash
  BY <1>3 DEF Exit, Crash, TelemetryRestart
<1>4. UNCHANGED loop \/ Exit \/ Crash \/ \E s \in Streams : HandleMessage(s) \/ BeatEnds(s)
  BY DEF ShutdownNext, AcceptStream, StreamEvent, ReceiverStep, HandlerStep, TeleLoop, LeaveLoop,
     JobStep, StoreStep, ByStore, Begin, GiveUp, Apply, Answer, Reject, Become, AcceptRequest,
     RequestStep, Query, ApiGoto, Signal, Expire, MainStep, Stopped, ForceStop, StopDone,
     HttpShutdown, StopWire, MainGoto, teleVars, allTeleVars, serverVars
<1>5. QED
  BY <1>1, <1>2, <1>3, <1>4

\* The server's whole invariant.
ServerInv ==
  /\ HInv /\ MainInv /\ JobsInv
  /\ loop \in [Streams -> {"select", "beat"}]

\* Streams, main and jobs keep it together: the numbering of messages (Counted) is
\* what makes a job's message new.
THEOREM ServerInvariance == ShutdownSpec => []ServerInv
<1>1. ShutdownInit => JobsInv /\ loop \in [Streams -> {"select", "beat"}]
  <2> SUFFICES ASSUME ShutdownInit PROVE JobsInv /\ loop \in [Streams -> {"select", "beat"}]
    OBVIOUS
  <2>1. jobs = {} /\ stored = <<>> /\ loop = [s \in Streams |-> "select"]
    BY DEF ShutdownInit, TelemetryInit
  <2>2. stored \in Seq({}) /\ DOMAIN stored = {}
    BY <2>1
  <2>3. QED
    BY <2>1, <2>2 DEF JobsInv, StoredOnce
<1>2. HInv /\ JobsInv /\ [ShutdownNext]_serverVars => JobsInv'
  BY JobsStep
<1>3. loop \in [Streams -> {"select", "beat"}] /\ [ShutdownNext]_serverVars
        => (loop \in [Streams -> {"select", "beat"}])'
  BY LoopStep
<1>4. QED
  BY <1>1, <1>2, <1>3, MainInvariance, PTL DEF ShutdownSpec, ServerInv

\* No store ever holds a message twice.
THEOREM StoredAtMostOnce == ShutdownSpec => []StoredOnce
  BY ServerInvariance, PTL DEF ServerInv, JobsInv

\* A write reported as done is stored, one that was refused or not sent never is.
THEOREM ReportsAlwaysTrue == ShutdownSpec => []ReportsAreTrue
<1>1. JobsInv => ReportsAreTrue
  BY DEF JobsInv, JobOK, ReportsAreTrue, Unstored
<1>2. QED
  BY <1>1, ServerInvariance, PTL DEF ServerInv

\* Types of everything, the bound of msgCh included.
THEOREM ServerTypeCorrect == ShutdownSpec => []ServerTypeOK
<1>1. ServerInv => ServerTypeOK
  <2> SUFFICES ASSUME ServerInv PROVE ServerTypeOK
    OBVIOUS
  <2>1. HandlerTypeOK /\ Counted /\ JobsInv /\ loop \in [Streams -> {"select", "beat"}]
    BY DEF ServerInv, HInv
  <2>2. ASSUME NEW j \in jobs PROVE JobOK(j) /\ j.msg \in 1 .. MaxMsgs
    <3>1. JobOK(j)
      BY <2>1 DEF JobsInv
    <3> DEFINE q == taken[j.stream]
    <3>2. j.stream \in Streams /\ j.msg \in 1 .. Len(q) /\ q \in Seq(1 .. MaxMsgs)
      BY <2>1, <3>1 DEF JobOK, HandlerTypeOK
    <3>3. q[j.msg] = 0 + j.msg
      BY <2>1, <3>2 DEF Counted, CountedOn, CountsFrom
    <3> HIDE DEF q
    <3>4. q[j.msg] \in 1 .. MaxMsgs /\ j.msg \in Nat
      BY <3>2
    <3>5. QED BY <3>1, <3>3, <3>4
  <2>3. ASSUME NEW i \in DOMAIN stored
        PROVE  stored[i].stream \in Streams /\ stored[i].msg \in 1 .. MaxMsgs
    <3>1. PICK j \in jobs : SameId(j, stored[i])
      BY <2>1 DEF JobsInv
    <3>2. QED BY <2>2, <3>1 DEF SameId, JobOK
  <2>4. TelemetryTypeOK
    BY <2>1, <2>2, <2>3 DEF TelemetryTypeOK, JobOK, IsRecord
  <2>5. QED
    BY <2>4 DEF ServerTypeOK, ServerInv, MainInv
<1>2. QED
  BY <1>1, ServerInvariance, PTL

-----------------------------------------------------------------------------
(***************************************************************************)
(* The grouping of a log batch: a recursive function, so what it computes  *)
(* is shown by induction.  The library's induction theorems cannot be used *)
(* with the provers at hand, which do not instantiate operators; that a    *)
(* set of numbers which holds 0 and the successors of its members holds    *)
(* them all follows from the well-foundedness of <.                        *)
(***************************************************************************)

\* Every set of natural numbers that is not empty has a least element.
LEMMA LeastElement ==
  ASSUME NEW T \in SUBSET Nat, T # {} PROVE \E m \in T : \A k \in T : m <= k
<1> DEFINE R == OpToRel(<, Nat)
<1>1. IsWellFoundedOn(R, Nat)
  BY NatLessThanWellFounded
<1>2. \A x, y \in Nat : x < y => <<x, y>> \in R
  BY DEF OpToRel
<1> HIDE DEF R
<1>3. PICK m \in T : \A y \in T : <<y, m>> \notin R
  BY <1>1, WFMin
<1>4. ASSUME NEW k \in T PROVE m <= k
  <2>1. m \in Nat /\ k \in Nat
    OBVIOUS
  <2>2. ~(k < m)
    <3>1. <<k, m>> \notin R
      BY <1>3
    <3>2. k < m => <<k, m>> \in R
      BY <1>2, <2>1
    <3>3. QED BY <3>1, <3>2
  <2>3. QED BY <2>1, <2>2
<1>5. QED BY <1>4

\* Induction, for a set in place of a predicate.
LEMMA SetInduction ==
  ASSUME NEW S \in SUBSET Nat, 0 \in S, \A n \in S : n + 1 \in S PROVE S = Nat
<1> SUFFICES ASSUME S # Nat PROVE FALSE
  OBVIOUS
<1>1. PICK m \in Nat \ S : \A k \in Nat \ S : m <= k
  <2>1. Nat \ S \in SUBSET Nat /\ Nat \ S # {}
    OBVIOUS
  <2>2. QED BY <2>1, LeastElement
<1>2. m - 1 \in Nat /\ m - 1 \notin Nat \ S
  BY <1>1
<1>3. QED
  BY <1>1, <1>2

\* The body of the function group in Groups.
Group(batch, g, i) ==
  IF i = 0 THEN [src \in SourcesOf(batch) |-> <<>>] ELSE AddEntry(g[i - 1], batch[i])

\* The recursion of Groups has a solution: one for n entries goes on to n + 1.
LEMMA GroupsExist ==
  ASSUME NEW batch
  PROVE  \A n \in Nat : \E g : g = [i \in 0 .. n |-> Group(batch, g, i)]
<1> DEFINE S == {n \in Nat : \E g : g = [i \in 0 .. n |-> Group(batch, g, i)]}
<1>1. 0 \in S
  <2> DEFINE first == [src \in SourcesOf(batch) |-> <<>>]
  <2>1. \A g : Group(batch, g, 0) = first
    BY DEF Group
  <2> HIDE DEF first
  <2>2. PICK g : g = [i \in 0 .. 0 |-> first]
    OBVIOUS
  <2>3. \A i \in 0 .. 0 : Group(batch, g, i) = first
    BY <2>1
  <2>4. g = [i \in 0 .. 0 |-> Group(batch, g, i)]
    BY <2>2, <2>3
  <2>5. QED BY <2>4
<1>2. ASSUME NEW n \in S PROVE n + 1 \in S
  <2>1. n \in Nat /\ \E g : g = [i \in 0 .. n |-> Group(batch, g, i)]
    BY <1>2
  <2>2. PICK g : g = [i \in 0 .. n |-> Group(batch, g, i)]
    BY <2>1
  <2>3. PICK h : h = [i \in 0 .. n + 1 |-> IF i = n + 1 THEN Group(batch, g, n + 1) ELSE g[i]]
    OBVIOUS
  <2>4. \A i \in 0 .. n : h[i] = g[i]
    BY <2>1, <2>3
  <2>5. ASSUME NEW i \in 0 .. n + 1 PROVE h[i] = Group(batch, h, i)
    <3>1. i = 0 \/ i - 1 \in 0 .. n
      BY <2>1
    <3>2. i # 0 => h[i - 1] = g[i - 1]
      BY <2>4, <3>1
    <3>3. Group(batch, h, i) = Group(batch, g, i)
      BY <3>2 DEF Group
    <3>4. CASE i = n + 1
      BY <2>3, <3>3, <3>4
    <3>5. CASE i # n + 1
      <4>1. i \in 0 .. n
        BY <2>1, <3>5
      <4>2. h[i] = g[i] /\ g[i] = Group(batch, g, i)
        BY <2>2, <2>4, <4>1
      <4>3. QED BY <3>3, <4>2
    <3>6. QED BY <3>4, <3>5
  <2>6. h = [i \in 0 .. n + 1 |-> Group(batch, h, i)]
    BY <2>3, <2>5
  <2>7. QED BY <2>1, <2>6
<1>3. S \in SUBSET Nat
  OBVIOUS
<1> HIDE DEF S
<1>4. S = Nat
  BY <1>1, <1>2, <1>3, SetInduction
<1>5. QED BY <1>4 DEF S

\* Groups does what its recursion says.
LEMMA GroupsUnfold ==
  ASSUME NEW batch, Len(batch) \in Nat
  PROVE  /\ Groups(batch)[0] = [src \in SourcesOf(batch) |-> <<>>]
         /\ \A i \in 1 .. Len(batch) :
              Groups(batch)[i] = AddEntry(Groups(batch)[i - 1], batch[i])
<1>1. \E g : g = [i \in 0 .. Len(batch) |-> Group(batch, g, i)]
  BY GroupsExist
<1>2. Groups(batch) = CHOOSE g : g = [i \in 0 .. Len(batch) |-> Group(batch, g, i)]
  BY DEF Groups, Group
<1>3. PICK g : g = Groups(batch)
  OBVIOUS
<1>4. g = [i \in 0 .. Len(batch) |-> Group(batch, g, i)]
  BY <1>1, <1>2, <1>3
<1>5. \A i \in 0 .. Len(batch) : g[i] = Group(batch, g, i)
  BY <1>4, Zenon
<1>6. g[0] = [src \in SourcesOf(batch) |-> <<>>]
  BY <1>5 DEF Group
<1>7. \A i \in 1 .. Len(batch) : g[i] = AddEntry(g[i - 1], batch[i])
  BY <1>5 DEF Group
<1>8. QED
  BY <1>3, <1>6, <1>7

\* Where the first n entries of a batch have this source.
Positions(batch, src, n) == {k \in 1 .. n : SourceOf(batch[k]) = src}

\* What bySource holds after i entries: for every source those of its entries that
\* are among the first i, in their order.
GroupedUpTo(batch, i) ==
  /\ DOMAIN Groups(batch)[i] = SourcesOf(batch)
  /\ \A src \in SourcesOf(batch) :
       /\ \E V : Groups(batch)[i][src] \in Seq(V)
       /\ InBatchOrder(Groups(batch)[i][src], batch, Positions(batch, src, i))

\* An entry of the source itself goes to the end.
LEMMA AppendInOrder ==
  ASSUME NEW batch, NEW n \in Nat, NEW src, SourceOf(batch[n + 1]) = src,
         NEW V, NEW values \in Seq(V),
         InBatchOrder(values, batch, Positions(batch, src, n))
  PROVE  InBatchOrder(Append(values, batch[n + 1]), batch,
                      Positions(batch, src, n + 1))
<1> DEFINE P == Positions(batch, src, n)
           Q == Positions(batch, src, n + 1)
<1>1. /\ Q = P \cup {n + 1} /\ \A i \in P : i \in Nat /\ i < n + 1
  BY DEF Positions
<1>2. PICK e : e = batch[n + 1]
  OBVIOUS
<1>3. PICK L \in Nat : L = Len(values)
  OBVIOUS
<1>4. InBatchOrder(values, batch, P)
  OBVIOUS
<1>5. SUFFICES InBatchOrder(Append(values, e), batch, Q)
  BY <1>2
<1> HIDE DEF P, Q
<1>6. PICK w : w = Append(values, e)
  OBVIOUS
<1>7. /\ DOMAIN values = 1 .. L /\ DOMAIN w = 1 .. L + 1
      /\ \A k \in 1 .. L : w[k] = values[k]
      /\ w[L + 1] = e
  <2>1. values \in Seq(V \cup {e}) /\ e \in V \cup {e}
    OBVIOUS
  <2>2. QED BY <1>3, <1>6, <2>1
<1>8. PICK at \in [1 .. L -> P] :
        /\ \A k, l \in 1 .. L : k < l => at[k] < at[l]
        /\ \A i \in P : \E k \in 1 .. L : at[k] = i
        /\ \A k \in 1 .. L : values[k] = batch[at[k]]
  <2>1. PICK at \in [DOMAIN values -> P] :
          /\ \A k, l \in DOMAIN values : k < l => at[k] < at[l]
          /\ \A i \in P : \E k \in DOMAIN values : at[k] = i
          /\ \A k \in DOMAIN values : values[k] = batch[at[k]]
    BY <1>4, Zenon DEF InBatchOrder
  <2>2. at \in [1 .. L -> P] /\ DOMAIN values = 1 .. L
    BY <1>7
  <2>3. \A k, l \in 1 .. L : k < l => at[k] < at[l]
    BY <2>1, <2>2
  <2>4. \A i \in P : \E k \in 1 .. L : at[k] = i
    BY <2>1, <2>2
  <2>5. \A k \in 1 .. L : values[k] = batch[at[k]]
    BY <2>1, <2>2
  <2>6. QED BY <2>2, <2>3, <2>4, <2>5, Zenon
<1>9. PICK bt : bt = [k \in 1 .. L + 1 |-> IF k = L + 1 THEN n + 1 ELSE at[k]]
  OBVIOUS
<1>10. /\ bt[L + 1] = n + 1 /\ \A k \in 1 .. L : bt[k] = at[k]
       /\ \A k \in 1 .. L + 1 : k = L + 1 \/ k \in 1 .. L
       /\ \A k \in 1 .. L : k \in 1 .. L + 1
  BY <1>9
<1>11. bt \in [1 .. L + 1 -> Q]
  BY <1>1, <1>8, <1>9, <1>10
<1>12. ASSUME NEW k \in 1 .. L + 1, NEW l \in 1 .. L + 1, k < l PROVE bt[k] < bt[l]
  <2>1. k \in 1 .. L
    BY <1>12
  <2>2. CASE l = L + 1
    BY <1>1, <1>8, <1>10, <2>1, <2>2
  <2>3. CASE l \in 1 .. L
    BY <1>8, <1>10, <1>12, <2>1, <2>3
  <2>4. QED BY <1>10, <2>2, <2>3
<1>13. ASSUME NEW i \in Q PROVE \E k \in 1 .. L + 1 : bt[k] = i
  <2>1. CASE i = n + 1
    BY <1>10, <2>1
  <2>2. CASE i \in P
    BY <1>8, <1>10, <2>2
  <2>3. QED BY <1>1, <2>1, <2>2
<1>14. ASSUME NEW k \in 1 .. L + 1 PROVE w[k] = batch[bt[k]]
  <2>1. CASE k = L + 1
    BY <1>2, <1>7, <1>10, <2>1
  <2>2. CASE k \in 1 .. L
    BY <1>7, <1>8, <1>10, <2>2
  <2>3. QED BY <1>10, <2>1, <2>2
<1>15. DOMAIN w = 1 .. L + 1
  BY <1>7
<1>16. InBatchOrder(w, batch, Q)
  <2>1. bt \in [DOMAIN w -> Q]
    BY <1>11, <1>15
  <2>2. \A k, l \in DOMAIN w : k < l => bt[k] < bt[l]
    BY <1>12, <1>15
  <2>3. \A i \in Q : \E k \in DOMAIN w : bt[k] = i
    BY <1>13, <1>15
  <2>4. \A k \in DOMAIN w : w[k] = batch[bt[k]]
    BY <1>14, <1>15
  <2>5. QED BY <2>1, <2>2, <2>3, <2>4, Zenon DEF InBatchOrder
<1>17. QED
  BY <1>6, <1>16, Zenon

\* After every entry of the batch, bySource is right about the ones before it.
LEMMA GroupedAlways ==
  ASSUME NEW batch, Len(batch) \in Nat, DOMAIN batch = 1 .. Len(batch)
  PROVE  \A i \in 0 .. Len(batch) : GroupedUpTo(batch, i)
<1> DEFINE S == {i \in Nat : i <= Len(batch) => GroupedUpTo(batch, i)}
<1>1. GroupedUpTo(batch, 0)
  <2>1. PICK m : m = Groups(batch)[0] /\ m = [src \in SourcesOf(batch) |-> <<>>]
    BY GroupsUnfold
  <2>2. ASSUME NEW src \in SourcesOf(batch)
        PROVE  /\ \E V : m[src] \in Seq(V)
               /\ InBatchOrder(m[src], batch, Positions(batch, src, 0))
    <3>1. m[src] = <<>> /\ <<>> \in Seq({}) /\ DOMAIN <<>> = {}
      BY <2>1
    <3>2. Positions(batch, src, 0) = {}
      BY DEF Positions
    <3>3. [k \in {} |-> 0] \in [{} -> {}]
      OBVIOUS
    <3>4. QED BY <3>1, <3>2, <3>3 DEF InBatchOrder
  <2>3. QED BY <2>1, <2>2 DEF GroupedUpTo
<1>2. ASSUME NEW n \in Nat, n + 1 <= Len(batch), GroupedUpTo(batch, n)
      PROVE  GroupedUpTo(batch, n + 1)
  <2>1. PICK g : g = Groups(batch)[n]
    OBVIOUS
  <2>2. PICK e : e = batch[n + 1]
    OBVIOUS
  <2>3. PICK m : m = Groups(batch)[n + 1]
    OBVIOUS
  <2>4. m = [g EXCEPT ![SourceOf(e)] = Append(g[SourceOf(e)], e)]
    <3>1. n + 1 \in 1 .. Len(batch) /\ (n + 1) - 1 = n
      BY <1>2
    <3>2. m = AddEntry(g, e)
      BY <2>1, <2>2, <2>3, <3>1, GroupsUnfold
    <3>3. QED BY <3>2 DEF AddEntry
  <2>5. /\ DOMAIN g = SourcesOf(batch)
        /\ \A src \in SourcesOf(batch) :
             /\ \E V : g[src] \in Seq(V)
             /\ InBatchOrder(g[src], batch, Positions(batch, src, n))
    BY <1>2, <2>1 DEF GroupedUpTo
  <2>6. n + 1 \in DOMAIN batch /\ SourceOf(e) \in SourcesOf(batch)
    BY <1>2, <2>2 DEF SourcesOf
  <2>7. /\ DOMAIN m = SourcesOf(batch)
        /\ m[SourceOf(e)] = Append(g[SourceOf(e)], e)
        /\ \A src \in SourcesOf(batch) : src # SourceOf(e) => m[src] = g[src]
    BY <2>4, <2>5, <2>6
  <2>8. ASSUME NEW src \in SourcesOf(batch)
        PROVE  /\ \E V : m[src] \in Seq(V)
               /\ InBatchOrder(m[src], batch, Positions(batch, src, n + 1))
    <3>1. PICK V : g[src] \in Seq(V)
      BY <2>5
    <3>2. CASE src = SourceOf(e)
      <4>1. Append(g[src], e) \in Seq(V \cup {e})
        <5>1. g[src] \in Seq(V \cup {e}) /\ e \in V \cup {e}
          BY <3>1
        <5>2. QED BY <5>1
      <4>2. InBatchOrder(Append(g[src], e), batch, Positions(batch, src, n + 1))
        <5>1. /\ n \in Nat /\ SourceOf(batch[n + 1]) = src
              /\ InBatchOrder(g[src], batch, Positions(batch, src, n))
          BY <1>2, <2>2, <2>5, <3>2
        <5>2. InBatchOrder(Append(g[src], batch[n + 1]), batch, Positions(batch, src, n + 1))
          BY <3>1, <5>1, AppendInOrder
        <5>3. QED BY <2>2, <5>2
      <4>3. m[src] = Append(g[src], e)
        BY <2>7, <3>2
      <4>4. QED BY <4>1, <4>2, <4>3
    <3>3. CASE src # SourceOf(e)
      <4>1. Positions(batch, src, n + 1) = Positions(batch, src, n)
        <5>1. \A k : k \in 1 .. n + 1 <=> k \in 1 .. n \/ k = n + 1
          BY <1>2
        <5>2. QED BY <2>2, <3>3, <5>1 DEF Positions
      <4>2. m[src] = g[src]
        BY <2>7, <3>3
      <4>3. QED BY <2>5, <3>1, <4>1, <4>2
    <3>4. QED BY <3>2, <3>3
  <2>9. QED BY <2>3, <2>7, <2>8 DEF GroupedUpTo
<1>3. \A n \in S : n + 1 \in S
  BY <1>2
<1>4. S \in SUBSET Nat /\ 0 \in S
  BY <1>1
<1> HIDE DEF S
<1>5. S = Nat
  BY <1>3, <1>4, SetInduction
<1>6. QED BY <1>5 DEF S

\* What Loki is sent of a batch.
LEMMA PushKeeps ==
  ASSUME NEW host, NEW E, NEW batch \in Seq(E), NEW push, push = LokiPush(host, batch)
  PROVE  KeepsBatch(push, host, batch)
<1> DEFINE stream(src) == [host_id |-> host, source |-> src,
                           severity |-> BySource(batch)[src][1].severity,
                           values |-> BySource(batch)[src]]
<1>1. push = {stream(src) : src \in SourcesOf(batch)}
  BY DEF LokiPush
<1>2. \A src : /\ stream(src).source = src /\ stream(src).host_id = host
               /\ stream(src).values = BySource(batch)[src]
  OBVIOUS
<1>3. Len(batch) \in Nat /\ DOMAIN batch = 1 .. Len(batch)
  OBVIOUS
<1>4. GroupedUpTo(batch, Len(batch))
  BY <1>3, GroupedAlways
<1>5. \A src \in SourcesOf(batch) :
        InBatchOrder(BySource(batch)[src], batch, {k \in DOMAIN batch : SourceOf(batch[k]) = src})
  BY <1>3, <1>4 DEF GroupedUpTo, BySource, Positions
<1> HIDE DEF stream
<1>6. {p.source : p \in push} = SourcesOf(batch)
  <2>1. \A p \in push : p.source \in SourcesOf(batch)
    BY <1>1, <1>2
  <2>2. \A src \in SourcesOf(batch) : \E p \in push : p.source = src
    BY <1>1, <1>2
  <2>3. QED BY <2>1, <2>2
<1>7. \A p, q \in push : p.source = q.source => p = q
  BY <1>1, <1>2
<1>8. ASSUME NEW p \in push
      PROVE  /\ p.host_id = host
             /\ InBatchOrder(p.values, batch,
                             {k \in DOMAIN batch : SourceOf(batch[k]) = p.source})
  <2>1. PICK src \in SourcesOf(batch) : p = stream(src)
    BY <1>1
  <2>2. p.source = src /\ p.host_id = host /\ p.values = BySource(batch)[src]
    BY <1>2, <2>1
  <2>3. QED
    BY <1>5, <2>2
<1>9. QED
  BY <1>6, <1>7, <1>8 DEF KeepsBatch

-----------------------------------------------------------------------------
(***************************************************************************)
(* What is stored is what the job asked for, from its start to its end.    *)
(***************************************************************************)
DataInv ==
  \A i \in DOMAIN stored, j \in jobs : SameId(j, stored[i]) => stored[i].data = Request(j)

\* Of what a step may do with the jobs.
LEMMA JobsChange ==
  ASSUME [ShutdownNext]_serverVars
  PROVE  \/ jobs' = jobs /\ UNCHANGED stored
         \/ jobs' = Killed /\ UNCHANGED stored
         \/ \E j \in jobs : \E x : jobs' = (jobs \ {j}) \cup {[j EXCEPT !.state = x]}
         \/ \E s \in Streams : HandleMessage(s)
<1>1. CASE \E j \in jobs : JobStep(j) \/ StoreStep(j)
  BY <1>1 DEF JobStep, StoreStep, ByStore, Begin, GiveUp, Apply, Answer, Reject, Become
<1>2. CASE \E s \in Streams, h \in Hosts : AcceptStream(s, h)
  BY <1>2 DEF AcceptStream, teleVars
<1>3. CASE \E s \in Streams : StreamEvent(s) \/ ReceiverStep(s)
  BY <1>3 DEF StreamEvent, ReceiverStep, teleVars
<1>4. CASE \E s \in Streams : HandlerStep(s)
  BY <1>4 DEF HandlerStep, TeleLoop, BeatEnds, LeaveLoop, teleVars
<1>5. CASE \E r \in Requests : AcceptRequest(r) \/ RequestStep(r)
  BY <1>5 DEF AcceptRequest, RequestStep, Query, ApiGoto, allTeleVars, teleVars
<1>6. CASE Signal \/ Expire \/ MainStep
  BY <1>6 DEF Signal, Expire, MainStep, Stopped, ForceStop, StopDone, HttpShutdown, StopWire,
     Exit, MainGoto, allTeleVars, teleVars
<1>7. CASE Crash
  BY <1>7 DEF Crash, TelemetryRestart
<1>8. CASE UNCHANGED serverVars
  BY <1>8 DEF serverVars, allTeleVars, teleVars
<1>9. QED
  BY <1>1, <1>2, <1>3, <1>4, <1>5, <1>6, <1>7, <1>8 DEF ShutdownNext

\* Of what a step may do with the store.
LEMMA StoreChange ==
  ASSUME [ShutdownNext]_serverVars
  PROVE  \/ UNCHANGED stored
         \/ \E j \in jobs :
              stored' = Append(stored, [stream |-> j.stream, msg |-> j.msg, data |-> Request(j)])
<1>1. CASE \E j \in jobs : JobStep(j) \/ StoreStep(j)
  BY <1>1 DEF JobStep, StoreStep, ByStore, Begin, GiveUp, Apply, Answer, Reject
<1>2. CASE \E j \in jobs : \E x : jobs' = (jobs \ {j}) \cup {[j EXCEPT !.state = x]}
  <2>1. CASE \E s \in Streams, h \in Hosts : AcceptStream(s, h)
    BY <2>1 DEF AcceptStream, teleVars
  <2>2. CASE \E s \in Streams : StreamEvent(s) \/ ReceiverStep(s)
    BY <2>2 DEF StreamEvent, ReceiverStep, teleVars
  <2>3. CASE \E s \in Streams : HandlerStep(s)
    BY <2>3 DEF HandlerStep, TeleLoop, HandleMessage, BeatEnds, LeaveLoop, teleVars
  <2>4. CASE \E r \in Requests : AcceptRequest(r) \/ RequestStep(r)
    BY <2>4 DEF AcceptRequest, RequestStep, Query, ApiGoto, allTeleVars, teleVars
  <2>5. CASE Signal \/ Expire \/ MainStep
    BY <2>5 DEF Signal, Expire, MainStep, Stopped, ForceStop, StopDone, HttpShutdown, StopWire,
       Exit, MainGoto, allTeleVars, teleVars
  <2>6. CASE Crash \/ UNCHANGED serverVars
    BY <2>6 DEF Crash, TelemetryRestart, serverVars, allTeleVars, teleVars
  <2>7. QED
    BY <1>1, <2>1, <2>2, <2>3, <2>4, <2>5, <2>6 DEF ShutdownNext
<1>3. CASE \E s \in Streams : HandleMessage(s)
  BY <1>3 DEF HandleMessage
<1>4. QED
  BY <1>2, <1>3, JobsChange

\* A stream with a job is open or over: its host does not change any more.
LEMMA OwnerStays ==
  ASSUME HInv, JobsInv, [ShutdownNext]_serverVars, NEW j \in jobs
  PROVE  owner'[j.stream] = owner[j.stream]
<1>1. j.stream \in Streams /\ j.msg \in 1 .. Len(taken[j.stream])
  BY DEF JobsInv, JobOK
<1>2. phase[j.stream] # "idle"
  <2>1. taken[j.stream] # <<>>
    <3>1. Len(<<>>) = 0
      OBVIOUS
    <3>2. QED BY <1>1, <3>1
  <2>2. QED
    BY <1>1, <2>1 DEF HInv, Counted, CountedOn, Channels
<1>3. [Next]_vars
  BY HandlerSimulated, RegistryStep DEF HInv
<1>4. owner \in [Streams -> Hosts \cup {None}]
  BY DEF HInv, IInv, TypeOK
<1>5. CASE \E s \in Streams, h \in Hosts : Open(s, h)
  BY <1>1, <1>2, <1>4, <1>5 DEF Open
<1>6. UNCHANGED owner \/ \E s \in Streams, h \in Hosts : Open(s, h)
  BY <1>3 DEF Next, Network, Handler, HalfClose, Break, Register, Leave, Deregister, Restart, vars
<1>7. QED
  BY <1>5, <1>6

\* What a job asks for depends on nothing that changes.
LEMMA RequestStays ==
  ASSUME NEW j, NEW k, SameId(j, k), k.body = j.body, owner'[j.stream] = owner[j.stream]
  PROVE  Request(k)' = Request(j)
BY DEF Request, SameId

\* A job goes back to one of before the step, with the same body, or it is new and
\* nothing of it is stored.
LEMMA JobsInherit ==
  ASSUME JobsInv, JobsInv', [ShutdownNext]_serverVars, NEW k \in jobs'
  PROVE  \/ \E j \in jobs : SameId(j, k) /\ k.body = j.body
         \/ <<k.stream, k.msg>> \notin StoredJobs'
<1>1. \A j \in jobs : IsRecord(j)
  BY DEF JobsInv, JobOK
<1>2. CASE k \in jobs
  BY <1>2 DEF SameId
<1>3. ASSUME NEW j \in jobs, NEW x, k = [j EXCEPT !.state = x]
      PROVE  SameId(j, k) /\ k.body = j.body
  BY <1>1, <1>3, SetState
<1>4. CASE jobs' = Killed
  BY <1>3, <1>4 DEF Killed
<1>5. CASE \E j \in jobs : \E x : jobs' = (jobs \ {j}) \cup {[j EXCEPT !.state = x]}
  BY <1>2, <1>3, <1>5
<1>6. CASE \E s \in Streams : HandleMessage(s)
  <2>1. k \in jobs \/ k.state = "started"
    BY <1>6 DEF HandleMessage
  <2>2. k.state = "started" => <<k.stream, k.msg>> \notin StoredJobs'
    BY DEF JobsInv, JobOK, Unstored
  <2>3. QED
    BY <1>2, <2>1, <2>2
<1>7. QED
  BY <1>2, <1>4, <1>5, <1>6, JobsChange

\* Every step keeps what is known of the data stored.
LEMMA DataStep ==
  ASSUME HInv, JobsInv, JobsInv', DataInv, [ShutdownNext]_serverVars PROVE DataInv'
<1>1. SUFFICES ASSUME NEW i \in DOMAIN stored', NEW k \in jobs', SameId(k, stored'[i])
               PROVE  stored'[i].data = Request(k)'
  BY DEF DataInv, SameId
<1>2. PICK j \in jobs : SameId(j, k) /\ k.body = j.body
  <2>1. <<k.stream, k.msg>> \in StoredJobs'
    BY <1>1 DEF StoredJobs, SameId
  <2>2. QED
    BY <2>1, JobsInherit
<1>3. Request(k)' = Request(j)
  BY <1>2, OwnerStays, RequestStays
<1>4. SameId(j, stored'[i])
  BY <1>1, <1>2 DEF SameId
<1>5. CASE UNCHANGED stored
  BY <1>3, <1>4, <1>5 DEF DataInv
<1>6. ASSUME NEW l \in jobs,
             stored' = Append(stored, [stream |-> l.stream, msg |-> l.msg, data |-> Request(l)])
      PROVE  stored'[i].data = Request(k)'
  <2>1. PICK e : e = [stream |-> l.stream, msg |-> l.msg, data |-> Request(l)]
    OBVIOUS
  <2>2. e.stream = l.stream /\ e.msg = l.msg /\ e.data = Request(l)
    BY <2>1
  <2>3. /\ Len(stored) \in Nat /\ DOMAIN stored = 1 .. Len(stored)
        /\ DOMAIN stored' = 1 .. Len(stored) + 1
        /\ \A n \in 1 .. Len(stored) : stored'[n] = stored[n]
        /\ stored'[Len(stored) + 1] = e
    <3>1. \E S : stored \in Seq(S)
      BY DEF JobsInv
    <3>2. stored' = Append(stored, e)
      BY <1>6, <2>1
    <3>3. /\ Len(stored) \in Nat /\ DOMAIN stored = 1 .. Len(stored)
          /\ DOMAIN Append(stored, e) = 1 .. Len(stored) + 1
          /\ \A n \in 1 .. Len(stored) : Append(stored, e)[n] = stored[n]
          /\ Append(stored, e)[Len(stored) + 1] = e
      BY <3>1, AppendAny, Zenon
    <3>4. QED BY <3>2, <3>3, Zenon
  <2>4. CASE i \in 1 .. Len(stored)
    BY <1>3, <1>4, <2>3, <2>4 DEF DataInv
  <2>5. CASE i = Len(stored) + 1
    <3>1. SameId(j, l)
      BY <1>4, <2>2, <2>3, <2>5 DEF SameId
    <3>2. j = l
      BY <3>1 DEF JobsInv
    <3>3. QED BY <1>3, <2>2, <2>3, <2>5, <3>2
  <2>6. QED BY <1>1, <2>3, <2>4, <2>5
<1>7. QED
  BY <1>5, <1>6, StoreChange

\* No push loses, doubles, mixes up or reorders the entries of its batch, whatever
\* the batch: the grouping keeps them, and the job keeps the batch and its host.
THEOREM PushesKeepBatches == ShutdownSpec => []PushKeepsBatch
<1>1. ShutdownInit => DataInv
  BY DEF ShutdownInit, TelemetryInit, DataInv
<1>2. ServerInv /\ ServerInv' /\ DataInv /\ [ShutdownNext]_serverVars => DataInv'
  BY DataStep DEF ServerInv
<1>3. ServerInv /\ DataInv => PushKeepsBatch
  <2> SUFFICES ASSUME ServerInv, DataInv, NEW j \in jobs, NEW i \in DOMAIN stored,
                      j.body.kind = "logs", stored[i].stream = j.stream, stored[i].msg = j.msg
               PROVE  KeepsBatch(stored[i].data.streams, owner[j.stream], j.body.entries)
    BY DEF PushKeepsBatch
  <2>1. stored[i].data = Request(j)
    BY DEF DataInv, SameId
  <2>2. stored[i].data.streams = LokiPush(owner[j.stream], j.body.entries)
    BY <2>1 DEF Request
  <2>3. j.body.entries \in Batches
    <3>1. j.body \in Bodies(j.msg)
      BY DEF ServerInv, JobsInv, JobOK
    <3>2. QED BY <3>1 DEF Bodies
  <2>4. PICK E : j.body.entries \in Seq(E)
    BY <2>3, TelemetryAssumption
  <2>5. QED
    BY <2>2, <2>4, PushKeeps
<1>4. QED
  BY <1>1, <1>2, <1>3, ServerInvariance, PTL DEF ShutdownSpec

-----------------------------------------------------------------------------
(***************************************************************************)
(* Writes go forward: the bound on the steps of a job behind WritesEnd.    *)
(***************************************************************************)
GoesOn(j, k) ==
  /\ SameId(j, k) /\ k.body = j.body
  /\ k.state = j.state \/ Stage(j.state) < Stage(k.state)

\* One job's state changes, and not backwards.
LEMMA BecomeAdvances ==
  ASSUME JobsInv, NEW j \in jobs, NEW x, Stage(j.state) < Stage(x),
         jobs' = (jobs \ {j}) \cup {[j EXCEPT !.state = x]}
  PROVE  \A i \in jobs : \E k \in jobs' : GoesOn(i, k)
<1> SUFFICES ASSUME NEW i \in jobs PROVE \E k \in jobs' : GoesOn(i, k)
  OBVIOUS
<1>1. CASE i = j
  <2>1. PICK k : k = [j EXCEPT !.state = x]
    OBVIOUS
  <2>2. k \in jobs'
    BY <2>1
  <2>3. SameId(j, k) /\ k.body = j.body /\ k.state = x
    <3>1. IsRecord(j)
      BY DEF JobsInv, JobOK
    <3>2. QED BY <2>1, <3>1, SetState
  <2>4. QED
    BY <1>1, <2>2, <2>3 DEF GoesOn
<1>2. CASE i # j
  BY <1>2 DEF GoesOn, SameId
<1>3. QED
  BY <1>1, <1>2

\* What the end of a process does to a job goes forward too.
LEMMA KilledAdvances ==
  ASSUME JobsInv, jobs' = Killed
  PROVE  \A i \in jobs : \E k \in jobs' : GoesOn(i, k)
<1> SUFFICES ASSUME NEW i \in jobs PROVE \E k \in jobs' : GoesOn(i, k)
  OBVIOUS
<1>1. PICK k : k = [i EXCEPT !.state = Abandoned(i.state)]
  OBVIOUS
<1>2. k \in jobs'
  BY <1>1 DEF Killed
<1>3. SameId(i, k) /\ k.body = i.body /\ k.state = Abandoned(i.state)
  <2>1. IsRecord(i)
    BY DEF JobsInv, JobOK
  <2>2. QED BY <1>1, <2>1, SetState
<1>4. Abandoned(i.state) = i.state \/ Stage(i.state) < Stage(Abandoned(i.state))
  BY DEF Abandoned, Stage
<1>5. QED
  BY <1>2, <1>3, <1>4 DEF GoesOn

\* Each step of one job, by itself or by its store.
LEMMA JobAdvances ==
  ASSUME JobsInv, NEW j \in jobs, JobStep(j) \/ StoreStep(j)
  PROVE  \A i \in jobs : \E k \in jobs' : GoesOn(i, k)
<1>1. ASSUME NEW x, Become(j, x), Stage(j.state) < Stage(x)
      PROVE  \A i \in jobs : \E k \in jobs' : GoesOn(i, k)
  BY <1>1, BecomeAdvances DEF Become
<1>2. CASE Begin(j)
  <2>1. Stage(j.state) < Stage(IF Empty(j) THEN "ok" ELSE "writing")
    BY <1>2 DEF Begin, Stage
  <2>2. QED BY <1>1, <1>2, <2>1 DEF Begin
<1>3. CASE GiveUp(j)
  <2>1. Stage(j.state) < Stage(Abandoned(j.state))
    BY <1>3 DEF GiveUp, Stage, Abandoned, Active
  <2>2. QED BY <1>1, <1>3, <2>1 DEF GiveUp
<1>4. CASE Apply(j)
  <2>1. Stage(j.state) < Stage(IF j.state = "writing" THEN "applied" ELSE "inDoubt")
    BY <1>4 DEF Apply, Stage
  <2>2. QED BY <1>1, <1>4, <2>1 DEF Apply
<1>5. CASE Answer(j)
  <2>1. Stage(j.state) < Stage("ok")
    BY <1>5 DEF Answer, Stage
  <2>2. QED BY <1>1, <1>5, <2>1 DEF Answer
<1>6. CASE Reject(j)
  <2>1. Stage(j.state) < Stage("dropped")
    BY <1>6 DEF Reject, Stage
  <2>2. QED BY <1>1, <1>6, <2>1 DEF Reject
<1>7. QED
  BY <1>2, <1>3, <1>4, <1>5, <1>6 DEF JobStep, StoreStep, ByStore

\* A job of handleMessage is not started anew, undone or lost: its goroutine, its
\* store, its timeout and the end of the process only bring it forward.
THEOREM WritesNeverGoBack == ShutdownSpec => WritesOnlyAdvance
<1> DEFINE Forward == \A j \in jobs : \E k \in jobs' :
                        /\ k.stream = j.stream /\ k.msg = j.msg /\ k.body = j.body
                        /\ k.state = j.state \/ Stage(j.state) < Stage(k.state)
<1>1. ServerInv /\ [ShutdownNext]_serverVars => [Forward]_jobs
  <2> SUFFICES ASSUME ServerInv, [ShutdownNext]_serverVars, jobs' # jobs PROVE Forward
    OBVIOUS
  <2>1. JobsInv
    BY DEF ServerInv
  <2>2. SUFFICES \A j \in jobs : \E k \in jobs' : GoesOn(j, k)
    BY <2>2 DEF GoesOn, SameId
  <2>3. CASE \E j \in jobs : JobStep(j) \/ StoreStep(j)
    BY <2>1, <2>3, JobAdvances
  <2>4. CASE jobs' = Killed
    BY <2>1, <2>4, KilledAdvances
  <2>5. CASE \E s \in Streams : HandleMessage(s)
    <3>1. jobs \subseteq jobs'
      BY <2>5 DEF HandleMessage
    <3>2. QED BY <3>1 DEF GoesOn, SameId
  <2>6. \/ \E j \in jobs : JobStep(j) \/ StoreStep(j)
        \/ jobs' = Killed \/ \E s \in Streams : HandleMessage(s)
    BY DEF ShutdownNext, AcceptStream, StreamEvent, ReceiverStep, HandlerStep, TeleLoop, LeaveLoop,
       BeatEnds, AcceptRequest, RequestStep, Query, ApiGoto, Signal, Expire, MainStep, Stopped,
       ForceStop, StopDone, HttpShutdown, StopWire, Exit, Crash, TelemetryRestart, MainGoto,
       teleVars, allTeleVars, serverVars
  <2>7. QED
    BY <2>3, <2>4, <2>5, <2>6
<1>2. QED
  BY <1>1, ServerInvariance, PTL DEF ShutdownSpec, WritesOnlyAdvance
=============================================================================
