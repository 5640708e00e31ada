---------------------------- MODULE StreamHandler -----------------------------
(***************************************************************************)
(* The inside of the Connect handler (internal/stream/handler.go): the     *)
(* goroutine that loops on stream.Recv, the channels msgCh and errCh, and  *)
(* the select loop.  It implements StreamRegistry, where the loop is only  *)
(* a phase that a handler may leave once its wire is not open.             *)
(*                                                                         *)
(* Messages are numbered by the agent, per stream.  What handleMessage     *)
(* does with one is not modelled here: jobs are in Telemetry, the times    *)
(* of heartbeats in HostStatus, results in CommandBroker.                  *)
(***************************************************************************)
EXTENDS StreamRegistry, Sequences

CONSTANTS Cap,       \* capacity of msgCh (16 in the code)
          MaxMsgs    \* bound: messages the agent sends on a stream

ASSUME CapAssumption == Cap \in Nat \ {0} /\ MaxMsgs \in Nat

VARIABLES
  sent,    \* messages the agent has sent on a stream
  rcvd,    \* messages stream.Recv has returned
  recv,    \* the receiving goroutine: "put" holds message rcvd for msgCh
  msgCh,   \* buffered channel of messages
  errCh,   \* buffered channel, capacity 1
  taken    \* messages the select loop has passed to handleMessage, in order

chanVars == <<sent, rcvd, recv, msgCh, errCh, taken>>
allVars == <<vars, chanVars>>

HandlerTypeOK ==
  /\ TypeOK
  /\ sent \in [Streams -> 0 .. MaxMsgs]
  /\ rcvd \in [Streams -> 0 .. MaxMsgs]
  /\ recv \in [Streams -> {"off", "recv", "put", "done"}]
  /\ msgCh \in [Streams -> Seq(1 .. MaxMsgs)]
  /\ errCh \in [Streams -> {"empty", "eof", "err"}]
  /\ taken \in [Streams -> Seq(1 .. MaxMsgs)]
  /\ \A s \in Streams : Len(msgCh[s]) <= Cap

HandlerInit ==
  /\ Init
  /\ sent = [s \in Streams |-> 0]
  /\ rcvd = [s \in Streams |-> 0]
  /\ recv = [s \in Streams |-> "off"]
  /\ msgCh = [s \in Streams |-> <<>>]
  /\ errCh = [s \in Streams |-> "empty"]
  /\ taken = [s \in Streams |-> <<>>]

-----------------------------------------------------------------------------
AgentSends(s) ==
  /\ wire[s] = "open" /\ sent[s] < MaxMsgs
  /\ sent' = [sent EXCEPT ![s] = @ + 1]
  /\ UNCHANGED <<vars, rcvd, recv, msgCh, errCh, taken>>

\* Connect adds the stream and starts the receiving goroutine.
StartConnect(s) ==
  /\ Register(s)
  /\ recv' = [recv EXCEPT ![s] = "recv"]
  /\ UNCHANGED <<sent, rcvd, msgCh, errCh, taken>>

(***************************************************************************)
(* The receiving goroutine.                                                *)
(***************************************************************************)
Recv(s) ==
  /\ recv[s] = "recv" /\ rcvd[s] < sent[s]
  /\ rcvd' = [rcvd EXCEPT ![s] = @ + 1]
  /\ recv' = [recv EXCEPT ![s] = "put"]
  /\ UNCHANGED <<vars, sent, msgCh, errCh, taken>>

\* Mutant: Recv's error ends the goroutine without telling the loop.
RecvFailsSilently(s) ==
  /\ recv[s] = "recv"
  /\ wire[s] = "dead" \/ (wire[s] = "halfClosed" /\ rcvd[s] = sent[s])
  /\ recv' = [recv EXCEPT ![s] = "done"]
  /\ UNCHANGED <<vars, sent, rcvd, msgCh, errCh, taken>>

\* io.EOF once all that was sent has been received, any other error at once.
RecvFails(s) ==
  /\ recv[s] = "recv"
  /\ \/ wire[s] = "halfClosed" /\ rcvd[s] = sent[s] /\ errCh' = [errCh EXCEPT ![s] = "eof"]
     \/ wire[s] = "dead" /\ errCh' = [errCh EXCEPT ![s] = "err"]
  /\ recv' = [recv EXCEPT ![s] = "done"]
  /\ UNCHANGED <<vars, sent, rcvd, msgCh, taken>>

\* Mutant: a select with a default drops the message when the channel is full.
PutOrDrop(s) ==
  /\ recv[s] = "put"
  /\ msgCh' = [msgCh EXCEPT ![s] = IF Len(@) < Cap THEN Append(@, rcvd[s]) ELSE @]
  /\ recv' = [recv EXCEPT ![s] = "recv"]
  /\ UNCHANGED <<vars, sent, rcvd, errCh, taken>>

\* Mutant: the channel is treated as if it had no bound.
PutUnbounded(s) ==
  /\ recv[s] = "put"
  /\ msgCh' = [msgCh EXCEPT ![s] = Append(@, rcvd[s])]
  /\ recv' = [recv EXCEPT ![s] = "recv"]
  /\ UNCHANGED <<vars, sent, rcvd, errCh, taken>>

\* Mutant: msgCh without a buffer, so that a send needs a reader.
PutNeedsReader(s) ==
  /\ recv[s] = "put" /\ msgCh[s] = <<>> /\ phase[s] = "serving"
  /\ msgCh' = [msgCh EXCEPT ![s] = Append(@, rcvd[s])]
  /\ recv' = [recv EXCEPT ![s] = "recv"]
  /\ UNCHANGED <<vars, sent, rcvd, errCh, taken>>

\* msgCh <- msg blocks while the channel is full, whoever is left to read it.
Put(s) ==
  /\ recv[s] = "put" /\ Len(msgCh[s]) < Cap
  /\ msgCh' = [msgCh EXCEPT ![s] = Append(@, rcvd[s])]
  /\ recv' = [recv EXCEPT ![s] = "recv"]
  /\ UNCHANGED <<vars, sent, rcvd, errCh, taken>>

(***************************************************************************)
(* The select loop: any ready case may be chosen.                          *)
(***************************************************************************)

\* case msg := <-msgCh
Take(s) ==
  /\ phase[s] = "serving" /\ msgCh[s] # <<>>
  /\ taken' = [taken EXCEPT ![s] = Append(@, Head(msgCh[s]))]
  /\ msgCh' = [msgCh EXCEPT ![s] = Tail(@)]
  /\ UNCHANGED <<vars, sent, rcvd, recv, errCh>>

Return(s) ==
  /\ phase[s] = "serving"
  /\ phase' = [phase EXCEPT ![s] = "leaving"]
  /\ UNCHANGED <<registry, owner, wire, sent, rcvd, recv, msgCh, taken>>

\* Mutant: the loop returns when there is nothing to read.
ReturnWhenIdle(s) ==
  /\ msgCh[s] = <<>>
  /\ Return(s)
  /\ UNCHANGED errCh

\* case err := <-errCh; messages still in msgCh are dropped.
ReturnOnErr(s) ==
  /\ errCh[s] # "empty"
  /\ errCh' = [errCh EXCEPT ![s] = "empty"]
  /\ Return(s)

\* case <-ctx.Done(), or a tick whose ping cannot be sent.
ReturnOnBroken(s) ==
  /\ wire[s] = "dead"
  /\ Return(s)
  /\ UNCHANGED errCh

EndConnect(s) == Deregister(s) /\ UNCHANGED chanVars

HandlerRestart ==
  /\ Restart
  /\ recv' = [s \in Streams |-> IF phase[s] = "idle" THEN "off" ELSE "done"]
  /\ UNCHANGED <<sent, rcvd, msgCh, errCh, taken>>

-----------------------------------------------------------------------------
Receiver(s) == Recv(s) \/ RecvFails(s) \/ Put(s)

Loop(s) == Take(s) \/ ReturnOnErr(s) \/ ReturnOnBroken(s)

HandlerNext ==
  \/ Network /\ UNCHANGED chanVars
  \/ \E s \in Streams : AgentSends(s) \/ StartConnect(s) \/ EndConnect(s)
  \/ \E s \in Streams : Receiver(s) \/ Loop(s)
  \/ HandlerRestart

HandlerSpec == HandlerInit /\ [][HandlerNext]_allVars

-----------------------------------------------------------------------------
(***************************************************************************)
(* Properties.                                                             *)
(***************************************************************************)

\* From the agent's Send to handleMessage nothing of a stream is lost, doubled
\* or reordered, in whatever order the two goroutines run: what was taken, what
\* waits in msgCh and what the receiver holds are the messages 1, 2, 3, ...
InOrder ==
  \A s \in Streams :
    recv[s] # "done" =>
      taken[s] \o msgCh[s] \o (IF recv[s] = "put" THEN <<rcvd[s]>> ELSE <<>>)
        = [i \in 1 .. rcvd[s] |-> i]

\* The channels and goroutines implement what StreamRegistry says of a handler:
\* in particular the loop is never left while the wire is open.
ImplementsRegistry == Spec

\* A message sent on a stream that stays open reaches handleMessage.
OpenStreamIsRead ==
  \A s \in Streams, n \in 1 .. MaxMsgs :
    sent[s] >= n ~> Len(taken[s]) >= n \/ wire[s] # "open"

\* Whichever way a stream ends its handler returns: a clean EOF, which leaves
\* the context alive, is passed through errCh while messages keep coming.
ClosedStreamReturns ==
  \A s \in Streams :
    phase[s] = "serving" /\ wire[s] # "open" ~> phase[s] = "gone"

\* The receiving goroutine ends after its handler, unless it waits for a place
\* in a full msgCh that nobody reads any more: the only way it can leak.
ReceiverEnds ==
  \A s \in Streams :
    phase[s] = "gone" ~> recv[s] = "done" \/ (recv[s] = "put" /\ Len(msgCh[s]) = Cap)
=============================================================================
