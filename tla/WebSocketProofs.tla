--------------------------- MODULE WebSocketProofs ---------------------------
(***************************************************************************)
(* Theorems about WebSocket for every number of executions, clients and    *)
(* events, and every capacity: the two goroutines of a client end cleanly, *)
(* and what is written to it is what Stream promises.                      *)
(*                                                                         *)
(* The transport uses the hub through its actions only, so the invariant   *)
(* proved in EventHubProofs holds here; what is added says where the       *)
(* goroutines of a client are, relative to each other and to the stage of  *)
(* the subscription, and how much of what the writer received it has sent. *)
(***************************************************************************)
EXTENDS WebSocket, SequenceTheorems, TLAPS

\* The instance Hub, with the theorems about it.
Feed == INSTANCE EventHubProofs

----------------------------------------------------------------------------
\* The hub's assumption is that of the transport.
LEMMA FeedAssumption == Feed!HubAssumption
  BY WebSocketAssumption DEF Feed!HubAssumption, Feed!IsFiniteSet, IsFiniteSet

\* Publish, in its three parts.
LEMMA FeedPublishes ==
  /\ \A e \in Executions : Hub!PublishBegin(e) => Feed!PublishBegin(e)
  /\ \A s \in Subscriptions : Hub!Offer(s) => Feed!Offer(s)
  /\ Hub!PublishEnd => Feed!PublishEnd
<1>1. ASSUME NEW e \in Executions, Hub!PublishBegin(e) PROVE Feed!PublishBegin(e)
  BY <1>1 DEF Hub!PublishBegin, Feed!PublishBegin, Hub!Retain, Feed!Retain, Hub!Newest, Feed!Newest
<1>2. ASSUME NEW s \in Subscriptions, Hub!Offer(s) PROVE Feed!Offer(s)
  BY <1>2 DEF Hub!Offer, Feed!Offer
<1>3. Hub!PublishEnd => Feed!PublishEnd
  BY DEF Hub!PublishEnd, Feed!PublishEnd
<1> QED
  BY <1>1, <1>2, <1>3

\* Subscribe, the consumer's receive, and the two halves of Close.
LEMMA FeedConsumes ==
  ASSUME NEW s \in Subscriptions
  PROVE  /\ \A e \in Executions : Hub!Subscribe(s, e) => Feed!Subscribe(s, e)
         /\ Hub!Receive(s) => Feed!Receive(s)
         /\ Hub!Deregister(s) => Feed!Deregister(s)
         /\ Hub!CloseChannel(s) => Feed!CloseChannel(s)
<1>1. ASSUME NEW e \in Executions, Hub!Subscribe(s, e) PROVE Feed!Subscribe(s, e)
  BY <1>1 DEF Hub!Subscribe, Feed!Subscribe, Hub!Oldest, Feed!Oldest
<1>2. Hub!Receive(s) => Feed!Receive(s)
  BY DEF Hub!Receive, Feed!Receive
<1>3. Hub!Deregister(s) => Feed!Deregister(s)
  BY DEF Hub!Deregister, Feed!Deregister
<1>4. Hub!CloseChannel(s) => Feed!CloseChannel(s)
  BY DEF Hub!CloseChannel, Feed!CloseChannel
<1> QED
  BY <1>1, <1>2, <1>3, <1>4

(***************************************************************************)
(* The transport changes the hub by the hub's own actions.                 *)
(***************************************************************************)
LEMMA StepOfFeed == [Next]_vars => [Feed!Next]_(Feed!vars)
<1> SUFFICES ASSUME [Next]_vars PROVE Feed!Next \/ UNCHANGED Feed!vars
  OBVIOUS
<1>1. ASSUME UNCHANGED hubVars PROVE UNCHANGED Feed!vars
  BY <1>1 DEF hubVars, Feed!vars
<1>2. CASE PublishBegin \/ PublishEnd
  BY <1>2, FeedPublishes DEF PublishBegin, PublishEnd, Feed!Next
<1>3. ASSUME NEW s \in Subscriptions, Offer(s) PROVE Feed!Next
  BY <1>3, FeedPublishes DEF Offer, Feed!Next
<1>4. ASSUME NEW s \in Subscriptions, Subscribe(s) PROVE Feed!Next
  BY <1>4, FeedConsumes DEF Subscribe, Feed!Next
<1>5. ASSUME NEW s \in Subscriptions, Deregister(s) \/ CloseChannel(s) \/ SelectEvent(s)
      PROVE  Feed!Next
  <2>1. Feed!Deregister(s) \/ Feed!CloseChannel(s) \/ Feed!Receive(s)
    BY <1>5, FeedConsumes DEF Deregister, CloseChannel, SelectEvent
  <2> QED
    BY <2>1 DEF Feed!Next
<1>6. ASSUME NEW s \in Subscriptions,
             \/ UpgradeFails(s) \/ Upgrade(s) \/ ReadFails(s) \/ Close(s) \/ Join(s)
             \/ SelectEnd(s) \/ Write(s) \/ WriteFails(s) \/ Exit(s) \/ Signal(s)
      PROVE  UNCHANGED Feed!vars
  BY <1>6, <1>1
  DEF UpgradeFails, Upgrade, ReadFails, Close, Join, SelectEnd, Write, WriteFails, Exit, Signal
<1>7. CASE UNCHANGED vars
  BY <1>7, <1>1 DEF vars
<1> QED
  BY <1>2, <1>3, <1>4, <1>5, <1>6, <1>7 DEF Next, Handle, Send

\* No subscription exists yet.
LEMMA InitFeed == Init => Feed!Init
  BY DEF Init, Hub!Init, Feed!Init

(***************************************************************************)
(* So everything said of the hub alone holds under the two goroutines: the *)
(* transport never closes a subscription on which Publish may still send,  *)
(* and reads a channel that is in order and whole.                         *)
(***************************************************************************)
THEOREM RunsTheHub ==
  Spec => /\ Feed!Spec
          /\ [](/\ Feed!NoSendAfterClose /\ Feed!InOrderOnce
                /\ Feed!NothingMissed /\ Feed!HistoryConsistent)
<1>1. Spec => Feed!Spec
  BY InitFeed, StepOfFeed, PTL DEF Spec, Feed!Spec
<1>2. Feed!Spec => [](/\ Feed!NoSendAfterClose /\ Feed!InOrderOnce
                      /\ Feed!NothingMissed /\ Feed!HistoryConsistent)
  BY FeedAssumption, Feed!NeverSendsAfterClose, Feed!AscendsOnce, Feed!NothingIsMissed,
     Feed!HistoryIsConsistent, PTL
<1> QED
  BY <1>1, <1>2, PTL

\* The hub's inductive invariant holds of the transport too.
LEMMA FeedInvariance == Spec => []Feed!IInv
<1>1. Feed!Spec => []Feed!IInv
  BY FeedAssumption, Feed!Invariance
<1> QED
  BY <1>1, RunsTheHub, PTL

----------------------------------------------------------------------------
\* The variables that the transport adds to those of the hub.
TransportTypes ==
  /\ handler \in [Subscriptions ->
       {"idle", "upgrade", "read", "close", "wait", "deregister", "closeChannel", "done"}]
  /\ writer \in [Subscriptions -> {"none", "select", "write", "exit", "signal", "done"}]
  /\ cancelled \in SUBSET Subscriptions
  /\ connection \in [Subscriptions -> {"none", "open", "closed"}]
  /\ sent \in [Subscriptions -> Seq(1..MaxEvents)]

\* The handler has its subscription from beginning to end, and its writer from the
\* upgrade until it has joined it.
HandlerInv(s) ==
  /\ handler[s] = "idle" => stage[s] = "new"
  /\ handler[s] \in {"upgrade", "read", "close", "wait", "deregister"} => stage[s] = "open"
  /\ handler[s] = "closeChannel" => stage[s] = "closing"
  /\ handler[s] = "done" => stage[s] = "closed"
  /\ handler[s] \in {"idle", "upgrade"} => writer[s] = "none"
  /\ handler[s] \in {"read", "close", "wait"} => writer[s] # "none"
  /\ handler[s] \in {"deregister", "closeChannel", "done"} => writer[s] \in {"none", "done"}

\* The writer has sent what it received, but for the event in its hand; its context
\* and the connection are over before it is.
WriterInv(s) ==
  /\ writer[s] = "none" => connection[s] = "none" /\ sent[s] = <<>> /\ received[s] = <<>>
  /\ writer[s] \in {"exit", "signal", "done"} => s \in cancelled
  /\ writer[s] \in {"signal", "done"} => connection[s] = "closed"
  /\ writer[s] = "select" => sent[s] = received[s]
  /\ writer[s] = "write" =>
       /\ Len(received[s]) = Len(sent[s]) + 1
       /\ \A i \in 1..Len(sent[s]) : sent[s][i] = received[s][i]

ClientInv == \A s \in Subscriptions : HandlerInv(s) /\ WriterInv(s)

\* The invariant that is inductive relative to that of the hub.
IInv == TransportTypes /\ ClientInv

\* Nobody has come.
LEMMA InitIInv == Init => IInv
  BY DEF Init, Hub!Init, IInv, TransportTypes, ClientInv, HandlerInv, WriterInv

\* A step of one client is none of the others.
LEMMA OthersKeep ==
  ASSUME ClientInv, NEW s \in Subscriptions, HandlerInv(s)', WriterInv(s)',
         \A q \in Subscriptions \ {s} :
           /\ handler'[q] = handler[q] /\ writer'[q] = writer[q] /\ stage'[q] = stage[q]
           /\ connection'[q] = connection[q] /\ sent'[q] = sent[q]
           /\ received'[q] = received[q]
           /\ q \in cancelled => q \in cancelled'
  PROVE  ClientInv'
<1> SUFFICES ASSUME NEW q \in Subscriptions, q # s PROVE HandlerInv(q)' /\ WriterInv(q)'
  BY DEF ClientInv
<1>1. HandlerInv(q) /\ WriterInv(q)
  BY DEF ClientInv
<1> QED
  BY <1>1 DEF HandlerInv, WriterInv

\* A step that moves nobody.
LEMMA AllKeep ==
  ASSUME IInv, UNCHANGED connectionVars, stage' = stage, received' = received
  PROVE  IInv'
<1>1. ASSUME NEW q \in Subscriptions PROVE HandlerInv(q)' /\ WriterInv(q)'
  BY DEF IInv, ClientInv, connectionVars, HandlerInv, WriterInv
<1> QED
  BY <1>1 DEF IInv, ClientInv, TransportTypes, connectionVars

\* A sequence that is one longer is the shorter one and its last element.
LEMMA OneMore ==
  ASSUME NEW S, NEW a \in Seq(S), NEW b \in Seq(S), Len(b) = Len(a) + 1,
         \A i \in 1..Len(a) : a[i] = b[i]
  PROVE  b[Len(b)] \in S /\ Append(a, b[Len(b)]) = b
<1>1. Len(b) \in 1..Len(b)
  OBVIOUS
<1>2. b[Len(b)] \in S
  BY <1>1
<1>3. /\ Append(a, b[Len(b)]) \in Seq(S) /\ Len(Append(a, b[Len(b)])) = Len(b)
      /\ \A i \in 1..Len(b) : Append(a, b[Len(b)])[i] = b[i]
  BY <1>2
<1> QED
  BY <1>2, <1>3, SeqEqual

----------------------------------------------------------------------------
\* Publish moves no subscription to another stage, and no consumer.
LEMMA PublishSteps ==
  ASSUME IInv, PublishBegin \/ PublishEnd \/ \E s \in Subscriptions : Offer(s)
  PROVE  IInv'
  BY AllKeep DEF PublishBegin, PublishEnd, Offer, Hub!PublishBegin, Hub!PublishEnd, Hub!Offer

\* The subscription, before anything else.
LEMMA SubscribeStep ==
  ASSUME IInv, Feed!TypeOK, NEW s \in Subscriptions, Subscribe(s)
  PROVE  IInv'
<1> USE DEF IInv, TransportTypes
<1>1. /\ handler[s] = "idle" /\ handler' = [handler EXCEPT ![s] = "upgrade"]
      /\ stage' = [stage EXCEPT ![s] = "open"] /\ received' = received
      /\ UNCHANGED <<writer, cancelled, connection, sent>>
  BY DEF Subscribe, HandlerTo, Hub!Subscribe
<1>2. HandlerInv(s)' /\ WriterInv(s)'
  BY <1>1 DEF Feed!TypeOK, ClientInv, HandlerInv, WriterInv
<1> QED
  BY <1>1, <1>2, OthersKeep DEF Feed!TypeOK

\* The upgrade, failing or not; the writer starts with nothing received.
LEMMA UpgradeStep ==
  ASSUME IInv, NEW s \in Subscriptions, UpgradeFails(s) \/ Upgrade(s)
  PROVE  IInv'
<1> USE DEF IInv, TransportTypes
<1>1. stage' = stage /\ received' = received /\ cancelled' = cancelled /\ sent' = sent
  BY DEF UpgradeFails, Upgrade, hubVars
<1>2. CASE UpgradeFails(s)
  <2>1. HandlerInv(s)' /\ WriterInv(s)'
    BY <1>1, <1>2 DEF UpgradeFails, HandlerTo, ClientInv, HandlerInv, WriterInv
  <2> QED
    BY <1>1, <1>2, <2>1, OthersKeep DEF UpgradeFails, HandlerTo
<1>3. CASE Upgrade(s)
  <2>1. HandlerInv(s)' /\ WriterInv(s)'
    BY <1>1, <1>3 DEF Upgrade, HandlerTo, WriterTo, ClientInv, HandlerInv, WriterInv
  <2> QED
    BY <1>1, <1>3, <2>1, OthersKeep DEF Upgrade, HandlerTo, WriterTo
<1> QED
  BY <1>2, <1>3

\* The rest of the handler up to the return: it ends the context, the connection, and
\* waits for the writer.
LEMMA HandlerSteps ==
  ASSUME IInv, NEW s \in Subscriptions, ReadFails(s) \/ Close(s) \/ Join(s)
  PROVE  IInv'
<1> USE DEF IInv, TransportTypes
<1>1. stage' = stage /\ received' = received /\ writer' = writer /\ sent' = sent
  BY DEF ReadFails, Close, Join, hubVars
<1>2. /\ \A q \in Subscriptions \ {s} : handler'[q] = handler[q] /\ connection'[q] = connection[q]
      /\ cancelled \subseteq cancelled' /\ cancelled' \in SUBSET Subscriptions
      /\ connection' \in [Subscriptions -> {"none", "open", "closed"}]
      /\ handler' \in [Subscriptions ->
           {"idle", "upgrade", "read", "close", "wait", "deregister", "closeChannel", "done"}]
  BY DEF ReadFails, Close, Join, HandlerTo, CloseConnection, CancelContext
<1>3. HandlerInv(s)' /\ WriterInv(s)'
  BY <1>1 DEF ReadFails, Close, Join, HandlerTo, CloseConnection, CancelContext,
              ClientInv, HandlerInv, WriterInv
<1> QED
  BY <1>1, <1>2, <1>3, OthersKeep

\* subscription.Close.
LEMMA CloseSteps ==
  ASSUME IInv, Feed!TypeOK, NEW s \in Subscriptions, Deregister(s) \/ CloseChannel(s)
  PROVE  IInv'
<1> USE DEF IInv, TransportTypes
<1>1. received' = received /\ UNCHANGED <<writer, cancelled, connection, sent>>
  BY DEF Deregister, CloseChannel, Hub!Deregister, Hub!CloseChannel
<1>2. \/ /\ handler[s] = "deregister" /\ handler' = [handler EXCEPT ![s] = "closeChannel"]
         /\ stage' = [stage EXCEPT ![s] = "closing"]
      \/ /\ handler[s] = "closeChannel" /\ handler' = [handler EXCEPT ![s] = "done"]
         /\ stage' = [stage EXCEPT ![s] = "closed"]
  BY DEF Deregister, CloseChannel, Hub!Deregister, Hub!CloseChannel, HandlerTo
<1>3. HandlerInv(s)' /\ WriterInv(s)'
  BY <1>1, <1>2 DEF Feed!TypeOK, ClientInv, HandlerInv, WriterInv
<1> QED
  BY <1>1, <1>2, <1>3, OthersKeep DEF Feed!TypeOK

\* The writer takes an event in its hand.
LEMMA SelectEventStep ==
  ASSUME IInv, Feed!TypeOK, NEW s \in Subscriptions, SelectEvent(s)
  PROVE  IInv'
<1> USE DEF IInv, TransportTypes
<1>1. /\ writer[s] = "select" /\ writer' = [writer EXCEPT ![s] = "write"] /\ stage' = stage
      /\ channel[s] # <<>> /\ received' = [received EXCEPT ![s] = Append(@, Head(channel[s]))]
      /\ UNCHANGED <<handler, cancelled, connection, sent>>
  BY DEF SelectEvent, WriterTo, Hub!Receive
<1>2. received[s] = sent[s] /\ received[s] \in Seq(1..MaxEvents) /\ channel[s] \in Seq(1..MaxEvents)
  BY <1>1 DEF Feed!TypeOK, ClientInv, WriterInv
<1>3. Head(channel[s]) \in 1..MaxEvents
  BY <1>1, <1>2, HeadTailProperties
<1>4. received'[s] = Append(sent[s], Head(channel[s])) /\ sent'[s] = sent[s]
  BY <1>1, <1>2 DEF Feed!TypeOK
<1>5. /\ Len(received'[s]) = Len(sent'[s]) + 1
      /\ \A i \in 1..Len(sent'[s]) : sent'[s][i] = received'[s][i]
  BY <1>2, <1>3, <1>4, AppendProperties
<1>6. HandlerInv(s)' /\ WriterInv(s)'
  BY <1>1, <1>5 DEF ClientInv, HandlerInv, WriterInv
<1> QED
  BY <1>1, <1>6, OthersKeep DEF Feed!TypeOK

\* It sends the event: all that was received is sent.
LEMMA WriteStep ==
  ASSUME IInv, Feed!TypeOK, NEW s \in Subscriptions, Write(s)
  PROVE  IInv' /\ sent'[s] = received[s]
<1> USE DEF IInv, TransportTypes
<1>1. /\ writer[s] = "write" /\ writer' = [writer EXCEPT ![s] = "select"]
      /\ sent' = [sent EXCEPT ![s] = Append(@, received[s][Len(received[s])])]
      /\ stage' = stage /\ received' = received
      /\ UNCHANGED <<handler, cancelled, connection>>
  BY DEF Write, WriterTo, hubVars
<1>2. /\ received[s] \in Seq(1..MaxEvents) /\ sent[s] \in Seq(1..MaxEvents)
      /\ Len(received[s]) = Len(sent[s]) + 1
      /\ \A i \in 1..Len(sent[s]) : sent[s][i] = received[s][i]
  BY <1>1 DEF Feed!TypeOK, ClientInv, WriterInv
<1>3. Append(sent[s], received[s][Len(received[s])]) = received[s]
  BY <1>2, OneMore
<1>4. sent' \in [Subscriptions -> Seq(1..MaxEvents)] /\ sent'[s] = received[s]
  BY <1>1, <1>2, <1>3
<1>5. HandlerInv(s)' /\ WriterInv(s)'
  BY <1>1, <1>4 DEF ClientInv, HandlerInv, WriterInv
<1> QED
  BY <1>1, <1>4, <1>5, OthersKeep

\* It ends: context, connection, writeDone.
LEMMA WriterEnds ==
  ASSUME IInv, NEW s \in Subscriptions, SelectEnd(s) \/ WriteFails(s) \/ Exit(s) \/ Signal(s)
  PROVE  IInv'
<1> USE DEF IInv, TransportTypes
<1>1. stage' = stage /\ received' = received /\ handler' = handler /\ sent' = sent
  BY DEF SelectEnd, WriteFails, Exit, Signal, hubVars
<1>2. /\ \A q \in Subscriptions \ {s} : writer'[q] = writer[q] /\ connection'[q] = connection[q]
      /\ cancelled \subseteq cancelled' /\ cancelled' \in SUBSET Subscriptions
      /\ connection' \in [Subscriptions -> {"none", "open", "closed"}]
      /\ writer' \in [Subscriptions -> {"none", "select", "write", "exit", "signal", "done"}]
  BY DEF SelectEnd, WriteFails, Exit, Signal, WriterTo, CloseConnection, CancelContext
<1>3. HandlerInv(s)' /\ WriterInv(s)'
  BY <1>1 DEF SelectEnd, WriteFails, Exit, Signal, WriterTo, CloseConnection, CancelContext,
              ClientInv, HandlerInv, WriterInv
<1> QED
  BY <1>1, <1>2, <1>3, OthersKeep

\* Every step keeps it, over a hub in order.
LEMMA StepKeepsIInv == IInv /\ Feed!IInv /\ [Next]_vars => IInv'
<1> SUFFICES ASSUME IInv, Feed!TypeOK, [Next]_vars PROVE IInv'
  BY DEF Feed!IInv
<1>1. CASE UNCHANGED vars
  BY <1>1, AllKeep DEF vars, hubVars
<1> QED
  BY <1>1, PublishSteps, SubscribeStep, UpgradeStep, HandlerSteps, CloseSteps, SelectEventStep,
     WriteStep, WriterEnds
  DEF Next, Handle, Send

\* The invariants of the transport and of the hub.
THEOREM Invariance == Spec => [](IInv /\ Feed!IInv)
  BY InitIInv, StepKeepsIInv, FeedInvariance, PTL DEF Spec

----------------------------------------------------------------------------
\* Every variable keeps its type, those of the hub included.
THEOREM TypeCorrect == Spec => []TypeOK
<1>1. Feed!TypeOK => Hub!TypeOK
  BY DEF Feed!TypeOK, Hub!TypeOK
<1>2. IInv /\ Feed!IInv => TypeOK
  BY <1>1 DEF IInv, Feed!IInv, TransportTypes, TypeOK
<1> QED
  BY <1>2, Invariance, PTL

(***************************************************************************)
(* The channel is closed after the writer is done, the writer is done      *)
(* after context and connection are, and the handler is done after all.    *)
(***************************************************************************)
THEOREM ClientsEndClean == Spec => []EndsClean
<1>1. IInv /\ Feed!IInv => EndsClean
  <2> SUFFICES ASSUME IInv, Feed!IInv, NEW s \in Subscriptions
               PROVE  /\ stage[s] \in {"closing", "closed"} => writer[s] \in {"none", "done"}
                      /\ writer[s] = "done" => connection[s] = "closed" /\ s \in cancelled
                      /\ handler[s] = "done" =>
                           /\ writer[s] \in {"none", "done"} /\ connection[s] # "open"
                           /\ s \notin subscribers
    BY DEF EndsClean
  <2>1. HandlerInv(s) /\ WriterInv(s)
    BY DEF IInv, ClientInv
  <2>2. handler[s] \in {"idle", "upgrade", "read", "close", "wait", "deregister",
                        "closeChannel", "done"}
    BY DEF IInv, TransportTypes
  <2>3. stage[s] \in {"closing", "closed"} => handler[s] \in {"closeChannel", "done"}
    BY <2>1, <2>2 DEF HandlerInv
  <2>4. handler[s] = "done" => s \notin subscribers
    BY <2>1 DEF HandlerInv, Feed!IInv, Feed!NoSendAfterClose
  <2> QED
    BY <2>1, <2>3, <2>4 DEF HandlerInv, WriterInv
<1> QED
  BY <1>1, Invariance, PTL

----------------------------------------------------------------------------
\* The context of a client is not cancelled before it has one, and is when the handler
\* has left its loop; a connection closed in that loop was closed by a leaving writer.
EndInv ==
  \A s \in Subscriptions :
    /\ handler[s] \in {"idle", "upgrade"} => s \notin cancelled
    /\ handler[s] \in {"close", "wait"} => s \in cancelled
    /\ handler[s] = "read" /\ connection[s] = "closed" => writer[s] \in {"signal", "done"}

\* Neither a fresh client nor any step of the two goroutines breaks that.
LEMMA EndInvariance == Spec => []EndInv
<1>1. Init => EndInv
  BY DEF Init, EndInv
<1>2. IInv /\ EndInv /\ [Next]_vars => EndInv'
  <2> SUFFICES ASSUME IInv, EndInv, [Next]_vars PROVE EndInv'
    OBVIOUS
  <2> USE DEF EndInv, IInv, TransportTypes, ClientInv, HandlerInv, WriterInv,
              HandlerTo, WriterTo, CloseConnection, CancelContext
  <2>1. CASE UNCHANGED vars
    BY <2>1 DEF vars, connectionVars
  <2>2. CASE PublishBegin \/ PublishEnd \/ \E s \in Subscriptions : Offer(s)
    BY <2>2 DEF PublishBegin, PublishEnd, Offer, connectionVars
  <2>3. ASSUME NEW s \in Subscriptions, Subscribe(s) \/ Handle(s)
        PROVE  EndInv'
    <3>1. CASE Subscribe(s)
      BY <3>1 DEF Subscribe
    <3>2. CASE UpgradeFails(s) \/ Upgrade(s)
      BY <3>2 DEF UpgradeFails, Upgrade
    <3>3. CASE ReadFails(s)
      BY <3>3 DEF ReadFails
    <3>4. CASE Close(s)
      BY <3>4 DEF Close
    <3>5. CASE Join(s) \/ Deregister(s) \/ CloseChannel(s)
      BY <3>5 DEF Join, Deregister, CloseChannel
    <3> QED
      BY <2>3, <3>1, <3>2, <3>3, <3>4, <3>5 DEF Handle
  <2>4. ASSUME NEW s \in Subscriptions, Send(s)
        PROVE  EndInv'
    <3>1. CASE SelectEnd(s)
      BY <3>1 DEF SelectEnd
    <3>2. CASE SelectEvent(s) \/ Write(s)
      BY <3>2 DEF SelectEvent, Write
    <3>3. CASE WriteFails(s)
      BY <3>3 DEF WriteFails
    <3>4. CASE Exit(s)
      BY <3>4 DEF Exit
    <3>5. CASE Signal(s)
      BY <3>5 DEF Signal
    <3> QED
      BY <2>4, <3>1, <3>2, <3>3, <3>4, <3>5 DEF Send
  <2> QED
    BY <2>1, <2>2, <2>3, <2>4 DEF Next
<1> QED
  BY <1>1, <1>2, Invariance, PTL DEF Spec

\* Where the goroutines of a client wait: for the network, for each other, for the hub.
HandlerWaits(s) ==
  \/ handler[s] = "read" /\ connection[s] # "closed"
  \/ handler[s] = "wait" /\ writer[s] # "done"
  \/ handler[s] = "deregister" /\ publishing # None
WriterWaits(s) ==
  \/ writer[s] \in {"none", "done"}
  \/ writer[s] = "select" /\ channel[s] = <<>> /\ s \notin cancelled

\* Ended, but not over: one of its goroutines goes on, or only the hub is waited for.
GoesOn ==
  \A s \in Subscriptions :
    (s \in cancelled \/ connection[s] = "closed") /\ handler[s] # "done" =>
      \/ ~HandlerWaits(s) /\ handler[s] # "idle"
      \/ ~WriterWaits(s)
      \/ handler[s] = "deregister" /\ publishing # None

(***************************************************************************)
(* The two goroutines of a client that is to end never wait for each other *)
(* in a ring.  The handler that waits for writeDone has cancelled the      *)
(* context, which the writer's select sees, and a handler that still reads *)
(* finds the connection closed by the time the writer is over; after that  *)
(* Hub.mu is all it can wait for.                                          *)
(***************************************************************************)
THEOREM NeverWaitInARing == Spec => []GoesOn
<1>1. IInv /\ EndInv => GoesOn
  <2> SUFFICES ASSUME IInv, EndInv, NEW s \in Subscriptions,
                      s \in cancelled \/ connection[s] = "closed", handler[s] # "done",
                      HandlerWaits(s) \/ handler[s] = "idle",
                      ~(handler[s] = "deregister" /\ publishing # None)
               PROVE  ~WriterWaits(s)
    BY DEF GoesOn
  <2>1. HandlerInv(s) /\ WriterInv(s)
    BY DEF IInv, ClientInv
  <2>2. handler[s] # "idle"
    BY <2>1 DEF EndInv, HandlerInv, WriterInv
  <2>3. CASE handler[s] = "read"
    BY <2>1, <2>3 DEF HandlerInv, WriterInv, HandlerWaits, WriterWaits
  <2>4. CASE handler[s] = "wait"
    BY <2>1, <2>4 DEF HandlerInv, EndInv, HandlerWaits, WriterWaits
  <2> QED
    BY <2>2, <2>3, <2>4 DEF HandlerWaits
<1> QED
  BY <1>1, Invariance, EndInvariance, PTL

----------------------------------------------------------------------------
(***************************************************************************)
(* The event in the writer's hand comes after the one it sent last: the    *)
(* next one if no event was dropped, a later one in any case.              *)
(***************************************************************************)
LEMMA NextInHand ==
  ASSUME IInv, Feed!IInv, NEW s \in Subscriptions, writer[s] = "write", connection[s] = "open",
         sent[s] # <<>>
  PROVE  LET n == received[s][Len(received[s])]  previous == sent[s][Len(sent[s])] IN
         IF s \in missed THEN n > previous ELSE n = previous + 1
<1>1. PICK k \in Nat \ {0} : k = Len(sent[s]) /\ k + 1 = Len(received[s])
  <2>1. sent[s] \in Seq(1..MaxEvents) /\ Len(received[s]) = Len(sent[s]) + 1
    BY DEF IInv, TransportTypes, ClientInv, WriterInv
  <2> QED
    BY <2>1
<1>2. k \in 1..Len(sent[s]) /\ k \in 1..Len(received[s]) /\ k + 1 \in 1..Len(received[s]) /\ k < k + 1
  BY <1>1
<1>3. sent[s][Len(sent[s])] = received[s][k]
  BY <1>1, <1>2 DEF IInv, ClientInv, WriterInv
<1>4. stage[s] = "open"
  BY DEF IInv, ClientInv, HandlerInv, WriterInv, TransportTypes
<1>5. Feed!Ascending(s) /\ (s \notin missed => Feed!Whole(s))
  BY <1>4 DEF Feed!IInv, Feed!GivenInv
<1>6. received[s][k] < received[s][k + 1]
  BY <1>2, <1>5 DEF Feed!Ascending
<1>7. received[s][k] \in Nat /\ received[s][k + 1] \in Nat
  <2>1. received[s] \in Seq(1..MaxEvents)
    BY DEF Feed!IInv, Feed!TypeOK
  <2> QED
    BY <1>2, <2>1, ElementOfSeq, WebSocketAssumption
<1>8. ASSUME s \notin missed PROVE received[s][k + 1] = received[s][k] + 1
  <2>1. /\ received[s][k] = since[s] + k - 1
        /\ received[s][k + 1] = since[s] + (k + 1) - 1
    BY <1>2, <1>5, <1>8 DEF Feed!Whole
  <2>2. since[s] \in Nat
    BY WebSocketAssumption DEF Feed!IInv, Feed!TypeOK
  <2> QED
    BY <2>1, <2>2
<1> QED
  BY <1>1, <1>3, <1>6, <1>7, <1>8

\* Nothing has been sent, dropped or closed.
LEMMA InitPromise == Init => Promise!Init
  BY DEF Init, Hub!Init, Promise!Init

\* Every step sends one event, drops one, ends a stream, or is none of a client's business.
LEMMA StepOfPromise == IInv /\ Feed!IInv /\ [Next]_vars => [Promise!Next]_(Promise!vars)
<1> SUFFICES ASSUME IInv, Feed!IInv, [Next]_vars
             PROVE  Promise!Next \/ UNCHANGED Promise!vars
  OBVIOUS
<1>1. ASSUME sent' = sent, missed' = missed, connection' = connection
      PROVE  UNCHANGED Promise!vars
  BY <1>1 DEF Promise!vars
<1>2. ASSUME NEW s \in Subscriptions, sent' = sent, connection' = connection,
             missed' = missed \cup {s}
      PROVE  Promise!Next
  BY <1>2 DEF Promise!Next, Promise!Lose
<1>3. ASSUME NEW s \in Subscriptions, sent' = sent, missed' = missed,
             connection' = [connection EXCEPT ![s] = "closed"]
      PROVE  Promise!Next
  BY <1>3 DEF Promise!Next, Promise!End, IInv, TransportTypes
<1>4. ASSUME NEW s \in Subscriptions, Offer(s) \/ Subscribe(s)
      PROVE  Promise!Next \/ UNCHANGED Promise!vars
  <2>1. /\ sent' = sent /\ connection' = connection
        /\ missed' = missed \/ missed' = missed \cup {s}
    BY <1>4 DEF Offer, Subscribe, Hub!Offer, Hub!Subscribe, connectionVars
  <2> QED
    BY <2>1, <1>1, <1>2
<1>5. ASSUME NEW s \in Subscriptions, Close(s) \/ Exit(s) PROVE Promise!Next
  BY <1>5, <1>3 DEF Close, Exit, CloseConnection, hubVars
<1>6. ASSUME NEW s \in Subscriptions, Upgrade(s) PROVE UNCHANGED Promise!vars
  <2>1. connection[s] = "none"
    BY <1>6 DEF Upgrade, IInv, ClientInv, HandlerInv, WriterInv
  <2> QED
    BY <1>6, <2>1 DEF Upgrade, hubVars, Promise!vars, IInv, TransportTypes
<1>7. ASSUME NEW s \in Subscriptions, Write(s) PROVE Promise!Next
  <2> DEFINE n == received[s][Len(received[s])]
  <2>1. /\ writer[s] = "write" /\ connection[s] = "open"
        /\ sent' = [sent EXCEPT ![s] = Append(@, n)]
        /\ missed' = missed /\ connection' = connection
    BY <1>7 DEF Write, hubVars
  <2>2. n \in 1..MaxEvents
    <3>1. /\ received[s] \in Seq(1..MaxEvents) /\ sent[s] \in Seq(1..MaxEvents)
          /\ Len(received[s]) = Len(sent[s]) + 1
          /\ \A i \in 1..Len(sent[s]) : sent[s][i] = received[s][i]
      BY <2>1 DEF IInv, TransportTypes, ClientInv, WriterInv, Feed!IInv, Feed!TypeOK
    <3> QED
      BY <3>1, OneMore
  <2>3. sent[s] # <<>> =>
          IF s \in missed THEN n > sent[s][Len(sent[s])] ELSE n = sent[s][Len(sent[s])] + 1
    BY <2>1, NextInHand
  <2> HIDE DEF n
  <2>4. Promise!Send(s, n)
    BY <2>1, <2>3 DEF Promise!Send
  <2> QED
    BY <2>2, <2>4 DEF Promise!Next
<1>8. ASSUME NEW s \in Subscriptions,
             \/ UpgradeFails(s) \/ ReadFails(s) \/ Join(s) \/ Deregister(s) \/ CloseChannel(s)
             \/ SelectEnd(s) \/ SelectEvent(s) \/ WriteFails(s) \/ Signal(s)
      PROVE  UNCHANGED Promise!vars
  BY <1>8, <1>1
  DEF UpgradeFails, ReadFails, Join, Deregister, CloseChannel, SelectEnd, SelectEvent,
      WriteFails, Signal, Hub!Deregister, Hub!CloseChannel, Hub!Receive, hubVars
<1>9. CASE PublishBegin \/ PublishEnd
  BY <1>9, <1>1 DEF PublishBegin, PublishEnd, Hub!PublishBegin, Hub!PublishEnd, connectionVars
<1>10. CASE UNCHANGED vars
  BY <1>10, <1>1 DEF vars, hubVars, connectionVars
<1> QED
  BY <1>4, <1>5, <1>6, <1>7, <1>8, <1>9, <1>10 DEF Next, Handle, Send

(***************************************************************************)
(* What the two goroutines write, over the hub, is what Stream promises: a *)
(* sequence without a gap unless the channel was full, and nothing after   *)
(* the connection is closed.                                               *)
(***************************************************************************)
THEOREM TransportImplementsStream == Spec => ImplementsStream
  BY InitPromise, StepOfPromise, Invariance, PTL DEF Spec, ImplementsStream, Promise!Spec
==============================================================================
