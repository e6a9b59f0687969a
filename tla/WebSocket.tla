------------------------------ MODULE WebSocket ------------------------------
(***************************************************************************)
(* handleWebSocket of internal/server/websocket.go: per client a handler   *)
(* goroutine, which reads until the connection fails, and a writer         *)
(* goroutine, which sends the events of a subscription.  They end each     *)
(* other through a context, the connection and the channel writeDone.      *)
(*                                                                         *)
(* A client is named by the subscription made for it.  Clients come, go    *)
(* and stall as they like; executions publish meanwhile.                   *)
(***************************************************************************)
EXTENDS Naturals, Sequences, FiniteSets

CONSTANTS
  Executions, Subscriptions, None, BufferSize, HistorySize, MaxRetained, MaxEvents
                \* see EventHub

\* What EventHub assumes of its constants.
ASSUME WebSocketAssumption ==
  /\ IsFiniteSet(Executions) /\ IsFiniteSet(Subscriptions)
  /\ None \notin Executions
  /\ BufferSize \in Nat \ {0} /\ HistorySize \in Nat \ {0} /\ MaxRetained \in Nat \ {0}
  /\ MaxEvents \in Nat

VARIABLES
  last, history, order, subscribers, topic, stage, channel, publishing, pending,
  received, since, missed,  \* EventHub
  handler,      \* client -> next statement of the handler, or "idle" or "done"
  writer,       \* client -> next statement of the writer, or "none" or "done"
  cancelled,    \* the clients whose ctx is cancelled
  connection,   \* client -> "none", "open" or "closed"
  sent          \* client -> the events written to its connection

hubVars == <<last, history, order, subscribers, topic, stage, channel, publishing,
             pending, received, since, missed>>
connectionVars == <<handler, writer, cancelled, connection, sent>>
vars == <<hubVars, connectionVars>>

Hub == INSTANCE EventHub

\* Every variable has its type, in the hub and in the transport.
TypeOK ==
  /\ Hub!TypeOK
  /\ handler \in [Subscriptions ->
       {"idle", "upgrade", "read", "close", "wait", "deregister", "closeChannel", "done"}]
  /\ writer \in [Subscriptions -> {"none", "select", "write", "exit", "signal", "done"}]
  /\ cancelled \in SUBSET Subscriptions
  /\ connection \in [Subscriptions -> {"none", "open", "closed"}]
  /\ sent \in [Subscriptions -> Seq(1..MaxEvents)]

Init ==
  /\ Hub!Init
  /\ handler = [s \in Subscriptions |-> "idle"]
  /\ writer = [s \in Subscriptions |-> "none"]
  /\ cancelled = {}
  /\ connection = [s \in Subscriptions |-> "none"]
  /\ sent = [s \in Subscriptions |-> <<>>]

----------------------------------------------------------------------------
HandlerTo(s, next) == handler' = [handler EXCEPT ![s] = next]
WriterTo(s, next)  == writer' = [writer EXCEPT ![s] = next]
CloseConnection(s) == connection' = [connection EXCEPT ![s] = "closed"]
CancelContext(s)   == cancelled' = cancelled \cup {s}

\* The handler subscribes first, so that no event falls between its replay and
\* the upgrade.
Subscribe(s) ==
  /\ handler[s] = "idle"
  /\ \E e \in Executions : Hub!Subscribe(s, e)
  /\ HandlerTo(s, "upgrade")
  /\ UNCHANGED <<writer, cancelled, connection, sent>>

\* Upgrade fails: only the subscription is there to be closed.
UpgradeFails(s) ==
  /\ handler[s] = "upgrade"
  /\ HandlerTo(s, "deregister")
  /\ UNCHANGED <<hubVars, writer, cancelled, connection, sent>>

\* Upgrade succeeds, the context is made and the writer spawned.
Upgrade(s) ==
  /\ handler[s] = "upgrade"
  /\ HandlerTo(s, "read")
  /\ WriterTo(s, "select")
  /\ connection' = [connection EXCEPT ![s] = "open"]
  /\ UNCHANGED <<hubVars, cancelled, sent>>

\* ReadMessage fails: the client left or broke the protocol, or the writer closed
\* the connection.  The messages it returns are discarded.
ReadFails(s) ==
  /\ handler[s] = "read"
  /\ CancelContext(s)
  /\ HandlerTo(s, "close")
  /\ UNCHANGED <<hubVars, writer, connection, sent>>

Close(s) ==
  /\ handler[s] = "close"
  /\ CloseConnection(s)
  /\ HandlerTo(s, "wait")
  /\ UNCHANGED <<hubVars, writer, cancelled, sent>>

\* A bug that returns without waiting for the writer.
JoinEarly(s) ==
  /\ handler[s] = "wait"
  /\ HandlerTo(s, "deregister")
  /\ UNCHANGED <<hubVars, writer, cancelled, connection, sent>>

\* The handler receives from writeDone and returns.
Join(s) ==
  /\ handler[s] = "wait" /\ writer[s] = "done"
  /\ HandlerTo(s, "deregister")
  /\ UNCHANGED <<hubVars, writer, cancelled, connection, sent>>

\* The deferred calls: cancel and connection.Close find nothing left to do, and
\* subscription.Close has its two halves.
Deregister(s) ==
  /\ handler[s] = "deregister"
  /\ Hub!Deregister(s)
  /\ HandlerTo(s, "closeChannel")
  /\ UNCHANGED <<writer, cancelled, connection, sent>>

CloseChannel(s) ==
  /\ handler[s] = "closeChannel"
  /\ Hub!CloseChannel(s)
  /\ HandlerTo(s, "done")
  /\ UNCHANGED <<writer, cancelled, connection, sent>>

----------------------------------------------------------------------------
\* The writer's select takes either case when both are ready; a closed channel
\* is received from, with ok false, once it is drained.
Drained == {s \in Subscriptions : stage[s] = "closed" /\ channel[s] = <<>>}
SelectEnd(s) ==
  /\ writer[s] = "select" /\ s \in cancelled \cup Drained
  /\ CancelContext(s)
  /\ WriterTo(s, "exit")
  /\ UNCHANGED <<hubVars, handler, connection, sent>>

SelectEvent(s) ==
  /\ writer[s] = "select"
  /\ Hub!Receive(s)
  /\ WriterTo(s, "write")
  /\ UNCHANGED <<handler, cancelled, connection, sent>>

\* WriteMessage returns nil; the client may have left without the kernel knowing.
Write(s) ==
  /\ writer[s] = "write" /\ connection[s] = "open"
  /\ sent' = [sent EXCEPT ![s] = Append(@, received[s][Len(received[s])])]
  /\ WriterTo(s, "select")
  /\ UNCHANGED <<hubVars, handler, cancelled, connection>>

\* A bug that goes on with the next event.
WriteFailsContinuing(s) ==
  /\ writer[s] = "write"
  /\ WriterTo(s, "select")
  /\ UNCHANGED <<hubVars, handler, cancelled, connection, sent>>

\* WriteMessage fails: the connection is closed or lost, or the client was too
\* slow for the write deadline.
WriteFails(s) ==
  /\ writer[s] = "write"
  /\ CancelContext(s)
  /\ WriterTo(s, "exit")
  /\ UNCHANGED <<hubVars, handler, connection, sent>>

\* A bug that leaves the connection to the handler.
ExitOnly(s) ==
  /\ writer[s] = "exit"
  /\ WriterTo(s, "signal")
  /\ UNCHANGED <<hubVars, handler, cancelled, connection, sent>>

\* Its deferred calls, the last one first: connection.Close, close(writeDone).
Exit(s) ==
  /\ writer[s] = "exit"
  /\ CloseConnection(s)
  /\ WriterTo(s, "signal")
  /\ UNCHANGED <<hubVars, handler, cancelled, sent>>

Signal(s) ==
  /\ writer[s] = "signal"
  /\ WriterTo(s, "done")
  /\ UNCHANGED <<hubVars, handler, cancelled, connection, sent>>

----------------------------------------------------------------------------
\* An execution publishes.
PublishBegin == (\E e \in Executions : Hub!PublishBegin(e)) /\ UNCHANGED connectionVars
Offer(s)     == Hub!Offer(s) /\ UNCHANGED connectionVars
PublishEnd   == Hub!PublishEnd /\ UNCHANGED connectionVars

Handle(s) ==
  \/ UpgradeFails(s) \/ Upgrade(s) \/ ReadFails(s) \/ Close(s) \/ Join(s)
  \/ Deregister(s) \/ CloseChannel(s)

Send(s) ==
  \/ SelectEnd(s) \/ SelectEvent(s) \/ Write(s) \/ WriteFails(s)
  \/ Exit(s) \/ Signal(s)

Next ==
  \/ PublishBegin \/ PublishEnd
  \/ \E s \in Subscriptions :
       Offer(s) \/ Subscribe(s) \/ Handle(s) \/ Send(s)

Spec == Init /\ [][Next]_vars

(***************************************************************************)
(* As long as a goroutine can run, one does: with finitely many clients    *)
(* and events, that is no less than fairness to each.  WriteMessage        *)
(* returns, by its deadline; ReadMessage fails on a connection closed by   *)
(* the writer.  Nothing obliges clients to stay or to leave, or executions *)
(* to publish.                                                             *)
(***************************************************************************)
FairSpec ==
  /\ Spec
  /\ WF_vars(\/ PublishEnd
             \/ \E s \in Subscriptions :
                  \/ Offer(s) \/ Send(s)
                  \/ (handler[s] = "read" => connection[s] = "closed") /\ Handle(s))

----------------------------------------------------------------------------
(***************************************************************************)
(* The subscription outlives the writer: the channel is closed, and the    *)
(* hub told, only after the writer has signalled that it is done, so its   *)
(* branch for a closed channel is never taken.  When the handler has       *)
(* returned, both goroutines are over, the connection is closed and the    *)
(* hub has forgotten the subscription, on every path.                      *)
(***************************************************************************)
EndsClean ==
  \A s \in Subscriptions :
    /\ stage[s] \in {"closing", "closed"} => writer[s] \in {"none", "done"}
    /\ writer[s] = "done" => connection[s] = "closed" /\ s \in cancelled
    /\ handler[s] = "done" =>
         writer[s] \in {"none", "done"} /\ connection[s] # "open" /\ s \notin subscribers

(***************************************************************************)
(* The clients see what Stream promises, whatever interleaves: replay and  *)
(* live events in one sequence without a gap unless the channel was full,  *)
(* and nothing after the connection is closed.                             *)
(***************************************************************************)
Promise == INSTANCE Stream WITH
  Clients <- Subscriptions, Events <- 1..MaxEvents, lossy <- missed,
  ended <- {s \in Subscriptions : connection[s] = "closed"}
ImplementsStream == Promise!Spec

(***************************************************************************)
(* Whichever goroutine fails first, the handler returns: the other is told *)
(* through the context, the connection or writeDone, and neither waits for *)
(* ever, not even for a hub whose Publish is under way.                    *)
(***************************************************************************)
HandlerEnds ==
  \A s \in Subscriptions :
    s \in cancelled \/ connection[s] = "closed" ~> handler[s] = "done"

(***************************************************************************)
(* In the end a client that still listens has been sent every event since  *)
(* the oldest retained when it came, unless its channel was full: none is  *)
(* left in the channel or lost between the goroutines.                     *)
(***************************************************************************)
EventsArrive ==
  \A s \in Subscriptions :
    <>[](handler[s] = "read" /\ s \notin missed =>
           Len(sent[s]) = last[topic[s]] - since[s] + 1)

\* However its consumers end, Publish returns: see EventHub.
PublishReturns == Hub!PublishReturns
==============================================================================
