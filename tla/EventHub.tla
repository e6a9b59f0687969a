------------------------------- MODULE EventHub -------------------------------
(***************************************************************************)
(* Hub and Subscription of internal/event/event.go: a bounded history per  *)
(* execution, and a bounded channel per subscription.                      *)
(*                                                                         *)
(* Hub.mu is held by Publish while it goes through the subscriptions of    *)
(* the execution, one at a time and in any order; consumers receive from   *)
(* their channels meanwhile.  Subscribe and the first half of Close need   *)
(* Hub.mu too; the second half of Close, which closes the channel, only    *)
(* needs the subscription's own mutex.                                     *)
(*                                                                         *)
(* The events of an execution are published one after the other, numbered  *)
(* from 1 (ExecutionService!LogInOrder): an event is its number here.      *)
(***************************************************************************)
EXTENDS Naturals, Sequences, FiniteSets

CONSTANTS
  Executions,     \* execution IDs
  Subscriptions,  \* Subscription values, each opened once
  None,           \* no execution
  BufferSize,     \* Hub.bufferSize: capacity of a subscription's channel
  HistorySize,    \* Hub.historySize
  MaxRetained,    \* Hub.maxRetainedExecutions
  MaxEvents       \* bound on the events of an execution

ASSUME HubAssumption ==
  /\ IsFiniteSet(Executions) /\ IsFiniteSet(Subscriptions)
  /\ None \notin Executions
  /\ BufferSize \in Nat \ {0} /\ HistorySize \in Nat \ {0} /\ MaxRetained \in Nat \ {0}
  /\ MaxEvents \in Nat

VARIABLES
  last,         \* execution -> number of its latest event
  history,      \* Hub.history: execution -> events, empty if it has no entry
  order,        \* Hub.historyOrder
  subscribers,  \* the subscriptions in Hub.subscribers
  topic,        \* subscription -> its executionID
  stage,        \* subscription -> "new", "open", "closing" or "closed"
  channel,      \* subscription -> contents of its channel
  publishing,   \* the execution whose Publish holds Hub.mu, or None
  pending,      \* the subscriptions its loop has yet to visit
  received,     \* ghost: subscription -> what its consumer has received
  since,        \* ghost: subscription -> the first event it can expect
  missed        \* ghost: subscriptions for which an event was dropped

vars == <<last, history, order, subscribers, topic, stage, channel, publishing,
          pending, received, since, missed>>

\* Every variable has its type; channels and histories keep their capacity.
TypeOK ==
  /\ last \in [Executions -> 0..MaxEvents]
  /\ history \in [Executions -> Seq(1..MaxEvents)]
  /\ order \in Seq(Executions)
  /\ subscribers \in SUBSET Subscriptions
  /\ topic \in [Subscriptions -> Executions \cup {None}]
  /\ stage \in [Subscriptions -> {"new", "open", "closing", "closed"}]
  /\ channel \in [Subscriptions -> Seq(1..MaxEvents)]
  /\ publishing \in Executions \cup {None}
  /\ pending \in SUBSET Subscriptions
  /\ received \in [Subscriptions -> Seq(1..MaxEvents)]
  /\ since \in [Subscriptions -> 0..(MaxEvents + 1)]
  /\ missed \in SUBSET Subscriptions
  /\ \A e \in Executions : Len(history[e]) <= HistorySize
  /\ \A s \in Subscriptions : Len(channel[s]) <= BufferSize

Init ==
  /\ last = [e \in Executions |-> 0]
  /\ history = [e \in Executions |-> <<>>]
  /\ order = <<>>
  /\ subscribers = {}
  /\ topic = [s \in Subscriptions |-> None]
  /\ stage = [s \in Subscriptions |-> "new"]
  /\ channel = [s \in Subscriptions |-> <<>>]
  /\ publishing = None /\ pending = {}
  /\ received = [s \in Subscriptions |-> <<>>]
  /\ since = [s \in Subscriptions |-> 0]
  /\ missed = {}

----------------------------------------------------------------------------
\* The newest n elements of a sequence, or all of it; the oldest n.
Newest(seq, n) == IF Len(seq) <= n THEN seq ELSE SubSeq(seq, Len(seq) - n + 1, Len(seq))
Oldest(seq, n) == IF Len(seq) <= n THEN seq ELSE SubSeq(seq, 1, n)

\* A bug that takes the evicted execution off the queue only.
RetainLeaks(e, evt) ==
  LET isNew == history[e] = <<>>
      full  == isNew /\ Len(order) >= MaxRetained IN
  /\ order' = IF isNew THEN Append(IF full THEN Tail(order) ELSE order, e) ELSE order
  /\ history' = [history EXCEPT ![e] = Newest(Append(@, evt), HistorySize)]

\* retain: a new execution takes the place of the one retained first, active or not.
Retain(e, evt) ==
  LET isNew == history[e] = <<>>
      full  == isNew /\ Len(order) >= MaxRetained
      kept  == IF full THEN [history EXCEPT ![Head(order)] = <<>>] ELSE history IN
  /\ order' = IF isNew THEN Append(IF full THEN Tail(order) ELSE order, e) ELSE order
  /\ history' = [kept EXCEPT ![e] = Newest(Append(@, evt), HistorySize)]

\* Publish takes Hub.mu and retains the event.
PublishBegin(e) ==
  /\ publishing = None
  /\ last[e] < MaxEvents
  /\ last' = [last EXCEPT ![e] = @ + 1]
  /\ Retain(e, last[e] + 1)
  /\ publishing' = e
  /\ pending' = {s \in subscribers : topic[s] = e}
  /\ UNCHANGED <<subscribers, topic, stage, channel, received, since, missed>>

\* A send that waits for room.
OfferBlocking(s) ==
  /\ s \in pending
  /\ Len(channel[s]) < BufferSize
  /\ channel' = [channel EXCEPT ![s] = Append(@, last[publishing])]
  /\ pending' = pending \ {s}
  /\ UNCHANGED <<last, history, order, subscribers, topic, stage, publishing,
                 received, since, missed>>

\* One turn of its loop: a send that does not block; the newest event is dropped.
Offer(s) ==
  /\ s \in pending
  /\ pending' = pending \ {s}
  /\ IF stage[s] # "closed" /\ Len(channel[s]) < BufferSize
       THEN /\ channel' = [channel EXCEPT ![s] = Append(@, last[publishing])]
            /\ UNCHANGED missed
       ELSE /\ missed' = missed \cup {s}
            /\ UNCHANGED channel
  /\ UNCHANGED <<last, history, order, subscribers, topic, stage, publishing,
                 received, since>>

\* Publish returns and unlocks Hub.mu.
PublishEnd ==
  /\ publishing # None /\ pending = {}
  /\ publishing' = None
  /\ UNCHANGED <<last, history, order, subscribers, topic, stage, channel,
                 pending, received, since, missed>>

----------------------------------------------------------------------------
\* Bugs: no lock, so a Publish in progress finds the subscription; no replay of
\* the newest event.
SubscribeUnlocked(s, e) ==
  /\ stage[s] = "new"
  /\ stage' = [stage EXCEPT ![s] = "open"]
  /\ topic' = [topic EXCEPT ![s] = e]
  /\ channel' = [channel EXCEPT ![s] = Oldest(history[e], BufferSize)]
  /\ subscribers' = subscribers \cup {s}
  /\ pending' = IF publishing = e THEN pending \cup {s} ELSE pending
  /\ since' = [since EXCEPT ![s] = last[e] - Len(history[e]) + 1]
  /\ missed' = IF Len(history[e]) > BufferSize THEN missed \cup {s} ELSE missed
  /\ UNCHANGED <<last, history, order, publishing, received>>
SubscribeLate(s, e) ==
  /\ stage[s] = "new" /\ publishing = None
  /\ stage' = [stage EXCEPT ![s] = "open"]
  /\ topic' = [topic EXCEPT ![s] = e]
  /\ channel' = [channel EXCEPT ![s] = Oldest(history[e], Len(history[e]) - 1)]
  /\ subscribers' = subscribers \cup {s}
  /\ since' = [since EXCEPT ![s] = last[e] - Len(history[e]) + 1]
  /\ missed' = IF Len(history[e]) > BufferSize THEN missed \cup {s} ELSE missed
  /\ UNCHANGED <<last, history, order, publishing, pending, received>>

\* Subscribe: the replay, until the channel is full, and the registration.
Subscribe(s, e) ==
  /\ stage[s] = "new" /\ publishing = None
  /\ stage' = [stage EXCEPT ![s] = "open"]
  /\ topic' = [topic EXCEPT ![s] = e]
  /\ channel' = [channel EXCEPT ![s] = Oldest(history[e], BufferSize)]
  /\ subscribers' = subscribers \cup {s}
  /\ since' = [since EXCEPT ![s] = last[e] - Len(history[e]) + 1]
  /\ missed' = IF Len(history[e]) > BufferSize THEN missed \cup {s} ELSE missed
  /\ UNCHANGED <<last, history, order, publishing, pending, received>>

\* The consumer receives; a closed channel is drained first.
Receive(s) ==
  /\ channel[s] # <<>>
  /\ received' = [received EXCEPT ![s] = Append(@, Head(channel[s]))]
  /\ channel' = [channel EXCEPT ![s] = Tail(@)]
  /\ UNCHANGED <<last, history, order, subscribers, topic, stage, publishing,
                 pending, since, missed>>

\* A bug that closes the channel without waiting for Hub.mu.
DeregisterUnlocked(s) ==
  /\ stage[s] = "open"
  /\ stage' = [stage EXCEPT ![s] = "closing"]
  /\ subscribers' = subscribers \ {s}
  /\ UNCHANGED <<last, history, order, topic, channel, publishing, pending,
                 received, since, missed>>

\* Close under Hub.mu.
Deregister(s) ==
  /\ stage[s] = "open" /\ publishing = None
  /\ stage' = [stage EXCEPT ![s] = "closing"]
  /\ subscribers' = subscribers \ {s}
  /\ UNCHANGED <<last, history, order, topic, channel, publishing, pending,
                 received, since, missed>>

\* Close under the subscription's mutex.
CloseChannel(s) ==
  /\ stage[s] = "closing"
  /\ stage' = [stage EXCEPT ![s] = "closed"]
  /\ UNCHANGED <<last, history, order, subscribers, topic, channel, publishing,
                 pending, received, since, missed>>

----------------------------------------------------------------------------
Next ==
  \/ \E e \in Executions : PublishBegin(e)
  \/ PublishEnd
  \/ \E s \in Subscriptions :
       \/ Offer(s) \/ Receive(s) \/ Deregister(s) \/ CloseChannel(s)
       \/ \E e \in Executions : Subscribe(s, e)

Spec == Init /\ [][Next]_vars

----------------------------------------------------------------------------
Given(s) == received[s] \o channel[s]
IsConsecutive(seq) == \A i \in 1..(Len(seq) - 1) : seq[i + 1] = seq[i] + 1

(***************************************************************************)
(* A subscription is given each event at most once and in order, across    *)
(* the boundary between the replay and the live events.                    *)
(***************************************************************************)
InOrderOnce ==
  \A s \in Subscriptions : \A i \in 1..(Len(Given(s)) - 1) : Given(s)[i] < Given(s)[i + 1]

(***************************************************************************)
(* An open subscription whose channel never was full has been given every  *)
(* event from the oldest retained when it subscribed to the latest one: no *)
(* event falls between replay and registration, or with an eviction.       *)
(***************************************************************************)
NothingMissed ==
  \A s \in Subscriptions :
    stage[s] = "open" /\ s \notin missed /\ s \notin pending =>
      /\ Len(Given(s)) = last[topic[s]] - since[s] + 1
      /\ Given(s) # <<>> => Given(s)[1] = since[s]
      /\ IsConsecutive(Given(s))

(***************************************************************************)
(* Publish never meets a subscription on its way to be closed, so its      *)
(* check of Subscription.closed is never what keeps it from sending on a   *)
(* closed channel: the order of the two halves of Close does.              *)
(***************************************************************************)
NoSendAfterClose ==
  /\ \A s \in subscribers : stage[s] = "open"
  /\ \A s \in pending : stage[s] = "open" /\ topic[s] = publishing

(***************************************************************************)
(* historyOrder lists exactly the executions that have a history, each one *)
(* once, and no more than allowed; a history is a run of events up to the  *)
(* latest, even if the execution was evicted between two of its events.    *)
(***************************************************************************)
HistoryConsistent ==
  /\ Len(order) <= MaxRetained
  /\ \A i, j \in 1..Len(order) : order[i] = order[j] => i = j
  /\ {order[i] : i \in 1..Len(order)} = {e \in Executions : history[e] # <<>>}
  /\ \A e \in Executions : history[e] # <<>> =>
       history[e][Len(history[e])] = last[e] /\ IsConsecutive(history[e])

\* However slow its consumers, Publish returns: an execution never waits for them.
PublishReturns == publishing # None ~> publishing = None
==============================================================================
