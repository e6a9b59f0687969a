---------------------------- MODULE EventHubProofs ----------------------------
(***************************************************************************)
(* Proofs about EventHub: the order of events, the history, and the close. *)
(***************************************************************************)
EXTENDS EventHub, SequenceTheorems, TLAPS

\* Nobody loops over subscriptions without Hub.mu, and only Publish holds it
\* between two steps, with an event in hand.
LockInv == IF publishing = None THEN pending = {} ELSE last[publishing] > 0

\* A history is a run of events up to the latest one.
RunInv ==
  \A e \in Executions :
    /\ Len(history[e]) <= last[e]
    /\ \A i \in 1..Len(history[e]) : history[e][i] = last[e] - Len(history[e]) + i

\* historyOrder lists the executions that have a history.
QueueInv ==
  /\ Len(order) <= MaxRetained
  /\ \A i, j \in 1..Len(order) : order[i] = order[j] => i = j
  /\ \A i \in 1..Len(order) : history[order[i]] # <<>>
  /\ \A e \in Executions : history[e] # <<>> => \E i \in 1..Len(order) : order[i] = e

\* A subscription that is not made yet is nowhere; the others have an execution, and
\* the open ones are registered.
FreshInv ==
  \A s \in Subscriptions :
    /\ IF stage[s] = "new"
         THEN s \notin subscribers \cup pending /\ received[s] = <<>> /\ channel[s] = <<>>
         ELSE topic[s] \in Executions
    /\ stage[s] = "open" => s \in subscribers

\* The latest event the loop of Publish has offered to a subscription.
Latest(s) == IF s \in pending THEN last[topic[s]] - 1 ELSE last[topic[s]]

\* What a consumer has received, and then what its channel holds, ascends.
Ascending(s) ==
  /\ \A i, j \in 1..Len(received[s]) : i < j => received[s][i] < received[s][j]
  /\ \A i, j \in 1..Len(channel[s]) : i < j => channel[s][i] < channel[s][j]
  /\ \A i \in 1..Len(received[s]), j \in 1..Len(channel[s]) : received[s][i] < channel[s][j]
  /\ \A i \in 1..Len(received[s]) : received[s][i] <= Latest(s)
  /\ \A i \in 1..Len(channel[s]) : channel[s][i] <= Latest(s)

\* Without a full channel it is a run of events that starts at since.
Whole(s) ==
  /\ Len(received[s]) + Len(channel[s]) = Latest(s) - since[s] + 1
  /\ \A i \in 1..Len(received[s]) : received[s][i] = since[s] + i - 1
  /\ \A i \in 1..Len(channel[s]) : channel[s][i] = since[s] + Len(received[s]) + i - 1

GivenInv ==
  \A s \in Subscriptions : stage[s] # "new" =>
    /\ Ascending(s)
    /\ stage[s] = "open" /\ s \notin missed => Whole(s)

IInv ==
  /\ TypeOK /\ LockInv /\ NoSendAfterClose
  /\ RunInv /\ QueueInv /\ FreshInv /\ GivenInv

----------------------------------------------------------------------------
\* The newest n elements of a sequence.
LEMMA NewestOf ==
  ASSUME NEW S, NEW seq \in Seq(S), NEW n \in Nat \ {0}
  PROVE  /\ Newest(seq, n) \in Seq(S)
         /\ Len(Newest(seq, n)) = IF Len(seq) <= n THEN Len(seq) ELSE n
         /\ \A i \in 1..Len(Newest(seq, n)) :
              Newest(seq, n)[i] = seq[Len(seq) - Len(Newest(seq, n)) + i]
<1>1. CASE Len(seq) <= n
  BY <1>1 DEF Newest
<1>2. CASE Len(seq) > n
  <2>1. Newest(seq, n) = SubSeq(seq, Len(seq) - n + 1, Len(seq))
    BY <1>2 DEF Newest
  <2>2. Len(seq) - n + 1 \in 1..Len(seq) /\ Len(seq) \in 1..Len(seq)
    BY <1>2
  <2>3. /\ SubSeq(seq, Len(seq) - n + 1, Len(seq)) \in Seq(S)
        /\ Len(SubSeq(seq, Len(seq) - n + 1, Len(seq))) = n
        /\ \A i \in 1..n :
             SubSeq(seq, Len(seq) - n + 1, Len(seq))[i] = seq[Len(seq) - n + i]
    BY <1>2, <2>2, SubSeqProperties
  <2> QED BY <1>2, <2>1, <2>3
<1> QED BY <1>1, <1>2

\* The oldest n elements of a sequence.
LEMMA OldestOf ==
  ASSUME NEW S, NEW seq \in Seq(S), NEW n \in Nat
  PROVE  /\ Oldest(seq, n) \in Seq(S)
         /\ Len(Oldest(seq, n)) = IF Len(seq) <= n THEN Len(seq) ELSE n
         /\ \A i \in 1..Len(Oldest(seq, n)) : Oldest(seq, n)[i] = seq[i]
<1>1. CASE Len(seq) <= n
  BY <1>1 DEF Oldest
<1>2. CASE Len(seq) > n
  <2>1. Oldest(seq, n) = SubSeq(seq, 1, n)
    BY <1>2 DEF Oldest
  <2>2. /\ SubSeq(seq, 1, n) \in Seq(S)
        /\ Len(SubSeq(seq, 1, n)) = n
        /\ \A i \in 1..n : SubSeq(seq, 1, n)[i] = seq[i]
    BY <1>2, SubSeqProperties
  <2> QED BY <1>2, <2>1, <2>2
<1> QED BY <1>1, <1>2

\* A hub as NewHub returns it.
LEMMA InitInv == Init => IInv
<1> SUFFICES ASSUME Init PROVE IInv
  OBVIOUS
<1> USE HubAssumption DEF Init
<1>1. TypeOK
  BY DEF TypeOK
<1>2. LockInv /\ NoSendAfterClose /\ RunInv /\ QueueInv /\ FreshInv
  BY DEF LockInv, NoSendAfterClose, RunInv, QueueInv, FreshInv
<1>3. GivenInv
  BY DEF GivenInv
<1> QED BY <1>1, <1>2, <1>3 DEF IInv

----------------------------------------------------------------------------
\* retain keeps the history a run of events and its order consistent with it.
LEMMA RetainInv ==
  ASSUME TypeOK, RunInv, QueueInv, NEW e \in Executions, last[e] < MaxEvents,
         last' = [last EXCEPT ![e] = @ + 1], Retain(e, last[e] + 1)
  PROVE  /\ order' \in Seq(Executions)
         /\ history' \in [Executions -> Seq(1..MaxEvents)]
         /\ \A f \in Executions : Len(history'[f]) <= HistorySize
         /\ RunInv' /\ QueueInv'
<1> USE HubAssumption
<1> DEFINE isNew == history[e] = <<>>
           full == isNew /\ Len(order) >= MaxRetained
           kept == IF full THEN [history EXCEPT ![Head(order)] = <<>>] ELSE history
           queue == IF full THEN Tail(order) ELSE order
           evt == last[e] + 1
           longer == Append(kept[e], evt)
<1>1. /\ order' = IF isNew THEN Append(queue, e) ELSE order
      /\ history' = [kept EXCEPT ![e] = Newest(Append(@, evt), HistorySize)]
  BY DEF Retain
<1>2. /\ last \in [Executions -> 0..MaxEvents] /\ history \in [Executions -> Seq(1..MaxEvents)]
      /\ order \in Seq(Executions) /\ evt \in 1..MaxEvents
      /\ evt = last[e] + 1
      /\ \A f \in Executions : Len(history[f]) <= HistorySize
  BY DEF TypeOK
<1>a. /\ isNew <=> history[e] = <<>>
      /\ full <=> isNew /\ Len(order) >= MaxRetained
      /\ kept = IF full THEN [history EXCEPT ![Head(order)] = <<>>] ELSE history
      /\ queue = IF full THEN Tail(order) ELSE order
      /\ longer = Append(kept[e], evt)
  OBVIOUS
<1> HIDE DEF isNew, full, kept, queue, evt, longer
<1>3. full => order # <<>> /\ Head(order) = order[1] /\ order[1] \in Executions /\ order[1] # e
  BY <1>2, <1>a DEF QueueInv
<1>4. /\ kept \in [Executions -> Seq(1..MaxEvents)]
      /\ kept[e] = history[e]
      /\ \A f \in Executions : kept[f] = IF full /\ f = order[1] THEN <<>> ELSE history[f]
  BY <1>2, <1>3, <1>a
<1>5. /\ longer \in Seq(1..MaxEvents) /\ Len(longer) = Len(history[e]) + 1
      /\ \A i \in 1..Len(history[e]) : longer[i] = history[e][i]
      /\ longer[Len(history[e]) + 1] = evt
  <2>1. history[e] \in Seq(1..MaxEvents) /\ evt \in 1..MaxEvents
    BY <1>2
  <2>2. longer = Append(history[e], evt)
    BY <1>4, <1>a
  <2>3. /\ Append(history[e], evt) \in Seq(1..MaxEvents)
        /\ Len(Append(history[e], evt)) = Len(history[e]) + 1
        /\ \A i \in 1..Len(history[e]) : Append(history[e], evt)[i] = history[e][i]
        /\ Append(history[e], evt)[Len(history[e]) + 1] = evt
    BY <2>1, AppendProperties
  <2> QED BY <2>2, <2>3
<1>6. /\ history' \in [Executions -> Seq(1..MaxEvents)]
      /\ history'[e] = Newest(longer, HistorySize)
      /\ \A f \in Executions \ {e} : history'[f] = kept[f]
  <2>1. Newest(longer, HistorySize) \in Seq(1..MaxEvents)
    BY <1>5, NewestOf
  <2>2. history' = [kept EXCEPT ![e] = Newest(longer, HistorySize)]
    BY <1>1, <1>4, <1>a
  <2> QED BY <2>1, <2>2, <1>4
<1>7. /\ Len(history'[e]) = IF Len(longer) <= HistorySize THEN Len(longer) ELSE HistorySize
      /\ \A i \in 1..Len(history'[e]) :
           history'[e][i] = longer[Len(longer) - Len(history'[e]) + i]
  <2>1. longer \in Seq(1..MaxEvents) /\ HistorySize \in Nat \ {0}
    BY <1>5
  <2>2. /\ Len(Newest(longer, HistorySize)) =
             IF Len(longer) <= HistorySize THEN Len(longer) ELSE HistorySize
        /\ \A i \in 1..Len(Newest(longer, HistorySize)) :
             Newest(longer, HistorySize)[i] =
               longer[Len(longer) - Len(Newest(longer, HistorySize)) + i]
    BY <2>1, NewestOf
  <2> QED BY <2>2, <1>6
<1>8. \A f \in Executions : Len(history'[f]) <= HistorySize
  <2> TAKE f \in Executions
  <2>1. CASE f = e
    BY <2>1, <1>5, <1>7
  <2>2. CASE f # e
    BY <2>2, <1>2, <1>4, <1>6
  <2> QED BY <2>1, <2>2
<1>9. RunInv'
  <2> SUFFICES ASSUME NEW f \in Executions
               PROVE  /\ Len(history'[f]) <= last'[f]
                      /\ \A i \in 1..Len(history'[f]) :
                           history'[f][i] = last'[f] - Len(history'[f]) + i
    BY DEF RunInv
  <2>1. CASE f = e
    <3>1. last'[e] = evt /\ Len(history[e]) <= last[e]
          /\ \A i \in 1..Len(history[e]) : history[e][i] = last[e] - Len(history[e]) + i
      BY <1>2 DEF RunInv
    <3>2. \A i \in 1..Len(longer) : longer[i] = evt - Len(longer) + i
      <4> TAKE i \in 1..Len(longer)
      <4>1. Len(history[e]) \in Nat /\ last[e] \in Nat /\ evt = last[e] + 1 /\ i \in Nat
        BY <1>2
      <4>2. i \in 1..Len(history[e]) \/ i = Len(history[e]) + 1
        BY <4>1, <1>5
      <4>3. Len(longer) = Len(history[e]) + 1
        BY <1>5
      <4>4. CASE i \in 1..Len(history[e])
        <5>1. longer[i] = history[e][i] /\ history[e][i] = last[e] - Len(history[e]) + i
          BY <4>4, <1>5, <3>1
        <5> QED BY <5>1, <4>1, <4>3
      <4>5. CASE i = Len(history[e]) + 1
        BY <4>1, <4>3, <4>5, <1>5
      <4> QED BY <4>2, <4>4, <4>5
    <3>3. Len(longer) \in Nat /\ Len(history'[e]) \in Nat /\ Len(history'[e]) <= Len(longer)
          /\ Len(longer) <= evt /\ evt \in Nat
      BY <1>2, <1>5, <1>7, <3>1
    <3>4. ASSUME NEW i \in 1..Len(history'[e])
          PROVE  history'[e][i] = evt - Len(history'[e]) + i
      <4>1. Len(longer) - Len(history'[e]) + i \in 1..Len(longer)
        BY <3>3
      <4>2. history'[e][i] = longer[Len(longer) - Len(history'[e]) + i]
        BY <1>7
      <4>3. longer[Len(longer) - Len(history'[e]) + i]
              = evt - Len(longer) + (Len(longer) - Len(history'[e]) + i)
        BY <4>1, <3>2
      <4>4. \A a, b, c, d \in Int : a - b + (b - c + d) = a - c + d
        OBVIOUS
      <4>5. i \in Int /\ evt \in Int /\ Len(longer) \in Int /\ Len(history'[e]) \in Int
        BY <3>3
      <4>6. evt - Len(longer) + (Len(longer) - Len(history'[e]) + i)
              = evt - Len(history'[e]) + i
        BY <4>4, <4>5
      <4> QED BY <4>2, <4>3, <4>6
    <3>5. Len(history'[e]) <= evt
      BY <3>3
    <3>6. f = e /\ last'[f] = evt
      BY <2>1, <3>1
    <3> QED BY <3>4, <3>5, <3>6
  <2>2. CASE f # e
    <3>1. history'[f] = kept[f] /\ last'[f] = last[f] /\ last[f] \in Nat
      BY <2>2, <1>2, <1>6
    <3>2. CASE kept[f] = <<>>
      <4>1. Len(history'[f]) = 0
        BY <3>1, <3>2
      <4> QED BY <3>1, <4>1
    <3>3. CASE kept[f] = history[f]
      BY <3>1, <3>3 DEF RunInv
    <3> QED BY <3>2, <3>3, <1>4
  <2> QED BY <2>1, <2>2
<1>10. /\ queue \in Seq(Executions) /\ Len(queue) <= MaxRetained
       /\ isNew => Len(queue) < MaxRetained
       /\ \A i, j \in 1..Len(queue) : queue[i] = queue[j] => i = j
       /\ \A i \in 1..Len(queue) : kept[queue[i]] # <<>>
       /\ \A f \in Executions : kept[f] # <<>> => \E i \in 1..Len(queue) : queue[i] = f
  <2>1. CASE full
    <3>1. /\ queue = Tail(order) /\ queue \in Seq(Executions) /\ Len(queue) = Len(order) - 1
          /\ \A i \in 1..Len(queue) : queue[i] = order[i + 1]
      BY <2>1, <1>2, <1>3, <1>a, HeadTailProperties
    <3>2. Len(order) <= MaxRetained /\ Len(order) \in Nat
      BY <1>2 DEF QueueInv
    <3>3. \A i, j \in 1..Len(queue) : queue[i] = queue[j] => i = j
      BY <3>1, <3>2 DEF QueueInv
    <3>4. \A i \in 1..Len(queue) : kept[queue[i]] # <<>>
      <4> TAKE i \in 1..Len(queue)
      <4>1. i + 1 \in 1..Len(order) /\ 1 \in 1..Len(order) /\ i + 1 # 1 /\ order[i + 1] \in Executions
        <5>1. PICK n \in Nat : n = Len(order)
          BY <3>2
        <5>2. i \in 1..(n - 1)
          BY <3>1, <5>1
        <5>3. i + 1 \in 1..n /\ 1 \in 1..n /\ i + 1 # 1
          BY <5>2
        <5>4. \A j \in 1..n : order[j] \in Executions
          BY <1>2, <5>1
        <5> QED BY <5>1, <5>3, <5>4
      <4>2. order[i + 1] # order[1] /\ history[order[i + 1]] # <<>>
        BY <4>1 DEF QueueInv
      <4> QED BY <3>1, <4>1, <4>2, <1>4
    <3>5. ASSUME NEW f \in Executions, kept[f] # <<>>
          PROVE  \E i \in 1..Len(queue) : queue[i] = f
      <4>1. history[f] # <<>> /\ f # order[1]
        BY <2>1, <3>5, <1>4
      <4>2. PICK i \in 1..Len(order) : order[i] = f
        BY <4>1 DEF QueueInv
      <4>3. i - 1 \in 1..Len(queue) /\ queue[i - 1] = f
        BY <3>1, <3>2, <4>1, <4>2
      <4> QED BY <4>3
    <3> QED BY <3>1, <3>2, <3>3, <3>4, <3>5
  <2>2. CASE ~full
    <3>1. queue = order /\ kept = history
      BY <2>2, <1>a
    <3>2. isNew => Len(order) < MaxRetained
      BY <2>2, <1>2, <1>a
    <3> QED BY <3>1, <3>2, <1>2 DEF QueueInv
  <2> QED BY <2>1, <2>2
<1>11. history'[e] # <<>>
  <2>1. Len(history'[e]) > 0
    BY <1>2, <1>5, <1>7
  <2> QED BY <2>1, <1>6
<1>12. order' \in Seq(Executions) /\ QueueInv'
  <2>1. CASE isNew
    <3>1. kept[e] = <<>>
      BY <2>1, <1>4, <1>a
    <3>2. \A i \in 1..Len(queue) : queue[i] # e /\ queue[i] \in Executions
      BY <1>10, <3>1
    <3>3. /\ order' \in Seq(Executions) /\ Len(order') = Len(queue) + 1
          /\ \A i \in 1..Len(queue) : order'[i] = queue[i]
          /\ order'[Len(queue) + 1] = e
      <4>1. order' = Append(queue, e)
        BY <2>1, <1>1
      <4> QED BY <4>1, <1>10, AppendProperties
    <3>4. \A i \in 1..Len(order') : i \in 1..Len(queue) \/ i = Len(queue) + 1
      BY <3>3, <1>10
    <3>5. \A i, j \in 1..Len(order') : order'[i] = order'[j] => i = j
      BY <3>2, <3>3, <3>4, <1>10
    <3>6. \A i \in 1..Len(order') : history'[order'[i]] # <<>>
      <4> TAKE i \in 1..Len(order')
      <4>1. CASE i \in 1..Len(queue)
        <5>1. order'[i] = queue[i] /\ queue[i] \in Executions \ {e} /\ kept[queue[i]] # <<>>
          BY <4>1, <3>2, <3>3, <1>10
        <5>2. history'[queue[i]] = kept[queue[i]]
          BY <5>1, <1>6
        <5> QED BY <5>1, <5>2
      <4>2. CASE i = Len(queue) + 1
        BY <4>2, <3>3, <1>11
      <4> QED BY <4>1, <4>2, <3>4
    <3>7. \A f \in Executions : history'[f] # <<>> => \E i \in 1..Len(order') : order'[i] = f
      <4> TAKE f \in Executions
      <4> HAVE history'[f] # <<>>
      <4>1. CASE f = e
        <5>1. Len(queue) + 1 \in 1..Len(order')
          BY <3>3, <1>10
        <5> QED BY <4>1, <5>1, <3>3
      <4>2. CASE f # e
        <5>1. PICK i \in 1..Len(queue) : queue[i] = f
          BY <4>2, <1>6, <1>10
        <5>2. i \in 1..Len(order')
          BY <3>3, <1>10
        <5> QED BY <5>1, <5>2, <3>3
      <4> QED BY <4>1, <4>2
    <3>8. Len(order') <= MaxRetained
      BY <2>1, <3>3, <1>10
    <3> QED BY <3>3, <3>5, <3>6, <3>7, <3>8 DEF QueueInv
  <2>2. CASE ~isNew
    <3>1. order' = order /\ \A f \in Executions \ {e} : history'[f] = history[f]
      <4>1. ~full
        BY <2>2, <1>a
      <4> QED BY <4>1, <2>2, <1>1, <1>4, <1>6, <1>a
    <3>2. \A i \in 1..Len(order) : order[i] \in Executions
      BY <1>2
    <3>3. \E i \in 1..Len(order) : order[i] = e
      BY <2>2, <1>a DEF QueueInv
    <3> QED BY <3>1, <3>2, <3>3, <1>2, <1>11 DEF QueueInv
  <2> QED BY <2>1, <2>2
<1> QED BY <1>6, <1>8, <1>9, <1>12

----------------------------------------------------------------------------
\* What a subscription was given are numbers.
LEMMA GivenNumbers ==
  ASSUME TypeOK, NEW s \in Subscriptions
  PROVE  /\ received[s] \in Seq(1..MaxEvents) /\ channel[s] \in Seq(1..MaxEvents)
         /\ Len(received[s]) \in Nat /\ Len(channel[s]) \in Nat
         /\ \A i \in 1..Len(received[s]) : received[s][i] \in Int
         /\ \A i \in 1..Len(channel[s]) : channel[s][i] \in Int
<1>1. received[s] \in Seq(1..MaxEvents) /\ channel[s] \in Seq(1..MaxEvents)
  BY DEF TypeOK
<1>2. \A seq \in Seq(1..MaxEvents) : Len(seq) \in Nat /\ \A i \in 1..Len(seq) : seq[i] \in 1..MaxEvents
  BY ElementOfSeq, LenProperties
<1>3. \A n \in 1..MaxEvents : n \in Int
  BY HubAssumption
<1> QED BY <1>1, <1>2, <1>3

\* What a subscription was given stays right while its latest event does.
LEMMA SameGiven ==
  ASSUME TypeOK, GivenInv, NEW s \in Subscriptions, stage[s] # "new",
         topic[s] \in Executions, topic'[s] = topic[s],
         received'[s] = received[s], channel'[s] = channel[s],
         Latest(s) <= Latest(s)', Latest(s)' \in Int
  PROVE  /\ Ascending(s)'
         /\ stage[s] = "open" /\ s \notin missed /\ since'[s] = since[s]
              /\ Latest(s)' = Latest(s) => Whole(s)'
<1>1. /\ \A i \in 1..Len(received[s]) : received[s][i] \in Int
      /\ \A i \in 1..Len(channel[s]) : channel[s][i] \in Int
  BY GivenNumbers
<1>2. last[topic[s]] \in Nat /\ Latest(s) \in Int
  BY HubAssumption DEF TypeOK, Latest
<1>3. Ascending(s) /\ (stage[s] = "open" /\ s \notin missed => Whole(s))
  BY DEF GivenInv
<1>4. Ascending(s)'
  <2> HIDE DEF Latest
  <2>1. \A i \in 1..Len(received[s]) : received[s][i] <= Latest(s)'
    BY <1>1, <1>2, <1>3 DEF Ascending
  <2>2. \A i \in 1..Len(channel[s]) : channel[s][i] <= Latest(s)'
    BY <1>1, <1>2, <1>3 DEF Ascending
  <2> QED BY <1>3, <2>1, <2>2 DEF Ascending
<1>5. ASSUME stage[s] = "open", s \notin missed, since'[s] = since[s], Latest(s)' = Latest(s)
      PROVE  Whole(s)'
  BY <1>3, <1>5 DEF Whole
<1> QED BY <1>4, <1>5

\* The event that Publish is about to offer becomes the latest one.
LEMMA PublishBeginInv ==
  ASSUME IInv, NEW e \in Executions, PublishBegin(e)
  PROVE  IInv'
<1> USE HubAssumption DEF IInv, PublishBegin
<1>1. pending = {} /\ publishing = None /\ last[e] \in 0..MaxEvents /\ last[e] < MaxEvents
  BY DEF LockInv, TypeOK
<1>2. /\ order' \in Seq(Executions)
      /\ history' \in [Executions -> Seq(1..MaxEvents)]
      /\ \A f \in Executions : Len(history'[f]) <= HistorySize
      /\ RunInv' /\ QueueInv'
  BY <1>1, RetainInv
<1>3. last' \in [Executions -> 0..MaxEvents]
      /\ \A f \in Executions : last'[f] = IF f = e THEN last[f] + 1 ELSE last[f]
  BY <1>1 DEF TypeOK
<1>4. TypeOK'
  BY <1>2, <1>3 DEF TypeOK
<1>5. LockInv' /\ NoSendAfterClose' /\ FreshInv'
  <2>1. LockInv'
    BY <1>1, <1>3 DEF LockInv
  <2>2. NoSendAfterClose'
    BY DEF NoSendAfterClose
  <2>3. FreshInv'
    BY <1>1 DEF FreshInv
  <2> QED BY <2>1, <2>2, <2>3
<1>6. GivenInv'
  <2> SUFFICES ASSUME NEW s \in Subscriptions, stage[s] # "new"
               PROVE  /\ Ascending(s)'
                      /\ stage[s] = "open" /\ s \notin missed => Whole(s)'
    BY DEF GivenInv
  <2>1. topic[s] \in Executions /\ last[topic[s]] \in Nat /\ Latest(s) = last[topic[s]]
    BY <1>1 DEF FreshInv, TypeOK, Latest
  <2>2. Latest(s)' = IF s \in subscribers /\ topic[s] = e
                       THEN last'[topic[s]] - 1 ELSE last'[topic[s]]
    BY DEF Latest
  <2>3. Latest(s)' \in Int /\ Latest(s) <= Latest(s)'
    BY <1>3, <2>1, <2>2
  <2>4. stage[s] = "open" => Latest(s)' = Latest(s)
    BY <1>3, <2>1, <2>2 DEF FreshInv
  <2> QED BY <2>1, <2>3, <2>4, SameGiven
<1> QED BY <1>2, <1>4, <1>5, <1>6

\* An event appended to a channel follows all that was given before.
LEMMA OfferInv ==
  ASSUME IInv, NEW s \in Subscriptions, Offer(s)
  PROVE  IInv'
<1> USE DEF IInv, Offer
<1> DEFINE evt == last[publishing]
<1>1. /\ s \in pending /\ stage[s] = "open" /\ topic[s] = publishing
      /\ publishing \in Executions /\ evt \in Nat
      /\ Latest(s) = evt - 1
  BY DEF NoSendAfterClose, TypeOK, FreshInv, Latest
<1>2. /\ channel \in [Subscriptions -> Seq(1..MaxEvents)]
      /\ received \in [Subscriptions -> Seq(1..MaxEvents)]
      /\ \A t \in Subscriptions : Len(channel[t]) <= BufferSize
  BY DEF TypeOK
<1>3. evt \in 1..MaxEvents
  BY <1>1, HubAssumption DEF TypeOK, LockInv
<1>4. stage'= stage /\ last' = last /\ topic' = topic /\ received' = received /\ since' = since
  OBVIOUS
<1>5. LockInv' /\ NoSendAfterClose' /\ FreshInv' /\ RunInv' /\ QueueInv'
  <2>1. RunInv' /\ QueueInv'
    <3>1. RunInv /\ QueueInv /\ UNCHANGED <<last, history, order>>
      OBVIOUS
    <3> HIDE DEF IInv, Offer
    <3> QED BY <3>1 DEF RunInv, QueueInv
  <2>2. NoSendAfterClose' /\ LockInv'
    BY <1>1 DEF NoSendAfterClose, LockInv
  <2>3. FreshInv'
    BY <1>1, <1>2 DEF FreshInv
  <2> QED BY <2>1, <2>2, <2>3
<1>6. \A t \in Subscriptions \ {s} :
        channel'[t] = channel[t] /\ Latest(t)' = Latest(t) /\ (t \in missed' <=> t \in missed)
  BY <1>2, <1>4 DEF Latest
<1>7. Latest(s)' = evt
  BY <1>1, <1>4 DEF Latest
<1>8. ASSUME NEW t \in Subscriptions \ {s}, stage[t] # "new"
      PROVE  Ascending(t)' /\ (stage[t] = "open" /\ t \notin missed' => Whole(t)')
  <2>1. topic[t] \in Executions /\ Latest(t) \in Int
    BY <1>8 DEF FreshInv, TypeOK, Latest
  <2> QED BY <1>4, <1>6, <1>8, <2>1, SameGiven
<1>9. CASE Len(channel[s]) < BufferSize
  <2> DEFINE longer == Append(channel[s], evt)
  <2>1. channel' = [channel EXCEPT ![s] = longer] /\ missed' = missed
    BY <1>1, <1>9
  <2>2. channel[s] \in Seq(1..MaxEvents) /\ Len(channel[s]) \in Nat
    BY <1>2
  <2>3. /\ longer \in Seq(1..MaxEvents) /\ Len(longer) = Len(channel[s]) + 1
        /\ \A i \in 1..Len(channel[s]) : longer[i] = channel[s][i]
        /\ longer[Len(channel[s]) + 1] = evt
    BY <1>3, <2>2, AppendProperties
  <2> HIDE DEF longer, evt
  <2>4. channel' \in [Subscriptions -> Seq(1..MaxEvents)] /\ channel'[s] = longer
        /\ \A t \in Subscriptions \ {s} : channel'[t] = channel[t]
    BY <1>2, <2>1, <2>3
  <2>5. \A t \in Subscriptions : Len(channel'[t]) <= BufferSize
    <3> HIDE DEF IInv, Offer
    <3>a. BufferSize \in Int
      BY HubAssumption
    <3>1. Len(longer) <= BufferSize
      BY <1>9, <2>2, <2>3, <3>a
    <3> QED BY <1>2, <2>4, <3>1
  <2>6. TypeOK'
    BY <2>1, <2>4, <2>5 DEF TypeOK
  <2>7. \A i \in 1..Len(longer) : i \in 1..Len(channel[s]) \/ i = Len(channel[s]) + 1
    BY <2>2, <2>3
  <2>8. Ascending(s) /\ (s \notin missed => Whole(s))
    BY <1>1 DEF GivenInv
  <2>9. Ascending(s)'
    <3>a. /\ \A i \in 1..Len(received[s]) : received[s][i] \in Int
          /\ \A i \in 1..Len(channel[s]) : channel[s][i] \in Int
      BY GivenNumbers
    <3>b. /\ \A i \in 1..Len(received[s]) : received[s][i] <= evt - 1
          /\ \A i \in 1..Len(channel[s]) : channel[s][i] <= evt - 1
      BY <1>1, <2>8 DEF Ascending
    <3>c. evt \in Int
      BY <1>1
    <3>1. /\ \A i \in 1..Len(received[s]) : received[s][i] < evt /\ received[s][i] \in Int
          /\ \A i \in 1..Len(channel[s]) : channel[s][i] < evt /\ channel[s][i] \in Int
      BY <3>a, <3>b, <3>c
    <3>2. \A i, j \in 1..Len(longer) : i < j => longer[i] < longer[j]
      <4> TAKE i, j \in 1..Len(longer)
      <4> HAVE i < j
      <4>1. i \in 1..Len(channel[s])
        BY <2>2, <2>3
      <4> QED BY <2>3, <2>7, <2>8, <3>1, <4>1 DEF Ascending
    <3>3. \A i \in 1..Len(received[s]), j \in 1..Len(longer) : received[s][i] < longer[j]
      BY <2>3, <2>7, <2>8, <3>1 DEF Ascending
    <3>4. \A i \in 1..Len(longer) : longer[i] <= evt
      <4> TAKE i \in 1..Len(longer)
      <4>1. CASE i \in 1..Len(channel[s])
        BY <2>3, <3>1, <3>c, <4>1
      <4>2. CASE i = Len(channel[s]) + 1
        BY <2>3, <3>c, <4>2
      <4> QED BY <2>7, <4>1, <4>2
    <3>5. \A i \in 1..Len(received[s]) : received[s][i] <= evt
      BY <1>1, <3>1
    <3> QED BY <1>4, <1>7, <2>4, <2>8, <3>2, <3>3, <3>4, <3>5 DEF Ascending
  <2>10. s \notin missed => Whole(s)'
    <3> SUFFICES ASSUME s \notin missed PROVE Whole(s)'
      OBVIOUS
    <3>1. Whole(s) /\ Len(received[s]) \in Int /\ since[s] \in Int
      BY <2>8, GivenNumbers DEF TypeOK
    <3>a. evt \in Int
      BY <1>1
    <3> HIDE DEF IInv, Offer
    <3>2. Len(received[s]) + Len(longer) = evt - since[s] + 1
      <4>1. Len(received[s]) + Len(channel[s]) = (evt - 1) - since[s] + 1 /\ evt \in Int
        <5>1. Len(received[s]) + Len(channel[s]) = Latest(s) - since[s] + 1
          BY <3>1 DEF Whole
        <5> QED BY <1>1, <3>a, <5>1
      <4>2. Len(longer) = Len(channel[s]) + 1 /\ Len(channel[s]) \in Int
        BY <2>2, <2>3
      <4>3. PICK r, c, z, v \in Int :
              r = Len(received[s]) /\ c = Len(channel[s]) /\ z = since[s] /\ v = evt
        BY <3>1, <4>1, <4>2
      <4>4. r + c = (v - 1) - z + 1
        BY <4>1, <4>3
      <4>5. r + (c + 1) = v - z + 1
        BY <4>4
      <4> QED BY <4>2, <4>3, <4>5
    <3>3. ASSUME NEW i \in 1..Len(longer)
          PROVE  longer[i] = since[s] + Len(received[s]) + i - 1
      <4>1. CASE i \in 1..Len(channel[s])
        BY <2>3, <3>1, <4>1 DEF Whole
      <4>2. CASE i = Len(channel[s]) + 1
        <5>1. longer[i] = evt /\ evt \in Int /\ Len(longer) = i /\ i \in Int
          BY <1>1, <2>2, <2>3, <4>2
        <5>2. Len(received[s]) + i = evt - since[s] + 1
          BY <3>2, <5>1
        <5>3. \A a, b, c, d \in Int : a + b = c - d + 1 => c = d + a + b - 1
          OBVIOUS
        <5>4. evt = since[s] + Len(received[s]) + i - 1
          BY <3>1, <5>1, <5>2, <5>3
        <5> QED BY <5>1, <5>4
      <4> QED BY <2>7, <4>1, <4>2
    <3> QED BY <1>4, <1>7, <2>4, <3>1, <3>2, <3>3 DEF Whole
  <2>11. GivenInv'
    BY <1>4, <1>8, <2>1, <2>9, <2>10 DEF GivenInv
  <2> QED BY <1>5, <2>6, <2>11
<1>10. CASE ~(Len(channel[s]) < BufferSize)
  <2>1. channel' = channel /\ missed' = missed \cup {s}
    BY <1>1, <1>10
  <2>2. TypeOK'
    BY <2>1 DEF TypeOK
  <2>3. Ascending(s)'
    BY <1>1, <1>4, <1>7, <2>1, SameGiven
  <2>4. GivenInv'
    BY <1>4, <1>8, <2>1, <2>3 DEF GivenInv
  <2> QED BY <1>5, <2>2, <2>4
<1> QED BY <1>9, <1>10

\* Publish returns when no subscription is left to visit.
LEMMA PublishEndInv ==
  ASSUME IInv, PublishEnd
  PROVE  IInv'
<1> USE DEF IInv, PublishEnd
<1>1. TypeOK' /\ LockInv' /\ NoSendAfterClose'
  BY DEF TypeOK, LockInv, NoSendAfterClose
<1>2. RunInv' /\ QueueInv' /\ FreshInv'
  BY DEF RunInv, QueueInv, FreshInv
<1>3. GivenInv'
  <2>1. GivenInv /\ UNCHANGED <<last, topic, stage, channel, pending, received, since, missed>>
    OBVIOUS
  <2> HIDE DEF IInv, PublishEnd
  <2>2. \A t \in Subscriptions : Latest(t)' = Latest(t)
    BY <2>1 DEF Latest
  <2>3. \A t \in Subscriptions : (Ascending(t) => Ascending(t)') /\ (Whole(t) => Whole(t)')
    BY <2>1, <2>2 DEF Ascending, Whole
  <2> QED BY <2>1, <2>3 DEF GivenInv
<1> QED BY <1>1, <1>2, <1>3

\* The replay of a whole history is a run of events up to the latest one.
LEMMA SubscribeInv ==
  ASSUME IInv, NEW s \in Subscriptions, NEW e \in Executions, Subscribe(s, e)
  PROVE  IInv'
<1> USE DEF IInv, Subscribe
<1> DEFINE replay == Oldest(history[e], BufferSize)
<1>1. /\ stage[s] = "new" /\ publishing = None /\ pending = {} /\ pending' = {}
      /\ last' = last /\ history' = history /\ order' = order /\ received' = received
  BY DEF LockInv
<1>2. /\ history[e] \in Seq(1..MaxEvents) /\ Len(history[e]) \in Nat
      /\ last[e] \in 0..MaxEvents /\ Len(history[e]) <= last[e]
      /\ \A i \in 1..Len(history[e]) : history[e][i] = last[e] - Len(history[e]) + i
  BY DEF TypeOK, RunInv
<1>3. /\ replay \in Seq(1..MaxEvents)
      /\ Len(replay) = IF Len(history[e]) <= BufferSize THEN Len(history[e]) ELSE BufferSize
      /\ \A i \in 1..Len(replay) : replay[i] = history[e][i]
  <2> HIDE DEF IInv, Subscribe
  <2>1. BufferSize \in Nat
    BY HubAssumption
  <2> QED BY <1>2, <2>1, OldestOf
<1>4. /\ channel' = [channel EXCEPT ![s] = replay]
      /\ topic' = [topic EXCEPT ![s] = e]
      /\ stage' = [stage EXCEPT ![s] = "open"]
      /\ since' = [since EXCEPT ![s] = last[e] - Len(history[e]) + 1]
      /\ subscribers' = subscribers \cup {s}
      /\ missed' = IF Len(history[e]) > BufferSize THEN missed \cup {s} ELSE missed
  OBVIOUS
<1> HIDE DEF replay, Subscribe
<1>5. /\ channel' \in [Subscriptions -> Seq(1..MaxEvents)] /\ channel'[s] = replay
      /\ topic' \in [Subscriptions -> Executions \cup {None}] /\ topic'[s] = e
      /\ stage' \in [Subscriptions -> {"new", "open", "closing", "closed"}] /\ stage'[s] = "open"
      /\ since'[s] = last[e] - Len(history[e]) + 1
      /\ \A t \in Subscriptions \ {s} :
           /\ channel'[t] = channel[t] /\ topic'[t] = topic[t] /\ stage'[t] = stage[t]
           /\ since'[t] = since[t] /\ (t \in missed' <=> t \in missed)
  BY <1>3, <1>4 DEF TypeOK
<1>6. since' \in [Subscriptions -> 0..(MaxEvents + 1)]
  <2>1. last[e] - Len(history[e]) + 1 \in 0..(MaxEvents + 1)
    <3> HIDE DEF IInv
    <3>1. MaxEvents \in Int
      BY HubAssumption
    <3> QED BY <1>2, <3>1
  <2> QED BY <1>4, <2>1 DEF TypeOK
<1>7. \A t \in Subscriptions : Len(channel'[t]) <= BufferSize
  <2>1. Len(replay) <= BufferSize
    BY <1>2, <1>3
  <2> QED BY <1>5, <2>1 DEF TypeOK
<1>8. TypeOK'
  <2>1. publishing' = publishing
    BY DEF Subscribe
  <2> QED BY <1>1, <1>4, <1>5, <1>6, <1>7, <2>1 DEF TypeOK
<1>9. LockInv' /\ NoSendAfterClose' /\ FreshInv'
  <2>1. publishing' = None
    BY <1>1 DEF Subscribe
  <2>2. LockInv' /\ NoSendAfterClose'
    BY <1>1, <1>4, <1>5, <2>1 DEF LockInv, NoSendAfterClose, TypeOK
  <2>3. FreshInv'
    BY <1>1, <1>4, <1>5 DEF FreshInv
  <2> QED BY <2>2, <2>3
<1>10. RunInv' /\ QueueInv'
  BY <1>1 DEF RunInv, QueueInv
<1>11. ASSUME NEW t \in Subscriptions \ {s}, stage[t] # "new"
       PROVE  Ascending(t)' /\ (stage[t] = "open" /\ t \notin missed' => Whole(t)')
  <2>1. topic[t] \in Executions /\ Latest(t) \in Int /\ Latest(t)' = Latest(t)
    BY <1>1, <1>5, <1>11 DEF FreshInv, TypeOK, Latest
  <2> QED BY <1>1, <1>5, <1>11, <2>1, SameGiven
<1>12. received[s] = <<>> /\ Len(received[s]) = 0 /\ Latest(s)' = last[e]
  BY <1>1, <1>5 DEF FreshInv, Latest
<1>13. ASSUME NEW i \in 1..Len(replay)
       PROVE  replay[i] = last[e] - Len(history[e]) + i /\ i <= Len(history[e]) /\ i \in Nat
  <2>1. i \in 1..Len(history[e])
    BY <1>2, <1>3
  <2> QED BY <1>2, <1>3, <2>1
<1>14. Ascending(s)'
  <2>1. \A i, j \in 1..Len(replay) : i < j => replay[i] < replay[j]
    BY <1>2, <1>13
  <2>2. \A i \in 1..Len(replay) : replay[i] <= last[e]
    BY <1>2, <1>13
  <2> QED BY <1>1, <1>5, <1>12, <2>1, <2>2 DEF Ascending
<1>15. s \notin missed' => Whole(s)'
  <2> SUFFICES ASSUME s \notin missed' PROVE Whole(s)'
    OBVIOUS
  <2>1. Len(replay) = Len(history[e])
    BY <1>2, <1>3, <1>4
  <2>2. 0 + Len(replay) = last[e] - (last[e] - Len(history[e]) + 1) + 1
    BY <1>2, <2>1
  <2>3. \A i \in 1..Len(replay) :
          replay[i] = (last[e] - Len(history[e]) + 1) + 0 + i - 1
    BY <1>2, <1>13
  <2> QED BY <1>1, <1>5, <1>12, <2>2, <2>3 DEF Whole
<1>16. GivenInv'
  BY <1>5, <1>11, <1>14, <1>15 DEF GivenInv
<1> QED BY <1>8, <1>9, <1>10, <1>16

\* Receiving moves an event from the channel to the consumer.
LEMMA ReceiveInv ==
  ASSUME IInv, NEW s \in Subscriptions, Receive(s)
  PROVE  IInv'
<1> USE DEF IInv, Receive
<1> DEFINE first == Head(channel[s])
           rest == Tail(channel[s])
           longer == Append(received[s], first)
<1>1. /\ channel' = [channel EXCEPT ![s] = rest]
      /\ received' = [received EXCEPT ![s] = longer]
      /\ channel[s] # <<>>
      /\ pending' = pending /\ last' = last /\ topic' = topic /\ stage' = stage
      /\ missed' = missed /\ since' = since /\ publishing' = publishing
      /\ subscribers' = subscribers /\ history' = history /\ order' = order
  OBVIOUS
<1>2. /\ channel[s] \in Seq(1..MaxEvents) /\ received[s] \in Seq(1..MaxEvents)
      /\ Len(channel[s]) \in Nat /\ Len(received[s]) \in Nat
      /\ \A i \in 1..Len(received[s]) : received[s][i] \in Int
      /\ \A i \in 1..Len(channel[s]) : channel[s][i] \in Int
  BY GivenNumbers
<1>3. /\ first = channel[s][1] /\ first \in 1..MaxEvents
      /\ rest \in Seq(1..MaxEvents) /\ Len(rest) = Len(channel[s]) - 1
      /\ \A i \in 1..Len(rest) : rest[i] = channel[s][i + 1]
      /\ 1 \in 1..Len(channel[s])
  <2> HIDE DEF IInv, Receive
  <2>1. channel[s] # <<>> /\ channel[s] \in Seq(1..MaxEvents)
    BY <1>1, <1>2
  <2>2. /\ first \in 1..MaxEvents /\ rest \in Seq(1..MaxEvents)
        /\ Len(rest) = Len(channel[s]) - 1
        /\ \A i \in 1..Len(rest) : rest[i] = channel[s][i + 1]
    BY <2>1, HeadTailProperties
  <2>3. first = channel[s][1]
    BY <2>1
  <2>4. 1 \in 1..Len(channel[s])
    BY <2>1
  <2> QED BY <2>2, <2>3, <2>4
<1> HIDE DEF first, rest, Receive
<1>4. /\ longer \in Seq(1..MaxEvents) /\ Len(longer) = Len(received[s]) + 1
      /\ \A i \in 1..Len(received[s]) : longer[i] = received[s][i]
      /\ longer[Len(received[s]) + 1] = first
  BY <1>2, <1>3, AppendProperties
<1> HIDE DEF longer
<1>5. /\ channel' \in [Subscriptions -> Seq(1..MaxEvents)] /\ channel'[s] = rest
      /\ received' \in [Subscriptions -> Seq(1..MaxEvents)] /\ received'[s] = longer
      /\ \A t \in Subscriptions \ {s} : channel'[t] = channel[t] /\ received'[t] = received[t]
  BY <1>1, <1>3, <1>4 DEF TypeOK
<1>6. stage[s] # "new" /\ topic[s] \in Executions /\ Ascending(s)
      /\ (stage[s] = "open" /\ s \notin missed => Whole(s))
  BY <1>1 DEF FreshInv, GivenInv
<1>7. TypeOK'
  <2>1. \A t \in Subscriptions : Len(channel'[t]) <= BufferSize
    <3>1. Len(rest) <= Len(channel[s])
      BY <1>2, <1>3
    <3>2. Len(channel[s]) <= BufferSize /\ Len(rest) \in Int /\ BufferSize \in Int
      BY <1>2, <1>3, HubAssumption DEF TypeOK
    <3>3. Len(rest) <= BufferSize
      <4> HIDE DEF IInv
      <4> QED BY <1>2, <3>1, <3>2
    <3> QED BY <1>5, <3>3 DEF TypeOK
  <2> QED BY <1>1, <1>5, <2>1 DEF TypeOK
<1>8. LockInv' /\ NoSendAfterClose' /\ RunInv' /\ QueueInv'
  BY <1>1 DEF LockInv, NoSendAfterClose, RunInv, QueueInv
<1>9. FreshInv'
  BY <1>1, <1>5, <1>6 DEF FreshInv
<1>10. \A t \in Subscriptions : Latest(t)' = Latest(t)
  BY <1>1 DEF Latest
<1>11. ASSUME NEW t \in Subscriptions \ {s}, stage[t] # "new"
       PROVE  Ascending(t)' /\ (stage[t] = "open" /\ t \notin missed' => Whole(t)')
  <2>1. topic[t] \in Executions /\ Latest(t) \in Int
    BY <1>11 DEF FreshInv, TypeOK, Latest
  <2> QED BY <1>1, <1>5, <1>10, <1>11, <2>1, SameGiven
<1>12. /\ \A i \in 1..Len(longer) : i \in 1..Len(received[s]) \/ i = Len(received[s]) + 1
       /\ \A i \in 1..Len(rest) : i + 1 \in 1..Len(channel[s]) /\ 1 < i + 1 /\ i \in Nat
  BY <1>2, <1>3, <1>4
<1>13. Ascending(s)'
  <2>1. ASSUME NEW i \in 1..Len(longer), NEW j \in 1..Len(longer), i < j
        PROVE  longer[i] < longer[j]
    <3>1. i \in 1..Len(received[s])
      BY <1>2, <1>4, <2>1
    <3> QED BY <1>3, <1>4, <1>6, <1>12, <2>1, <3>1 DEF Ascending
  <2>2. \A i, j \in 1..Len(rest) : i < j => rest[i] < rest[j]
    BY <1>3, <1>6, <1>12 DEF Ascending
  <2>3. ASSUME NEW i \in 1..Len(longer), NEW j \in 1..Len(rest)
        PROVE  longer[i] < rest[j]
    <3> HIDE DEF IInv
    <3>1. rest[j] = channel[s][j + 1] /\ j + 1 \in 1..Len(channel[s]) /\ 1 < j + 1
      BY <1>3, <1>12
    <3>2. CASE i \in 1..Len(received[s])
      BY <1>4, <1>6, <3>1, <3>2 DEF Ascending
    <3>3. CASE i = Len(received[s]) + 1
      BY <1>3, <1>4, <1>6, <3>1, <3>3 DEF Ascending
    <3> QED BY <1>12, <3>2, <3>3
  <2>4. \A i \in 1..Len(longer) : longer[i] <= Latest(s)
    BY <1>3, <1>4, <1>6, <1>12 DEF Ascending
  <2>5. \A i \in 1..Len(rest) : rest[i] <= Latest(s)
    BY <1>3, <1>6, <1>12 DEF Ascending
  <2> QED BY <1>5, <1>10, <2>1, <2>2, <2>3, <2>4, <2>5 DEF Ascending
<1>14. stage[s] = "open" /\ s \notin missed => Whole(s)'
  <2> SUFFICES ASSUME stage[s] = "open", s \notin missed PROVE Whole(s)'
    OBVIOUS
  <2>1. Whole(s) /\ since[s] \in Int
    BY <1>6 DEF TypeOK
  <2>2. Len(longer) + Len(rest) = Len(received[s]) + Len(channel[s])
    <3> HIDE DEF IInv
    <3>1. /\ Len(channel[s]) \in Int /\ Len(received[s]) \in Int
          /\ Len(rest) = Len(channel[s]) - 1 /\ Len(longer) = Len(received[s]) + 1
      BY <1>2, <1>3, <1>4
    <3>2. \A a, b \in Int : (a + 1) + (b - 1) = a + b
      OBVIOUS
    <3>3. (Len(received[s]) + 1) + (Len(channel[s]) - 1) = Len(received[s]) + Len(channel[s])
      BY <3>1, <3>2
    <3> QED BY <3>1, <3>3
  <2>3. \A i \in 1..Len(longer) : longer[i] = since[s] + i - 1
    <3>1. first = since[s] + Len(received[s]) + 1 - 1
      BY <1>3, <2>1 DEF Whole
    <3>2. \A i \in 1..Len(received[s]) : received[s][i] = since[s] + i - 1
      BY <2>1 DEF Whole
    <3> HIDE DEF IInv
    <3>3. ASSUME NEW i \in 1..Len(longer) PROVE longer[i] = since[s] + i - 1
      <4>1. CASE i \in 1..Len(received[s])
        BY <1>4, <3>2, <4>1
      <4>2. CASE i = Len(received[s]) + 1
        <5>1. longer[i] = since[s] + Len(received[s]) + 1 - 1 /\ i = Len(received[s]) + 1
          BY <1>4, <3>1, <4>2
        <5>2. Len(received[s]) \in Int /\ since[s] \in Int
          BY <1>2, <2>1
        <5> QED BY <5>1, <5>2
      <4> QED BY <1>12, <4>1, <4>2
    <3> QED BY <3>3
  <2>4. ASSUME NEW i \in 1..Len(rest)
        PROVE  rest[i] = since[s] + Len(longer) + i - 1
    <3>1. rest[i] = since[s] + Len(received[s]) + (i + 1) - 1
      BY <1>3, <1>12, <2>1 DEF Whole
    <3> HIDE DEF IInv
    <3>2. PICK r, z \in Int : r = Len(received[s]) /\ z = since[s]
      BY <1>2, <2>1
    <3>3. Len(longer) = r + 1 /\ rest[i] = z + r + (i + 1) - 1
      BY <1>4, <3>1, <3>2
    <3>4. z + r + (i + 1) - 1 = z + (r + 1) + i - 1
      BY <1>12
    <3> QED BY <3>2, <3>3, <3>4
  <2> QED BY <1>1, <1>5, <1>10, <2>1, <2>2, <2>3, <2>4 DEF Whole
<1>15. GivenInv'
  BY <1>1, <1>11, <1>13, <1>14 DEF GivenInv
<1> QED BY <1>7, <1>8, <1>9, <1>15

\* Close takes the subscription out of the hub before it closes the channel.
LEMMA CloseInv ==
  ASSUME IInv, NEW s \in Subscriptions, Deregister(s) \/ CloseChannel(s)
  PROVE  IInv'
<1> USE DEF IInv, Deregister, CloseChannel
<1>1. /\ stage[s] \notin {"new", "closed"} /\ stage'[s] \in {"closing", "closed"}
      /\ \A t \in Subscriptions \ {s} : stage'[t] = stage[t]
      /\ stage' \in [Subscriptions -> {"new", "open", "closing", "closed"}]
      /\ subscribers' \in {subscribers, subscribers \ {s}}
      /\ \A t \in Subscriptions \ {s} : t \in subscribers => t \in subscribers'
      /\ s \notin subscribers' /\ s \notin pending
  BY DEF TypeOK, NoSendAfterClose, LockInv
<1>2. UNCHANGED <<last, history, order, topic, channel, publishing, pending, received,
                  since, missed>>
  OBVIOUS
<1> HIDE DEF Deregister, CloseChannel
<1>3. TypeOK' /\ LockInv' /\ RunInv' /\ QueueInv'
  BY <1>1, <1>2 DEF TypeOK, LockInv, RunInv, QueueInv
<1>4. NoSendAfterClose'
  BY <1>1, <1>2 DEF NoSendAfterClose, TypeOK
<1>5. FreshInv'
  BY <1>1, <1>2 DEF FreshInv
<1>6. GivenInv'
  <2>1. GivenInv
    OBVIOUS
  <2> HIDE DEF IInv
  <2>2. \A t \in Subscriptions :
          Latest(t)' = Latest(t) /\ (stage'[t] = "open" => stage[t] = "open")
          /\ (stage'[t] # "new" => stage[t] # "new")
    BY <1>1, <1>2 DEF Latest
  <2>3. \A t \in Subscriptions : (Ascending(t) => Ascending(t)') /\ (Whole(t) => Whole(t)')
    BY <1>2, <2>2 DEF Ascending, Whole
  <2> QED BY <1>2, <2>1, <2>2, <2>3 DEF GivenInv
<1> QED BY <1>3, <1>4, <1>5, <1>6

\* Every step of the hub and its consumers.
LEMMA StepInv == IInv /\ [Next]_vars => IInv'
<1> SUFFICES ASSUME IInv, [Next]_vars PROVE IInv'
  OBVIOUS
<1>1. CASE UNCHANGED vars
  BY <1>1 DEF vars, IInv, TypeOK, LockInv, NoSendAfterClose, RunInv, QueueInv, FreshInv,
              GivenInv, Ascending, Whole, Latest
<1>2. CASE Next
  <2>1. CASE \E e \in Executions : PublishBegin(e)
    BY <2>1, PublishBeginInv
  <2>2. CASE PublishEnd
    BY <2>2, PublishEndInv
  <2>3. CASE \E s \in Subscriptions : Offer(s)
    BY <2>3, OfferInv
  <2>4. CASE \E s \in Subscriptions : Receive(s)
    BY <2>4, ReceiveInv
  <2>5. CASE \E s \in Subscriptions : Deregister(s) \/ CloseChannel(s)
    BY <2>5, CloseInv
  <2>6. CASE \E s \in Subscriptions, e \in Executions : Subscribe(s, e)
    BY <2>6, SubscribeInv
  <2> QED BY <1>2, <2>1, <2>2, <2>3, <2>4, <2>5, <2>6 DEF Next
<1> QED BY <1>1, <1>2

\* The inductive invariant holds in every reachable state.
LEMMA Invariance == Spec => []IInv
BY InitInv, StepInv, PTL DEF Spec

----------------------------------------------------------------------------
\* Two positions next to each other.
LEMMA NextPlace ==
  ASSUME NEW n \in Nat, NEW i \in 1..(n - 1)
  PROVE  i \in Int /\ i \in 1..n /\ i + 1 \in 1..n
OBVIOUS

\* A position in one of two parts.
LEMMA PartOf ==
  ASSUME NEW m \in Nat, NEW n \in Nat, NEW i \in 1..(m + n)
  PROVE  IF i <= m THEN i \in 1..m ELSE i - m \in 1..n
OBVIOUS

\* Element i of what a subscription was given.
LEMMA GivenAt ==
  ASSUME TypeOK, NEW s \in Subscriptions
  PROVE  /\ Given(s) \in Seq(1..MaxEvents)
         /\ Len(Given(s)) = Len(received[s]) + Len(channel[s]) /\ Len(Given(s)) \in Nat
         /\ \A i \in 1..Len(Given(s)) :
              \/ i \in 1..Len(received[s]) /\ Given(s)[i] = received[s][i]
              \/ /\ i - Len(received[s]) \in 1..Len(channel[s])
                 /\ Given(s)[i] = channel[s][i - Len(received[s])]
<1>1. /\ received[s] \in Seq(1..MaxEvents) /\ channel[s] \in Seq(1..MaxEvents)
      /\ Len(received[s]) \in Nat /\ Len(channel[s]) \in Nat
  BY GivenNumbers
<1>2. /\ received[s] \o channel[s] \in Seq(1..MaxEvents)
      /\ Len(received[s] \o channel[s]) = Len(received[s]) + Len(channel[s])
      /\ \A i \in 1..(Len(received[s]) + Len(channel[s])) :
           (received[s] \o channel[s])[i] = IF i <= Len(received[s]) THEN received[s][i]
                                            ELSE channel[s][i - Len(received[s])]
  BY <1>1, ConcatProperties
<1>3. \A i \in 1..(Len(received[s]) + Len(channel[s])) :
        IF i <= Len(received[s]) THEN i \in 1..Len(received[s])
                                 ELSE i - Len(received[s]) \in 1..Len(channel[s])
  BY <1>1, PartOf
<1>4. Len(received[s] \o channel[s]) \in Nat
  BY <1>2, LenProperties
<1> QED BY <1>2, <1>3, <1>4 DEF Given

\* Channels and histories keep their capacity, whatever is published.
THEOREM TypeCorrect == Spec => []TypeOK
<1>1. IInv => TypeOK
  BY DEF IInv
<1> QED BY <1>1, Invariance, PTL

(***************************************************************************)
(* Whatever Publish, Subscribe and Close do meanwhile, Publish only ever   *)
(* sends to open subscriptions of its execution.                           *)
(***************************************************************************)
THEOREM NeverSendsAfterClose == Spec => []NoSendAfterClose
<1>1. IInv => NoSendAfterClose
  BY DEF IInv
<1> QED BY <1>1, Invariance, PTL

\* Histories and their queue agree, for any number of executions and any limits.
THEOREM HistoryIsConsistent == Spec => []HistoryConsistent
<1>1. IInv => HistoryConsistent
  <2> SUFFICES ASSUME IInv PROVE HistoryConsistent
    OBVIOUS
  <2>1. TypeOK /\ RunInv /\ QueueInv
    BY DEF IInv
  <2>2. \A i \in 1..Len(order) : order[i] \in Executions
    BY <2>1 DEF TypeOK
  <2>3. {order[i] : i \in 1..Len(order)} = {e \in Executions : history[e] # <<>>}
    BY <2>1, <2>2 DEF QueueInv
  <2>4. ASSUME NEW e \in Executions, history[e] # <<>>
        PROVE  history[e][Len(history[e])] = last[e] /\ IsConsecutive(history[e])
    <3>1. history[e] \in Seq(1..MaxEvents) /\ last[e] \in 0..MaxEvents /\ Len(history[e]) \in Nat
      BY <2>1 DEF TypeOK
    <3>2. Len(history[e]) \in 1..Len(history[e])
      BY <3>1, <2>4
    <3>3. \A i \in 1..Len(history[e]) : history[e][i] = last[e] - Len(history[e]) + i
      BY <2>1 DEF RunInv
    <3>4. history[e][Len(history[e])] = last[e]
      BY <3>1, <3>2, <3>3
    <3>5. IsConsecutive(history[e])
      <4> SUFFICES ASSUME NEW i \in 1..(Len(history[e]) - 1)
                   PROVE  history[e][i + 1] = history[e][i] + 1
        BY DEF IsConsecutive
      <4>1. i \in 1..Len(history[e]) /\ i + 1 \in 1..Len(history[e]) /\ i \in Int
        BY <3>1, NextPlace
      <4>2. /\ history[e][i] = last[e] - Len(history[e]) + i
            /\ history[e][i + 1] = last[e] - Len(history[e]) + (i + 1)
        BY <3>3, <4>1
      <4>3. PICK l, n \in Int : l = last[e] /\ n = Len(history[e])
        BY <3>1
      <4>4. l - n + (i + 1) = (l - n + i) + 1
        BY <4>1
      <4> QED BY <4>2, <4>3, <4>4
    <3> QED BY <3>4, <3>5
  <2> QED BY <2>1, <2>3, <2>4 DEF HistoryConsistent, QueueInv
<1> QED BY <1>1, Invariance, PTL

\* No consumer is given an event twice or out of order, however full its channel is.
THEOREM AscendsOnce == Spec => []InOrderOnce
<1>1. IInv => InOrderOnce
  <2> SUFFICES ASSUME IInv, NEW s \in Subscriptions, NEW i \in 1..(Len(Given(s)) - 1)
               PROVE  Given(s)[i] < Given(s)[i + 1]
    BY DEF InOrderOnce
  <2>1. TypeOK /\ FreshInv /\ GivenInv
    BY DEF IInv
  <2>2. Len(Given(s)) \in Nat
    BY <2>1, GivenAt
  <2>3. i \in 1..Len(Given(s)) /\ i + 1 \in 1..Len(Given(s)) /\ i \in Int
    BY <2>2, NextPlace
  <2>4. Ascending(s)
    <3>1. CASE stage[s] = "new"
      <4>1. Len(received[s]) = 0 /\ Len(channel[s]) = 0
        BY <2>1, <3>1 DEF FreshInv
      <4>2. i \in 1..0 \/ i - 0 \in 1..0
        BY <2>1, <2>3, <4>1, GivenAt
      <4> QED BY <4>2, <2>3
    <3>2. CASE stage[s] # "new"
      BY <2>1, <3>2 DEF GivenInv
    <3> QED BY <3>1, <3>2
  <2>5. ASSUME NEW j \in 1..Len(Given(s)), NEW k \in 1..Len(Given(s)), j < k
        PROVE  Given(s)[j] < Given(s)[k]
    <3> DEFINE m == Len(received[s])
               n == Len(channel[s])
    <3>1. \/ j \in 1..m /\ Given(s)[j] = received[s][j]
          \/ j - m \in 1..n /\ Given(s)[j] = channel[s][j - m]
      BY <2>1, GivenAt
    <3>2. \/ k \in 1..m /\ Given(s)[k] = received[s][k]
          \/ k - m \in 1..n /\ Given(s)[k] = channel[s][k - m]
      BY <2>1, GivenAt
    <3>3. m \in Nat /\ n \in Nat
      BY <2>1, GivenNumbers
    <3> HIDE DEF m, n
    <3>4. j - m < k - m /\ ~(j - m \in 1..n /\ k \in 1..m)
      BY <2>5, <3>3
    <3>5. /\ \A x, y \in 1..m : x < y => received[s][x] < received[s][y]
          /\ \A x, y \in 1..n : x < y => channel[s][x] < channel[s][y]
          /\ \A x \in 1..m, y \in 1..n : received[s][x] < channel[s][y]
      BY <2>4 DEF Ascending, m, n
    <3> QED BY <2>5, <3>1, <3>2, <3>4, <3>5
  <2>6. i < i + 1
    BY <2>3
  <2> QED BY <2>3, <2>5, <2>6
<1> QED BY <1>1, Invariance, PTL

(***************************************************************************)
(* No event falls between the replay and the registration of Subscribe, or *)
(* with the eviction of a history that comes back: what an open            *)
(* subscription with room has been given is complete.                      *)
(***************************************************************************)
THEOREM NothingIsMissed == Spec => []NothingMissed
<1>1. IInv => NothingMissed
  <2> SUFFICES ASSUME IInv, NEW s \in Subscriptions,
                      stage[s] = "open", s \notin missed, s \notin pending
               PROVE  /\ Len(Given(s)) = last[topic[s]] - since[s] + 1
                      /\ Given(s) # <<>> => Given(s)[1] = since[s]
                      /\ IsConsecutive(Given(s))
    BY DEF NothingMissed
  <2>1. TypeOK /\ Whole(s)
    BY DEF IInv, GivenInv
  <2>2. Len(received[s]) \in Int /\ Len(channel[s]) \in Int /\ since[s] \in Int
        /\ Len(Given(s)) = Len(received[s]) + Len(channel[s]) /\ Given(s) \in Seq(1..MaxEvents)
        /\ Len(Given(s)) \in Nat
    BY <2>1, GivenNumbers, GivenAt DEF TypeOK
  <2>3. Len(Given(s)) = last[topic[s]] - since[s] + 1
    BY <2>1, <2>2 DEF Whole, Latest
  <2>4. ASSUME NEW i \in 1..Len(Given(s))
        PROVE  Given(s)[i] = since[s] + i - 1
    <3>1. CASE i \in 1..Len(received[s]) /\ Given(s)[i] = received[s][i]
      BY <2>1, <3>1 DEF Whole
    <3>2. CASE /\ i - Len(received[s]) \in 1..Len(channel[s])
               /\ Given(s)[i] = channel[s][i - Len(received[s])]
      <4>1. Given(s)[i] = since[s] + Len(received[s]) + (i - Len(received[s])) - 1
        BY <2>1, <3>2 DEF Whole
      <4>2. i \in Int
        BY <2>2
      <4> HIDE DEF IInv
      <4> QED BY <2>2, <4>1, <4>2
    <3> QED BY <2>1, <3>1, <3>2, GivenAt
  <2> HIDE DEF IInv
  <2>5. Given(s) # <<>> => Given(s)[1] = since[s]
    <3> SUFFICES ASSUME Given(s) # <<>> PROVE Given(s)[1] = since[s]
      OBVIOUS
    <3>1. 1 \in 1..Len(Given(s))
      <4>1. Len(Given(s)) # 0
        <5>1. \A seq \in Seq(1..MaxEvents) : seq # <<>> => Len(seq) # 0
          BY EmptySeq
        <5> QED BY <2>2, <5>1
      <4>2. \A n \in Nat : n # 0 => 1 \in 1..n
        OBVIOUS
      <4> QED BY <2>2, <4>1, <4>2
    <3>2. Given(s)[1] = since[s] + 1 - 1
      BY <2>4, <3>1
    <3> QED BY <2>2, <3>2
  <2>6. IsConsecutive(Given(s))
    <3> SUFFICES ASSUME NEW i \in 1..(Len(Given(s)) - 1)
                 PROVE  Given(s)[i + 1] = Given(s)[i] + 1
      BY DEF IsConsecutive
    <3>1. i \in 1..Len(Given(s)) /\ i + 1 \in 1..Len(Given(s)) /\ i \in Int
      BY <2>2, NextPlace
    <3>2. Given(s)[i] = since[s] + i - 1 /\ Given(s)[i + 1] = since[s] + (i + 1) - 1
      BY <2>4, <3>1
    <3> QED BY <2>2, <3>1, <3>2
  <2> QED BY <2>3, <2>5, <2>6
<1> QED BY <1>1, Invariance, PTL
==============================================================================
