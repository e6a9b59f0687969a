------------------------ MODULE ExecutionServiceProofs ------------------------
(***************************************************************************)
(* Theorems about ExecutionService for every number of executions and of   *)
(* cancellers, and every retention limit of the lifecycle manager.         *)
(*                                                                         *)
(* The invariant says of each execution, by the next statement of its      *)
(* driver: which status the manager has for it, what was published, what   *)
(* the counter holds and whether its context exists; and of the cancellers *)
(* that each CancelFunc is in one hand.                                    *)
(***************************************************************************)
EXTENDS ExecutionService, TLAPS, FiniteSetTheorems, SequenceTheorems

Middle   == {"register", "spawn", "execute", "checkDeadline", "checkCanceled", "record"}
Finished == {"forget", "remove", "release", "complete", "done"}

Publishing(id) == pc[id] \in {"assign", "deliver"}

\* The status of an execution, and how many of its events are published.
DriverInv(id) ==
  LET n == Len(published[id])  type == outgoing[id].type IN
  /\ pc[id] = "idle"     => status[id] = "absent" /\ n = 0
  /\ pc[id] = "start"    => status[id] = "created" /\ n = 1
  /\ pc[id] \in Middle   => status[id] = "running" /\ n = 2
  /\ pc[id] \in Finished => status[id] \in {verdict[id], "absent"} /\ n = 3
  /\ Publishing(id) =>
       /\ outgoing[id] \in Events
       /\ type = "created" => status[id] = "created" /\ n = 0
       /\ type = "running" => status[id] = "running" /\ n = 1
       /\ type \in Verdicts =>
            type = verdict[id] /\ status[id] \in {verdict[id], "absent"} /\ n = 2
  /\ pc[id] \in Finished \cup {"checkDeadline", "checkCanceled", "record"} =>
       verdict[id] \in Verdicts

\* The counter is the number of events, until it is deleted.
CounterInv(id) ==
  /\ pc[id] = "deliver" => /\ sequences[id] = Len(published[id]) + 1
                           /\ outgoing[id].sequence = sequences[id]
  /\ pc[id] \in {"remove", "release", "complete", "done"} => sequences[id] = 0
  /\ pc[id] \notin {"deliver", "remove", "release", "complete", "done"} =>
       sequences[id] = Len(published[id])

\* What each published event says; the third announces the verdict.
LogInv(id) ==
  \A n \in 1..Len(published[id]) :
    /\ published[id][n].sequence = n
    /\ n = 1 => published[id][n].type = "created"
    /\ n = 2 => published[id][n].type = "running"
    /\ n = 3 => published[id][n].type \in Verdicts /\ published[id][n].type = verdict[id]

EventInv(id) == DriverInv(id) /\ CounterInv(id) /\ LogInv(id)

Early(id) ==
  \/ pc[id] \in {"idle", "start", "register"}
  \/ (Publishing(id) /\ outgoing[id].type \in {"created", "running"})

\* Contexts and CancelFuncs exist from register on, for driven executions only.
ContextInv(id) ==
  /\ Early(id)  => id \notin active /\ (id \notin SyncIDs => ctx[id] = "none")
  /\ ~Early(id) => ctx[id] # "none"
  /\ id \in SyncIDs => /\ ctx[id] # "none" /\ id \notin active
                       /\ pc[id] \notin {"register", "spawn", "remove", "release", "complete"}
  /\ pc[id] \in {"release", "complete", "done"} => id \notin active
  /\ pc[id] \in {"complete", "done"} => id \in SyncIDs \/ ctx[id] # "live"

\* An accepted Cancel is the only cause of a cancelled context or verdict.
CauseInv(id) ==
  id \notin SyncIDs =>
    /\ ctx[id] = "canceled" => id \in accepted \/ pc[id] \in {"complete", "done"}
    /\ verdict[id] = "cancelled" => id \in accepted

\* A CancelFunc is registered, or in the hand of one canceller, or was called.
HandInv ==
  /\ \A id \in accepted : id \notin active /\ ctx[id] # "none" /\ id \notin SyncIDs
  /\ \A k \in Cancellers : canceller[k].at # "idle" => canceller[k].id \in IDs
  /\ \A k \in Cancellers : canceller[k].at = "call" =>
       LET id == canceller[k].id IN
       /\ id \notin active \cup accepted \cup SyncIDs
       /\ ctx[id] # "none"
       /\ \A j \in Cancellers : canceller[j].at = "call" /\ canceller[j].id = id => j = k

\* The invariant that is inductive.
IInv ==
  /\ TypeOK /\ HandInv /\ Cancellable
  /\ \A id \in IDs : EventInv(id) /\ ContextInv(id) /\ CauseInv(id)

----------------------------------------------------------------------------
\* The statuses, unfolded.
LEMMA StatusSets ==
  /\ Manager!Terminal = {"completed", "failed", "cancelled"}
  /\ Verdicts = {"completed", "failed", "cancelled"}
  /\ Types = {"created", "running", "completed", "failed", "cancelled"}
  /\ Manager!Statuses = {"absent", "created", "running", "completed", "failed", "cancelled"}
  BY DEF Manager!Terminal, Manager!Active, Manager!Statuses, Verdicts, Types

\* What a Create of the manager does to the others: it can only evict ended ones.
LEMMA ManagerCreates ==
  ASSUME Manager!TypeOK, NEW id \in IDs, Manager!Create(id)
  PROVE  /\ Manager!TypeOK'
         /\ status[id] = "absent" /\ status'[id] = "created"
         /\ \A x \in IDs \ {id} : \/ status'[x] = status[x]
                                  \/ status[x] \in Verdicts /\ status'[x] = "absent"
<1>1. PICK gone \in Manager!Evictions(id) :
        status' = [x \in IDs |-> CASE x = id      -> "created"
                                   [] x \in gone -> "absent"
                                   [] OTHER       -> status[x]]
  BY DEF Manager!Create
<1>2. \A x \in gone : status[x] \in Verdicts
  BY StatusSets DEF Manager!Evictions
<1> QED
  BY <1>1, <1>2, StatusSets DEF Manager!Create, Manager!TypeOK

(***************************************************************************)
(* An execution that its own driver leaves alone keeps its part of the     *)
(* invariant, even if it is evicted.                                       *)
(***************************************************************************)
LEMMA EventFrame ==
  ASSUME NEW x \in IDs, EventInv(x),
         pc'[x] = pc[x], outgoing'[x] = outgoing[x], published'[x] = published[x],
         sequences'[x] = sequences[x], verdict'[x] = verdict[x],
         status'[x] = status[x] \/ (status[x] \in Verdicts /\ status'[x] = "absent")
  PROVE  EventInv(x)'
<1>1. DriverInv(x)'
  BY StatusSets DEF EventInv, DriverInv, Publishing, Middle, Finished
<1>2. CounterInv(x)' /\ LogInv(x)'
  BY DEF EventInv, CounterInv, LogInv
<1> QED
  BY <1>1, <1>2 DEF EventInv

\* The same of its context and of the cause of its cancellation.
LEMMA ContextFrame ==
  ASSUME NEW x \in IDs, ContextInv(x), CauseInv(x),
         pc'[x] = pc[x], outgoing'[x] = outgoing[x], verdict'[x] = verdict[x],
         ctx'[x] = ctx[x], x \in active' => x \in active, x \in accepted => x \in accepted'
  PROVE  ContextInv(x)' /\ CauseInv(x)'
  BY DEF ContextInv, CauseInv, Early, Publishing

\* Where Cancellable speaks of an execution.
Open == {"spawn", "execute", "checkDeadline", "checkCanceled", "record"}

\* Steps of a driver that touch no CancelFunc and no context.
LEMMA HandFrame ==
  ASSUME HandInv, Cancellable, NEW id \in IDs,
         active' = active, accepted' = accepted, ctx' = ctx, canceller' = canceller,
         \A x \in IDs \ {id} : pc'[x] = pc[x],
         id \notin SyncIDs /\ pc'[id] \in Open => pc[id] \in Open
  PROVE  HandInv' /\ Cancellable'
<1>1. HandInv'
  BY DEF HandInv
<1>2. Cancellable'
  BY DEF Cancellable, Driven, Open
<1> QED
  BY <1>1, <1>2

(***************************************************************************)
(* What remains to be shown of a driver's step: its own execution.         *)
(***************************************************************************)
LEMMA OthersKeep ==
  ASSUME IInv, NEW id \in IDs,
         \A x \in IDs \ {id} :
           /\ pc'[x] = pc[x] /\ outgoing'[x] = outgoing[x] /\ published'[x] = published[x]
           /\ sequences'[x] = sequences[x] /\ verdict'[x] = verdict[x] /\ ctx'[x] = ctx[x]
           /\ \/ status'[x] = status[x]
              \/ status[x] \in Verdicts /\ status'[x] = "absent"
           /\ x \in active' => x \in active
           /\ x \in accepted => x \in accepted',
         EventInv(id)', ContextInv(id)', CauseInv(id)'
  PROVE  \A x \in IDs : EventInv(x)' /\ ContextInv(x)' /\ CauseInv(x)'
<1> SUFFICES ASSUME NEW x \in IDs PROVE EventInv(x)' /\ ContextInv(x)' /\ CauseInv(x)'
  OBVIOUS
<1>1. CASE x = id
  BY <1>1
<1>2. CASE x # id
  <2>1. EventInv(x) /\ ContextInv(x) /\ CauseInv(x)
    BY DEF IInv
  <2>2. EventInv(x)'
    BY <1>2, <2>1, EventFrame
  <2>3. ContextInv(x)' /\ CauseInv(x)'
    BY <1>2, <2>1, ContextFrame
  <2> QED
    BY <2>2, <2>3
<1> QED
  BY <1>1, <1>2

\* Nothing has been started: every clause is about executions at "idle".
LEMMA InitHolds == Init => IInv
<1> SUFFICES ASSUME Init PROVE IInv
  OBVIOUS
<1>1. TypeOK
  BY ServiceAssumption, StatusSets
  DEF Init, Manager!Init, TypeOK, Manager!TypeOK, Locations, NoEvent, Resting
<1>2. HandInv /\ Cancellable
  BY DEF Init, HandInv, Cancellable, Resting, Driven
<1>3. ASSUME NEW id \in IDs PROVE EventInv(id) /\ ContextInv(id) /\ CauseInv(id)
  <2>1. published[id] = <<>> /\ Len(published[id]) = 0 /\ pc[id] = "idle"
    BY DEF Init
  <2>2. EventInv(id)
    BY <2>1 DEF Init, Manager!Init, EventInv, DriverInv, CounterInv, LogInv, Publishing,
                Middle, Finished
  <2>3. ContextInv(id) /\ CauseInv(id)
    BY <2>1 DEF Init, ContextInv, CauseInv, Early, Publishing
  <2> QED
    BY <2>2, <2>3
<1> QED
  BY <1>1, <1>2, <1>3 DEF IInv

----------------------------------------------------------------------------
(***************************************************************************)
(* Transitions of the manager, each followed by its event.                 *)
(***************************************************************************)
LEMMA CreateStep ==
  ASSUME IInv, NEW id \in IDs, Create(id)
  PROVE  IInv'
<1> USE DEF IInv
<1>1. Manager!TypeOK /\ EventInv(id) /\ ContextInv(id) /\ CauseInv(id)
  BY DEF TypeOK
<1>2. /\ Manager!TypeOK' /\ status'[id] = "created"
      /\ \A x \in IDs \ {id} : \/ status'[x] = status[x]
                               \/ status[x] \in Verdicts /\ status'[x] = "absent"
  BY <1>1, ManagerCreates DEF Create
<1>3. /\ pc[id] = "idle" /\ pc'[id] = "assign"
      /\ outgoing'[id] = [type |-> "created", sequence |-> 0]
      /\ \A x \in IDs \ {id} : pc'[x] = pc[x] /\ outgoing'[x] = outgoing[x]
  BY DEF Create, Publish, Goto, TypeOK
<1>4. [type |-> "created", sequence |-> 0] \in Events
  BY StatusSets DEF Events
<1>5. TypeOK'
  BY <1>2, <1>4 DEF Create, Publish, Goto, TypeOK, Locations
<1>6. HandInv' /\ Cancellable'
  BY <1>3, HandFrame DEF Create, Open
<1>7. EventInv(id)'
  <2>1. Len(published[id]) = 0 /\ sequences[id] = 0
    BY <1>1, <1>3 DEF EventInv, DriverInv, CounterInv
  <2> QED
    BY <1>1, <1>2, <1>3, <1>4, <2>1, StatusSets
    DEF Create, EventInv, DriverInv, CounterInv, LogInv, Publishing, Middle, Finished
<1>8. ContextInv(id)' /\ CauseInv(id)'
  BY <1>1, <1>3 DEF Create, ContextInv, CauseInv, Early, Publishing
<1>9. \A x \in IDs : EventInv(x)' /\ ContextInv(x)' /\ CauseInv(x)'
  BY <1>2, <1>3, <1>7, <1>8, OthersKeep DEF Create
<1> QED
  BY <1>5, <1>6, <1>9

\* Start: NeverRefused is a part of the invariant, so only the first branch is taken.
LEMMA StartStep ==
  ASSUME IInv, NEW id \in IDs, Start(id)
  PROVE  IInv'
<1> USE DEF IInv
<1>1. EventInv(id) /\ ContextInv(id) /\ CauseInv(id)
  OBVIOUS
<1>2. status[id] = "created" /\ Manager!Start(id) /\ Publish(id, "running")
  BY <1>1 DEF Start, EventInv, DriverInv
<1>3. status'[id] = "running" /\ \A x \in IDs \ {id} : status'[x] = status[x]
  BY <1>2 DEF Manager!Start, TypeOK, Manager!TypeOK
<1>4. /\ pc[id] = "start" /\ pc'[id] = "assign"
      /\ outgoing'[id] = [type |-> "running", sequence |-> 0]
      /\ \A x \in IDs \ {id} : pc'[x] = pc[x] /\ outgoing'[x] = outgoing[x]
  BY <1>2 DEF Start, Publish, Goto, TypeOK
<1>5. [type |-> "running", sequence |-> 0] \in Events
  BY StatusSets DEF Events
<1>6. TypeOK'
  <2>1. Manager!TypeOK'
    BY <1>2, StatusSets DEF Manager!Start, TypeOK, Manager!TypeOK
  <2> QED
    BY <1>2, <1>5, <2>1 DEF Start, Publish, Goto, TypeOK, Locations
<1>7. HandInv' /\ Cancellable'
  BY <1>4, HandFrame DEF Start, Open
<1>8. EventInv(id)'
  <2>1. Len(published[id]) = 1 /\ sequences[id] = 1
    BY <1>1, <1>4 DEF EventInv, DriverInv, CounterInv
  <2> QED
    BY <1>1, <1>3, <1>4, <1>5, <2>1, StatusSets
    DEF Start, EventInv, DriverInv, CounterInv, LogInv, Publishing, Middle, Finished
<1>9. ContextInv(id)' /\ CauseInv(id)'
  BY <1>1, <1>4 DEF Start, ContextInv, CauseInv, Early, Publishing
<1>10. \A x \in IDs : EventInv(x)' /\ ContextInv(x)' /\ CauseInv(x)'
  BY <1>3, <1>4, <1>8, <1>9, OthersKeep DEF Start
<1> QED
  BY <1>6, <1>7, <1>10

\* Record: the manager accepts the verdict for the same reason.
LEMMA RecordStep ==
  ASSUME IInv, NEW id \in IDs, Record(id)
  PROVE  IInv'
<1> USE DEF IInv
<1>1. EventInv(id) /\ ContextInv(id) /\ CauseInv(id)
  OBVIOUS
<1>2. /\ status[id] = "running" /\ verdict[id] \in Verdicts
      /\ Manager!Finish(id, verdict[id]) /\ Publish(id, verdict[id])
  BY <1>1 DEF Record, EventInv, DriverInv, Middle
<1>3. status'[id] = verdict[id] /\ \A x \in IDs \ {id} : status'[x] = status[x]
  BY <1>2 DEF Manager!Finish, TypeOK, Manager!TypeOK
<1>4. /\ pc[id] = "record" /\ pc'[id] = "assign"
      /\ outgoing'[id] = [type |-> verdict[id], sequence |-> 0]
      /\ \A x \in IDs \ {id} : pc'[x] = pc[x] /\ outgoing'[x] = outgoing[x]
  BY <1>2 DEF Record, Publish, Goto, TypeOK
<1>5. [type |-> verdict[id], sequence |-> 0] \in Events
  BY <1>2, StatusSets DEF Events
<1>6. TypeOK'
  <2>1. Manager!TypeOK'
    BY <1>2, StatusSets DEF Manager!Finish, TypeOK, Manager!TypeOK
  <2> QED
    BY <1>2, <1>5, <2>1 DEF Record, Publish, Goto, TypeOK, Locations
<1>7. HandInv' /\ Cancellable'
  BY <1>4, HandFrame DEF Record, Open
<1>8. EventInv(id)'
  <2>1. Len(published[id]) = 2 /\ sequences[id] = 2
    BY <1>1, <1>4 DEF EventInv, DriverInv, CounterInv, Middle
  <2> QED
    BY <1>1, <1>2, <1>3, <1>4, <1>5, <2>1, StatusSets
    DEF Record, EventInv, DriverInv, CounterInv, LogInv, Publishing, Middle, Finished
<1>9. ContextInv(id)' /\ CauseInv(id)'
  BY <1>1, <1>2, <1>4, StatusSets DEF Record, ContextInv, CauseInv, Early, Publishing
<1>10. \A x \in IDs : EventInv(x)' /\ ContextInv(x)' /\ CauseInv(x)'
  BY <1>3, <1>4, <1>8, <1>9, OthersKeep DEF Record
<1> QED
  BY <1>6, <1>7, <1>10

----------------------------------------------------------------------------
(***************************************************************************)
(* The three steps of publishLifecycleEvent.                               *)
(***************************************************************************)
LEMMA AssignStep ==
  ASSUME IInv, NEW id \in IDs, Assign(id)
  PROVE  IInv'
<1> USE DEF IInv
<1>1. EventInv(id) /\ ContextInv(id) /\ CauseInv(id)
  OBVIOUS
<1>2. /\ pc[id] = "assign" /\ pc'[id] = "deliver"
      /\ sequences'[id] = sequences[id] + 1 /\ sequences[id] \in Nat
      /\ outgoing[id] \in Events
      /\ outgoing'[id] = [outgoing[id] EXCEPT !.sequence = sequences[id] + 1]
      /\ \A x \in IDs \ {id} : /\ pc'[x] = pc[x] /\ outgoing'[x] = outgoing[x]
                               /\ sequences'[x] = sequences[x]
  BY <1>1 DEF Assign, Goto, TypeOK, EventInv, DriverInv, Publishing
<1>3. /\ outgoing'[id] \in Events /\ outgoing'[id].type = outgoing[id].type
      /\ outgoing'[id].sequence = sequences'[id]
  BY <1>2 DEF Events
<1>4. TypeOK'
  <2>1. outgoing' \in [IDs -> {NoEvent} \cup Events]
    BY <1>2, <1>3 DEF Assign, TypeOK
  <2> QED
    BY <1>2, <2>1 DEF Assign, Goto, TypeOK, Locations, Manager!TypeOK
<1>5. HandInv' /\ Cancellable'
  BY <1>2, HandFrame DEF Assign, Open
<1>6. EventInv(id)'
  BY <1>1, <1>2, <1>3
  DEF Assign, EventInv, DriverInv, CounterInv, LogInv, Publishing, Middle, Finished
<1>7. ContextInv(id)' /\ CauseInv(id)'
  BY <1>1, <1>2, <1>3 DEF Assign, ContextInv, CauseInv, Early, Publishing
<1>8. \A x \in IDs : EventInv(x)' /\ ContextInv(x)' /\ CauseInv(x)'
  BY <1>2, <1>6, <1>7, OthersKeep DEF Assign
<1> QED
  BY <1>4, <1>5, <1>8

\* The place of the next event tells how many came before it.
LEMMA NextPlace ==
  ASSUME NEW len \in Nat
  PROVE  /\ len + 1 = 1 => len # 1 /\ len # 2
         /\ len + 1 = 2 => len # 0 /\ len # 2
         /\ len + 1 = 3 => len # 0 /\ len # 1
  OBVIOUS

\* The event joins the log; where the driver goes next depends on its type.
LEMMA DeliverStep ==
  ASSUME IInv, NEW id \in IDs, Deliver(id)
  PROVE  IInv'
<1> USE DEF IInv
<1> DEFINE log == published[id]  evt == outgoing[id]
<1>1. EventInv(id) /\ ContextInv(id) /\ CauseInv(id)
  OBVIOUS
<1>2. /\ pc[id] = "deliver" /\ pc'[id] = AfterEvent(id, evt.type)
      /\ evt \in Events /\ evt.type \in Types
      /\ published'[id] = Append(log, evt) /\ log \in Seq(Events)
      /\ \A x \in IDs \ {id} : /\ pc'[x] = pc[x] /\ outgoing'[x] = outgoing[x]
                               /\ published'[x] = published[x]
  BY <1>1 DEF Deliver, Goto, TypeOK, EventInv, DriverInv, Publishing, Events
<1>3. /\ Append(log, evt) \in Seq(Events) /\ Len(Append(log, evt)) = Len(log) + 1
      /\ \A n \in 1..Len(log) : Append(log, evt)[n] = log[n]
      /\ Append(log, evt)[Len(log) + 1] = evt
      /\ Len(log) \in Nat
  BY <1>2, AppendProperties, LenProperties
<1>4. pc'[id] \in {"start", "register", "execute", "forget"}
  BY <1>2 DEF AfterEvent
<1>5. TypeOK'
  <2>1. published' \in [IDs -> Seq(Events)]
    BY <1>2, <1>3 DEF Deliver, TypeOK
  <2> QED
    BY <1>2, <1>4, <2>1 DEF Deliver, Goto, TypeOK, Locations, Manager!TypeOK
<1>6. HandInv' /\ Cancellable'
  <2>1. id \notin SyncIDs => pc'[id] \notin Open
    BY <1>2 DEF AfterEvent, Open
  <2> QED
    BY <1>2, <2>1, HandFrame DEF Deliver
<1>7. EventInv(id)'
  <2>1. /\ evt.type = "created" => status[id] = "created" /\ Len(log) = 0
        /\ evt.type = "running" => status[id] = "running" /\ Len(log) = 1
        /\ evt.type \in Verdicts =>
             evt.type = verdict[id] /\ status[id] \in {verdict[id], "absent"} /\ Len(log) = 2
        /\ sequences[id] = Len(log) + 1 /\ evt.sequence = sequences[id]
    BY <1>1, <1>2 DEF EventInv, DriverInv, CounterInv, Publishing
  <2>2. /\ evt.type = "created" => pc'[id] = "start"
        /\ evt.type = "running" => pc'[id] \in {"register", "execute"}
        /\ evt.type \in Verdicts => pc'[id] = "forget"
        /\ evt.type \in {"created", "running"} \cup Verdicts
    BY <1>2, StatusSets DEF AfterEvent
  <2> PICK len \in Nat : len = Len(log)
    BY <1>3
  <2>0. /\ evt.type = "created" => len = 0
        /\ evt.type = "running" => len = 1
        /\ evt.type \in Verdicts => len = 2
    BY <2>1
  <2>3. DriverInv(id)'
    <3>1. /\ Len(published'[id]) = len + 1
          /\ status'[id] = status[id] /\ verdict'[id] = verdict[id]
      BY <1>2, <1>3 DEF Deliver
    <3>2. CASE evt.type = "created"
      <4>0. len = 0
        BY <2>0, <3>2
      <4>1. pc'[id] = "start" /\ status'[id] = "created" /\ Len(published'[id]) = 1
        BY <4>0, <2>1, <2>2, <3>1, <3>2
      <4> QED
        BY <4>1 DEF DriverInv, Publishing, Middle, Finished
    <3>3. CASE evt.type = "running"
      <4>0. len = 1
        BY <2>0, <3>3
      <4>1. pc'[id] \in {"register", "execute"} /\ status'[id] = "running"
        BY <2>1, <2>2, <3>1, <3>3
      <4>2. Len(published'[id]) = 2
        BY <3>1, <4>0
      <4> QED
        BY <4>1, <4>2 DEF DriverInv, Publishing, Middle, Finished
    <3>4. CASE evt.type \in Verdicts
      <4>0. len = 2
        BY <2>0, <3>4
      <4>1. /\ pc'[id] = "forget" /\ status'[id] \in {verdict'[id], "absent"}
            /\ verdict'[id] \in Verdicts
        BY <2>1, <2>2, <3>1, <3>4
      <4>2. Len(published'[id]) = 3
        BY <3>1, <4>0
      <4> QED
        BY <4>1, <4>2 DEF DriverInv, Publishing, Middle, Finished
    <3> QED
      BY <2>2, <3>2, <3>3, <3>4
  <2>4. CounterInv(id)'
    BY <1>2, <1>3, <1>4, <2>1 DEF Deliver, CounterInv
  <2>5. LogInv(id)'
    <3> SUFFICES ASSUME NEW n \in 1..(Len(log) + 1)
                 PROVE  /\ Append(log, evt)[n].sequence = n
                        /\ n = 1 => Append(log, evt)[n].type = "created"
                        /\ n = 2 => Append(log, evt)[n].type = "running"
                        /\ n = 3 => /\ Append(log, evt)[n].type \in Verdicts
                                    /\ Append(log, evt)[n].type = verdict[id]
      BY <1>2, <1>3 DEF Deliver, LogInv
    <3>1. CASE n \in 1..Len(log)
      BY <1>1, <1>3, <3>1 DEF EventInv, LogInv
    <3>2. CASE n = Len(log) + 1
      <4>0. n = len + 1
        BY <3>2
      <4>1. Append(log, evt)[n] = evt
        BY <1>3, <3>2
      <4>2. evt.sequence = n
        BY <2>1, <3>2
      <4>3. /\ n = 1 => len # 1 /\ len # 2
            /\ n = 2 => len # 0 /\ len # 2
            /\ n = 3 => len # 0 /\ len # 1
        BY <4>0, NextPlace, Zenon
      <4>4. /\ n = 1 => evt.type = "created"
            /\ n = 2 => evt.type = "running"
            /\ n = 3 => evt.type \in Verdicts /\ evt.type = verdict[id]
        BY <2>0, <2>1, <2>2, <4>3, Zenon
      <4> QED
        BY <4>1, <4>2, <4>4
    <3> QED
      BY <1>3, <3>1, <3>2
  <2> QED
    BY <2>3, <2>4, <2>5 DEF EventInv
<1>8. ContextInv(id)' /\ CauseInv(id)'
  BY <1>1, <1>2, StatusSets DEF Deliver, AfterEvent, ContextInv, CauseInv, Early, Publishing
<1>9. \A x \in IDs : EventInv(x)' /\ ContextInv(x)' /\ CauseInv(x)'
  BY <1>2, <1>7, <1>8, OthersKeep DEF Deliver
<1> QED
  BY <1>5, <1>6, <1>9

\* The counter is deleted after the third event.
LEMMA ForgetStep ==
  ASSUME IInv, NEW id \in IDs, Forget(id)
  PROVE  IInv'
<1> USE DEF IInv
<1>1. EventInv(id) /\ ContextInv(id) /\ CauseInv(id)
  OBVIOUS
<1>2. /\ pc[id] = "forget" /\ pc'[id] = Returned(id) /\ sequences'[id] = 0
      /\ \A x \in IDs \ {id} : pc'[x] = pc[x] /\ sequences'[x] = sequences[x]
  BY DEF Forget, Goto, TypeOK
<1>3. TypeOK'
  BY <1>2 DEF Forget, Goto, Returned, TypeOK, Locations, Manager!TypeOK
<1>4. HandInv' /\ Cancellable'
  BY <1>2, HandFrame DEF Forget, Returned, Open
<1>5. EventInv(id)'
  BY <1>1, <1>2
  DEF Forget, Returned, EventInv, DriverInv, CounterInv, LogInv, Publishing, Middle, Finished
<1>6. ContextInv(id)' /\ CauseInv(id)'
  BY <1>1, <1>2 DEF Forget, Returned, ContextInv, CauseInv, Early, Publishing
<1>7. \A x \in IDs : EventInv(x)' /\ ContextInv(x)' /\ CauseInv(x)'
  BY <1>2, <1>5, <1>6, OthersKeep DEF Forget
<1> QED
  BY <1>3, <1>4, <1>7

----------------------------------------------------------------------------
(***************************************************************************)
(* The steps that move a driver on and change at most its verdict: the go  *)
(* statement, the executor's return, both reads of the context and the     *)
(* completion callback.                                                    *)
(***************************************************************************)
LEMMA LocalStep ==
  ASSUME IInv, NEW id \in IDs, NEW there, NEW v,
         Goto(id, there), verdict' = [verdict EXCEPT ![id] = v],
         UNCHANGED <<status, ctx, active, sequences, outgoing, published, canceller, accepted>>,
         \/ pc[id] = "spawn" /\ there = "execute" /\ v = verdict[id]
         \/ pc[id] = "complete" /\ there = "done" /\ v = verdict[id]
         \/ /\ pc[id] \in {"execute", "checkDeadline", "checkCanceled"}
            /\ there \in {"checkDeadline", "checkCanceled", "record"}
            /\ v \in Verdicts
            /\ v = "cancelled" => verdict[id] = "cancelled" \/ ctx[id] = "canceled"
  PROVE  IInv'
<1> USE DEF IInv
<1>1. EventInv(id) /\ ContextInv(id) /\ CauseInv(id)
  OBVIOUS
<1>2. /\ pc'[id] = there /\ verdict'[id] = v
      /\ \A x \in IDs \ {id} : pc'[x] = pc[x] /\ verdict'[x] = verdict[x]
  BY DEF Goto, TypeOK
<1>3. TypeOK'
  <2>1. v \in {"none"} \cup Verdicts /\ there \in Locations
    BY DEF TypeOK, Locations
  <2> QED
    BY <2>1 DEF Goto, TypeOK, Manager!TypeOK
<1>4. HandInv' /\ Cancellable'
  BY <1>2, HandFrame DEF Open
<1>5. EventInv(id)'
  <2>1. DriverInv(id)'
    BY <1>1, <1>2 DEF EventInv, DriverInv, Publishing, Middle, Finished
  <2>2. CounterInv(id)'
    BY <1>1, <1>2 DEF EventInv, CounterInv
  <2>3. LogInv(id)'
    <3>1. CASE v = verdict[id]
      BY <1>1, <1>2, <3>1 DEF EventInv, LogInv
    <3>2. CASE pc[id] \in {"execute", "checkDeadline", "checkCanceled"}
      <4>1. Len(published[id]) = 2
        BY <1>1, <3>2 DEF EventInv, DriverInv, Middle
      <4> QED
        BY <1>1, <1>2, <4>1 DEF EventInv, LogInv
    <3> QED
      BY <3>1, <3>2
  <2> QED
    BY <2>1, <2>2, <2>3 DEF EventInv
<1>6. ContextInv(id)' /\ CauseInv(id)'
  <2>1. ContextInv(id)'
    BY <1>1, <1>2 DEF ContextInv, Early, Publishing
  <2>2. CauseInv(id)'
    BY <1>1, <1>2 DEF CauseInv
  <2> QED
    BY <2>1, <2>2
<1>7. \A x \in IDs : EventInv(x)' /\ ContextInv(x)' /\ CauseInv(x)'
  BY <1>2, <1>5, <1>6, OthersKeep
<1> QED
  BY <1>3, <1>4, <1>7

\* The five actions have the form that LocalStep asks for.
LEMMA LocalSteps ==
  ASSUME IInv, NEW id \in IDs,
         \/ Spawn(id) \/ Execute(id) \/ CheckDeadline(id) \/ CheckCanceled(id)
         \/ OnCompletion(id)
  PROVE  IInv'
<1>1. verdict = [verdict EXCEPT ![id] = verdict[id]]
  BY DEF IInv, TypeOK
<1>2. verdict[id] \in Verdicts \/ pc[id] \notin {"checkDeadline", "checkCanceled"}
  BY DEF IInv, EventInv, DriverInv
<1>3. CASE Spawn(id)
  BY <1>1, <1>3, LocalStep DEF Spawn
<1>4. CASE Execute(id)
  <2>1. PICK outcome \in {"completed", "failed"} : ExecutorReturns(id, outcome)
    BY <1>4 DEF Execute
  <2> QED
    BY <2>1, LocalStep, StatusSets DEF ExecutorReturns
<1>5. CASE CheckDeadline(id)
  <2>1. CASE ctx[id] = "deadline"
    BY <1>5, <2>1, LocalStep, StatusSets DEF CheckDeadline
  <2>2. CASE ctx[id] # "deadline"
    BY <1>1, <1>2, <1>5, <2>2, LocalStep, StatusSets DEF CheckDeadline
  <2> QED
    BY <2>1, <2>2
<1>6. CASE CheckCanceled(id)
  <2>1. CASE ctx[id] = "canceled"
    BY <1>6, <2>1, LocalStep, StatusSets DEF CheckCanceled
  <2>2. CASE ctx[id] # "canceled"
    BY <1>1, <1>2, <1>6, <2>2, LocalStep, StatusSets DEF CheckCanceled
  <2> QED
    BY <2>1, <2>2
<1>7. CASE OnCompletion(id)
  BY <1>1, <1>7, LocalStep DEF OnCompletion
<1> QED
  BY <1>3, <1>4, <1>5, <1>6, <1>7

----------------------------------------------------------------------------
(***************************************************************************)
(* The life of a CancelFunc: registered, taken by a Cancel or removed by   *)
(* the deferred function, called.  The driver's event log is not touched.  *)
(***************************************************************************)
LEMMA RegisterStep ==
  ASSUME IInv, NEW id \in IDs, Register(id)
  PROVE  IInv'
<1> USE DEF IInv
<1>1. EventInv(id) /\ ContextInv(id) /\ CauseInv(id)
  OBVIOUS
<1>2. /\ pc[id] = "register" /\ pc'[id] = "spawn" /\ ctx'[id] = "live"
      /\ active' = active \cup {id}
      /\ \A x \in IDs \ {id} : pc'[x] = pc[x] /\ ctx'[x] = ctx[x]
  BY DEF Register, Goto, TypeOK
<1>3. ctx[id] = "none" /\ id \notin SyncIDs
  BY <1>1, <1>2 DEF ContextInv, Early
<1>4. TypeOK'
  BY <1>2 DEF Register, Goto, TypeOK, Locations, Manager!TypeOK
<1>5. HandInv' /\ Cancellable'
  <2>1. HandInv'
    BY <1>2, <1>3 DEF Register, HandInv
  <2>2. Cancellable'
    BY <1>2 DEF Register, Cancellable, Driven
  <2> QED
    BY <2>1, <2>2
<1>6. EventInv(id)'
  <2>1. DriverInv(id)'
    BY <1>1, <1>2 DEF Register, EventInv, DriverInv, Publishing, Middle, Finished
  <2>2. CounterInv(id)' /\ LogInv(id)'
    BY <1>1, <1>2 DEF Register, EventInv, CounterInv, LogInv
  <2> QED
    BY <2>1, <2>2 DEF EventInv
<1>7. ContextInv(id)' /\ CauseInv(id)'
  BY <1>1, <1>2, <1>3 DEF Register, ContextInv, CauseInv, Early, Publishing
<1>8. \A x \in IDs : EventInv(x)' /\ ContextInv(x)' /\ CauseInv(x)'
  BY <1>2, <1>6, <1>7, OthersKeep DEF Register
<1> QED
  BY <1>4, <1>5, <1>8

\* The deferred remove: no canceller holds the CancelFunc it takes away.
LEMMA RemoveStep ==
  ASSUME IInv, NEW id \in IDs, Remove(id)
  PROVE  IInv'
<1> USE DEF IInv
<1>1. EventInv(id) /\ ContextInv(id) /\ CauseInv(id)
  OBVIOUS
<1>2. /\ pc[id] = "remove" /\ pc'[id] = "release" /\ active' = active \ {id}
      /\ \A x \in IDs \ {id} : pc'[x] = pc[x]
  BY DEF Remove, Goto, TypeOK
<1>3. TypeOK'
  BY <1>2 DEF Remove, Goto, TypeOK, Locations, Manager!TypeOK
<1>4. HandInv' /\ Cancellable'
  <2>1. HandInv'
    BY <1>2 DEF Remove, HandInv
  <2>2. Cancellable'
    BY <1>2 DEF Remove, Cancellable, Driven
  <2> QED
    BY <2>1, <2>2
<1>5. EventInv(id)'
  <2>1. DriverInv(id)'
    BY <1>1, <1>2 DEF Remove, EventInv, DriverInv, Publishing, Middle, Finished
  <2>2. CounterInv(id)' /\ LogInv(id)'
    BY <1>1, <1>2 DEF Remove, EventInv, CounterInv, LogInv
  <2> QED
    BY <2>1, <2>2 DEF EventInv
<1>6. ContextInv(id)' /\ CauseInv(id)'
  BY <1>1, <1>2 DEF Remove, ContextInv, CauseInv, Early, Publishing
<1>7. \A x \in IDs : EventInv(x)' /\ ContextInv(x)' /\ CauseInv(x)'
  BY <1>2, <1>5, <1>6, OthersKeep DEF Remove
<1> QED
  BY <1>3, <1>4, <1>7

\* The deferred cancel(): a context that was live ends as "canceled", past the verdict.
LEMMA ReleaseStep ==
  ASSUME IInv, NEW id \in IDs, Release(id)
  PROVE  IInv'
<1> USE DEF IInv
<1>1. EventInv(id) /\ ContextInv(id) /\ CauseInv(id)
  OBVIOUS
<1>2. /\ pc[id] = "release" /\ pc'[id] = "complete"
      /\ ctx'[id] = IF ctx[id] = "live" THEN "canceled" ELSE ctx[id]
      /\ \A x \in IDs \ {id} : pc'[x] = pc[x] /\ ctx'[x] = ctx[x]
  BY DEF Release, Cancelled, Goto, TypeOK
<1>3. TypeOK'
  BY <1>2 DEF Release, Cancelled, Goto, TypeOK, Locations, Manager!TypeOK
<1>4. HandInv' /\ Cancellable'
  <2>1. \A x \in IDs : ctx[x] # "none" => ctx'[x] # "none"
    BY <1>2
  <2>2. accepted \subseteq IDs
    BY DEF TypeOK
  <2>3. HandInv'
    BY <2>1, <2>2 DEF Release, HandInv
  <2>4. Cancellable'
    BY <1>2 DEF Release, Cancellable, Driven
  <2> QED
    BY <2>3, <2>4
<1>5. EventInv(id)'
  <2>1. DriverInv(id)'
    BY <1>1, <1>2 DEF Release, EventInv, DriverInv, Publishing, Middle, Finished
  <2>2. CounterInv(id)' /\ LogInv(id)'
    BY <1>1, <1>2 DEF Release, EventInv, CounterInv, LogInv
  <2> QED
    BY <2>1, <2>2 DEF EventInv
<1>6. ContextInv(id)' /\ CauseInv(id)'
  BY <1>1, <1>2 DEF Release, ContextInv, CauseInv, Early, Publishing
<1>7. \A x \in IDs : EventInv(x)' /\ ContextInv(x)' /\ CauseInv(x)'
  BY <1>2, <1>5, <1>6, OthersKeep DEF Release
<1> QED
  BY <1>3, <1>4, <1>7

\* A timer fires; only the context of a synchronous execution may end as "canceled".
LEMMA ExpireStep ==
  ASSUME IInv, NEW id \in IDs, Expire(id)
  PROVE  IInv'
<1> USE DEF IInv
<1>1. EventInv(id) /\ ContextInv(id) /\ CauseInv(id)
  OBVIOUS
<1> PICK cause \in {"deadline"} \cup (IF id \in SyncIDs THEN {"canceled"} ELSE {}) :
      ctx' = [ctx EXCEPT ![id] = cause]
  BY DEF Expire
<1>2. /\ ctx[id] = "live" /\ ctx'[id] = cause /\ cause \in {"deadline", "canceled"}
      /\ cause = "canceled" => id \in SyncIDs
      /\ \A x \in IDs \ {id} : ctx'[x] = ctx[x]
  BY DEF Expire, TypeOK
<1>3. TypeOK'
  BY <1>2 DEF Expire, TypeOK, Manager!TypeOK
<1>4. HandInv' /\ Cancellable'
  <2>1. \A x \in IDs : ctx[x] # "none" => ctx'[x] # "none"
    BY <1>2
  <2>2. accepted \subseteq IDs
    BY DEF TypeOK
  <2>3. HandInv'
    BY <2>1, <2>2 DEF Expire, HandInv
  <2>4. Cancellable'
    BY DEF Expire, Cancellable, Driven
  <2> QED
    BY <2>3, <2>4
<1>5. EventInv(id)'
  BY <1>1, EventFrame DEF Expire
<1>6. ContextInv(id)' /\ CauseInv(id)'
  BY <1>1, <1>2 DEF Expire, ContextInv, CauseInv, Early, Publishing
<1>7. \A x \in IDs : EventInv(x)' /\ ContextInv(x)' /\ CauseInv(x)'
  BY <1>2, <1>5, <1>6, OthersKeep DEF Expire
<1> QED
  BY <1>3, <1>4, <1>7

----------------------------------------------------------------------------
(***************************************************************************)
(* The three steps of Cancel.                                              *)
(***************************************************************************)
\* Cancellable only asks who is at "call".
LEMMA CancellableFrame ==
  ASSUME Cancellable, pc' = pc, active' = active, accepted' = accepted,
         \A j \in Cancellers : canceller[j].at = "call" => canceller'[j] = canceller[j]
  PROVE  Cancellable'
<1> SUFFICES ASSUME NEW x \in Driven, pc[x] \in Open
             PROVE  \/ x \in active \cup accepted
                    \/ \E j \in Cancellers : canceller'[j] = [at |-> "call", id |-> x]
  BY DEF Cancellable, Open
<1>1. \/ x \in active \cup accepted
      \/ \E j \in Cancellers : canceller[j] = [at |-> "call", id |-> x]
  BY DEF Cancellable, Open
<1> QED
  BY <1>1

\* The look at the status: the canceller comes to hold an ID, and no CancelFunc.
LEMMA CancelGetStep ==
  ASSUME IInv, NEW k \in Cancellers, NEW id \in IDs, CancelGet(k, id)
  PROVE  IInv'
<1> USE DEF IInv
<1>1. /\ canceller[k] = Resting /\ canceller'[k] = [at |-> "take", id |-> id]
      /\ \A j \in Cancellers \ {k} : canceller'[j] = canceller[j]
  BY DEF CancelGet, TypeOK
<1>2. TypeOK'
  BY DEF CancelGet, TypeOK, Manager!TypeOK
<1>3. HandInv' /\ Cancellable'
  <2>1. HandInv'
    BY <1>1 DEF CancelGet, HandInv
  <2>2. \A j \in Cancellers : canceller[j].at = "call" => canceller'[j] = canceller[j]
    BY <1>1 DEF Resting
  <2>3. Cancellable'
    BY <2>2, CancellableFrame DEF CancelGet
  <2> QED
    BY <2>1, <2>3
<1>4. EventInv(id)' /\ ContextInv(id)' /\ CauseInv(id)'
  BY EventFrame, ContextFrame DEF CancelGet
<1>5. \A x \in IDs : EventInv(x)' /\ ContextInv(x)' /\ CauseInv(x)'
  BY <1>4, OthersKeep DEF CancelGet
<1> QED
  BY <1>2, <1>3, <1>5

\* The CancelFunc moves from activeExecutions into one hand, or there is none.
LEMMA CancelTakeStep ==
  ASSUME IInv, NEW k \in Cancellers, CancelTake(k)
  PROVE  IInv'
<1> USE DEF IInv
<1> PICK id \in IDs : id = canceller[k].id
  BY DEF CancelTake, HandInv
<1>1. id \in IDs /\ canceller[k].at = "take" /\ active' = active \ {id}
  BY DEF CancelTake
<1>2. /\ canceller'[k] = IF id \in active THEN [at |-> "call", id |-> id] ELSE Resting
      /\ \A j \in Cancellers \ {k} : canceller'[j] = canceller[j]
  BY <1>1 DEF CancelTake, TypeOK
<1>3. TypeOK'
  <2>1. canceller'[k] \in [at : {"idle", "take", "call"}, id : IDs \cup {NoID}]
    BY <1>1, <1>2 DEF Resting
  <2>2. canceller' \in [Cancellers -> [at : {"idle", "take", "call"}, id : IDs \cup {NoID}]]
    BY <2>1 DEF CancelTake, TypeOK
  <2> QED
    BY <1>1, <2>2 DEF CancelTake, TypeOK, Manager!TypeOK
<1>4. EventInv(id) /\ ContextInv(id) /\ CauseInv(id)
  BY <1>1
<1>5. HandInv' /\ Cancellable'
  <2>1. CASE id \in active
    <3>1. canceller'[k].at = "call" /\ canceller'[k].id = id
      BY <1>2, <2>1
    <3>2. /\ id \notin accepted /\ id \notin SyncIDs /\ ctx[id] # "none"
          /\ \A j \in Cancellers : canceller[j].at = "call" => canceller[j].id # id
      BY <1>1, <1>4, <2>1 DEF HandInv, ContextInv
    <3>3. HandInv'
      BY <1>1, <1>2, <3>1, <3>2 DEF CancelTake, HandInv
    <3>4. Cancellable'
      <4> SUFFICES ASSUME NEW x \in Driven, pc[x] \in Open
                   PROVE  \/ x \in active' \cup accepted
                          \/ \E j \in Cancellers : canceller'[j] = [at |-> "call", id |-> x]
        BY DEF CancelTake, Cancellable, Open
      <4>1. CASE x = id
        BY <1>2, <2>1, <4>1
      <4>2. CASE x # id
        <5>1. \/ x \in active \cup accepted
              \/ \E j \in Cancellers : canceller[j] = [at |-> "call", id |-> x]
          BY DEF Cancellable, Open
        <5> QED
          BY <1>1, <1>2, <4>2, <5>1
      <4> QED
        BY <4>1, <4>2
    <3> QED
      BY <3>3, <3>4
  <2>2. CASE id \notin active
    <3>1. active' = active /\ canceller'[k] = Resting
      BY <1>1, <1>2, <2>2
    <3>2. HandInv'
      BY <1>2, <3>1 DEF CancelTake, HandInv, Resting
    <3>3. \A j \in Cancellers : canceller[j].at = "call" => canceller'[j] = canceller[j]
      BY <1>1, <1>2
    <3>4. Cancellable'
      BY <3>1, <3>3, CancellableFrame DEF CancelTake
    <3> QED
      BY <3>2, <3>4
  <2> QED
    BY <2>1, <2>2
<1>6. EventInv(id)' /\ ContextInv(id)' /\ CauseInv(id)'
  BY <1>1, <1>4, EventFrame, ContextFrame DEF CancelTake
<1>7. \A x \in IDs : EventInv(x)' /\ ContextInv(x)' /\ CauseInv(x)'
  BY <1>1, <1>6, OthersKeep DEF CancelTake
<1> QED
  BY <1>3, <1>5, <1>7

\* The CancelFunc is called: from the hand into "accepted".
LEMMA CancelCallStep ==
  ASSUME IInv, NEW k \in Cancellers, CancelCall(k)
  PROVE  IInv'
<1> USE DEF IInv
<1> PICK id \in IDs : id = canceller[k].id
  BY DEF CancelCall, HandInv
<1>1. /\ id \in IDs /\ canceller[k].at = "call"
      /\ id \notin active /\ id \notin SyncIDs /\ ctx[id] # "none"
      /\ \A j \in Cancellers \ {k} : canceller[j].at = "call" => canceller[j].id # id
  BY DEF CancelCall, HandInv
<1>2. /\ canceller'[k] = Resting /\ accepted' = accepted \cup {id}
      /\ \A j \in Cancellers \ {k} : canceller'[j] = canceller[j]
      /\ ctx'[id] = IF ctx[id] = "live" THEN "canceled" ELSE ctx[id]
      /\ \A x \in IDs \ {id} : ctx'[x] = ctx[x]
  BY <1>1 DEF CancelCall, Cancelled, TypeOK
<1>3. TypeOK'
  <2>1. ctx' \in [IDs -> {"none", "live", "deadline", "canceled"}]
    BY <1>1 DEF CancelCall, Cancelled, TypeOK
  <2>2. canceller' \in [Cancellers -> [at : {"idle", "take", "call"}, id : IDs \cup {NoID}]]
    BY DEF CancelCall, TypeOK, Resting
  <2> QED
    BY <1>1, <1>2, <2>1, <2>2 DEF CancelCall, TypeOK, Manager!TypeOK
<1>4. EventInv(id) /\ ContextInv(id) /\ CauseInv(id)
  BY <1>1
<1>5. HandInv'
  <2>1. /\ \A x \in IDs : ctx[x] # "none" => ctx'[x] # "none"
        /\ accepted \subseteq IDs
    BY <1>1, <1>2 DEF TypeOK
  <2>2. \A x \in accepted' : x \notin active' /\ ctx'[x] # "none" /\ x \notin SyncIDs
    BY <1>1, <1>2, <2>1 DEF CancelCall, HandInv
  <2>3. \A j \in Cancellers : canceller'[j].at # "idle" =>
          j # k /\ canceller'[j] = canceller[j] /\ canceller[j].id \in IDs
    BY <1>2 DEF HandInv, Resting
  <2>4. ASSUME NEW j \in Cancellers, canceller'[j].at = "call"
        PROVE  LET x == canceller'[j].id IN
               /\ x \notin active' \cup accepted' \cup SyncIDs
               /\ ctx'[x] # "none"
               /\ \A i \in Cancellers : canceller'[i].at = "call" /\ canceller'[i].id = x => i = j
    <3>1. j # k /\ canceller'[j] = canceller[j] /\ canceller[j].id \in IDs
      BY <2>3, <2>4
    <3>2. canceller[j].id # id
      BY <1>1, <2>4, <3>1
    <3>3. /\ canceller[j].id \notin active \cup accepted \cup SyncIDs
          /\ ctx[canceller[j].id] # "none"
      BY <2>4, <3>1 DEF HandInv
    <3>4. \A i \in Cancellers : canceller'[i].at = "call" /\ canceller'[i].id = canceller'[j].id
                                  => i = j
      BY <2>3, <2>4, <3>1 DEF HandInv
    <3> QED
      BY <1>2, <2>1, <3>1, <3>2, <3>3, <3>4 DEF CancelCall
  <2> QED
    BY <2>2, <2>3, <2>4 DEF HandInv
<1>6. Cancellable'
  <2> SUFFICES ASSUME NEW x \in Driven, pc[x] \in Open
               PROVE  \/ x \in active \cup accepted'
                      \/ \E j \in Cancellers : canceller'[j] = [at |-> "call", id |-> x]
    BY DEF CancelCall, Cancellable, Open
  <2>1. \/ x \in active \cup accepted
        \/ \E j \in Cancellers : canceller[j] = [at |-> "call", id |-> x]
    BY DEF Cancellable, Open
  <2> QED
    BY <1>2, <2>1
<1>7. EventInv(id)' /\ ContextInv(id)' /\ CauseInv(id)'
  <2>1. EventInv(id)'
    BY <1>1, <1>4, EventFrame DEF CancelCall
  <2>2. ContextInv(id)' /\ CauseInv(id)'
    BY <1>1, <1>2, <1>4 DEF CancelCall, ContextInv, CauseInv, Early, Publishing
  <2> QED
    BY <2>1, <2>2
<1>8. \A x \in IDs : EventInv(x)' /\ ContextInv(x)' /\ CauseInv(x)'
  BY <1>1, <1>2, <1>7, OthersKeep DEF CancelCall
<1> QED
  BY <1>3, <1>5, <1>6, <1>8

\* Stuttering keeps everything.
LEMMA StutterStep ==
  ASSUME IInv, UNCHANGED vars
  PROVE  IInv'
<1>1. TypeOK' /\ HandInv' /\ Cancellable'
  BY DEF IInv, vars, TypeOK, Manager!TypeOK, HandInv, Cancellable, Driven
<1>2. ASSUME NEW x \in IDs PROVE EventInv(x)' /\ ContextInv(x)' /\ CauseInv(x)'
  BY EventFrame, ContextFrame DEF IInv, vars
<1> QED
  BY <1>1, <1>2 DEF IInv

\* Every step of the service keeps the invariant.
LEMMA StepKeepsIInv == IInv /\ [Next]_vars => IInv'
<1> SUFFICES ASSUME IInv, [Next]_vars PROVE IInv'
  OBVIOUS
<1>1. ASSUME NEW id \in IDs, Create(id) PROVE IInv'
  BY <1>1, CreateStep
<1>2. ASSUME NEW id \in IDs, Drive(id) PROVE IInv'
  BY <1>2, AssignStep, DeliverStep, ForgetStep, StartStep, RegisterStep, LocalSteps,
     RecordStep, RemoveStep, ReleaseStep DEF Drive
<1>3. ASSUME NEW id \in IDs, Execute(id) PROVE IInv'
  BY <1>3, LocalSteps
<1>4. ASSUME NEW id \in IDs, Expire(id) PROVE IInv'
  BY <1>4, ExpireStep
<1>5. ASSUME NEW k \in Cancellers, Cancel(k) PROVE IInv'
  BY <1>5, CancelGetStep, CancelTakeStep, CancelCallStep DEF Cancel
<1>6. CASE UNCHANGED vars
  BY <1>6, StutterStep
<1> QED
  BY <1>1, <1>2, <1>3, <1>4, <1>5, <1>6 DEF Next

----------------------------------------------------------------------------
(***************************************************************************)
(* What follows from the invariant.                                        *)
(***************************************************************************)

\* The length of an execution's log, against its driver and its status.
LEMMA LogLength ==
  ASSUME IInv, NEW id \in IDs
  PROVE  /\ Len(published[id]) \in {0, 1, 2, 3}
         /\ Len(published[id]) \in {2, 3} =>
              status[id] \in {"running", "absent"} \cup Verdicts
         /\ Len(published[id]) = 3 => status[id] \in {verdict[id], "absent"}
<1>1. DriverInv(id) /\ pc[id] \in Locations
  BY DEF IInv, EventInv, TypeOK
<1>2. CASE pc[id] \in {"idle", "start"}
  BY <1>1, <1>2 DEF DriverInv
<1>3. CASE pc[id] \in Middle
  BY <1>1, <1>3 DEF DriverInv
<1>4. CASE pc[id] \in Finished
  BY <1>1, <1>4 DEF DriverInv
<1>5. CASE Publishing(id)
  <2>1. outgoing[id].type \in {"created", "running"} \cup Verdicts
    BY <1>1, <1>5, StatusSets DEF DriverInv, Events
  <2>2. CASE outgoing[id].type = "created"
    BY <1>1, <1>5, <2>2 DEF DriverInv
  <2>3. CASE outgoing[id].type = "running"
    BY <1>1, <1>5, <2>3 DEF DriverInv
  <2>4. CASE outgoing[id].type \in Verdicts
    BY <1>1, <1>5, <2>4 DEF DriverInv
  <2> QED
    BY <2>1, <2>2, <2>3, <2>4
<1> QED
  BY <1>1, <1>2, <1>3, <1>4, <1>5 DEF Locations, Middle, Finished, Publishing

\* Places in a log of at most three events.
LEMMA Places ==
  ASSUME NEW len \in {0, 1, 2, 3}
  PROVE  /\ len <= 3
         /\ \A n \in 1..len : /\ n \in {1, 2, 3}
                              /\ n = 2 => len \in {2, 3}
                              /\ n = 3 => len = 3
  OBVIOUS

\* NeverRefused is read off DriverInv.
LEMMA IInvImpliesNeverRefused == IInv => NeverRefused
  BY DEF IInv, EventInv, DriverInv, Middle, NeverRefused

\* LogInOrder: LogInv, and no log is longer than three.
LEMMA IInvImpliesLogInOrder == IInv => LogInOrder
<1> SUFFICES ASSUME IInv, NEW id \in IDs
             PROVE  /\ Len(published[id]) <= 3
                    /\ \A n \in 1..Len(published[id]) :
                         /\ published[id][n].sequence = n
                         /\ published[id][n].type \in (CASE n = 1 -> {"created"}
                                                         [] n = 2 -> {"running"}
                                                         [] n = 3 -> Verdicts)
  BY DEF LogInOrder
<1>1. LogInv(id)
  BY DEF IInv, EventInv
<1>2. Len(published[id]) \in {0, 1, 2, 3}
  BY LogLength
<1>3. \A n \in 1..Len(published[id]) : n \in {1, 2, 3}
  BY <1>2, Places, Zenon
<1>4. Len(published[id]) <= 3
  BY <1>2, Places, Zenon
<1> QED
  BY <1>1, <1>3, <1>4 DEF LogInv

\* NotAheadOfStatus: by the place of the event in the log.
LEMMA IInvImpliesNotAheadOfStatus == IInv => NotAheadOfStatus
<1> SUFFICES ASSUME IInv, NEW id \in IDs, NEW n \in 1..Len(published[id])
             PROVE  LET type == published[id][n].type IN
                    /\ type \in Verdicts => status[id] \in {type, "absent"}
                    /\ type = "running"  => status[id] # "created"
  BY DEF NotAheadOfStatus
<1>1. LogInv(id)
  BY DEF IInv, EventInv
<1>2. Len(published[id]) \in {0, 1, 2, 3}
  BY LogLength
<1>3. /\ n \in {1, 2, 3}
      /\ n = 2 => Len(published[id]) \in {2, 3}
      /\ n = 3 => Len(published[id]) = 3
  BY <1>2, Places, Zenon
<1>4. CASE n = 1
  BY <1>1, <1>4, StatusSets DEF LogInv
<1>5. CASE n = 2
  BY <1>1, <1>3, <1>5, LogLength, StatusSets DEF LogInv
<1>6. CASE n = 3
  BY <1>1, <1>3, <1>6, LogLength, StatusSets DEF LogInv
<1> QED
  BY <1>3, <1>4, <1>5, <1>6

\* CancelledByCaller: a status "cancelled" is the verdict, and CauseInv speaks of that.
LEMMA IInvImpliesCancelledByCaller == IInv => CancelledByCaller
<1> SUFFICES ASSUME IInv, NEW id \in IDs \ SyncIDs, status[id] = "cancelled"
             PROVE  id \in accepted
  BY DEF CancelledByCaller, Driven
<1>1. DriverInv(id) /\ CauseInv(id) /\ pc[id] \in Locations
  BY DEF IInv, EventInv, TypeOK
<1>2. CASE pc[id] \in Finished
  BY <1>1, <1>2 DEF DriverInv, CauseInv
<1>3. CASE Publishing(id)
  <2>1. outgoing[id].type \in {"created", "running"} \cup Verdicts
    BY <1>1, <1>3, StatusSets DEF DriverInv, Events
  <2> QED
    BY <1>1, <1>3, <2>1 DEF DriverInv, CauseInv
<1> QED
  BY <1>1, <1>2, <1>3 DEF Locations, DriverInv, Middle, Finished, Publishing

\* NoLeak: CounterInv and ContextInv at "done".
LEMMA IInvImpliesNoLeak == IInv => NoLeak
<1> SUFFICES ASSUME IInv, NEW id \in IDs, pc[id] = "done"
             PROVE  /\ id \notin active /\ sequences[id] = 0
                    /\ id \in Driven => ctx[id] \in {"deadline", "canceled"}
  BY DEF NoLeak
<1>1. CounterInv(id) /\ ContextInv(id) /\ ctx[id] \in {"none", "live", "deadline", "canceled"}
  BY DEF IInv, EventInv, TypeOK
<1> QED
  BY <1>1 DEF CounterInv, ContextInv, Early, Publishing, Driven

\* OneCancelAccepted: the cancellers at "call" with one ID are none or one.
LEMMA IInvImpliesOneCancelAccepted == IInv => OneCancelAccepted
<1> SUFFICES ASSUME IInv, NEW id \in IDs
             PROVE  Cardinality({k \in Cancellers : canceller[k] = [at |-> "call", id |-> id]})
                      + (IF id \in accepted THEN 1 ELSE 0) <= 1
  BY DEF OneCancelAccepted
<1> DEFINE Callers == {k \in Cancellers : canceller[k] = [at |-> "call", id |-> id]}
<1>1. \A k \in Callers : id \notin accepted /\ \A j \in Callers : j = k
  BY DEF IInv, HandInv
<1>2. CASE Callers = {}
  <2>1. Cardinality(Callers) = 0
    BY <1>2, FS_EmptySet
  <2> HIDE DEF Callers
  <2> QED
    BY <2>1 DEF Callers
<1>3. CASE Callers # {}
  <2>1. PICK k : k \in Callers
    BY <1>3
  <2>2. Callers = {k} /\ id \notin accepted
    BY <1>1, <2>1
  <2>3. Cardinality(Callers) = 1
    BY <2>2, FS_Singleton
  <2> QED
    BY <2>2, <2>3
<1> QED
  BY <1>2, <1>3

----------------------------------------------------------------------------
\* The invariant holds in every state of the service.
THEOREM Invariance == Spec => []IInv
  BY InitHolds, StepKeepsIInv, PTL DEF Spec

(***************************************************************************)
(* Every variable of the service keeps its type, the lifecycle table one   *)
(* of Lifecycle with its retention bound.                                  *)
(***************************************************************************)
THEOREM TypeCorrect == Spec => []TypeOK
<1>1. IInv => TypeOK
  BY DEF IInv
<1> QED
  BY <1>1, Invariance, PTL

(***************************************************************************)
(* start and executeAndRecord are never refused by the lifecycle manager,  *)
(* whatever it evicts and whoever cancels.                                 *)
(***************************************************************************)
THEOREM ManagerNeverRefuses == Spec => []NeverRefused
  BY Invariance, IInvImpliesNeverRefused, PTL

\* Events of one execution are published in order, numbered 1, 2, 3.
THEOREM EventsInOrder == Spec => []LogInOrder
  BY Invariance, IInvImpliesLogInOrder, PTL

\* No published event is ahead of the status the manager gives.
THEOREM EventsFollowStatus == Spec => []NotAheadOfStatus
  BY Invariance, IInvImpliesNotAheadOfStatus, PTL

\* A driven execution is recorded as cancelled only after a Cancel of it returned nil.
THEOREM OnlyCallersCancel == Spec => []CancelledByCaller
  BY Invariance, IInvImpliesCancelledByCaller, PTL

\* At most one Cancel of an execution returns nil.
THEOREM CancelsOnce == Spec => []OneCancelAccepted
  BY Invariance, IInvImpliesOneCancelAccepted, PTL

(***************************************************************************)
(* From the go statement to its verdict an execution is registered, or a   *)
(* Cancel has taken its CancelFunc.                                        *)
(***************************************************************************)
THEOREM CancellableWhileRunning == Spec => []Cancellable
<1>1. IInv => Cancellable
  BY DEF IInv
<1> QED
  BY <1>1, Invariance, PTL

\* A finished execution has no CancelFunc, no counter and no live context.
THEOREM LeavesNothing == Spec => []NoLeak
  BY Invariance, IInvImpliesNoLeak, PTL

----------------------------------------------------------------------------
(***************************************************************************)
(* The safety in ContextDecides: the verdict that a context which ended    *)
(* during the executor's work leads to, and nothing else can.              *)
(***************************************************************************)
Result(cause) == IF cause = "canceled" THEN "cancelled" ELSE "failed"

\* The verdict is recorded next, or was.
Decided(id) ==
  \/ pc[id] \in Finished \cup {"record"}
  \/ Publishing(id) /\ outgoing[id].type \in Verdicts

\* The context ended in time and is still to be read, or the verdict is its own.
Settles(id, cause) ==
  \/ pc[id] \in {"execute", "checkDeadline"} /\ ctx[id] = cause
  \/ pc[id] = "checkCanceled" /\ ctx[id] = cause /\ cause = "canceled"
  \/ Decided(id) /\ verdict[id] = Result(cause)

\* Nothing revives a context, and what a context settled remains so.
LEMMA SettlesStep ==
  ASSUME IInv, [Next]_vars, NEW id \in IDs, NEW cause \in {"canceled", "deadline"},
         Settles(id, cause)
  PROVE  Settles(id, cause)'
<1> USE DEF Publishing, Finished
<1>0. /\ TypeOK /\ DriverInv(id) /\ \A q \in IDs : pc[q] \in Locations
      /\ pc \in [IDs -> Locations] /\ verdict \in [IDs -> {"none"} \cup Verdicts]
      /\ ctx \in [IDs -> {"none", "live", "deadline", "canceled"}]
      /\ outgoing \in [IDs -> {NoEvent} \cup Events]
  BY DEF IInv, EventInv, TypeOK
\* A step that is not a step of this driver.
<1>1. ASSUME pc'[id] = pc[id], verdict'[id] = verdict[id], outgoing'[id] = outgoing[id],
             ctx'[id] = ctx[id] \/ ctx[id] \notin {"canceled", "deadline"}
      PROVE  Settles(id, cause)'
  BY <1>1 DEF Settles, Decided
<1>2. ASSUME NEW q \in IDs, q # id, Create(q) \/ Drive(q) \/ Execute(q)
      PROVE  Settles(id, cause)'
  <2>1. pc'[id] = pc[id] /\ verdict'[id] = verdict[id] /\ outgoing'[id] = outgoing[id]
        /\ ctx'[id] = ctx[id]
    BY <1>0, <1>2 DEF Create, Drive, Execute, Assign, Deliver, Forget, Start, Register, Spawn,
                      CheckDeadline, CheckCanceled, Record, Remove, Release, OnCompletion,
                      ExecutorReturns, Goto, Publish, Cancelled
  <2> QED
    BY <1>1, <2>1
<1>3. ASSUME NEW q \in IDs, Expire(q) PROVE Settles(id, cause)'
  <2>1. pc' = pc /\ verdict' = verdict /\ outgoing' = outgoing
        /\ (ctx'[id] = ctx[id] \/ ctx[id] = "live")
    BY <1>0, <1>3 DEF Expire
  <2> QED
    BY <1>1, <2>1
<1>4. ASSUME NEW k \in Cancellers, Cancel(k) PROVE Settles(id, cause)'
  <2>1. pc' = pc /\ verdict' = verdict /\ outgoing' = outgoing
        /\ (ctx'[id] = ctx[id] \/ ctx[id] = "live")
    BY <1>0, <1>4 DEF Cancel, CancelGet, CancelTake, CancelCall, Cancelled
  <2> QED
    BY <1>1, <2>1
<1>5. ASSUME Create(id) \/ Start(id) \/ Register(id) \/ Spawn(id) PROVE FALSE
  BY <1>5 DEF Settles, Decided, Create, Start, Register, Spawn
<1>6. ASSUME Execute(id) PROVE Settles(id, cause)'
  BY <1>0, <1>6 DEF Execute, ExecutorReturns, Goto, Settles, Decided
<1>7. ASSUME CheckDeadline(id) PROVE Settles(id, cause)'
  BY <1>0, <1>7 DEF CheckDeadline, Goto, Settles, Decided, Result
<1>8. ASSUME CheckCanceled(id) PROVE Settles(id, cause)'
  BY <1>0, <1>8 DEF CheckCanceled, Goto, Settles, Decided, Result
<1>9. ASSUME Record(id) PROVE Settles(id, cause)'
  <2>1. pc[id] = "record" /\ verdict[id] = Result(cause) /\ verdict' = verdict
    BY <1>9 DEF Record, Settles, Decided
  <2>2. Result(cause) \in Verdicts
    BY StatusSets DEF Result
  <2>3. Decided(id)'
    BY <1>0, <1>9, <2>1, <2>2 DEF Record, Decided, Publish, Goto, Returned
  <2> QED
    BY <2>1, <2>3 DEF Settles
<1>10. ASSUME Assign(id) \/ Deliver(id) PROVE Settles(id, cause)'
  <2>1. outgoing[id] \in Events /\ outgoing[id].type \in Verdicts /\ Publishing(id)
        /\ verdict[id] = Result(cause) /\ verdict' = verdict
    BY <1>0, <1>10 DEF Assign, Deliver, Settles, Decided, DriverInv
  <2>2. CASE Assign(id)
    <3>1. outgoing'[id].type = outgoing[id].type /\ pc'[id] = "deliver"
      BY <1>0, <2>1, <2>2 DEF Assign, Goto, Events
    <3> QED
      BY <2>1, <3>1 DEF Settles, Decided
  <2>3. CASE Deliver(id)
    <3>1. pc'[id] = "forget"
      BY <1>0, <2>1, <2>3, StatusSets DEF Deliver, Goto, AfterEvent
    <3> QED
      BY <2>1, <3>1 DEF Settles, Decided
  <2> QED
    BY <1>10, <2>2, <2>3
<1>11. ASSUME Forget(id) \/ Remove(id) \/ Release(id) \/ OnCompletion(id)
       PROVE  Settles(id, cause)'
  BY <1>0, <1>11 DEF Forget, Remove, Release, OnCompletion, Returned, Goto, Settles, Decided
<1>12. CASE UNCHANGED vars
  BY <1>1, <1>12 DEF vars
<1> QED
  BY <1>2, <1>3, <1>4, <1>5, <1>6, <1>7, <1>8, <1>9, <1>10, <1>11, <1>12 DEF Next, Drive

\* What the manager shows, and has published, of an execution never contradicts
\* the end of its context.
Obeys(id, cause) ==
  /\ status[id] \in {"running", Result(cause), "absent"}
  /\ Len(published[id]) = 3 => published[id][3].type = Result(cause)

\* It is so once the context has settled the verdict.
LEMMA SettledObeys ==
  ASSUME IInv, NEW id \in IDs, NEW cause \in {"canceled", "deadline"}, Settles(id, cause)
  PROVE  Obeys(id, cause)
<1>1. DriverInv(id) /\ LogInv(id)
  BY DEF IInv, EventInv
<1>2. status[id] \in {"running", Result(cause), "absent"}
  BY <1>1 DEF DriverInv, Settles, Decided, Middle, Finished
<1>3. ASSUME Len(published[id]) = 3 PROVE published[id][3].type = Result(cause)
  <2>1. published[id][3].type = verdict[id]
    BY <1>1, <1>3 DEF LogInv
  <2>2. verdict[id] = Result(cause)
    BY <1>1, <1>3 DEF DriverInv, Settles, Middle, Publishing
  <2> QED
    BY <2>1, <2>2
<1> QED
  BY <1>2, <1>3 DEF Obeys

\* Once the context has ended, all that is shown afterwards obeys it.
NeverOverruled ==
  \A id \in IDs : \A cause \in {"canceled", "deadline"} :
    [](pc[id] = "execute" /\ ctx[id] = cause => []Obeys(id, cause))

(***************************************************************************)
(* A Cancel or a deadline that ends the context while the executor is at   *)
(* work is never overruled: whatever the executor answers, and whoever     *)
(* else cancels, neither the manager nor the execution's last event ever   *)
(* has another verdict.                                                    *)
(***************************************************************************)
THEOREM ContextIsNeverOverruled == Spec => NeverOverruled
<1> SUFFICES ASSUME NEW id \in IDs, NEW cause \in {"canceled", "deadline"}
             PROVE  Spec => [](pc[id] = "execute" /\ ctx[id] = cause => []Obeys(id, cause))
  BY DEF NeverOverruled
<1>1. pc[id] = "execute" /\ ctx[id] = cause => Settles(id, cause)
  BY DEF Settles
<1>2. IInv /\ Settles(id, cause) /\ [Next]_vars => Settles(id, cause)'
  BY SettlesStep
<1>3. IInv /\ Settles(id, cause) => Obeys(id, cause)
  BY SettledObeys
<1> QED
  BY <1>1, <1>2, <1>3, Invariance, PTL DEF Spec
----------------------------------------------------------------------------
\* No verdict is thought of before the executor has returned.
FreshVerdict ==
  \A id \in IDs : Early(id) \/ pc[id] \in {"spawn", "execute"} => verdict[id] = "none"

\* That is so: an outcome is first written when the executor returns, for good.
LEMMA FreshVerdictInvariance == Spec => []FreshVerdict
<1>1. Init => FreshVerdict
  BY DEF Init, FreshVerdict
<1>2. IInv /\ FreshVerdict /\ [Next]_vars => FreshVerdict'
  <2> SUFFICES ASSUME IInv, FreshVerdict, [Next]_vars, NEW id \in IDs
               PROVE  (Early(id) \/ pc[id] \in {"spawn", "execute"} => verdict[id] = "none")'
    BY DEF FreshVerdict
  <2> DEFINE Fresh == Early(id) \/ pc[id] \in {"spawn", "execute"} => verdict[id] = "none"
  <2>0. /\ pc \in [IDs -> Locations] /\ outgoing \in [IDs -> {NoEvent} \cup Events]
        /\ verdict \in [IDs -> {"none"} \cup Verdicts] /\ DriverInv(id) /\ Fresh
    BY DEF IInv, TypeOK, EventInv, FreshVerdict
  <2>1. ASSUME pc'[id] = pc[id], outgoing'[id] = outgoing[id], verdict'[id] = verdict[id]
        PROVE  Fresh'
    BY <2>0, <2>1 DEF Early, Publishing
  <2>2. ASSUME NEW q \in IDs, q # id, Create(q) \/ Drive(q) \/ Execute(q) PROVE Fresh'
    <3>1. pc'[id] = pc[id] /\ verdict'[id] = verdict[id] /\ outgoing'[id] = outgoing[id]
      BY <2>0, <2>2 DEF Create, Drive, Execute, Assign, Deliver, Forget, Start, Register, Spawn,
                        CheckDeadline, CheckCanceled, Record, Remove, Release, OnCompletion,
                        ExecutorReturns, Goto, Publish
    <3> QED
      BY <2>1, <3>1
  <2>3. CASE UNCHANGED vars \/ (\E q \in IDs : Expire(q)) \/ \E k \in Cancellers : Cancel(k)
    <3>1. pc' = pc /\ verdict' = verdict /\ outgoing' = outgoing
      BY <2>3 DEF vars, Expire, Cancel, CancelGet, CancelTake, CancelCall
    <3> QED
      BY <2>1, <3>1
  <2>4. CASE Create(id) \/ Start(id)
    BY <2>0, <2>4 DEF Create, Start, Early, Publishing, Publish, Goto
  <2>5. CASE Register(id) \/ Spawn(id)
    BY <2>0, <2>5 DEF Register, Spawn, Early, Publishing, Goto
  <2>6. CASE Execute(id) \/ CheckDeadline(id) \/ CheckCanceled(id)
    BY <2>0, <2>6 DEF Execute, ExecutorReturns, CheckDeadline, CheckCanceled,
                      Early, Publishing, Goto
  <2>7. CASE Record(id)
    <3>1. verdict[id] \in Verdicts /\ pc[id] = "record"
      BY <2>0, <2>7 DEF Record, DriverInv
    <3>2. verdict[id] \notin {"created", "running"}
      BY <3>1, StatusSets
    <3> QED
      BY <2>0, <2>7, <3>1, <3>2 DEF Record, Early, Publishing, Publish, Goto, Returned
  <2>8. CASE Assign(id) \/ Deliver(id)
    <3>1. outgoing[id] \in Events /\ Publishing(id)
      BY <2>0, <2>8 DEF Assign, Deliver, DriverInv, Publishing
    <3>2. CASE Assign(id)
      <4>1. pc'[id] = "deliver" /\ outgoing'[id].type = outgoing[id].type /\ verdict' = verdict
        BY <2>0, <3>1, <3>2 DEF Assign, Goto, Events
      <4> QED
        BY <2>0, <3>1, <4>1 DEF Early, Publishing
    <3>3. CASE Deliver(id)
      <4>1. pc'[id] = AfterEvent(id, outgoing[id].type) /\ verdict' = verdict
        BY <2>0, <3>3 DEF Deliver, Goto
      <4>2. outgoing[id].type \in {"created", "running"} => verdict[id] = "none"
        BY <2>0, <3>1 DEF Early
      <4>3. outgoing[id].type \notin {"created", "running"} => pc'[id] = "forget"
        BY <4>1 DEF AfterEvent
      <4> QED
        BY <4>1, <4>2, <4>3 DEF Early, Publishing
    <3> QED
      BY <2>8, <3>2, <3>3
  <2>9. CASE Forget(id) \/ Remove(id) \/ Release(id) \/ OnCompletion(id)
    BY <2>0, <2>9 DEF Forget, Remove, Release, OnCompletion, Early, Publishing, Returned, Goto
  <2> QED
    BY <2>2, <2>3, <2>4, <2>5, <2>6, <2>7, <2>8, <2>9 DEF Next, Drive
<1> QED
  BY <1>1, <1>2, Invariance, PTL DEF Spec

\* The executor that an execution calls, as the service sees it.
ExecutorOf(id) == INSTANCE ExecutorPromise WITH
  ctx   <- IF ctx[id] \in {"deadline", "canceled"} THEN "ended" ELSE "live",
  phase <- IF pc[id] = "execute" THEN "working"
           ELSE IF verdict[id] = "none" THEN "fresh" ELSE "returned"

(***************************************************************************)
(* The service asks no more of its executor than ExecutorPromise, which    *)
(* Executor implements: each execution calls it at most once, is at work   *)
(* until it returns, and the context it gave it, once ended, stays so.     *)
(***************************************************************************)
THEOREM TakesThePromise ==
  ASSUME NEW id \in IDs
  PROVE  Spec => ExecutorOf(id)!Spec
<1>1. Init => ExecutorOf(id)!Init
  BY DEF Init, ExecutorOf!Init
<1>2. IInv /\ FreshVerdict /\ FreshVerdict' /\ [Next]_vars
        => [ExecutorOf(id)!Next]_(ExecutorOf(id)!vars)
  <2> SUFFICES ASSUME IInv, FreshVerdict, FreshVerdict', [Next]_vars
               PROVE  [ExecutorOf(id)!Next]_(ExecutorOf(id)!vars)
    OBVIOUS
  <2> USE DEF ExecutorOf!Next, ExecutorOf!vars, ExecutorOf!ContextEnds, ExecutorOf!Begin,
              ExecutorOf!Return
  <2>0. /\ pc \in [IDs -> Locations] /\ verdict \in [IDs -> {"none"} \cup Verdicts]
        /\ ctx \in [IDs -> {"none", "live", "deadline", "canceled"}]
        /\ DriverInv(id) /\ (pc[id] = "execute" => verdict[id] = "none")
        /\ (pc'[id] = "execute" => verdict'[id] = "none")
    BY DEF IInv, TypeOK, EventInv, FreshVerdict
  <2>1. ASSUME NEW q \in IDs, q # id, Create(q) \/ Drive(q) \/ Execute(q)
        PROVE  pc'[id] = pc[id] /\ verdict'[id] = verdict[id] /\ ctx'[id] = ctx[id]
    BY <2>0, <2>1 DEF Create, Drive, Execute, Assign, Deliver, Forget, Start, Register, Spawn,
                      CheckDeadline, CheckCanceled, Record, Remove, Release, OnCompletion,
                      ExecutorReturns, Goto, Publish, Cancelled
  <2>2. ASSUME NEW q \in IDs, q # id, Create(q) \/ Drive(q) \/ Execute(q)
        PROVE  [ExecutorOf(id)!Next]_(ExecutorOf(id)!vars)
    BY <2>1, <2>2
  <2>3. CASE UNCHANGED vars
    BY <2>3 DEF vars
  <2>4. CASE (\E q \in IDs : Expire(q)) \/ \E k \in Cancellers : Cancel(k)
    <3>1. pc' = pc /\ verdict' = verdict
      BY <2>4 DEF Expire, Cancel, CancelGet, CancelTake, CancelCall
    <3>2. ctx'[id] = ctx[id] \/ (ctx[id] = "live" /\ ctx'[id] \in {"deadline", "canceled"})
      BY <2>0, <2>4 DEF Expire, Cancel, CancelGet, CancelTake, CancelCall, Cancelled
    <3> QED
      BY <3>1, <3>2
  <2>5. CASE Create(id) \/ Start(id) \/ Register(id) \/ Spawn(id) \/ Assign(id) \/ Deliver(id)
    <3>1. verdict' = verdict /\ pc[id] # "execute"
      BY <2>5 DEF Create, Start, Register, Spawn, Assign, Deliver
    <3>2. ctx'[id] = ctx[id] \/ (ctx[id] = "none" /\ ctx'[id] = "live")
      <4>1. CASE Register(id)
        BY <2>0, <4>1 DEF Register, IInv, ContextInv, Early
      <4>2. CASE ~Register(id)
        BY <2>5, <4>2 DEF Create, Start, Spawn, Assign, Deliver
      <4> QED
        BY <4>1, <4>2
    <3> QED
      BY <2>0, <3>1, <3>2
  <2>6. CASE Execute(id)
    BY <2>0, <2>6 DEF Execute, ExecutorReturns, Goto
  <2>7. CASE CheckDeadline(id) \/ CheckCanceled(id) \/ Record(id) \/ Forget(id)
             \/ Remove(id) \/ Release(id) \/ OnCompletion(id)
    <3>1. verdict[id] \in Verdicts /\ pc[id] # "execute"
      BY <2>0, <2>7 DEF CheckDeadline, CheckCanceled, Record, Forget, Remove, Release,
                        OnCompletion, DriverInv, Finished
    <3>2. verdict'[id] \in Verdicts /\ pc'[id] # "execute"
      BY <2>0, <2>7, <3>1, StatusSets
      DEF CheckDeadline, CheckCanceled, Record, Forget, Remove, Release, OnCompletion,
          Returned, Goto, Publish
    <3>3. ctx'[id] = ctx[id] \/ (ctx[id] = "live" /\ ctx'[id] = "canceled")
      BY <2>0, <2>7 DEF CheckDeadline, CheckCanceled, Record, Forget, Remove, Release,
                        OnCompletion, Cancelled
    <3> QED
      BY <3>1, <3>2, <3>3, StatusSets
  <2> QED
    BY <2>2, <2>3, <2>4, <2>5, <2>6, <2>7 DEF Next, Drive
<1> QED
  BY <1>1, <1>2, Invariance, FreshVerdictInvariance, PTL DEF Spec, ExecutorOf!Spec
==============================================================================
