--------------------------- MODULE ExecutionService ---------------------------
(***************************************************************************)
(* internal/executionservice/service.go over an atomic lifecycle manager   *)
(* (Lifecycle, which LifecycleManager implements lock by lock).            *)
(*                                                                         *)
(* An execution is driven by one goroutine at a time: the caller of start  *)
(* up to the go statement, then the goroutine it spawned.  pc[id] is the   *)
(* next statement of that driver.  Cancellers are goroutines that call     *)
(* Cancel, and timers end contexts, at any moment in between.              *)
(*                                                                         *)
(* Each ID is started once: NewExecutionID draws 16 random bytes.  IDs in  *)
(* SyncIDs go through Execute, on the context of its caller; the others    *)
(* through StartWithCompletion (Start is the same with an empty callback). *)
(* The executor and the publisher are interfaces: the first returns a      *)
(* result or an error whenever it likes, of the second we keep what it was *)
(* handed; its error is ignored by the code, so it is not modelled.        *)
(***************************************************************************)
EXTENDS Naturals, FiniteSets, Sequences

CONSTANTS
  IDs,          \* execution IDs
  SyncIDs,      \* those run by Execute
  Cancellers,   \* goroutines that call Cancel
  NoID,         \* a canceller between two calls
  MaxRetained   \* of the lifecycle manager

ASSUME ServiceAssumption ==
  /\ IsFiniteSet(IDs)
  /\ SyncIDs \subseteq IDs
  /\ NoID \notin IDs
  /\ MaxRetained \in Nat \ {0}

VARIABLES
  status,       \* the lifecycle manager's table, see Lifecycle
  pc,           \* execution -> next statement of its driver
  verdict,      \* execution -> how executeAndRecord will finish it, so far
  ctx,          \* execution -> its context: "none", "live", or the cause of its end
  active,       \* keys of activeExecutions.entries
  sequences,    \* execution -> Service.sequences, 0 when it has no entry
  outgoing,     \* execution -> the event inside publishLifecycleEvent
  published,    \* execution -> the events handed to the publisher
  canceller,    \* canceller -> the Cancel it is inside
  accepted      \* ghost: executions for which some Cancel returned nil

vars == <<status, pc, verdict, ctx, active, sequences, outgoing, published,
          canceller, accepted>>

Manager == INSTANCE Lifecycle

Verdicts == Manager!Terminal
Types    == Manager!Active \cup Verdicts   \* EventStarted is "running" here

Locations ==
  {"idle", "start", "register", "spawn", "execute", "checkDeadline",
   "checkCanceled", "record", "assign", "deliver", "forget", "remove",
   "release", "complete", "done"}

NoEvent == [type |-> "none", sequence |-> 0]
Events  == [type : Types, sequence : Nat]

\* Every variable has its type; the lifecycle table is a table of Lifecycle.
TypeOK ==
  /\ Manager!TypeOK
  /\ pc \in [IDs -> Locations]
  /\ verdict \in [IDs -> {"none"} \cup Verdicts]
  /\ ctx \in [IDs -> {"none", "live", "deadline", "canceled"}]
  /\ active \in SUBSET IDs
  /\ sequences \in [IDs -> Nat]
  /\ outgoing \in [IDs -> {NoEvent} \cup Events]
  /\ published \in [IDs -> Seq(Events)]
  /\ canceller \in [Cancellers ->
       [at : {"idle", "take", "call"}, id : IDs \cup {NoID}]]
  /\ accepted \in SUBSET IDs

Resting == [at |-> "idle", id |-> NoID]

Init ==
  /\ Manager!Init
  /\ pc = [id \in IDs |-> "idle"]
  /\ verdict = [id \in IDs |-> "none"]
  /\ ctx = [id \in IDs |-> IF id \in SyncIDs THEN "live" ELSE "none"]
  /\ active = {}
  /\ sequences = [id \in IDs |-> 0]
  /\ outgoing = [id \in IDs |-> NoEvent]
  /\ published = [id \in IDs |-> <<>>]
  /\ canceller = [k \in Cancellers |-> Resting]
  /\ accepted = {}

Goto(id, there) == pc' = [pc EXCEPT ![id] = there]

----------------------------------------------------------------------------
(***************************************************************************)
(* publishLifecycleEvent: the number is taken under sequenceMu, the event  *)
(* is published outside it, and the counter of an ended execution deleted. *)
(***************************************************************************)
Publish(id, type) ==
  /\ Goto(id, "assign")
  /\ outgoing' = [outgoing EXCEPT ![id] = [type |-> type, sequence |-> 0]]

Assign(id) ==
  /\ pc[id] = "assign"
  /\ sequences' = [sequences EXCEPT ![id] = @ + 1]
  /\ outgoing' = [outgoing EXCEPT ![id].sequence = sequences[id] + 1]
  /\ Goto(id, "deliver")
  /\ UNCHANGED <<status, verdict, ctx, active, published, canceller, accepted>>

AfterEvent(id, type) ==
  CASE type = "created" -> "start"
    [] type = "running" -> IF id \in SyncIDs THEN "execute" ELSE "register"
    [] OTHER            -> "forget"

\* A bug that deletes the counter after EventStarted too.
DeliverForgetting(id) ==
  /\ pc[id] = "deliver"
  /\ published' = [published EXCEPT ![id] = Append(@, outgoing[id])]
  /\ outgoing' = [outgoing EXCEPT ![id] = NoEvent]
  /\ Goto(id, AfterEvent(id, outgoing[id].type))
  /\ sequences' = [sequences EXCEPT ![id] = IF outgoing[id].type = "running" THEN 0 ELSE @]
  /\ UNCHANGED <<status, verdict, ctx, active, canceller, accepted>>

Deliver(id) ==
  /\ pc[id] = "deliver"
  /\ published' = [published EXCEPT ![id] = Append(@, outgoing[id])]
  /\ outgoing' = [outgoing EXCEPT ![id] = NoEvent]
  /\ Goto(id, AfterEvent(id, outgoing[id].type))
  /\ UNCHANGED <<status, verdict, ctx, active, sequences, canceller, accepted>>

\* Where executeAndRecord returns to: the deferred function, or Execute's caller.
Returned(id) == IF id \in SyncIDs THEN "done" ELSE "remove"

\* A bug that keeps the counters of executions that did not complete.
ForgetCompleted(id) ==
  /\ pc[id] = "forget"
  /\ sequences' = IF verdict[id] = "completed" THEN [sequences EXCEPT ![id] = 0] ELSE sequences
  /\ Goto(id, Returned(id))
  /\ UNCHANGED <<status, verdict, ctx, active, outgoing, published, canceller, accepted>>

Forget(id) ==
  /\ pc[id] = "forget"
  /\ sequences' = [sequences EXCEPT ![id] = 0]
  /\ Goto(id, Returned(id))
  /\ UNCHANGED <<status, verdict, ctx, active, outgoing, published, canceller, accepted>>

----------------------------------------------------------------------------
(***************************************************************************)
(* start and Execute, up to the executor.  A refusal of the manager makes  *)
(* them return at once; the timeout is positive, or nothing happens.       *)
(***************************************************************************)
Create(id) ==
  /\ pc[id] = "idle"
  /\ Manager!Create(id)
  /\ Publish(id, "created")
  /\ UNCHANGED <<verdict, ctx, active, sequences, published, canceller, accepted>>

Start(id) ==
  /\ pc[id] = "start"
  /\ IF status[id] = "created"
       THEN Manager!Start(id) /\ Publish(id, "running")
       ELSE Goto(id, "done") /\ UNCHANGED <<status, outgoing>>
  /\ UNCHANGED <<verdict, ctx, active, sequences, published, canceller, accepted>>

\* A bug that leaves the CancelFunc out of activeExecutions.
RegisterNothing(id) ==
  /\ pc[id] = "register"
  /\ ctx' = [ctx EXCEPT ![id] = "live"]
  /\ Goto(id, "spawn")
  /\ UNCHANGED <<status, verdict, active, sequences, outgoing, published, canceller, accepted>>

\* context.WithTimeout and register.
Register(id) ==
  /\ pc[id] = "register"
  /\ ctx' = [ctx EXCEPT ![id] = "live"]
  /\ active' = active \cup {id}
  /\ Goto(id, "spawn")
  /\ UNCHANGED <<status, verdict, sequences, outgoing, published, canceller, accepted>>

\* The go statement: start has returned nil, its caller may do anything else.
Spawn(id) ==
  /\ pc[id] = "spawn"
  /\ Goto(id, "execute")
  /\ UNCHANGED <<status, verdict, ctx, active, sequences, outgoing, published,
                 canceller, accepted>>

----------------------------------------------------------------------------
(***************************************************************************)
(* executeAndRecord and finishError.  The context is read twice: it can    *)
(* end between the two reads, or after them.                               *)
(***************************************************************************)
ExecutorReturns(id, outcome) ==
  /\ pc[id] = "execute"
  /\ verdict' = [verdict EXCEPT ![id] = outcome]
  /\ Goto(id, "checkDeadline")
  /\ UNCHANGED <<status, ctx, active, sequences, outgoing, published, canceller, accepted>>

CheckDeadline(id) ==
  /\ pc[id] = "checkDeadline"
  /\ IF ctx[id] = "deadline"
       THEN Goto(id, "record") /\ verdict' = [verdict EXCEPT ![id] = "failed"]
       ELSE Goto(id, "checkCanceled") /\ UNCHANGED verdict
  /\ UNCHANGED <<status, ctx, active, sequences, outgoing, published, canceller, accepted>>

\* Bugs: any ended context counts as a cancellation; an executor that returns
\* an error is never looked at again.
CheckCanceledAny(id) ==
  /\ pc[id] = "checkCanceled"
  /\ Goto(id, "record")
  /\ verdict' = IF ctx[id] # "live" THEN [verdict EXCEPT ![id] = "cancelled"] ELSE verdict
  /\ UNCHANGED <<status, ctx, active, sequences, outgoing, published, canceller, accepted>>
CheckCanceledResult(id) ==
  /\ pc[id] = "checkCanceled"
  /\ Goto(id, "record")
  /\ verdict' = IF ctx[id] = "canceled" /\ verdict[id] = "completed"
                  THEN [verdict EXCEPT ![id] = "cancelled"] ELSE verdict
  /\ UNCHANGED <<status, ctx, active, sequences, outgoing, published, canceller, accepted>>

CheckCanceled(id) ==
  /\ pc[id] = "checkCanceled"
  /\ Goto(id, "record")
  /\ verdict' = IF ctx[id] = "canceled" THEN [verdict EXCEPT ![id] = "cancelled"] ELSE verdict
  /\ UNCHANGED <<status, ctx, active, sequences, outgoing, published, canceller, accepted>>

\* A bug that announces a cancelled execution as failed.
RecordMislabelled(id) ==
  /\ pc[id] = "record"
  /\ IF status[id] = "running"
       THEN /\ Manager!Finish(id, verdict[id])
            /\ Publish(id, IF verdict[id] = "cancelled" THEN "failed" ELSE verdict[id])
       ELSE Goto(id, Returned(id)) /\ UNCHANGED <<status, outgoing>>
  /\ UNCHANGED <<verdict, ctx, active, sequences, published, canceller, accepted>>

\* The manager's Complete, Fail or Cancel; its error ends executeAndRecord.
Record(id) ==
  /\ pc[id] = "record"
  /\ IF status[id] = "running"
       THEN Manager!Finish(id, verdict[id]) /\ Publish(id, verdict[id])
       ELSE Goto(id, Returned(id)) /\ UNCHANGED <<status, outgoing>>
  /\ UNCHANGED <<verdict, ctx, active, sequences, published, canceller, accepted>>

----------------------------------------------------------------------------
(***************************************************************************)
(* The deferred function of the spawned goroutine, three calls in a row.   *)
(***************************************************************************)
Remove(id) ==
  /\ pc[id] = "remove"
  /\ active' = active \ {id}
  /\ Goto(id, "release")
  /\ UNCHANGED <<status, verdict, ctx, sequences, outgoing, published, canceller, accepted>>

\* A CancelFunc has an effect on a live context only.
Cancelled(id) == [ctx EXCEPT ![id] = IF @ = "live" THEN "canceled" ELSE @]

Release(id) ==
  /\ pc[id] = "release"
  /\ ctx' = Cancelled(id)
  /\ Goto(id, "complete")
  /\ UNCHANGED <<status, verdict, active, sequences, outgoing, published, canceller, accepted>>

\* onCompletion(), which tells the server that the client's slot is free.
OnCompletion(id) ==
  /\ pc[id] = "complete"
  /\ Goto(id, "done")
  /\ UNCHANGED <<status, verdict, ctx, active, sequences, outgoing, published,
                 canceller, accepted>>

----------------------------------------------------------------------------
(***************************************************************************)
(* Cancel: a look at the status, the entry taken out of activeExecutions,  *)
(* and the call of the CancelFunc, each in its own critical section.  An   *)
(* early return is a step back to Resting.                                 *)
(***************************************************************************)
CancelGet(k, id) ==
  /\ canceller[k] = Resting
  /\ status[id] \in Manager!Active
  /\ canceller' = [canceller EXCEPT ![k] = [at |-> "take", id |-> id]]
  /\ UNCHANGED <<status, pc, verdict, ctx, active, sequences, outgoing, published, accepted>>

\* A bug that leaves the entry where it was.
CancelTakeKeeps(k) ==
  LET id == canceller[k].id IN
  /\ canceller[k].at = "take"
  /\ canceller' = [canceller EXCEPT ![k] = IF id \in active THEN [@ EXCEPT !.at = "call"]
                                           ELSE Resting]
  /\ UNCHANGED <<status, pc, verdict, ctx, active, sequences, outgoing, published, accepted>>

CancelTake(k) ==
  LET id == canceller[k].id IN
  /\ canceller[k].at = "take"
  /\ canceller' = [canceller EXCEPT ![k] = IF id \in active THEN [@ EXCEPT !.at = "call"]
                                           ELSE Resting]
  /\ active' = active \ {id}
  /\ UNCHANGED <<status, pc, verdict, ctx, sequences, outgoing, published, accepted>>

\* A bug that records the cancellation itself instead of leaving it to the driver.
CancelCallRecords(k) ==
  LET id == canceller[k].id IN
  /\ canceller[k].at = "call"
  /\ ctx' = Cancelled(id)
  /\ status' = [status EXCEPT ![id] = IF @ = "running" THEN "cancelled" ELSE @]
  /\ canceller' = [canceller EXCEPT ![k] = Resting]
  /\ accepted' = accepted \cup {id}
  /\ UNCHANGED <<pc, verdict, active, sequences, outgoing, published>>

CancelCall(k) ==
  LET id == canceller[k].id IN
  /\ canceller[k].at = "call"
  /\ ctx' = Cancelled(id)
  /\ canceller' = [canceller EXCEPT ![k] = Resting]
  /\ accepted' = accepted \cup {id}
  /\ UNCHANGED <<status, pc, verdict, active, sequences, outgoing, published>>

\* A bug that gives the execution a context without a deadline.
ExpireNever(id) ==
  /\ ctx[id] = "live" /\ id \in SyncIDs
  /\ \E cause \in {"deadline", "canceled"} : ctx' = [ctx EXCEPT ![id] = cause]
  /\ UNCHANGED <<status, pc, verdict, active, sequences, outgoing, published,
                 canceller, accepted>>

\* The timer of WithTimeout; for Execute, whatever ends its caller's context.
Expire(id) ==
  /\ ctx[id] = "live"
  /\ \E cause \in {"deadline"} \cup (IF id \in SyncIDs THEN {"canceled"} ELSE {}) :
       ctx' = [ctx EXCEPT ![id] = cause]
  /\ UNCHANGED <<status, pc, verdict, active, sequences, outgoing, published,
                 canceller, accepted>>

----------------------------------------------------------------------------
\* The driver's own steps, except the wait for the executor.
Drive(id) ==
  \/ Assign(id) \/ Deliver(id) \/ Forget(id)
  \/ Start(id) \/ Register(id) \/ Spawn(id)
  \/ CheckDeadline(id) \/ CheckCanceled(id) \/ Record(id)
  \/ Remove(id) \/ Release(id) \/ OnCompletion(id)

Execute(id) == \E outcome \in {"completed", "failed"} : ExecutorReturns(id, outcome)

Cancel(k) == (\E id \in IDs : CancelGet(k, id)) \/ CancelTake(k) \/ CancelCall(k)

Next ==
  \/ \E id \in IDs : Create(id) \/ Drive(id) \/ Execute(id) \/ Expire(id)
  \/ \E k \in Cancellers : Cancel(k)

Spec == Init /\ [][Next]_vars

(***************************************************************************)
(* As long as a goroutine can run or a timer of WithTimeout is set, one of *)
(* them goes on: with finitely many executions, each of finitely many      *)
(* steps, that is no less than fairness to each.  What becomes of the      *)
(* context given to Execute is open.  The executor is only obliged to      *)
(* return once its context has ended: it passes it to every request it     *)
(* makes.  Nobody is obliged to create or to cancel, not even to go on     *)
(* with a Cancel that has begun.                                           *)
(***************************************************************************)
FairSpec ==
  /\ Spec
  /\ WF_vars(\E id \in IDs :
       \/ Drive(id)
       \/ ctx[id] \in {"deadline", "canceled"} /\ Execute(id)
       \/ id \notin SyncIDs /\ Expire(id))

----------------------------------------------------------------------------
Driven == IDs \ SyncIDs   \* those with a goroutine of their own

(***************************************************************************)
(* The manager never refuses a driver: no eviction, Cancel or other        *)
(* execution gets between it and the transition it is about to record, so  *)
(* the early returns of start and executeAndRecord, which would leave the  *)
(* execution running for ever or its counter behind, are never taken.      *)
(***************************************************************************)
NeverRefused ==
  \A id \in IDs : /\ pc[id] = "start"  => status[id] = "created"
                  /\ pc[id] = "record" => status[id] = "running"

(***************************************************************************)
(* Events are published in order and numbered 1, 2, 3: created, started    *)
(* and one verdict, although the counter lives in a shared map and is      *)
(* deleted with the verdict.                                               *)
(***************************************************************************)
LogInOrder ==
  \A id \in IDs : LET log == published[id] IN
    /\ Len(log) <= 3
    /\ \A n \in 1..Len(log) :
         /\ log[n].sequence = n
         /\ log[n].type \in (CASE n = 1 -> {"created"} [] n = 2 -> {"running"}
                               [] n = 3 -> Verdicts)

(***************************************************************************)
(* No event is ahead of the lifecycle: who has seen a verdict announced    *)
(* finds that verdict in the manager, or the execution evicted; who has    *)
(* seen it started finds it started.                                       *)
(***************************************************************************)
NotAheadOfStatus ==
  \A id \in IDs : \A n \in 1..Len(published[id]) :
    LET type == published[id][n].type IN
    /\ type \in Verdicts => status[id] \in {type, "absent"}
    /\ type = "running"  => status[id] # "created"

(***************************************************************************)
(* A driven execution ends as cancelled only if somebody's Cancel was      *)
(* accepted: neither its deadline, nor the cancel() of its own deferred    *)
(* function, nor a Cancel of another execution is taken for one.           *)
(***************************************************************************)
CancelledByCaller ==
  \A id \in Driven : status[id] = "cancelled" => id \in accepted

\* Of concurrent Cancels of one execution at most one is accepted.
OneCancelAccepted ==
  \A id \in IDs :
    Cardinality({k \in Cancellers : canceller[k] = [at |-> "call", id |-> id]})
      + (IF id \in accepted THEN 1 ELSE 0) <= 1

(***************************************************************************)
(* From the go statement until its verdict is recorded, an execution can   *)
(* be cancelled, unless a Cancel of it already was accepted: clients learn *)
(* its ID only then, so none is told that a running execution is inactive. *)
(***************************************************************************)
Cancellable ==
  \A id \in Driven :
    pc[id] \in {"spawn", "execute", "checkDeadline", "checkCanceled", "record"} =>
      \/ id \in active \cup accepted
      \/ \E k \in Cancellers : canceller[k] = [at |-> "call", id |-> id]

(***************************************************************************)
(* A finished execution leaves nothing behind: no CancelFunc, no sequence  *)
(* counter, no context whose timer is still armed.                         *)
(***************************************************************************)
NoLeak ==
  \A id \in IDs : pc[id] = "done" =>
    /\ id \notin active
    /\ sequences[id] = 0
    /\ id \in Driven => ctx[id] \in {"deadline", "canceled"}

(***************************************************************************)
(* Every execution that start accepts comes to its completion callback,    *)
(* with a verdict: a hanging request cannot keep it, and the slot of its   *)
(* client, for longer than its timeout.                                    *)
(***************************************************************************)
RunsEnd ==
  \A id \in Driven :
    pc[id] # "idle" ~> pc[id] = "done" /\ status[id] \notin Manager!Active

(***************************************************************************)
(* A context that ends while the executor is still at work decides the     *)
(* verdict, whatever the executor makes of it: a Cancel accepted then ends *)
(* the execution as cancelled, a deadline as failed.                       *)
(***************************************************************************)
ContextDecides ==
  \A id \in IDs :
    /\ pc[id] = "execute" /\ ctx[id] = "canceled" ~> status[id] = "cancelled"
    /\ pc[id] = "execute" /\ ctx[id] = "deadline" ~> status[id] = "failed"
==============================================================================
