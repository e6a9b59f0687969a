--------------------------- MODULE ControllerProofs ---------------------------
(***************************************************************************)
(* Theorems about Controller for every number of requests, clients and     *)
(* cancellers, and every limit.                                            *)
(*                                                                         *)
(* A step of the controller is a step, or a stutter, of the rate limiter   *)
(* and one of the execution service.  So the invariants proved of the two  *)
(* parts alone (RateLimiterProofs, ExecutionServiceProofs) hold of the     *)
(* composition, and all that is left to show is how the handler ties the   *)
(* state of one to that of the other.                                      *)
(***************************************************************************)
EXTENDS Controller, TLAPS, FiniteSetTheorems

\* The instances Limiter and Service, with the theorems about them.
Slots == INSTANCE RateLimiterProofs WITH
  Requests <- Runs, active <- slots, Window <- 1, MaxTime <- 0
Engine == INSTANCE ExecutionServiceProofs WITH IDs <- Runs, SyncIDs <- {}

----------------------------------------------------------------------------
\* The assumptions of the two parts are those of the controller.
LEMMA PartsAssumptions == Slots!LimiterAssumption /\ Engine!ServiceAssumption
  BY ControllerAssumption
  DEF Slots!LimiterAssumption, Slots!IsFiniteSet, Engine!ServiceAssumption,
      Engine!IsFiniteSet, IsFiniteSet

\* The operators of FiniteSets mean the same in every instance.
LEMMA SameCardinality ==
  \A S : /\ Slots!Cardinality(S) = Cardinality(S)
         /\ Limiter!Cardinality(S) = Cardinality(S)
         /\ Engine!Manager!Cardinality(S) = Cardinality(S)
         /\ Service!Manager!Cardinality(S) = Cardinality(S)
  BY DEF Slots!Cardinality, Limiter!Cardinality, Engine!Manager!Cardinality,
         Service!Manager!Cardinality, Cardinality

----------------------------------------------------------------------------
\* ReadClock of Limiter is ReadClock of Slots, and so on for each action below.
LEMMA SlotsReadClock ==
  ASSUME NEW r \in Runs, NEW c \in Clients, Limiter!ReadClock(r, c)
  PROVE  Slots!ReadClock(r, c)
  BY DEF Limiter!ReadClock, Slots!ReadClock

\* Allow under its mutex.
LEMMA SlotsDecide ==
  ASSUME NEW r \in Runs, Limiter!Decide(r)
  PROVE  Slots!Decide(r)
<1>1. Limiter!Unexpired(r) = Slots!Unexpired(r)
  BY DEF Limiter!Unexpired, Slots!Unexpired
<1>2. Limiter!Exhausted(r) <=> Slots!Exhausted(r)
  BY <1>1, SameCardinality DEF Limiter!Exhausted, Slots!Exhausted
<1>3. ASSUME NEW c, NEW n, NEW S, Limiter!Store(c, n, S) PROVE Slots!Store(c, n, S)
  BY <1>3 DEF Limiter!Store, Slots!Store, Limiter!IsIdle, Slots!IsIdle
<1> QED
  BY <1>1, <1>2, <1>3 DEF Limiter!Decide, Slots!Decide

\* Done.
LEMMA SlotsDone ==
  ASSUME NEW r \in Runs, Limiter!Done(r)
  PROVE  Slots!Done(r)
  BY DEF Limiter!Done, Slots!Done, Limiter!Store, Slots!Store, Limiter!IsIdle, Slots!IsIdle

\* Create of the service, down to the manager's evictions.
LEMMA EngineCreate ==
  ASSUME NEW r \in Runs, Service!Create(r)
  PROVE  Engine!Create(r)
<1>1. Service!Manager!Evictions(r) = Engine!Manager!Evictions(r)
  BY SameCardinality
  DEF Service!Manager!Evictions, Engine!Manager!Evictions, Service!Manager!Retained,
      Engine!Manager!Retained, Service!Manager!Terminal, Engine!Manager!Terminal
<1>2. Engine!Manager!Create(r)
  BY <1>1 DEF Service!Create, Service!Manager!Create, Engine!Manager!Create
<1> QED
  BY <1>2 DEF Service!Create, Engine!Create, Service!Publish, Engine!Publish,
              Service!Goto, Engine!Goto

\* Start.
LEMMA EngineStart ==
  ASSUME NEW r \in Runs, Service!Start(r)
  PROVE  Engine!Start(r)
  BY DEF Service!Start, Engine!Start, Service!Manager!Start, Engine!Manager!Start,
         Service!Publish, Engine!Publish, Service!Goto, Engine!Goto

\* The publishing statements of the driver.
LEMMA EnginePublishes ==
  ASSUME NEW r \in Runs
  PROVE  /\ Service!Assign(r) => Engine!Assign(r)
         /\ Service!Deliver(r) => Engine!Deliver(r)
         /\ Service!Forget(r) => Engine!Forget(r)
  BY DEF Service!Assign, Engine!Assign, Service!Deliver, Engine!Deliver,
         Service!Forget, Engine!Forget, Service!Goto, Engine!Goto,
         Service!AfterEvent, Engine!AfterEvent, Service!Returned, Engine!Returned,
         Service!NoEvent, Engine!NoEvent

\* The statements up to the verdict.
LEMMA EngineRuns ==
  ASSUME NEW r \in Runs
  PROVE  /\ Service!Register(r) => Engine!Register(r)
         /\ Service!Spawn(r) => Engine!Spawn(r)
         /\ Service!Execute(r) => Engine!Execute(r)
         /\ Service!CheckDeadline(r) => Engine!CheckDeadline(r)
         /\ Service!CheckCanceled(r) => Engine!CheckCanceled(r)
         /\ Service!Record(r) => Engine!Record(r)
  BY DEF Service!Register, Engine!Register, Service!Spawn, Engine!Spawn,
         Service!Execute, Engine!Execute, Service!ExecutorReturns, Engine!ExecutorReturns,
         Service!CheckDeadline, Engine!CheckDeadline, Service!CheckCanceled,
         Engine!CheckCanceled, Service!Record, Engine!Record, Service!Goto, Engine!Goto,
         Service!Manager!Finish, Engine!Manager!Finish, Service!Publish, Engine!Publish,
         Service!Returned, Engine!Returned

\* The deferred function, and the timer.
LEMMA EngineEnds ==
  ASSUME NEW r \in Runs
  PROVE  /\ Service!Remove(r) => Engine!Remove(r)
         /\ Service!Release(r) => Engine!Release(r)
         /\ Service!OnCompletion(r) => Engine!OnCompletion(r)
         /\ Service!Expire(r) => Engine!Expire(r)
  BY DEF Service!Remove, Engine!Remove, Service!Release, Engine!Release,
         Service!OnCompletion, Engine!OnCompletion, Service!Expire, Engine!Expire,
         Service!Goto, Engine!Goto, Service!Cancelled, Engine!Cancelled

\* Cancel.
LEMMA EngineCancels ==
  ASSUME NEW k \in Cancellers
  PROVE  /\ \A r \in Runs : Service!CancelGet(k, r) => Engine!CancelGet(k, r)
         /\ Service!CancelTake(k) => Engine!CancelTake(k)
         /\ Service!CancelCall(k) => Engine!CancelCall(k)
  BY DEF Service!CancelGet, Engine!CancelGet, Service!CancelTake, Engine!CancelTake,
         Service!CancelCall, Engine!CancelCall, Service!Cancelled, Engine!Cancelled,
         Service!Resting, Engine!Resting, Service!Manager!Active, Engine!Manager!Active

----------------------------------------------------------------------------
(***************************************************************************)
(* The slots and the service are given to the controller's actions as a    *)
(* whole: it changes neither but by their own actions.                     *)
(***************************************************************************)
LEMMA StepOfSlots == [Next]_vars => [Slots!Next]_(Slots!vars)
<1> SUFFICES ASSUME [Next]_vars PROVE Slots!Next \/ UNCHANGED Slots!vars
  OBVIOUS
<1>1. ASSUME UNCHANGED limiterVars PROVE UNCHANGED Slots!vars
  BY <1>1 DEF limiterVars, Slots!vars
<1>2. ASSUME NEW r \in Runs, Slots!Decide(r) \/ Slots!Done(r) PROVE Slots!Next
  BY <1>2 DEF Slots!Next
<1>3. ASSUME NEW r \in Runs, Arrive(r) PROVE Slots!Next
  <2>1. PICK c \in Clients : Slots!ReadClock(r, c)
    BY <1>3, SlotsReadClock DEF Arrive
  <2> QED
    BY <2>1 DEF Slots!Next
<1>4. ASSUME NEW r \in Runs, Allow(r) PROVE Slots!Next
  BY <1>4, <1>2, SlotsDecide DEF Allow
<1>5. ASSUME NEW r \in Runs, NoIdentity(r) \/ Complete(r) PROVE Slots!Next
  BY <1>5, <1>2, SlotsDone DEF NoIdentity, Complete
<1>6. ASSUME NEW r \in Runs, Start(r) PROVE Slots!Next \/ UNCHANGED Slots!vars
  BY <1>6, <1>1, <1>2, SlotsDone DEF Start
<1>7. ASSUME NEW r \in Runs, Begin(r) \/ Drive(r) \/ Execute(r) \/ Expire(r) \/ Accept(r)
      PROVE  UNCHANGED Slots!vars
  BY <1>7, <1>1 DEF Begin, Drive, Execute, Expire, Accept
<1>8. ASSUME NEW k \in Cancellers, Cancel(k) PROVE UNCHANGED Slots!vars
  BY <1>8, <1>1 DEF Cancel
<1>9. CASE UNCHANGED vars
  BY <1>9, <1>1 DEF vars
<1> QED
  BY <1>3, <1>4, <1>5, <1>6, <1>7, <1>8, <1>9 DEF Next

\* The same of the service.
LEMMA StepOfEngine == [Next]_vars => [Engine!Next]_(Engine!vars)
<1> SUFFICES ASSUME [Next]_vars PROVE Engine!Next \/ UNCHANGED Engine!vars
  OBVIOUS
<1>1. ASSUME UNCHANGED serviceVars PROVE UNCHANGED Engine!vars
  BY <1>1 DEF serviceVars, Engine!vars
<1>2. ASSUME NEW r \in Runs,
             \/ Engine!Create(r) \/ Engine!Drive(r) \/ Engine!Execute(r) \/ Engine!Expire(r)
      PROVE  Engine!Next
  BY <1>2 DEF Engine!Next
<1>3. ASSUME NEW r \in Runs, Begin(r) PROVE Engine!Next
  BY <1>3, <1>2, EngineCreate DEF Begin
<1>4. ASSUME NEW r \in Runs, Start(r) \/ Drive(r) \/ Complete(r) PROVE Engine!Next
  <2>1. Engine!Drive(r)
    BY <1>4, EngineStart, EnginePublishes, EngineRuns, EngineEnds
    DEF Start, Drive, Complete, Engine!Drive
  <2> QED
    BY <2>1, <1>2
<1>5. ASSUME NEW r \in Runs, Execute(r) \/ Expire(r) PROVE Engine!Next
  BY <1>5, <1>2, EngineRuns, EngineEnds DEF Execute, Expire
<1>6. ASSUME NEW r \in Runs, Arrive(r) \/ Allow(r) \/ NoIdentity(r) \/ Accept(r)
      PROVE  UNCHANGED Engine!vars
  BY <1>6, <1>1 DEF Arrive, Allow, NoIdentity, Accept
<1>7. ASSUME NEW k \in Cancellers, Cancel(k) PROVE Engine!Next
  <2>1. Engine!Cancel(k)
    BY <1>7, EngineCancels DEF Cancel, Engine!Cancel
  <2> QED
    BY <2>1 DEF Engine!Next
<1>8. CASE UNCHANGED vars
  BY <1>8, <1>1 DEF vars
<1> QED
  BY <1>3, <1>4, <1>5, <1>6, <1>7, <1>8 DEF Next

\* Initially both are empty.
LEMMA PartsInit == Init => Slots!Init /\ Engine!Init
  BY DEF Init, Limiter!Init, Slots!Init, Service!Init, Engine!Init, Service!Manager!Init,
         Engine!Manager!Init, Service!NoEvent, Engine!NoEvent, Service!Resting, Engine!Resting

(***************************************************************************)
(* The composition runs the rate limiter and the execution service of the  *)
(* other modules: handlers, callbacks and cancellers of the server never   *)
(* make them do what they could not do on their own.                       *)
(***************************************************************************)
THEOREM RunsItsParts == Spec => Slots!Spec /\ Engine!Spec
  BY PartsInit, StepOfSlots, StepOfEngine, PTL DEF Spec, Slots!Spec, Engine!Spec

(***************************************************************************)
(* So what is proved of limiter and service alone holds of handleRun with  *)
(* both: no handler, callback or cancel handler breaks the terms on which  *)
(* either of them was found correct.                                       *)
(***************************************************************************)
THEOREM PartsKeepTheirWord ==
  Spec => [](/\ Slots!SlotsConserved /\ Slots!TrailingWindow
             /\ Engine!NeverRefused /\ Engine!LogInOrder /\ Engine!NotAheadOfStatus
             /\ Engine!CancelledByCaller /\ Engine!OneCancelAccepted
             /\ Engine!Cancellable /\ Engine!NoLeak)
<1>1. Slots!Spec => [](Slots!SlotsConserved /\ Slots!TrailingWindow)
  BY PartsAssumptions, Slots!SlotsAreConserved, Slots!WindowIsBounded, PTL
<1>2. Engine!Spec => [](/\ Engine!NeverRefused /\ Engine!LogInOrder /\ Engine!NotAheadOfStatus
                        /\ Engine!CancelledByCaller /\ Engine!OneCancelAccepted
                        /\ Engine!Cancellable /\ Engine!NoLeak)
  BY PartsAssumptions, Engine!ManagerNeverRefuses, Engine!EventsInOrder,
     Engine!EventsFollowStatus, Engine!OnlyCallersCancel, Engine!CancelsOnce,
     Engine!CancellableWhileRunning, Engine!LeavesNothing, PTL
<1> QED
  BY <1>1, <1>2, RunsItsParts, PTL

\* Their inductive invariants hold of it too.
LEMMA PartsInvariance == Spec => [](Slots!IInv /\ Engine!IInv)
<1>1. Slots!Spec => []Slots!IInv
  BY PartsAssumptions, Slots!Invariance
<1>2. Engine!Spec => []Engine!IInv
  BY PartsAssumptions, Engine!Invariance
<1> QED
  BY <1>1, <1>2, RunsItsParts, PTL

----------------------------------------------------------------------------
(***************************************************************************)
(* How the handler ties them: an execution on its way has the slot of its  *)
(* request, and one that was answered 202 has had its context made.        *)
(***************************************************************************)
HandlerInv ==
  /\ reply \in [Runs -> {0, 202, 429, 500}]
  /\ \A r \in Runs : /\ pc[r] \notin {"idle", "done"} => at[r] = "admitted"
                     /\ reply[r] = 202 => ctx[r] # "none"

\* Nothing is on its way, nothing answered.
LEMMA InitHandler == Init => HandlerInv
  BY DEF Init, HandlerInv, Limiter!Init, Service!Init

\* A driver moves itself only, from a statement that is neither first nor last.
LEMMA DriverMoves ==
  ASSUME Engine!TypeOK, NEW r \in Runs, Engine!Drive(r) \/ Engine!Execute(r)
  PROVE  /\ pc[r] \notin {"idle", "done"}
         /\ \A q \in Runs \ {r} : pc'[q] = pc[q]
         /\ \A q \in Runs : ctx[q] # "none" => ctx'[q] # "none"
<1> USE DEF Engine!TypeOK, Engine!Goto
<1>1. CASE Engine!Assign(r)
  BY <1>1 DEF Engine!Assign
<1>2. CASE Engine!Deliver(r)
  BY <1>2 DEF Engine!Deliver
<1>3. CASE Engine!Forget(r)
  BY <1>3 DEF Engine!Forget
<1>4. CASE Engine!Start(r)
  BY <1>4 DEF Engine!Start, Engine!Publish
<1>5. CASE Engine!Register(r) \/ Engine!Spawn(r)
  BY <1>5 DEF Engine!Register, Engine!Spawn
<1>6. CASE Engine!Execute(r)
  BY <1>6 DEF Engine!Execute, Engine!ExecutorReturns
<1>7. CASE Engine!CheckDeadline(r) \/ Engine!CheckCanceled(r)
  BY <1>7 DEF Engine!CheckDeadline, Engine!CheckCanceled
<1>8. CASE Engine!Record(r)
  BY <1>8 DEF Engine!Record, Engine!Publish
<1>9. CASE Engine!Remove(r) \/ Engine!Release(r) \/ Engine!OnCompletion(r)
  BY <1>9 DEF Engine!Remove, Engine!Release, Engine!Cancelled, Engine!OnCompletion
<1> QED
  BY <1>1, <1>2, <1>3, <1>4, <1>5, <1>6, <1>7, <1>8, <1>9 DEF Engine!Drive

\* Timers and cancellers move no driver and end contexts only.
LEMMA OthersMove ==
  ASSUME Engine!TypeOK,
         \/ \E r \in Runs : Engine!Expire(r)
         \/ \E k \in Cancellers : Engine!Cancel(k)
  PROVE  pc' = pc /\ \A q \in Runs : ctx[q] # "none" => ctx'[q] # "none"
<1>1. ASSUME NEW r \in Runs, Engine!Expire(r)
      PROVE  pc' = pc /\ \A q \in Runs : ctx[q] # "none" => ctx'[q] # "none"
  BY <1>1 DEF Engine!TypeOK, Engine!Expire
<1>2. ASSUME NEW k \in Cancellers, Engine!Cancel(k)
      PROVE  pc' = pc /\ \A q \in Runs : ctx[q] # "none" => ctx'[q] # "none"
  BY <1>2 DEF Engine!TypeOK, Engine!Cancel, Engine!CancelGet, Engine!CancelTake,
              Engine!CancelCall, Engine!Cancelled
<1> QED
  BY <1>1, <1>2

(***************************************************************************)
(* The slot is taken before the execution is created, and given back in    *)
(* the step that ends its driver or before there is one; 202 is answered   *)
(* after the context was made.                                             *)
(***************************************************************************)
LEMMA StepKeepsHandler ==
  Slots!IInv /\ Engine!IInv /\ HandlerInv /\ [Next]_vars => HandlerInv'
<1> SUFFICES ASSUME Slots!TypeOK, Engine!TypeOK, HandlerInv, [Next]_vars PROVE HandlerInv'
  BY DEF Slots!IInv, Engine!IInv
<1> USE DEF HandlerInv
<1>0. /\ at \in [Runs -> Slots!Stages] /\ pc \in [Runs -> Engine!Locations]
      /\ ctx \in [Runs -> {"none", "live", "deadline", "canceled"}]
  BY DEF Slots!TypeOK, Engine!TypeOK
<1>1. ASSUME NEW r \in Runs, Arrive(r) PROVE HandlerInv'
  BY <1>0, <1>1 DEF Arrive, Limiter!ReadClock, serviceVars
<1>2. ASSUME NEW r \in Runs, Allow(r) PROVE HandlerInv'
  <2>1. at[r] = "clock" /\ \A q \in Runs \ {r} : at'[q] = at[q]
    BY <1>0, <1>2 DEF Allow, Limiter!Decide
  <2>2. pc' = pc /\ ctx' = ctx /\ (reply' = reply \/ reply' = [reply EXCEPT ![r] = 429])
    BY <1>2 DEF Allow, Answer, serviceVars
  <2> QED
    BY <2>1, <2>2
<1>3. ASSUME NEW r \in Runs, NoIdentity(r) PROVE HandlerInv'
  <2>1. pc[r] = "idle" /\ \A q \in Runs \ {r} : at'[q] = at[q]
    BY <1>0, <1>3 DEF NoIdentity, Limiter!Done
  <2>2. pc' = pc /\ ctx' = ctx /\ reply' = [reply EXCEPT ![r] = 500]
    BY <1>3 DEF NoIdentity, Answer, serviceVars
  <2> QED
    BY <2>1, <2>2
<1>4. ASSUME NEW r \in Runs, Begin(r) PROVE HandlerInv'
  BY <1>0, <1>4 DEF Begin, Service!Create, Service!Publish, Service!Goto, limiterVars
<1>5. ASSUME NEW r \in Runs, Start(r) PROVE HandlerInv'
  <2>1. /\ pc[r] = "start" /\ ctx' = ctx
        /\ \A q \in Runs \ {r} : pc'[q] = pc[q]
    BY <1>0, <1>5 DEF Start, Service!Start, Service!Publish, Service!Goto
  <2>2. CASE pc'[r] = "done"
    <3>1. \A q \in Runs \ {r} : at'[q] = at[q]
      BY <1>0, <1>5, <2>2 DEF Start, Limiter!Done
    <3>2. reply' = [reply EXCEPT ![r] = 500]
      BY <1>5, <2>2 DEF Start, Answer
    <3> QED
      BY <2>1, <2>2, <3>1, <3>2
  <2>3. CASE pc'[r] # "done"
    BY <1>5, <2>1, <2>3 DEF Start, limiterVars
  <2> QED
    BY <2>2, <2>3
<1>6. ASSUME NEW r \in Runs, Drive(r) \/ Execute(r) PROVE HandlerInv'
  <2>1. Engine!Drive(r) \/ Engine!Execute(r)
    BY <1>6, EnginePublishes, EngineRuns, EngineEnds DEF Drive, Execute, Engine!Drive
  <2>2. at' = at /\ reply' = reply
    BY <1>6 DEF Drive, Execute, limiterVars
  <2> QED
    BY <2>1, <2>2, DriverMoves
<1>7. ASSUME NEW r \in Runs, Expire(r) PROVE HandlerInv'
  <2>1. Engine!Expire(r) /\ at' = at /\ reply' = reply
    BY <1>7, EngineEnds DEF Expire, limiterVars
  <2> QED
    BY <2>1, OthersMove
<1>8. ASSUME NEW r \in Runs, Accept(r) PROVE HandlerInv'
  BY <1>8 DEF Accept, Answer, limiterVars, serviceVars
<1>9. ASSUME NEW r \in Runs, Complete(r) PROVE HandlerInv'
  <2>1. /\ pc' = [pc EXCEPT ![r] = "done"] /\ ctx' = ctx /\ reply' = reply
    BY <1>9 DEF Complete, Service!OnCompletion, Service!Goto
  <2>2. \A q \in Runs \ {r} : at'[q] = at[q]
    BY <1>0, <1>9 DEF Complete, Limiter!Done
  <2> QED
    BY <1>0, <2>1, <2>2
<1>10. ASSUME NEW k \in Cancellers, Cancel(k) PROVE HandlerInv'
  <2>1. Engine!Cancel(k) /\ at' = at /\ reply' = reply
    BY <1>10, EngineCancels DEF Cancel, Engine!Cancel, limiterVars
  <2> QED
    BY <2>1, OthersMove
<1>11. CASE UNCHANGED vars
  BY <1>11 DEF vars, limiterVars, serviceVars
<1> QED
  BY <1>1, <1>2, <1>3, <1>4, <1>5, <1>6, <1>7, <1>8, <1>9, <1>10, <1>11 DEF Next

\* The handler's part of the invariant.
LEMMA HandlerInvariance == Spec => []HandlerInv
  BY InitHandler, StepKeepsHandler, PartsInvariance, PTL DEF Spec

----------------------------------------------------------------------------
\* TypeOK of the whole is that of its parts, by other names.
THEOREM TypeCorrect == Spec => []TypeOK
<1>1. Slots!TypeOK => Limiter!TypeOK
  BY DEF Slots!TypeOK, Limiter!TypeOK, Slots!Stages, Limiter!Stages
<1>2. Engine!TypeOK => Service!TypeOK
  BY DEF Engine!TypeOK, Service!TypeOK, Engine!Manager!TypeOK, Service!Manager!TypeOK,
         Engine!Manager!Statuses, Service!Manager!Statuses, Engine!Manager!Active,
         Service!Manager!Active, Engine!Manager!Terminal, Service!Manager!Terminal,
         Engine!Locations, Service!Locations, Engine!Verdicts, Service!Verdicts,
         Engine!NoEvent, Service!NoEvent, Engine!Events, Service!Events,
         Engine!Types, Service!Types
<1>3. Slots!IInv /\ Engine!IInv /\ HandlerInv => TypeOK
  BY <1>1, <1>2 DEF Slots!IInv, Engine!IInv, HandlerInv, TypeOK
<1> QED
  BY <1>3, PartsInvariance, HandlerInvariance, PTL

(***************************************************************************)
(* A client has no more executions in flight than its limit: each of them  *)
(* holds a slot, and the limiter has that many.                            *)
(***************************************************************************)
THEOREM ExecutionsInFlightAreBounded == Spec => []InFlightBounded
<1>1. Slots!IInv /\ HandlerInv => InFlightBounded
  <2> SUFFICES ASSUME Slots!IInv, HandlerInv, NEW c \in Clients
               PROVE  Cardinality(InFlight(c)) <= MaxConcurrent
    BY DEF InFlightBounded
  <2>1. InFlight(c) \in SUBSET Slots!Holders(c) /\ Slots!Holders(c) \in SUBSET Runs
    BY DEF InFlight, HandlerInv, Slots!Holders
  <2>2. Slots!Cardinality(Slots!Holders(c)) <= MaxConcurrent
    BY DEF Slots!IInv, Slots!SlotsConserved
  <2>3. Cardinality(Slots!Holders(c)) <= MaxConcurrent
    BY <2>2, SameCardinality
  <2>4. IsFiniteSet(Slots!Holders(c))
    BY <2>1, ControllerAssumption, FS_Subset
  <2>5. /\ Cardinality(InFlight(c)) \in Nat /\ Cardinality(Slots!Holders(c)) \in Nat
        /\ Cardinality(InFlight(c)) <= Cardinality(Slots!Holders(c))
    BY <2>1, <2>4, FS_Subset, FS_CardinalityType
  <2> QED
    BY <2>3, <2>5, ControllerAssumption
<1> QED
  BY <1>1, PartsInvariance, HandlerInvariance, PTL

(***************************************************************************)
(* Who was answered 202 finds the execution in the manager until it has    *)
(* its verdict: with a context made, it is past its start, and from there  *)
(* on it is running until the verdict is recorded.                         *)
(***************************************************************************)
THEOREM AcceptedExecutionsAreKnown == Spec => []AcceptedIsKnown
<1>1. Engine!IInv /\ HandlerInv => AcceptedIsKnown
  <2> SUFFICES ASSUME Engine!IInv, HandlerInv, NEW r \in Runs, reply[r] = 202,
                      status[r] = "absent"
               PROVE  /\ verdict[r] # "none"
                      /\ pc[r] \in {"assign", "deliver", "forget", "remove", "release",
                                    "complete", "done"}
    BY DEF AcceptedIsKnown
  <2>0. /\ Engine!Verdicts = {"completed", "failed", "cancelled"}
        /\ Engine!Types = {"created", "running"} \cup Engine!Verdicts
    BY DEF Engine!Verdicts, Engine!Types, Engine!Manager!Terminal, Engine!Manager!Active
  <2>1. /\ Engine!DriverInv(r) /\ ~Engine!Early(r) /\ pc[r] \in Engine!Locations
    BY DEF HandlerInv, Engine!IInv, Engine!EventInv, Engine!ContextInv, Engine!TypeOK
  <2>2. pc[r] \notin {"idle", "start"} \cup Engine!Middle
    BY <2>1 DEF Engine!Early, Engine!DriverInv
  <2>3. pc[r] \in {"assign", "deliver"} \cup Engine!Finished
    BY <2>1, <2>2 DEF Engine!Locations, Engine!Middle, Engine!Finished
  <2>4. verdict[r] \in Engine!Verdicts
    <3>1. CASE Engine!Publishing(r)
      BY <2>1, <3>1, <2>0 DEF Engine!DriverInv, Engine!Early, Engine!Events
    <3>2. CASE ~Engine!Publishing(r)
      BY <2>1, <2>3, <3>2 DEF Engine!DriverInv, Engine!Publishing
    <3> QED
      BY <3>1, <3>2
  <2> QED
    BY <2>0, <2>3, <2>4 DEF Engine!Finished
<1> QED
  BY <1>1, PartsInvariance, HandlerInvariance, PTL

----------------------------------------------------------------------------
(***************************************************************************)
(* The safety in SlotReturned.  handleRun gives a slot back itself only if *)
(* there is no execution, and otherwise the step that ends the execution's *)
(* goroutine does: in between it is never free, and never after.           *)
(***************************************************************************)
SlotInv ==
  \A r \in Runs :
    /\ at[r] \in {"new", "clock"} => reply[r] = 0
    /\ at[r] = "admitted" => pc[r] # "done" /\ (pc[r] = "idle" => reply[r] = 0)
    /\ at[r] = "done" => pc[r] = "done" \/ (pc[r] = "idle" /\ reply[r] = 500)
    /\ pc[r] = "done" => at[r] = "done"

\* Of the statements of a driver, only Start and OnCompletion may be its last.
LEMMA DriverGoesOn ==
  ASSUME Engine!TypeOK, NEW r \in Runs, Drive(r) \/ Execute(r)
  PROVE  pc'[r] \notin {"idle", "done"}
<1> USE DEF Service!Goto, Engine!TypeOK
<1>1. CASE Service!Assign(r) \/ Service!Register(r) \/ Service!Spawn(r) \/ Service!Remove(r)
           \/ Service!Release(r)
  BY <1>1 DEF Service!Assign, Service!Register, Service!Spawn, Service!Remove,
              Service!Release
<1>2. CASE Service!Deliver(r) \/ Service!Forget(r)
  <2>1. pc'[r] \in {Service!AfterEvent(r, outgoing[r].type), Service!Returned(r)}
    BY <1>2 DEF Service!Deliver, Service!Forget
  <2>2. Service!AfterEvent(r, outgoing[r].type) \in {"start", "register", "forget"}
    BY DEF Service!AfterEvent
  <2> QED
    BY <2>1, <2>2 DEF Service!Returned
<1>3. CASE Service!Record(r)
  BY <1>3 DEF Service!Record, Service!Publish, Service!Returned
<1>4. CASE Service!CheckDeadline(r) \/ Service!CheckCanceled(r) \/ Service!Execute(r)
  BY <1>4 DEF Service!CheckDeadline, Service!CheckCanceled, Service!Execute,
              Service!ExecutorReturns
<1> QED
  BY <1>1, <1>2, <1>3, <1>4 DEF Drive, Execute

\* Each handler, callback and canceller leaves the slots where they belong.
LEMMA StepKeepsSlots ==
  Slots!IInv /\ Engine!IInv /\ HandlerInv /\ SlotInv /\ [Next]_vars => SlotInv'
<1> SUFFICES ASSUME Slots!TypeOK, Engine!TypeOK, Engine!IInv, HandlerInv, SlotInv, [Next]_vars
             PROVE  SlotInv'
  BY DEF Slots!IInv, Engine!IInv
<1> USE DEF SlotInv
<1>0. /\ at \in [Runs -> Slots!Stages] /\ pc \in [Runs -> Engine!Locations]
      /\ reply \in [Runs -> {0, 202, 429, 500}]
  BY DEF Slots!TypeOK, Engine!TypeOK, HandlerInv
\* A step of one request, and what it must do to it.
<1>1. ASSUME NEW r \in Runs,
             \A q \in Runs \ {r} : at'[q] = at[q] /\ pc'[q] = pc[q] /\ reply'[q] = reply[q],
             /\ at'[r] \in {"new", "clock"} => reply'[r] = 0
             /\ at'[r] = "admitted" => pc'[r] # "done" /\ (pc'[r] = "idle" => reply'[r] = 0)
             /\ at'[r] = "done" => pc'[r] = "done" \/ (pc'[r] = "idle" /\ reply'[r] = 500)
             /\ pc'[r] = "done" => at'[r] = "done"
      PROVE  SlotInv'
  BY <1>1
<1>2. ASSUME NEW r \in Runs, Arrive(r) PROVE SlotInv'
  BY <1>0, <1>1, <1>2 DEF Arrive, Limiter!ReadClock, serviceVars
<1>3. ASSUME NEW r \in Runs, Allow(r) PROVE SlotInv'
  <2>1. /\ at[r] = "clock" /\ at'[r] \in {"admitted", "refused"}
        /\ \A q \in Runs \ {r} : at'[q] = at[q]
    BY <1>0, <1>3 DEF Allow, Limiter!Decide
  <2>2. /\ pc' = pc
        /\ reply' = IF at'[r] = "refused" THEN [reply EXCEPT ![r] = 429] ELSE reply
    BY <1>3 DEF Allow, Answer, serviceVars
  <2> QED
    BY <1>0, <1>1, <2>1, <2>2
<1>4. ASSUME NEW r \in Runs, NoIdentity(r) PROVE SlotInv'
  <2>1. at' = [at EXCEPT ![r] = "done"] /\ pc[r] = "idle"
    BY <1>4 DEF NoIdentity, Limiter!Done
  <2>2. pc' = pc /\ reply' = [reply EXCEPT ![r] = 500]
    BY <1>4 DEF NoIdentity, Answer, serviceVars
  <2> QED
    BY <1>0, <1>1, <2>1, <2>2
<1>5. ASSUME NEW r \in Runs, Begin(r) PROVE SlotInv'
  <2>1. pc' = [pc EXCEPT ![r] = "assign"] /\ at' = at /\ reply' = reply /\ at[r] = "admitted"
    BY <1>5 DEF Begin, Service!Create, Service!Publish, Service!Goto, limiterVars
  <2> QED
    BY <1>0, <1>1, <2>1
<1>6. ASSUME NEW r \in Runs, Start(r) PROVE SlotInv'
  <2>1. pc[r] = "start" /\ (pc' = [pc EXCEPT ![r] = "assign"] \/ pc' = [pc EXCEPT ![r] = "done"])
    BY <1>6 DEF Start, Service!Start, Service!Publish, Service!Goto
  <2>2. CASE pc'[r] = "done"
    <3>1. at' = [at EXCEPT ![r] = "done"] /\ reply' = [reply EXCEPT ![r] = 500]
      BY <1>6, <2>2 DEF Start, Limiter!Done, Answer
    <3> QED
      BY <1>0, <1>1, <2>1, <2>2, <3>1
  <2>3. CASE pc'[r] # "done"
    <3>1. at' = at /\ reply' = reply
      BY <1>6, <2>3 DEF Start, limiterVars
    <3>2. at[r] = "admitted"
      BY <2>1 DEF HandlerInv
    <3> QED
      BY <1>0, <1>1, <2>1, <2>3, <3>1, <3>2
  <2> QED
    BY <2>2, <2>3
<1>7. ASSUME NEW r \in Runs, Drive(r) \/ Execute(r) PROVE SlotInv'
  <2>1. Engine!Drive(r) \/ Engine!Execute(r)
    BY <1>7, EnginePublishes, EngineRuns, EngineEnds DEF Drive, Execute, Engine!Drive
  <2>2. at' = at /\ reply' = reply
    BY <1>7 DEF Drive, Execute, limiterVars
  <2>3. pc[r] \notin {"idle", "done"} /\ pc'[r] \notin {"idle", "done"}
        /\ \A q \in Runs \ {r} : pc'[q] = pc[q]
    BY <1>7, <2>1, DriverMoves, DriverGoesOn
  <2>4. at[r] = "admitted"
    BY <2>3 DEF HandlerInv
  <2> QED
    BY <1>1, <2>2, <2>3, <2>4
<1>8. ASSUME NEW r \in Runs, Expire(r) PROVE SlotInv'
  <2>1. Engine!Expire(r) /\ at' = at /\ reply' = reply
    BY <1>8, EngineEnds DEF Expire, limiterVars
  <2> QED
    BY <2>1, OthersMove
<1>9. ASSUME NEW r \in Runs, Accept(r) PROVE SlotInv'
  <2>1. /\ ctx[r] # "none" /\ reply' = [reply EXCEPT ![r] = 202] /\ at' = at /\ pc' = pc
        /\ reply[r] = 0
    BY <1>9 DEF Accept, Answer, limiterVars, serviceVars
  <2>2. pc[r] # "idle"
    BY <2>1 DEF Engine!IInv, Engine!ContextInv, Engine!Early
  <2>3. at[r] \in {"admitted", "done"}
    BY <2>2 DEF HandlerInv
  <2> QED
    BY <1>0, <1>1, <2>1, <2>2, <2>3
<1>10. ASSUME NEW r \in Runs, Complete(r) PROVE SlotInv'
  <2>1. /\ pc' = [pc EXCEPT ![r] = "done"] /\ reply' = reply
        /\ at' = [at EXCEPT ![r] = "done"]
    BY <1>10 DEF Complete, Service!OnCompletion, Service!Goto, Limiter!Done
  <2> QED
    BY <1>0, <1>1, <2>1
<1>11. ASSUME NEW k \in Cancellers, Cancel(k) PROVE SlotInv'
  <2>1. Engine!Cancel(k) /\ at' = at /\ reply' = reply
    BY <1>11, EngineCancels DEF Cancel, Engine!Cancel, limiterVars
  <2> QED
    BY <2>1, OthersMove
<1>12. CASE UNCHANGED vars
  BY <1>12 DEF vars, limiterVars, serviceVars
<1> QED
  BY <1>2, <1>3, <1>4, <1>5, <1>6, <1>7, <1>8, <1>9, <1>10, <1>11, <1>12 DEF Next

\* Requests between Allow and StartWithCompletion: their handlers hold the slot.
Starting(c) ==
  {r \in Runs : client[r] = c /\ at[r] = "admitted" /\ pc[r] = "idle" /\ reply[r] = 0}

\* The counter of the limiter, as the controller would count.
SlotsInUse == \A c \in Clients : slots[c] = Cardinality(InFlight(c) \cup Starting(c))

(***************************************************************************)
(* No slot leaks: whatever fails, is cancelled or times out, the slots a   *)
(* client has taken are as many as its executions in flight and those its  *)
(* handlers are about to start.                                            *)
(***************************************************************************)
THEOREM EverySlotIsInUse == Spec => []SlotsInUse
<1>1. Init => SlotInv
  BY DEF Init, SlotInv, Limiter!Init, Service!Init
<1>2. Slots!IInv /\ HandlerInv /\ SlotInv => SlotsInUse
  <2> SUFFICES ASSUME Slots!IInv, HandlerInv, SlotInv, NEW c \in Clients
               PROVE  slots[c] = Cardinality(InFlight(c) \cup Starting(c))
    BY DEF SlotsInUse
  <2>1. InFlight(c) \cup Starting(c) = Slots!Holders(c)
    BY DEF InFlight, Starting, Slots!Holders, HandlerInv, SlotInv
  <2>2. slots[c] = Slots!Cardinality(Slots!Holders(c))
    BY DEF Slots!IInv, Slots!SlotsConserved
  <2> QED
    BY <2>1, <2>2, SameCardinality
<1> QED
  BY <1>1, <1>2, StepKeepsSlots, PartsInvariance, HandlerInvariance, PTL DEF Spec

\* What justifies a refusal: its slots, or its rate.
HasCause(r) ==
  \/ Cardinality(InFlight(client[r]) \cup Starting(client[r])) >= MaxConcurrent
  \/ Cardinality(Slots!Admitted(client[r])) >= MaxRequests

(***************************************************************************)
(* Nobody is answered 429 without a cause: as many of the client's         *)
(* executions as it may have are in flight or about to start, or as many   *)
(* of its requests as the window allows were admitted.                     *)
(***************************************************************************)
THEOREM RefusalsHaveACause ==
  Spec => [][\A r \in Runs : reply[r] # 429 /\ reply'[r] = 429 => HasCause(r)]_vars
<1> DEFINE Recent(r) == {q \in Slots!Admitted(client[r]) : stamp[r] - stamp[q] < 1}
           Cause(r) == \/ Slots!Cardinality(Slots!Holders(client[r])) >= MaxConcurrent
                       \/ Slots!Cardinality(Recent(r)) >= MaxRequests
           Refuses(r) == at[r] # "refused" /\ at'[r] = "refused"
<1>0. Slots!Spec => Slots!RefusedForCause
  BY PartsAssumptions, Slots!RefusalsAreJustified
<1>1. Slots!RefusedForCause => [][\A r \in Runs : Refuses(r) => Cause(r)]_(Slots!vars)
  BY DEF Slots!RefusedForCause
<1>2. ASSUME Slots!IInv, SlotsInUse, reply \in [Runs -> {0, 202, 429, 500}], Next, NEW r \in Runs, reply[r] # 429, reply'[r] = 429,
             [\A q \in Runs : Refuses(q) => Cause(q)]_(Slots!vars)
      PROVE  HasCause(r)
  <2>0. reply \in [Runs -> {0, 202, 429, 500}]
    BY <1>2
  <2>1. Allow(r)
    <3>1. ASSUME NEW q \in Runs, Allow(q) PROVE q = r
      BY <1>2, <2>0, <3>1 DEF Allow, Answer
    <3>2. ASSUME NEW q \in Runs, NoIdentity(q) \/ Start(q) \/ Accept(q) PROVE FALSE
      BY <1>2, <2>0, <3>2 DEF NoIdentity, Start, Accept, Answer
    <3>3. ASSUME reply' = reply PROVE FALSE
      BY <1>2, <3>3
    <3> QED
      BY <1>2, <3>1, <3>2, <3>3
      DEF Next, Arrive, Begin, Drive, Execute, Expire, Complete, Cancel
  <2>2. at[r] = "clock" /\ at'[r] = "refused"
    BY <1>2, <2>1 DEF Allow, Limiter!Decide, Slots!IInv, Slots!TypeOK
  <2>3. Refuses(r) /\ ~UNCHANGED Slots!vars
    BY <2>2 DEF Slots!vars
  <2>4. Cause(r)
    BY <1>2, <2>3
  <2>5. client[r] \in Clients
    BY <1>2, <2>2 DEF Slots!IInv, Slots!TypeOK
  <2>6. CASE Slots!Cardinality(Slots!Holders(client[r])) >= MaxConcurrent
    <3>1. slots[client[r]] = Slots!Cardinality(Slots!Holders(client[r]))
      BY <1>2, <2>5 DEF Slots!IInv, Slots!SlotsConserved
    <3> QED
      BY <1>2, <2>5, <2>6, <3>1 DEF SlotsInUse, HasCause
  <2>7. CASE Slots!Cardinality(Recent(r)) >= MaxRequests
    <3>1. Recent(r) \in SUBSET Slots!Admitted(client[r])
          /\ Slots!Admitted(client[r]) \in SUBSET Runs
      BY DEF Slots!Admitted
    <3>2. IsFiniteSet(Slots!Admitted(client[r]))
      BY <3>1, ControllerAssumption, FS_Subset
    <3>3. /\ Cardinality(Recent(r)) <= Cardinality(Slots!Admitted(client[r]))
          /\ Cardinality(Recent(r)) \in Nat /\ Cardinality(Slots!Admitted(client[r])) \in Nat
      BY <3>1, <3>2, FS_Subset, FS_CardinalityType
    <3>4. Cardinality(Recent(r)) >= MaxRequests
      BY <2>7, SameCardinality
    <3> QED
      BY <3>3, <3>4, ControllerAssumption DEF HasCause
  <2> QED
    BY <2>4, <2>6, <2>7
<1>3. Slots!IInv /\ SlotsInUse /\ HandlerInv /\ [Next]_vars
      /\ [\A r \in Runs : Refuses(r) => Cause(r)]_(Slots!vars)
      => [\A r \in Runs : reply[r] # 429 /\ reply'[r] = 429 => HasCause(r)]_vars
  BY <1>2 DEF HandlerInv
<1> QED
  BY <1>0, <1>1, <1>3, EverySlotIsInUse, PartsInvariance, HandlerInvariance, RunsItsParts, PTL
  DEF Spec

(***************************************************************************)
(* A Cancel that was accepted, or a deadline, while the executor is at     *)
(* work is never overruled with handlers and callbacks around either.      *)
(***************************************************************************)
THEOREM ContextIsNeverOverruled == Spec => Engine!NeverOverruled
<1>1. Engine!Spec => Engine!NeverOverruled
  BY PartsAssumptions, Engine!ContextIsNeverOverruled
<1> QED
  BY <1>1, RunsItsParts
===============================================================================
