------------------------------ MODULE Controller ------------------------------
(***************************************************************************)
(* handleRun and the cancel handler of internal/server/server.go, composed *)
(* with the rate limiter and the execution service: POST /run takes a slot *)
(* of its client, starts an execution, and the completion callback of the  *)
(* execution gives the slot back, long after the request was answered.     *)
(*                                                                         *)
(* A request that is admitted starts the execution of the same name; the   *)
(* limiter's Requests are the service's IDs.  Decoding and validation come *)
(* first and change nothing (see Admission): a request here has passed     *)
(* them.  All of it happens within one instant of the limiter's clock:     *)
(* what the window lets through, and entries made anew, are RateLimiter's  *)
(* subject, and nothing here depends on how long an execution takes.       *)
(***************************************************************************)
EXTENDS Integers, FiniteSets

CONSTANTS
  Runs,           \* requests to POST /run, and the executions they start
  Clients, NoClient, MaxConcurrent, MaxRequests,  \* see RateLimiter
  Cancellers, NoID, MaxRetained                   \* see ExecutionService

\* What RateLimiter and ExecutionService assume of their constants.
ASSUME ControllerAssumption ==
  /\ IsFiniteSet(Runs) /\ NoID \notin Runs
  /\ NoClient \notin Clients
  /\ MaxConcurrent \in Nat \ {0}
  /\ MaxRequests \in Nat \ {0}
  /\ MaxRetained \in Nat \ {0}

VARIABLES
  now, at, client, stamp, known, slots, requests,          \* RateLimiter
  status, pc, verdict, ctx, active, sequences, outgoing,   \* ExecutionService
  published, canceller, accepted,
  reply                                                    \* run -> HTTP status sent, or 0

limiterVars == <<now, at, client, stamp, known, slots, requests>>
serviceVars == <<status, pc, verdict, ctx, active, sequences, outgoing, published,
                 canceller, accepted>>
vars == <<limiterVars, serviceVars, reply>>

Limiter == INSTANCE RateLimiter WITH
  Requests <- Runs, active <- slots, Window <- 1, MaxTime <- 0
Service == INSTANCE ExecutionService WITH IDs <- Runs, SyncIDs <- {}

\* Every variable has its type, in the parts and in the whole.
TypeOK ==
  /\ Limiter!TypeOK
  /\ Service!TypeOK
  /\ reply \in [Runs -> {0, 202, 429, 500}]

Init ==
  /\ Limiter!Init
  /\ Service!Init
  /\ reply = [r \in Runs |-> 0]

Answer(r, code) == reply' = [reply EXCEPT ![r] = code]

----------------------------------------------------------------------------
\* Allow up to its mutex.
Arrive(r) ==
  /\ \E c \in Clients : Limiter!ReadClock(r, c)
  /\ UNCHANGED <<serviceVars, reply>>

\* Allow under its mutex; a refusal is answered with 429.
Allow(r) ==
  /\ Limiter!Decide(r)
  /\ IF at'[r] = "refused" THEN Answer(r, 429) ELSE UNCHANGED reply
  /\ UNCHANGED serviceVars

\* A bug that keeps the slot when no ID could be drawn.
NoIdentityKeeps(r) ==
  /\ at[r] = "admitted" /\ pc[r] = "idle" /\ reply[r] = 0
  /\ Answer(r, 500)
  /\ UNCHANGED <<limiterVars, serviceVars>>

\* NewExecutionID fails: the slot is given back.
NoIdentity(r) ==
  /\ at[r] = "admitted" /\ pc[r] = "idle"
  /\ Limiter!Done(r)
  /\ Answer(r, 500)
  /\ UNCHANGED serviceVars

\* NewExecutionID, and the first statement of StartWithCompletion.
Begin(r) ==
  /\ at[r] = "admitted" /\ reply[r] = 0
  /\ Service!Create(r)
  /\ UNCHANGED <<limiterVars, reply>>

\* Its lifecycleManager.Start; an error makes the handler give the slot back.
Start(r) ==
  /\ Service!Start(r)
  /\ IF pc'[r] = "done"
       THEN Limiter!Done(r) /\ Answer(r, 500)
       ELSE UNCHANGED <<limiterVars, reply>>

\* The other statements of the driver, those of the service alone.
Drive(r) ==
  /\ \/ Service!Assign(r) \/ Service!Deliver(r) \/ Service!Forget(r)
     \/ Service!Register(r) \/ Service!Spawn(r)
     \/ Service!CheckDeadline(r) \/ Service!CheckCanceled(r) \/ Service!Record(r)
     \/ Service!Remove(r) \/ Service!Release(r)
  /\ UNCHANGED <<limiterVars, reply>>

Execute(r) == Service!Execute(r) /\ UNCHANGED <<limiterVars, reply>>
Expire(r)  == Service!Expire(r) /\ UNCHANGED <<limiterVars, reply>>

\* Bugs: the handler gives the slot back with its answer; it answers first.
AcceptReleasing(r) ==
  /\ ctx[r] # "none" /\ pc[r] # "spawn" /\ reply[r] = 0
  /\ Answer(r, 202)
  /\ IF at[r] = "admitted" THEN Limiter!Done(r) ELSE UNCHANGED limiterVars
  /\ UNCHANGED serviceVars
AcceptEarly(r) ==
  /\ at[r] = "admitted" /\ pc[r] = "idle" /\ reply[r] = 0
  /\ Answer(r, 202)
  /\ UNCHANGED <<limiterVars, serviceVars>>

\* StartWithCompletion has returned nil: the handler answers 202.
Accept(r) ==
  /\ ctx[r] # "none" /\ pc[r] # "spawn" /\ reply[r] = 0
  /\ Answer(r, 202)
  /\ UNCHANGED <<limiterVars, serviceVars>>

\* The completion callback.
Complete(r) ==
  /\ Service!OnCompletion(r)
  /\ Limiter!Done(r)
  /\ UNCHANGED reply

\* POST /executions/{id}/cancel, from a client that was told the ID.
Cancel(k) ==
  /\ \/ \E r \in Runs : reply[r] = 202 /\ Service!CancelGet(k, r)
     \/ Service!CancelTake(k)
     \/ Service!CancelCall(k)
  /\ UNCHANGED <<limiterVars, reply>>

----------------------------------------------------------------------------
Next ==
  \/ \E r \in Runs :
       \/ Arrive(r) \/ Allow(r) \/ NoIdentity(r) \/ Begin(r) \/ Start(r) \/ Drive(r)
       \/ Execute(r) \/ Expire(r) \/ Accept(r) \/ Complete(r)
  \/ \E k \in Cancellers : Cancel(k)

Spec == Init /\ [][Next]_vars

(***************************************************************************)
(* As long as a handler, a driver or a timer can go on, one of them does,  *)
(* which is enough as each has finitely many steps; the executor returns   *)
(* once its context has ended.  Clients are not obliged to send anything.  *)
(***************************************************************************)
FairSpec ==
  /\ Spec
  /\ WF_vars(\E r \in Runs :
       \/ Allow(r) \/ NoIdentity(r) \/ Begin(r) \/ Accept(r)
       \/ Start(r) \/ Drive(r) \/ Complete(r) \/ Expire(r)
       \/ ctx[r] \in {"deadline", "canceled"} /\ Execute(r))

----------------------------------------------------------------------------
InFlight(c) == {r \in Runs : client[r] = c /\ pc[r] \notin {"idle", "done"}}

(***************************************************************************)
(* A client has no more executions in flight than the limiter allows it:   *)
(* the slot taken by the handler outlives the handler, and is given back   *)
(* by the goroutine of the execution, after all its work.                  *)
(***************************************************************************)
InFlightBounded ==
  \A c \in Clients : Cardinality(InFlight(c)) <= MaxConcurrent

(***************************************************************************)
(* A client that was answered 202 finds its execution in the manager until *)
(* the verdict is recorded, whatever others start and evict meanwhile.     *)
(***************************************************************************)
AcceptedIsKnown ==
  \A r \in Runs :
    reply[r] = 202 /\ status[r] = "absent" =>
      verdict[r] # "none" /\ pc[r] \in {"assign", "deliver", "forget", "remove", "release",
                                       "complete", "done"}

(***************************************************************************)
(* What TestServerRateLimitFollowsExecutionLifetime asserts: once all the  *)
(* executions of a client have ended, its next request is refused for its  *)
(* rate only.  It does not hold: the slot is released after the verdict is *)
(* visible, see the README.                                                *)
(***************************************************************************)
AdmittedOnceEnded ==
  \A r \in Runs : at[r] = "clock" /\ Limiter!Exhausted(r) =>
    \/ Cardinality(Limiter!Unexpired(r)) >= MaxRequests
    \/ \E q \in Limiter!Holders(client[r]) : status[q] \notin Service!Verdicts

(***************************************************************************)
(* Every slot that is taken is given back, whether the ID could not be     *)
(* drawn, the executor hangs, or a Cancel and the deadline race.           *)
(***************************************************************************)
SlotReturned == \A r \in Runs : at[r] = "admitted" ~> at[r] = "done"
==============================================================================
