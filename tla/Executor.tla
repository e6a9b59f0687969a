------------------------------- MODULE Executor -------------------------------
(***************************************************************************)
(* Executor.Execute of internal/execution/executor.go, and Client.Do of    *)
(* internal/torus/client.go as it uses it: one goroutine per request of    *)
(* the scenario, a channel of maxConcurrent tokens, a WaitGroup, and one   *)
(* context for all.                                                        *)
(*                                                                         *)
(* A result is one of five kinds, told apart by the fields the code fills: *)
(* "unsent" (the context ended before a token was free), "noID" and        *)
(* "unbuilt" (nothing sent either), "error" and "answered".                *)
(***************************************************************************)
EXTENDS Integers, FiniteSets

CONSTANTS
  RequestCount,   \* Scenario.RequestCount, which Validate wants in 1..50
  MaxConcurrent   \* Executor.maxConcurrent

ASSUME ExecutorAssumption ==
  /\ RequestCount \in Nat \ {0}
  /\ MaxConcurrent \in Nat \ {0}

Requests == 1..RequestCount

VARIABLES
  ctx,      \* the context of the call: "live" or "ended"
  main,     \* Execute itself: "validate", "loop", "returned" or "refused"
  spawned,  \* how many turns of its loop are done
  stage,    \* request -> where its goroutine is
  tokens,   \* len(sem)
  waiting,  \* counter of the WaitGroup
  results   \* request -> results[index], "none" before it is written

vars == <<ctx, main, spawned, stage, tokens, waiting, results>>

Stages  == {"none", "select", "prepare", "send", "release", "exit", "gone"}
Results == {"none", "unsent", "noID", "unbuilt", "error", "answered"}

\* Every variable has its type; neither counter is ever negative.
TypeOK ==
  /\ ctx \in {"live", "ended"}
  /\ main \in {"validate", "loop", "returned", "refused"}
  /\ spawned \in 0..RequestCount
  /\ stage \in [Requests -> Stages]
  /\ tokens \in Nat
  /\ waiting \in Nat
  /\ results \in [Requests -> Results]

Init ==
  /\ ctx = "live"
  /\ main = "validate"
  /\ spawned = 0
  /\ stage = [i \in Requests |-> "none"]
  /\ tokens = 0
  /\ waiting = 0
  /\ results = [i \in Requests |-> "none"]

----------------------------------------------------------------------------
\* scenario.Validate: the only error that Execute returns.
Validate ==
  /\ main = "validate"
  /\ main' \in {"loop", "refused"}
  /\ UNCHANGED <<ctx, spawned, stage, tokens, waiting, results>>

\* A bug that leaves wg.Add to the goroutine, which gets to it after the select.
SpawnUncounted ==
  /\ main = "loop" /\ spawned < RequestCount
  /\ spawned' = spawned + 1
  /\ stage' = [stage EXCEPT ![spawned + 1] = "select"]
  /\ UNCHANGED <<ctx, main, tokens, waiting, results>>

\* One turn of the loop: wg.Add(1) and the go statement.
Spawn ==
  /\ main = "loop" /\ spawned < RequestCount
  /\ spawned' = spawned + 1
  /\ stage' = [stage EXCEPT ![spawned + 1] = "select"]
  /\ waiting' = waiting + 1
  /\ UNCHANGED <<ctx, main, tokens, results>>

\* wg.Wait returns, and so does Execute.
Return ==
  /\ main = "loop" /\ spawned = RequestCount /\ waiting = 0
  /\ main' = "returned"
  /\ UNCHANGED <<ctx, spawned, stage, tokens, waiting, results>>

----------------------------------------------------------------------------
\* A channel one larger than configured.
AcquireOneMore(i) ==
  /\ stage[i] = "select" /\ tokens <= MaxConcurrent
  /\ tokens' = tokens + 1
  /\ stage' = [stage EXCEPT ![i] = "prepare"]
  /\ UNCHANGED <<ctx, main, spawned, waiting, results>>

\* The select: with a token free and the context ended, either branch is taken.
Acquire(i) ==
  /\ stage[i] = "select" /\ tokens < MaxConcurrent
  /\ tokens' = tokens + 1
  /\ stage' = [stage EXCEPT ![i] = "prepare"]
  /\ UNCHANGED <<ctx, main, spawned, waiting, results>>

Abandon(i) ==
  /\ stage[i] = "select" /\ ctx = "ended"
  /\ results' = [results EXCEPT ![i] = "unsent"]
  /\ stage' = [stage EXCEPT ![i] = "exit"]
  /\ UNCHANGED <<ctx, main, spawned, tokens, waiting>>

\* A bug that returns without the deferred release of the token.
PrepareLeaking(i) ==
  /\ stage[i] = "prepare"
  /\ \/ stage' = [stage EXCEPT ![i] = "send"] /\ UNCHANGED results
     \/ /\ stage' = [stage EXCEPT ![i] = "exit"]
        /\ \E failure \in {"noID", "unbuilt"} : results' = [results EXCEPT ![i] = failure]
  /\ UNCHANGED <<ctx, main, spawned, tokens, waiting>>

\* NewRequestID and Build, each of which may fail.
Prepare(i) ==
  /\ stage[i] = "prepare"
  /\ \/ stage' = [stage EXCEPT ![i] = "send"] /\ UNCHANGED results
     \/ /\ stage' = [stage EXCEPT ![i] = "release"]
        /\ \E failure \in {"noID", "unbuilt"} : results' = [results EXCEPT ![i] = failure]
  /\ UNCHANGED <<ctx, main, spawned, tokens, waiting>>

\* Client.Do returns: an answer, or an error of the network or of the context.
Do(i) ==
  /\ stage[i] = "send"
  /\ \E outcome \in {"answered", "error"} : results' = [results EXCEPT ![i] = outcome]
  /\ stage' = [stage EXCEPT ![i] = "release"]
  /\ UNCHANGED <<ctx, main, spawned, tokens, waiting>>

\* The deferred functions, last deferred first: <-sem, then wg.Done.
Release(i) ==
  /\ stage[i] = "release"
  /\ tokens' = tokens - 1
  /\ stage' = [stage EXCEPT ![i] = "exit"]
  /\ UNCHANGED <<ctx, main, spawned, waiting, results>>

\* A goroutine that never sent returns before it has deferred wg.Done.
ExitForgotten(i) ==
  /\ stage[i] = "exit"
  /\ waiting' = IF results[i] = "unsent" THEN waiting ELSE waiting - 1
  /\ stage' = [stage EXCEPT ![i] = "gone"]
  /\ UNCHANGED <<ctx, main, spawned, tokens, results>>

Exit(i) ==
  /\ stage[i] = "exit"
  /\ waiting' = waiting - 1
  /\ stage' = [stage EXCEPT ![i] = "gone"]
  /\ UNCHANGED <<ctx, main, spawned, tokens, results>>

\* The timeout of the execution, or a Cancel.
ContextEnds ==
  /\ ctx = "live"
  /\ ctx' = "ended"
  /\ UNCHANGED <<main, spawned, stage, tokens, waiting, results>>

----------------------------------------------------------------------------
Run(i) == Acquire(i) \/ Abandon(i) \/ Prepare(i) \/ Do(i) \/ Release(i) \/ Exit(i)

Next ==
  \/ Validate \/ Spawn \/ Return \/ ContextEnds
  \/ \E i \in Requests : Run(i)

Spec == Init /\ [][Next]_vars

(***************************************************************************)
(* Goroutines run, and Client.Do returns: http.Client.Timeout, which       *)
(* NewClient always sets, bounds the exchange including the body.  Nothing *)
(* is assumed of the context.                                              *)
(***************************************************************************)
FairSpec ==
  /\ Spec
  /\ WF_vars(Validate) /\ WF_vars(Spawn) /\ WF_vars(Return)
  /\ \A i \in Requests : WF_vars(Run(i))

----------------------------------------------------------------------------
Holding == {i \in Requests : stage[i] \in {"prepare", "send", "release"}}

(***************************************************************************)
(* Torus never has more than maxConcurrent requests of an execution to     *)
(* answer at once, and each early return of a goroutine gives back exactly *)
(* the token it took.                                                      *)
(***************************************************************************)
TokensConserved == tokens = Cardinality(Holding) /\ tokens <= MaxConcurrent

(***************************************************************************)
(* When Execute has returned, no goroutine is left that could still write  *)
(* into the slice its caller now reads, and every request has its result:  *)
(* none is lost when the context ends while some have not started yet.     *)
(***************************************************************************)
NothingLeftBehind ==
  main = "returned" => \A i \in Requests : stage[i] = "gone" /\ results[i] # "none"

\* No result is written twice: an early return is not followed by another.
WrittenOnce ==
  [][\A i \in Requests : results[i] # "none" => results'[i] = results[i]]_vars

(***************************************************************************)
(* Execute refuses only before it has sent anything, and returns a result, *)
(* not an error, whatever happens to its requests, once its context ended. *)
(***************************************************************************)
Promise == INSTANCE ExecutorPromise WITH
  phase <- CASE main = "validate" -> "fresh"   [] main = "refused"  -> "refused"
             [] main = "loop"     -> "working" [] main = "returned" -> "returned"
ImplementsPromise == Promise!FairSpec

\* Even if its context never ends, Execute returns: no goroutine waits for ever
\* for a token.
Returns == main = "validate" ~> main \in {"returned", "refused"}
==============================================================================
