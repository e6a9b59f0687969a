---------------------------- MODULE ExecutorProofs ----------------------------
(***************************************************************************)
(* Theorems about Executor for every number of requests and of tokens; and *)
(* in the last section about Process, which makes the executor and gives   *)
(* it its tokens.                                                          *)
(***************************************************************************)
EXTENDS Executor, Process, TLAPS, FiniteSetTheorems

Alive == {i \in Requests : stage[i] \notin {"none", "gone"}}

\* The WaitGroup counts the goroutines that have not exited.
WaitingInv == waiting = Cardinality(Alive)

\* The loop starts the requests in order, and Execute returns after all of them.
LoopInv ==
  /\ main \in {"validate", "refused"} => spawned = 0
  /\ \A i \in Requests : stage[i] = "none" <=> i > spawned
  /\ main = "returned" => spawned = RequestCount /\ Alive = {}

\* A goroutine has its result from the moment it has nothing more to do.
ResultInv ==
  \A i \in Requests : results[i] # "none" <=> stage[i] \in {"release", "exit", "gone"}

\* The invariant that is inductive.
IInv == TypeOK /\ TokensConserved /\ WaitingInv /\ LoopInv /\ ResultInv

----------------------------------------------------------------------------
\* Sets of requests are finite, and grow and shrink by one.
LEMMA RequestSets ==
  ASSUME NEW S \in SUBSET Requests
  PROVE  /\ Cardinality(S) \in Nat
         /\ \A i \in Requests \ S : Cardinality(S \cup {i}) = Cardinality(S) + 1
         /\ \A i \in S : Cardinality(S \ {i}) = Cardinality(S) - 1 /\ Cardinality(S) # 0
         /\ Cardinality(S) = 0 => S = {}
<1>1. IsFiniteSet(Requests)
  BY FS_Interval, ExecutorAssumption DEF Requests
<1>2. IsFiniteSet(S)
  BY <1>1, FS_Subset
<1>3. ASSUME NEW i \in Requests \ S PROVE Cardinality(S \cup {i}) = Cardinality(S) + 1
  BY <1>2, FS_AddElement
<1>4. ASSUME NEW i \in S PROVE Cardinality(S \ {i}) = Cardinality(S) - 1 /\ Cardinality(S) # 0
  BY <1>2, FS_RemoveElement, FS_EmptySet
<1> QED
  BY <1>2, <1>3, <1>4, FS_CardinalityType, FS_EmptySet

\* Nothing runs: all tokens are free and nobody is waited for.
LEMMA InitHolds == Init => IInv
<1> SUFFICES ASSUME Init PROVE IInv
  OBVIOUS
<1>1. TypeOK /\ ResultInv
  BY ExecutorAssumption DEF Init, TypeOK, ResultInv, Stages, Results
<1>2. Holding = {} /\ Alive = {}
  BY DEF Init, Holding, Alive
<1>3. TokensConserved /\ WaitingInv
  BY <1>2, FS_EmptySet, ExecutorAssumption DEF Init, TokensConserved, WaitingInv
<1>4. LoopInv
  BY <1>2 DEF Init, LoopInv, Requests
<1> QED
  BY <1>1, <1>3, <1>4 DEF IInv

\* A step that moves no goroutine keeps the sets the counters count.
LEMMA SameSets ==
  ASSUME stage' = stage
  PROVE  Holding' = Holding /\ Alive' = Alive
  BY DEF Holding, Alive

\* Execute's own steps.
LEMMA MainStep ==
  ASSUME IInv, Validate \/ Spawn \/ Return \/ ContextEnds
  PROVE  IInv'
<1> USE DEF IInv
<1>1. CASE Validate
  BY <1>1, SameSets DEF Validate, TypeOK, TokensConserved, WaitingInv, LoopInv, ResultInv
<1>2. CASE Spawn
  <2> DEFINE n == spawned + 1
  <2>1. n \in Requests /\ stage[n] = "none" /\ results[n] = "none"
    BY <1>2, ExecutorAssumption DEF Spawn, TypeOK, LoopInv, ResultInv, Requests
  <2>2. TypeOK'
    BY <1>2, <2>1, ExecutorAssumption DEF Spawn, TypeOK, Stages
  <2>3. Holding' = Holding
    BY <1>2, <2>1 DEF Spawn, TypeOK, Holding
  <2>4. Alive' = Alive \cup {n} /\ n \in Requests \ Alive
    BY <1>2, <2>1 DEF Spawn, TypeOK, Alive
  <2>5. TokensConserved'
    BY <1>2, <2>3 DEF Spawn, TokensConserved
  <2>6. WaitingInv'
    <3>1. Alive \in SUBSET Requests
      BY DEF Alive
    <3> QED
      BY <1>2, <2>4, <3>1, RequestSets DEF Spawn, WaitingInv
  <2>7. LoopInv'
    BY <1>2, <2>1 DEF Spawn, TypeOK, LoopInv, Requests
  <2>8. ResultInv'
    BY <1>2, <2>1 DEF Spawn, TypeOK, ResultInv
  <2> QED
    BY <2>2, <2>5, <2>6, <2>7, <2>8
<1>3. CASE Return
  <2>1. Alive = {}
    <3>1. Alive \in SUBSET Requests
      BY DEF Alive
    <3> QED
      BY <1>3, <3>1, RequestSets DEF Return, WaitingInv
  <2> QED
    BY <1>3, <2>1, SameSets
    DEF Return, TypeOK, TokensConserved, WaitingInv, LoopInv, ResultInv
<1>4. CASE ContextEnds
  BY <1>4, SameSets DEF ContextEnds, TypeOK, TokensConserved, WaitingInv, LoopInv, ResultInv
<1> QED
  BY <1>1, <1>2, <1>3, <1>4

\* A goroutine that takes or gives back a token.
LEMMA TokenStep ==
  ASSUME IInv, NEW i \in Requests, Acquire(i) \/ Release(i)
  PROVE  IInv'
<1> USE DEF IInv
<1>1. TypeOK'
  <2>1. Release(i) => tokens \in Nat \ {0}
    <3>1. Release(i) => i \in Holding
      BY DEF Release, Holding
    <3>2. Holding \in SUBSET Requests
      BY DEF Holding
    <3> QED
      BY <3>1, <3>2, RequestSets DEF TokensConserved
  <2> QED
    BY <2>1 DEF Acquire, Release, TypeOK, Stages
<1>2. Alive' = Alive
  BY DEF Acquire, Release, TypeOK, Alive
<1>3. CASE Acquire(i)
  <2>1. Holding' = Holding \cup {i} /\ i \in Requests \ Holding /\ Holding \in SUBSET Requests
    BY <1>3 DEF Acquire, TypeOK, Holding
  <2>2. TokensConserved'
    BY <1>3, <2>1, RequestSets, ExecutorAssumption DEF Acquire, TypeOK, TokensConserved
  <2> QED
    BY <1>1, <1>2, <1>3, <2>2 DEF Acquire, TypeOK, WaitingInv, LoopInv, ResultInv
<1>4. CASE Release(i)
  <2>1. Holding' = Holding \ {i} /\ i \in Holding /\ Holding \in SUBSET Requests
    BY <1>4 DEF Release, TypeOK, Holding
  <2>2. TokensConserved'
    BY <1>4, <2>1, RequestSets, ExecutorAssumption DEF Release, TypeOK, TokensConserved
  <2> QED
    BY <1>1, <1>2, <1>4, <2>2 DEF Release, TypeOK, WaitingInv, LoopInv, ResultInv
<1> QED
  BY <1>3, <1>4

\* A goroutine that works, and one that gives up.
LEMMA WorkStep ==
  ASSUME IInv, NEW i \in Requests, Abandon(i) \/ Prepare(i) \/ Do(i)
  PROVE  IInv'
<1> USE DEF IInv
<1>1. TypeOK'
  BY DEF Abandon, Prepare, Do, TypeOK, Stages, Results
<1>2. Holding' = Holding /\ Alive' = Alive
  BY DEF Abandon, Prepare, Do, TypeOK, Holding, Alive
<1>3. TokensConserved' /\ WaitingInv'
  BY <1>2 DEF Abandon, Prepare, Do, TokensConserved, WaitingInv
<1>4. LoopInv'
  BY <1>2 DEF Abandon, Prepare, Do, TypeOK, LoopInv
<1>5. ResultInv'
  BY DEF Abandon, Prepare, Do, TypeOK, ResultInv
<1> QED
  BY <1>1, <1>3, <1>4, <1>5

\* The deferred wg.Done: the goroutine and its unit of the counter go together.
LEMMA ExitStep ==
  ASSUME IInv, NEW i \in Requests, Exit(i)
  PROVE  IInv'
<1> USE DEF IInv
<1>1. Alive' = Alive \ {i} /\ i \in Alive /\ Alive \in SUBSET Requests
  BY DEF Exit, TypeOK, Alive
<1>2. WaitingInv' /\ waiting' \in Nat
  BY <1>1, RequestSets DEF Exit, WaitingInv
<1>3. TypeOK'
  BY <1>2 DEF Exit, TypeOK, Stages
<1>4. Holding' = Holding
  BY DEF Exit, TypeOK, Holding
<1>5. TokensConserved'
  BY <1>4 DEF Exit, TokensConserved
<1>6. LoopInv' /\ ResultInv'
  BY <1>1 DEF Exit, TypeOK, LoopInv, ResultInv
<1> QED
  BY <1>2, <1>3, <1>5, <1>6

\* Every step of the executor keeps the invariant.
LEMMA StepKeepsIInv == IInv /\ [Next]_vars => IInv'
<1> SUFFICES ASSUME IInv, [Next]_vars PROVE IInv'
  OBVIOUS
<1>1. CASE Validate \/ Spawn \/ Return \/ ContextEnds
  BY <1>1, MainStep
<1>2. ASSUME NEW i \in Requests, Run(i) PROVE IInv'
  BY <1>2, TokenStep, WorkStep, ExitStep DEF Run
<1>3. CASE UNCHANGED vars
  BY <1>3, SameSets
  DEF vars, IInv, TypeOK, TokensConserved, WaitingInv, LoopInv, ResultInv
<1> QED
  BY <1>1, <1>2, <1>3 DEF Next

\* The strengthened invariant holds in every reachable state.
THEOREM Invariance == Spec => []IInv
<1>1. Init => IInv
  BY InitHolds
<1>2. IInv /\ [Next]_vars => IInv'
  BY StepKeepsIInv
<1> QED
  BY <1>1, <1>2, PTL DEF Spec

\* Every variable has its type: no counter of Execute is ever negative.
THEOREM TypeCorrect == Spec => []TypeOK
<1>1. IInv => TypeOK
  BY DEF IInv
<1> QED
  BY <1>1, Invariance, PTL

\* Torus never sees more than maxConcurrent requests of an execution at once.
THEOREM ConcurrencyIsBounded == Spec => []TokensConserved
<1>1. IInv => TokensConserved
  BY DEF IInv
<1> QED
  BY <1>1, Invariance, PTL

\* When Execute returns, every goroutine is gone and every result is there.
THEOREM ReturnsComplete == Spec => []NothingLeftBehind
<1>1. IInv => NothingLeftBehind
  <2> SUFFICES ASSUME IInv, main = "returned", NEW i \in Requests
               PROVE  stage[i] = "gone" /\ results[i] # "none"
    BY DEF NothingLeftBehind
  <2>1. stage[i] # "none" /\ i \notin Alive
    BY ExecutorAssumption DEF IInv, LoopInv, Requests
  <2>2. stage[i] = "gone"
    BY <2>1 DEF Alive
  <2> QED
    BY <2>2 DEF IInv, ResultInv
<1> QED
  BY <1>1, Invariance, PTL

\* No goroutine writes its result twice.
THEOREM ResultsAreFinal == Spec => WrittenOnce
<1>1. IInv /\ [Next]_vars =>
        [\A i \in Requests : results[i] # "none" => results'[i] = results[i]]_vars
  BY DEF IInv, ResultInv, TypeOK, Next, vars, Run, Validate, Spawn, Return, ContextEnds,
         Acquire, Abandon, Prepare, Do, Release, Exit
<1> QED
  BY <1>1, Invariance, PTL DEF Spec, WrittenOnce

\* Every step of Execute is a step of ExecutorPromise or none, as far as safety goes.
THEOREM KeepsPromise == Spec => Promise!Spec
<1>1. Init => Promise!Init
  BY DEF Init, Promise!Init
<1>2. TypeOK /\ [Next]_vars => [Promise!Next]_Promise!vars
  <2> SUFFICES ASSUME TypeOK, [Next]_vars PROVE [Promise!Next]_Promise!vars
    OBVIOUS
  <2> USE DEF Promise!vars, Promise!Next
  <2>1. CASE Validate
    BY <2>1 DEF Validate, Promise!Refuse, Promise!Begin
  <2>2. CASE Return
    BY <2>2 DEF Return, Promise!Return
  <2>3. CASE ContextEnds
    BY <2>3 DEF ContextEnds, Promise!ContextEnds
  <2>4. CASE Spawn
    BY <2>4 DEF Spawn
  <2>5. ASSUME NEW i \in Requests, Run(i) PROVE UNCHANGED <<ctx, main>>
    BY <2>5 DEF Run, Acquire, Abandon, Prepare, Do, Release, Exit
  <2>6. CASE UNCHANGED vars
    BY <2>6 DEF vars
  <2> QED
    BY <2>1, <2>2, <2>3, <2>4, <2>5, <2>6 DEF Next
<1> QED
  BY <1>1, <1>2, TypeCorrect, PTL DEF Spec, Promise!Spec
----------------------------------------------------------------------------
(***************************************************************************)
(* The safety in Returns: until Execute is back somebody can take a step   *)
(* though the context never ends, and every step leaves less to do.        *)
(***************************************************************************)
Advance == [none |-> 0, select |-> 1, prepare |-> 2, send |-> 3, release |-> 4,
            exit |-> 5, gone |-> 6]

\* Who is not waiting: a turn of the loop, wg.Wait, or a goroutine.
SomebodyMoves ==
  \/ main = "validate"
  \/ main = "loop" /\ (spawned < RequestCount \/ waiting = 0)
  \/ \E i \in Alive : stage[i] = "select" => tokens < MaxConcurrent

(***************************************************************************)
(* Execute never deadlocks: if the loop is done and wg.Wait waits, some    *)
(* goroutine is alive; and if all that are alive wait for a token, nobody  *)
(* holds one, so that a token is free.                                     *)
(***************************************************************************)
THEOREM NeverDeadlocks == Spec => [](main \notin {"returned", "refused"} => SomebodyMoves)
<1>1. IInv => (main \notin {"returned", "refused"} => SomebodyMoves)
  <2> SUFFICES ASSUME IInv, main = "loop", waiting # 0,
                      \A i \in Alive : stage[i] = "select"
               PROVE  tokens < MaxConcurrent /\ Alive # {}
    BY DEF IInv, TypeOK, SomebodyMoves
  <2>1. Holding = {}
    BY DEF Holding, Alive
  <2>2. tokens = 0 /\ Alive # {}
    BY <2>1, FS_EmptySet DEF IInv, TokensConserved, WaitingInv
  <2> QED
    BY <2>2, ExecutorAssumption
<1> QED
  BY <1>1, Invariance, PTL

\* Its goroutine does a statement, and none is done again.
Further(i) == Advance[stage'[i]] > Advance[stage[i]]

(***************************************************************************)
(* No step undoes another's work, and each but the end of the context gets *)
(* the loop, Execute or one goroutine further; there are finitely many of  *)
(* such steps, so Execute cannot go on for ever.                           *)
(***************************************************************************)
THEOREM EveryStepLeavesLess ==
  Spec => [][/\ \A i \in Requests : stage'[i] = stage[i] \/ Further(i)
             /\ \/ ctx = "live" /\ ctx' = "ended"
                \/ main = "validate" /\ main' # "validate"
                \/ main = "loop" /\ main' = "returned"
                \/ spawned' = spawned + 1 /\ spawned' <= RequestCount
                \/ \E i \in Requests : Further(i)]_vars
<1> DEFINE Goal == /\ \A i \in Requests : stage'[i] = stage[i] \/ Further(i)
                   /\ \/ ctx = "live" /\ ctx' = "ended"
                      \/ main = "validate" /\ main' # "validate"
                      \/ main = "loop" /\ main' = "returned"
                      \/ spawned' = spawned + 1 /\ spawned' <= RequestCount
                      \/ \E i \in Requests : Further(i)
<1>1. IInv /\ Next => Goal
  <2> SUFFICES ASSUME IInv, Next PROVE Goal
    OBVIOUS
  <2>1. CASE Validate \/ Return \/ ContextEnds
    BY <2>1 DEF Validate, Return, ContextEnds
  <2>2. CASE Spawn
    <3>1. spawned + 1 \in Requests /\ stage[spawned + 1] = "none" /\ spawned' <= RequestCount
      BY <2>2, ExecutorAssumption DEF Spawn, IInv, TypeOK, LoopInv, Requests
    <3> QED
      BY <2>2, <3>1 DEF Spawn, IInv, TypeOK, Further, Advance
  <2>3. ASSUME NEW i \in Requests, Run(i) PROVE Goal
    <3>1. Further(i)
      BY <2>3 DEF Run, Acquire, Abandon, Prepare, Do, Release, Exit, IInv, TypeOK, Further,
                  Advance
    <3>2. \A j \in Requests \ {i} : stage'[j] = stage[j]
      BY <2>3 DEF Run, Acquire, Abandon, Prepare, Do, Release, Exit, IInv, TypeOK
    <3> QED
      BY <3>1, <3>2
  <2> QED
    BY <2>1, <2>2, <2>3 DEF Next
<1>2. IInv /\ [Next]_vars => [Goal]_vars
  BY <1>1
<1> QED
  BY <1>2, Invariance, PTL DEF Spec

----------------------------------------------------------------------------
(***************************************************************************)
(* The process that makes the executor.  That there are tokens at all is   *)
(* an assumption of Executor; main of cmd/controller/main.go is where it   *)
(* comes from.                                                             *)
(***************************************************************************)

\* Every setting is a number from Load on, and what the constructors are given
\* is positive after Wire.
SettingsInv ==
  /\ phase = "wire" => settings \in [Settings -> Int]
  /\ WiredAsAssumed

\* The server's goroutine is spawned by Serve, and ListenAndServe says that it
\* was closed only after Shutdown was called.
ServerInv ==
  /\ phase \in {"load", "wire", "serve"} => server = "none"
  /\ server = "closing" => phase # "wait"
  /\ serverErrors \in {"none", "failed", "closed"}
  /\ serverErrors = "closed" => phase \notin {"load", "wire", "serve", "wait"}

\* main is in Shutdown after a signal only and in Close after the time limit
\* only, and nothing else cuts a request off.
ExitInv ==
  /\ phase \in {"drain", "close"} => signalled
  /\ phase = "close" => expired
  /\ DOMAIN request = HTTPRequests
  /\ \A r \in HTTPRequests : request[r] = "cut" => phase = "returned"
  /\ GracefulExit

ProcessInv == SettingsInv /\ ServerInv /\ ExitInv

\* The process starts in it.
LEMMA InitProcess ==
  ASSUME ProcessInit
  PROVE  ProcessInv
  BY ProcessAssumption DEF ProcessInit, ProcessInv, SettingsInv, ServerInv, ExitInv,
         WiredAsAssumed, GracefulExit

\* The settings: Load takes numbers, and Wire replaces those that are not positive.
LEMMA SettingsStep ==
  ASSUME ProcessInv, [ProcessNext]_processVars
  PROVE  SettingsInv'
<1> USE DEF ProcessInv, SettingsInv, WiredAsAssumed
<1>1. CASE Load
  <2>1. PICK environment \in [Settings -> Numbers \cup {Unset, Malformed}] :
          IF \E s \in Settings : environment[s] = Malformed
            THEN phase' = "fatal" /\ UNCHANGED settings
            ELSE /\ phase' = "wire"
                 /\ settings' = [s \in Settings |->
                                   IF environment[s] = Unset THEN Default[s] ELSE environment[s]]
    BY <1>1 DEF Load
  <2>2. CASE \E s \in Settings : environment[s] = Malformed
    BY <2>1, <2>2
  <2>3. CASE ~ \E s \in Settings : environment[s] = Malformed
    <3>1. \A s \in Settings :
            (IF environment[s] = Unset THEN Default[s] ELSE environment[s]) \in Int
      <4> SUFFICES ASSUME NEW s \in Settings
                   PROVE  Default[s] \in Int /\ (environment[s] # Unset => environment[s] \in Int)
        OBVIOUS
      <4>1. environment[s] \in Numbers \cup {Unset} /\ Numbers \subseteq Int
        BY <2>3, ProcessAssumption
      <4>2. Default[s] \in Int
        BY ProcessAssumption
      <4> QED
        BY <4>1, <4>2
    <3> QED
      BY <2>1, <2>3, <3>1
  <2> QED
    BY <2>2, <2>3
<1>2. CASE Wire
  <2>1. \A s \in Settings : Fallback[s] \in Int /\ Fallback[s] > 0 /\ settings[s] \in Int
    BY <1>2, ProcessAssumption DEF Wire
  <2>2. \A s \in Settings \ {Port} : settings'[s] > 0
    BY <1>2, <2>1 DEF Wire, Clamped
  <2> QED
    BY <1>2, <2>2 DEF Wire
<1>3. CASE UNCHANGED <<phase, settings>>
  BY <1>3
<1>4. CASE phase \notin {"load", "wire", "fatal"} /\ phase' # "wire" /\ UNCHANGED settings
  BY <1>4
<1> QED
  BY <1>1, <1>2, <1>3, <1>4
  DEF ProcessNext, Main, processVars, Serve, Signal,
      SelectSignal, SelectError, Drained, Expire,
      TimedOut, Close, Listen, ServerFails,
      ServerClosed, Arrive, Handle

\* The server's goroutine, and how far main has got when it says that it was closed.
LEMMA ServerStep ==
  ASSUME ProcessInv, [ProcessNext]_processVars
  PROVE  ServerInv'
<1> USE DEF ProcessInv, ServerInv
<1>1. CASE Main
  BY <1>1
  DEF Main, Load, Wire, Serve, SelectSignal,
      SelectError, Drained, TimedOut, Close
<1>2. CASE Listen \/ ServerFails \/ ServerClosed
  BY <1>2
  DEF Listen, ServerFails, ServerClosed, Report,
      Running
<1> QED
  BY <1>1, <1>2
  DEF ProcessNext, processVars, Signal, Expire, Arrive,
      Handle

(***************************************************************************)
(* The way out.  SelectError cannot return: before Shutdown the server     *)
(* does not say that it was closed.  What is left are Drained, which waits *)
(* for the handlers, and Close, which cuts them off after the time limit.  *)
(***************************************************************************)
LEMMA ReturnStep ==
  ASSUME ProcessInv, [ProcessNext]_processVars
  PROVE  ExitInv'
<1> USE DEF ProcessInv, ExitInv, GracefulExit
<1>1. CASE Close
  BY <1>1 DEF Close
<1>2. CASE SelectError
  BY <1>2 DEF SelectError, ServerInv
<1>3. CASE Drained
  BY <1>3 DEF Drained
<1>4. ASSUME NEW r \in HTTPRequests, Arrive(r) \/ Handle(r)
      PROVE  ExitInv'
  <2>1. phase # "returned" /\ phase' = phase
    BY <1>4 DEF Arrive, Handle, Running
  <2>2. \A q \in HTTPRequests : request'[q] = "cut" => request[q] = "cut"
    BY <1>4 DEF Arrive, Handle
  <2>3. DOMAIN request' = HTTPRequests
    BY <1>4 DEF Arrive, Handle
  <2> QED
    BY <1>4, <2>1, <2>2, <2>3 DEF Arrive, Handle
<1>5. CASE UNCHANGED request /\ phase' # "returned" /\ phase # "returned"
           /\ (phase' \in {"drain", "close"} => signalled')
           /\ (phase' = "close" => expired')
  BY <1>5
<1>6. CASE UNCHANGED processVars
  BY <1>6 DEF processVars
<1> QED
  BY <1>1, <1>2, <1>3, <1>4, <1>5, <1>6
  DEF ProcessNext, Main, Load, Wire, Serve,
      Signal, SelectSignal, Expire, TimedOut,
      Listen, ServerFails, ServerClosed, Running

\* All three parts hold of every state of the process.
LEMMA ProcessInvariance == ProcessSpec => []ProcessInv
<1>1. ProcessInv /\ [ProcessNext]_processVars => ProcessInv'
  <2> SUFFICES ASSUME ProcessInv, [ProcessNext]_processVars PROVE ProcessInv'
    OBVIOUS
  <2>1. SettingsInv'
    BY SettingsStep
  <2>2. ServerInv'
    BY ServerStep
  <2>3. ExitInv'
    BY ReturnStep
  <2> QED
    BY <2>1, <2>2, <2>3 DEF ProcessInv
<1> QED
  BY InitProcess, <1>1, PTL DEF ProcessSpec

(***************************************************************************)
(* Whatever the environment variables say, the components are made with    *)
(* positive limits.                                                        *)
(***************************************************************************)
THEOREM LimitsArePositive == ProcessSpec => []WiredAsAssumed
<1>1. ProcessInv => WiredAsAssumed
  BY DEF ProcessInv, SettingsInv
<1> QED
  BY ProcessInvariance, <1>1, PTL

(***************************************************************************)
(* main returns after a signal only, with every request answered, taken    *)
(* over by WebSocket, or cut off after the time limit.                     *)
(***************************************************************************)
THEOREM ExitIsGraceful == ProcessSpec => []GracefulExit
<1>1. ProcessInv => GracefulExit
  BY DEF ProcessInv, ExitInv
<1> QED
  BY ProcessInvariance, <1>1, PTL
==============================================================================
