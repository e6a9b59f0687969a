# Verification of the torus demo controller

The controller is a Go HTTP service. `POST /api/v1/run` starts an *execution*: a
background run of 1 to 50 HTTP requests against Torus. Clients poll its status,
cancel it, or follow its events over a WebSocket. This directory holds TLA+
models of the parts that keep state and run concurrently, TLC configurations
that check them on small instances, and TLAPS proofs of the properties that
matter most for every instance.

To run: `tlc -config MCEventHub.cfg MCEventHub`, `tlapm ExecutorProofs.tla`, and so on.
The runs, the map from definitions to source lines, the mutants (see "How the
models are kept honest"), the hazards and the theorems are listed in `PROJECT.json`.

## 1. The system

Paths are relative to `src/internal/`. The only documentation in the repository
is its comments and its tests.

| Component | State | Operations | Talks to |
|---|---|---|---|
| Lifecycle manager, `lifecycle/` | map from ID to execution under an RWMutex; per execution a mutex, status, times, result | Create (evicts ended executions over the limit), Start, Complete, Fail, Cancel, Get | called by the service; read by the status handler |
| Execution service, `executionservice/` | IDs with a CancelFunc; sequence counter per ID; a context per execution | Execute, Start, StartWithCompletion, Cancel | manager, executor, event publisher; calls back the server on completion |
| Executor, `execution/`, and Torus client, `torus/` | per call: a semaphore, a WaitGroup, a slice of results | Execute; Client.Do | called by the service; calls generator and Torus |
| Rate limiter, `ratelimit/` | per client: slots taken, time stamps | Allow, Done | called by `POST /run` and by the completion callback |
| Event hub, `event/` | bounded history per execution; subscribers, each with a bounded channel | Publish, Subscribe, Close | published to by the service, subscribed to by the WebSocket handler |
| HTTP server, `server/server.go` | none of its own | handleRun, cancel, status, health | policy, limiter, service, manager |
| WebSocket transport, `server/websocket.go` | per connection: reader loop, writer goroutine, context | handleWebSocket | hub |
| Request generator, `request/` | a seeded random source; per call the bounds of a search | Build, generateJSONBody | called by the executor |
| Scenarios and policy, `demo/`, `policy/` | tables | Scenario.Validate, Policy.Validate | called by the server and the generator |
| Start and shutdown, `cmd/controller`, with `config/` | the server's goroutine and its error channel, the signal's context | Load, main | wires all; net/http |
| Identifiers, `identity/` | none | NewExecutionID | called by the server and the executor |

What is hard about it, and what makes each part correct:

* **Lifecycle manager.** Operations look a pointer up under the table's lock and
  use it after releasing that lock, while Create evicts; the eviction scan locks
  one execution at a time. Correct means: a verdict is final, no accepted
  transition is lost, only ended executions are evicted, oldest first, and
  retention is bounded.
* **Execution service.** A driver goroutine, cancellers and a timer share a
  context that is read twice; events are numbered and published outside the
  manager's locks; cleanup is spread over a deferred function. Correct means:
  the manager never refuses the driver, the verdict has the right cause, events
  are in order and not ahead of the status, everything is cleaned up, and every
  execution ends.
* **Rate limiter.** The clock is read before the lock; entries are deleted when
  idle and made anew. Correct means: slots are conserved, the window bound
  holds, refusals have a cause.
* **Event hub.** Replay, registration, eviction, full channels and closing
  interleave. Correct means: in order, once, nothing missed unless a channel was
  full, no send on a closed channel, and Publish never waits for a consumer.
* **Executor.** A context that ends while goroutines wait for tokens. Correct
  means: tokens conserved, one result per request, nothing left behind, return
  once the context ended.
* **Server.** A slot is taken by one goroutine and returned by another, on
  several error paths. Correct means: in-flight executions are bounded, every
  slot is returned, an accepted ID is known.
* **WebSocket transport.** Handler and writer end each other through a context, a
  connection and a channel, in three orders; an event is taken from the hub before
  it is written. Correct means: both end whichever fails first, nothing is left
  open, the client sees a sequence without gaps it was not told to expect.
* **Admission and generator.** Limits are checked on declared sizes, bodies are made
  later, by a search. Correct means: bodies have
  the declared size, so that the limits hold for what is sent.
* **Process.** A signal, a failing listener, handlers that hang and a time limit
  race. Correct means: main ends, and cuts nobody off before the limit.

`PROJECT.json` lists every such hazard at its line, with the properties that cover it.

## 2. The modules

```
Controller ---- INSTANCE ---> RateLimiter
     \--------- INSTANCE ---> ExecutionService --- INSTANCE ---> Lifecycle
LifecycleManager --- implements ---> Lifecycle
Executor ----------- implements ---> ExecutorPromise <--- all that ExecutionService takes
WebSocket ------ INSTANCE ---> EventHub
     \----- implements ------> Stream
Admission ------ EXTENDS ----> BodySearch, Scenarios
Process              main around all of them
EventHub             takes its events in the order ExecutionService!LogInOrder
```

* **Lifecycle** is what the manager promises: one variable, the status of each
  ID ("absent" if not in the table), one atomic action per operation. Which ended
  executions a Create evicts is left open.
* **LifecycleManager** is `manager.go` lock by lock. IDs map to *objects*, the
  Execution values on the heap, because an ID may be created again after its
  eviction while another goroutine holds a pointer to the old value. A caller is
  at "insert", "evict" or "scan" inside Create, and at "lookup" or "locked"
  inside the other operations. `Visit` reads one execution of the scan, in any
  order, as Go ranges over a map. Each read locks one execution for the whole of
  Snapshot, so it is one step. Its ghosts are `settled` (the table when the lock
  was last free), `passAt` (when the pass began) and `peak`.
* **ExecutionService** is `service.go`. `pc[id]` is the next statement of the
  execution's driver; the locations follow the code's order, and each critical
  section or call of another component is a step. `Execute`'s IDs (`SyncIDs`)
  share everything up to the executor and run on their caller's context.
  finishError and the end of executeAndRecord read the context in the same order
  and differ only in the default verdict, so one pair of actions models both.
* **RateLimiter** is `limiter.go`: `ReadClock`, then `Decide` under the mutex, then
  at most one `Done`. Stamps are identified with the requests that left them.
  **RateLimiterHistory** adds when each decision was taken.
* **EventHub** is `Hub` and `Subscription`. An event is its number in its
  execution. `PublishBegin` and `PublishEnd` hold the lock, `Offer` serves one
  subscription at a time; consumers receive meanwhile; the two critical sections
  of Close are `Deregister` and `CloseChannel`.
* **Executor** is `Executor.Execute` with `Client.Do` as one step that answers or
  fails. **ExecutorPromise** is its specification in two variables.
* **WebSocket** is `handleWebSocket` over EventHub. `handler[s]` and `writer[s]` are
  the next statements of the two goroutines of the client that holds subscription
  `s`. The hub's consumer is the writer: `SelectEvent` is the hub's `Receive`, and
  the handler's deferred `subscription.Close` is the hub's `Deregister` and
  `CloseChannel`. `SelectEnd` and `SelectEvent` are both enabled when both cases of the
  select are ready. **Stream** is what the client is promised, in three variables;
  its `lossy` clients are the hub's `missed`, and its streams end with the connection.
* **BodySearch** is `generateJSONBody` turn by turn, on lengths: a body with `n`
  bytes of plain ASCII filler is `n` bytes longer than with none, so lengths are all
  it compares. **Scenarios** holds the tables of `demo/` and Scenario.Validate.
  **Admission** follows a request of `POST /run` through both validations and then
  through the building of each of its HTTP requests.
* **Process** is `main`. `phase` is its next statement, `Clamped` what the constructors
  of limiter, client and executor do to a setting that is not positive, `server` the goroutine of
  ListenAndServe, `request[r]` an HTTP request being handled. What http.Server does is
  taken from net/http: Shutdown stops the listener and waits for handled requests,
  not for connections taken over by WebSocket.
* **Controller** composes limiter and service through handleRun and the cancel
  handler. A request and the execution it starts have the same name. Its actions
  are conjunctions of the parts' actions: `Complete` is the service's completion
  callback and the limiter's `Done` in one step, because the callback does nothing else.
  All happens within one instant of the limiter's clock (`Window <- 1, MaxTime <- 0`):
  what the window lets through is RateLimiter's subject.

Definitions marked as bugs ("A bug that ...") are the mutants described below
and are used by nothing.

### Abstractions common to all

* Results, scenarios, errors and times other than CompletedAt are not kept: no
  property depends on them.
* Execution IDs do not repeat (128 random bits). That drawing one may fail is modelled.
* Get, Snapshot and the status handler change nothing; they are the reads other
  modules make of `status`.
* The publisher's error is ignored by the code and not modelled. Handing an event
  to it is one step of ExecutionService; what the hub does meanwhile is EventHub's subject.
* Input checks with no effect (empty IDs, nil arguments, a timeout of zero) are taken
  as passed. The constructors' defaults are in Process.
* EventHub's assumption that the events of an execution are published one after the
  other, numbered from 1, is the theorem `EventsInOrder` about ExecutionService.
* Nothing is persisted and a restart loses everything by design (`event.go:41`),
  so no module models a crash.

## 3. The runs

Runs say `CHECK_DEADLOCK FALSE` where the instance has a bounded number of requests,
objects or events, and the system rightly stops after the last one; that nothing
stops before is what the liveness properties say. In the manager's
runs somebody can always call again, and deadlock is checked.

| Run | Instance | Shows |
|---|---|---|
| manager_safety | 3 IDs, 3 objects, 2 callers, limit 1, 2 instants | `PointerNotStale`, `RetentionBound`, `EvictsOnlyEnded`, `EvictsOldest`, `VerdictIsFinal`, and `ImplementsLifecycle`, the refinement of Lifecycle |
| manager_liveness | 2 IDs, 2 objects, 2 callers | `CallsReturn` |
| service | one driven, one synchronous execution, 2 cancellers, limit 1, with fairness | `NeverRefused`, `LogInOrder`, `NotAheadOfStatus`, `CancelledByCaller`, `OneCancelAccepted`, `Cancellable`, `NoLeak`, `RunsEnd`, `ContextDecides` |
| limiter_safety | 5 requests, 2 clients, 2 slots, 2 per window of 2, 4 instants | `SlotsConserved`, `TrailingWindow`, `RefusedForCause` |
| limiter_every_window | 5 requests, 1 client | violation of `EveryWindow`, see section 6 |
| hub_safety | 3 executions (2 retained), 2 subscriptions, channels of 1, histories of 2, 3 events each | `InOrderOnce`, `NothingMissed`, `NoSendAfterClose`, `HistoryConsistent` |
| websocket | 2 clients of one execution, channels of 1, 3 events, with fairness | `EndsClean`, `ImplementsStream`, `HandlerEnds`, `EventsArrive`, `PublishReturns` |
| executor | 4 requests, 2 tokens, with fairness | `TokensConserved`, `NothingLeftBehind`, `ImplementsPromise` with its liveness, `Returns` |
| controller | 2 runs, 2 clients with a slot each, limit 1, a canceller, with fairness | `AcceptedIsKnown`, `InFlightBounded`, `SlotReturned` |
| controller_slot_after_end | 2 runs of one client with one slot | violation of `AdmittedOnceEnded`, see section 6 |
| admission | all combinations of valid and invalid fields, counts -1 to 4, 7 sizes, 4 bodies | `SizeIsMet`, `AdmittedAsDeclared` |
| process | 2 requests; each setting -1, 0, 3, unset or malformed; with fairness | `WiredAsAssumed`, `GracefulExit`, `ProcessEnds` |

Type invariants are not run again where they are proved (section 4), and the deeper
invariants of the other modules fail with any type error that matters.

### Bounds, and why they are enough

* `Objects` bounds how often Create allocates. Three let an ID be created, ended,
  evicted and created again while another caller holds the old pointer, and let
  a pass choose between two ended executions while a third is active. `MaxTime`
  bounds the clock: two instants give equal and different completion times.
* Two executions are what the service's properties relate (one evicting the
  other with a limit of 1); two cancellers are needed for a race between Cancels.
  Two driven executions meet in `controller`.
* Five requests in four instants overfill a window of two, let it expire, delete
  an entry and make it anew; three of them meet two slots.
* Channels of one and histories of two overflow within three events; three
  executions overflow a hub that retains two, and come back after eviction.
* Two clients are enough for one to end or stall inside the Publish that serves the
  other; three events fill a channel of one while the writer holds one and one is
  published. Histories of three let replay and live events meet.
* Four requests leave two waiting while two hold tokens.
* Sizes and bodies in `admission` are small numbers under the code's names, chosen so
  that bodies are smaller than, equal to, and more than twice as large as sizes.
  The real sizes start at 1024 bytes, far above the longest body (less than 100), so
  in production the search always ends exactly; the refinement around the
  boundary only matters if somebody adds a small size or a long body, and
  `SearchIsExact` is proved for all of them.
* Two requests let Shutdown find one handled and one taken over.

No bound is in a guard except the clock, the allocation of objects and `MaxEvents`.

### Fairness

* Goroutines that can run do. Where the instance gives every goroutine finitely many
  steps, one weak fairness of all of them together says that, and is cheaper to
  check (ExecutionService, Controller, WebSocket); LifecycleManager and Executor
  have one per caller or goroutine.
* sync.RWMutex starves neither readers nor writers: strong fairness of `Insert`
  and `Lookup` in LifecycleManager.
* Timers fire: `Expire` is fair for contexts made by WithTimeout only, and for the
  time limit of Shutdown.
* Client.Do returns: NewClient always sets http.Client.Timeout, which bounds the
  exchange including its body. ExecutionService assumes less of the executor:
  that it returns once its context has ended. Executor is shown to deliver that
  (`ImplementsPromise`).
* WriteMessage returns, because the writer sets a deadline before it. ReadMessage has
  none: it is only sure to fail on a connection that this side has closed. A
  client that is gone without a trace, and to which nothing is published,
  keeps its handler for ever; the code sends no pings, and no property claims otherwise.
* HTTP handlers may hang, in Process: http.Server has no read timeout.
* Clients, cancellers, consumers and the clock are never obliged to act.

### How the models are kept honest

Every property of a passing run has a mutant: a plausible bug in one mapped
definition (a lock not taken, a token not returned, a counter not deleted) under
which TLC finds the property violated in the same configuration.

## 4. What is proved

For every value of the constants that satisfies the modules' assumptions
(finiteness, positive limits, a nil value distinct from the rest):

* **LifecycleManagerProofs**: `TypeOK`, `PointerNotStale`, `RetentionBound`,
  `EvictsOnlyEnded`, `EvictsOldest`, `VerdictIsFinal`, and `ImplementsLifecycle` (see
  below). None is inductive. The invariant `IInv`
  adds: a caller inside Create holds Manager.mu (`LockInv`); pointers in the table
  or in a caller's hand are to executions that exist (`BornInv`); `pending` is a
  part of the table and `oldest` the key of an ended entry (`ScanInv`), which gives
  `EvictsOnlyEnded`, since an ended execution stays so; the active entries are
  never more than `peak` (`ActiveInv`); and while a pass has found no candidate,
  what it has read and the unread entries that are active are no more than `peak`,
  because all of them were active together when it began (`PassInv`): a pass that
  finds nothing therefore leaves a table no larger than `peak`.
* **ExecutionServiceProofs**: `TypeOK`, `NeverRefused`, `LogInOrder`,
  `NotAheadOfStatus`, `CancelledByCaller`, `OneCancelAccepted`, `Cancellable`,
  `NoLeak`. The invariant says for each next statement of a driver which status
  the manager has and how many events are published (`DriverInv`), what the
  counter and each published event say (`CounterInv`, `LogInv`), and whether the
  context and the CancelFunc exist yet (`ContextInv`). `DriverInv` is about the
  manager as much as about the driver: it survives the steps of others because an
  eviction takes ended executions only, and only a driver ends its own. A
  CancelFunc is registered, in the hand of one canceller, or called (`HandInv`);
  a context or a verdict of cancellation implies that it was called (`CauseInv`).
  `Cancellable` is inductive with the rest. `ContextIsNeverOverruled` is the safety in
  `ContextDecides`: a context that ended during the executor's work stays ended, each
  statement that follows either reads it or has its verdict (`Settles`), and no other
  verdict is ever recorded or announced by an event (`Obeys`). `TakesThePromise`: what
  an execution sees of its executor is a behaviour of ExecutorPromise. It calls it at
  most once, because its verdict is "none" until then (`FreshVerdict`). Since Executor
  implements that module, the two sides of the interface meet.
* **RateLimiterProofs**: `TypeOK`, `SlotsConserved`, `TrailingWindow`,
  `RefusedForCause`. The invariant adds that no reading of the clock is ahead of
  it, and that the stamps stored for a client are of admitted requests, are no
  more than allowed and contain every one still in the window that ends now.
  The step that needs care is `Decide` with a stale reading: what it prunes has
  expired by its own, earlier reading and so by the present time too.
  `EveryWindowIsBounded` says how much the stale reading costs (section 6): if every
  request decides within `delay` of its reading, no stretch shorter than the window by
  `delay` ever holds more than `MaxRequests` admitted stamps. The request of such
  a stretch that decided last did so while the stamps of all others were still stored. `MemoryIsBounded`:
  the map has an entry only for a client that holds a slot or has a stamp stored
  (`NeverIdle`), and no entry has more than `MaxRequests` stamps.
* **ExecutorProofs**: `TypeOK`, `TokensConserved`, `NothingLeftBehind`,
  `WrittenOnce`, and that every step is a step of ExecutorPromise or a stutter. The
  invariant adds that the WaitGroup counts the live goroutines, that the loop
  starts requests in order, and that a goroutine has its result exactly from
  the moment it only has deferred functions left to run. The safety in `Returns`:
  until Execute has returned somebody can go on (`NeverDeadlocks`: if all that are alive
  waited for a token, nobody would hold one), and no step takes a goroutine or the loop
  back (`EveryStepLeavesLess`). Its last section is about Process, which makes the
  executor and is where its assumption of a positive number of tokens comes from:
  `WiredAsAssumed` and `GracefulExit`, for every setting and any number of HTTP requests.
  `ServerInv` ties the server's goroutine and its error channel to main's phase,
  `ExitInv` says that main is in Shutdown after a signal only, and in Close after the
  time limit only.
* **EventHubProofs**: `TypeOK`, `NoSendAfterClose`, `HistoryConsistent`,
  `InOrderOnce`, `NothingMissed`. The invariant says what each event *is*: element i of
  a history of n events is event last - n + i (`RunInv`), and what a consumer has
  received followed by what its channel holds ascends up to the event Publish has last
  offered it (`Ascending`) and, while no event was dropped, is the run that starts at
  `since` (`Whole`). `Latest` makes that inductive while Publish is between two turns of
  its loop: a subscription still pending is one event behind. `QueueInv` is
  `HistoryConsistent` without the set equality; `NoSendAfterClose` is inductive with
  `LockInv` (nothing is pending while Hub.mu is free).
* **AdmissionProofs**, for the search: `SizeIsMet` and that each turn halves the range
  (`Halves`). The invariant says that an exact filler length, if there is one, stays
  between `low` and `high`, so that the search can only end without it if even the
  smallest body is too long; `high` is then -1, and of the lengths tried next the first
  one, 0, is nearest. For the run: every step of Admission is a step of BodySearch or a
  stutter (`RunsTheSearch`), so `SizeIsMet` holds of it, and `AdmittedAsDeclared`. The
  invariant `RunInv` says that between admission and the last body the scenario stays
  valid and within the limits, that no more is built than it asks for, and that the search
  under way has the declared size and the operation's own base. What the search returns
  is then what the sum grows by, and as many bodies as `count` of the declared size are
  within the aggregate limit.
* **ControllerProofs**: every step of Controller is a step, or a stutter, of RateLimiter and
  of ExecutionService (`RunsItsParts`). What is proved of each alone therefore holds
  of the composition (`PartsKeepTheirWord`), and so do their inductive invariants. What
  is left is how the handler ties them, `HandlerInv`: an execution on its way has the
  slot of its request, and one answered 202 has had its context made. `InFlightBounded`
  follows, since the executions in flight are among the limiter's holders;
  `AcceptedIsKnown` follows, since `DriverInv` of the service says which statements leave
  the execution in the table, and no context is made before it is there. `SlotInv` adds
  the converse, that an admitted request whose slot is not returned is being started or
  has an execution in flight. So the limiter's counter is the number of those
  (`EverySlotIsInUse`, the safety in `SlotReturned`), a 429 has a cause
  (`RefusalsHaveACause`, within the one instant of the limiter's clock that the composition
  covers), and `ContextIsNeverOverruled` holds of the composition.
* **WebSocketProofs**: every step is a step of the hub or a stutter, so all of EventHubProofs
  holds under the transport (`RunsTheHub`); `TypeOK`; `EndsClean`; and
  `ImplementsStream`. `HandlerInv` ties the handler's next statement to the stage
  of its subscription and to whether its writer lives, `WriterInv` the writer's to the
  context, the connection and what was sent: all it received, but for the event in its
  hand. That event then follows the last one sent because `Whole` and `Ascending` say so
  of the hub's `received`, which is the one place where transport and hub meet.
  `NeverWaitInARing` is the safety in `HandlerEnds`: of a client that is to end, the
  handler or the writer can go on, or the handler waits for a Publish and nothing else.
  `EndInv` is what it needs: a handler that waits for the writer has cancelled the
  context, and one that still reads finds the connection closed when the writer is over.

The refinement of Lifecycle (`ManagerImplementsLifecycle`) needs more than `IInv`. Callers
do not see the table while Create holds the lock, so the abstract status is read from
`settled`, the table when Manager.mu was last unlocked. `SeenInv` says how the two
differ: the execution of the Create under way is known to nobody else (`FreshInv`), an
execution has one ID (`DistinctInv`), everything that is missing from the table was
evicted ended (`SettledInv`) and in excess of the limit (`LimitInv`). So the Create that
unlocks is one atomic Create, and a Start or a verdict recorded *during* a Create, which
takes only the execution's own lock, is a step of an entry that callers see. Every other
step is a stutter. `EvictsOldest` rests on `OldestInv`: of the ended entries a pass has
read, one that ended before the pass began is not older than its choice. `EvictionEnds` is
the safety in `CallsReturn`: each step of a caller in the loops of Create ends the call,
shrinks the table, begins a pass or shrinks the pass, and nobody else's step adds to either.

## 5. What is only model-checked

All liveness (`CallsReturn`, `RunsEnd`, `ContextDecides`, `PublishReturns`,
`SlotReturned`, `Returns`, `HandlerEnds`, `EventsArrive`, `ProcessEnds`, the fairness
part of `ImplementsPromise`): the prover has no rules for ENABLED, on which fairness
rests. What is proved is the safety some of them rest on, and it holds for every
instance: a step that is possible or a measure that shrinks (`CallsReturn`, `Returns`,
`HandlerEnds`), and what must be true in the end (`ContextDecides`, `SlotReturned`).
That the steps which are possible are taken is TLC's part.

Every safety property that a passing run checks is proved.

## 6. Where the code and its tests disagree

* **The rate window can be exceeded** (`limiter_every_window`). Allow reads the
  clock before it takes the mutex (`ratelimit/limiter.go:59-61`). With two
  requests per window of two instants: two are admitted at 0; a third reads the
  clock at 0 or 1 and is delayed; at 2 a fourth arrives, prunes the first two and is
  admitted; the third now decides, sees one stamp, is admitted with its old one; a
  fifth, at 2, prunes that stamp and is admitted too. Whichever instant of its call the
  third is dated to, some window holds three. `limiter_test.go:62` ("third allow
  should fail while rate window is active") holds for sequential calls only. What does
  hold, and is proved, is `TrailingWindow`, and for every window one that is shorter by the
  longest delay between reading and decision (`EveryWindowIsBounded`). Reading the clock
  under the mutex makes that delay 0 and every window keep the limit.
* **A slot outlives its execution** (`controller_slot_after_end`). The callback that
  releases it runs in a deferred function after the verdict is visible
  (`executionservice/service.go:203-210`). A client that sees its execution ended
  and starts the next at once can be answered 429. `server_test.go:584-591` waits for
  the verdict and then asserts 202.

Three more things worth knowing, which contradict no doc or test:

* The entry of a client whose stamps had not expired at its last Done is only removed
  when that client calls again, so the limiter's map grows with the number of client
  addresses seen; what bounds an entry is `MemoryIsBounded`.
* A run of an operation without a body but with a `request_size` other than "0b" passes
  both validations, is answered 202, and then every one of its requests is refused by
  Build (`AdmittedAsDeclared` says exactly when this happens).
* Executions and WebSocket connections under way when main returns end with it:
  Shutdown waits for neither.

## 7. What is not modelled, and why

* Status and health handlers: pure reads.
* Routing, JSON, CORS, the Origin check, client keys, request paths, methods and
  headers, the random references to users and orders: pure functions of their input
  or I/O without state.
* Response sizes: only declared in a header; what Torus sends is not checked.
* Policy.MaxConcurrency: validated to be positive and used nowhere else.
* TORUS_BASE_URL: a string; one that only has slashes makes Build refuse every request.
* Clients lost without closing their connection, and the kernel's buffers: a write
  that succeeds counts as sent.

## 8. Plan

Done, in this order because each builds on the one before: Lifecycle and
LifecycleManager with proofs; ExecutionService over Lifecycle, with proofs; RateLimiter with
proofs; EventHub with proofs; Executor with proofs; Controller; WebSocket over
EventHub; BodySearch, Scenarios and Admission with proofs; Process; that Controller and
WebSocket run their parts, with proofs; that LifecycleManager implements Lifecycle; the
proofs about Process; that ExecutionService takes of its executor what ExecutorPromise
gives; and the safety that the liveness of manager, executor, controller and
transport rests on.

A composition of ExecutionService with EventHub is left out on purpose: the hub needs
of the service only that events come in order, which is proved.

What would have to be looked at again when the code changes: a clock read under the
limiter's mutex (`ReadClock` and `Decide` become one step, and `limiter_every_window` must
then pass), a sweep of idle clients (`MemoryIsBounded`), pings on WebSocket connections
(the fairness of `ReadFails`).
