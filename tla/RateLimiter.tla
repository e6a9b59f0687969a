----------------------------- MODULE RateLimiter -----------------------------
(***************************************************************************)
(* internal/ratelimit/limiter.go: per client, a bound on the executions in *)
(* flight and on the requests admitted per window of time.                 *)
(*                                                                         *)
(* A request is one call of Allow and, if admitted, the one Done that      *)
(* gives its slot back.  Allow reads the clock before it takes the mutex,  *)
(* so requests may decide in another order than that of their readings,    *)
(* and after later readings have thrown old stamps away.                   *)
(*                                                                         *)
(* Limiter.clients maps a key to the number of slots taken and a list of   *)
(* stamps; only the membership of that list matters, so it is the set of   *)
(* the requests that left a stamp.                                         *)
(***************************************************************************)
EXTENDS Integers, FiniteSets

CONSTANTS
  Requests,       \* calls of Allow
  Clients,        \* client keys
  NoClient,       \* of a request that has not arrived
  MaxConcurrent,  \* Limiter.maxConcurrent
  MaxRequests,    \* Limiter.maxRequests
  Window,         \* Limiter.window
  MaxTime         \* bound on the clock

ASSUME LimiterAssumption ==
  /\ IsFiniteSet(Requests)
  /\ NoClient \notin Clients
  /\ MaxConcurrent \in Nat \ {0}
  /\ MaxRequests \in Nat \ {0}
  /\ Window \in Nat \ {0}
  /\ MaxTime \in Nat

VARIABLES
  now,        \* what time.Now() returns
  at,         \* request -> how far it has got
  client,     \* request -> its client key
  stamp,      \* request -> its reading of the clock
  known,      \* keys of Limiter.clients
  active,     \* client -> clientState.active, 0 for an unknown client
  requests    \* client -> clientState.requests, as the requests stamped

vars == <<now, at, client, stamp, known, active, requests>>

Stages == {"new", "clock", "admitted", "refused", "done"}

\* Every variable has its type, and an unknown client holds nothing.
TypeOK ==
  /\ now \in 0..MaxTime
  /\ at \in [Requests -> Stages]
  /\ client \in [Requests -> Clients \cup {NoClient}]
  /\ \A r \in Requests : at[r] = "new" <=> client[r] = NoClient
  /\ stamp \in [Requests -> 0..MaxTime]
  /\ known \in SUBSET Clients
  /\ active \in [Clients -> Nat]
  /\ requests \in [Clients -> SUBSET Requests]
  /\ \A c \in Clients \ known : active[c] = 0 /\ requests[c] = {}

Init ==
  /\ now = 0
  /\ at = [r \in Requests |-> "new"]
  /\ client = [r \in Requests |-> NoClient]
  /\ stamp = [r \in Requests |-> 0]
  /\ known = {}
  /\ active = [c \in Clients |-> 0]
  /\ requests = [c \in Clients |-> {}]

----------------------------------------------------------------------------
\* Allow up to the mutex: time.Now().
ReadClock(r, c) ==
  /\ at[r] = "new"
  /\ at' = [at EXCEPT ![r] = "clock"]
  /\ client' = [client EXCEPT ![r] = c]
  /\ stamp' = [stamp EXCEPT ![r] = now]
  /\ UNCHANGED <<now, known, active, requests>>

\* Off by one: a stamp counts until the window is over and a little longer.
UnexpiredLate(r) == {q \in requests[client[r]] : stamp[r] - stamp[q] <= Window}
\* removeExpiredRequests
Unexpired(r) == {q \in requests[client[r]] : stamp[r] - stamp[q] < Window}

\* A bug that forgets the stamps of a client without slots.
IsIdleEarly(slots, stamps) == slots = 0
\* The condition of cleanupClient.
IsIdle(slots, stamps) == slots = 0 /\ stamps = {}

\* The client's state is stored, or its entry deleted by cleanupClient.
Store(c, slots, stamps) ==
  IF IsIdle(slots, stamps)
    THEN /\ known' = known \ {c}
         /\ active' = [active EXCEPT ![c] = 0]
         /\ requests' = [requests EXCEPT ![c] = {}]
    ELSE /\ known' = known \cup {c}
         /\ active' = [active EXCEPT ![c] = slots]
         /\ requests' = [requests EXCEPT ![c] = stamps]

Exhausted(r) ==
  \/ Cardinality(Unexpired(r)) >= MaxRequests
  \/ active[client[r]] >= MaxConcurrent

\* A bug that takes the slot before the limits are looked at.
DecideEager(r) ==
  LET c == client[r] IN
  /\ at[r] = "clock"
  /\ at' = [at EXCEPT ![r] = IF Exhausted(r) THEN "refused" ELSE "admitted"]
  /\ Store(c, active[c] + 1, Unexpired(r) \cup (IF Exhausted(r) THEN {} ELSE {r}))
  /\ UNCHANGED <<now, client, stamp>>

\* Allow under the mutex.
Decide(r) ==
  LET c == client[r] IN
  /\ at[r] = "clock"
  /\ IF Exhausted(r)
       THEN /\ at' = [at EXCEPT ![r] = "refused"]
            /\ Store(c, active[c], Unexpired(r))
       ELSE /\ at' = [at EXCEPT ![r] = "admitted"]
            /\ Store(c, active[c] + 1, Unexpired(r) \cup {r})
  /\ UNCHANGED <<now, client, stamp>>

\* Done, by the completion callback or by a handler that failed to start.
Done(r) ==
  LET c == client[r] IN
  /\ at[r] = "admitted"
  /\ at' = [at EXCEPT ![r] = "done"]
  /\ IF c \in known
       THEN Store(c, IF active[c] > 0 THEN active[c] - 1 ELSE 0, requests[c])
       ELSE UNCHANGED <<known, active, requests>>
  /\ UNCHANGED <<now, client, stamp>>

Tick ==
  /\ now < MaxTime
  /\ now' = now + 1
  /\ UNCHANGED <<at, client, stamp, known, active, requests>>

Next ==
  \/ Tick
  \/ \E r \in Requests : (\E c \in Clients : ReadClock(r, c)) \/ Decide(r) \/ Done(r)

Spec == Init /\ [][Next]_vars

----------------------------------------------------------------------------
Holders(c)  == {r \in Requests : client[r] = c /\ at[r] = "admitted"}
Admitted(c) == {r \in Requests : client[r] = c /\ at[r] \in {"admitted", "done"}}

(***************************************************************************)
(* The counter of slots is the number of admitted requests that have not   *)
(* called Done, so no slot is lost or given twice when cleanupClient       *)
(* deletes the entry and Allow makes a new one.                            *)
(***************************************************************************)
SlotsConserved ==
  \A c \in Clients : /\ active[c] = Cardinality(Holders(c))
                     /\ active[c] <= MaxConcurrent

(***************************************************************************)
(* At any moment at most MaxRequests of the requests a client was granted  *)
(* carry a stamp of the window that ends now: stale clock readings do not  *)
(* make the limiter forget a stamp that still counts.                      *)
(***************************************************************************)
TrailingWindow ==
  \A c \in Clients :
    Cardinality({q \in Admitted(c) : now - stamp[q] < Window}) <= MaxRequests

(***************************************************************************)
(* No request is refused without a cause its client can see: all its slots *)
(* are taken, or the stamps within a window before the reading of this     *)
(* request, or after it, are as many as it may have.                       *)
(***************************************************************************)
RefusedForCause ==
  [][\A r \in Requests : at[r] # "refused" /\ at'[r] = "refused" =>
       \/ Cardinality(Holders(client[r])) >= MaxConcurrent
       \/ Cardinality({q \in Admitted(client[r]) : stamp[r] - stamp[q] < Window})
            >= MaxRequests]_vars
==============================================================================
