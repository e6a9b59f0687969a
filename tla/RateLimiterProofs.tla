-------------------------- MODULE RateLimiterProofs --------------------------
(***************************************************************************)
(* Theorems about RateLimiter for every number of requests and clients,    *)
(* every limit and every window.                                           *)
(***************************************************************************)
EXTENDS RateLimiter, TLAPS, FiniteSetTheorems

\* No reading of the clock is ahead of it.
StampInv == \A r \in Requests : stamp[r] <= now

(***************************************************************************)
(* What is stored for a client are stamps of requests it was granted, no   *)
(* more of them than allowed, and among them all those still in the window *)
(* that ends now: a reading is never ahead of the clock, so what it throws *)
(* away has expired.                                                       *)
(***************************************************************************)
StoredInv ==
  \A c \in Clients :
    /\ requests[c] \subseteq Admitted(c)
    /\ Cardinality(requests[c]) <= MaxRequests
    /\ \A q \in Admitted(c) : now - stamp[q] < Window => q \in requests[c]

\* The invariant that is inductive.
IInv == TypeOK /\ StampInv /\ SlotsConserved /\ StoredInv

----------------------------------------------------------------------------
\* Sets of requests are finite, and so are their parts.
LEMMA RequestSets ==
  ASSUME NEW S \in SUBSET Requests
  PROVE  /\ IsFiniteSet(S) /\ Cardinality(S) \in Nat
         /\ \A T \in SUBSET S : Cardinality(T) \in Nat /\ Cardinality(T) <= Cardinality(S)
         /\ \A r \in Requests \ S : Cardinality(S \cup {r}) = Cardinality(S) + 1
         /\ \A r \in S : Cardinality(S \ {r}) = Cardinality(S) - 1
<1>1. IsFiniteSet(S)
  BY LimiterAssumption, FS_Subset
<1>2. \A T \in SUBSET S : IsFiniteSet(T) /\ Cardinality(T) <= Cardinality(S)
  BY <1>1, FS_Subset
<1>3. ASSUME NEW r \in Requests \ S PROVE Cardinality(S \cup {r}) = Cardinality(S) + 1
  BY <1>1, FS_AddElement
<1>4. ASSUME NEW r \in S PROVE Cardinality(S \ {r}) = Cardinality(S) - 1
  BY <1>1, FS_RemoveElement
<1> QED
  BY <1>1, <1>2, <1>3, <1>4, FS_CardinalityType

(***************************************************************************)
(* Storing a client's state changes that client only, and deleting an idle *)
(* entry is as good as storing it.                                         *)
(***************************************************************************)
LEMMA StoreEffect ==
  ASSUME TypeOK, NEW c \in Clients, NEW slots \in Nat, NEW stamps \in SUBSET Requests,
         Store(c, slots, stamps)
  PROVE  /\ active' = [active EXCEPT ![c] = slots]
         /\ requests' = [requests EXCEPT ![c] = stamps]
         /\ known' \in SUBSET Clients
         /\ \A d \in Clients \ known' : active'[d] = 0 /\ requests'[d] = {}
  BY DEF Store, IsIdle, TypeOK

\* No client is known and no request has been made.
LEMMA InitHolds == Init => IInv
<1> SUFFICES ASSUME Init PROVE IInv
  OBVIOUS
<1>1. TypeOK /\ StampInv
  BY LimiterAssumption DEF Init, TypeOK, StampInv, Stages
<1>2. \A c \in Clients : Holders(c) = {} /\ Admitted(c) = {}
  BY DEF Init, Holders, Admitted
<1>3. SlotsConserved /\ StoredInv
  <2>1. Cardinality({}) = 0
    BY FS_EmptySet
  <2>2. \A c \in Clients : active[c] = 0 /\ requests[c] = {}
    BY DEF Init
  <2>3. ASSUME NEW c \in Clients
        PROVE  /\ active[c] = Cardinality(Holders(c)) /\ active[c] <= MaxConcurrent
               /\ requests[c] \subseteq Admitted(c) /\ Cardinality(requests[c]) <= MaxRequests
               /\ \A q \in Admitted(c) : now - stamp[q] < Window => q \in requests[c]
    <3>1. Cardinality(Holders(c)) = 0 /\ Cardinality(requests[c]) = 0
      BY <1>2, <2>1, <2>2
    <3> QED
      BY <1>2, <2>2, <3>1, LimiterAssumption
  <2> QED
    BY <2>3 DEF SlotsConserved, StoredInv
<1> QED
  BY <1>1, <1>3 DEF IInv

\* Arriving requests change no client's state.
LEMMA ReadClockStep ==
  ASSUME IInv, NEW r \in Requests, NEW c \in Clients, ReadClock(r, c)
  PROVE  IInv'
<1> USE DEF IInv
<1>1. TypeOK'
  BY LimiterAssumption DEF ReadClock, TypeOK, Stages
<1>2. StampInv'
  BY DEF ReadClock, TypeOK, StampInv
<1>3. \A d \in Clients : Holders(d)' = Holders(d) /\ Admitted(d)' = Admitted(d)
  BY DEF ReadClock, TypeOK, Holders, Admitted
<1>4. SlotsConserved' /\ StoredInv'
  <2>1. \A q \in Requests : at[q] \in {"admitted", "done"} => stamp'[q] = stamp[q]
    BY DEF ReadClock, TypeOK
  <2> QED
    BY <1>3, <2>1 DEF ReadClock, SlotsConserved, StoredInv, Admitted
<1> QED
  BY <1>1, <1>2, <1>4

\* Time passes: the window that ends now loses stamps and gains none.
LEMMA TickStep == ASSUME IInv, Tick PROVE IInv'
<1> USE DEF IInv
<1>1. TypeOK'
  BY LimiterAssumption DEF Tick, TypeOK
<1>2. StampInv'
  BY LimiterAssumption DEF Tick, TypeOK, StampInv
<1>3. \A d \in Clients : Holders(d)' = Holders(d) /\ Admitted(d)' = Admitted(d)
  BY DEF Tick, Holders, Admitted
<1>4. SlotsConserved'
  BY <1>3 DEF Tick, SlotsConserved
<1>5. StoredInv'
  BY <1>3, LimiterAssumption DEF Tick, StoredInv, TypeOK, Admitted
<1> QED
  BY <1>1, <1>2, <1>4, <1>5

\* What removeExpiredRequests keeps, and what it may throw away.
LEMMA Pruned ==
  ASSUME IInv, NEW r \in Requests, at[r] = "clock", NEW c, c = client[r]
  PROVE  /\ c \in Clients /\ r \notin Admitted(c) /\ r \notin requests[c]
         /\ Unexpired(r) \subseteq requests[c]
         /\ Unexpired(r) \in SUBSET Requests
         /\ \A q \in Admitted(c) : now - stamp[q] < Window => q \in Unexpired(r)
         /\ Cardinality(Unexpired(r)) \in Nat
<1> USE DEF IInv
<1>1. c \in Clients /\ r \notin Admitted(c)
  BY DEF TypeOK, Admitted
<1>2. Unexpired(r) \subseteq requests[c] /\ requests[c] \subseteq Admitted(c)
  BY <1>1 DEF Unexpired, StoredInv
<1>3. requests[c] \in SUBSET Requests
  BY <1>1 DEF TypeOK
<1>4. ASSUME NEW q \in Admitted(c), now - stamp[q] < Window PROVE q \in Unexpired(r)
  <2>1. q \in requests[c] /\ q \in Requests
    BY <1>1, <1>4 DEF StoredInv, Admitted
  <2>2. stamp[r] - stamp[q] < Window
    BY <2>1, <1>4, LimiterAssumption DEF TypeOK, StampInv
  <2> QED
    BY <2>1, <2>2 DEF Unexpired
<1> QED
  BY <1>1, <1>2, <1>3, <1>4, RequestSets

(***************************************************************************)
(* Allow under the mutex: an admitted request takes one slot and leaves    *)
(* one stamp, a refused one neither.                                       *)
(***************************************************************************)
LEMMA DecideStep ==
  ASSUME IInv, NEW r \in Requests, Decide(r)
  PROVE  IInv'
<1> USE DEF IInv
<1>0. PICK c \in Clients : c = client[r]
  BY DEF Decide, TypeOK
<1>1. /\ at[r] = "clock" /\ UNCHANGED <<now, client, stamp>>
      /\ at \in [Requests -> Stages] /\ at' = [at EXCEPT ![r] = IF Exhausted(r) THEN "refused" ELSE "admitted"]
  BY DEF Decide, TypeOK
<1>2. /\ c \in Clients /\ r \notin Admitted(c) /\ r \notin requests[c]
      /\ Unexpired(r) \subseteq requests[c] /\ Unexpired(r) \in SUBSET Requests
      /\ \A q \in Admitted(c) : now - stamp[q] < Window => q \in Unexpired(r)
      /\ Cardinality(Unexpired(r)) \in Nat
  BY <1>0, <1>1, Pruned
<1>3. StampInv'
  BY <1>0, <1>1 DEF StampInv
<1>4. CASE Exhausted(r)
  <2>1. Store(c, active[c], Unexpired(r))
    BY <1>0, <1>4 DEF Decide
  <2>2. /\ active' = [active EXCEPT ![c] = active[c]]
        /\ requests' = [requests EXCEPT ![c] = Unexpired(r)]
        /\ known' \in SUBSET Clients
        /\ \A d \in Clients \ known' : active'[d] = 0 /\ requests'[d] = {}
    <3>1. active[c] \in Nat
      BY <1>0, <1>2 DEF TypeOK
    <3> QED
      BY <1>0, <1>2, <2>1, <3>1, StoreEffect
  <2>3. at' = [at EXCEPT ![r] = "refused"]
    BY <1>0, <1>1, <1>4
  <2>4. TypeOK'
    BY <1>0, <1>1, <1>2, <2>2, <2>3 DEF TypeOK, Stages
  <2>5. \A d \in Clients : Holders(d)' = Holders(d) /\ Admitted(d)' = Admitted(d)
    BY <1>0, <1>1, <2>3 DEF Holders, Admitted
  <2>6. active' = active
    BY <2>2 DEF TypeOK
  <2>7. SlotsConserved'
    BY <2>5, <2>6 DEF SlotsConserved
  <2>8. Cardinality(Unexpired(r)) <= Cardinality(requests[c]) /\ Cardinality(requests[c]) \in Nat
    <3>1. requests[c] \in SUBSET Requests
      BY <1>0, <1>2 DEF TypeOK
    <3> QED
      BY <1>0, <1>2, <3>1, RequestSets
  <2>9. StoredInv'
    BY <1>0, <1>1, <1>2, <2>2, <2>5, <2>8, LimiterAssumption DEF StoredInv, TypeOK
  <2> QED
    BY <1>3, <2>4, <2>7, <2>9
<1>5. CASE ~Exhausted(r)
  <2>1. Store(c, active[c] + 1, Unexpired(r) \cup {r})
    BY <1>0, <1>5 DEF Decide
  <2>2. /\ active' = [active EXCEPT ![c] = active[c] + 1]
        /\ requests' = [requests EXCEPT ![c] = Unexpired(r) \cup {r}]
        /\ known' \in SUBSET Clients
        /\ \A d \in Clients \ known' : active'[d] = 0 /\ requests'[d] = {}
    <3>1. active[c] + 1 \in Nat /\ Unexpired(r) \cup {r} \in SUBSET Requests
      BY <1>0, <1>2 DEF TypeOK
    <3> QED
      BY <1>0, <1>2, <2>1, <3>1, StoreEffect
  <2>3. at' = [at EXCEPT ![r] = "admitted"]
    BY <1>0, <1>1, <1>5
  <2>4. TypeOK'
    <3>1. active[c] \in Nat
      BY <1>0, <1>2 DEF TypeOK
    <3> QED
      BY <1>0, <1>1, <1>2, <2>2, <2>3, <3>1 DEF TypeOK, Stages
  <2>5. /\ \A d \in Clients \ {c} : Holders(d)' = Holders(d) /\ Admitted(d)' = Admitted(d)
        /\ Holders(c)' = Holders(c) \cup {r} /\ Admitted(c)' = Admitted(c) \cup {r}
        /\ r \notin Holders(c)
    BY <1>0, <1>1, <2>3 DEF Holders, Admitted
  <2>6. SlotsConserved'
    <3>1. Cardinality(Holders(c)') = Cardinality(Holders(c)) + 1
      <4>1. Holders(c) \in SUBSET Requests
        BY DEF Holders
      <4> QED
        BY <2>5, <4>1, RequestSets
    <3>2. active[c] = Cardinality(Holders(c)) /\ active[c] \in Nat
      BY <1>0, <1>2 DEF SlotsConserved, TypeOK
    <3>3. active'[c] = Cardinality(Holders(c)') /\ active'[c] <= MaxConcurrent
      BY <1>0, <1>2, <1>5, <2>2, <3>1, <3>2, LimiterAssumption DEF Exhausted, TypeOK
    <3>4. \A d \in Clients \ {c} : active'[d] = Cardinality(Holders(d)') /\ active'[d] <= MaxConcurrent
      BY <2>2, <2>5 DEF SlotsConserved, TypeOK
    <3>5. \A d \in Clients : active'[d] = Cardinality(Holders(d)') /\ active'[d] <= MaxConcurrent
      BY <3>3, <3>4
    <3> QED
      BY <3>5 DEF SlotsConserved
  <2>7. StoredInv'
    <3>1. Cardinality(Unexpired(r) \cup {r}) <= MaxRequests
      <4>1. Cardinality(Unexpired(r) \cup {r}) = Cardinality(Unexpired(r)) + 1
        <5>1. r \notin Unexpired(r)
          BY <1>0, <1>2
        <5> QED
          BY <1>0, <1>2, <5>1, RequestSets
      <4> QED
        BY <1>0, <1>2, <1>5, <4>1, LimiterAssumption DEF Exhausted
    <3>2. requests[c] \subseteq Admitted(c)
      BY <1>0, <1>2 DEF StoredInv
    <3>3. /\ requests'[c] \subseteq Admitted(c)' /\ Cardinality(requests'[c]) <= MaxRequests
          /\ \A q \in Admitted(c)' : now' - stamp'[q] < Window => q \in requests'[c]
      BY <1>0, <1>1, <1>2, <2>2, <2>5, <3>1, <3>2 DEF TypeOK
    <3>4. \A d \in Clients \ {c} :
            /\ requests'[d] \subseteq Admitted(d)' /\ Cardinality(requests'[d]) <= MaxRequests
            /\ \A q \in Admitted(d)' : now' - stamp'[q] < Window => q \in requests'[d]
      BY <1>0, <1>1, <2>2, <2>5 DEF StoredInv, TypeOK
    <3>5. \A d \in Clients :
            /\ requests'[d] \subseteq Admitted(d)' /\ Cardinality(requests'[d]) <= MaxRequests
            /\ \A q \in Admitted(d)' : now' - stamp'[q] < Window => q \in requests'[d]
      BY <3>3, <3>4
    <3> QED
      BY <3>5 DEF StoredInv
  <2> QED
    BY <1>3, <2>4, <2>6, <2>7
<1> QED
  BY <1>4, <1>5

\* Done gives one slot back and leaves the stamps alone.
LEMMA DoneStep ==
  ASSUME IInv, NEW r \in Requests, Done(r)
  PROVE  IInv'
<1> USE DEF IInv
<1>0. PICK c \in Clients : c = client[r]
  BY DEF Done, TypeOK
<1>1. /\ at[r] = "admitted" /\ UNCHANGED <<now, client, stamp>>
      /\ at' = [at EXCEPT ![r] = "done"] /\ c \in Clients
  BY DEF Done, TypeOK
<1>2. r \in Holders(c) /\ Holders(c) \in SUBSET Requests
  BY <1>0, <1>1 DEF Holders
<1>3. /\ active[c] = Cardinality(Holders(c)) /\ active[c] \in Nat /\ active[c] > 0
      /\ Cardinality(Holders(c) \ {r}) = active[c] - 1
  <2>1. Cardinality(Holders(c) \ {r}) = Cardinality(Holders(c)) - 1
    BY <1>0, <1>2, RequestSets
  <2>2. Cardinality(Holders(c) \ {r}) \in Nat /\ Cardinality(Holders(c)) \in Nat
    <3>1. Holders(c) \ {r} \in SUBSET Requests
      BY <1>0, <1>2
    <3> QED
      BY <1>0, <1>2, <3>1, RequestSets
  <2> QED
    BY <1>0, <1>1, <2>1, <2>2 DEF SlotsConserved
<1>4. c \in known
  BY <1>0, <1>1, <1>3 DEF TypeOK
<1>5. Store(c, active[c] - 1, requests[c])
  BY <1>0, <1>3, <1>4 DEF Done
<1>6. /\ active' = [active EXCEPT ![c] = active[c] - 1]
      /\ requests' = requests
      /\ known' \in SUBSET Clients
      /\ \A d \in Clients \ known' : active'[d] = 0 /\ requests'[d] = {}
  <2>1. active[c] - 1 \in Nat /\ requests[c] \in SUBSET Requests
    BY <1>0, <1>1, <1>3 DEF TypeOK
  <2>2. requests' = [requests EXCEPT ![c] = requests[c]]
    BY <1>0, <1>1, <1>5, <2>1, StoreEffect
  <2> QED
    BY <1>0, <1>1, <1>5, <2>1, <2>2, StoreEffect DEF TypeOK
<1>7. TypeOK'
  BY <1>0, <1>1, <1>3, <1>6 DEF TypeOK, Stages
<1>8. /\ \A d \in Clients : Admitted(d)' = Admitted(d)
      /\ \A d \in Clients \ {c} : Holders(d)' = Holders(d)
      /\ Holders(c)' = Holders(c) \ {r}
  BY <1>0, <1>1 DEF Holders, Admitted, TypeOK
<1>9. SlotsConserved'
  <2>1. active'[c] = Cardinality(Holders(c)') /\ active'[c] <= MaxConcurrent
    BY <1>0, <1>1, <1>3, <1>6, <1>8, LimiterAssumption DEF SlotsConserved, TypeOK
  <2>2. \A d \in Clients \ {c} : active'[d] = Cardinality(Holders(d)') /\ active'[d] <= MaxConcurrent
    BY <1>6, <1>8 DEF SlotsConserved, TypeOK
  <2>3. \A d \in Clients : active'[d] = Cardinality(Holders(d)') /\ active'[d] <= MaxConcurrent
    BY <2>1, <2>2
  <2> QED
    BY <2>3 DEF SlotsConserved
<1>10. StampInv' /\ StoredInv'
  BY <1>0, <1>1, <1>6, <1>8 DEF StampInv, StoredInv
<1> QED
  BY <1>7, <1>9, <1>10

----------------------------------------------------------------------------
\* The inductive invariant holds in every reachable state.
THEOREM Invariance == Spec => []IInv
<1>1. IInv /\ [Next]_vars => IInv'
  <2> SUFFICES ASSUME IInv, [Next]_vars PROVE IInv'
    OBVIOUS
  <2>1. CASE UNCHANGED vars
    <3>1. \A c \in Clients : Holders(c)' = Holders(c) /\ Admitted(c)' = Admitted(c)
      BY <2>1 DEF vars, Holders, Admitted
    <3> QED
      BY <2>1, <3>1 DEF vars, IInv, TypeOK, StampInv, SlotsConserved, StoredInv
  <2> QED
    BY <2>1, ReadClockStep, TickStep, DecideStep, DoneStep DEF Next
<1> QED
  BY <1>1, InitHolds, PTL DEF Spec

\* Every variable keeps its type; the counter of slots never goes below zero.
THEOREM TypeCorrect == Spec => []TypeOK
<1>1. IInv => TypeOK
  BY DEF IInv
<1> QED
  BY <1>1, Invariance, PTL

\* The slots taken are those of the admitted requests that are not done.
THEOREM SlotsAreConserved == Spec => []SlotsConserved
<1>1. IInv => SlotsConserved
  BY DEF IInv
<1> QED
  BY <1>1, Invariance, PTL

\* At most MaxRequests granted stamps lie in the window that ends now.
THEOREM WindowIsBounded == Spec => []TrailingWindow
<1>1. IInv => TrailingWindow
  <2> SUFFICES ASSUME IInv, NEW c \in Clients
               PROVE  Cardinality({q \in Admitted(c) : now - stamp[q] < Window}) <= MaxRequests
    BY DEF TrailingWindow
  <2>1. {q \in Admitted(c) : now - stamp[q] < Window} \in SUBSET requests[c]
    BY DEF IInv, StoredInv
  <2>2. requests[c] \in SUBSET Requests /\ Cardinality(requests[c]) <= MaxRequests
    BY DEF IInv, StoredInv, TypeOK
  <2> QED
    BY <2>1, <2>2, RequestSets, LimiterAssumption
<1> QED
  BY <1>1, Invariance, PTL

\* A refusal has a cause that its client can account for.
THEOREM RefusalsAreJustified == Spec => RefusedForCause
<1> DEFINE Cause(r) ==
      \/ Cardinality(Holders(client[r])) >= MaxConcurrent
      \/ Cardinality({q \in Admitted(client[r]) : stamp[r] - stamp[q] < Window}) >= MaxRequests
<1>1. IInv /\ [Next]_vars =>
        [\A r \in Requests : at[r] # "refused" /\ at'[r] = "refused" => Cause(r)]_vars
  <2> SUFFICES ASSUME IInv, Next, NEW r \in Requests, at[r] # "refused", at'[r] = "refused"
               PROVE  Cause(r)
    OBVIOUS
  <2>1. at[r] = "clock" /\ Exhausted(r)
    BY DEF Next, Tick, ReadClock, Decide, Done, IInv, TypeOK
  <2>2. client[r] \in Clients
    BY <2>1 DEF IInv, TypeOK
  <2> DEFINE kept == {q \in Admitted(client[r]) : stamp[r] - stamp[q] < Window}
  <2>3. Unexpired(r) \in SUBSET kept /\ kept \in SUBSET Requests
    BY <2>2 DEF IInv, StoredInv, Unexpired, Admitted
  <2>4. Cardinality(Unexpired(r)) <= Cardinality(kept)
        /\ Cardinality(Unexpired(r)) \in Nat /\ Cardinality(kept) \in Nat
    BY <2>3, RequestSets
  <2>5. active[client[r]] = Cardinality(Holders(client[r]))
    BY <2>2 DEF IInv, SlotsConserved
  <2> QED
    BY <2>1, <2>4, <2>5, LimiterAssumption DEF Exhausted
<1> QED
  BY <1>1, Invariance, PTL DEF Spec, RefusedForCause

----------------------------------------------------------------------------
(***************************************************************************)
(* How far the rate bound is off for windows that ended before now.  It is *)
(* off because requests decide later than they read the clock: if they are *)
(* never more than `delay` late, it holds of every window that is `delay`  *)
(* shorter than Limiter.window, and of every full window if the clock and  *)
(* the decision are one step.                                              *)
(***************************************************************************)
DecidesWithin(delay) ==
  \A r \in Requests : at[r] = "clock" /\ at'[r] # "clock" => now - stamp[r] <= delay

StampsFrom(c, t, delay) ==
  {q \in Admitted(c) : t <= stamp[q] /\ stamp[q] < t + (Window - delay)}

ShorterWindows(delay) ==
  \A c \in Clients : \A t \in Nat : Cardinality(StampsFrom(c, t, delay)) <= MaxRequests

\* Nothing but Allow admits, and it admits one request of one client, in time.
LEMMA AdmitsInTime ==
  ASSUME IInv, Next, NEW delay \in Nat, DecidesWithin(delay), NEW c \in Clients,
         NEW q \in Admitted(c)', q \notin Admitted(c) \/ stamp'[q] # stamp[q]
  PROVE  now' = now /\ now - stamp'[q] <= delay
<1>1. q \in Requests /\ client'[q] = c /\ at'[q] \in {"admitted", "done"}
  BY DEF Admitted
<1>2. ASSUME NEW r \in Requests, NEW d \in Clients, ReadClock(r, d)
      PROVE  FALSE
  BY <1>1, <1>2 DEF ReadClock, IInv, TypeOK, Admitted
<1>3. ASSUME NEW r \in Requests, Done(r)
      PROVE  FALSE
  BY <1>1, <1>3 DEF Done, IInv, TypeOK, Admitted
<1>4. ASSUME Tick
      PROVE  FALSE
  BY <1>1, <1>4 DEF Tick, Admitted
<1>5. ASSUME NEW r \in Requests, Decide(r)
      PROVE  now' = now /\ now - stamp'[q] <= delay
  <2>1. at[r] = "clock" /\ UNCHANGED <<now, client, stamp>>
    BY <1>5 DEF Decide
  <2>2. q = r
    BY <1>1, <1>5, <2>1 DEF Decide, IInv, TypeOK, Admitted
  <2> QED
    BY <1>1, <2>1, <2>2 DEF DecidesWithin
<1> QED
  BY <1>2, <1>3, <1>4, <1>5 DEF Next

(***************************************************************************)
(* A window that a new stamp falls into lies inside the one that ends now; *)
(* the others are as they were.                                            *)
(***************************************************************************)
LEMMA ShorterWindowsStep ==
  ASSUME IInv, IInv', TrailingWindow', NEW delay \in Nat, ShorterWindows(delay), Next,
         DecidesWithin(delay)
  PROVE  ShorterWindows(delay)'
<1> SUFFICES ASSUME NEW c \in Clients, NEW t \in Nat
             PROVE  Cardinality(StampsFrom(c, t, delay)') <= MaxRequests
  BY DEF ShorterWindows
<1> DEFINE recent == {q \in Admitted(c)' : now' - stamp'[q] < Window}
<1>1. StampsFrom(c, t, delay)' \in SUBSET Requests /\ StampsFrom(c, t, delay) \in SUBSET Requests
      /\ recent \in SUBSET Requests
  BY DEF StampsFrom, Admitted
<1>2. CASE \E q \in StampsFrom(c, t, delay)' :
             q \notin Admitted(c) \/ stamp'[q] # stamp[q]
  <2>1. PICK q \in StampsFrom(c, t, delay)' :
               q \notin Admitted(c) \/ stamp'[q] # stamp[q]
    BY <1>2
  <2>2. q \in Admitted(c)' /\ t <= stamp'[q] /\ stamp'[q] < t + (Window - delay)
    BY <2>1 DEF StampsFrom
  <2>3. now' = now /\ now - stamp'[q] <= delay
    BY <2>1, <2>2, AdmitsInTime
  <2>4. \A p \in Requests : stamp'[p] \in Int /\ now \in Int
    BY DEF IInv, TypeOK
  <2>5. ASSUME NEW p \in StampsFrom(c, t, delay)' PROVE p \in recent
    <3>1. p \in Admitted(c)' /\ t <= stamp'[p] /\ p \in Requests /\ q \in Requests
      BY <1>1, <2>1, <2>5 DEF StampsFrom
    <3>2. now - stamp'[p] < Window
      BY <2>2, <2>3, <2>4, <3>1, LimiterAssumption
    <3> QED
      BY <2>3, <3>1, <3>2
  <2>6. Cardinality(recent) <= MaxRequests
    BY DEF TrailingWindow
  <2>7. Cardinality(StampsFrom(c, t, delay)') <= Cardinality(recent)
        /\ Cardinality(StampsFrom(c, t, delay)') \in Nat /\ Cardinality(recent) \in Nat
    BY <1>1, <2>5, RequestSets
  <2> QED
    BY <2>6, <2>7, LimiterAssumption
<1>3. CASE \A q \in StampsFrom(c, t, delay)' :
             q \in Admitted(c) /\ stamp'[q] = stamp[q]
  <2>1. StampsFrom(c, t, delay)' \in SUBSET StampsFrom(c, t, delay)
    BY <1>3 DEF StampsFrom
  <2>2. Cardinality(StampsFrom(c, t, delay)') <= Cardinality(StampsFrom(c, t, delay))
        /\ Cardinality(StampsFrom(c, t, delay)') \in Nat
        /\ Cardinality(StampsFrom(c, t, delay)) \in Nat
    BY <1>1, <2>1, RequestSets
  <2>3. Cardinality(StampsFrom(c, t, delay)) <= MaxRequests
    BY DEF ShorterWindows
  <2> QED
    BY <2>2, <2>3, LimiterAssumption
<1> QED
  BY <1>2, <1>3

(***************************************************************************)
(* Allow's reading of the clock outside the mutex costs no more than the   *)
(* delay between the two: of the stamps in any window that much shorter,   *)
(* at most MaxRequests are of requests the client was granted.             *)
(***************************************************************************)
THEOREM EveryWindowIsBounded ==
  ASSUME NEW delay \in Nat
  PROVE  Spec /\ [][DecidesWithin(delay)]_vars => []ShorterWindows(delay)
<1>1. Init => ShorterWindows(delay)
  <2> SUFFICES ASSUME Init, NEW c \in Clients, NEW t \in Nat
               PROVE  Cardinality(StampsFrom(c, t, delay)) <= MaxRequests
    BY DEF ShorterWindows
  <2>1. StampsFrom(c, t, delay) = {}
    BY DEF StampsFrom, Admitted, Init
  <2> QED
    BY <2>1, FS_EmptySet, LimiterAssumption
<1>2. /\ IInv /\ IInv' /\ TrailingWindow' /\ ShorterWindows(delay)
      /\ [Next]_vars /\ [DecidesWithin(delay)]_vars
      => ShorterWindows(delay)'
  <2>1. CASE UNCHANGED vars
    BY <2>1 DEF vars, ShorterWindows, StampsFrom, Admitted
  <2>2. CASE Next /\ DecidesWithin(delay)
    BY <2>2, ShorterWindowsStep
  <2> QED
    BY <2>1, <2>2
<1> QED
  BY <1>1, <1>2, Invariance, WindowIsBounded, PTL DEF Spec
----------------------------------------------------------------------------
\* An entry without slots and stamps is deleted by the step that empties it.
NeverIdle == \A c \in known : ~IsIdle(active[c], requests[c])

\* Whatever is stored for a client, no idle entry is left behind.
LEMMA StoreKeepsBusy ==
  ASSUME TypeOK, NeverIdle, NEW c \in Clients, NEW slots \in Nat, NEW stamps \in SUBSET Requests,
         Store(c, slots, stamps)
  PROVE  NeverIdle'
<1>1. CASE IsIdle(slots, stamps)
  BY <1>1 DEF Store, NeverIdle, IsIdle, TypeOK
<1>2. CASE ~IsIdle(slots, stamps)
  BY <1>2 DEF Store, NeverIdle, IsIdle, TypeOK
<1> QED
  BY <1>1, <1>2

\* Allow and Done store a client's state and nothing else touches the map.
LEMMA NeverIdleInvariance == Spec => []NeverIdle
<1>1. Init => NeverIdle
  BY DEF Init, NeverIdle
<1>2. IInv /\ NeverIdle /\ [Next]_vars => NeverIdle'
  <2> SUFFICES ASSUME IInv, NeverIdle, [Next]_vars PROVE NeverIdle'
    OBVIOUS
  <2>0. TypeOK
    BY DEF IInv
  <2>1. CASE UNCHANGED vars
    BY <2>1 DEF vars, NeverIdle, IsIdle
  <2>2. CASE Tick \/ \E r \in Requests, c \in Clients : ReadClock(r, c)
    BY <2>2 DEF Tick, ReadClock, NeverIdle, IsIdle
  <2>3. ASSUME NEW r \in Requests, Decide(r)
        PROVE  NeverIdle'
    <3>1. client[r] \in Clients /\ active[client[r]] \in Nat /\ Unexpired(r) \in SUBSET Requests
      BY <2>0, <2>3 DEF Decide, TypeOK, Unexpired
    <3>2. /\ active[client[r]] + 1 \in Nat
          /\ Unexpired(r) \cup {r} \in SUBSET Requests
      BY <3>1
    <3> QED
      BY <2>0, <2>3, <3>1, <3>2, StoreKeepsBusy DEF Decide
  <2>4. ASSUME NEW r \in Requests, Done(r)
        PROVE  NeverIdle'
    <3> DEFINE c == client[r]
               slots == IF active[c] > 0 THEN active[c] - 1 ELSE 0
    <3>1. c \in Clients /\ slots \in Nat /\ requests[c] \in SUBSET Requests
      BY <2>0, <2>4 DEF Done, TypeOK
    <3>2. CASE c \in known
      <4>1. Store(c, slots, requests[c])
        BY <2>4, <3>2 DEF Done
      <4> HIDE DEF slots, c
      <4> QED
        BY <2>0, <3>1, <4>1, StoreKeepsBusy
    <3>3. CASE c \notin known
      BY <2>4, <3>3 DEF Done, NeverIdle, IsIdle
    <3> QED
      BY <3>2, <3>3
  <2> QED
    BY <2>1, <2>2, <2>3, <2>4 DEF Next
<1> QED
  BY <1>1, <1>2, Invariance, PTL DEF Spec

\* What the limiter remembers, it remembers of requests it granted.
MemoryBounded ==
  \A c \in known :
    /\ Cardinality(requests[c]) <= MaxRequests
    /\ \E r \in Admitted(c) : at[r] = "admitted" \/ r \in requests[c]

(***************************************************************************)
(* The map has an entry for a client only while one of its requests holds  *)
(* a slot or has its stamp stored, and no entry grows beyond the limit:    *)
(* refusals leave nothing behind.  How many clients have an entry nothing  *)
(* bounds, since stamps are dropped only when their client calls Allow.    *)
(***************************************************************************)
THEOREM MemoryIsBounded == Spec => []MemoryBounded
<1>1. IInv /\ NeverIdle => MemoryBounded
  <2> SUFFICES ASSUME IInv, NeverIdle, NEW c \in known
               PROVE  /\ Cardinality(requests[c]) <= MaxRequests
                      /\ \E r \in Admitted(c) : at[r] = "admitted" \/ r \in requests[c]
    BY DEF MemoryBounded
  <2>1. c \in Clients
    BY DEF IInv, TypeOK
  <2>2. CASE requests[c] # {}
    BY <2>1, <2>2 DEF IInv, StoredInv
  <2>3. CASE requests[c] = {}
    <3>1. active[c] # 0
      BY <2>3 DEF NeverIdle, IsIdle
    <3>2. Holders(c) # {}
      BY <2>1, <3>1, FS_EmptySet DEF IInv, SlotsConserved
    <3>3. Holders(c) \subseteq Admitted(c)
      BY DEF Holders, Admitted
    <3> QED
      BY <2>1, <3>2, <3>3 DEF Holders, IInv, StoredInv
  <2> QED
    BY <2>2, <2>3
<1> QED
  BY <1>1, Invariance, NeverIdleInvariance, PTL
==============================================================================
