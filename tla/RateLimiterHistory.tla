-------------------------- MODULE RateLimiterHistory --------------------------
(***************************************************************************)
(* RateLimiter with a history variable: when Allow took its decision.  An  *)
(* admission is something its client sees happen at some instant between   *)
(* the reading of the clock and the decision; with both on record, one can *)
(* ask whether the rate bound holds for any choice of those instants.      *)
(***************************************************************************)
EXTENDS RateLimiter

VARIABLE decided   \* ghost: request -> the time at which Allow decided, 0 before

historyVars == <<vars, decided>>

HistoryInit == Init /\ decided = [r \in Requests |-> 0]

HistoryNext ==
  /\ Next
  /\ decided' = [r \in Requests |-> IF at[r] = "clock" /\ at'[r] # "clock"
                                      THEN now ELSE decided[r]]

HistorySpec == HistoryInit /\ [][HistoryNext]_historyVars

----------------------------------------------------------------------------
\* The ways to say when each of a client's requests was admitted.
AdmissionTimes(c) ==
  {t \in [Admitted(c) -> 0..MaxTime] :
     \A r \in Admitted(c) : t[r] \in stamp[r]..decided[r]}

(***************************************************************************)
(* What limiter_test.go asks of the window ("third allow should fail while *)
(* rate window is active"), in the weakest sense that concurrent calls     *)
(* leave it: there is some instant within each call at which its admission *)
(* can be said to happen, such that no window of time contains more than   *)
(* MaxRequests of them.  It does not hold: a request that decides late is  *)
(* admitted beside later ones, and its old stamp then expires too early.   *)
(***************************************************************************)
EveryWindow ==
  \A c \in Clients : \E t \in AdmissionTimes(c) : \A q \in Admitted(c) :
    Cardinality({r \in Admitted(c) : t[r] - t[q] \in 0..(Window - 1)}) <= MaxRequests
==============================================================================
