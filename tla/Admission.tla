------------------------------- MODULE Admission -------------------------------
(***************************************************************************)
(* A run request from its arrival to the HTTP requests it stands for:      *)
(* handleRun's validation (internal/server/server.go), the policy          *)
(* (internal/policy/policy.go), and for each request of the execution the  *)
(* generator (internal/request/generator.go) with its search for a body of *)
(* the declared size.  The limits are checked on the declared sizes, long  *)
(* before a body exists, and four tables have to agree on the operations.  *)
(*                                                                         *)
(* It extends BodySearch, whose actions build the bodies.  The goroutines  *)
(* of an execution build their requests independently, so one after the    *)
(* other is general enough.  What happens between admission and building   *)
(* is the business of Controller and Executor.                             *)
(***************************************************************************)
EXTENDS BodySearch, Scenarios

CONSTANTS
  Requests,     \* run requests that clients send, as decoded from JSON
  Bytes,        \* RequestSize.Bytes and ResponseSize.Bytes
  BaseLength,   \* operation with a body -> length of its body without payload
  MaxRequests, MaxRequestBodyBytes, MaxResponseBodyBytes,
  MaxAggregateRequestBytes, MaxAggregateResponseBytes   \* Policy

\* buildOperation's cases with a body.
WithBody == {"create_user", "update_user", "create_order", "update_order"}

ASSUME AdmissionAssumption ==
  /\ Bytes \in [Sizes -> Nat] /\ Bytes[NoSize] = 0
  /\ Targets = {Bytes[size] : size \in Sizes}
  /\ DOMAIN BaseLength = WithBody
  /\ Bases = {BaseLength[o] : o \in WithBody}
  /\ MaxRequests \in Nat /\ MaxAggregateRequestBytes \in Nat

VARIABLES
  stage,     \* "received", "invalid", "rejected", "admitted" or "building"
  scenario,  \* the request, then its scenario
  built,     \* how many of its requests were built
  failed,    \* how many could not be
  total      \* the bytes of the bodies built

runVars == <<stage, scenario, built, failed, total>>

AdmissionInit ==
  /\ Init
  /\ stage = "received"
  /\ scenario \in Requests
  /\ built = 0 /\ failed = 0 /\ total = 0

----------------------------------------------------------------------------
\* A bug: the aggregate is left to the limit of each body.
WithinLimitsEach(s) ==
  /\ s.count <= MaxRequests
  /\ Bytes[s.requestSize] <= MaxRequestBodyBytes
  /\ Bytes[s.responseSize] <= MaxResponseBodyBytes

\* Policy.Validate, after the scenario's own.
WithinLimits(s) ==
  /\ s.count <= MaxRequests
  /\ Bytes[s.requestSize] <= MaxRequestBodyBytes
  /\ Bytes[s.responseSize] <= MaxResponseBodyBytes
  /\ s.count * Bytes[s.requestSize] <= MaxAggregateRequestBytes
  /\ s.count * Bytes[s.responseSize] <= MaxAggregateResponseBytes

Refuse(reason) ==
  /\ stage = "received"
  /\ stage' = reason
  /\ UNCHANGED <<vars, scenario, built, failed, total>>

\* handleRun answers 400, for the scenario or for the policy.
Invalid  == ~Valid(Scenario(scenario)) /\ Refuse("invalid")
Rejected == Valid(Scenario(scenario)) /\ ~WithinLimits(Scenario(scenario)) /\ Refuse("rejected")

Admit ==
  /\ stage = "received"
  /\ Valid(Scenario(scenario)) /\ WithinLimits(Scenario(scenario))
  /\ stage' = "admitted"
  /\ scenario' = Scenario(scenario)
  /\ UNCHANGED <<vars, built, failed, total>>

----------------------------------------------------------------------------
Remaining == stage = "admitted" /\ built + failed < scenario.count

\* Build of a request without a body, which has to be asked for without a size.
BuildBodyless ==
  /\ Remaining /\ scenario.operation \notin WithBody
  /\ IF Valid(scenario) /\ scenario.requestSize = NoSize
       THEN built' = built + 1 /\ UNCHANGED failed
       ELSE failed' = failed + 1 /\ UNCHANGED built
  /\ UNCHANGED <<vars, stage, scenario, total>>

BuildBody ==
  /\ Remaining /\ scenario.operation \in WithBody
  /\ Start(Bytes[scenario.requestSize], BaseLength[scenario.operation])
  /\ stage' = "building"
  /\ UNCHANGED <<scenario, built, failed, total>>

Generate ==
  /\ stage = "building"
  /\ Step
  /\ UNCHANGED <<stage, scenario, built, failed, total>>

\* generateJSONBody has returned a body or an error.
Built ==
  /\ stage = "building" /\ at = "returned"
  /\ stage' = "admitted"
  /\ IF body = NoBody
       THEN failed' = failed + 1 /\ UNCHANGED <<built, total>>
       ELSE built' = built + 1 /\ total' = total + body /\ UNCHANGED failed
  /\ UNCHANGED <<vars, scenario>>

AdmissionNext ==
  \/ Invalid \/ Rejected \/ Admit
  \/ BuildBodyless \/ BuildBody \/ Generate \/ Built

AdmissionSpec == AdmissionInit /\ [][AdmissionNext]_<<vars, runVars>>

----------------------------------------------------------------------------
\* What an operation's body is at least, with an empty payload.
Minimal == BaseLength[scenario.operation] + Field
Declared == Bytes[scenario.requestSize]

(***************************************************************************)
(* What is admitted by its declared sizes is built with those sizes: if    *)
(* the operation takes a body that fits, each request is built, and their  *)
(* bodies together stay within the aggregate limit.  A request that cannot *)
(* be built had a size for an operation without a body, which neither      *)
(* validation refuses, or a size the smallest body exceeds twice over.     *)
(***************************************************************************)
AdmittedAsDeclared ==
  stage \in {"admitted", "building"} =>
    IF scenario.operation \notin WithBody
      THEN total = 0 /\ (failed > 0 <=> scenario.requestSize # NoSize /\ built + failed > 0)
      ELSE /\ Declared = 0 => total = built * BaseLength[scenario.operation]
           /\ Minimal <= Declared =>
                total = built * Declared /\ total <= MaxAggregateRequestBytes
           /\ failed > 0 => Declared > 0 /\ Minimal >= 2 * Declared
==============================================================================
