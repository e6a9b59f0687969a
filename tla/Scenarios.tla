------------------------------- MODULE Scenarios -------------------------------
(***************************************************************************)
(* The tables of internal/demo/scenarios.go and internal/demo/request.go:  *)
(* what a client may ask for, and when it is valid.                        *)
(***************************************************************************)
EXTENDS Naturals

CONSTANT MaxCount  \* the request count Validate allows at most

Services == {"users", "orders"}

UserOperations ==
  {"get_users", "get_user", "create_user", "update_user", "delete_user"}
OrderOperations ==
  {"get_orders", "get_order", "create_order", "update_order", "delete_order"}
Operations == UserOperations \cup OrderOperations

\* Operation.Service, "" for an unsupported operation.
Service(o) ==
  IF o \in UserOperations THEN "users" ELSE IF o \in OrderOperations THEN "orders" ELSE ""

Simulations == {"normal", "slow", "error"}

\* RequestSize and ResponseSize have the same values.
NoSize == "0b"
Sizes  == {NoSize, "1kb", "16kb", "64kb", "256kb", "1mb", "4mb"}

\* RunScenarioRequest.Scenario: a count of 0, or none, means 1.
Scenario(request) ==
  [request EXCEPT !.count = IF @ = 0 THEN 1 ELSE @]

\* Scenario.Validate.
Valid(s) ==
  /\ s.service \in Services
  /\ s.operation \in Operations
  /\ Service(s.operation) = s.service
  /\ s.simulation \in Simulations
  /\ s.requestSize \in Sizes
  /\ s.responseSize \in Sizes
  /\ s.count \in 1..MaxCount
==============================================================================
