------------------------------ MODULE Lifecycle ------------------------------
(***************************************************************************)
(* What internal/lifecycle promises to its callers: a bounded table of     *)
(* executions in which every operation of Manager is one step.             *)
(* LifecycleManager models the same code lock by lock and implements this  *)
(* module; ExecutionService and Controller are composed with this one.     *)
(*                                                                         *)
(* An execution that is not a key of Manager.executions is "absent".       *)
(* CreatedAt, StartedAt, Scenario, Result and Error are not modelled, and  *)
(* CompletedAt is modelled in LifecycleManager only, where it orders the   *)
(* evictions.                                                              *)
(***************************************************************************)
EXTENDS Naturals, FiniteSets

CONSTANTS
  IDs,          \* execution IDs
  MaxRetained   \* Manager.maxRetainedExecutions, at least 1 as New requires

VARIABLE status   \* execution ID -> Execution.Status, or "absent"

Active   == {"created", "running"}
Terminal == {"completed", "failed", "cancelled"}
Statuses == {"absent"} \cup Active \cup Terminal

TypeOK == status \in [IDs -> Statuses]

Retained == {id \in IDs : status[id] # "absent"}

Init == status = [id \in IDs |-> "absent"]

(***************************************************************************)
(* The sets of executions that one Create of id may evict: terminal ones,  *)
(* and no more than what brings the table back to its limit.  It may evict *)
(* fewer: an execution that ends while Create scans the table can be       *)
(* missed, so which ones go is left open here.                             *)
(***************************************************************************)
Evictions(id) ==
  {gone \in SUBSET {x \in IDs : status[x] \in Terminal} :
     gone # {} => Cardinality((Retained \cup {id}) \ gone) >= MaxRetained}

Create(id) ==
  /\ status[id] = "absent"
  /\ \E gone \in Evictions(id) :
       status' = [x \in IDs |-> CASE x = id      -> "created"
                                  [] x \in gone -> "absent"
                                  [] OTHER       -> status[x]]

Start(id) ==
  /\ status[id] = "created"
  /\ status' = [status EXCEPT ![id] = "running"]

\* Complete, Fail and Cancel differ in the verdict they record.
Finish(id, verdict) ==
  /\ status[id] = "running"
  /\ status' = [status EXCEPT ![id] = verdict]

Next ==
  \E id \in IDs :
    \/ Create(id)
    \/ Start(id)
    \/ \E verdict \in Terminal : Finish(id, verdict)

Spec == Init /\ [][Next]_status
==============================================================================
