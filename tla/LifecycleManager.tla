--------------------------- MODULE LifecycleManager ---------------------------
(***************************************************************************)
(* internal/lifecycle/manager.go at the granularity of its locks.          *)
(*                                                                         *)
(* Manager.mu guards the table; each Execution has a mutex of its own.     *)
(* Start, Complete, Fail and Cancel look the pointer up under Manager.mu,  *)
(* release it, and only then lock the execution: between the two steps the *)
(* table may change.  Create holds Manager.mu for writing while it scans   *)
(* the table for executions to evict, but reads each execution under that  *)
(* execution's own lock: between two reads any of them may end.            *)
(*                                                                         *)
(* A critical section that takes no further lock is one step.  IDs may be  *)
(* created again once evicted, so pointers are modelled: Objects are the   *)
(* Execution values on the heap, and table maps an ID to one of them.      *)
(***************************************************************************)
EXTENDS Naturals, FiniteSets

CONSTANTS
  IDs,          \* execution IDs
  Objects,      \* Execution values that may be allocated (bounds the Creates)
  Callers,      \* goroutines calling the manager
  None,         \* nil: no object, no caller, no ID
  MaxRetained,  \* Manager.maxRetainedExecutions
  MaxTime       \* bound on the clock

ASSUME ManagerAssumption ==
  /\ IsFiniteSet(IDs) /\ IsFiniteSet(Objects)
  /\ MaxRetained \in Nat \ {0}
  /\ MaxTime \in Nat
  /\ None \notin IDs \cup Objects \cup Callers

VARIABLES
  table,        \* Manager.executions: ID -> object or None
  status,       \* object -> Execution.Status, "unborn" before it is allocated
  completedAt,  \* object -> Execution.CompletedAt, 0 until it ends
  now,          \* what time.Now() returns; two calls may return the same
  call,         \* caller -> the operation it is inside
  writer,       \* the caller that holds Manager.mu for writing, or None
  pending,      \* keys the current pass of evictCompletedLocked has yet to read
  oldest,       \* its oldestID
  settled,      \* ghost: the table when Manager.mu was last unlocked
  passAt,       \* ghost: the time at which the current pass began
  peak          \* ghost: the most executions ever active in the table at once

vars == <<table, status, completedAt, now, call, writer, pending, oldest,
          settled, passAt, peak>>
ghosts == <<settled, passAt, peak>>

Active    == {"created", "running"}
Terminal  == {"completed", "failed", "cancelled"}
Statuses  == {"unborn"} \cup Active \cup Terminal
Mutations == {"start", "complete", "fail", "cancel"}

Idle == [at |-> "idle"]
Call(at, op, id, obj) == [at |-> at, op |-> op, id |-> id, obj |-> obj]

CallStates ==
  {Idle}
  \cup [at : {"insert", "evict", "scan"}, op : {"create"}, id : IDs, obj : Objects]
  \cup [at : {"lookup"}, op : Mutations, id : IDs, obj : {None}]
  \cup [at : {"locked"}, op : Mutations, id : IDs, obj : Objects]

\* Every variable has its type; a caller past lookup holds a pointer, never nil.
TypeOK ==
  /\ table \in [IDs -> Objects \cup {None}]
  /\ status \in [Objects -> Statuses]
  /\ completedAt \in [Objects -> Nat]
  /\ now \in Nat
  /\ call \in [Callers -> CallStates]
  /\ writer \in Callers \cup {None}
  /\ pending \in SUBSET IDs
  /\ oldest \in IDs \cup {None}
  /\ settled \in [IDs -> Objects \cup {None}]
  /\ passAt \in Nat
  /\ peak \in Nat

Keys == {id \in IDs : table[id] # None}
Ended(id) == status[table[id]] \in Terminal
Endeds == {id \in Keys : Ended(id)}

Init ==
  /\ table = [id \in IDs |-> None]
  /\ status = [o \in Objects |-> "unborn"]
  /\ completedAt = [o \in Objects |-> 0]
  /\ now = 0
  /\ call = [c \in Callers |-> Idle]
  /\ writer = None /\ pending = {} /\ oldest = None
  /\ settled = table /\ passAt = 0 /\ peak = 0

----------------------------------------------------------------------------
(***************************************************************************)
(* Create.  newExecution runs before the lock is taken.                    *)
(***************************************************************************)
InvokeCreate(c, id, o) ==
  /\ call[c] = Idle
  /\ status[o] = "unborn"
  /\ status' = [status EXCEPT ![o] = "created"]
  /\ call' = [call EXCEPT ![c] = Call("insert", "create", id, o)]
  /\ UNCHANGED <<table, completedAt, now, writer, pending, oldest, ghosts>>

ActiveAfterInsert == Cardinality(Keys \ Endeds) + 1

\* A bug that inserts without looking for an entry of the same ID.
InsertUnchecked(c) ==
  /\ call[c].at = "insert" /\ writer = None
  /\ table' = [table EXCEPT ![call[c].id] = call[c].obj]
  /\ writer' = c
  /\ call' = [call EXCEPT ![c].at = "evict"]
  /\ peak' = IF ActiveAfterInsert > peak THEN ActiveAfterInsert ELSE peak
  /\ UNCHANGED <<status, completedAt, now, pending, oldest, settled, passAt>>

\* m.mu.Lock(), then either "already exists" or the insertion.
Insert(c) ==
  /\ call[c].at = "insert" /\ writer = None
  /\ IF table[call[c].id] # None
       THEN /\ call' = [call EXCEPT ![c] = Idle]
            /\ UNCHANGED <<table, writer, peak>>
       ELSE /\ table' = [table EXCEPT ![call[c].id] = call[c].obj]
            /\ writer' = c
            /\ call' = [call EXCEPT ![c].at = "evict"]
            /\ peak' = IF ActiveAfterInsert > peak THEN ActiveAfterInsert ELSE peak
  /\ UNCHANGED <<status, completedAt, now, pending, oldest, settled, passAt>>

\* An off-by-one in the loop condition.
OverLimitLate == Cardinality(Keys) > MaxRetained + 1
OverLimit == Cardinality(Keys) > MaxRetained

\* Another turn of evictCompletedLocked's outer loop.
BeginPass(c) ==
  /\ call[c].at = "evict" /\ OverLimit
  /\ pending' = Keys /\ oldest' = None
  /\ call' = [call EXCEPT ![c].at = "scan"]
  /\ passAt' = now
  /\ UNCHANGED <<table, status, completedAt, now, writer, settled, peak>>

\* Bugs: the scan takes running executions too; it keeps the newest.
EvictableAny(id) == TRUE
Evictable(id) == Ended(id)
BeforeReversed(x, y) == completedAt[table[x]] > completedAt[table[y]]
Before(x, y) == completedAt[table[x]] < completedAt[table[y]]

\* One turn of the inner loop; Go ranges over a map in any order.
Visit(c, id) ==
  /\ call[c].at = "scan" /\ id \in pending
  /\ pending' = pending \ {id}
  /\ oldest' = IF Evictable(id) /\ (oldest = None \/ Before(id, oldest))
                 THEN id ELSE oldest
  /\ UNCHANGED <<table, status, completedAt, now, call, writer, ghosts>>

\* Create returns: the deferred m.mu.Unlock().
Unlock(c) ==
  /\ writer' = None
  /\ settled' = table'
  /\ call' = [call EXCEPT ![c] = Idle]

\* A bug that starts another pass although this one found nothing to evict.
EndPassForever(c) ==
  /\ call[c].at = "scan" /\ pending = {}
  /\ table' = IF oldest = None THEN table ELSE [table EXCEPT ![oldest] = None]
  /\ call' = [call EXCEPT ![c].at = "evict"]
  /\ oldest' = None
  /\ UNCHANGED <<status, completedAt, now, writer, pending, settled, passAt, peak>>

\* The pass is over: nothing to evict ends Create, otherwise the entry goes.
EndPass(c) ==
  /\ call[c].at = "scan" /\ pending = {}
  /\ IF oldest = None
       THEN /\ UNCHANGED table
            /\ Unlock(c)
       ELSE /\ table' = [table EXCEPT ![oldest] = None]
            /\ call' = [call EXCEPT ![c].at = "evict"]
            /\ UNCHANGED <<writer, settled>>
  /\ oldest' = None
  /\ UNCHANGED <<status, completedAt, now, pending, passAt, peak>>

ReturnCreate(c) ==
  /\ call[c].at = "evict" /\ ~OverLimit
  /\ UNCHANGED table
  /\ Unlock(c)
  /\ UNCHANGED <<status, completedAt, now, pending, oldest, passAt, peak>>

----------------------------------------------------------------------------
(***************************************************************************)
(* Start, Complete, Fail and Cancel.  Fail's check for a nil error comes   *)
(* first and changes nothing: callers of a mutation always pass one.       *)
(***************************************************************************)
InvokeMutation(c, op, id) ==
  /\ call[c] = Idle
  /\ call' = [call EXCEPT ![c] = Call("lookup", op, id, None)]
  /\ UNCHANGED <<table, status, completedAt, now, writer, pending, oldest, ghosts>>

\* A bug: lookup without Manager.mu.
LookupUnlocked(c) ==
  /\ call[c].at = "lookup"
  /\ call' = [call EXCEPT ![c] = IF table[@.id] = None THEN Idle
                                 ELSE Call("locked", @.op, @.id, table[@.id])]
  /\ UNCHANGED <<table, status, completedAt, now, writer, pending, oldest, ghosts>>

\* "not found", or the caller leaves Manager.mu with a pointer in hand.
Lookup(c) ==
  /\ call[c].at = "lookup" /\ writer = None
  /\ call' = [call EXCEPT ![c] = IF table[@.id] = None THEN Idle
                                 ELSE Call("locked", @.op, @.id, table[@.id])]
  /\ UNCHANGED <<table, status, completedAt, now, writer, pending, oldest, ghosts>>

\* A bug that lets Cancel overwrite the verdict of an ended execution.
RequiredLax(op) == CASE op = "start" -> {"created"} [] op = "cancel" -> Statuses
                     [] OTHER -> {"running"}
Required(op) == IF op = "start" THEN {"created"} ELSE {"running"}
Target(op) == CASE op = "start"    -> "running"
                [] op = "complete" -> "completed"
                [] op = "fail"     -> "failed"
                [] op = "cancel"   -> "cancelled"

\* execution.mu.Lock(): the status guard, then the assignments or an error.
Apply(c) ==
  LET o == call[c].obj  op == call[c].op  ok == status[o] \in Required(op) IN
  /\ call[c].at = "locked"
  /\ status' = IF ok THEN [status EXCEPT ![o] = Target(op)] ELSE status
  /\ completedAt' = IF ok /\ op # "start" THEN [completedAt EXCEPT ![o] = now]
                    ELSE completedAt
  /\ call' = [call EXCEPT ![c] = Idle]
  /\ UNCHANGED <<table, now, writer, pending, oldest, ghosts>>

Tick ==
  /\ now < MaxTime
  /\ now' = now + 1
  /\ UNCHANGED <<table, status, completedAt, call, writer, pending, oldest, ghosts>>

----------------------------------------------------------------------------
Proceed(c) ==
  \/ Insert(c) \/ BeginPass(c) \/ (\E id \in IDs : Visit(c, id))
  \/ EndPass(c) \/ ReturnCreate(c)
  \/ Lookup(c) \/ Apply(c)

Invoke(c) ==
  \E id \in IDs :
    \/ \E o \in Objects : InvokeCreate(c, id, o)
    \/ \E op \in Mutations : InvokeMutation(c, op, id)

Next == Tick \/ \E c \in Callers : Invoke(c) \/ Proceed(c)

Spec == Init /\ [][Next]_vars

(***************************************************************************)
(* A goroutine inside the manager keeps running, and sync.RWMutex starves  *)
(* neither readers nor writers, which is strong fairness of Insert and     *)
(* Lookup.  No caller is obliged to call, and the clock may stand still.   *)
(***************************************************************************)
FairSpec ==
  /\ Spec
  /\ \A c \in Callers :
       WF_vars(Proceed(c)) /\ SF_vars(Insert(c)) /\ SF_vars(Lookup(c))

----------------------------------------------------------------------------
(***************************************************************************)
(* An execution leaves the table only once it has ended: whatever the      *)
(* eviction scan read, and whatever ended or started while it read, the    *)
(* entry it deletes is terminal at the moment of the deletion.             *)
(***************************************************************************)
EvictsOnlyEnded ==
  [][\A id \in IDs : table[id] # None /\ table'[id] # table[id] => Ended(id)]_vars

(***************************************************************************)
(* The pointer that lookup returned is still the one in the table when its *)
(* execution is not ended yet, so no accepted transition is lost on an     *)
(* execution that was evicted, or created again under the same ID, between *)
(* the lookup and the execution's lock.                                    *)
(***************************************************************************)
PointerNotStale ==
  \A c \in Callers :
    call[c].at = "locked" /\ status[call[c].obj] \in Active =>
      table[call[c].id] = call[c].obj

(***************************************************************************)
(* What is evicted is the oldest: a retained execution that ended strictly *)
(* before the evicted one can only have ended after the pass began, when   *)
(* the scan may already have read it as running.                           *)
(***************************************************************************)
EvictsOldest ==
  [][\A id \in IDs : table[id] # None /\ table'[id] = None =>
       \A x \in Endeds : completedAt[table[x]] < completedAt[table[id]] =>
                           completedAt[table[x]] >= passAt]_vars

(***************************************************************************)
(* With Manager.mu free the table exceeds its limit only as far as         *)
(* executions were once all active together: retention is bounded by the   *)
(* limit or by the concurrency, whichever is larger.                       *)
(***************************************************************************)
RetentionBound ==
  writer = None => \/ Cardinality(Keys) <= MaxRetained
                   \/ Cardinality(Keys) <= peak

\* A verdict is final: status and CompletedAt of an ended execution never change.
VerdictIsFinal ==
  [][\A o \in Objects : status[o] \in Terminal =>
       status'[o] = status[o] /\ completedAt'[o] = completedAt[o]]_vars

(***************************************************************************)
(* Seen by callers, who cannot read the table while Create holds the lock, *)
(* every operation is one step of Lifecycle: Create takes effect, with all *)
(* its evictions, when it unlocks.                                         *)
(***************************************************************************)
Promise == INSTANCE Lifecycle WITH
  status <- [id \in IDs |-> IF settled[id] = None THEN "absent"
                            ELSE status[settled[id]]]
ImplementsLifecycle == Promise!Spec

\* Every call of the manager returns: no operation waits or loops for ever.
CallsReturn == \A c \in Callers : call[c] # Idle ~> call[c] = Idle
==============================================================================
