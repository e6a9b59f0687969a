------------------------ MODULE LifecycleManagerProofs ------------------------
(***************************************************************************)
(* Theorems about LifecycleManager for every number of callers, IDs and    *)
(* allocations.  They rest on one inductive invariant, IInv.               *)
(***************************************************************************)
EXTENDS LifecycleManager, TLAPS, FiniteSetTheorems

InCreate(c) == call[c].at \in {"evict", "scan"}

\* Only the caller that holds Manager.mu for writing is inside evictCompletedLocked.
LockInv == \A c \in Callers : InCreate(c) <=> writer = c

\* Pointers in the table, or in a caller's hand, are to executions that exist.
BornInv ==
  /\ \A id \in Keys : status[table[id]] # "unborn"
  /\ \A c \in Callers :
       call[c].at \in {"insert", "locked"} => status[call[c].obj] # "unborn"

\* The scan reads keys of the table, and its choice so far has ended.
ScanInv ==
  /\ \A c \in Callers : call[c].at = "scan" => pending \subseteq Keys
  /\ oldest # None =>
       writer \in Callers /\ call[writer].at = "scan" /\ oldest \in Keys /\ Ended(oldest)

\* No more executions are active in the table than ever were together.
ActiveInv == Cardinality(Keys \ Endeds) <= peak

(***************************************************************************)
(* While a pass has found nothing to evict, the entries it has read, which *)
(* were active then, and the unread ones that still are, were all active   *)
(* together when the pass began.                                           *)
(***************************************************************************)
PassInv ==
  \A c \in Callers :
    call[c].at = "scan" /\ oldest = None =>
      Cardinality(Keys \ (pending \cap Endeds)) <= peak

\* The invariant that is inductive.
IInv ==
  /\ TypeOK /\ LockInv /\ BornInv /\ ScanInv /\ PointerNotStale
  /\ ActiveInv /\ PassInv /\ RetentionBound

----------------------------------------------------------------------------
\* What a caller's record holds, by where the caller is.
LEMMA CallFields ==
  ASSUME NEW k \in CallStates
  PROVE  /\ k.at \in {"idle", "insert", "evict", "scan", "lookup", "locked"}
         /\ k.at \in {"insert", "evict", "scan"} => k.id \in IDs /\ k.obj \in Objects
         /\ k.at = "lookup" => k.op \in Mutations /\ k.id \in IDs
         /\ k.at = "locked" => k.op \in Mutations /\ k.id \in IDs /\ k.obj \in Objects
  BY DEF CallStates, Idle

\* A caller inside Create moves on without changing what it holds.
LEMMA CallMoves ==
  ASSUME NEW k \in CallStates, k.at \in {"insert", "evict", "scan"},
         NEW to \in {"evict", "scan"}
  PROVE  /\ [k EXCEPT !.at = to] \in CallStates
         /\ [k EXCEPT !.at = to].at = to
  BY DEF CallStates, Idle

\* Every state is of the right type, whatever the callers do.
LEMMA TypeStep == TypeOK /\ [Next]_vars => TypeOK'
<1> SUFFICES ASSUME TypeOK, [Next]_vars PROVE TypeOK'
  OBVIOUS
<1> USE DEF TypeOK, ghosts
<1>1. CASE Tick
  BY <1>1 DEF Tick
<1>2. ASSUME NEW c \in Callers, NEW id \in IDs, NEW o \in Objects, InvokeCreate(c, id, o)
      PROVE  TypeOK'
  <2>1. Call("insert", "create", id, o) \in CallStates
    BY DEF Call, CallStates
  <2> QED
    BY <1>2, <2>1 DEF InvokeCreate, Statuses, Active
<1>3. ASSUME NEW c \in Callers, Insert(c) PROVE TypeOK'
  <2>1. call[c].id \in IDs /\ call[c].obj \in Objects
        /\ [call[c] EXCEPT !.at = "evict"] \in CallStates
    BY <1>3, CallFields, CallMoves DEF Insert
  <2>2. Idle \in CallStates
    BY DEF CallStates
  <2>3. IsFiniteSet(Keys \ Endeds)
    BY ManagerAssumption, FS_Subset DEF Keys
  <2>4. ActiveAfterInsert \in Nat
    BY <2>3, FS_CardinalityType DEF ActiveAfterInsert
  <2> QED
    BY <1>3, <2>1, <2>2, <2>4 DEF Insert
<1>4. ASSUME NEW c \in Callers, BeginPass(c) PROVE TypeOK'
  <2>1. [call[c] EXCEPT !.at = "scan"] \in CallStates
    BY <1>4, CallMoves DEF BeginPass
  <2> QED
    BY <1>4, <2>1 DEF BeginPass, Keys
<1>5. ASSUME NEW c \in Callers, NEW id \in IDs, Visit(c, id) PROVE TypeOK'
  BY <1>5 DEF Visit
<1>6. ASSUME NEW c \in Callers, EndPass(c) PROVE TypeOK'
  <2>1. [call[c] EXCEPT !.at = "evict"] \in CallStates
    BY <1>6, CallMoves DEF EndPass
  <2>2. Idle \in CallStates
    BY DEF CallStates
  <2> QED
    BY <1>6, <2>1, <2>2 DEF EndPass, Unlock
<1>7. ASSUME NEW c \in Callers, ReturnCreate(c) PROVE TypeOK'
  BY <1>7 DEF ReturnCreate, Unlock, CallStates
<1>8. ASSUME NEW c \in Callers, NEW id \in IDs, NEW op \in Mutations,
             InvokeMutation(c, op, id)
      PROVE  TypeOK'
  <2>1. Call("lookup", op, id, None) \in CallStates
    BY DEF Call, CallStates
  <2> QED
    BY <1>8, <2>1 DEF InvokeMutation
<1>9. ASSUME NEW c \in Callers, Lookup(c) PROVE TypeOK'
  <2>1. call[c].op \in Mutations /\ call[c].id \in IDs
    BY <1>9, CallFields DEF Lookup
  <2>2. table[call[c].id] # None =>
          Call("locked", call[c].op, call[c].id, table[call[c].id]) \in CallStates
    BY <2>1 DEF Call, CallStates
  <2>3. Idle \in CallStates
    BY DEF CallStates
  <2> QED
    BY <1>9, <2>2, <2>3 DEF Lookup
<1>10. ASSUME NEW c \in Callers, Apply(c) PROVE TypeOK'
  <2>1. call[c].op \in Mutations /\ call[c].obj \in Objects
    BY <1>10, CallFields DEF Apply
  <2>2. Target(call[c].op) \in Statuses
    BY <2>1 DEF Mutations, Target, Statuses, Active, Terminal
  <2>3. Idle \in CallStates
    BY DEF CallStates
  <2> QED
    BY <1>10, <2>1, <2>2, <2>3 DEF Apply
<1>11. CASE UNCHANGED vars
  BY <1>11 DEF vars
<1> QED
  BY <1>1, <1>2, <1>3, <1>4, <1>5, <1>6, <1>7, <1>8, <1>9, <1>10, <1>11
     DEF Next, Invoke, Proceed

----------------------------------------------------------------------------
\* The conjuncts that say who may do what; those that count are separate.
SafeInv == LockInv /\ BornInv /\ ScanInv /\ PointerNotStale

(***************************************************************************)
(* The pointers held by callers, the table and the scan stay consistent:   *)
(* only the caller inside Create deletes, it deletes an ended entry, and a *)
(* caller between lookup and the execution's lock holds either the entry   *)
(* of the table or an execution that has ended.                            *)
(***************************************************************************)
LEMMA SafeStep == TypeOK /\ SafeInv /\ [Next]_vars => SafeInv'
<1> SUFFICES ASSUME TypeOK, SafeInv, [Next]_vars PROVE SafeInv'
  OBVIOUS
<1> USE DEF SafeInv, ghosts
<1>0. /\ \A d \in Callers : call[d] \in CallStates
      /\ \A o \in Objects : status[o] \in Statuses
      /\ None \notin Callers /\ None \notin IDs /\ None \notin Objects
      /\ \A id \in Keys : id \in IDs /\ table[id] \in Objects /\ table[id] # None
  BY ManagerAssumption DEF TypeOK, Keys
<1>f. \A d \in Callers : call[d].at \in {"insert", "locked"} =>
                           call[d].id \in IDs /\ call[d].obj \in Objects
  BY <1>0, CallFields
<1>1. CASE Tick
  BY <1>1 DEF Tick, LockInv, BornInv, ScanInv, PointerNotStale, InCreate, Keys, Ended
<1>2. ASSUME NEW c \in Callers, NEW id \in IDs, NEW o \in Objects, InvokeCreate(c, id, o)
      PROVE  SafeInv'
  <2>1. /\ call[c].at = "idle"
        /\ \A d \in Callers : call'[d] = IF d = c THEN Call("insert", "create", id, o) ELSE call[d]
        /\ \A x \in Objects : status'[x] = IF x = o THEN "created" ELSE status[x]
        /\ status[o] = "unborn"
        /\ UNCHANGED <<table, writer, pending, oldest>>
        /\ Keys' = Keys
    BY <1>2 DEF InvokeCreate, TypeOK, Idle, Keys
  <2>2. LockInv'
    BY <2>1 DEF LockInv, InCreate, Call
  <2>3. BornInv'
    BY <2>1, <1>0, <1>f DEF BornInv, Call
  <2>4. ScanInv'
    BY <2>1, <1>0 DEF ScanInv, Ended, Call, Terminal
  <2>5. PointerNotStale'
    BY <2>1, <1>0, <1>f DEF PointerNotStale, BornInv, Call
  <2> QED
    BY <2>2, <2>3, <2>4, <2>5
<1>3. ASSUME NEW c \in Callers, Insert(c) PROVE SafeInv'
  <2>1. CASE table[call[c].id] # None
    <3>1. /\ \A d \in Callers : call'[d] = IF d = c THEN Idle ELSE call[d]
          /\ call[c].at = "insert"
          /\ UNCHANGED <<table, status, writer, pending, oldest>> /\ Keys' = Keys
      BY <1>3, <2>1 DEF Insert, TypeOK, Keys
    <3> QED
      BY <3>1 DEF LockInv, BornInv, ScanInv, PointerNotStale, InCreate, Ended, Idle
  <2>2. CASE table[call[c].id] = None
    <3> DEFINE id == call[c].id  o == call[c].obj
    <3>1. /\ id \in IDs /\ o \in Objects /\ call[c].at = "insert"
          /\ writer = None /\ writer' = c
          /\ \A d \in Callers : call'[d] = IF d = c THEN [call[c] EXCEPT !.at = "evict"] ELSE call[d]
          /\ \A x \in IDs : table'[x] = IF x = id THEN o ELSE table[x]
          /\ UNCHANGED <<status, pending, oldest>>
      BY <1>3, <1>0, <2>2, <1>f DEF Insert, TypeOK
    <3>2. Keys' = Keys \cup {id}
      BY <3>1, <1>0 DEF Keys
    <3>3. call'[c].at = "evict"
      <4>1. call'[c] = [call[c] EXCEPT !.at = "evict"]
        BY <3>1
      <4>2. call[c] \in CallStates /\ call[c].at = "insert"
        BY <1>0, <3>1 DEF TypeOK
      <4> QED BY <4>1, <4>2, CallMoves
    <3>4. oldest = None /\ \A d \in Callers : ~InCreate(d)
      BY <3>1, <1>0 DEF ScanInv, LockInv
    <3>5. LockInv'
      BY <3>1, <3>3, <3>4, <1>0 DEF LockInv, InCreate
    <3>6. BornInv'
      BY <3>1, <3>2, <3>3, <1>0 DEF BornInv
    <3>7. ScanInv'
      BY <3>1, <3>3, <3>4 DEF ScanInv, InCreate
    <3>8. PointerNotStale'
      BY <3>1, <3>3, <1>0, <2>2, <1>f DEF PointerNotStale
    <3> QED
      BY <3>5, <3>6, <3>7, <3>8
  <2> QED
    BY <2>1, <2>2
<1>4. ASSUME NEW c \in Callers, BeginPass(c) PROVE SafeInv'
  <2>1. /\ call[c].at = "evict"
        /\ \A d \in Callers : call'[d] = IF d = c THEN [call[c] EXCEPT !.at = "scan"] ELSE call[d]
        /\ UNCHANGED <<table, status, writer>> /\ Keys' = Keys
        /\ pending' = Keys /\ oldest' = None
    BY <1>4 DEF BeginPass, TypeOK, Keys
  <2>2. call'[c].at = "scan"
    BY <2>1, <1>0, CallMoves
  <2> QED
    BY <2>1, <2>2 DEF LockInv, BornInv, ScanInv, PointerNotStale, InCreate
<1>5. ASSUME NEW c \in Callers, NEW id \in IDs, Visit(c, id) PROVE SafeInv'
  <2>1. writer = c /\ id \in Keys
    BY <1>5 DEF Visit, LockInv, InCreate, ScanInv
  <2> QED
    BY <1>5, <2>1, <1>0 DEF Visit, LockInv, BornInv, ScanInv, PointerNotStale, InCreate,
                       Evictable, Ended, Keys
<1>6. ASSUME NEW c \in Callers, EndPass(c) PROVE SafeInv'
  <2>0. call[c].at = "scan" /\ writer = c
    BY <1>6 DEF EndPass, LockInv, InCreate
  <2>1. CASE oldest = None
    <3>1. /\ \A d \in Callers : call'[d] = IF d = c THEN Idle ELSE call[d]
          /\ UNCHANGED <<table, status, pending>> /\ Keys' = Keys
          /\ writer' = None /\ oldest' = None
      BY <1>6, <2>1 DEF EndPass, Unlock, TypeOK, Keys
    <3> QED
      BY <3>1, <2>0, <1>0 DEF LockInv, BornInv, ScanInv, PointerNotStale, InCreate, Idle
  <2>2. CASE oldest # None
    <3>1. /\ \A d \in Callers : call'[d] = IF d = c THEN [call[c] EXCEPT !.at = "evict"] ELSE call[d]
          /\ \A x \in IDs : table'[x] = IF x = oldest THEN None ELSE table[x]
          /\ UNCHANGED <<status, pending, writer>> /\ oldest' = None
      BY <1>6, <2>2 DEF EndPass, TypeOK
    <3>2. oldest \in Keys /\ Ended(oldest) /\ Keys' = Keys \ {oldest}
      BY <3>1, <2>2 DEF ScanInv, Keys
    <3>3. call'[c].at = "evict"
      BY <3>1, <2>0, <1>0, CallMoves
    <3>4. \A d \in Callers : call'[d].at = "scan" => FALSE
      BY <3>1, <3>3, <2>0 DEF LockInv, InCreate
    <3>5. LockInv'
      BY <3>1, <3>3, <2>0 DEF LockInv, InCreate
    <3>6. BornInv'
      BY <3>1, <3>2, <3>3, <1>0 DEF BornInv
    <3>7. ScanInv'
      BY <3>1, <3>4 DEF ScanInv
    <3>8. PointerNotStale'
      BY <3>1, <3>2, <3>3, <1>0, <1>f DEF PointerNotStale, Ended, Active, Terminal
    <3> QED
      BY <3>5, <3>6, <3>7, <3>8
  <2> QED
    BY <2>1, <2>2
<1>7. ASSUME NEW c \in Callers, ReturnCreate(c) PROVE SafeInv'
  <2>1. /\ call[c].at = "evict" /\ writer = c
        /\ \A d \in Callers : call'[d] = IF d = c THEN Idle ELSE call[d]
        /\ UNCHANGED <<table, status, pending, oldest>> /\ Keys' = Keys
        /\ writer' = None
    BY <1>7 DEF ReturnCreate, Unlock, TypeOK, Keys, LockInv, InCreate
  <2>2. \A d \in Callers : ~InCreate(d)'
    BY <2>1 DEF LockInv, InCreate, Idle
  <2>3. oldest = None
    BY <2>1 DEF ScanInv
  <2> QED
    BY <2>1, <2>2, <2>3, <1>0 DEF LockInv, BornInv, ScanInv, PointerNotStale, InCreate, Idle
<1>8. ASSUME NEW c \in Callers, NEW id \in IDs, NEW op \in Mutations,
             InvokeMutation(c, op, id)
      PROVE  SafeInv'
  <2>1. /\ call[c].at = "idle"
        /\ \A d \in Callers : call'[d] = IF d = c THEN Call("lookup", op, id, None) ELSE call[d]
        /\ UNCHANGED <<table, status, writer, pending, oldest>> /\ Keys' = Keys
    BY <1>8 DEF InvokeMutation, TypeOK, Idle, Keys
  <2>2. oldest # None => writer # c
    BY <2>1 DEF ScanInv
  <2> QED
    BY <2>1, <2>2 DEF LockInv, BornInv, ScanInv, PointerNotStale, InCreate, Call, Ended
<1>9. ASSUME NEW c \in Callers, Lookup(c) PROVE SafeInv'
  <2> DEFINE id == call[c].id
  <2>1. /\ call[c].at = "lookup" /\ id \in IDs
        /\ \A d \in Callers :
             call'[d] = IF d = c
                          THEN IF table[id] = None THEN Idle
                               ELSE Call("locked", call[c].op, id, table[id])
                          ELSE call[d]
        /\ UNCHANGED <<table, status, writer, pending, oldest>> /\ Keys' = Keys
    BY <1>9, <1>0, CallFields DEF Lookup, TypeOK, Keys
  <2>2. LockInv' /\ ScanInv'
    BY <2>1 DEF LockInv, ScanInv, InCreate, Call, Idle, Ended
  <2>3. table[id] # None => id \in Keys /\ status[table[id]] # "unborn"
    BY <2>1 DEF BornInv, Keys
  <2>4. BornInv' /\ PointerNotStale'
    BY <2>1, <2>3 DEF BornInv, PointerNotStale, Call, Idle
  <2> QED
    BY <2>2, <2>4
<1>10. ASSUME NEW c \in Callers, Apply(c) PROVE SafeInv'
  <2> DEFINE o == call[c].obj
  <2>1. /\ call[c].at = "locked" /\ o \in Objects
        /\ \A d \in Callers : call'[d] = IF d = c THEN Idle ELSE call[d]
        /\ UNCHANGED <<table, writer, pending, oldest>> /\ Keys' = Keys
    BY <1>10, <1>f DEF Apply, TypeOK, Keys
  <2>2. /\ \A x \in Objects : x # o => status'[x] = status[x]
        /\ status'[o] # status[o] => status[o] \in Active
        /\ status[o] # "unborn" => status'[o] # "unborn"
    BY <1>10, <2>1, <1>0, CallFields
       DEF Apply, TypeOK, Required, Target, Active, Mutations
  <2>3. LockInv' /\ BornInv'
    BY <2>1, <2>2, <1>0, <1>f DEF LockInv, BornInv, InCreate, Idle
  <2>4. ScanInv'
    BY <2>1, <2>2, <1>0 DEF ScanInv, Idle, Ended, Active, Terminal
  <2>5. PointerNotStale'
    BY <2>1, <2>2, <1>0, <1>f DEF PointerNotStale, Idle, Active
  <2> QED
    BY <2>3, <2>4, <2>5
<1>11. CASE UNCHANGED vars
  BY <1>11 DEF vars, LockInv, BornInv, ScanInv, PointerNotStale, InCreate, Keys, Ended
<1> QED
  BY <1>1, <1>2, <1>3, <1>4, <1>5, <1>6, <1>7, <1>8, <1>9, <1>10, <1>11
     DEF Next, Invoke, Proceed

----------------------------------------------------------------------------
\* The conjuncts that count executions.
CountInv == ActiveInv /\ PassInv /\ RetentionBound

\* Sets of executions are finite.
LEMMA Cardinals ==
  ASSUME NEW S \in SUBSET IDs
  PROVE  /\ IsFiniteSet(S) /\ Cardinality(S) \in Nat
         /\ \A T \in SUBSET S : Cardinality(T) \in Nat /\ Cardinality(T) <= Cardinality(S)
         /\ \A id \in IDs : Cardinality(S \cup {id}) <= Cardinality(S) + 1
<1>1. IsFiniteSet(S)
  BY ManagerAssumption, FS_Subset
<1>2. \A T \in SUBSET S : IsFiniteSet(T) /\ Cardinality(T) <= Cardinality(S)
  BY <1>1, FS_Subset
<1>3. \A id \in IDs : Cardinality(S \cup {id}) <= Cardinality(S) + 1
  <2> TAKE id \in IDs
  <2>1. Cardinality(S \cup {id}) = IF id \in S THEN Cardinality(S) ELSE Cardinality(S) + 1
    BY <1>1, FS_AddElement
  <2> QED
    BY <1>1, <2>1, FS_CardinalityType
<1> QED
  BY <1>1, <1>2, <1>3, FS_CardinalityType

(***************************************************************************)
(* The bound on the table: an insertion raises peak with the number of     *)
(* active entries; nothing else makes an entry active; and a pass that     *)
(* finds nothing to evict has read only entries that were active together. *)
(***************************************************************************)
LEMMA CountStep == TypeOK /\ SafeInv /\ CountInv /\ [Next]_vars => CountInv'
<1> SUFFICES ASSUME TypeOK, SafeInv, CountInv, [Next]_vars PROVE CountInv'
  OBVIOUS
<1> USE DEF CountInv, ghosts
<1>0. /\ peak \in Nat /\ MaxRetained \in Nat
      /\ Keys \in SUBSET IDs /\ Endeds \in SUBSET Keys
      /\ \A d \in Callers : call[d] \in CallStates
      /\ None \notin Callers /\ None \notin IDs /\ None \notin Objects
  BY ManagerAssumption DEF TypeOK, Keys, Endeds
\* A step that leaves the table and the scan alone and only ends executions.
<1>a. ASSUME UNCHANGED <<table, pending, oldest, peak>>, Endeds \subseteq Endeds',
             \A c \in Callers : call'[c].at = "scan" => call[c].at = "scan",
             writer' = writer
      PROVE  CountInv'
  <2>1. Keys' = Keys /\ Endeds' \subseteq Keys
    BY <1>a DEF Keys, Endeds
  <2>2. Cardinality(Keys' \ Endeds') <= Cardinality(Keys \ Endeds)
    <3>1. Keys' \ Endeds' \in SUBSET (Keys \ Endeds) /\ Keys \ Endeds \in SUBSET IDs
      BY <1>a, <2>1, <1>0
    <3> QED
      BY <3>1, Cardinals
  <2>3. Cardinality(Keys' \ (pending' \cap Endeds')) <= Cardinality(Keys \ (pending \cap Endeds))
    <3>1. /\ Keys' \ (pending' \cap Endeds') \in SUBSET (Keys \ (pending \cap Endeds))
          /\ Keys \ (pending \cap Endeds) \in SUBSET IDs
      BY <1>a, <2>1, <1>0
    <3> QED
      BY <3>1, Cardinals
  <2>4. /\ Cardinality(Keys' \ Endeds') \in Nat /\ Cardinality(Keys \ Endeds) \in Nat
        /\ Cardinality(Keys' \ (pending' \cap Endeds')) \in Nat
        /\ Cardinality(Keys \ (pending \cap Endeds)) \in Nat
    <3>1. /\ Keys' \ Endeds' \in SUBSET IDs /\ Keys \ Endeds \in SUBSET IDs
          /\ Keys' \ (pending' \cap Endeds') \in SUBSET IDs
          /\ Keys \ (pending \cap Endeds) \in SUBSET IDs
      BY <2>1, <1>0
    <3> QED
      BY <3>1, Cardinals
  <2>5. ActiveInv'
    BY <1>a, <1>0, <2>2, <2>4 DEF ActiveInv
  <2>6. PassInv'
    BY <1>a, <1>0, <2>3, <2>4 DEF PassInv
  <2>7. RetentionBound'
    BY <1>a, <2>1 DEF RetentionBound
  <2> QED
    BY <2>5, <2>6, <2>7
<1>1. CASE Tick
  BY <1>1, <1>a DEF Tick, Keys, Endeds, Ended
<1>2. ASSUME NEW c \in Callers, NEW id \in IDs, NEW o \in Objects, InvokeCreate(c, id, o)
      PROVE  CountInv'
  <2>1. /\ \A d \in Callers : call'[d].at = "scan" => call[d].at = "scan"
        /\ UNCHANGED <<table, pending, oldest, peak>> /\ writer' = writer /\ Keys' = Keys
        /\ \A x \in Objects : status[x] \in Terminal => status'[x] = status[x]
    BY <1>2 DEF InvokeCreate, TypeOK, Call, Keys, Terminal
  <2>2. Endeds \subseteq Endeds'
    BY <2>1, <1>0 DEF Endeds, Ended, Keys, TypeOK
  <2> QED
    BY <2>1, <2>2, <1>a
<1>3. ASSUME NEW c \in Callers, Insert(c) PROVE CountInv'
  <2>1. CASE table[call[c].id] # None
    <3>1. /\ \A d \in Callers : call'[d].at = "scan" => call[d].at = "scan"
          /\ UNCHANGED <<table, pending, oldest, peak>> /\ writer' = writer
          /\ Endeds' = Endeds
      BY <1>3, <2>1 DEF Insert, TypeOK, Idle, Endeds, Ended, Keys
    <3> QED
      BY <3>1, <1>a
  <2>2. CASE table[call[c].id] = None
    <3> DEFINE id == call[c].id
    <3>0. call[c].at = "insert" /\ id \in IDs /\ call[c].obj \in Objects
      BY <1>3, <1>0, CallFields DEF Insert
    <3>1. /\ \A x \in IDs : x # id => table'[x] = table[x]
          /\ status' = status /\ writer' = c
      BY <1>3, <2>2 DEF Insert, TypeOK
    <3>2. Keys' \ Endeds' \in SUBSET ((Keys \ Endeds) \cup {id})
      BY <3>1, <1>0 DEF Keys, Endeds, Ended
    <3>3. /\ Cardinality(Keys' \ Endeds') <= ActiveAfterInsert
          /\ Cardinality(Keys' \ Endeds') \in Nat /\ ActiveAfterInsert \in Nat
      <4>1. (Keys \ Endeds) \in SUBSET IDs /\ (Keys \ Endeds) \cup {id} \in SUBSET IDs
        BY <1>0, <3>0
      <4>2. /\ Cardinality((Keys \ Endeds) \cup {id}) <= Cardinality(Keys \ Endeds) + 1
            /\ Cardinality((Keys \ Endeds) \cup {id}) \in Nat
            /\ Cardinality(Keys \ Endeds) \in Nat
        BY <4>1, <3>0, Cardinals
      <4>3. /\ Cardinality(Keys' \ Endeds') <= Cardinality((Keys \ Endeds) \cup {id})
            /\ Cardinality(Keys' \ Endeds') \in Nat
        BY <4>1, <3>2, Cardinals
      <4> QED
        BY <4>2, <4>3 DEF ActiveAfterInsert
    <3>4. peak' \in Nat /\ ActiveAfterInsert <= peak'
      BY <1>3, <2>2, <3>3, <1>0 DEF Insert
    <3>5. ActiveInv'
      BY <3>3, <3>4 DEF ActiveInv
    <3>6. \A d \in Callers : call[d].at # "scan"
      BY <1>3, <1>0 DEF Insert, SafeInv, LockInv, InCreate
    <3>7. \A d \in Callers : call'[d].at # "scan"
      <4>1. [call[c] EXCEPT !.at = "evict"].at = "evict"
        BY <3>0, <1>0, CallMoves
      <4> QED
        BY <1>3, <2>2, <3>6, <4>1 DEF Insert, TypeOK
    <3>8. PassInv' /\ RetentionBound'
      BY <3>1, <3>7, <1>0 DEF PassInv, RetentionBound
    <3> QED
      BY <3>5, <3>8
  <2> QED
    BY <2>1, <2>2
<1>4. ASSUME NEW c \in Callers, BeginPass(c) PROVE CountInv'
  <2>1. /\ UNCHANGED <<table, status, writer, peak>> /\ Keys' = Keys /\ Endeds' = Endeds
        /\ pending' = Keys
    BY <1>4 DEF BeginPass, Keys, Endeds, Ended
  <2>2. Keys' \ (pending' \cap Endeds') = Keys \ Endeds
    BY <2>1
  <2>3. writer = c
    BY <1>4 DEF BeginPass, SafeInv, LockInv, InCreate
  <2> QED
    BY <2>1, <2>2, <2>3, <1>0 DEF ActiveInv, PassInv, RetentionBound
<1>5. ASSUME NEW c \in Callers, NEW id \in IDs, Visit(c, id) PROVE CountInv'
  <2>1. /\ UNCHANGED <<table, status, call, writer, peak>> /\ Keys' = Keys /\ Endeds' = Endeds
        /\ pending' = pending \ {id} /\ id \in Keys
        /\ oldest' = None => oldest = None /\ id \notin Endeds
    BY <1>5, <1>0 DEF Visit, Keys, Endeds, Ended, Evictable, SafeInv, ScanInv
  <2>2. oldest' = None => Keys' \ (pending' \cap Endeds') = Keys \ (pending \cap Endeds)
    BY <2>1
  <2>3. ActiveInv' /\ RetentionBound'
    BY <2>1 DEF ActiveInv, RetentionBound
  <2>4. PassInv'
    BY <2>1, <2>2 DEF PassInv
  <2> QED
    BY <2>3, <2>4
<1>6. ASSUME NEW c \in Callers, EndPass(c) PROVE CountInv'
  <2>0. /\ call[c].at = "scan" /\ writer = c /\ pending = {}
        /\ \A d \in Callers : d # c => call[d].at # "scan"
    BY <1>6 DEF EndPass, SafeInv, LockInv, InCreate
  <2>1. CASE oldest = None
    <3>1. /\ \A d \in Callers : call'[d].at # "scan"
          /\ UNCHANGED <<table, status, peak>> /\ Keys' = Keys /\ Endeds' = Endeds
      BY <1>6, <2>0, <2>1 DEF EndPass, Unlock, TypeOK, Idle, Keys, Endeds, Ended
    <3>2. Keys \ (pending \cap Endeds) = Keys
      BY <2>0
    <3>3. Cardinality(Keys) <= peak
      BY <2>0, <2>1, <3>2 DEF PassInv
    <3> QED
      BY <3>1, <3>3 DEF ActiveInv, PassInv, RetentionBound
  <2>2. CASE oldest # None
    <3>1. /\ \A x \in IDs : table'[x] = IF x = oldest THEN None ELSE table[x]
          /\ UNCHANGED <<status, writer, peak>>
          /\ \A d \in Callers : call'[d].at # "scan"
      <4>1. [call[c] EXCEPT !.at = "evict"].at = "evict"
        BY <2>0, <1>0, CallMoves
      <4> QED
        BY <1>6, <2>0, <2>2, <4>1 DEF EndPass, TypeOK
    <3>2. oldest \in Endeds
      BY <2>2 DEF SafeInv, ScanInv, Endeds
    <3>3. Keys' \ Endeds' = Keys \ Endeds
      BY <3>1, <3>2, <1>0 DEF Keys, Endeds, Ended
    <3> QED
      BY <3>1, <3>3, <2>0, <1>0 DEF ActiveInv, PassInv, RetentionBound
  <2> QED
    BY <2>1, <2>2
<1>7. ASSUME NEW c \in Callers, ReturnCreate(c) PROVE CountInv'
  <2>1. /\ UNCHANGED <<table, status, peak>> /\ Keys' = Keys /\ Endeds' = Endeds
        /\ writer = c /\ call[c].at = "evict"
        /\ \A d \in Callers : call'[d].at # "scan"
    BY <1>7 DEF ReturnCreate, Unlock, TypeOK, Keys, Endeds, Ended, SafeInv, LockInv,
                InCreate, Idle
  <2>2. Cardinality(Keys) \in Nat
    BY <1>0, Cardinals
  <2>3. Cardinality(Keys) <= MaxRetained
    BY <1>7, <2>2, <1>0 DEF ReturnCreate, OverLimit
  <2> QED
    BY <2>1, <2>3 DEF ActiveInv, PassInv, RetentionBound
<1>8. ASSUME NEW c \in Callers, NEW id \in IDs, NEW op \in Mutations,
             InvokeMutation(c, op, id)
      PROVE  CountInv'
  <2>1. /\ \A d \in Callers : call'[d].at = "scan" => call[d].at = "scan"
        /\ UNCHANGED <<table, pending, oldest, peak>> /\ writer' = writer /\ Endeds' = Endeds
    BY <1>8 DEF InvokeMutation, TypeOK, Call, Keys, Endeds, Ended
  <2> QED
    BY <2>1, <1>a
<1>9. ASSUME NEW c \in Callers, Lookup(c) PROVE CountInv'
  <2>1. /\ \A d \in Callers : call'[d].at = "scan" => call[d].at = "scan"
        /\ UNCHANGED <<table, pending, oldest, peak>> /\ writer' = writer /\ Endeds' = Endeds
    BY <1>9 DEF Lookup, TypeOK, Call, Idle, Keys, Endeds, Ended
  <2> QED
    BY <2>1, <1>a
<1>10. ASSUME NEW c \in Callers, Apply(c) PROVE CountInv'
  <2>1. /\ \A d \in Callers : call'[d].at = "scan" => call[d].at = "scan"
        /\ UNCHANGED <<table, pending, oldest, peak>> /\ writer' = writer /\ Keys' = Keys
        /\ \A x \in Objects : status[x] \in Terminal => status'[x] = status[x]
    BY <1>10 DEF Apply, TypeOK, Idle, Keys, Terminal, Required
  <2>2. Endeds \subseteq Endeds'
    BY <2>1, <1>0 DEF Endeds, Ended, Keys, TypeOK
  <2> QED
    BY <2>1, <2>2, <1>a
<1>11. CASE UNCHANGED vars
  BY <1>11, <1>a DEF vars, Keys, Endeds, Ended
<1> QED
  BY <1>1, <1>2, <1>3, <1>4, <1>5, <1>6, <1>7, <1>8, <1>9, <1>10, <1>11
     DEF Next, Invoke, Proceed

----------------------------------------------------------------------------
\* The initial state: an empty table that nobody holds.
LEMMA InitHolds == Init => IInv
<1> SUFFICES ASSUME Init PROVE IInv
  OBVIOUS
<1>1. TypeOK
  BY DEF Init, TypeOK, Statuses, CallStates
<1>2. \A c \in Callers : call[c].at = "idle"
  BY DEF Init, Idle
<1>3. Keys = {}
  BY DEF Init, Keys
<1>4. LockInv /\ BornInv /\ ScanInv /\ PointerNotStale /\ PassInv
  BY <1>2, <1>3, ManagerAssumption
     DEF Init, LockInv, BornInv, ScanInv, PointerNotStale, PassInv, InCreate
<1>5. Cardinality(Keys \ Endeds) = 0 /\ Cardinality(Keys) = 0
  <2>1. Keys \ Endeds = {}
    BY <1>3
  <2> QED
    BY <2>1, <1>3, FS_EmptySet
<1> QED
  BY <1>1, <1>4, <1>5, ManagerAssumption DEF IInv, ActiveInv, RetentionBound, Init

\* The inductive invariant holds in every reachable state.
THEOREM Invariance == Spec => []IInv
<1>1. IInv /\ [Next]_vars => IInv'
  BY TypeStep, SafeStep, CountStep DEF IInv, SafeInv, CountInv
<1> QED
  BY <1>1, InitHolds, PTL DEF Spec

\* Every variable keeps its type; in particular no caller of Start, Complete,
\* Fail or Cancel ever locks a nil execution.
THEOREM TypeCorrect == Spec => []TypeOK
<1>1. IInv => TypeOK
  BY DEF IInv
<1> QED
  BY <1>1, Invariance, PTL

\* The pointer taken by lookup is not stale when it is used, although
\* Manager.mu was released: eviction and ID reuse only concern ended executions.
THEOREM PointersAreCurrent == Spec => []PointerNotStale
<1>1. IInv => PointerNotStale
  BY DEF IInv
<1> QED
  BY <1>1, Invariance, PTL

\* The table exceeds its limit only as far as executions were active together.
THEOREM RetentionIsBounded == Spec => []RetentionBound
<1>1. IInv => RetentionBound
  BY DEF IInv
<1> QED
  BY <1>1, Invariance, PTL

\* What evictCompletedLocked deletes has ended when it is deleted.
THEOREM EvictionIsSafe == Spec => EvictsOnlyEnded
<1>1. IInv /\ [Next]_vars =>
        [\A id \in IDs : table[id] # None /\ table'[id] # table[id] => Ended(id)]_vars
  <2> SUFFICES ASSUME IInv, Next, NEW id \in IDs, table[id] # None, table'[id] # table[id]
               PROVE  Ended(id)
    OBVIOUS
  <2>1. TypeOK /\ SafeInv
    BY DEF IInv, SafeInv
  <2>2. ASSUME NEW c \in Callers, Insert(c) PROVE Ended(id)
    BY <2>1, <2>2 DEF Insert, TypeOK
  <2>3. ASSUME NEW c \in Callers, EndPass(c) PROVE Ended(id)
    BY <2>1, <2>3 DEF EndPass, TypeOK, SafeInv, ScanInv
  <2>4. \/ \E c \in Callers : Insert(c)
        \/ \E c \in Callers : EndPass(c)
        \/ table' = table
    BY DEF Next, Proceed, Invoke, Tick, InvokeCreate, BeginPass, Visit, ReturnCreate,
           InvokeMutation, Lookup, Apply
  <2> QED
    BY <2>2, <2>3, <2>4
<1> QED
  BY <1>1, Invariance, PTL DEF Spec, EvictsOnlyEnded

\* No interleaving of Complete, Fail and Cancel changes a verdict once recorded.
THEOREM VerdictsAreFinal == Spec => VerdictIsFinal
<1>1. IInv /\ [Next]_vars =>
        [\A o \in Objects : status[o] \in Terminal =>
           status'[o] = status[o] /\ completedAt'[o] = completedAt[o]]_vars
  <2> SUFFICES ASSUME IInv, Next, NEW o \in Objects, status[o] \in Terminal
               PROVE  status'[o] = status[o] /\ completedAt'[o] = completedAt[o]
    OBVIOUS
  <2>1. TypeOK
    BY DEF IInv
  <2>2. ASSUME NEW c \in Callers, NEW id \in IDs, NEW x \in Objects, InvokeCreate(c, id, x)
        PROVE  status'[o] = status[o] /\ completedAt'[o] = completedAt[o]
    BY <2>1, <2>2 DEF InvokeCreate, TypeOK, Terminal
  <2>3. ASSUME NEW c \in Callers, Apply(c)
        PROVE  status'[o] = status[o] /\ completedAt'[o] = completedAt[o]
    BY <2>1, <2>3 DEF Apply, TypeOK, Terminal, Required
  <2>4. \/ \E c \in Callers, id \in IDs, x \in Objects : InvokeCreate(c, id, x)
        \/ \E c \in Callers : Apply(c)
        \/ status' = status /\ completedAt' = completedAt
    BY DEF Next, Proceed, Invoke, Tick, Insert, EndPass, BeginPass, Visit, ReturnCreate,
           InvokeMutation, Lookup, Unlock
  <2> QED
    BY <2>2, <2>3, <2>4
<1> QED
  BY <1>1, Invariance, PTL DEF Spec, VerdictIsFinal

----------------------------------------------------------------------------
(***************************************************************************)
(* The safety in CallsReturn.  What the loops of evictCompletedLocked have *)
(* left to do shrinks with each step of the caller in them, and nobody     *)
(* else's step adds to it: first the table, then the loop that is entered, *)
(* then the entries of the pass that are still to be read.                 *)
(***************************************************************************)
EvictionAdvances(c) ==
  \/ call'[c] = Idle /\ table' = table
  \/ Keys' \subseteq Keys /\ Keys' # Keys
  \/ table' = table /\ call[c].at = "evict" /\ call'[c].at = "scan"
  \/ UNCHANGED <<call[c], table>> /\ pending' \subseteq pending /\ pending' # pending

\* Create cannot loop for ever, however executions start, end and are created meanwhile.
THEOREM EvictionEnds ==
  Spec => [][\A c \in Callers : InCreate(c) =>
               IF Proceed(c) THEN EvictionAdvances(c)
                             ELSE UNCHANGED <<call[c], table, pending>>]_vars
<1> DEFINE Goal(c) == IF Proceed(c) THEN EvictionAdvances(c)
                                    ELSE UNCHANGED <<call[c], table, pending>>
<1>1. IInv /\ [Next]_vars => [\A c \in Callers : InCreate(c) => Goal(c)]_vars
  <2> SUFFICES ASSUME IInv, Next, NEW c \in Callers, InCreate(c) PROVE Goal(c)
    OBVIOUS
  <2>1. TypeOK /\ writer = c /\ writer # None
    BY ManagerAssumption DEF IInv, LockInv
  <2>2. ASSUME NEW d \in Callers, d # c, Proceed(d) \/ Invoke(d)
        PROVE  UNCHANGED <<call[c], table, pending>>
    <3>1. ~InCreate(d)
      BY <2>1, <2>2 DEF IInv, LockInv
    <3> QED
      BY <2>1, <2>2, <3>1
      DEF TypeOK, Proceed, Invoke, Insert, BeginPass, Visit, EndPass, ReturnCreate, Lookup,
          Apply, InvokeCreate, InvokeMutation, InCreate, ghosts
  <2>3. ASSUME Invoke(c) PROVE FALSE
    BY <2>3 DEF Invoke, InvokeCreate, InvokeMutation, InCreate, Idle
  <2>4. ASSUME BeginPass(c) PROVE EvictionAdvances(c)
    BY <2>1, <2>4 DEF BeginPass, EvictionAdvances, TypeOK
  <2>5. ASSUME NEW id \in IDs, Visit(c, id) PROVE EvictionAdvances(c)
    BY <2>5 DEF Visit, EvictionAdvances
  <2>6. ASSUME EndPass(c) /\ oldest = None PROVE EvictionAdvances(c)
    BY <2>1, <2>6 DEF EndPass, Unlock, EvictionAdvances, TypeOK
  <2>7. ASSUME EndPass(c) /\ oldest # None PROVE EvictionAdvances(c)
    <3>1. oldest \in Keys /\ table' = [table EXCEPT ![oldest] = None]
      BY <2>7 DEF EndPass, IInv, ScanInv
    <3>2. Keys' = Keys \ {oldest}
      BY <2>1, <3>1 DEF TypeOK, Keys
    <3> QED
      BY <3>1, <3>2 DEF EvictionAdvances
  <2>8. ASSUME ReturnCreate(c) PROVE EvictionAdvances(c)
    BY <2>1, <2>8 DEF ReturnCreate, Unlock, EvictionAdvances, TypeOK
  <2>9. ASSUME Insert(c) \/ Lookup(c) \/ Apply(c) PROVE FALSE
    BY <2>9 DEF Insert, Lookup, Apply, InCreate
  <2>10. CASE Proceed(c)
    BY <2>4, <2>5, <2>6, <2>7, <2>8, <2>9, <2>10 DEF Proceed
  <2>11. CASE ~Proceed(c)
    <3>1. CASE Tick
      BY <2>11, <3>1 DEF Tick, ghosts
    <3> QED
      BY <2>2, <2>3, <2>11, <3>1 DEF Next
  <2> QED
    BY <2>10, <2>11
<1> QED
  BY <1>1, Invariance, PTL DEF Spec

----------------------------------------------------------------------------
\* Of the ended entries that the pass has read, one that ended before the pass began
\* is not older than its choice.
OldestInv ==
  /\ passAt <= now
  /\ \A c \in Callers : call[c].at = "scan" =>
       \A x \in Endeds \ pending : completedAt[table[x]] < passAt =>
         oldest # None /\ completedAt[table[oldest]] <= completedAt[table[x]]

LEMMA OldestStep == TypeOK /\ SafeInv /\ OldestInv /\ [Next]_vars => OldestInv'
<1> SUFFICES ASSUME TypeOK, SafeInv, OldestInv, [Next]_vars PROVE OldestInv'
  OBVIOUS
<1> USE DEF ghosts
<1>0. /\ \A d \in Callers : call[d] \in CallStates
      /\ table \in [IDs -> Objects \cup {None}] /\ status \in [Objects -> Statuses]
      /\ completedAt \in [Objects -> Nat] /\ now \in Nat /\ passAt \in Nat
      /\ call \in [Callers -> CallStates]
      /\ \A id \in Keys : table[id] \in Objects
  BY DEF TypeOK, Keys
\* A step that reads or begins nothing, and after which no caller newly scans.
<1>1. ASSUME UNCHANGED <<completedAt, passAt, pending, oldest>>, now' \in Nat, now' >= now,
             \A d \in Callers : call'[d].at = "scan" =>
               /\ call[d].at = "scan"
               /\ table' = table
               /\ \A id \in Keys : status'[table[id]] = status[table[id]]
      PROVE  OldestInv'
  <2>1. passAt' <= now'
    BY <1>0, <1>1 DEF OldestInv
  <2>2. ASSUME NEW d \in Callers, call'[d].at = "scan",
               NEW x \in (Endeds \ pending)', (completedAt[table[x]] < passAt)'
        PROVE  (oldest # None /\ completedAt[table[oldest]] <= completedAt[table[x]])'
    <3>1. x \in Endeds \ pending
      BY <1>1, <2>2 DEF Endeds, Ended, Keys
    <3> QED
      BY <1>1, <2>2, <3>1 DEF OldestInv
  <2> QED
    BY <2>1, <2>2 DEF OldestInv
<1>2. CASE Tick
  BY <1>0, <1>1, <1>2 DEF Tick
<1>3. ASSUME NEW c \in Callers, NEW id \in IDs, NEW o \in Objects, InvokeCreate(c, id, o)
      PROVE  OldestInv'
  <2>1. \A x \in Keys : table[x] # o
    BY <1>3 DEF InvokeCreate, SafeInv, BornInv
  <2>2. \A x \in Keys : status'[table[x]] = status[table[x]]
    BY <1>0, <1>3, <2>1 DEF InvokeCreate
  <2>3. \A d \in Callers : call'[d].at = "scan" => call[d].at = "scan"
    BY <1>0, <1>3 DEF InvokeCreate, Call
  <2> QED
    BY <1>0, <1>1, <1>3, <2>2, <2>3 DEF InvokeCreate
<1>4. ASSUME NEW c \in Callers, Insert(c) PROVE OldestInv'
  <2>1. \A d \in Callers : call[d].at # "scan"
    BY <1>4, ManagerAssumption DEF Insert, SafeInv, LockInv, InCreate
  <2>2. call'[c].at # "scan"
    <3>1. [call[c] EXCEPT !.at = "evict"].at = "evict"
      BY <1>0, <1>4, CallMoves DEF Insert
    <3>2. call'[c] = Idle \/ call'[c] = [call[c] EXCEPT !.at = "evict"]
      BY <1>0, <1>4 DEF Insert
    <3>3. Idle.at = "idle"
      BY DEF Idle
    <3>4. call'[c].at \in {"evict", "idle"}
      BY <3>1, <3>2, <3>3, Zenon
    <3> QED
      BY <3>4
  <2>3. \A d \in Callers : call'[d].at # "scan"
    <3>1. \A d \in Callers \ {c} : call'[d] = call[d]
      BY <1>0, <1>4 DEF Insert
    <3> QED
      BY <2>1, <2>2, <3>1
  <2> QED
    BY <1>0, <1>1, <1>4, <2>3 DEF Insert
<1>5. ASSUME NEW c \in Callers, BeginPass(c) PROVE OldestInv'
  <2>1. passAt' <= now' /\ Endeds' \subseteq pending'
    BY <1>0, <1>5 DEF BeginPass, Endeds, Keys
  <2> QED
    BY <2>1 DEF OldestInv
<1>6. ASSUME NEW c \in Callers, NEW id \in IDs, Visit(c, id) PROVE OldestInv'
  <2>1. /\ id \in Keys /\ call[c].at = "scan"
        /\ oldest # None => oldest \in Keys
        /\ Endeds' = Endeds
    BY <1>0, <1>6 DEF Visit, SafeInv, ScanInv, Endeds, Ended, Keys
  <2>2. /\ id \in IDs /\ id # None
    BY <1>6, ManagerAssumption
  <2>3. ASSUME NEW x \in Endeds \ pending', completedAt[table[x]] < passAt
        PROVE  oldest' # None /\ completedAt[table[oldest']] <= completedAt[table[x]]
    <3>0. x \in Keys /\ Ended(x) /\ table[x] \in Objects
      BY <1>0, <2>3 DEF Endeds
    <3>1. CASE x = id
      BY <1>0, <1>6, <2>1, <2>2, <3>0, <3>1 DEF Visit, Evictable, Before
    <3>2. CASE x # id
      <4>1. oldest # None /\ completedAt[table[oldest]] <= completedAt[table[x]]
        BY <1>6, <2>1, <2>3, <3>2 DEF Visit, OldestInv
      <4> QED
        BY <1>0, <1>6, <2>1, <2>2, <3>0, <4>1 DEF Visit, Evictable, Before
    <3> QED
      BY <3>1, <3>2
  <2> QED
    BY <1>6, <2>1, <2>3 DEF Visit, OldestInv
<1>7. ASSUME NEW c \in Callers, EndPass(c) \/ ReturnCreate(c) PROVE OldestInv'
  <2>1. InCreate(c) /\ [call[c] EXCEPT !.at = "evict"].at = "evict"
    BY <1>0, <1>7, CallMoves DEF EndPass, ReturnCreate, InCreate
  <2>2. \A d \in Callers : call'[d].at # "scan"
    <3>1. \A d \in Callers \ {c} : call'[d] = call[d] /\ call[d].at # "scan"
      BY <1>0, <1>7, <2>1 DEF EndPass, ReturnCreate, Unlock, SafeInv, LockInv, InCreate
    <3>2. call'[c] = Idle \/ call'[c] = [call[c] EXCEPT !.at = "evict"]
      BY <1>0, <1>7 DEF EndPass, ReturnCreate, Unlock
    <3>3. Idle.at = "idle"
      BY DEF Idle
    <3>4. call'[c].at \in {"evict", "idle"}
      BY <2>1, <3>2, <3>3, Zenon
    <3> QED
      BY <3>1, <3>4
  <2>3. passAt' = passAt /\ now' = now
    BY <1>7 DEF EndPass, ReturnCreate
  <2> QED
    BY <2>2, <2>3 DEF OldestInv
<1>8. ASSUME NEW c \in Callers,
             Lookup(c) \/ \E id \in IDs, op \in Mutations : InvokeMutation(c, op, id)
      PROVE  OldestInv'
  <2>1. \A d \in Callers : call'[d].at = "scan" => call[d].at = "scan"
    BY <1>0, <1>8 DEF InvokeMutation, Lookup, Call, Idle
  <2> QED
    BY <1>0, <1>1, <1>8, <2>1 DEF InvokeMutation, Lookup
<1>9. ASSUME NEW c \in Callers, Apply(c) PROVE OldestInv'
  <2>1. PICK o \in Objects : call[c].obj = o
    BY <1>0, <1>9, CallFields DEF Apply
  <2>2. /\ \A d \in Callers : call'[d].at = "scan" => call[d].at = "scan"
        /\ UNCHANGED <<table, now, passAt, pending, oldest>>
    BY <1>0, <1>9 DEF Apply, Idle
  <2>3. CASE status' = status /\ completedAt' = completedAt
    BY <1>0, <1>1, <2>2, <2>3
  <2>4. CASE /\ status[o] \in Active
             /\ \A x \in Objects \ {o} : status'[x] = status[x] /\ completedAt'[x] = completedAt[x]
             /\ status'[o] \in Terminal => completedAt'[o] = now
    <3>1. ASSUME NEW d \in Callers, call'[d].at = "scan",
                 NEW x \in (Endeds \ pending)', (completedAt[table[x]] < passAt)'
          PROVE  (oldest # None /\ completedAt[table[oldest]] <= completedAt[table[x]])'
      <4>1. x \in Keys /\ x \notin pending /\ status'[table[x]] \in Terminal
        BY <2>2, <3>1 DEF Endeds, Ended, Keys
      <4>2. table[x] \in Objects \ {o}
        BY <1>0, <2>2, <2>4, <3>1, <4>1 DEF OldestInv
      <4>3. x \in Endeds \ pending /\ completedAt'[table[x]] = completedAt[table[x]]
        BY <2>4, <4>1, <4>2 DEF Endeds, Ended
      <4>4. oldest # None /\ completedAt[table[oldest]] <= completedAt[table[x]]
        BY <2>2, <3>1, <4>3 DEF OldestInv
      <4>5. table[oldest] \in Objects \ {o}
        BY <1>0, <2>4, <4>4 DEF SafeInv, ScanInv, Ended, Active, Terminal
      <4> QED
        BY <2>2, <2>4, <4>3, <4>4, <4>5
    <3> QED
      BY <2>2, <3>1 DEF OldestInv
  <2>5. CASE status[o] \in Required(call[c].op)
    <3>1. status' = [status EXCEPT ![o] = Target(call[c].op)]
      BY <1>9, <2>1, <2>5 DEF Apply
    <3>2. completedAt' = IF call[c].op = "start" THEN completedAt
                         ELSE [completedAt EXCEPT ![o] = now]
      BY <1>9, <2>1, <2>5 DEF Apply
    <3>3. status[o] \in Active
      BY <2>5 DEF Required, Active
    <3>4. call[c].op = "start" => status'[o] \notin Terminal
      BY <1>0, <3>1 DEF Target, Terminal
    <3> QED
      BY <1>0, <2>4, <3>1, <3>2, <3>3, <3>4
  <2> QED
    BY <1>9, <2>1, <2>3, <2>5 DEF Apply
<1>10. CASE UNCHANGED vars
  BY <1>0, <1>1, <1>10 DEF vars
<1>11. ASSUME NEW c \in Callers, Proceed(c) PROVE OldestInv'
  BY <1>4, <1>5, <1>6, <1>7, <1>8, <1>9, <1>11 DEF Proceed
<1>12. ASSUME NEW c \in Callers, Invoke(c) PROVE OldestInv'
  BY <1>3, <1>8, <1>12 DEF Invoke
<1> QED
  BY <1>2, <1>10, <1>11, <1>12 DEF Next

\* What evictCompletedLocked deletes is the oldest of what had ended when its pass
\* began: an older one that stays ended during the pass.
THEOREM EvictionIsOldestFirst == Spec => EvictsOldest
<1>1. Init => OldestInv
  BY DEF Init, OldestInv, Idle
<1>2. IInv /\ OldestInv /\ [Next]_vars => OldestInv'
  BY OldestStep DEF IInv, SafeInv
<1>3. IInv /\ OldestInv /\ [Next]_vars =>
        [\A id \in IDs : table[id] # None /\ table'[id] = None =>
           \A x \in Endeds : completedAt[table[x]] < completedAt[table[id]] =>
                               completedAt[table[x]] >= passAt]_vars
  <2> SUFFICES ASSUME IInv, OldestInv, Next,
                      NEW id \in IDs, table[id] # None, table'[id] = None,
                      NEW x \in Endeds, completedAt[table[x]] < completedAt[table[id]]
               PROVE  completedAt[table[x]] >= passAt
    OBVIOUS
  <2>1. TypeOK /\ SafeInv
    BY DEF IInv, SafeInv
  <2>2. ASSUME NEW c \in Callers, Insert(c) PROVE FALSE
    <3>1. call[c].obj \in Objects
      BY <2>1, <2>2, CallFields DEF Insert, TypeOK
    <3> QED
      BY <2>1, <2>2, <3>1, ManagerAssumption DEF Insert, TypeOK
  <2>3. ASSUME NEW c \in Callers, EndPass(c) PROVE completedAt[table[x]] >= passAt
    <3>1. id = oldest /\ call[c].at = "scan" /\ x \in Endeds \ pending
      BY <2>1, <2>3 DEF EndPass, TypeOK
    <3>2. /\ table[x] \in Objects /\ table[id] \in Objects
          /\ completedAt \in [Objects -> Nat] /\ passAt \in Nat
      BY <2>1 DEF TypeOK, Endeds, Keys
    <3> QED
      BY <3>1, <3>2 DEF OldestInv
  <2>4. \/ \E c \in Callers : Insert(c)
        \/ \E c \in Callers : EndPass(c)
        \/ table' = table
    BY DEF Next, Proceed, Invoke, Tick, InvokeCreate, BeginPass, Visit, ReturnCreate,
           InvokeMutation, Lookup, Apply
  <2> QED
    BY <2>2, <2>3, <2>4
<1> QED
  BY <1>1, <1>2, <1>3, Invariance, PTL DEF Spec, EvictsOldest

----------------------------------------------------------------------------
(***************************************************************************)
(* Towards Lifecycle: who knows the execution of a Create under way, and   *)
(* how the table differs meanwhile from the one that callers last saw.     *)
(***************************************************************************)
Fresh == {c \in Callers : call[c].at \in {"insert", "evict", "scan"}}

(***************************************************************************)
(* The execution of a Create that has not returned is known to nobody      *)
(* else: not to another caller, and not to the table but under its own ID. *)
(***************************************************************************)
Private(c) ==
  LET o == call[c].obj IN
  /\ status[o] = "created"
  /\ \A d \in Callers : d # c /\ call[d].at \in {"insert", "evict", "scan", "locked"} =>
                          call[d].obj # o
  /\ \A id \in IDs : settled[id] # o
  /\ \A id \in IDs : table[id] = o <=> InCreate(c) /\ id = call[c].id

FreshInv == \A c \in Fresh : Private(c)

\* An execution has one ID.
DistinctInv ==
  \A x, y \in IDs : /\ table[x] # None /\ table[x] = table[y] => x = y
                    /\ settled[x] # None /\ settled[x] = settled[y] => x = y

(***************************************************************************)
(* Between two Creates callers see the table as it is.  During a Create it *)
(* has the new entry in addition, and lacks ended ones that were evicted.  *)
(***************************************************************************)
SettledInv ==
  /\ writer = None => settled = table
  /\ \A id \in IDs : settled[id] # None => status[settled[id]] # "unborn"
  /\ \A c \in Callers : InCreate(c) =>
       /\ settled[call[c].id] = None
       /\ \A id \in IDs \ {call[c].id} :
            table[id] # settled[id] => table[id] = None /\ status[settled[id]] \in Terminal

\* The entries that the current Create has evicted so far.
Evicted == {id \in IDs : settled[id] # None /\ table[id] = None}

\* What is evicted is in excess of the limit.
LimitInv ==
  /\ \A c \in Callers : call[c].at = "scan" => OverLimit
  /\ Evicted # {} => Cardinality(Keys) >= MaxRetained

\* The invariant of the refinement, on top of IInv.
SeenInv == FreshInv /\ DistinctInv /\ SettledInv /\ LimitInv

----------------------------------------------------------------------------
(***************************************************************************)
(* A step, by what it does to the table and to the pointers that callers   *)
(* hold.  c is the caller that moves.                                      *)
(***************************************************************************)
Others(c) == \A d \in Callers \ {c} : call'[d] = call[d]

Allocates(c, o) ==
  /\ call[c].at = "idle" /\ status[o] = "unborn"
  /\ status' = [status EXCEPT ![o] = "created"]
  /\ call'[c].at = "insert" /\ call'[c].obj = o /\ Others(c)
  /\ UNCHANGED <<table, settled, writer>>

Inserts(c) ==
  /\ call[c].at = "insert" /\ writer = None /\ writer' = c
  /\ call[c].id \in IDs /\ call[c].obj \in Objects /\ table[call[c].id] = None
  /\ table' = [table EXCEPT ![call[c].id] = call[c].obj]
  /\ call'[c].at = "evict" /\ call'[c].id = call[c].id /\ call'[c].obj = call[c].obj /\ Others(c)
  /\ UNCHANGED <<status, settled>>

Begins(c) ==
  /\ call[c].at = "evict" /\ OverLimit
  /\ call'[c].at = "scan" /\ call'[c].id = call[c].id /\ call'[c].obj = call[c].obj /\ Others(c)
  /\ UNCHANGED <<table, status, settled, writer>>

Evicts(c) ==
  /\ call[c].at = "scan" /\ writer = c
  /\ oldest \in Keys /\ Ended(oldest)
  /\ table' = [table EXCEPT ![oldest] = None]
  /\ call'[c].at = "evict" /\ call'[c].id = call[c].id /\ call'[c].obj = call[c].obj /\ Others(c)
  /\ UNCHANGED <<status, settled, writer>>

Unlocks(c) ==
  /\ InCreate(c) /\ writer = c /\ writer' = None
  /\ settled' = table
  /\ call'[c] = Idle /\ Others(c)
  /\ UNCHANGED <<table, status>>

LooksUp(c) ==
  /\ call[c].at = "lookup" /\ writer = None
  /\ \/ call'[c] = Idle
     \/ /\ call'[c].at = "locked" /\ call'[c].id \in IDs
        /\ call'[c].obj = table[call'[c].id] /\ call'[c].obj # None
  /\ Others(c)
  /\ UNCHANGED <<table, status, settled, writer>>

Mutates(c) ==
  /\ call[c].at = "locked" /\ call[c].obj \in Objects /\ call[c].id \in IDs
  /\ call[c].op \in Mutations
  /\ \/ status' = status
     \/ /\ status[call[c].obj] \in Required(call[c].op)
        /\ status' = [status EXCEPT ![call[c].obj] = Target(call[c].op)]
  /\ call'[c] = Idle /\ Others(c)
  /\ UNCHANGED <<table, settled, writer>>

Quiet ==
  /\ UNCHANGED <<table, status, settled, writer>>
  /\ \A d \in Callers : \/ call'[d] = call[d]
                        \/ call'[d].at \in {"idle", "lookup"} /\ ~InCreate(d)

\* Every step is one of these.
LEMMA StepKinds ==
  ASSUME TypeOK, SafeInv, [Next]_vars
  PROVE  \/ \E c \in Callers : \/ \E o \in Objects : Allocates(c, o)
                               \/ Inserts(c) \/ Begins(c) \/ Evicts(c) \/ Unlocks(c)
                               \/ LooksUp(c) \/ Mutates(c)
         \/ Quiet
<1> USE DEF ghosts
<1>0. \A d \in Callers : call[d] \in CallStates
  BY DEF TypeOK
<1>1. ASSUME NEW c \in Callers, NEW id \in IDs, NEW o \in Objects, InvokeCreate(c, id, o)
      PROVE  Allocates(c, o)
  BY <1>1 DEF InvokeCreate, Allocates, Others, TypeOK, Idle, Call
<1>2. ASSUME NEW c \in Callers, Insert(c) PROVE Inserts(c) \/ Quiet
  <2>1. call[c].at = "insert" /\ call[c].id \in IDs /\ call[c].obj \in Objects
    BY <1>0, <1>2, CallFields DEF Insert
  <2>2. CASE table[call[c].id] # None
    BY <1>2, <2>1, <2>2 DEF Insert, Quiet, TypeOK, Idle, InCreate
  <2>3. CASE table[call[c].id] = None
    <3>1. /\ [call[c] EXCEPT !.at = "evict"].at = "evict"
          /\ [call[c] EXCEPT !.at = "evict"].id = call[c].id
          /\ [call[c] EXCEPT !.at = "evict"].obj = call[c].obj
      BY <1>0, <2>1 DEF CallStates, Idle
    <3> QED
      BY <1>2, <2>1, <2>3, <3>1 DEF Insert, Inserts, Others, TypeOK
  <2> QED
    BY <2>2, <2>3
<1>3. ASSUME NEW c \in Callers, BeginPass(c) PROVE Begins(c)
  <2>1. /\ [call[c] EXCEPT !.at = "scan"].at = "scan"
        /\ [call[c] EXCEPT !.at = "scan"].id = call[c].id
        /\ [call[c] EXCEPT !.at = "scan"].obj = call[c].obj
    BY <1>0, <1>3 DEF BeginPass, CallStates, Idle
  <2> QED
    BY <1>3, <2>1 DEF BeginPass, Begins, Others, TypeOK
<1>4. ASSUME NEW c \in Callers, EndPass(c) PROVE Evicts(c) \/ Unlocks(c)
  <2>1. call[c].at = "scan" /\ writer = c
    BY <1>4 DEF EndPass, SafeInv, LockInv, InCreate
  <2>2. CASE oldest = None
    BY <1>4, <2>1, <2>2 DEF EndPass, Unlock, Unlocks, Others, TypeOK, InCreate
  <2>3. CASE oldest # None
    <3>1. /\ [call[c] EXCEPT !.at = "evict"].at = "evict"
          /\ [call[c] EXCEPT !.at = "evict"].id = call[c].id
          /\ [call[c] EXCEPT !.at = "evict"].obj = call[c].obj
      BY <1>0, <2>1 DEF CallStates, Idle
    <3>2. oldest \in Keys /\ Ended(oldest)
      BY <2>3 DEF SafeInv, ScanInv
    <3> QED
      BY <1>4, <2>1, <2>3, <3>1, <3>2 DEF EndPass, Evicts, Others, TypeOK
  <2> QED
    BY <2>2, <2>3
<1>5. ASSUME NEW c \in Callers, ReturnCreate(c) PROVE Unlocks(c)
  BY <1>5 DEF ReturnCreate, Unlock, Unlocks, Others, TypeOK, SafeInv, LockInv, InCreate
<1>6. ASSUME NEW c \in Callers, NEW op \in Mutations, NEW id \in IDs, InvokeMutation(c, op, id)
      PROVE  Quiet
  BY <1>6 DEF InvokeMutation, Quiet, TypeOK, Idle, Call, InCreate
<1>7. ASSUME NEW c \in Callers, Lookup(c) PROVE LooksUp(c)
  <2>1. call[c].at = "lookup" /\ call[c].id \in IDs
    BY <1>0, <1>7, CallFields DEF Lookup
  <2> QED
    BY <1>7, <2>1 DEF Lookup, LooksUp, Others, TypeOK, Call
<1>8. ASSUME NEW c \in Callers, Apply(c) PROVE Mutates(c)
  <2>1. /\ call[c].at = "locked" /\ call[c].obj \in Objects /\ call[c].id \in IDs
        /\ call[c].op \in Mutations
    BY <1>0, <1>8, CallFields DEF Apply
  <2> QED
    BY <1>8, <2>1 DEF Apply, Mutates, Others, TypeOK
<1>9. ASSUME Tick \/ UNCHANGED vars \/ \E c \in Callers, id \in IDs : Visit(c, id)
      PROVE  Quiet
  BY <1>9 DEF Tick, Visit, vars, Quiet
<1> QED
  BY <1>1, <1>2, <1>3, <1>4, <1>5, <1>6, <1>7, <1>8, <1>9 DEF Next, Invoke, Proceed

----------------------------------------------------------------------------
\* What the type says of the table and of the pointers.
LEMMA Pointers ==
  ASSUME TypeOK, SafeInv
  PROVE  /\ None \notin Objects /\ None \notin IDs /\ None \notin Callers
         /\ \A id \in IDs : table[id] # None => table[id] \in Objects /\ status[table[id]] # "unborn"
         /\ \A d \in Callers : call[d].at \in {"insert", "evict", "scan"} =>
              call[d].id \in IDs /\ call[d].obj \in Objects
         /\ \A d \in Callers : call[d].at \in {"insert", "locked"} => status[call[d].obj] # "unborn"
         /\ \A d \in Callers : InCreate(d) <=> writer = d
<1>1. None \notin Objects /\ None \notin IDs /\ None \notin Callers
  BY ManagerAssumption
<1>2. \A id \in IDs : table[id] # None => table[id] \in Objects /\ status[table[id]] # "unborn"
  BY DEF TypeOK, SafeInv, BornInv, Keys
<1>3. \A d \in Callers : call[d].at \in {"insert", "evict", "scan"} =>
        call[d].id \in IDs /\ call[d].obj \in Objects
  BY CallFields DEF TypeOK
<1> QED
  BY <1>1, <1>2, <1>3 DEF SafeInv, BornInv, LockInv

(***************************************************************************)
(* A new execution is unknown; it enters the table under its own ID when   *)
(* its Create inserts it, and nobody can look it up, start it or evict it  *)
(* before that Create unlocks.                                             *)
(***************************************************************************)
LEMMA FreshStep == TypeOK /\ SafeInv /\ SeenInv /\ [Next]_vars => FreshInv'
<1> SUFFICES ASSUME TypeOK, SafeInv, FreshInv, SettledInv, [Next]_vars,
                    NEW e \in Callers, call'[e].at \in {"insert", "evict", "scan"}
             PROVE  Private(e)'
  BY DEF SeenInv, FreshInv, Fresh
<1> USE Pointers
<1>0. call[e].at \in {"insert", "evict", "scan"} => Private(e)
  BY DEF FreshInv, Fresh
<1>1. ASSUME NEW c \in Callers, NEW o \in Objects, Allocates(c, o) PROVE Private(e)'
  <2>1. /\ \A d \in Callers : d # c /\ call[d].at \in {"insert", "evict", "scan", "locked"} =>
                                call[d].obj # o
        /\ \A id \in IDs : settled[id] # o /\ table[id] # o
    BY <1>1 DEF Allocates, FreshInv, Fresh, Private, SettledInv
  <2>2. CASE e = c
    BY <1>1, <2>1, <2>2 DEF Allocates, Others, Private, InCreate, TypeOK
  <2>3. CASE e # c
    <3>1. call'[e] = call[e] /\ call[e].obj # o /\ Private(e)
      BY <1>0, <1>1, <2>1, <2>3 DEF Allocates, Others
    <3>2. status'[call[e].obj] = "created"
      BY <1>1, <3>1 DEF Allocates, Private, TypeOK
    <3> QED
      BY <1>1, <3>1, <3>2 DEF Allocates, Others, Private, InCreate
  <2> QED
    BY <2>2, <2>3
<1>2. ASSUME NEW c \in Callers, Inserts(c) PROVE Private(e)'
  <2>1. CASE e = c
    BY <1>0, <1>2, <2>1 DEF Inserts, Others, Private, InCreate, TypeOK
  <2>2. CASE e # c
    <3>1. call'[e] = call[e] /\ Private(e) /\ call[c].obj # call[e].obj
      BY <1>0, <1>2, <2>2 DEF Inserts, Others, Private
    <3>2. ~InCreate(e)
      BY <1>2 DEF Inserts
    <3> QED
      BY <1>2, <2>2, <3>1, <3>2 DEF Inserts, Others, Private, InCreate, TypeOK
  <2> QED
    BY <2>1, <2>2
<1>3. ASSUME NEW c \in Callers, Begins(c) PROVE Private(e)'
  BY <1>0, <1>3 DEF Begins, Others, Private, InCreate
<1>4. ASSUME NEW c \in Callers, Evicts(c) PROVE Private(e)'
  <2>1. /\ Private(e) /\ call'[e].obj = call[e].obj /\ call'[e].id = call[e].id
        /\ call[e].obj \in Objects /\ InCreate(e)' = InCreate(e)
    BY <1>0, <1>4 DEF Evicts, Others, InCreate
  <2>2. table[oldest] # call[e].obj
    BY <1>4, <2>1 DEF Evicts, Private, Ended, Terminal
  <2>3. \A id \in IDs : table'[id] = call[e].obj <=> table[id] = call[e].obj
    BY <1>4, <2>1, <2>2 DEF Evicts, TypeOK
  <2> QED
    BY <1>4, <2>1, <2>3 DEF Evicts, Others, Private
<1>5. ASSUME NEW c \in Callers, Unlocks(c) PROVE Private(e)'
  <2>1. e # c /\ call'[e] = call[e] /\ Private(e) /\ ~InCreate(e)
    BY <1>0, <1>5 DEF Unlocks, Others, Idle
  <2> QED
    BY <1>5, <2>1 DEF Unlocks, Others, Private, InCreate, Idle
<1>6. ASSUME NEW c \in Callers, LooksUp(c) PROVE Private(e)'
  <2>1. e # c /\ call'[e] = call[e] /\ Private(e) /\ ~InCreate(e)
    BY <1>0, <1>6 DEF LooksUp, Others, Idle
  <2>2. \A id \in IDs : table[id] # call[e].obj
    BY <2>1 DEF Private
  <2> QED
    BY <1>6, <2>1, <2>2 DEF LooksUp, Others, Private, InCreate, Idle
<1>7. ASSUME NEW c \in Callers, Mutates(c) PROVE Private(e)'
  <2>1. e # c /\ call'[e] = call[e] /\ Private(e) /\ call[c].obj # call[e].obj
    BY <1>0, <1>7 DEF Mutates, Others, Idle, Private
  <2>2. status'[call[e].obj] = status[call[e].obj]
    BY <1>7, <2>1 DEF Mutates, TypeOK
  <2> QED
    BY <1>7, <2>1, <2>2 DEF Mutates, Others, Private, InCreate, Idle
<1>8. CASE Quiet
  <2>1. call'[e] = call[e] /\ Private(e)
    BY <1>0, <1>8 DEF Quiet
  <2> QED
    BY <1>8, <2>1 DEF Quiet, Private, InCreate
<1> QED
  BY <1>1, <1>2, <1>3, <1>4, <1>5, <1>6, <1>7, <1>8, StepKinds

\* An object enters the table once, and settled takes over the table as a whole.
LEMMA DistinctStep == TypeOK /\ SafeInv /\ SeenInv /\ [Next]_vars => DistinctInv'
<1> SUFFICES ASSUME TypeOK, SafeInv, FreshInv, DistinctInv, [Next]_vars PROVE DistinctInv'
  BY DEF SeenInv
<1> USE Pointers
<1>1. ASSUME NEW c \in Callers, Inserts(c) PROVE DistinctInv'
  <2>1. \A id \in IDs : table[id] # call[c].obj
    BY <1>1 DEF Inserts, FreshInv, Fresh, Private, InCreate
  <2> QED
    BY <1>1, <2>1 DEF Inserts, DistinctInv, TypeOK
<1>2. ASSUME NEW c \in Callers, Evicts(c) PROVE DistinctInv'
  BY <1>2 DEF Evicts, DistinctInv, TypeOK
<1>3. ASSUME NEW c \in Callers, Unlocks(c) PROVE DistinctInv'
  BY <1>3 DEF Unlocks, DistinctInv
<1>4. ASSUME table' = table, settled' = settled PROVE DistinctInv'
  BY <1>4 DEF DistinctInv
<1> QED
  BY <1>1, <1>2, <1>3, <1>4, StepKinds DEF Allocates, Begins, LooksUp, Mutates, Quiet

(***************************************************************************)
(* Callers see the table as it is, but for the Create under way: its entry *)
(* is not seen yet, and those it evicted, all ended, still are.            *)
(***************************************************************************)
LEMMA SettledStep == TypeOK /\ SafeInv /\ SeenInv /\ [Next]_vars => SettledInv'
<1> SUFFICES ASSUME TypeOK, SafeInv, FreshInv, SettledInv, [Next]_vars PROVE SettledInv'
  BY DEF SeenInv
<1> USE Pointers
<1>0. /\ table \in [IDs -> Objects \cup {None}] /\ settled \in [IDs -> Objects \cup {None}]
      /\ status \in [Objects -> Statuses]
  BY DEF TypeOK
<1>1. ASSUME NEW c \in Callers, NEW o \in Objects, Allocates(c, o) PROVE SettledInv'
  <2>1. /\ \A id \in IDs : settled[id] # None =>
             settled[id] # o /\ status'[settled[id]] = status[settled[id]]
        /\ \A d \in Callers : InCreate(d)' => InCreate(d) /\ call'[d] = call[d]
    BY <1>0, <1>1 DEF Allocates, Others, SettledInv, InCreate
  <2> QED
    BY <1>0, <1>1, <2>1 DEF Allocates, SettledInv, Terminal
<1>2. ASSUME NEW c \in Callers, Inserts(c) PROVE SettledInv'
  <2>1. /\ settled = table /\ writer' # None
        /\ \A d \in Callers : InCreate(d)' => d = c
    BY <1>2 DEF Inserts, Others, SettledInv, InCreate
  <2> QED
    BY <1>0, <1>2, <2>1 DEF Inserts, SettledInv
<1>3. ASSUME NEW c \in Callers, Begins(c) PROVE SettledInv'
  BY <1>3 DEF Begins, Others, SettledInv, InCreate
<1>4. ASSUME NEW c \in Callers, Evicts(c) PROVE SettledInv'
  <2>1. /\ InCreate(c) /\ call[c].id \in IDs /\ call'[c].id = call[c].id
        /\ \A d \in Callers : InCreate(d)' => d = c
    BY <1>4 DEF Evicts, Others, InCreate
  <2>2. oldest \in IDs /\ table[oldest] # None /\ status[table[oldest]] \in Terminal
    BY <1>4 DEF Evicts, Keys, Ended
  <2>3. table[oldest] = settled[oldest] \/ oldest = call[c].id
    BY <2>1, <2>2 DEF SettledInv
  <2> QED
    BY <1>0, <1>4, <2>1, <2>2, <2>3 DEF Evicts, SettledInv
<1>5. ASSUME NEW c \in Callers, Unlocks(c) PROVE SettledInv'
  <2>1. \A d \in Callers : ~InCreate(d)'
    BY <1>5 DEF Unlocks, Others, InCreate, Idle
  <2> QED
    BY <1>5, <2>1 DEF Unlocks, SettledInv
<1>6. ASSUME NEW c \in Callers, LooksUp(c) PROVE SettledInv'
  <2>1. \A d \in Callers : ~InCreate(d)'
    BY <1>6 DEF LooksUp, Others, InCreate, Idle
  <2> QED
    BY <1>6, <2>1 DEF LooksUp, SettledInv
<1>7. ASSUME NEW c \in Callers, Mutates(c) PROVE SettledInv'
  <2>1. \A o \in Objects : /\ status[o] \in Terminal => status'[o] = status[o]
                           /\ status[o] # "unborn" => status'[o] # "unborn"
    BY <1>0, <1>7 DEF Mutates, Required, Target, Terminal, Mutations
  <2>2. \A d \in Callers : InCreate(d)' => InCreate(d) /\ call'[d] = call[d]
    BY <1>7 DEF Mutates, Others, InCreate, Idle
  <2> QED
    BY <1>0, <1>7, <2>1, <2>2 DEF Mutates, SettledInv
<1>8. CASE Quiet
  <2>1. \A d \in Callers : InCreate(d)' => InCreate(d) /\ call'[d] = call[d]
    BY <1>8 DEF Quiet, InCreate
  <2> QED
    BY <1>8, <2>1 DEF Quiet, SettledInv
<1> QED
  BY <1>1, <1>2, <1>3, <1>4, <1>5, <1>6, <1>7, <1>8, StepKinds

\* A pass begins over the limit, so the entry it evicts leaves at least that many.
LEMMA LimitStep == TypeOK /\ SafeInv /\ SeenInv /\ [Next]_vars => LimitInv'
<1> SUFFICES ASSUME TypeOK, SafeInv, SettledInv, LimitInv, [Next]_vars PROVE LimitInv'
  BY DEF SeenInv
<1> USE Pointers
<1>0. Keys \in SUBSET IDs /\ Cardinality(Keys) \in Nat /\ MaxRetained \in Nat
      /\ table \in [IDs -> Objects \cup {None}]
  <2>1. Keys \in SUBSET IDs
    BY DEF Keys
  <2> QED
    BY <2>1, Cardinals, ManagerAssumption DEF TypeOK
<1>1. ASSUME table' = table, settled' = settled,
             \A d \in Callers : call'[d].at = "scan" => call[d].at = "scan" \/ OverLimit
      PROVE  LimitInv'
  BY <1>1 DEF LimitInv, Evicted, Keys, OverLimit
<1>2. ASSUME NEW c \in Callers, Inserts(c) PROVE LimitInv'
  <2>1. Evicted' = {}
    BY <1>0, <1>2 DEF Inserts, SettledInv, Evicted
  <2>2. \A d \in Callers : call'[d].at # "scan"
    BY <1>2 DEF Inserts, Others, InCreate
  <2> QED
    BY <2>1, <2>2 DEF LimitInv
<1>3. ASSUME NEW c \in Callers, Evicts(c) PROVE LimitInv'
  <2>1. Keys' = Keys \ {oldest} /\ oldest \in Keys /\ Cardinality(Keys) > MaxRetained
    BY <1>0, <1>3 DEF Evicts, Keys, LimitInv, OverLimit
  <2>2. Cardinality(Keys') = Cardinality(Keys) - 1
    <3>1. IsFiniteSet(Keys)
      BY <1>0, Cardinals
    <3> QED
      BY <2>1, <3>1, FS_RemoveElement
  <2>3. \A d \in Callers : call'[d].at # "scan"
    BY <1>3 DEF Evicts, Others, InCreate
  <2> QED
    BY <1>0, <2>1, <2>2, <2>3 DEF LimitInv
<1>4. ASSUME NEW c \in Callers, Unlocks(c) PROVE LimitInv'
  <2>1. Evicted' = {} /\ \A d \in Callers : call'[d].at # "scan"
    BY <1>4 DEF Unlocks, Others, Idle, Evicted, InCreate
  <2> QED
    BY <2>1 DEF LimitInv
<1>5. ASSUME NEW c \in Callers,
             \/ \E o \in Objects : Allocates(c, o)
             \/ Begins(c) \/ LooksUp(c) \/ Mutates(c)
      PROVE  LimitInv'
  <2>1. table' = table /\ settled' = settled
    BY <1>5 DEF Allocates, Begins, LooksUp, Mutates
  <2>2. \A d \in Callers : call'[d].at = "scan" => call[d].at = "scan" \/ OverLimit
    BY <1>5 DEF Allocates, Begins, LooksUp, Mutates, Others, Idle
  <2> QED
    BY <1>1, <2>1, <2>2
<1>6. CASE Quiet
  <2>1. \A d \in Callers : call'[d].at = "scan" => call[d].at = "scan"
    BY <1>6 DEF Quiet
  <2> QED
    BY <1>1, <1>6, <2>1 DEF Quiet
<1> QED
  BY <1>2, <1>3, <1>4, <1>5, <1>6, StepKinds

\* Nothing is allocated, and the table is empty.
LEMMA InitSeen == Init => SeenInv
<1> SUFFICES ASSUME Init PROVE SeenInv
  OBVIOUS
<1>1. Fresh = {} /\ \A c \in Callers : ~InCreate(c) /\ call[c].at # "scan"
  BY DEF Init, Fresh, InCreate, Idle
<1>2. Evicted = {}
  BY DEF Init, Evicted
<1> QED
  BY <1>1, <1>2 DEF Init, SeenInv, FreshInv, DistinctInv, SettledInv, LimitInv

\* What callers see, and what the current Create knows, in every reachable state.
THEOREM SeenInvariance == Spec => [](IInv /\ SeenInv)
<1>1. IInv /\ SeenInv /\ [Next]_vars => SeenInv'
  BY FreshStep, DistinctStep, SettledStep, LimitStep DEF IInv, SafeInv, SeenInv
<1> QED
  BY <1>1, InitSeen, Invariance, PTL DEF Spec

----------------------------------------------------------------------------
(***************************************************************************)
(* The refinement.  Seen is what Lifecycle calls status.                   *)
(***************************************************************************)
Seen == [id \in IDs |-> IF settled[id] = None THEN "absent" ELSE status[settled[id]]]

\* What counts as a step of Lifecycle.
LEMMA PromiseSteps ==
  ASSUME NEW id \in IDs
  PROVE  /\ Promise!Create(id) => Promise!Next
         /\ Promise!Start(id) => Promise!Next
         /\ \A verdict \in Promise!Terminal : Promise!Finish(id, verdict) => Promise!Next
<1>1. Promise!Create(id) => Promise!Next
  BY DEF Promise!Next
<1>2. Promise!Start(id) => Promise!Next
  BY DEF Promise!Next
<1>3. \A verdict \in Promise!Terminal : Promise!Finish(id, verdict) => Promise!Next
  BY DEF Promise!Next
<1> QED
  BY <1>1, <1>2, <1>3

\* An empty table, seen from outside.
LEMMA InitPromise == Init => Promise!Init
  BY DEF Init, Promise!Init

(***************************************************************************)
(* A Create that unlocks: its entry appears, and what it evicted is gone,  *)
(* ended executions in excess of the limit.                                *)
(***************************************************************************)
LEMMA UnlockCreates ==
  ASSUME IInv, SeenInv, NEW c \in Callers, Unlocks(c)
  PROVE  Promise!Next
<1> USE Pointers
<1>0. TypeOK /\ SafeInv
  BY DEF IInv, SafeInv
<1>1. PICK i \in IDs :
        /\ call[c].id = i /\ call[c].obj \in Objects /\ settled[i] = None
        /\ table[i] = call[c].obj /\ status[call[c].obj] = "created"
  BY <1>0 DEF Unlocks, SeenInv, SettledInv, FreshInv, Fresh, Private, InCreate
<1>2. \A id \in IDs \ {i} :
        table[id] # settled[id] => table[id] = None /\ status[settled[id]] \in Terminal
  BY <1>0, <1>1 DEF Unlocks, SeenInv, SettledInv
<1>3. \A id \in IDs : settled[id] # None => status[settled[id]] # "absent"
  <2>1. settled \in [IDs -> Objects \cup {None}] /\ status \in [Objects -> Statuses]
    BY <1>0 DEF TypeOK
  <2> QED
    BY <2>1 DEF Statuses, Active, Terminal
<1>4. Seen[i] = "absent" /\ Evicted \in SUBSET {x \in IDs : Seen[x] \in Promise!Terminal}
  BY <1>1, <1>2 DEF Seen, Evicted, Terminal, Promise!Terminal
<1>5. Seen' = [x \in IDs |-> CASE x = i -> "created"
                               [] x \in Evicted -> "absent"
                               [] OTHER -> Seen[x]]
  <2>1. Seen' = [x \in IDs |-> IF table[x] = None THEN "absent" ELSE status[table[x]]]
    BY DEF Seen, Unlocks
  <2>2. ASSUME NEW x \in IDs
        PROVE  (IF table[x] = None THEN "absent" ELSE status[table[x]])
                 = CASE x = i -> "created" [] x \in Evicted -> "absent" [] OTHER -> Seen[x]
    <3>1. CASE x = i
      <4>1. table[x] # None /\ status[table[x]] = "created"
        BY <1>1, <3>1, ManagerAssumption
      <4>2. (IF table[x] = None THEN "absent" ELSE status[table[x]]) = "created"
        BY <4>1
      <4>3. x \notin Evicted
        BY <4>1 DEF Evicted
      <4> QED
        BY <3>1, <4>2, <4>3
    <3>2. CASE x # i /\ x \in Evicted
      BY <3>2 DEF Evicted
    <3>3. CASE x # i /\ x \notin Evicted
      <4>1. table[x] = settled[x]
        BY <1>2, <3>3 DEF Evicted
      <4> QED
        BY <3>3, <4>1 DEF Seen
    <3> QED
      BY <3>1, <3>2, <3>3
  <2> QED
    BY <2>1, <2>2
<1>6. Evicted \in Promise!Evictions(i)
  <2>1. Promise!Retained = {x \in IDs : Seen[x] # "absent"}
    BY DEF Promise!Retained, Seen
  <2>2. (Promise!Retained \cup {i}) \ Evicted = Keys
    <3>1. \A x \in IDs : Seen[x] # "absent" <=> settled[x] # None
      BY <1>3 DEF Seen
    <3>2. \A x \in IDs : x \in Keys <=> (settled[x] # None \/ x = i) /\ x \notin Evicted
      BY <1>0, <1>1, <1>2 DEF Keys, Evicted
    <3> QED
      BY <1>1, <2>1, <3>1, <3>2 DEF Keys
  <2>3. Evicted # {} => Promise!Cardinality(Keys) >= MaxRetained
    BY DEF SeenInv, LimitInv, Promise!Cardinality, Cardinality
  <2> QED
    BY <1>4, <2>2, <2>3 DEF Promise!Evictions, Seen
<1>7. Promise!Create(i)
  BY <1>4, <1>5, <1>6 DEF Promise!Create, Seen
<1> QED
  BY <1>1, <1>7, PromiseSteps

(***************************************************************************)
(* A transition that is accepted is one of the entry that callers see: the *)
(* pointer is not stale, and the execution of a Create under way is known  *)
(* to nobody else.                                                         *)
(***************************************************************************)
LEMMA MutationIsSeen ==
  ASSUME IInv, SeenInv, NEW c \in Callers, Mutates(c), status' # status
  PROVE  Promise!Next
<1> USE Pointers
<1>0. /\ TypeOK /\ SafeInv
      /\ settled \in [IDs -> Objects \cup {None}] /\ status \in [Objects -> Statuses]
  BY DEF IInv, SafeInv, TypeOK
<1>1. PICK i \in IDs, o \in Objects, op \in Mutations :
        /\ call[c].at = "locked"
        /\ call[c].id = i /\ call[c].obj = o /\ call[c].op = op
        /\ status[o] \in Required(op) /\ status' = [status EXCEPT ![o] = Target(op)]
        /\ settled' = settled
  BY DEF Mutates
<1>2. table[i] = o
  BY <1>0, <1>1 DEF SafeInv, PointerNotStale, Required, Active
<1>3. settled[i] = o
  <2>1. CASE writer = None
    BY <1>2, <2>1 DEF SeenInv, SettledInv
  <2>2. CASE writer # None
    <3>1. PICK w \in Callers : w = writer
      BY <1>0, <2>2 DEF TypeOK
    <3>2. InCreate(w) /\ w \in Fresh
      BY <1>0, <3>1 DEF InCreate, Fresh
    <3>3. w # c
      BY <1>1, <3>2 DEF InCreate
    <3>4. call[w].obj # o /\ table[call[w].id] = call[w].obj
      BY <1>0, <1>1, <3>2, <3>3 DEF SeenInv, FreshInv, Private, Fresh
    <3> QED
      BY <1>0, <1>1, <1>2, <3>2, <3>4 DEF SeenInv, SettledInv
  <2> QED
    BY <2>1, <2>2
<1>4. \A x \in IDs \ {i} : settled[x] # o
  BY <1>0, <1>1, <1>3 DEF SeenInv, DistinctInv
<1>5. Seen[i] = status[o] /\ Seen' = [Seen EXCEPT ![i] = Target(op)]
  <2>1. o # None
    BY <1>0, <1>1
  <2>2. Seen[i] = status[o]
    BY <1>1, <1>3, <2>1 DEF Seen
  <2>3. \A x \in IDs : Seen'[x] = IF x = i THEN Target(op) ELSE Seen[x]
    BY <1>0, <1>1, <1>3, <1>4, <2>1 DEF Seen
  <2> QED
    BY <2>2, <2>3 DEF Seen
<1>6. CASE op = "start"
  <2>1. Promise!Start(i)
    BY <1>1, <1>5, <1>6 DEF Promise!Start, Seen, Required, Target
  <2> QED
    BY <1>1, <2>1, PromiseSteps
<1>7. CASE op # "start"
  <2>1. Target(op) \in Promise!Terminal
    BY <1>1, <1>7 DEF Target, Mutations, Promise!Terminal
  <2>2. Promise!Finish(i, Target(op))
    BY <1>1, <1>5, <1>7 DEF Promise!Finish, Seen, Required
  <2> QED
    BY <1>1, <2>1, <2>2, PromiseSteps
<1> QED
  BY <1>6, <1>7

\* Every other step is not seen.
LEMMA StepOfPromise ==
  IInv /\ SeenInv /\ [Next]_vars => [Promise!Next]_Seen
<1> SUFFICES ASSUME IInv, SeenInv, [Next]_vars PROVE Promise!Next \/ Seen' = Seen
  OBVIOUS
<1>0. /\ TypeOK /\ SafeInv
      /\ settled \in [IDs -> Objects \cup {None}] /\ status \in [Objects -> Statuses]
  BY DEF IInv, SafeInv, TypeOK
<1>1. ASSUME NEW c \in Callers, NEW o \in Objects, Allocates(c, o) PROVE Seen' = Seen
  <2>1. \A id \in IDs : settled[id] # None => status'[settled[id]] = status[settled[id]]
    BY <1>0, <1>1 DEF Allocates, SeenInv, SettledInv
  <2> QED
    BY <1>1, <2>1 DEF Allocates, Seen
<1>2. ASSUME NEW c \in Callers, Unlocks(c) PROVE Promise!Next
  BY <1>2, UnlockCreates
<1>3. ASSUME NEW c \in Callers, Mutates(c), status' # status PROVE Promise!Next
  BY <1>3, MutationIsSeen
<1>4. ASSUME settled' = settled, status' = status PROVE Seen' = Seen
  BY <1>4 DEF Seen
<1>5. \/ \E c \in Callers : \/ \E o \in Objects : Allocates(c, o)
                            \/ Unlocks(c)
                            \/ Mutates(c) /\ status' # status
      \/ settled' = settled /\ status' = status
  BY <1>0, StepKinds DEF Inserts, Begins, Evicts, LooksUp, Mutates, Quiet
<1> QED
  BY <1>1, <1>2, <1>3, <1>4, <1>5

(***************************************************************************)
(* Locks, pointers and scans are invisible to callers: each operation of   *)
(* the manager is one step of Lifecycle.  ExecutionService and Controller, *)
(* which use Lifecycle for the manager, lose nothing by it.                *)
(***************************************************************************)
THEOREM ManagerImplementsLifecycle == Spec => ImplementsLifecycle
  BY InitPromise, StepOfPromise, SeenInvariance, PTL
  DEF Spec, ImplementsLifecycle, Promise!Spec, Seen

==============================================================================
