--------------------------- MODULE ExecutorPromise ---------------------------
(***************************************************************************)
(* What the execution service relies on in its executor: a call either is  *)
(* refused before anything was sent, or works and returns a result, and it *)
(* returns once its context has ended.  Executor implements this module.   *)
(***************************************************************************)
VARIABLES
  ctx,    \* "live" or "ended"
  phase   \* "fresh", "refused", "working" or "returned"

vars == <<ctx, phase>>

Init == ctx = "live" /\ phase = "fresh"

ContextEnds == ctx = "live" /\ ctx' = "ended" /\ UNCHANGED phase

Refuse == phase = "fresh" /\ phase' = "refused" /\ UNCHANGED ctx
Begin  == phase = "fresh" /\ phase' = "working" /\ UNCHANGED ctx
Return == phase = "working" /\ phase' = "returned" /\ UNCHANGED ctx

Next == ContextEnds \/ Refuse \/ Begin \/ Return

Spec == Init /\ [][Next]_vars

FairSpec ==
  /\ Spec
  /\ WF_vars(ctx = "ended" /\ (Refuse \/ Begin))
  /\ WF_vars(ctx = "ended" /\ Return)
==============================================================================
