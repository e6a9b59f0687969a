------------------------------ MODULE BodySearch ------------------------------
(***************************************************************************)
(* generateJSONBody of internal/request/body.go: a request body of target  *)
(* bytes, made by filling the field "payload".  The filler is plain ASCII, *)
(* so that JSON escapes nothing: a body with n bytes of filler is n bytes  *)
(* longer than one with an empty payload, and only lengths are kept here.  *)
(***************************************************************************)
EXTENDS Integers

CONSTANTS
  Targets,  \* sizes asked for
  Bases,    \* lengths of the bodies without a payload
  Field     \* what an empty payload field adds to a body

ASSUME SizesAreNumbers ==
  Targets \subseteq Int /\ Bases \subseteq Nat /\ Field \in Nat

\* The nil body, which goes with an error.
NoBody == -1

\* generateJSONBody looks this far beyond both ends of the search.
Reach == 4

VARIABLES
  at,          \* "idle", "search", "refine" or "returned"
  target, base,  \* the arguments: size asked for, length of the body so far
  low, high,   \* the lengths of filler still possible
  filler,      \* the next length to try near the boundary
  best, bestDistance,  \* the body nearest to the target, and its distance
  body         \* the length of the body returned

vars == <<at, target, base, low, high, filler, best, bestDistance, body>>

\* Every variable has its type.
TypeOK ==
  /\ at \in {"idle", "search", "refine", "returned"}
  /\ target \in Int /\ base \in Nat
  /\ low \in Int /\ high \in Int /\ filler \in Int
  /\ best \in Nat \cup {NoBody} /\ bestDistance \in Int
  /\ body \in Nat \cup {NoBody}

Init ==
  /\ at = "idle" /\ target = 0 /\ base = 0
  /\ low = 0 /\ high = 0 /\ filler = 0
  /\ best = NoBody /\ bestDistance = 0 /\ body = NoBody

----------------------------------------------------------------------------
Least(x, y)    == IF x <= y THEN x ELSE y
Greatest(x, y) == IF x >= y THEN x ELSE y
Distance(x, y) == IF x >= y THEN x - y ELSE y - x

\* The length of the body with n bytes of filler.
Length(n) == base + Field + n

Return(length) == at' = "returned" /\ body' = length

\* The call: a negative size is refused, size 0 asks for the body as it is.
Start(t, b) ==
  /\ at \in {"idle", "returned"}
  /\ target' = t /\ base' = b
  /\ low' = 0 /\ high' = t
  /\ filler' = 0 /\ best' = NoBody /\ bestDistance' = t
  /\ IF t < 0 THEN Return(NoBody)
     ELSE IF t = 0 THEN Return(b)
     ELSE at' = "search" /\ body' = NoBody

Mid == (low + high) \div 2

\* One turn of the binary search.
Halve ==
  /\ at = "search" /\ low <= high
  /\ IF Length(Mid) = target
       THEN Return(Length(Mid)) /\ UNCHANGED <<low, high>>
       ELSE /\ IF Length(Mid) < target
                 THEN low' = Mid + 1 /\ UNCHANGED high
                 ELSE high' = Mid - 1 /\ UNCHANGED low
            /\ UNCHANGED <<at, body>>
  /\ UNCHANGED <<target, base, filler, best, bestDistance>>

\* No length is exact: those around the boundary are tried.
BeginRefine ==
  /\ at = "search" /\ low > high
  /\ at' = "refine"
  /\ filler' = Greatest(0, high - Reach)
  /\ best' = NoBody /\ bestDistance' = target
  /\ UNCHANGED <<target, base, low, high, body>>

LastFiller == Least(target, high + Reach)

\* A bug that prefers the later of two bodies, or one to none, at the same distance.
TryLater ==
  /\ at = "refine" /\ filler <= LastFiller
  /\ LET distance == Distance(Length(filler), target) IN
       /\ IF distance <= bestDistance
            THEN best' = Length(filler) /\ bestDistance' = distance
            ELSE UNCHANGED <<best, bestDistance>>
       /\ IF distance = 0
            THEN Return(Length(filler)) /\ UNCHANGED filler
            ELSE filler' = filler + 1 /\ UNCHANGED <<at, body>>
  /\ UNCHANGED <<target, base, low, high>>

Try ==
  /\ at = "refine" /\ filler <= LastFiller
  /\ LET distance == Distance(Length(filler), target) IN
       /\ IF distance < bestDistance
            THEN best' = Length(filler) /\ bestDistance' = distance
            ELSE UNCHANGED <<best, bestDistance>>
       /\ IF distance = 0
            THEN Return(Length(filler)) /\ UNCHANGED filler
            ELSE filler' = filler + 1 /\ UNCHANGED <<at, body>>
  /\ UNCHANGED <<target, base, low, high>>

\* The nearest body found, or an error.
EndRefine ==
  /\ at = "refine" /\ filler > LastFiller
  /\ Return(best)
  /\ UNCHANGED <<target, base, low, high, filler, best, bestDistance>>

Step == Halve \/ BeginRefine \/ Try \/ EndRefine

Next == (\E t \in Targets, b \in Bases : Start(t, b)) \/ Step

Spec == Init /\ [][Next]_vars

----------------------------------------------------------------------------
(***************************************************************************)
(* What the search returns: a body of exactly the size asked for whenever  *)
(* there is one, however small the margin; else the smallest body, which   *)
(* is the nearest, unless it is twice the target or more.                  *)
(***************************************************************************)
SizeIsMet ==
  at = "returned" =>
    body = IF target < 0 THEN NoBody
           ELSE IF target = 0 THEN base
           ELSE IF Length(0) <= target THEN target
           ELSE IF Length(0) < 2 * target THEN Length(0)
           ELSE NoBody

(***************************************************************************)
(* Each turn at least halves the lengths still possible, so that a body of *)
(* some megabytes is serialized some twenty times and not for ever.        *)
(***************************************************************************)
Halves ==
  [][at = "search" /\ at' = "search" => 2 * (high' - low' + 1) <= high - low + 1]_vars
==============================================================================
