---------------------------- MODULE AdmissionProofs ----------------------------
(***************************************************************************)
(* Proofs about Admission and the BodySearch it extends.                   *)
(*                                                                         *)
(* The search narrows down the one length that is exact, if the smallest   *)
(* body fits the target, so it can only end without it when there is none: *)
(* then every body was too long, the search has gone all the way down, and *)
(* the smallest body is the first that is tried afterwards.                *)
(*                                                                         *)
(* An admitted run only ever takes steps of the search, with the declared  *)
(* size and the operation's own base, so what the search returns is what   *)
(* the run adds up.                                                        *)
(***************************************************************************)
EXTENDS Admission, TLAPS

\* While it searches, the exact length is between the ends, or nothing is exact
\* and the lower end has not moved.
SearchInv ==
  at = "search" =>
    /\ target > 0
    /\ 0 <= low /\ low <= high + 1 /\ high <= target
    /\ Length(0) <= target => low <= target - Length(0) /\ target - Length(0) <= high
    /\ Length(0) > target => low = 0

\* While it refines, the best body is the smallest one if that was near enough.
RefineInv ==
  at = "refine" =>
    /\ target > 0 /\ Length(0) > target /\ high = -1
    /\ filler \in Nat
    /\ IF filler > 0 /\ Length(0) < 2 * target
         THEN best = Length(0) /\ bestDistance = Length(0) - target
         ELSE best = NoBody /\ bestDistance = target

IInv == TypeOK /\ SearchInv /\ RefineInv /\ SizeIsMet

----------------------------------------------------------------------------
\* The middle of a range is in it.
LEMMA MidBetween ==
  ASSUME low \in Int, high \in Int, low <= high
  PROVE  Mid \in Int /\ low <= Mid /\ Mid <= high
         /\ 2 * (high - Mid) <= high - low + 1 /\ 2 * (Mid - low) <= high - low
BY DEF Mid

LEMMA InitInv == Init => IInv
BY DEF Init, IInv, TypeOK, SearchInv, RefineInv, SizeIsMet, NoBody

LEMMA StartInv ==
  ASSUME IInv, NEW t \in Targets, NEW b \in Bases, Start(t, b)
  PROVE  IInv'
<1>1. t \in Int /\ b \in Nat /\ Field \in Nat
  BY SizesAreNumbers
<1> QED
  BY <1>1 DEF IInv, TypeOK, SearchInv, RefineInv, SizeIsMet, Start, Return, Length, NoBody

LEMMA HalveInv ==
  ASSUME IInv, Halve
  PROVE  IInv'
<1> USE DEF NoBody, Length
<1>1. TypeOK /\ SearchInv /\ Field \in Nat /\ at = "search" /\ low <= high
  BY SizesAreNumbers DEF IInv, Halve
<1>2. Mid \in Int /\ low <= Mid /\ Mid <= high
  BY <1>1, MidBetween DEF TypeOK
<1>3. Length(Mid) \in Nat /\ Mid \in Nat
  BY <1>1, <1>2 DEF TypeOK, SearchInv
<1>4. CASE Length(Mid) = target
  BY <1>1, <1>2, <1>3, <1>4
     DEF IInv, TypeOK, SearchInv, RefineInv, SizeIsMet, Halve, Return
<1>5. CASE Length(Mid) # target
  <2>1. at' = "search" /\ body' = body /\ UNCHANGED <<target, base, filler, best, bestDistance>>
    BY <1>5, <1>1 DEF Halve
  <2>2. \/ Length(Mid) < target /\ low' = Mid + 1 /\ high' = high
        \/ Length(Mid) > target /\ high' = Mid - 1 /\ low' = low
    BY <1>1, <1>3, <1>5 DEF Halve, TypeOK
  <2>3. TypeOK'
    BY <1>1, <1>2, <2>1, <2>2 DEF TypeOK
  <2>4. SearchInv'
    BY <1>1, <1>2, <1>3, <2>1, <2>2 DEF TypeOK, SearchInv
  <2> QED
    BY <2>1, <2>3, <2>4 DEF IInv, RefineInv, SizeIsMet
<1> QED
  BY <1>4, <1>5

LEMMA BeginRefineInv ==
  ASSUME IInv, BeginRefine
  PROVE  IInv'
<1>1. TypeOK /\ SearchInv /\ Field \in Nat
  BY SizesAreNumbers DEF IInv
<1>2. target > 0 /\ Length(0) > target /\ high = -1
  BY <1>1 DEF TypeOK, SearchInv, BeginRefine, Length
<1> QED
  BY <1>1, <1>2 DEF IInv, TypeOK, SearchInv, RefineInv, SizeIsMet, BeginRefine, Greatest,
                    Reach, Length, NoBody

LEMMA TryInv ==
  ASSUME IInv, Try
  PROVE  IInv'
<1> USE DEF NoBody, Length
<1>1. /\ TypeOK /\ RefineInv /\ Field \in Nat /\ at = "refine"
      /\ filler \in Nat /\ target > 0 /\ Length(0) > target
  BY SizesAreNumbers DEF IInv, RefineInv, Try
<1>2. Distance(Length(filler), target) = Length(0) - target + filler
  BY <1>1 DEF TypeOK, Distance
<1>3. Distance(Length(filler), target) # 0
  BY <1>1, <1>2 DEF TypeOK
<1>4. /\ filler' = filler + 1 /\ UNCHANGED <<at, body, target, base, low, high>>
      /\ IF Length(0) - target + filler < bestDistance
           THEN best' = Length(filler) /\ bestDistance' = Length(0) - target + filler
           ELSE UNCHANGED <<best, bestDistance>>
  BY <1>2, <1>3 DEF Try
<1>5. CASE filler = 0
  BY <1>1, <1>4, <1>5 DEF IInv, TypeOK, SearchInv, RefineInv, SizeIsMet
<1>6. CASE filler > 0
  <2>1. ~(Length(0) - target + filler < bestDistance)
    BY <1>1, <1>6 DEF TypeOK, RefineInv
  <2> QED
    BY <1>1, <1>4, <1>6, <2>1 DEF IInv, TypeOK, SearchInv, RefineInv, SizeIsMet
<1> QED
  BY <1>1, <1>5, <1>6

LEMMA EndRefineInv ==
  ASSUME IInv, EndRefine
  PROVE  IInv'
<1>1. TypeOK /\ RefineInv /\ Field \in Nat
  BY SizesAreNumbers DEF IInv
<1>2. filler > 0
  BY <1>1 DEF TypeOK, RefineInv, EndRefine, LastFiller, Least, Reach
<1> QED
  BY <1>1, <1>2 DEF IInv, TypeOK, SearchInv, RefineInv, SizeIsMet, EndRefine, Return,
                    Length, NoBody

LEMMA NextInv == IInv /\ [Next]_vars => IInv'
<1> SUFFICES ASSUME IInv, [Next]_vars
             PROVE  IInv'
  OBVIOUS
<1>1. ASSUME NEW t \in Targets, NEW b \in Bases, Start(t, b)
      PROVE  IInv'
  BY <1>1, StartInv
<1>2. CASE Halve
  BY <1>2, HalveInv
<1>3. CASE BeginRefine
  BY <1>3, BeginRefineInv
<1>4. CASE Try
  BY <1>4, TryInv
<1>5. CASE EndRefine
  BY <1>5, EndRefineInv
<1>6. CASE UNCHANGED vars
  BY <1>6 DEF IInv, TypeOK, SearchInv, RefineInv, SizeIsMet, Length, vars
<1> QED
  BY <1>1, <1>2, <1>3, <1>4, <1>5, <1>6 DEF Next, Step

LEMMA Invariance == Spec => []IInv
BY InitInv, NextInv, PTL DEF Spec

----------------------------------------------------------------------------
(***************************************************************************)
(* generateJSONBody returns a body of exactly the size asked for whenever  *)
(* the smallest body is no larger, and otherwise the nearest or an error.  *)
(***************************************************************************)
THEOREM SearchIsExact == Spec => []SizeIsMet
<1>1. IInv => SizeIsMet
  BY DEF IInv
<1> QED
  BY <1>1, Invariance, PTL

\* Its binary search halves what is left with every body it serializes.
THEOREM SearchIsLogarithmic == Spec => Halves
<1> DEFINE Halved == at = "search" /\ at' = "search" => 2 * (high' - low' + 1) <= high - low + 1
<1>1. IInv /\ [Next]_vars => [Halved]_vars
  <2> SUFFICES ASSUME IInv, Next, at = "search", at' = "search"
               PROVE  2 * (high' - low' + 1) <= high - low + 1
    OBVIOUS
  <2>1. Halve
    BY DEF Next, Start, Step, BeginRefine, Try, EndRefine
  <2>2. low \in Int /\ high \in Int /\ low <= high
    BY <2>1 DEF IInv, TypeOK, Halve
  <2>3. Mid \in Int /\ 2 * (high - Mid) <= high - low + 1 /\ 2 * (Mid - low) <= high - low
    BY <2>2, MidBetween
  <2>4. \/ low' = Mid + 1 /\ high' = high
        \/ high' = Mid - 1 /\ low' = low
    BY <2>1 DEF Halve, Return
  <2> QED
    BY <2>2, <2>3, <2>4
<1> QED
  BY <1>1, Invariance, PTL DEF Spec, Halves

----------------------------------------------------------------------------
(***************************************************************************)
(* The run.  Between admission and its end the scenario is valid and       *)
(* within the limits, no more requests are built than it asks for, and the *)
(* search under way is the one for its size and its operation.             *)
(***************************************************************************)
RunInv ==
  /\ stage \in {"received", "invalid", "rejected", "admitted", "building"}
  /\ built \in Nat /\ failed \in Nat /\ total \in Nat
  /\ stage = "received" => built = 0 /\ failed = 0 /\ total = 0
  /\ stage \in {"admitted", "building"} =>
       Valid(scenario) /\ WithinLimits(scenario) /\ built + failed <= scenario.count
  /\ stage = "building" =>
       /\ scenario.operation \in WithBody /\ built + failed < scenario.count
       /\ target = Declared /\ base = BaseLength[scenario.operation]

AInv == IInv /\ RunInv /\ AdmittedAsDeclared

\* Adding one more body of the same length; fewer bodies are not longer together.
LEMMA Products ==
  ASSUME NEW n \in Nat, NEW m \in Nat, NEW d \in Nat, n <= m
  PROVE  /\ n * d \in Nat /\ 0 * d = 0
         /\ (n + 1) * d = n * d + d
         /\ n * d <= m * d
<1>1. n * d \in Nat /\ 0 * d = 0 /\ (n + 1) * d = n * d + d
  OBVIOUS
<1>2. PICK k \in Nat : m = n + k
  <2>1. m - n \in Nat /\ m = n + (m - n)
    OBVIOUS
  <2> QED
    BY <2>1
<1>3. m * d = n * d + k * d /\ k * d \in Nat
  BY <1>2
<1> QED
  BY <1>1, <1>3

\* An admitted scenario declares a size that its bodies may be asked for.
LEMMA AdmittedSizes ==
  ASSUME Valid(scenario), WithinLimits(scenario)
  PROVE  /\ Declared \in Targets /\ Declared \in Nat /\ scenario.count \in Nat
         /\ scenario.count >= 1
         /\ scenario.count * Declared <= MaxAggregateRequestBytes
         /\ scenario.operation \in WithBody =>
              /\ BaseLength[scenario.operation] \in Bases
              /\ BaseLength[scenario.operation] \in Nat /\ Minimal \in Nat
<1>1. scenario.requestSize \in Sizes /\ scenario.count \in 1..MaxCount
  BY DEF Valid
<1>2. Declared \in Targets /\ Declared \in Nat
  BY <1>1, AdmissionAssumption DEF Declared
<1>3. scenario.operation \in WithBody =>
        BaseLength[scenario.operation] \in Bases /\ BaseLength[scenario.operation] \in Nat
  BY AdmissionAssumption, SizesAreNumbers
<1> QED
  BY <1>1, <1>2, <1>3, SizesAreNumbers DEF WithinLimits, Declared, Minimal

LEMMA AdmissionInitInv == AdmissionInit => AInv
  BY InitInv DEF AdmissionInit, AInv, RunInv, AdmittedAsDeclared

\* Every step of a run is one of the search, or leaves the search alone.
LEMMA RunSearches ==
  ASSUME RunInv, [AdmissionNext]_<<vars, runVars>>
  PROVE  [Next]_vars
<1>1. ASSUME BuildBody PROVE Next
  <2>1. Valid(scenario) /\ WithinLimits(scenario) /\ scenario.operation \in WithBody
    BY <1>1 DEF BuildBody, Remaining, RunInv
  <2>2. PICK t \in Targets, b \in Bases :
          t = Declared /\ b = BaseLength[scenario.operation]
    BY <2>1, AdmittedSizes
  <2>3. Start(t, b)
    BY <1>1, <2>2 DEF BuildBody, Declared, Start, Return
  <2> QED
    BY <2>3 DEF Next
<1>2. ASSUME Generate PROVE Next
  BY <1>2 DEF Generate, Next
<1>3. CASE UNCHANGED vars
  BY <1>3
<1> QED
  BY <1>1, <1>2, <1>3
  DEF AdmissionNext, Invalid, Rejected, Refuse, Admit, BuildBodyless, Built

LEMMA AdmitInv ==
  ASSUME AInv, Admit
  PROVE  RunInv' /\ AdmittedAsDeclared'
<1>1. /\ stage' = "admitted" /\ Valid(scenario)' /\ WithinLimits(scenario)'
      /\ built' = 0 /\ failed' = 0 /\ total' = 0
  BY DEF AInv, RunInv, Admit, Valid, WithinLimits
<1>2. /\ Declared' \in Nat /\ scenario'.count \in Nat /\ scenario'.count >= 1
      /\ scenario'.operation \in WithBody => BaseLength[scenario'.operation] \in Nat
  BY <1>1, SizesAreNumbers, AdmissionAssumption DEF Declared, Valid
<1>3. RunInv'
  BY <1>1, <1>2 DEF RunInv
<1>4. 0 * Declared' = 0
      /\ (scenario'.operation \in WithBody => 0 * BaseLength[scenario'.operation] = 0)
  BY <1>2
<1>5. AdmittedAsDeclared'
  BY <1>1, <1>2, <1>4, AdmissionAssumption DEF AdmittedAsDeclared
<1> QED
  BY <1>3, <1>5

LEMMA BuildBodylessInv ==
  ASSUME AInv, BuildBodyless
  PROVE  RunInv' /\ AdmittedAsDeclared'
<1>1. /\ RunInv /\ AdmittedAsDeclared /\ stage = "admitted" /\ stage' = "admitted"
      /\ scenario.operation \notin WithBody /\ scenario' = scenario /\ total' = total
      /\ built + failed < scenario.count
      /\ built \in Nat /\ failed \in Nat /\ total \in Nat
      /\ total = 0
      /\ failed > 0 <=> scenario.requestSize # NoSize /\ built + failed > 0
  <2>1. RunInv /\ AdmittedAsDeclared
    BY DEF AInv
  <2>2. /\ stage = "admitted" /\ stage' = "admitted"
        /\ scenario.operation \notin WithBody /\ scenario' = scenario /\ total' = total
        /\ built + failed < scenario.count
    BY DEF BuildBodyless, Remaining
  <2> QED
    BY <2>1, <2>2 DEF RunInv, AdmittedAsDeclared
<1>2. Valid(scenario) /\ WithinLimits(scenario) /\ scenario.count \in Nat
  BY <1>1, AdmittedSizes DEF RunInv
<1>3. Valid(scenario)' /\ WithinLimits(scenario)'
  BY <1>1, <1>2 DEF Valid, WithinLimits
<1>4. \/ scenario.requestSize = NoSize /\ built' = built + 1 /\ failed' = failed
      \/ scenario.requestSize # NoSize /\ built' = built /\ failed' = failed + 1
  BY <1>2 DEF BuildBodyless
<1>5. /\ built' \in Nat /\ failed' \in Nat
      /\ built' + failed' > 0 /\ built' + failed' <= scenario.count
  <2>1. /\ built \in Nat /\ failed \in Nat /\ scenario.count \in Nat
        /\ built + failed < scenario.count
    BY <1>1, <1>2
  <2>2. CASE built' = built + 1 /\ failed' = failed
    BY <2>1, <2>2
  <2>3. CASE built' = built /\ failed' = failed + 1
    BY <2>1, <2>3
  <2> QED
    BY <1>4, <2>2, <2>3
<1>6. RunInv'
  <2>1. scenario'.count = scenario.count /\ total' \in Nat
    BY <1>1
  <2> QED
    BY <1>1, <1>3, <1>5, <2>1 DEF RunInv
<1>7. AdmittedAsDeclared'
  <2>1. failed' > 0 <=> scenario.requestSize # NoSize
    <3>1. failed \in Nat /\ (failed > 0 => scenario.requestSize # NoSize)
      BY <1>1
    <3> QED
      BY <1>4, <3>1
  <2> QED
    BY <1>1, <1>5, <2>1 DEF AdmittedAsDeclared
<1> QED
  BY <1>6, <1>7

LEMMA BuildBodyInv ==
  ASSUME AInv, BuildBody
  PROVE  RunInv' /\ AdmittedAsDeclared'
<1>1. /\ RunInv /\ AdmittedAsDeclared /\ stage = "admitted" /\ stage' = "building"
      /\ scenario.operation \in WithBody /\ scenario' = scenario
      /\ UNCHANGED <<built, failed, total>>
      /\ built + failed < scenario.count
      /\ target' = Declared /\ base' = BaseLength[scenario.operation]
  BY DEF AInv, BuildBody, Remaining, Start, Declared
<1>2. Valid(scenario)' /\ WithinLimits(scenario)' /\ Declared' = Declared /\ Minimal' = Minimal
  BY <1>1 DEF RunInv, Valid, WithinLimits, Declared, Minimal
<1>3. RunInv'
  BY <1>1, <1>2 DEF RunInv
<1>4. AdmittedAsDeclared'
  BY <1>1, <1>2 DEF AdmittedAsDeclared
<1> QED
  BY <1>3, <1>4

LEMMA GenerateInv ==
  ASSUME AInv, Generate
  PROVE  RunInv' /\ AdmittedAsDeclared'
<1>1. /\ RunInv /\ AdmittedAsDeclared /\ UNCHANGED <<stage, scenario, built, failed, total>>
      /\ target' = target /\ base' = base
  BY DEF AInv, Generate, Step, Halve, BeginRefine, Try, EndRefine
<1>2. /\ Valid(scenario)' = Valid(scenario) /\ WithinLimits(scenario)' = WithinLimits(scenario)
      /\ Declared' = Declared /\ Minimal' = Minimal
  BY <1>1 DEF Valid, WithinLimits, Declared, Minimal
<1>3. RunInv'
  BY <1>1, <1>2 DEF RunInv
<1>4. AdmittedAsDeclared'
  BY <1>1, <1>2 DEF AdmittedAsDeclared
<1> QED
  BY <1>3, <1>4

(***************************************************************************)
(* A body, or an error, is added up: what the search promises of the body  *)
(* is what the run promises of the sum.                                    *)
(***************************************************************************)
LEMMA BuiltInv ==
  ASSUME AInv, Built
  PROVE  RunInv' /\ AdmittedAsDeclared'
<1> DEFINE B == BaseLength[scenario.operation]
<1>1. /\ RunInv /\ AdmittedAsDeclared /\ stage = "building" /\ stage' = "admitted"
      /\ scenario' = scenario /\ scenario.operation \in WithBody
      /\ Valid(scenario) /\ WithinLimits(scenario)
      /\ built + failed < scenario.count /\ target = Declared /\ base = B
      /\ built \in Nat /\ failed \in Nat /\ total \in Nat
  BY DEF AInv, RunInv, Built
<1>2. /\ Declared \in Nat /\ scenario.count \in Nat /\ B \in Nat /\ Minimal = B + Field
      /\ Field \in Nat /\ scenario.count * Declared <= MaxAggregateRequestBytes
  BY <1>1, AdmittedSizes, SizesAreNumbers DEF Minimal
<1>3. /\ body = IF Declared = 0 THEN B
                 ELSE IF Minimal <= Declared THEN Declared
                 ELSE IF Minimal < 2 * Declared THEN Minimal
                 ELSE NoBody
      /\ body \in Nat \cup {NoBody}
  BY <1>1, <1>2 DEF AInv, IInv, TypeOK, SizeIsMet, Built, Length
<1>4. /\ Valid(scenario)' /\ WithinLimits(scenario)'
      /\ Declared' = Declared /\ Minimal' = Minimal
  BY <1>1 DEF Valid, WithinLimits, Declared, Minimal
<1>5. CASE body = NoBody
  <2>1. /\ failed' = failed + 1 /\ built' = built /\ total' = total
        /\ Declared > 0 /\ Minimal >= 2 * Declared
    BY <1>2, <1>3, <1>5 DEF Built, NoBody
  <2>2. RunInv'
    BY <1>1, <1>2, <1>4, <2>1 DEF RunInv
  <2>3. AdmittedAsDeclared'
    BY <1>1, <1>2, <1>4, <2>1 DEF AdmittedAsDeclared
  <2> QED
    BY <2>2, <2>3
<1>6. CASE body # NoBody
  <2>1. /\ body \in Nat /\ failed' = failed /\ built' = built + 1 /\ total' = total + body
        /\ Declared = 0 => body = B
        /\ Minimal <= Declared => body = Declared
    BY <1>2, <1>3, <1>6 DEF Built
  <2>2. RunInv'
    BY <1>1, <1>2, <1>4, <2>1 DEF RunInv
  <2>3. Declared = 0 => total' = built' * B
    BY <1>1, <1>2, <2>1, Products DEF AdmittedAsDeclared
  <2>4. Minimal <= Declared => total' = built' * Declared
    BY <1>1, <1>2, <2>1, Products DEF AdmittedAsDeclared
  <2>5. built' * Declared <= scenario.count * Declared /\ built' * Declared \in Nat
    <3>1. built' \in Nat /\ built' <= scenario.count
      BY <1>1, <1>2, <2>1
    <3> QED
      BY <1>2, <3>1, Products
  <2>6. scenario.count * Declared \in Nat
    BY <1>2
  <2>7. built' * Declared <= MaxAggregateRequestBytes
    BY <1>2, <2>5, <2>6, AdmissionAssumption
  <2>8. AdmittedAsDeclared'
    BY <1>1, <1>2, <1>4, <2>1, <2>3, <2>4, <2>7 DEF AdmittedAsDeclared
  <2> QED
    BY <2>2, <2>8
<1> QED
  BY <1>5, <1>6

LEMMA AdmissionStep == AInv /\ [AdmissionNext]_<<vars, runVars>> => AInv'
<1> SUFFICES ASSUME AInv, [AdmissionNext]_<<vars, runVars>> PROVE AInv'
  OBVIOUS
<1>1. IInv'
  BY RunSearches, NextInv DEF AInv
<1>2. ASSUME stage' \in {"invalid", "rejected"}, stage = "received",
             UNCHANGED <<built, failed, total>>
      PROVE  RunInv' /\ AdmittedAsDeclared'
  BY <1>2 DEF AInv, RunInv, AdmittedAsDeclared
<1>3. CASE Invalid \/ Rejected
  BY <1>1, <1>2, <1>3 DEF Invalid, Rejected, Refuse, AInv
<1>4. CASE UNCHANGED <<vars, runVars>>
  BY <1>1, <1>4 DEF AInv, RunInv, AdmittedAsDeclared, vars, runVars, Valid, WithinLimits,
                    Declared, Minimal
<1> QED
  BY <1>1, <1>3, <1>4, AdmitInv, BuildBodylessInv, BuildBodyInv, GenerateInv, BuiltInv
  DEF AInv, AdmissionNext

LEMMA RunInvariance == AdmissionSpec => []AInv
  BY AdmissionInitInv, AdmissionStep, PTL DEF AdmissionSpec

\* generateJSONBody, called as the generator calls it, behaves as BodySearch says.
THEOREM RunsTheSearch == AdmissionSpec => Spec
<1>1. AdmissionInit => Init
  BY DEF AdmissionInit
<1>2. AInv /\ [AdmissionNext]_<<vars, runVars>> => [Next]_vars
  BY RunSearches DEF AInv
<1> QED
  BY <1>1, <1>2, RunInvariance, PTL DEF AdmissionSpec, Spec

(***************************************************************************)
(* What was admitted by the sizes it declares is built with those sizes,   *)
(* and stays within the aggregate limit, however many requests it has.     *)
(***************************************************************************)
THEOREM AdmissionIsKept == AdmissionSpec => []AdmittedAsDeclared
<1>1. AInv => AdmittedAsDeclared
  BY DEF AInv
<1> QED
  BY <1>1, RunInvariance, PTL
==============================================================================
