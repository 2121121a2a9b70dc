--------------------------- MODULE ScoringProofs ---------------------------
(***************************************************************************)
(* Theorems about enrichment and scoring, for any catalogue of signals,    *)
(* any weights, calibration, denylist and alert.                           *)
(***************************************************************************)
EXTENDS Scoring, FiniteSetTheorems, SequenceTheorems, WellFoundedInduction, TLAPS

-----------------------------------------------------------------------------
(* Arithmetic.                                                             *)

LEMMA PercentInt ==
    ASSUME NEW x \in Int, NEW p \in Nat
    PROVE  Percent(x, p) \in Int
  BY DEF Percent

(* A percentage of at most 100 of a score is a score no greater.           *)
LEMMA PercentShrinks ==
    ASSUME NEW x \in 0..100, NEW p \in 0..100
    PROVE  Percent(x, p) \in 0..x
  <1>1. x * p \in 0..(x * 100)
    OBVIOUS
  <1>2. (x * p) \div 100 \in 0..x
    BY <1>1
  <1>. QED
    BY <1>2 DEF Percent

LEMMA ClampRange ==
    ASSUME NEW x \in Int
    PROVE  Clamp(x) \in 0..100
  BY DEF Clamp, Least

(* A cap lowers a score or leaves it, and holds where its condition does.  *)
LEMMA CapIfBounds ==
    ASSUME NEW condition \in BOOLEAN, NEW cap \in Nat, NEW x \in 0..100
    PROVE  /\ CapIf(condition, cap, x) \in 0..100
           /\ CapIf(condition, cap, x) <= x
           /\ condition => CapIf(condition, cap, x) <= cap
  BY DEF CapIf, Least

LEMMA CapsBounds ==
    ASSUME NEW x \in 0..100
    PROVE  /\ Caps(x) \in 0..100
           /\ ~HasVerified => Caps(x) <= 65
           /\ IrFired => Caps(x) <= 40
           /\ LoneGeo => Caps(x) <= 45
           /\ NoEvidence => Caps(x) <= 20
  <1> DEFINE a == CapIf(~HasVerified, 65, x)
             b == CapIf(NoEvidence, 20, a)
             c == CapIf(LoneGeo, 45, b)
             d == CapIf(IrFired, 40, c)
  <1>0. /\ (~HasVerified) \in BOOLEAN /\ NoEvidence \in BOOLEAN
        /\ LoneGeo \in BOOLEAN /\ IrFired \in BOOLEAN
    BY DEF HasVerified, NoEvidence, LoneGeo, IrFired
  <1>1. a \in 0..100 /\ (~HasVerified => a <= 65)
    BY <1>0, CapIfBounds
  <1>2. b \in 0..100 /\ b <= a /\ (NoEvidence => b <= 20)
    <2> HIDE DEF a
    <2>. QED BY <1>0, <1>1, CapIfBounds
  <1>3. c \in 0..100 /\ c <= b /\ (LoneGeo => c <= 45)
    <2> HIDE DEF b
    <2>. QED BY <1>0, <1>2, CapIfBounds
  <1>4. d \in 0..100 /\ d <= c /\ (IrFired => d <= 40)
    <2> HIDE DEF c
    <2>. QED BY <1>0, <1>3, CapIfBounds
  <1>5. Caps(x) = d
    BY DEF Caps
  <1> HIDE DEF a, b, c, d
  <1>. QED
    BY <1>1, <1>2, <1>3, <1>4, <1>5

(* The adjustments raise a score by at most eleven points.                 *)
LEMMA AdjustedBounds ==
    ASSUME NEW x \in 0..100, context \in Context
    PROVE  Adjusted(x) \in 0..100 /\ Adjusted(x) <= x + 11
  <1>1. context.outcome \in {"blocked", "detected", "other"}
        /\ context.transfer \in {0, 3, 5, 8}
    BY DEF Context
  <1>2. Mitigation \in 0..15
    BY <1>1 DEF Mitigation
  <1>3. Clamp(x - Mitigation) \in 0..x
    BY <1>2 DEF Clamp, Least
  <1>. QED
    BY <1>1, <1>3 DEF Adjusted, Least

LEMMA LabelOfType ==
    ASSUME NEW x \in Int
    PROVE  LabelOf(x) \in Labels
  <1>1. x >= 85 \/ (x >= 60 /\ x < 85) \/ (x >= 35 /\ x < 60) \/ x < 35
    OBVIOUS
  <1>. QED
    BY <1>1 DEF LabelOf, Labels

LEMMA LabelOfBounds ==
    ASSUME NEW x \in Int
    PROVE  /\ x < 85 => LabelOf(x) # "critical"
           /\ x < 60 => LabelOf(x) \in {"low", "medium"}
           /\ x < 35 => LabelOf(x) = "low"
  <1>1. CASE x < 35
    BY <1>1 DEF LabelOf
  <1>2. CASE x >= 35 /\ x < 60
    BY <1>2 DEF LabelOf
  <1>3. CASE x >= 60 /\ x < 85
    BY <1>3 DEF LabelOf
  <1>4. CASE x >= 85
    BY <1>4
  <1>. QED
    BY <1>1, <1>2, <1>3, <1>4

-----------------------------------------------------------------------------
(* The type invariant.                                                     *)

LEMMA RowType ==
    ASSUME NEW d \in Extracted \cup Lookups, NEW tier \in Tiers
    PROVE  Row(d, tier) \in Signal
  BY ScoringAssumption DEF Row, Signal, Detections

(* Appending a signal keeps the ones before it.                            *)
LEMMA Appended ==
    ASSUME NEW s \in Seq(Signal), NEW r \in Signal
    PROVE  /\ Append(s, r) \in Seq(Signal)
           /\ DOMAIN Append(s, r) = DOMAIN s \cup {Len(s) + 1}
           /\ \A i \in DOMAIN s : Append(s, r)[i] = s[i]
           /\ Append(s, r)[Len(s) + 1] = r
  OBVIOUS

LEMMA AppendRowTyped ==
    ASSUME TypeOK, NEW d \in Extracted \cup Lookups, NEW tier \in Tiers,
           signals' = Append(signals, Row(d, tier))
    PROVE  /\ signals' \in Seq(Signal)
           /\ DOMAIN signals \subseteq DOMAIN signals'
   BY RowType, Appended DEF TypeOK

LEMMA SignalAt ==
    ASSUME TypeOK, NEW i \in DOMAIN signals
    PROVE  signals[i] \in Signal
  BY DEF TypeOK

LEMMA AdminRowType == AdminRow \in Signal
  <1>0. "authorized_admin_activity" \in Names
    BY ScoringAssumption
  <1>1. -15 \in Int
    BY SMT
  <1>2. "inferred" \in Tiers /\ TRUE \in BOOLEAN
    BY DEF Tiers
  <1>. QED
    BY <1>0, <1>1, <1>2 DEF AdminRow, Signal

LEMMA EffectiveInt ==
    ASSUME TypeOK, NEW i \in DOMAIN signals
    PROVE  Effective(signals[i]) \in Int
  <1>0. signals[i] \in Signal
    BY SignalAt
  <1>1. /\ signals[i].weight \in Int
        /\ signals[i].tier \in Tiers
        /\ signals[i].name \in Names
    BY <1>0 DEF Signal
  <1>2. TierPercent[signals[i].tier] \in Int
    BY <1>1 DEF TierPercent, Tiers
  <1>3. Calibration[signals[i].name] \in Int
    BY <1>1, ScoringAssumption
  <1>. QED
    BY <1>1, <1>2, <1>3 DEF Effective

LEMMA ShareInt ==
    ASSUME NEW w \in Int, NEW k \in Nat
    PROVE  Share(w, k) \in Int
  <1>1. Percent(w, 80) \in Int /\ Percent(w, 60) \in Int
    BY PercentInt
  <1>. QED
    BY <1>1 DEF Share

LEMMA ConfidenceRange ==
    ASSUME TypeOK
    PROVE  /\ Confidence \in 0..100
           /\ ~HasVerified => Confidence <= 65
           /\ IrFired => Confidence <= 40
           /\ LoneGeo => Confidence <= 45
           /\ NoEvidence => Confidence <= 20
  <1>1. context \in Context
    BY ScoringAssumption DEF TypeOK
  <1>2. context.base \in Int /\ context.asset \in Int /\ context.user \in Int
        /\ context.fidelity \in 0..100
    BY <1>1 DEF Context
  <1>3. ContextPoints \in Int
    BY <1>2, PercentInt DEF ContextPoints
  <1>4. ComboPoints \in Int
    BY DEF ComboPoints, Combo
  <1>5. Corroboration \in Int
    <2>1. taken >= 5 \/ taken = 4 \/ taken = 3 \/ taken < 3
      BY DEF TypeOK
    <2>. QED
      BY <2>1 DEF Corroboration
  <1>6. context.base + boost + ContextPoints + ComboPoints + Corroboration \in Int
    BY <1>2, <1>3, <1>4, <1>5 DEF TypeOK
  <1> DEFINE x == Clamp(context.base + boost + ContextPoints + ComboPoints + Corroboration)
  <1>7. x \in 0..100
    BY <1>6, ClampRange
  <1>8. Confidence = Percent(Caps(x), context.fidelity)
    BY DEF Confidence
  <1> HIDE DEF x
  <1>9. /\ Caps(x) \in 0..100
        /\ ~HasVerified => Caps(x) <= 65
        /\ IrFired => Caps(x) <= 40
        /\ LoneGeo => Caps(x) <= 45
        /\ NoEvidence => Caps(x) <= 20
    BY ONLY <1>7, CapsBounds
  <1>10. Confidence \in 0..Caps(x)
    BY ONLY <1>2, <1>8, <1>9, PercentShrinks
  <1>. QED
    BY ONLY <1>9, <1>10

LEMMA TypedInit == Init => TypeOK
  BY ScoringAssumption DEF Init, TypeOK, Stages, Labels

(* Every step preserves the types.                                         *)
LEMMA TypedStep == TypeOK /\ [Next]_vars => TypeOK'
  <1> SUFFICES ASSUME TypeOK, [Next]_vars PROVE TypeOK'
    OBVIOUS
  <1>1. ASSUME NEW d \in Extracted, Extract(d) PROVE TypeOK'
    <2>1. d.tier \in Tiers
      BY ScoringAssumption DEF Detections
    <2>2. /\ signals' \in Seq(Signal)
          /\ DOMAIN signals \subseteq DOMAIN signals'
      BY <1>1, <2>1, AppendRowTyped DEF Extract
    <2>. QED
      BY <1>1, <2>2 DEF Extract, TypeOK
  <1>2. CASE EndExtract
    BY <1>2 DEF EndExtract, TypeOK, Stages
  <1>3. ASSUME NEW d \in Lookups, Lookup(d) PROVE TypeOK'
    <2>1. d.tier \in Tiers /\ "inferred" \in Tiers /\ d.name \in Names
      BY ScoringAssumption DEF Detections, Tiers
    <2>2. /\ signals' \in Seq(Signal)
          /\ DOMAIN signals \subseteq DOMAIN signals'
      <3>1. CASE d.name \in Listed
        BY <1>3, <3>1 DEF Lookup, AppendedBy, TypeOK
      <3>2. CASE d.name \notin Listed
        BY <1>3, <2>1, <3>2, AppendRowTyped DEF Lookup, AppendedBy
      <3>. QED
        BY <3>1, <3>2
    <2>. QED
      BY <1>3, <2>1, <2>2 DEF Lookup, TypeOK
  <1>4. ASSUME NEW denylist \in Denylists, BeginScore(denylist) PROVE TypeOK'
    BY <1>4, ScoringAssumption
    DEF BeginScore, TypeOK, Stages, Negatives
  <1>5. CASE SubtractNext
    <2>1. PICK i \in todo : boost' = boost + signals[i].weight /\ todo' = todo \ {i}
      BY <1>5 DEF SubtractNext
    <2>2. signals[i].weight \in Int
      <3>1. signals[i] \in Signal
        BY SignalAt DEF TypeOK
      <3>. QED
        BY <3>1 DEF Signal
    <2>. QED
      BY <1>5, <2>1, <2>2 DEF SubtractNext, TypeOK
  <1>6. CASE BeginWeigh
    BY <1>6 DEF BeginWeigh, TypeOK, Stages, Counted, Positives
  <1>7. CASE WeighNext
    <2>1. PICK i \in todo : /\ boost' = boost + Share(Effective(signals[i]), taken)
                            /\ todo' = todo \ {i}
      BY <1>7 DEF WeighNext
    <2>2. Share(Effective(signals[i]), taken) \in Int
      BY <1>7, EffectiveInt, ShareInt DEF WeighNext, TypeOK
    <2>. QED
      BY <1>7, <2>1, <2>2 DEF WeighNext, TypeOK
  <1>8. CASE Total
    <2>1. Confidence \in 0..100
      BY ConfidenceRange
    <2>2. LabelOf(Confidence) \in Labels
      BY <2>1, LabelOfType
    <2>. QED
      BY <1>8, <2>1, <2>2 DEF Total, TypeOK, Stages
  <1>9. CASE AdjustScore
    <2>1. AdminRow \in Signal
      BY AdminRowType
    <2>2. signals' \in Seq(Signal) /\ DOMAIN signals \subseteq DOMAIN signals'
      BY <1>9, <2>1, Appended DEF AdjustScore, TypeOK
    <2>3. Adjusted(score) \in 0..100
      BY AdjustedBounds, ScoringAssumption DEF TypeOK
    <2>4. LabelOf(Adjusted(score)) \in Labels
      BY <2>3, LabelOfType
    <2>. QED
      BY <1>9, <2>2, <2>3, <2>4 DEF AdjustScore, TypeOK, Stages
  <1>10. CASE UNCHANGED vars
    BY <1>10 DEF vars, TypeOK
  <1>. QED
    BY <1>1, <1>2, <1>3, <1>4, <1>5, <1>6, <1>7, <1>8, <1>9, <1>10 DEF Next

(* The score stays within 0 and 100 and every variable in its type, at     *)
(* every step of the computation.                                          *)
THEOREM TypeCorrect == Spec => []TypeOK
  BY TypedInit, TypedStep, PTL DEF Spec

-----------------------------------------------------------------------------
(* The labels of capped cases.                                             *)

(* What compute_confidence returned obeys its caps ...                     *)
CapsHold ==
    stage = "adjust" =>
        /\ score = capped
        /\ ~HasVerified => score <= 65
        /\ IrFired => score <= 40
        /\ LoneGeo => score <= 45
        /\ NoEvidence => score <= 20

LabelsHold == UnverifiedNeverCritical /\ CappedNeverHigh /\ NoEvidenceStaysBounded

CapInv == TypeOK /\ CapsHold /\ LabelsHold

(* ... and the row appended afterwards changes none of the conditions.     *)
LEMMA AdminRowIsNoEvidence ==
    ASSUME TypeOK, AdjustScore
    PROVE  /\ HasVerified' <=> HasVerified
           /\ IrFired' <=> IrFired
           /\ CountedNames' = CountedNames
           /\ signals = <<>> => Listed' \subseteq {AdminRow.name}
  <1>1. CASE signals' = signals
    BY <1>1 DEF AdjustScore, HasVerified, Positives, IrFired, CountedNames, Counted,
                Listed
  <1>2. CASE signals' = Append(signals, AdminRow)
    <2>1. AdminRow \in Signal
      BY AdminRowType
    <2>2. /\ DOMAIN signals' = DOMAIN signals \cup {Len(signals) + 1}
          /\ \A i \in DOMAIN signals : signals'[i] = signals[i]
          /\ signals'[Len(signals) + 1] = AdminRow
      BY <1>2, <2>1, Appended DEF TypeOK
    <2>3. Positives' = Positives
      <3>1. ~(AdminRow.weight > 0)
        BY DEF AdminRow
      <3>2. Len(signals) + 1 \notin DOMAIN signals
        BY DEF TypeOK
      <3>. QED
        BY <2>2, <3>1, <3>2 DEF Positives
    <2>4. Positives \subseteq DOMAIN signals /\ disabled' = disabled
      BY DEF Positives, AdjustScore
    <2>5. HasVerified' <=> HasVerified
      BY <2>2, <2>3, <2>4 DEF HasVerified
    <2>6. CountedNames' = CountedNames
      BY <2>2, <2>3, <2>4 DEF CountedNames, Counted
    <2>7. IrFired' <=> IrFired
      <3>1. AdminRow.name # "ir_response"
        BY DEF AdminRow
      <3>. QED
        BY <2>2, <3>1 DEF IrFired
    <2>8. signals = <<>> => Listed' \subseteq {AdminRow.name}
      BY <2>2 DEF Listed
    <2>. QED
      BY <2>5, <2>6, <2>7, <2>8
  <1>. QED
    BY <1>1, <1>2 DEF AdjustScore

LEMMA CapStep == CapInv /\ [Next]_vars => CapInv'
  <1> SUFFICES ASSUME CapInv, [Next]_vars PROVE CapInv'
    OBVIOUS
  <1>0. TypeOK'
    BY TypedStep DEF CapInv
  <1>1. ASSUME stage' \notin {"adjust", "done"} PROVE CapInv'
    BY <1>0, <1>1 DEF CapInv, CapsHold, LabelsHold, UnverifiedNeverCritical,
                      CappedNeverHigh, NoEvidenceStaysBounded, Done
  <1>2. CASE Total
    <2>1. /\ stage' = "adjust"
          /\ score' = Confidence /\ capped' = Confidence
          /\ UNCHANGED <<signals, disabled, taken>>
      BY <1>2 DEF Total
    <2>2. /\ HasVerified' <=> HasVerified
          /\ IrFired' <=> IrFired
          /\ LoneGeo' <=> LoneGeo
          /\ NoEvidence' <=> NoEvidence
      BY <2>1 DEF HasVerified, IrFired, LoneGeo, NoEvidence, Positives, CountedNames, Counted
    <2>3. CapsHold'
      BY <2>1, <2>2, ConfidenceRange DEF CapsHold, CapInv
    <2>. QED
      BY <1>0, <2>1, <2>3 DEF CapInv, LabelsHold, UnverifiedNeverCritical,
                              CappedNeverHigh, NoEvidenceStaysBounded, Done
  <1>3. CASE AdjustScore
    <2>1. /\ stage = "adjust" /\ stage' = "done"
          /\ label' = LabelOf(Adjusted(score)) /\ score' = Adjusted(score)
          /\ taken' = taken
      BY <1>3 DEF AdjustScore
    <2>2. Adjusted(score) \in 0..100 /\ Adjusted(score) <= score + 11 /\ score \in 0..100
      BY AdjustedBounds, ScoringAssumption DEF CapInv, TypeOK
    <2>6. /\ HasVerified' <=> HasVerified
          /\ IrFired' <=> IrFired
          /\ CountedNames' = CountedNames
          /\ signals = <<>> => Listed' \subseteq {AdminRow.name}
      BY <1>3, AdminRowIsNoEvidence DEF CapInv
    <2> DEFINE x == Adjusted(score)
    <2>7. /\ x < 85 => label' # "critical"
          /\ x < 60 => label' \in {"low", "medium"}
          /\ score' = x
      BY <2>1, <2>2, LabelOfBounds
    <2>8. /\ ~HasVerified => score <= 65
          /\ IrFired => score <= 40
          /\ LoneGeo => score <= 45
          /\ NoEvidence => score <= 20
      BY <2>1 DEF CapInv, CapsHold
    <2>9. x \in 0..100 /\ x <= score + 11
      BY <2>2
    <2> HIDE DEF x
    <2>3. UnverifiedNeverCritical'
      BY <2>2, <2>6, <2>7, <2>8, <2>9 DEF UnverifiedNeverCritical
    <2>4. CappedNeverHigh'
      BY <2>1, <2>2, <2>6, <2>7, <2>8, <2>9 DEF CappedNeverHigh, LoneGeo
    <2>5. NoEvidenceStaysBounded'
      <3>1. AdminRow' = AdminRow
        BY DEF AdminRow
      <3>. QED
        BY <2>1, <2>2, <2>6, <2>7, <2>8, <2>9, <3>1 DEF NoEvidenceStaysBounded, NoEvidence
    <2>. QED
      BY <1>0, <2>1, <2>3, <2>4, <2>5 DEF CapInv, CapsHold, LabelsHold
  <1>4. CASE UNCHANGED vars
    BY <1>0, <1>4 DEF vars, CapInv, CapsHold, LabelsHold, UnverifiedNeverCritical,
                      CappedNeverHigh, NoEvidenceStaysBounded, Done, HasVerified, IrFired,
                      LoneGeo, NoEvidence, Positives, CountedNames, Counted, Listed,
                      AdminRow
  <1>5. ASSUME Next, ~Total, ~AdjustScore PROVE stage' \notin {"adjust", "done"}
    BY <1>5 DEF Next, Extract, EndExtract, Lookup, BeginScore, SubtractNext, BeginWeigh,
                WeighNext
  <1>. QED
    BY <1>1, <1>2, <1>3, <1>4, <1>5

LEMMA CapInvariant == Spec => []CapInv
  <1>1. Init => CapInv
    BY TypedInit DEF Init, CapInv, CapsHold, LabelsHold, UnverifiedNeverCritical,
                     CappedNeverHigh, NoEvidenceStaysBounded, Done
  <1>. QED
    BY <1>1, CapStep, PTL DEF Spec

(* Whatever the signals, weights, calibration and denylist: a case without *)
(* a verified fired signal never ends labelled critical (scoring.py:       *)
(* "keyword-only cases can't reach critical").                             *)
THEOREM UnverifiedNeverCriticalHolds == Spec => []UnverifiedNeverCritical
  BY CapInvariant, PTL DEF CapInv, LabelsHold

(* A response action or a lone foreign country never ends high.            *)
THEOREM CappedNeverHighHolds == Spec => []CappedNeverHigh
  BY CapInvariant, PTL DEF CapInv, LabelsHold

(* A case with signals none of which counts ends at 31 at most, although   *)
(* points are added after the cap of 20.                                   *)
THEOREM NoEvidenceStaysBoundedHolds == Spec => []NoEvidenceStaysBounded
  BY CapInvariant, PTL DEF CapInv, LabelsHold

-----------------------------------------------------------------------------
(* The denylist and the suppressions.                                      *)

(* While the negative signals are summed, the sum is at most the weight of *)
(* each that has been visited, because it never grows.                     *)
SubtractInv ==
    /\ stage \in {"extract", "lookup"} => boost = 0
    /\ stage = "subtract" =>
          /\ boost <= 0
          /\ todo \subseteq Negatives
          /\ \A i \in Negatives \ todo : boost <= signals[i].weight
    /\ DenylistKeepsSuppression

LEMMA SubtractStep == TypeOK /\ SubtractInv /\ [Next]_vars => SubtractInv'
  <1> SUFFICES ASSUME TypeOK, SubtractInv, [Next]_vars PROVE SubtractInv'
    OBVIOUS
  <1>1. \A i \in DOMAIN signals : signals[i].weight \in Int
    <2>1. signals \in [1..Len(signals) -> Signal]
      BY DEF TypeOK
    <2>2. \A i \in 1..Len(signals) : signals[i] \in Signal
      BY <2>1
    <2>. QED
      BY <2>1, <2>2 DEF Signal
  <1>2. CASE SubtractNext
    <2>1. PICK i \in todo : boost' = boost + signals[i].weight /\ todo' = todo \ {i}
      BY <1>2 DEF SubtractNext
    <2>2. stage = "subtract" /\ UNCHANGED <<stage, signals>> /\ Negatives' = Negatives
      BY <1>2 DEF SubtractNext, Negatives
    <2>3. /\ boost <= 0 /\ todo \subseteq Negatives
          /\ \A j \in Negatives \ todo : boost <= signals[j].weight
      BY <2>2 DEF SubtractInv
    <2>4. i \in Negatives /\ signals[i].weight < 0 /\ signals[i].weight \in Int /\ boost \in Int
      BY <1>1, <2>3 DEF Negatives, TypeOK
    <2>5. boost' <= boost /\ boost' <= signals[i].weight /\ boost' \in Int
      BY <2>1, <2>3, <2>4
    <2>6. \A j \in Negatives : signals[j].weight \in Int
      BY <1>1 DEF Negatives
    <2>7. \A j \in Negatives' \ todo' : boost' <= signals'[j].weight
      BY <2>1, <2>2, <2>3, <2>4, <2>5, <2>6
    <2>8. boost' <= 0 /\ todo' \subseteq Negatives'
      BY <2>1, <2>2, <2>3, <2>4, <2>5
    <2>. QED
      BY <2>2, <2>7, <2>8 DEF SubtractInv, DenylistKeepsSuppression
  <1>3. CASE BeginWeigh
    <2>1. /\ stage = "subtract" /\ stage' = "weigh" /\ UNCHANGED <<signals, boost, taken>>
          /\ \A i \in Negatives : boost <= signals[i].weight
      BY <1>3 DEF BeginWeigh, SubtractInv
    <2>. QED
      BY <2>1 DEF SubtractInv, DenylistKeepsSuppression, Negatives
  <1>4. ASSUME NEW denylist, BeginScore(denylist) PROVE SubtractInv'
    <2>1. /\ stage = "lookup" /\ stage' = "subtract" /\ todo' = Negatives
          /\ UNCHANGED <<signals, boost>> /\ boost = 0
      BY <1>4 DEF BeginScore, SubtractInv
    <2>. QED
      BY <2>1 DEF SubtractInv, DenylistKeepsSuppression, Negatives
  <1>5. CASE WeighNext
    <2>1. stage' = "weigh" /\ taken' = taken + 1 /\ taken \in Nat
      BY <1>5 DEF WeighNext, TypeOK
    <2>2. taken' # 0
      BY <2>1
    <2>. QED
      BY <2>1, <2>2 DEF SubtractInv, DenylistKeepsSuppression
  <1>6. ASSUME stage' \in {"extract", "lookup"}, stage \in {"extract", "lookup"}, UNCHANGED boost
        PROVE  SubtractInv'
    BY <1>6 DEF SubtractInv, DenylistKeepsSuppression
  <1>7. CASE EndExtract
    BY <1>6, <1>7 DEF EndExtract
  <1>8. ASSUME NEW d, Extract(d) \/ Lookup(d) PROVE SubtractInv'
    BY <1>6, <1>8 DEF Extract, Lookup
  <1>9. CASE Total \/ AdjustScore
    BY <1>9 DEF Total, AdjustScore, SubtractInv, DenylistKeepsSuppression
  <1>10. CASE UNCHANGED vars
    BY <1>10 DEF vars, SubtractInv, DenylistKeepsSuppression, Negatives
  <1>. QED
    BY <1>2, <1>3, <1>4, <1>5, <1>7, <1>8, <1>9, <1>10 DEF Next

(* Whatever names a tenant puts on the denylist, every fired suppression   *)
(* has taken its points before the first positive signal is weighed        *)
(* (compute_confidence: negative_boost).                                   *)
THEOREM DenylistKeepsSuppressionHolds == Spec => []DenylistKeepsSuppression
  <1>1. Init => SubtractInv
    BY DEF Init, SubtractInv, DenylistKeepsSuppression
  <1>2. Spec => [](TypeOK /\ SubtractInv)
    BY <1>1, TypedInit, TypedStep, SubtractStep, PTL DEF Spec
  <1>. QED
    BY <1>2, PTL DEF SubtractInv

-----------------------------------------------------------------------------
(* Sums along a list.                                                      *)

LEMMA LeastOfNats ==
    ASSUME NEW T \in SUBSET Nat, T # {}
    PROVE  \E n \in T : \A m \in T : n <= m
  <1>. DEFINE R == OpToRel(<, Nat)
  <1>1. IsWellFoundedOn(R, Nat)
    BY NatLessThanWellFounded
  <1>2. \A a, b \in Nat : a < b => <<a, b>> \in R
    BY DEF OpToRel
  <1>. HIDE DEF R
  <1>3. PICK x \in T : \A y \in T : ~ (<<y, x>> \in R)
    BY <1>1, WFMin
  <1>4. ASSUME NEW y \in T PROVE x <= y
    <2>1. ~(y < x)
      BY <1>2, <1>3
    <2>. QED
      BY <2>1
  <1>. QED
    BY <1>4

LEMMA UpTo ==
    ASSUME NEW n \in Nat, NEW S, 0 \in S, \A k \in 1..n : k - 1 \in S => k \in S
    PROVE  \A k \in 0..n : k \in S
  <1>. DEFINE Out == {k \in 0..n : k \notin S}
  <1>. SUFFICES ASSUME Out # {} PROVE FALSE
    OBVIOUS
  <1>1. PICK m \in Out : \A k \in Out : m <= k
    <2>1. Out \in SUBSET Nat
      OBVIOUS
    <2>. QED
      BY <2>1, LeastOfNats
  <1>2. m \in 1..n /\ m \notin S /\ m - 1 \in 0..n
    BY <1>1
  <1>3. m - 1 \in S
    BY <1>1, <1>2
  <1>. QED
    BY <1>2, <1>3

(* A recursive function on the numbers up to n exists, within any set that *)
(* its steps do not leave.                                                 *)
Follow(f, base, step, n) ==
    f = [k \in 0..n |-> IF k = 0 THEN base ELSE step[<<f[k - 1], k>>]]

LEMMA FoldExists ==
    ASSUME NEW X, NEW base \in X, NEW n \in Nat, NEW step \in [X \X (1..n) -> X]
    PROVE  \E f \in [0..n -> X] : Follow(f, base, step, n)
  <1>. DEFINE Good == {m \in 0..n : \E f \in [0..m -> X] : Follow(f, base, step, m)}
  <1>1. 0 \in Good
    <2>. DEFINE f == [k \in 0..0 |-> base]
    <2>1. f \in [0..0 -> X] /\ Follow(f, base, step, 0)
      BY DEF Follow
    <2>. HIDE DEF f
    <2>. QED
      BY <2>1
  <1>2. ASSUME NEW m \in 1..n, m - 1 \in Good PROVE m \in Good
    <2>1. PICK f \in [0..(m - 1) -> X] : Follow(f, base, step, m - 1)
      BY <1>2
    <2>. DEFINE last == step[<<f[m - 1], m>>]
                g == [k \in 0..m |-> IF k = m THEN last ELSE f[k]]
    <2>2. last \in X
      <3>1. f[m - 1] \in X
        OBVIOUS
      <3>. QED
        BY <3>1
    <2>3. g \in [0..m -> X]
      <3>. HIDE DEF last
      <3>. QED
        BY <2>2
    <2>4. ASSUME NEW k \in 0..m
          PROVE  g[k] = IF k = 0 THEN base ELSE step[<<g[k - 1], k>>]
      <3>1. CASE k = m
        <4>1. k # 0 /\ g[k - 1] = f[m - 1]
          BY <3>1
        <4>. QED
          BY <3>1, <4>1
      <3>2. CASE k \in 0..(m - 1)
        <4>1. f[k] = IF k = 0 THEN base ELSE step[<<f[k - 1], k>>]
          BY <2>1, <3>2 DEF Follow
        <4>2. g[k] = f[k] /\ (k # 0 => g[k - 1] = f[k - 1])
          BY <3>2
        <4>. HIDE DEF g
        <4>. QED
          BY <4>1, <4>2
      <3>. QED
        BY <3>1, <3>2
    <2>5. Follow(g, base, step, m)
      <3>. HIDE DEF g
      <3>. QED
        BY <2>3, <2>4 DEF Follow
    <2>. HIDE DEF g
    <2>. QED
      BY <2>3, <2>5
  <1>3. n \in Good
    <2>. HIDE DEF Good
    <2>1. \A m \in 0..n : m \in Good
      BY <1>1, <1>2, UpTo
    <2>. QED
      BY <2>1
  <1>. QED
    BY <1>3

(* The steps of such a function, one by one.                               *)
Taken(f, X, base, step, n) ==
    /\ f \in [0..n -> X]
    /\ f[0] = base
    /\ \A k \in 1..n : f[k - 1] \in X /\ f[k] = step[<<f[k - 1], k>>]

LEMMA FoldSteps ==
    ASSUME NEW X, NEW base \in X, NEW n \in Nat, NEW step \in [X \X (1..n) -> X]
    PROVE  \E f : Taken(f, X, base, step, n)
  <1>1. PICK f \in [0..n -> X] : Follow(f, base, step, n)
    BY FoldExists
  <1>2. \A k \in 0..n : f[k] = IF k = 0 THEN base ELSE step[<<f[k - 1], k>>]
    BY <1>1 DEF Follow
  <1>3. 0 \in 0..n /\ \A k \in 1..n : k \in 0..n /\ k # 0 /\ k - 1 \in 0..n
    OBVIOUS
  <1>. QED
    BY <1>2, <1>3 DEF Taken


(* s[k] is the sum of the first k numbers.                                 *)
SumsUp(s, list) ==
    /\ s \in [0..Len(list) -> Int]
    /\ s[0] = 0
    /\ \A k \in 1..Len(list) : s[k] = s[k - 1] + list[k]

LEMMA SumSteps ==
    ASSUME NEW list \in Seq(Int)
    PROVE  \E s : SumsUp(s, list) /\ Sum(list) = s[Len(list)]
  <1>. DEFINE n == Len(list)
              step == [p \in Int \X (1..n) |-> p[1] + list[p[2]]]
              Is(f) == f = [k \in 0..n |-> IF k = 0 THEN 0 ELSE f[k - 1] + list[k]]
  <1>1. n \in Nat /\ \A k \in 1..n : list[k] \in Int
    BY ElementOfSeq
  <1>2. step \in [Int \X (1..n) -> Int] /\ 0 \in Int
    BY <1>1
  <1>3. PICK f : Taken(f, Int, 0, step, n)
    <2>. HIDE DEF n, step
    <2>. QED
      BY <1>1, <1>2, FoldSteps
  <1>4. /\ f \in [0..n -> Int]
        /\ \A k \in 0..n : f[k] = IF k = 0 THEN 0 ELSE f[k - 1] + list[k]
    <2>1. \A k \in 1..n : f[k] = f[k - 1] + list[k]
      BY <1>3 DEF Taken
    <2>. HIDE DEF n, step
    <2>. QED
      BY <1>1, <1>3, <2>1 DEF Taken
  <1>5. Is(f)
    <2>. HIDE DEF n, step
    <2>. QED
      BY <1>4
  <1>6. PICK s : Is(s) /\ Sum(list) = s[n]
    BY <1>5 DEF Sum, Folded
  <1>. HIDE DEF n, step
  <1>7. \A k \in 0..n : s[k] = IF k = 0 THEN 0 ELSE s[k - 1] + list[k]
    BY <1>6
  <1>8. s \in [0..n -> Int]
    <2>. DEFINE Good == {k \in 0..n : s[k] \in Int}
    <2>1. 0 \in Good
      BY <1>1, <1>7
    <2>2. \A k \in 1..n : k - 1 \in Good => k \in Good
      BY <1>1, <1>7
    <2>3. \A k \in 0..n : k \in Good
      <3>. HIDE DEF Good
      <3>. QED
        BY <1>1, <2>1, <2>2, UpTo
    <2>. QED
      BY <1>6, <2>3
  <1>9. SumsUp(s, list)
    <2>. HIDE DEF Is
    <2>. QED
      BY <1>1, <1>7, <1>8 DEF SumsUp, n
  <1>. QED
    BY <1>6, <1>9 DEF n

(* A sum changes by what one of its numbers changes by.                    *)
LEMMA SumChanges ==
    ASSUME NEW n \in Nat, NEW f \in [1..n -> Int], NEW g \in [1..n -> Int],
           NEW i \in 1..n, \A k \in (1..n) \ {i} : g[k] = f[k]
    PROVE  Sum(g) = Sum(f) + (g[i] - f[i])
  <1>1. f \in Seq(Int) /\ g \in Seq(Int) /\ Len(f) = n /\ Len(g) = n
    <2>1. f \in Seq(Int) /\ g \in Seq(Int)
      OBVIOUS
    <2>. QED
      BY <2>1, LenProperties
  <1>2. PICK s : SumsUp(s, f) /\ Sum(f) = s[n]
    BY <1>1, SumSteps
  <1>3. PICK t : SumsUp(t, g) /\ Sum(g) = t[n]
    BY <1>1, SumSteps
  <1>. DEFINE Good == {k \in 0..n : t[k] = s[k] + (IF k < i THEN 0 ELSE g[i] - f[i])}
  <1>4. 0 \in Good
    BY <1>1, <1>2, <1>3 DEF SumsUp
  <1>5. ASSUME NEW k \in 1..n, k - 1 \in Good PROVE k \in Good
    <2>1. /\ s[k] = s[k - 1] + f[k] /\ t[k] = t[k - 1] + g[k]
          /\ s[k - 1] \in Int /\ t[k - 1] \in Int
      BY <1>1, <1>2, <1>3 DEF SumsUp
    <2>2. t[k - 1] = s[k - 1] + (IF k - 1 < i THEN 0 ELSE g[i] - f[i])
      BY <1>5
    <2>3. f[k] \in Int /\ g[k] \in Int /\ f[i] \in Int /\ g[i] \in Int
      OBVIOUS
    <2>4. CASE k < i
      <3>1. g[k] = f[k] /\ k - 1 < i
        BY <2>4
      <3>. QED
        BY <2>1, <2>2, <2>3, <2>4, <3>1
    <2>5. CASE k = i
      BY <2>1, <2>2, <2>3, <2>5
    <2>6. CASE k > i
      <3>1. g[k] = f[k] /\ ~(k - 1 < i)
        BY <2>6
      <3>. QED
        BY <2>1, <2>2, <2>3, <2>6, <3>1
    <2>. QED
      BY <2>4, <2>5, <2>6
  <1>6. n \in Good
    <2>1. \A k \in 0..n : k \in Good
      <3>. HIDE DEF Good
      <3>. QED
        BY <1>4, <1>5, UpTo
    <2>. QED
      BY <2>1
  <1>. QED
    BY <1>2, <1>3, <1>6

LEMMA SumOfZeros ==
    ASSUME NEW n \in Nat, NEW f \in [1..n -> Int], \A k \in 1..n : f[k] = 0
    PROVE  Sum(f) = 0
  <1>1. f \in Seq(Int) /\ Len(f) = n
    <2>1. f \in Seq(Int)
      OBVIOUS
    <2>. QED
      BY <2>1, LenProperties
  <1>2. PICK s : SumsUp(s, f) /\ Sum(f) = s[n]
    BY <1>1, SumSteps
  <1>. DEFINE Good == {k \in 0..n : s[k] = 0}
  <1>3. 0 \in Good
    BY <1>2 DEF SumsUp
  <1>4. \A k \in 1..n : k - 1 \in Good => k \in Good
    BY <1>1, <1>2 DEF SumsUp
  <1>5. \A k \in 0..n : k \in Good
    <2>. HIDE DEF Good
    <2>. QED
      BY <1>3, <1>4, UpTo
  <1>. QED
    BY <1>2, <1>5

-----------------------------------------------------------------------------
(* The loops.                                                              *)

(* What the signals at some positions contribute.                          *)
PointsOf(done) == [i \in DOMAIN signals |-> IF i \in done THEN Points(i) ELSE 0]

(* The first loop has added what it left of the negative signals out, the  *)
(* second one as well the best of those that count; each was weighed by    *)
(* the number of better ones.                                              *)
LoopInv ==
    /\ stage \in {"extract", "lookup"} => boost = 0 /\ taken = 0
    /\ stage = "subtract" =>
          todo \subseteq Negatives /\ taken = 0 /\ boost = Sum(PointsOf(Negatives \ todo))
    /\ stage = "weigh" =>
          /\ todo \subseteq Counted /\ taken = Cardinality(Counted \ todo)
          /\ boost = Sum(PointsOf(Negatives \cup (Counted \ todo)))
          /\ \A i \in Counted \ todo, j \in todo : Before(i, j)
    /\ LoopComputesReference

LEMMA PositionsOf ==
    ASSUME TypeOK
    PROVE  /\ DOMAIN signals = 1..Len(signals) /\ Len(signals) \in Nat
           /\ IsFiniteSet(DOMAIN signals)
           /\ Counted \subseteq DOMAIN signals /\ Negatives \subseteq DOMAIN signals
           /\ IsFiniteSet(Counted) /\ Counted \cap Negatives = {}
  <1>1. DOMAIN signals = 1..Len(signals) /\ Len(signals) \in Nat
    BY DEF TypeOK
  <1>2. IsFiniteSet(DOMAIN signals)
    BY <1>1, FS_Interval
  <1>3. Counted \subseteq DOMAIN signals /\ Negatives \subseteq DOMAIN signals
    BY DEF Counted, Positives, Negatives
  <1>4. \A i \in DOMAIN signals : signals[i].weight \in Int
    BY SignalAt DEF Signal
  <1>5. Counted \cap Negatives = {}
    BY <1>4 DEF Counted, Positives, Negatives
  <1>. QED
    BY <1>1, <1>2, <1>3, <1>5, FS_Subset

LEMMA PointsInt ==
    ASSUME TypeOK, NEW i \in DOMAIN signals
    PROVE  Points(i) \in Int
  <1>1. Rank(i) \in Nat
    <2>1. IsFiniteSet({j \in Counted : Before(j, i)})
      BY PositionsOf, FS_Subset
    <2>. QED
      BY <2>1, FS_CardinalityType DEF Rank
  <1>2. Share(Effective(signals[i]), Rank(i)) \in Int
    BY <1>1, EffectiveInt, ShareInt
  <1>3. signals[i].weight \in Int
    BY SignalAt DEF Signal
  <1>. QED
    BY <1>2, <1>3 DEF Points

(* One more signal is taken into account.                                  *)
LEMMA PointsAdded ==
    ASSUME TypeOK, NEW done, NEW i \in DOMAIN signals, i \notin done
    PROVE  Sum(PointsOf(done \cup {i})) = Sum(PointsOf(done)) + Points(i)
  <1>. DEFINE n == Len(signals)
              f == PointsOf(done)
              g == PointsOf(done \cup {i})
  <1>1. n \in Nat /\ DOMAIN signals = 1..n
    BY PositionsOf
  <1>2. f \in [1..n -> Int] /\ g \in [1..n -> Int]
    BY <1>1, PointsInt DEF PointsOf
  <1>3. g[i] = Points(i) /\ f[i] = 0 /\ \A k \in (1..n) \ {i} : g[k] = f[k]
    BY <1>1 DEF PointsOf
  <1>4. Points(i) \in Int
    BY PointsInt
  <1>. HIDE DEF n, f, g
  <1>5. Sum(g) = Sum(f) + (g[i] - f[i])
    <2>1. i \in 1..n
      BY <1>1
    <2>2. \A k \in (1..n) \ {i} : g[k] = f[k]
      BY <1>3
    <2>. QED
      BY ONLY <1>1, <1>2, <2>1, <2>2, SumChanges
  <1>6. Sum(g) = Sum(f) + Points(i)
    BY <1>3, <1>4, <1>5
  <1>. QED
    BY <1>6 DEF f, g

LEMMA NoPoints == ASSUME TypeOK PROVE Sum(PointsOf({})) = 0
  <1>. DEFINE n == Len(signals)
              f == PointsOf({})
  <1>1. n \in Nat /\ DOMAIN signals = 1..n
    BY PositionsOf
  <1>2. f \in [1..n -> Int] /\ \A k \in 1..n : f[k] = 0
    BY <1>1 DEF PointsOf
  <1>. HIDE DEF n, f
  <1>3. Sum(f) = 0
    BY <1>1, <1>2, SumOfZeros
  <1>. QED
    BY <1>3 DEF f

LEMMA AllPoints == ASSUME TypeOK PROVE Sum(PointsOf(Negatives \cup Counted)) = ReferenceBoost
  <1>1. PointsOf(Negatives \cup Counted) = [i \in DOMAIN signals |-> Points(i)]
    BY DEF PointsOf, Points
  <1>. QED
    BY <1>1 DEF ReferenceBoost

(* The list and the denylist decide what each signal contributes.          *)
LEMMA PointsStay ==
    ASSUME UNCHANGED <<signals, disabled>>, NEW S
    PROVE  /\ PointsOf(S)' = PointsOf(S) /\ Counted' = Counted /\ Negatives' = Negatives
           /\ ReferenceBoost' = ReferenceBoost
           /\ \A i, j : Before(i, j)' <=> Before(i, j)
  BY DEF PointsOf, ReferenceBoost, Points, Rank, Counted, Positives, Negatives, Before

LEMMA BeforeStrict ==
    ASSUME TypeOK, NEW i \in DOMAIN signals, NEW j \in DOMAIN signals, Before(i, j)
    PROVE  ~Before(j, i)
  <1>1. signals[i].weight \in Int /\ signals[j].weight \in Int
    BY SignalAt DEF Signal
  <1>2. i \in Int /\ j \in Int
    BY PositionsOf
  <1>. QED
    BY <1>1, <1>2 DEF Before

(* The best of the signals left is preceded by the ones weighed so far.    *)
LEMMA RankOfBest ==
    ASSUME TypeOK, NEW left \in SUBSET Counted, NEW i \in left,
           \A j \in left \ {i} : Before(i, j),
           \A k \in Counted \ left : Before(k, i)
    PROVE  Rank(i) = Cardinality(Counted \ left)
  <1>1. i \in DOMAIN signals /\ Counted \subseteq DOMAIN signals
    BY PositionsOf
  <1>2. ASSUME NEW j \in left PROVE ~Before(j, i)
    <2>1. CASE j = i
      BY <1>1, <2>1, BeforeStrict
    <2>2. CASE j # i
      BY <1>1, <2>2, BeforeStrict
    <2>. QED
      BY <2>1, <2>2
  <1>3. {j \in Counted : Before(j, i)} = Counted \ left
    BY <1>2
  <1>. QED
    BY <1>3 DEF Rank

LEMMA SubtractLoop == TypeOK /\ LoopInv /\ SubtractNext => LoopInv'
  <1>. SUFFICES ASSUME TypeOK, LoopInv, SubtractNext PROVE LoopInv'
    OBVIOUS
  <1>1. stage = "subtract" /\ stage' = "subtract" /\ UNCHANGED <<signals, disabled, taken>>
    BY DEF SubtractNext
  <1>2. PICK i \in todo : boost' = boost + signals[i].weight /\ todo' = todo \ {i}
    BY DEF SubtractNext
  <1>3. todo \subseteq Negatives /\ taken = 0 /\ boost = Sum(PointsOf(Negatives \ todo))
    BY <1>1 DEF LoopInv
  <1>4. i \in DOMAIN signals /\ i \notin Negatives \ todo /\ Points(i) = signals[i].weight
    BY <1>3, PositionsOf DEF Points
  <1>5. Negatives \ todo' = (Negatives \ todo) \cup {i}
    BY <1>2, <1>3
  <1>6. boost' = Sum(PointsOf(Negatives \ todo'))
    BY <1>2, <1>3, <1>4, <1>5, PointsAdded
  <1>7. (Sum(PointsOf(Negatives \ todo)))' = Sum(PointsOf(Negatives \ todo'))
    BY <1>1, PointsStay
  <1>8. (todo \subseteq Negatives)'
    BY <1>1, <1>2, <1>3, PointsStay
  <1>. QED
    BY <1>1, <1>3, <1>6, <1>7, <1>8 DEF LoopInv, LoopComputesReference

LEMMA WeighLoop == TypeOK /\ LoopInv /\ WeighNext => LoopInv'
  <1>. SUFFICES ASSUME TypeOK, LoopInv, WeighNext PROVE LoopInv'
    OBVIOUS
  <1>. DEFINE past == Counted \ todo
  <1>1. /\ stage = "weigh" /\ stage' = "weigh" /\ taken' = taken + 1
        /\ UNCHANGED <<signals, disabled>>
    BY DEF WeighNext
  <1>2. PICK i \in todo : /\ \A j \in todo \ {i} : Before(i, j)
                         /\ boost' = boost + Share(Effective(signals[i]), taken)
                         /\ todo' = todo \ {i}
    BY DEF WeighNext
  <1>3. /\ todo \subseteq Counted /\ taken = Cardinality(past)
        /\ boost = Sum(PointsOf(Negatives \cup past))
        /\ \A k \in past, j \in todo : Before(k, j)
    BY <1>1 DEF LoopInv
  <1>4. i \in DOMAIN signals /\ i \in Counted /\ i \notin Negatives \cup past
    BY <1>3, PositionsOf
  <1>5. Rank(i) = taken
    <2>1. todo \in SUBSET Counted /\ \A k \in Counted \ todo : Before(k, i)
      BY <1>3
    <2>. QED
      BY <1>2, <1>3, <2>1, RankOfBest
  <1>6. Points(i) = Share(Effective(signals[i]), taken)
    BY <1>4, <1>5 DEF Points
  <1>7. Counted \ todo' = past \cup {i} /\ i \notin past
    BY <1>2, <1>3
  <1>8. taken' = Cardinality(Counted \ todo')
    <2>1. IsFiniteSet(past)
      BY PositionsOf, FS_Subset
    <2>2. Cardinality(past \cup {i}) = Cardinality(past) + 1
      BY <1>7, <2>1, FS_AddElement
    <2>. QED
      BY <1>1, <1>3, <1>7, <2>2
  <1>9. boost' = Sum(PointsOf(Negatives \cup (Counted \ todo')))
    <2>1. Negatives \cup (Counted \ todo') = (Negatives \cup past) \cup {i}
      BY <1>7
    <2>2. Sum(PointsOf((Negatives \cup past) \cup {i})) = boost + Points(i)
      BY <1>3, <1>4, PointsAdded
    <2>. QED
      BY <1>2, <1>6, <2>1, <2>2
  <1>10. \A k \in Counted \ todo', j \in todo' : Before(k, j)
    BY <1>2, <1>3, <1>7
  <1>11. (todo \subseteq Counted)' /\ Counted' = Counted
    BY <1>1, <1>2, <1>3, PointsStay
  <1>12. (Sum(PointsOf(Negatives \cup (Counted \ todo))))'
           = Sum(PointsOf(Negatives \cup (Counted \ todo')))
    BY <1>1, PointsStay
  <1>13. (\A k \in Counted \ todo, j \in todo : Before(k, j))'
    BY <1>1, <1>10, PointsStay
  <1>. HIDE DEF past
  <1>. QED
    BY <1>1, <1>8, <1>9, <1>11, <1>12, <1>13 DEF LoopInv, LoopComputesReference

LEMMA LoopStep == TypeOK /\ LoopInv /\ [Next]_vars => LoopInv'
  <1>. SUFFICES ASSUME TypeOK, LoopInv, [Next]_vars PROVE LoopInv'
    OBVIOUS
  <1>1. ASSUME NEW d, Extract(d) \/ Lookup(d) PROVE LoopInv'
    BY <1>1 DEF Extract, Lookup, LoopInv, LoopComputesReference
  <1>2. CASE EndExtract
    BY <1>2 DEF EndExtract, LoopInv, LoopComputesReference
  <1>3. ASSUME NEW denylist, BeginScore(denylist) PROVE LoopInv'
    <2>1. /\ stage' = "subtract" /\ todo' = Negatives /\ UNCHANGED <<signals, taken, boost>>
          /\ taken = 0 /\ boost = 0
      BY <1>3 DEF BeginScore, LoopInv
    <2>2. Negatives' = Negatives /\ (Negatives \ todo)' = {}
      BY <2>1 DEF Negatives
    <2>3. (Sum(PointsOf({})))' = 0
      <3>. DEFINE n == Len(signals)
                  f == [i \in DOMAIN signals' |-> 0]
      <3>1. n \in Nat /\ DOMAIN signals' = 1..n
        BY <2>1, PositionsOf
      <3>2. (PointsOf({}))' = f
        BY DEF PointsOf
      <3>3. f \in [1..n -> Int] /\ \A k \in 1..n : f[k] = 0
        BY <3>1
      <3>. HIDE DEF n, f
      <3>4. Sum(f) = 0
        BY <3>1, <3>3, SumOfZeros
      <3>. QED
        BY <3>2, <3>4
    <2>4. (Sum(PointsOf(Negatives \ todo)))' = 0
      BY <2>2, <2>3
    <2>. QED
      BY <2>1, <2>2, <2>4 DEF LoopInv, LoopComputesReference
  <1>4. CASE SubtractNext
    BY <1>4, SubtractLoop
  <1>5. CASE BeginWeigh
    <2>1. /\ stage = "subtract" /\ todo = {} /\ stage' = "weigh" /\ todo' = Counted
          /\ UNCHANGED <<signals, disabled, taken, boost>>
      BY <1>5 DEF BeginWeigh
    <2>2. Counted' = Counted /\ (Counted \ todo)' = {}
      BY <2>1, PointsStay
    <2>3. taken = 0 /\ boost = Sum(PointsOf(Negatives))
      <3>1. Negatives \ todo = Negatives
        BY <2>1
      <3>. QED
        BY <2>1, <3>1 DEF LoopInv
    <2>4. Negatives \cup {} = Negatives
      OBVIOUS
    <2>5. (Sum(PointsOf(Negatives \cup (Counted \ todo))))' = Sum(PointsOf(Negatives))
      BY <2>1, <2>2, <2>4, PointsStay
    <2>6. (taken = Cardinality(Counted \ todo))'
      BY <2>1, <2>2, <2>3, FS_EmptySet
    <2>. QED
      BY <2>1, <2>2, <2>3, <2>5, <2>6 DEF LoopInv, LoopComputesReference
  <1>6. CASE WeighNext
    BY <1>6, WeighLoop
  <1>7. CASE Total
    <2>1. /\ stage = "weigh" /\ todo = {} /\ stage' = "adjust"
          /\ UNCHANGED <<signals, disabled, boost>>
      BY <1>7 DEF Total
    <2>2. Negatives \cup (Counted \ todo) = Negatives \cup Counted
      BY <2>1
    <2>3. boost = ReferenceBoost
      BY <2>1, <2>2, AllPoints DEF LoopInv
    <2>4. boost' = ReferenceBoost'
      BY <2>1, <2>3, PointsStay
    <2>. QED
      BY <2>1, <2>4 DEF LoopInv, LoopComputesReference
  <1>8. CASE AdjustScore
    BY <1>8 DEF AdjustScore, LoopInv, LoopComputesReference
  <1>9. CASE UNCHANGED vars
    <2>1. UNCHANGED <<stage, signals, disabled, todo, taken, boost>>
      BY <1>9 DEF vars
    <2>. QED
      BY <2>1, PointsStay DEF LoopInv, LoopComputesReference
  <1>. QED
    BY <1>1, <1>2, <1>3, <1>4, <1>5, <1>6, <1>7, <1>8, <1>9 DEF Next

(* Whatever the signals and the order the lookups found them in, the loops *)
(* of compute_confidence add up what its comment promises: each positive   *)
(* signal that counts weighed by its rank among them, and every negative   *)
(* one in full.                                                            *)
THEOREM LoopComputesReferenceHolds == Spec => []LoopComputesReference
  <1>1. Init => LoopInv
    BY DEF Init, LoopInv, LoopComputesReference
  <1>2. Spec => [](TypeOK /\ LoopInv)
    BY <1>1, TypedInit, TypedStep, LoopStep, PTL DEF Spec
  <1>. QED
    BY <1>2, PTL DEF LoopInv
=============================================================================
