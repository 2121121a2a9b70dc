------------------------------ MODULE Scoring ------------------------------
(***************************************************************************)
(* Enrichment of one alert: the signals its extractor and the later        *)
(* lookups contribute, and the confidence score computed from them.        *)
(*                                                                         *)
(* _run_enrichment (services/enrichment/__init__.py) builds the list of    *)
(* signals, compute_confidence (services/enrichment/scoring.py) turns it   *)
(* into a score and caps it, and _run_enrichment adjusts the capped score  *)
(* once more and labels it.  The loop over the fired signals is modelled   *)
(* iteration by iteration.                                                 *)
(*                                                                         *)
(* Abstractions.  What the alert's text and fields say is a choice: which  *)
(* detections are made, and a context with the points the keyword tests    *)
(* give.  Multipliers are percentages; int() truncates.                    *)
(***************************************************************************)
EXTENDS Integers, Sequences, FiniteSets, Lists

CONSTANTS
    Names,        \* signal names (the registry of weights.py)
    Extracted,    \* rows the extractor of the alert type may return
    Lookups,      \* detections of threat intelligence, history and graph
    Contexts,     \* what the alert's fields contribute beyond its signals
    Denylists,    \* values of the tenant's disabledSignals
    Calibration   \* percentage per signal name learned from feedback

Tiers == {"verified", "inferred", "observed"}

(* A row may have fired or not.  rebuilt: the lookup's signal is copied by *)
(* Signal(name, weight, True, label), which leaves the tier out.           *)
Detections == [name: Names, weight: Int, tier: Tiers, fired: BOOLEAN, rebuilt: BOOLEAN]

Context == [base: Nat, asset: Int, user: Int, fidelity: 0..100,
            outcome: {"blocked", "detected", "other"}, detail: BOOLEAN,
            transfer: {0, 3, 5, 8}, admin: BOOLEAN]

ASSUME ScoringAssumption ==
    /\ "authorized_admin_activity" \in Names
    /\ Extracted \subseteq Detections
    /\ Lookups \subseteq Detections
    /\ Contexts \subseteq Context
    /\ Denylists \subseteq SUBSET Names
    /\ Calibration \in [Names -> Nat]

VARIABLES
    stage,     \* what happens next
    signals,   \* the list of signals, in the order they were appended
    context,   \* the alert's context
    disabled,  \* the denylist read when scoring starts
    todo,      \* positions the running loop still has to visit
    taken,     \* positive signals weighed so far
    boost,     \* points summed so far
    score,     \* what compute_confidence returned, then the final score
    label,     \* the label of the final score
    capped,    \* history: what compute_confidence returned
    flagged    \* history: names of the threats the lookups found

vars == <<stage, signals, context, disabled, todo, taken, boost, score, label,
          capped, flagged>>

Stages == {"extract", "lookup", "subtract", "weigh", "adjust", "done"}
Labels == {"low", "medium", "high", "critical"}
Signal == [name: Names, weight: Int, tier: Tiers, fired: BOOLEAN]

TypeOK ==
    /\ stage \in Stages
    /\ signals \in Seq(Signal)
    /\ context \in Contexts
    /\ disabled \in SUBSET Names
    /\ todo \subseteq DOMAIN signals
    /\ taken \in Nat
    /\ boost \in Int
    /\ score \in 0..100
    /\ capped \in 0..100
    /\ label \in Labels
    /\ flagged \subseteq Names

Listed == {signals[i].name : i \in DOMAIN signals}

Positives == {i \in DOMAIN signals : signals[i].fired /\ signals[i].weight > 0}
Negatives == {i \in DOMAIN signals : signals[i].fired /\ signals[i].weight < 0}

(* positive_fired: the positive signals the denylist leaves.               *)
Counted == {i \in Positives : signals[i].name \notin disabled}

CountedNames == {signals[i].name : i \in Counted}

(* int(x * p / 100): truncation towards zero.                              *)
Percent(x, p) == IF x >= 0 THEN (x * p) \div 100 ELSE -((-x * p) \div 100)

Least(x, y) == IF x <= y THEN x ELSE y

Clamp(x) == IF x < 0 THEN 0 ELSE Least(x, 100)

TierPercent == [t \in Tiers |-> CASE t = "verified" -> 100
                                  [] t = "inferred" -> 60
                                  [] t = "observed" -> 40]

(* The weight of a signal after its tier and the tenant's calibration.     *)
Effective(s) == (s.weight * TierPercent[s.tier] * Calibration[s.name]) \div 10000

(* Diminishing returns: the k signals before it count more.                *)
Share(w, k) == IF k < 3 THEN w ELSE IF k < 5 THEN Percent(w, 80) ELSE Percent(w, 60)

(* sorted(..., key=weight, reverse=True) is stable.                        *)
Before(i, j) ==
    \/ signals[i].weight > signals[j].weight
    \/ signals[i].weight = signals[j].weight /\ i < j

Init ==
    /\ stage = "extract"
    /\ signals = <<>>
    /\ context \in Contexts
    /\ disabled = {}
    /\ todo = {}
    /\ taken = 0
    /\ boost = 0
    /\ score = 0
    /\ label = "low"
    /\ capped = 0
    /\ flagged = {}

Row(d, tier) == [name |-> d.name, weight |-> d.weight, tier |-> tier, fired |-> d.fired]

(* The extractor's list, fired or not, with the upgraded tiers.            *)
Extract(d) ==
    /\ stage = "extract"
    /\ d.name \notin Listed
    /\ signals' = Append(signals, Row(d, d.tier))
    /\ UNCHANGED <<stage, context, disabled, todo, taken, boost, score, label,
                   capped, flagged>>

EndExtract ==
    /\ stage = "extract"
    /\ stage' = "lookup"
    /\ UNCHANGED <<signals, context, disabled, todo, taken, boost, score, label,
                   capped, flagged>>

(* A lookup's signal is appended unless the list has a row of its name,    *)
(* whether that row has fired or not.                                      *)
AppendedBy(d) ==
    IF d.name \in Listed THEN signals
    ELSE Append(signals, Row(d, IF d.rebuilt THEN "inferred" ELSE d.tier))

Lookup(d) ==
    /\ stage = "lookup"
    /\ d.name \notin flagged
    /\ flagged' = flagged \cup {d.name}
    /\ signals' = AppendedBy(d)
    /\ UNCHANGED <<stage, context, disabled, todo, taken, boost, score, label, capped>>

(* Mutant: the denylist disables suppressions too.                         *)
BeginScoreUnsuppressed(denylist) ==
    /\ stage = "lookup"
    /\ stage' = "subtract"
    /\ disabled' = denylist
    /\ todo' = {i \in Negatives : signals[i].name \notin denylist}
    /\ UNCHANGED <<signals, context, taken, boost, score, label, capped, flagged>>

(* compute_confidence starts: the tenant's denylist has been read.         *)
BeginScore(denylist) ==
    /\ stage = "lookup"
    /\ stage' = "subtract"
    /\ disabled' = denylist
    /\ todo' = Negatives
    /\ UNCHANGED <<signals, context, taken, boost, score, label, capped, flagged>>

(* negative_boost: every fired negative weight, denylisted or not.         *)
SubtractNext ==
    /\ stage = "subtract"
    /\ \E i \in todo : /\ boost' = boost + signals[i].weight
                       /\ todo' = todo \ {i}
    /\ UNCHANGED <<stage, signals, context, disabled, taken, score, label, capped, flagged>>

BeginWeigh ==
    /\ stage = "subtract"
    /\ todo = {}
    /\ stage' = "weigh"
    /\ todo' = Counted
    /\ UNCHANGED <<signals, context, disabled, taken, boost, score, label, capped, flagged>>

(* Mutant: the signals are not sorted.                                     *)
WeighNextUnsorted ==
    /\ stage = "weigh"
    /\ \E i \in todo : /\ boost' = boost + Share(Effective(signals[i]), taken)
                       /\ todo' = todo \ {i}
    /\ taken' = taken + 1
    /\ UNCHANGED <<stage, signals, context, disabled, score, label, capped, flagged>>

(* One iteration of the loop over positive_fired.                          *)
WeighNext ==
    /\ stage = "weigh"
    /\ \E i \in todo :
          /\ \A j \in todo \ {i} : Before(i, j)
          /\ boost' = boost + Share(Effective(signals[i]), taken)
          /\ todo' = todo \ {i}
    /\ taken' = taken + 1
    /\ UNCHANGED <<stage, signals, context, disabled, score, label, capped, flagged>>

-----------------------------------------------------------------------------
(* The rest of compute_confidence, after the loop.                         *)

(* Asset and user points, reduced when both are given.                     *)
ContextPoints ==
    IF context.asset # 0 /\ context.user # 0
    THEN Percent(context.asset + context.user, 70)
    ELSE context.asset + context.user

Combo(names, points) == IF names \subseteq CountedNames THEN points ELSE 0

ComboPoints ==
    Combo({"resignation_on_file", "insider_data_exfil"}, 10)
      + Combo({"resignation_on_file", "data_exfiltration_context"}, 10)
      + Combo({"resignation_on_file", "bulk_transfer"}, 8)
      + Combo({"domain_admin_target", "lateral_movement"}, 8)
      + Combo({"known_attack_tool", "domain_admin_target"}, 8)
      + Combo({"container_escape", "data_exfiltration_context"}, 8)

Corroboration ==
    CASE taken >= 5 -> 8 [] taken = 4 -> 5 [] taken = 3 -> 3 [] taken < 3 -> 0

(* Looked for among all positive signals, denylisted ones included.        *)
HasVerified == \E i \in Positives : signals[i].tier = "verified"

IrFired == \E i \in DOMAIN signals : signals[i].name = "ir_response" /\ signals[i].fired

LoneGeo == taken = 1 /\ "external_geo" \in CountedNames

NoEvidence == taken = 0 /\ signals # <<>>

CapIf(condition, cap, x) == IF condition THEN Least(x, cap) ELSE x

(* Mutants: one of the caps is missing.                                    *)
CapsOfUnverifiedLost(x) == CapIf(IrFired, 40, CapIf(LoneGeo, 45, CapIf(NoEvidence, 20, x)))

CapsOfNoEvidenceLost(x) == CapIf(IrFired, 40, CapIf(LoneGeo, 45, CapIf(~HasVerified, 65, x)))

CapsOfGuardsLost(x) == CapIf(NoEvidence, 20, CapIf(~HasVerified, 65, x))

Caps(x) ==
    CapIf(IrFired, 40,
      CapIf(LoneGeo, 45,
        CapIf(NoEvidence, 20,
          CapIf(~HasVerified, 65, x))))

Confidence ==
    Percent(Caps(Clamp(context.base + boost + ContextPoints + ComboPoints + Corroboration)),
            context.fidelity)

LabelOf(x) ==
    CASE x >= 85 -> "critical"
      [] x >= 60 /\ x < 85 -> "high"
      [] x >= 35 /\ x < 60 -> "medium"
      [] x < 35 -> "low"

Total ==
    /\ stage = "weigh"
    /\ todo = {}
    /\ stage' = "adjust"
    /\ score' = Confidence
    /\ capped' = Confidence
    /\ label' = LabelOf(Confidence)
    /\ UNCHANGED <<signals, context, disabled, todo, taken, boost, flagged>>

(* The adjustments of _run_enrichment, applied to the capped score.        *)
Mitigation == [blocked |-> 15, detected |-> 5, other |-> 0][context.outcome]

(* Mutant: the mitigation is subtracted without a lower bound.             *)
AdjustedUnclamped(x) ==
    Least(100, x - Mitigation + (IF context.detail THEN 3 ELSE 0) + context.transfer)

Adjusted(x) ==
    LET mitigated == Clamp(x - Mitigation)
        detailed  == Least(100, mitigated + (IF context.detail THEN 3 ELSE 0))
    IN  Least(100, detailed + context.transfer)

(* The signal of an authorised administrator is appended when the score    *)
(* has been computed.                                                      *)
AdminRow == [name |-> "authorized_admin_activity", weight |-> -15,
             tier |-> "inferred", fired |-> TRUE]

AdjustScore ==
    /\ stage = "adjust"
    /\ stage' = "done"
    /\ signals' = IF context.admin THEN Append(signals, AdminRow) ELSE signals
    /\ score' = Adjusted(score)
    /\ label' = LabelOf(Adjusted(score))
    /\ UNCHANGED <<context, disabled, todo, taken, boost, capped, flagged>>

Next ==
    \/ \E d \in Extracted : Extract(d)
    \/ EndExtract
    \/ \E d \in Lookups : Lookup(d)
    \/ \E denylist \in Denylists : BeginScore(denylist)
    \/ SubtractNext
    \/ BeginWeigh
    \/ WeighNext
    \/ Total
    \/ AdjustScore

Spec == Init /\ [][Next]_vars

-----------------------------------------------------------------------------
(* Properties.                                                             *)

Done == stage = "done"

(* Whatever is added after the cap, a case none of whose fired signals is  *)
(* verified is never labelled critical ("keyword-only cases can't reach    *)
(* critical").                                                             *)
UnverifiedNeverCritical == Done /\ ~HasVerified => label # "critical"

(* Response actions and an uncorroborated foreign country are capped low   *)
(* enough that the adjustments never label them high.                      *)
CappedNeverHigh == Done /\ (IrFired \/ LoneGeo) => label \in {"low", "medium"}

(* A case with signals of which none counts ends at 31 at most, whatever   *)
(* severity the source gave and however critical the asset: after the cap  *)
(* of 20 only the 3 points of detail and the 8 of a transfer are added.    *)
NoEvidenceStaysBounded ==
    Done /\ taken = 0 /\ (\E n \in Listed : n # AdminRow.name) => score <= 20 + 3 + 8

(* The denylist disables no suppression: the loop over the positive        *)
(* signals starts from the points of every fired negative one.             *)
DenylistKeepsSuppression ==
    stage = "weigh" /\ taken = 0 =>
        \A i \in DOMAIN signals :
            signals[i].fired /\ signals[i].weight < 0 => boost <= signals[i].weight

(* The boost compute_confidence means to add: the positive signals that    *)
(* count are sorted, and each is weighed by its rank; the negative ones    *)
(* have their weight.                                                      *)
Rank(i) == Cardinality({j \in Counted : Before(j, i)})

Points(i) ==
    IF i \in Counted THEN Share(Effective(signals[i]), Rank(i))
    ELSE IF i \in Negatives THEN signals[i].weight ELSE 0

Sum(list) == Folded(LAMBDA sum, x : sum + x, 0, list)

ReferenceBoost == Sum([i \in DOMAIN signals |-> Points(i)])

(* When the loops end, every counted signal has been weighed exactly once, *)
(* the heavier ones in the better bands (scoring.py: "Top 3 at 100%,       *)
(* 4th-5th at 80%, 6th+ at 60%").                                          *)
LoopComputesReference == stage = "adjust" => boost = ReferenceBoost
=============================================================================
