------------------------------ MODULE Learning ------------------------------
(***************************************************************************)
(* The learning loop (services/calibration.py): the weight of a signal     *)
(* follows what analysts decided about the recent cases it fired for.      *)
(*                                                                         *)
(* Every enrichment computes the multipliers anew from the case table;     *)
(* nothing else is kept (the verdicts posted to /calibration/feedback are  *)
(* stored and reported but never weighed).  Suppression rules and noise    *)
(* detection decide cases as well: they store them as benign               *)
(* (ingestion.py).  The multiplier is what Scoring calls Calibration.      *)
(***************************************************************************)
EXTENDS Integers, FiniteSets

CONSTANTS
    Ids,         \* cases
    Signals,     \* names of signals, without those calibration skips
    Base,        \* registered weight of a signal, 10 if there is none
    MinSamples,  \* _MIN_SAMPLES
    Window       \* window_days

ASSUME LearningAssumption ==
    /\ Base \in [Signals -> Int]
    /\ MinSamples \in Nat \ {0} /\ Window \in Nat

VARIABLE known   \* the case table: age in days (of one past the window at
                 \* most), signals that fired, and the decision

Positive == {"true_positive", "escalated", "confirmed"}
Negative == {"benign", "false_positive"}
Undecided == {"open"}

(* A mutant: every case counts, however old.                               *)
RecentAlways(c) == known[c].age >= 0

(* created_at >= cutoff                                                    *)
Recent(c) == known[c].age <= Window

(* SignalEffectiveness: the decided cases of a signal.                     *)
Decided(s, verdicts) ==
    Cardinality({c \in DOMAIN known : Recent(c) /\ s \in known[c].fired /\ known[c].verdict \in verdicts})

Larger(x, y) == IF x >= y THEN x ELSE y

(* weight_multiplier, in percent.                                          *)
Multiplier(s) ==
    LET n == Decided(s, Negative)
        p == Decided(s, Positive)
        all == n + p
    IN  CASE all < MinSamples -> 100
          [] all >= MinSamples /\ 10 * n >= 7 * all -> Larger(30, 200 \div Larger(Base[s], 1))
          [] all >= MinSamples /\ 10 * n < 7 * all /\ 2 * n >= all -> 50
          [] all >= MinSamples /\ 2 * n < all /\ 10 * n >= 3 * all -> 75
          [] all >= MinSamples /\ 10 * n < 3 * all /\ 20 * p >= 17 * all -> 130
          [] OTHER -> 100

LearnInit == known = <<>>

Stored(c, row) == known' = [i \in DOMAIN known \cup {c} |-> IF i = c THEN row ELSE known[i]]

(* A new case is open, or benign because it was suppressed.                *)
NewCase(c) ==
    \E fired \in SUBSET Signals, verdict \in {"open", "benign"} :
        /\ c \notin DOMAIN known
        /\ Stored(c, [age |-> 0, fired |-> fired, verdict |-> verdict])

(* update_disposition; a decision may be changed or taken back.            *)
Judge(c) ==
    \E verdict \in {"open", "true_positive", "escalated", "benign", "false_positive"} :
        /\ c \in DOMAIN known
        /\ known' = [known EXCEPT ![c].verdict = verdict]

(* The signals of a case enriched again.                                   *)
Refire(c) ==
    \E fired \in SUBSET Signals :
        /\ c \in DOMAIN known
        /\ known' = [known EXCEPT ![c].fired = fired]

Forget(c) ==
    /\ c \in DOMAIN known
    /\ known' = [i \in DOMAIN known \ {c} |-> known[i]]

DayPasses ==
    known' = [c \in DOMAIN known |->
                 [known[c] EXCEPT !.age = IF @ > Window THEN @ ELSE @ + 1]]

LearnNext ==
    \/ \E c \in Ids : NewCase(c) \/ Judge(c) \/ Refire(c) \/ Forget(c)
    \/ DayPasses

(* A case turns negative, or becomes evidence against another signal.      *)
Against(s) == {c \in DOMAIN known : s \in known[c].fired /\ known[c].verdict \in Negative}
Complaint == \E s \in Signals : Against(s)' \ Against(s) # {}

Trusted == \A s \in Signals : Multiplier(s) >= 100

(* calibration.py: distrust of a signal does not outlive its reasons.  If  *)
(* from some time on no case is decided against a signal, then from some   *)
(* time on no signal's weight is reduced, whatever was decided before and  *)
(* whatever is created, confirmed, re-enriched or deleted meanwhile.       *)
DistrustFades == <>[][~Complaint]_known => <>[]Trusted
=============================================================================
