---------------------------- MODULE MCCaseReview ----------------------------
(* Small instances of CaseReview: two statuses, with and without notes. *)
EXTENDS CaseReview, TLC

CONSTANTS c1, c2, w1, w2, n1

TwoStatuses == {"open", "benign"}
OneRemark   == {NoRemark, n1}

Symmetry == Permutations(Workers)
=============================================================================
