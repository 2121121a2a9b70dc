--------------------------- MODULE MCCaseIntake ---------------------------
(* Small instances of CaseIntake: two tenants, alerts that share a source  *)
(* identity within and across tenants, and groups that overlap them.       *)
EXTENDS CaseIntake, TLC

CONSTANTS t1, t2, k1, k2, u1, c1, c2, c3, w1, w2

AlertOf(t, k, s, time) ==
    [tenant |-> t, key |-> k, more |-> {}, sig |-> s, at |-> time, grouped |-> FALSE]

GroupOf(t, k, others, s, time) ==
    [tenant |-> t, key |-> k, more |-> others, sig |-> s, at |-> time, grouped |-> TRUE]

(* One identity used by two tenants, a group one of whose later members is *)
(* also submitted alone, and groups within and outside the time window of  *)
(* an alert of their user and type.                                        *)
MixedAlerts == {AlertOf(t2, k1, u1, 0), AlertOf(t1, k2, u1, 0),
                GroupOf(t1, k1, {k2}, NoSig, 0), GroupOf(t1, NoKey, {}, u1, 1),
                GroupOf(t1, k1, {}, u1, 3)}

(* Two identities and two tenants, every alert with an identity.           *)
IdentifiedAlerts == {AlertOf(t, k, NoSig, 0) : t \in {t1, t2}, k \in {k1, k2}}

(* The same alert from two clients.                                        *)
SameAlert == {AlertOf(t1, k1, u1, 0)}

CaseSymmetry == Permutations(CaseIds)
Symmetry     == Permutations(CaseIds) \cup Permutations(Workers)
=============================================================================
