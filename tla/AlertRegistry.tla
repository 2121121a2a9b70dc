--------------------------- MODULE AlertRegistry ---------------------------
(***************************************************************************)
(* What alert intake promises its clients ("Idempotent: sending the same   *)
(* sourceSystem + sourceAlertId twice returns the existing case instead of *)
(* creating a duplicate"): a registry that holds at most one case per      *)
(* tenant and source identity, and answers a submission with that case.    *)
(***************************************************************************)
EXTENDS FiniteSets

CONSTANTS Clients, CaseIds, Tenants, Keys, NoCase

VARIABLES
    held,     \* the cases that hold an identity of a tenant
    answer    \* the last answer each client got

vars == <<held, answer>>

Identities == Tenants \X Keys

AllHeld == UNION {held[i] : i \in Identities}

Init ==
    /\ held = [i \in Identities |-> {}]
    /\ answer = [c \in Clients |-> NoCase]

(* A new case for an identity that has none.                               *)
Store(i) ==
    /\ held[i] = {}
    /\ \E case \in CaseIds \ AllHeld : held' = [held EXCEPT ![i] = {case}]
    /\ UNCHANGED answer

(* A submission is answered with the case of its identity, or fails.       *)
Answer(c, i) ==
    /\ \E case \in held[i] : answer' = [answer EXCEPT ![c] = case]
    /\ UNCHANGED held

Fail(c) ==
    /\ answer' = [answer EXCEPT ![c] = NoCase]
    /\ UNCHANGED held

(* A tenant deletes some of its cases.                                     *)
Remove(c, t, cases) ==
    /\ held' = [i \in Identities |-> IF i[1] = t THEN held[i] \ cases ELSE held[i]]
    /\ answer' = [answer EXCEPT ![c] = NoCase]

(* The service restarts; what it holds stays.                              *)
Restart ==
    /\ answer' = [c \in Clients |-> NoCase]
    /\ UNCHANGED held

Next ==
    \/ \E i \in Identities : Store(i)
    \/ \E c \in Clients, i \in Identities : Answer(c, i)
    \/ \E c \in Clients : Fail(c)
    \/ \E c \in Clients, t \in Tenants, S \in SUBSET CaseIds : Remove(c, t, S)
    \/ Restart

Spec == Init /\ [][Next]_vars
=============================================================================
