------------------------------ MODULE Webhooks ------------------------------
(***************************************************************************)
(* Delivery of cases to webhooks (services/webhook_service.py), the loop   *)
(* that retries failed deliveries, the loop that deletes expired cases     *)
(* (services/retention.py), and the deletion of a case by an analyst.      *)
(*                                                                         *)
(* A delivery is a background task of the request that asked for it: it    *)
(* stores its row, posts, and stores what came of it, in two transactions. *)
(*                                                                         *)
(* Both loops compare the current time, which has a time zone, with a time *)
(* read from the database, which has none: the columns are plain DateTime. *)
(* The comparison raises for the first row, so what follows it in the code *)
(* (lines 124-148, retention.py 35-43) is not reached and not modelled.    *)
(***************************************************************************)
EXTENDS Integers, FiniteSetsExt

CONSTANTS
    Cases,        \* cases that exist at first
    Senders,      \* background tasks of requests
    MaxRows,      \* bound of the deliveries
    MaxRetries    \* MAX_RETRIES

ASSUME WebhooksAssumption == MaxRows \in Nat /\ MaxRetries \in Nat

VARIABLES
    cases,   \* rows of the case table
    hooks,   \* rows of webhook_deliveries
    sender,  \* what a task is about to do
    loop     \* what the two loops do

hookVars == <<cases, hooks, sender, loop>>

Free == [at |-> "idle"]
Loops == {"retry", "retention"}

HookInit ==
    /\ cases = Cases /\ hooks = <<>>
    /\ sender = [s \in Senders |-> Free]
    /\ loop = [l \in Loops |-> "asleep"]

(* api_deliver_webhook: the case is there when the request comes.  The     *)
(* caller may number the attempt (0 stands for leaving that out).          *)
Schedule(s) ==
    \E c \in cases, number \in {0, MaxRetries} :
        /\ sender[s] = Free
        /\ sender' = [sender EXCEPT ![s] = [at |-> "insert", case |-> c, number |-> number]]
        /\ UNCHANGED <<cases, hooks, loop>>

(* _next_attempt_no                                                        *)
NextAttempt(c) == 1 + Max({0} \cup {hooks[h].attempt : h \in {k \in DOMAIN hooks : hooks[k].case = c}})

Put(h, row) == [k \in DOMAIN hooks \cup {h} |-> IF k = h THEN row ELSE hooks[k]]

Insert(s) ==
    LET c == sender[s].case
        h == 1 + Max({0} \cup DOMAIN hooks)
        number == IF sender[s].number = 0 THEN NextAttempt(c) ELSE sender[s].number
    IN
    /\ sender[s].at = "insert"
    /\ \/ /\ c \notin cases                     \* "Case not found"
          /\ sender' = [sender EXCEPT ![s] = Free]
          /\ UNCHANGED hooks
       \/ /\ c \in cases /\ h <= MaxRows
          /\ hooks' = Put(h, [case |-> c, attempt |-> number, delivered |-> FALSE, tried |-> FALSE])
          /\ sender' = [sender EXCEPT ![s] = [at |-> "post", row |-> h]]
    /\ UNCHANGED <<cases, loop>>

(* The receiver accepts, refuses, or is not there.                         *)
Post(s) ==
    \E success \in BOOLEAN :
        /\ sender[s].at = "post"
        /\ sender' = [sender EXCEPT ![s] = [at |-> "record", row |-> @.row, success |-> success]]
        /\ UNCHANGED <<cases, hooks, loop>>

(* The UPDATE raises when the row was deleted with its case.               *)
Record(s) ==
    LET h == sender[s].row IN
    /\ sender[s].at = "record"
    /\ hooks' = IF h \in DOMAIN hooks
                THEN [hooks EXCEPT ![h].delivered = sender[s].success, ![h].tried = TRUE]
                ELSE hooks
    /\ sender' = [sender EXCEPT ![s] = Free]
    /\ UNCHANGED <<cases, loop>>

(* _cascade_delete_cases of one case.                                      *)
DeleteCase(c) ==
    /\ c \in cases
    /\ cases' = cases \ {c}
    /\ hooks' = [h \in {k \in DOMAIN hooks : hooks[k].case # c} |-> hooks[h]]
    /\ UNCHANGED <<sender, loop>>

Wake(l) ==
    /\ loop[l] = "asleep"
    /\ loop' = [loop EXCEPT ![l] = "pass"]
    /\ UNCHANGED <<cases, hooks, sender>>

Pending == {h \in DOMAIN hooks : ~hooks[h].delivered /\ hooks[h].attempt < MaxRetries}

(* The rows whose times a pass compares.                                   *)
Compared(l) == IF l = "retry" THEN Pending ELSE cases

(* The first comparison raises; the loop logs it and sleeps.               *)
PassRaises(l) ==
    /\ loop[l] = "pass" /\ Compared(l) # {}
    /\ loop' = [loop EXCEPT ![l] = "asleep"]
    /\ UNCHANGED <<cases, hooks, sender>>

(* Nothing to compare, nothing to do.                                      *)
PassEnds(l) ==
    /\ loop[l] = "pass" /\ Compared(l) = {}
    /\ loop' = [loop EXCEPT ![l] = "asleep"]
    /\ UNCHANGED <<cases, hooks, sender>>

LoopStep(l) == Wake(l) \/ PassRaises(l) \/ PassEnds(l)

HookNext ==
    \/ \E s \in Senders : Schedule(s) \/ Insert(s) \/ Post(s) \/ Record(s)
    \/ \E c \in Cases : DeleteCase(c)
    \/ \E l \in Loops : LoopStep(l)

(* webhook_service.py:96: "Periodically check for failed webhooks and      *)
(* retry them."  A delivery that failed before its last attempt is         *)
(* attempted again, unless its case is deleted.                            *)
FailedRetried ==
    \A h \in 1..MaxRows, n \in 1..MaxRetries - 1 :
        (h \in DOMAIN hooks /\ hooks[h].tried /\ ~hooks[h].delivered /\ hooks[h].attempt = n)
          ~> ~(h \in DOMAIN hooks /\ ~hooks[h].delivered /\ hooks[h].attempt = n)
=============================================================================
