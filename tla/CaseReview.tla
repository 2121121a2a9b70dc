---------------------------- MODULE CaseReview ----------------------------
(***************************************************************************)
(* What happens to a stored case: analysts set dispositions (one case or   *)
(* many) and add notes, an administrator re-runs enrichment, tenants       *)
(* delete cases, and the request that created the case may still be about  *)
(* to insert its signals.                                                  *)
(*                                                                         *)
(* Handlers run in a thread pool, each with a session of its own; one      *)
(* action is one read or one commit.  The session is an ORM's: a row keeps *)
(* the values it had when the handler first loaded it, a commit writes     *)
(* only the columns whose value differs from the loaded one, and an update *)
(* that matches no row fails.                                              *)
(*                                                                         *)
(* Abstractions.  A run of enrichment is known by the score it gave: the   *)
(* signal rows it stores carry that score.  Of the time to first decision  *)
(* the model keeps whether it is set.  One tenant; the tenant checks are   *)
(* the subject of CaseIntake.                                              *)
(***************************************************************************)
EXTENDS Integers, Sequences, FiniteSets

CONSTANTS
    Workers,       \* threads of the server's pool
    CaseIds,
    Existing,      \* cases that are complete in the initial state
    Statuses,      \* disposition statuses a PATCH may carry
    Remarks,       \* disposition notes a PATCH may carry
    NoRemark,      \* the PATCH carries no notes (None)
    Scores,        \* scores a run of enrichment may give
    ForeignKeys,   \* the database enforces foreign keys
    Faults,        \* statements may fail and the process may stop
    MaxDecisions,  \* bound: disposition events per case
    NoCase

ASSUME ReviewAssumption ==
    /\ Existing \subseteq CaseIds
    /\ "open" \in Statuses
    /\ NoRemark \in Remarks
    /\ ForeignKeys \in BOOLEAN
    /\ Faults \in BOOLEAN
    /\ MaxDecisions \in Nat
    /\ NoCase \notin [status: Statuses, remark: Remarks, timed: BOOLEAN, score: Scores]

VARIABLES
    rows,      \* the cases table: the columns handlers write
    events,    \* case_disposition_events, in commit order
    signals,   \* case_confidence_signals: the runs the stored rows come from
    notes,     \* the cases that have rows in case_notes
    used,      \* identifiers drawn so far
    pc,        \* where each worker is in its handler
    task,      \* what each worker was asked to do
    seen,      \* the row as the worker's session loaded it
    first,     \* the worker found no prior disposition event
    doomed     \* the children of its case a deleting worker has deleted

vars == <<rows, events, signals, notes, used, pc, task, seen, first, doomed>>
dbVars == <<rows, events, signals, notes, used>>
localVars == <<task, seen, first, doomed>>

Row      == [status: Statuses, remark: Remarks, timed: BOOLEAN, score: Scores]
Event    == [status: Statuses, remark: Remarks, first: BOOLEAN]
Task     == [queue: Seq(CaseIds), status: Statuses, remark: Remarks]
Children == [events: Nat, signals: SUBSET Scores, noted: BOOLEAN]
Steps    == {"idle", "children", "load", "prior", "decide", "echo", "note", "reload",
             "rescore", "delete"}

NoTask     == [queue |-> <<>>, status |-> "open", remark |-> NoRemark]
NoChildren == [events |-> 0, signals |-> {}, noted |-> FALSE]

TypeOK ==
    /\ rows \in [CaseIds -> Row \cup {NoCase}]
    /\ events \in [CaseIds -> Seq(Event)]
    /\ signals \in [CaseIds -> SUBSET Scores]
    /\ notes \subseteq CaseIds
    /\ used \subseteq CaseIds
    /\ pc \in [Workers -> Steps]
    /\ task \in [Workers -> Task]
    /\ seen \in [Workers -> Row \cup {NoCase}]
    /\ first \in [Workers -> BOOLEAN]
    /\ doomed \in [Workers -> Children]

Live == {c \in CaseIds : rows[c] # NoCase}

ChildrenOf(c) == [events |-> Len(events[c]), signals |-> signals[c], noted |-> c \in notes]

(* Mutant: a case is created in a status no PATCH knows.                   *)
FreshUnknown(score) ==
    [status |-> "new", remark |-> NoRemark, timed |-> FALSE, score |-> score]

Fresh(score) == [status |-> "open", remark |-> NoRemark, timed |-> FALSE, score |-> score]

Init ==
    /\ \E s \in Scores :
          /\ rows = [c \in CaseIds |-> IF c \in Existing THEN Fresh(s) ELSE NoCase]
          /\ signals = [c \in CaseIds |-> IF c \in Existing THEN {s} ELSE {}]
    /\ events = [c \in CaseIds |-> <<>>]
    /\ notes = {}
    /\ used = Existing
    /\ pc = [w \in Workers |-> "idle"]
    /\ task = [w \in Workers |-> NoTask]
    /\ seen = [w \in Workers |-> NoCase]
    /\ first = [w \in Workers |-> FALSE]
    /\ doomed = [w \in Workers |-> NoChildren]

Current(w) == Head(task[w].queue)

Goto(w, step) == pc' = [pc EXCEPT ![w] = step]

Finish(w) ==
    /\ Goto(w, "idle")
    /\ task' = [task EXCEPT ![w] = NoTask]
    /\ seen' = [seen EXCEPT ![w] = NoCase]
    /\ first' = [first EXCEPT ![w] = FALSE]
    /\ doomed' = [doomed EXCEPT ![w] = NoChildren]

(* The handler goes on with the next case of its list, or returns.         *)
Proceed(w, step) ==
    IF Len(task[w].queue) <= 1 THEN Finish(w)
    ELSE /\ Goto(w, step)
         /\ task' = [task EXCEPT ![w].queue = Tail(@)]
         /\ UNCHANGED <<seen, first, doomed>>

(* The handler ends with an error; its session rolls back.                 *)
Fail(w) == Finish(w) /\ UNCHANGED dbVars

(* A child row of a case that is gone is refused by the foreign key.       *)
ChildRefused(w) ==
    /\ pc[w] \in {"children", "note"}
    /\ ForeignKeys
    /\ Current(w) \notin Live
    /\ Fail(w)

(* An UPDATE of a case that is gone matches no row, which the ORM reports  *)
(* as an error: nothing is committed, and the rest of the list is undone.  *)
StaleRow(w) ==
    /\ pc[w] \in {"decide", "rescore"}
    /\ Current(w) \notin Live
    /\ Fail(w)

(* A statement fails, a deadlock is broken, or the process stops (which is *)
(* this step of every busy worker): open work is lost, commits stay.       *)
Fault(w) ==
    /\ Faults
    /\ pc[w] # "idle"
    /\ Fail(w)

-----------------------------------------------------------------------------
(* Creation: the case row is committed before the signals are inserted.    *)

InsertCase(w, c, score) ==
    /\ pc[w] = "idle"
    /\ c \notin used
    /\ used' = used \cup {c}
    /\ rows' = [rows EXCEPT ![c] = Fresh(score)]
    /\ seen' = [seen EXCEPT ![w] = Fresh(score)]
    /\ task' = [task EXCEPT ![w].queue = <<c>>]
    /\ Goto(w, "children")
    /\ UNCHANGED <<events, signals, notes, first, doomed>>

InsertSignals(w) ==
    /\ pc[w] = "children"
    /\ Current(w) \in Live \/ ~ForeignKeys
    /\ signals' = [signals EXCEPT ![Current(w)] = @ \cup {seen[w].score}]
    /\ Finish(w)
    /\ UNCHANGED <<rows, events, notes, used>>

-----------------------------------------------------------------------------
(* Dispositions: PATCH of one case, or bulk-disposition of a list, which   *)
(* carries no notes.                                                       *)

BeginDecide(w, queue, status, remark) ==
    /\ pc[w] = "idle"
    /\ Len(queue) > 1 => remark = NoRemark
    /\ task' = [task EXCEPT ![w] = [queue |-> queue, status |-> status, remark |-> remark]]
    /\ Goto(w, "load")
    /\ UNCHANGED <<dbVars, seen, first, doomed>>

(* update_disposition and reenrich_case select the row: the session keeps  *)
(* what it loaded until it commits.                                        *)
Load(w) ==
    /\ pc[w] \in {"load", "reload"}
    /\ Current(w) \in Live
    /\ seen' = [seen EXCEPT ![w] = rows[Current(w)]]
    /\ Goto(w, IF pc[w] = "load" THEN "prior" ELSE "rescore")
    /\ UNCHANGED <<dbVars, task, first, doomed>>

(* A case that does not exist is an error entry of the answer (404 of a    *)
(* PATCH).                                                                 *)
LoadMissing(w) ==
    /\ pc[w] \in {"load", "reload"}
    /\ Current(w) \notin Live
    /\ Proceed(w, pc[w])
    /\ UNCHANGED dbVars

(* The prior events are counted; there are none of a deleted case.         *)
ReadPrior(w) ==
    /\ pc[w] = "prior"
    /\ first' = [first EXCEPT ![w] = events[Current(w)] = <<>>]
    /\ Goto(w, "decide")
    /\ UNCHANGED <<dbVars, task, seen, doomed>>

(* Mutant: a PATCH without notes keeps the notes that are there.           *)
WrittenIfGiven(new, old, now) == IF new = NoRemark THEN now ELSE new

(* The value a column has after a commit that assigned new to it, when the *)
(* session had loaded old and the table holds now.                         *)
Written(new, old, now) == IF new = old THEN now ELSE new

(* Mutant: a later decision clears the time to the first one.              *)
CommitDecisionClearing(w) ==
    /\ pc[w] = "decide"
    /\ Current(w) \in Live
    /\ Len(events[Current(w)]) < MaxDecisions
    /\ rows' = [rows EXCEPT ![Current(w)].status = task[w].status,
                            ![Current(w)].timed = first[w]]
    /\ events' = [events EXCEPT ![Current(w)] =
          Append(@, [status |-> task[w].status, remark |-> task[w].remark, first |-> first[w]])]
    /\ Goto(w, "echo")
    /\ UNCHANGED <<signals, notes, used, localVars>>

(* Mutant: the event records the notes of the row, not those of the PATCH. *)
CommitDecisionMisrecorded(w) ==
    /\ pc[w] = "decide"
    /\ Current(w) \in Live
    /\ Len(events[Current(w)]) < MaxDecisions
    /\ rows' = [rows EXCEPT ![Current(w)].remark = task[w].remark,
                            ![Current(w)].timed = @ \/ first[w]]
    /\ events' = [events EXCEPT ![Current(w)] =
          Append(@, [status |-> task[w].status, remark |-> seen[w].remark, first |-> first[w]])]
    /\ Goto(w, "echo")
    /\ UNCHANGED <<signals, notes, used, localVars>>

(* UPDATE cases, INSERT INTO case_disposition_events, COMMIT.              *)
CommitDecision(w) ==
    /\ pc[w] = "decide"
    /\ Current(w) \in Live
    /\ Len(events[Current(w)]) < MaxDecisions
    /\ LET c   == Current(w)
           now == rows[c]
       IN  /\ rows' = [rows EXCEPT ![c] =
                 [status |-> Written(task[w].status, seen[w].status, now.status),
                  remark |-> Written(task[w].remark, seen[w].remark, now.remark),
                  timed  |-> now.timed \/ first[w],
                  score  |-> now.score]]
           /\ events' = [events EXCEPT ![c] =
                 Append(@, [status |-> task[w].status, remark |-> task[w].remark,
                            first |-> first[w]])]
    /\ Goto(w, "echo")
    /\ UNCHANGED <<signals, notes, used, localVars>>

(* get_case reads the row back for the answer.  If it is gone an assertion *)
(* fails and the rest of the list is undone.                               *)
Echo(w) ==
    /\ pc[w] = "echo"
    /\ IF Current(w) \in Live THEN Proceed(w, "load") ELSE Finish(w)
    /\ UNCHANGED dbVars

-----------------------------------------------------------------------------
(* Notes.                                                                  *)

BeginNote(w, c) ==
    /\ pc[w] = "idle"
    /\ c \in Live
    /\ task' = [task EXCEPT ![w].queue = <<c>>]
    /\ Goto(w, "note")
    /\ UNCHANGED <<dbVars, seen, first, doomed>>

CommitNote(w) ==
    /\ pc[w] = "note"
    /\ Current(w) \in Live \/ ~ForeignKeys
    /\ notes' = notes \cup {Current(w)}
    /\ Finish(w)
    /\ UNCHANGED <<rows, events, signals, used>>

-----------------------------------------------------------------------------
(* reenrich_case, for a list of cases with a session each.  Its first      *)
(* flush updates the case row, which keeps other writers of the row out    *)
(* until the commit; the old signals are read after it.                    *)

BeginReenrich(w, queue) ==
    /\ pc[w] = "idle"
    /\ \A i \in DOMAIN queue : queue[i] \in Live
    /\ task' = [task EXCEPT ![w].queue = queue]
    /\ Goto(w, "reload")
    /\ UNCHANGED <<dbVars, seen, first, doomed>>

(* Mutant: the loaded row is written back whole.                           *)
CommitReenrichWholeRow(w, score) ==
    /\ pc[w] = "rescore"
    /\ Current(w) \in Live
    /\ rows' = [rows EXCEPT ![Current(w)] = [seen[w] EXCEPT !.score = score]]
    /\ signals' = [signals EXCEPT ![Current(w)] = {score}]
    /\ Proceed(w, "reload")
    /\ UNCHANGED <<events, notes, used>>

(* Mutant: the old signals are not deleted.                                *)
CommitReenrichAdding(w, score) ==
    /\ pc[w] = "rescore"
    /\ Current(w) \in Live
    /\ rows' = [rows EXCEPT ![Current(w)].score = score]
    /\ signals' = [signals EXCEPT ![Current(w)] = @ \cup {score}]
    /\ Proceed(w, "reload")
    /\ UNCHANGED <<events, notes, used>>

(* Mutant: the score of the row is forgotten.                              *)
CommitReenrichUnscored(w, score) ==
    /\ pc[w] = "rescore"
    /\ Current(w) \in Live
    /\ signals' = [signals EXCEPT ![Current(w)] = {score}]
    /\ Proceed(w, "reload")
    /\ UNCHANGED <<rows, events, notes, used>>

CommitReenrich(w, score) ==
    /\ pc[w] = "rescore"
    /\ Current(w) \in Live
    /\ LET c == Current(w)
       IN  /\ rows' = [rows EXCEPT ![c].score = Written(score, seen[w].score, @)]
           /\ signals' = [signals EXCEPT ![c] = {score}]
    /\ Proceed(w, "reload")
    /\ UNCHANGED <<events, notes, used>>

(* Enrichment raises: reenrich_case reports it and changes nothing.        *)
EnrichmentFails(w) ==
    /\ pc[w] = "rescore"
    /\ Proceed(w, "reload")
    /\ UNCHANGED dbVars

-----------------------------------------------------------------------------
(* Deletion: the children visible to the first statements are deleted,     *)
(* then the case row; see CaseIntake.                                      *)

BeginDelete(w, c) ==
    /\ pc[w] = "idle"
    /\ c \in Live
    /\ task' = [task EXCEPT ![w].queue = <<c>>]
    /\ doomed' = [doomed EXCEPT ![w] = ChildrenOf(c)]
    /\ Goto(w, "delete")
    /\ UNCHANGED <<dbVars, seen, first>>

CommitDelete(w) ==
    /\ pc[w] = "delete"
    /\ LET c == Current(w)
       IN  /\ ForeignKeys => c \notin Live \/ doomed[w] = ChildrenOf(c)
           /\ rows' = [rows EXCEPT ![c] = NoCase]
           /\ events' = [events EXCEPT ![c] = <<>>]
           /\ signals' = [signals EXCEPT ![c] = {}]
           /\ notes' = notes \ {c}
    /\ Finish(w)
    /\ UNCHANGED used

CommitDeleteFails(w) ==
    /\ pc[w] = "delete"
    /\ ForeignKeys
    /\ Current(w) \in Live
    /\ doomed[w] # ChildrenOf(Current(w))
    /\ Fail(w)

(* Lists of cases a request names: one case, or two different ones.        *)
Queues == {<<c>> : c \in CaseIds}
            \cup {q \in CaseIds \X CaseIds : q[1] # q[2]}

Step(w) ==
    \/ ChildRefused(w)
    \/ StaleRow(w)
    \/ Fault(w)
    \/ InsertSignals(w)
    \/ Load(w)
    \/ LoadMissing(w)
    \/ ReadPrior(w)
    \/ CommitDecision(w)
    \/ Echo(w)
    \/ CommitNote(w)
    \/ EnrichmentFails(w)
    \/ CommitDelete(w)
    \/ CommitDeleteFails(w)

Begin(w) ==
    \/ \E c \in CaseIds, s \in Scores : InsertCase(w, c, s)
    \/ \E q \in Queues, s \in Statuses, r \in Remarks : BeginDecide(w, q, s, r)
    \/ \E c \in CaseIds : BeginNote(w, c)
    \/ \E q \in Queues : BeginReenrich(w, q)
    \/ \E c \in CaseIds : BeginDelete(w, c)

Next ==
    \/ \E w \in Workers : Begin(w)
    \/ \E w \in Workers : Step(w)
    \/ \E w \in Workers, s \in Scores : CommitReenrich(w, s)

Spec == Init /\ [][Next]_vars

-----------------------------------------------------------------------------
(* Properties.                                                             *)

(* A case has a time to first decision exactly when its history has a      *)
(* decision, and then some decision was taken for the first one: racing    *)
(* analysts may both be first, but none is never.                          *)
TimedIffDecided ==
    \A c \in Live :
        /\ rows[c].timed <=> events[c] # <<>>
        /\ events[c] # <<>> => events[c][1].first

(* What a case shows was decided: its status and remark are those of       *)
(* events in its history, or the initial ones.                             *)
ShownWasDecided ==
    \A c \in Live :
        /\ rows[c].status = "open" \/ \E i \in DOMAIN events[c] : events[c][i].status = rows[c].status
        /\ rows[c].remark = NoRemark
             \/ \E i \in DOMAIN events[c] : events[c][i].remark = rows[c].remark

(* Re-enrichment never undoes or changes a decision taken while it ran     *)
(* ("Preserves (never modifies): disposition_status, ...").                *)
ReenrichPreservesDecision ==
    [][\A w \in Workers :
         pc[w] = "rescore" /\ pc'[w] # "rescore" /\ Current(w) \in Live =>
            LET c == Current(w)
            IN  /\ rows'[c] # NoCase
                /\ [rows'[c] EXCEPT !.score = 0] = [rows[c] EXCEPT !.score = 0]
                /\ events'[c] = events[c]]_vars

(* A request is busy with a case between its creation and its signals.     *)
Nascent == {Current(w) : w \in {v \in Workers : pc[v] = "children"}}

(* Re-enrichment replaces the signals: a complete case holds those of one  *)
(* run ("CaseConfidenceSignal rows (DELETE + INSERT)").                    *)
SignalsOfOneRun == \A c \in Live \ Nascent : Cardinality(signals[c]) <= 1

(* ... and its score is the one of the run whose signals it holds          *)
(* ("updating score/signals in place").                                    *)
ScoreMatchesSignals ==
    \A c \in Live \ Nascent : signals[c] # {} => rows[c].score \in signals[c]

(* The disposition a case shows is the last one of its history.            *)
ShowsLastDecision ==
    \A c \in Live : events[c] # <<>> =>
        LET last == events[c][Len(events[c])]
        IN  rows[c].status = last.status /\ rows[c].remark = last.remark
=============================================================================
