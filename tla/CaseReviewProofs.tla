-------------------------- MODULE CaseReviewProofs --------------------------
(***************************************************************************)
(* Theorems about the review of cases, for any number of threads, cases,   *)
(* statuses, notes and scores, whatever fails.                             *)
(***************************************************************************)
EXTENDS CaseReview, FiniteSetTheorems, TLAPS

(* The steps at which a handler holds a row it loaded or created.          *)
Holding == {"children", "prior", "decide", "rescore"}

Typed ==
    /\ TypeOK
    /\ \A w \in Workers : pc[w] # "idle" => task[w].queue # <<>>
    /\ \A w \in Workers : pc[w] \in Holding => seen[w] # NoCase

LEMMA FreshTyped ==
    ASSUME NEW s \in Scores
    PROVE  Fresh(s) \in Row /\ Fresh(s) # NoCase
  <1>1. Fresh(s) \in Row
    <2>. DEFINE st == "open"
                re == NoRemark
                tm == FALSE
    <2>1. st \in Statuses /\ re \in Remarks /\ tm \in BOOLEAN
      BY ReviewAssumption
    <2>. HIDE DEF st, re, tm
    <2>2. [status |-> st, remark |-> re, timed |-> tm, score |-> s] \in Row
      BY <2>1 DEF Row
    <2>. QED
      BY <2>2 DEF Fresh, st, re, tm
  <1>. QED
    BY <1>1, ReviewAssumption DEF Row

LEMMA QueuesAreLists == \A q \in Queues : q \in Seq(CaseIds) /\ q # <<>>
  <1>1. ASSUME NEW c \in CaseIds
        PROVE  <<c>> \in Seq(CaseIds) /\ <<c>> # <<>>
    OBVIOUS
  <1>2. ASSUME NEW q \in CaseIds \X CaseIds
        PROVE  q \in Seq(CaseIds) /\ q # <<>>
    <2>1. PICK a \in CaseIds, b \in CaseIds : q = <<a, b>>
      OBVIOUS
    <2>. QED
      BY <2>1
  <1>. QED
    BY <1>1, <1>2 DEF Queues

LEMMA TailOfLonger ==
    ASSUME NEW s \in Seq(CaseIds), ~(Len(s) <= 1)
    PROVE  Tail(s) \in Seq(CaseIds) /\ Tail(s) # <<>>
  <1>1. s # <<>>
    OBVIOUS
  <1>2. Len(Tail(s)) = Len(s) - 1 /\ Tail(s) \in Seq(CaseIds) /\ Len(s) \in Nat
    BY <1>1
  <1>. DEFINE length(t) == Len(t)
  <1>3. length(Tail(s)) # 0 /\ length(<<>>) = 0
    BY <1>2
  <1>. HIDE DEF length
  <1>. QED
    BY <1>2, <1>3

LEMMA CurrentTyped ==
    ASSUME Typed, NEW w \in Workers, pc[w] # "idle"
    PROVE  Current(w) \in CaseIds
  BY DEF Typed, TypeOK, Task, Current

(* A handler that returns leaves nothing behind.                           *)
LEMMA FinishKeepsTyped ==
    ASSUME Typed, NEW w \in Workers, Finish(w)
    PROVE  /\ pc' \in [Workers -> Steps] /\ task' \in [Workers -> Task]
           /\ seen' \in [Workers -> Row \cup {NoCase}] /\ first' \in [Workers -> BOOLEAN]
           /\ doomed' \in [Workers -> Children]
           /\ \A v \in Workers : pc'[v] # "idle" => task'[v].queue # <<>>
           /\ \A v \in Workers : pc'[v] \in Holding => seen'[v] # NoCase
  <1>1. NoTask \in Task /\ NoChildren \in Children
    BY ReviewAssumption DEF NoTask, Task, NoChildren, Children
  <1>2. "idle" \in Steps /\ "idle" \notin Holding
    BY DEF Steps, Holding
  <1>. QED
    BY <1>1, <1>2 DEF Finish, Goto, Typed, TypeOK

LEMMA ProceedKeepsTyped ==
    ASSUME Typed, NEW w \in Workers, NEW step \in {"load", "reload"}, pc[w] # "idle",
           Proceed(w, step)
    PROVE  /\ pc' \in [Workers -> Steps] /\ task' \in [Workers -> Task]
           /\ seen' \in [Workers -> Row \cup {NoCase}] /\ first' \in [Workers -> BOOLEAN]
           /\ doomed' \in [Workers -> Children]
           /\ \A v \in Workers : pc'[v] # "idle" => task'[v].queue # <<>>
           /\ \A v \in Workers : pc'[v] \in Holding => seen'[v] # NoCase
  <1>1. CASE Len(task[w].queue) <= 1
    BY <1>1, FinishKeepsTyped DEF Proceed
  <1>2. CASE ~(Len(task[w].queue) <= 1)
    <2>1. task[w].queue \in Seq(CaseIds) /\ task[w] \in Task
      BY DEF Typed, TypeOK, Task
    <2>2. Tail(task[w].queue) \in Seq(CaseIds) /\ Tail(task[w].queue) # <<>>
      BY <1>2, <2>1, TailOfLonger
    <2>3. [task[w] EXCEPT !.queue = Tail(task[w].queue)] \in Task
      BY <2>1, <2>2 DEF Task
    <2>4. step \in Steps /\ step \notin Holding
      BY DEF Steps, Holding
    <2>5. /\ pc' = [pc EXCEPT ![w] = step]
          /\ task' = [task EXCEPT ![w] = [task[w] EXCEPT !.queue = Tail(task[w].queue)]]
          /\ UNCHANGED <<seen, first, doomed>>
      BY <1>2 DEF Proceed, Goto
    <2>6. task'[w].queue # <<>> /\ task' \in [Workers -> Task]
      BY <2>2, <2>3, <2>5 DEF Typed, TypeOK, Task
    <2>. QED
      BY <2>4, <2>5, <2>6 DEF Typed, TypeOK
  <1>. QED
    BY <1>1, <1>2

-----------------------------------------------------------------------------
(* Every variable keeps its type, and a busy handler has a case.           *)

LEMMA TypedInit == Init => Typed
  <1>1. NoTask \in Task /\ NoChildren \in Children /\ "idle" \in Steps /\ "idle" \notin Holding
    BY ReviewAssumption DEF NoTask, Task, NoChildren, Children, Steps, Holding
  <1>. QED
    BY <1>1, FreshTyped, ReviewAssumption DEF Init, Typed, TypeOK

LEMMA TypedBegin ==
    ASSUME Typed, NEW w \in Workers, Begin(w)
    PROVE  Typed'
  <1>0. \A c \in CaseIds : <<c>> \in Seq(CaseIds) /\ <<c>> # <<>>
    OBVIOUS
  <1>1. ASSUME NEW c \in CaseIds, NEW s \in Scores, InsertCase(w, c, s)
        PROVE  Typed'
    <2>1. [task[w] EXCEPT !.queue = <<c>>] \in Task
      BY <1>0 DEF Typed, TypeOK, Task
    <2>. QED
      BY <1>0, <1>1, <2>1, FreshTyped DEF InsertCase, Goto, Typed, TypeOK, Steps, Holding
  <1>2. ASSUME NEW q \in Queues, NEW s \in Statuses, NEW r \in Remarks, BeginDecide(w, q, s, r)
        PROVE  Typed'
    <2>1. [queue |-> q, status |-> s, remark |-> r] \in Task /\ q # <<>>
      BY QueuesAreLists DEF Task
    <2>. QED
      BY <1>2, <2>1 DEF BeginDecide, Goto, dbVars, Typed, TypeOK, Steps, Holding
  <1>3. ASSUME NEW c \in CaseIds, BeginNote(w, c)
        PROVE  Typed'
    <2>1. [task[w] EXCEPT !.queue = <<c>>] \in Task
      BY <1>0 DEF Typed, TypeOK, Task
    <2>. QED
      BY <1>0, <1>3, <2>1 DEF BeginNote, Goto, dbVars, Typed, TypeOK, Steps, Holding
  <1>4. ASSUME NEW q \in Queues, BeginReenrich(w, q)
        PROVE  Typed'
    <2>1. [task[w] EXCEPT !.queue = q] \in Task /\ q # <<>>
      BY QueuesAreLists DEF Typed, TypeOK, Task
    <2>. QED
      BY <1>4, <2>1 DEF BeginReenrich, Goto, dbVars, Typed, TypeOK, Steps, Holding
  <1>5. ASSUME NEW c \in CaseIds, BeginDelete(w, c)
        PROVE  Typed'
    <2>1. [task[w] EXCEPT !.queue = <<c>>] \in Task
      BY <1>0 DEF Typed, TypeOK, Task
    <2>2. ChildrenOf(c) \in Children
      BY DEF ChildrenOf, Children, Typed, TypeOK
    <2>. QED
      BY <1>0, <1>5, <2>1, <2>2 DEF BeginDelete, Goto, dbVars, Typed, TypeOK, Steps, Holding
  <1>. QED
    BY <1>1, <1>2, <1>3, <1>4, <1>5 DEF Begin

(* An event appended to a history is its last, and the first of an empty   *)
(* one; the others stay.                                                   *)
LEMMA AppendedEvent ==
    ASSUME NEW h \in Seq(Event), NEW e \in Event
    PROVE  /\ Append(h, e) \in Seq(Event) /\ Append(h, e) # <<>>
           /\ Len(h) + 1 \in DOMAIN Append(h, e) /\ Append(h, e)[Len(h) + 1] = e
           /\ \A i \in DOMAIN h : i \in DOMAIN Append(h, e) /\ Append(h, e)[i] = h[i]
           /\ h = <<>> => Append(h, e)[1] = e
           /\ h # <<>> => Append(h, e)[1] = h[1]
  <1>1. Len(Append(h, e)) = Len(h) + 1 /\ Len(h) \in Nat
    OBVIOUS
  <1>. DEFINE length(t) == Len(t)
  <1>2. length(Append(h, e)) # 0 /\ length(<<>>) = 0
    BY <1>1
  <1>. HIDE DEF length
  <1>3. Append(h, e) # <<>>
    BY <1>2
  <1>. QED
    BY <1>1, <1>3

(* A decision's commit appends its event, and writes a column with the     *)
(* event's value or not at all.                                            *)
LEMMA DecisionCommitted ==
    ASSUME Typed, NEW w \in Workers, CommitDecision(w)
    PROVE  \E d \in CaseIds, e \in Event, row \in Row :
              /\ d = Current(w) /\ d \in Live
              /\ e.first = first[w]
              /\ row.status \in {e.status, rows[d].status}
              /\ row.remark \in {e.remark, rows[d].remark}
              /\ row.timed = (rows[d].timed \/ first[w])
              /\ rows' = [rows EXCEPT ![d] = row]
              /\ events' = [events EXCEPT ![d] = Append(events[d], e)]
              /\ pc[w] = "decide" /\ pc' = [pc EXCEPT ![w] = "echo"]
              /\ UNCHANGED <<signals, notes, used, task, seen, first, doomed>>
  <1>. DEFINE c == Current(w)
              row == [status |-> Written(task[w].status, seen[w].status, rows[c].status),
                      remark |-> Written(task[w].remark, seen[w].remark, rows[c].remark),
                      timed  |-> rows[c].timed \/ first[w],
                      score  |-> rows[c].score]
              event == [status |-> task[w].status, remark |-> task[w].remark,
                        first |-> first[w]]
  <1>1. c \in CaseIds /\ rows[c] \in Row /\ task[w] \in Task /\ first[w] \in BOOLEAN
    <2>1. c \in CaseIds
      BY CurrentTyped DEF CommitDecision
    <2>. QED
      BY <2>1 DEF CommitDecision, Live, Typed, TypeOK
  <1>2. event \in Event
    BY <1>1 DEF Event, Task
  <1>3. row \in Row
    <2>1. rows[c].timed \in BOOLEAN
      BY <1>1 DEF Row
    <2>2. (rows[c].timed \/ first[w]) \in BOOLEAN
      OBVIOUS
    <2>3. /\ Written(task[w].status, seen[w].status, rows[c].status) \in Statuses
          /\ Written(task[w].remark, seen[w].remark, rows[c].remark) \in Remarks
      BY <1>1 DEF Written, Row, Task
    <2>. QED
      BY <1>1, <2>2, <2>3 DEF Row
  <1>4. /\ event.first = first[w]
        /\ row.status \in {event.status, rows[c].status}
        /\ row.remark \in {event.remark, rows[c].remark}
        /\ row.timed = (rows[c].timed \/ first[w])
    BY DEF Written
  <1>5. /\ c \in Live
        /\ rows' = [rows EXCEPT ![c] = row]
        /\ events' = [events EXCEPT ![c] = Append(events[c], event)]
        /\ pc[w] = "decide" /\ pc' = [pc EXCEPT ![w] = "echo"]
        /\ UNCHANGED <<signals, notes, used, task, seen, first, doomed>>
    BY DEF CommitDecision, Goto, localVars
  <1>. HIDE DEF row, event
  <1>. QED
    BY <1>1, <1>2, <1>3, <1>4, <1>5

LEMMA CommitDecisionTyped ==
    ASSUME Typed, NEW w \in Workers, CommitDecision(w)
    PROVE  Typed'
  <1>1. PICK d \in CaseIds, e \in Event, row \in Row :
              /\ rows' = [rows EXCEPT ![d] = row]
              /\ events' = [events EXCEPT ![d] = Append(events[d], e)]
              /\ pc[w] = "decide" /\ pc' = [pc EXCEPT ![w] = "echo"]
              /\ UNCHANGED <<signals, notes, used, task, seen, first, doomed>>
    BY DecisionCommitted
  <1>2. Append(events[d], e) \in Seq(Event)
    BY AppendedEvent DEF Typed, TypeOK
  <1>3. rows' \in [CaseIds -> Row \cup {NoCase}] /\ events' \in [CaseIds -> Seq(Event)]
    BY <1>1, <1>2 DEF Typed, TypeOK
  <1>. QED
    BY <1>1, <1>3 DEF Typed, TypeOK, Steps, Holding

(* Re-enrichment changes the score of the row and no other column.         *)
LEMMA ReenrichCommitted ==
    ASSUME Typed, NEW w \in Workers, NEW s \in Scores, CommitReenrich(w, s)
    PROVE  \E d \in CaseIds, x \in Scores :
              /\ d = Current(w) /\ d \in Live /\ rows[d] \in Row /\ pc[w] = "rescore"
              /\ rows' = [rows EXCEPT ![d] = [rows[d] EXCEPT !.score = x]]
              /\ signals' = [signals EXCEPT ![d] = {s}]
              /\ Proceed(w, "reload")
              /\ UNCHANGED <<events, notes, used>>
  <1>. DEFINE c == Current(w)
              x == Written(s, seen[w].score, rows[c].score)
  <1>1. c \in CaseIds /\ rows[c] \in Row /\ pc[w] = "rescore" /\ c \in Live
    <2>1. c \in CaseIds
      BY CurrentTyped DEF CommitReenrich
    <2>. QED
      BY <2>1 DEF CommitReenrich, Live, Typed, TypeOK
  <1>2. x \in Scores
    BY <1>1 DEF Written, Row
  <1>3. /\ rows' = [rows EXCEPT ![c] = [rows[c] EXCEPT !.score = x]]
        /\ signals' = [signals EXCEPT ![c] = {s}]
        /\ UNCHANGED <<events, notes, used>>
        /\ Proceed(w, "reload")
    BY DEF CommitReenrich
  <1>. HIDE DEF x
  <1>. QED
    BY <1>1, <1>2, <1>3

LEMMA CommitReenrichTyped ==
    ASSUME Typed, NEW w \in Workers, NEW s \in Scores, CommitReenrich(w, s)
    PROVE  Typed'
  <1>1. PICK d \in CaseIds, x \in Scores :
              /\ rows[d] \in Row /\ pc[w] = "rescore"
              /\ rows' = [rows EXCEPT ![d] = [rows[d] EXCEPT !.score = x]]
              /\ signals' = [signals EXCEPT ![d] = {s}]
              /\ Proceed(w, "reload")
              /\ UNCHANGED <<events, notes, used>>
    BY ReenrichCommitted
  <1>2. [rows[d] EXCEPT !.score = x] \in Row
    BY <1>1 DEF Row
  <1>3. rows' \in [CaseIds -> Row \cup {NoCase}] /\ signals' \in [CaseIds -> SUBSET Scores]
    BY <1>1, <1>2 DEF Typed, TypeOK
  <1>. QED
    BY <1>1, <1>3, ProceedKeepsTyped DEF Typed, TypeOK

LEMMA FailTyped == ASSUME Typed, NEW w \in Workers, Fail(w) PROVE Typed'
  BY FinishKeepsTyped DEF Fail, dbVars, Typed, TypeOK

LEMMA TypedStep ==
    ASSUME Typed, NEW w \in Workers, Step(w)
    PROVE  Typed'
  <1>. DEFINE c == Current(w)
  <1>1. CASE ChildRefused(w) \/ StaleRow(w) \/ Fault(w) \/ CommitDeleteFails(w)
    BY <1>1, FailTyped DEF ChildRefused, StaleRow, Fault, CommitDeleteFails
  <1>2. CASE InsertSignals(w)
    <2>1. c \in CaseIds /\ seen[w].score \in Scores
      BY <1>2, CurrentTyped DEF InsertSignals, Typed, TypeOK, Holding, Row
    <2>2. /\ Finish(w)
          /\ signals' = [signals EXCEPT ![c] = signals[c] \cup {seen[w].score}]
          /\ UNCHANGED <<rows, events, notes, used>>
      BY <1>2 DEF InsertSignals
    <2>. HIDE DEF c
    <2>. QED
      BY <2>1, <2>2, FinishKeepsTyped DEF Typed, TypeOK
  <1>3. CASE Load(w)
    <2>1. c \in CaseIds /\ rows[c] \in Row /\ rows[c] # NoCase
      <3>1. c \in CaseIds
        BY <1>3, CurrentTyped DEF Load
      <3>. QED
        BY <1>3, <3>1 DEF Load, Live, Typed, TypeOK
    <2>2. /\ seen' = [seen EXCEPT ![w] = rows[c]]
          /\ \E step \in {"prior", "rescore"} : pc' = [pc EXCEPT ![w] = step]
          /\ UNCHANGED <<rows, events, signals, notes, used, task, first, doomed>>
          /\ pc[w] # "idle"
      BY <1>3 DEF Load, Goto, dbVars
    <2>. HIDE DEF c
    <2>. QED
      BY <2>1, <2>2 DEF Typed, TypeOK, Steps, Holding
  <1>4. CASE LoadMissing(w)
    BY <1>4, ProceedKeepsTyped DEF LoadMissing, dbVars, Typed, TypeOK
  <1>5. CASE ReadPrior(w)
    BY <1>5 DEF ReadPrior, Goto, dbVars, Typed, TypeOK, Steps, Holding
  <1>6. CASE CommitDecision(w)
    BY <1>6, CommitDecisionTyped
  <1>7. CASE Echo(w)
    BY <1>7, ProceedKeepsTyped, FinishKeepsTyped DEF Echo, dbVars, Typed, TypeOK
  <1>8. CASE CommitNote(w)
    <2>1. c \in CaseIds
      BY <1>8, CurrentTyped DEF CommitNote
    <2>. HIDE DEF c
    <2>2. Finish(w) /\ notes' = notes \cup {c} /\ UNCHANGED <<rows, events, signals, used>>
      BY <1>8 DEF CommitNote, c
    <2>. QED
      BY <2>1, <2>2, FinishKeepsTyped DEF Typed, TypeOK
  <1>9. CASE EnrichmentFails(w)
    BY <1>9, ProceedKeepsTyped DEF EnrichmentFails, dbVars, Typed, TypeOK
  <1>10. CASE CommitDelete(w)
    <2>1. c \in CaseIds
      BY <1>10, CurrentTyped DEF CommitDelete
    <2>2. /\ Finish(w)
          /\ rows' = [rows EXCEPT ![c] = NoCase]
          /\ events' = [events EXCEPT ![c] = <<>>]
          /\ signals' = [signals EXCEPT ![c] = {}]
          /\ notes' = notes \ {c}
          /\ UNCHANGED used
      BY <1>10 DEF CommitDelete
    <2>. HIDE DEF c
    <2>. QED
      BY <2>1, <2>2, FinishKeepsTyped DEF Typed, TypeOK
  <1>. QED
    BY <1>1, <1>2, <1>3, <1>4, <1>5, <1>6, <1>7, <1>8, <1>9, <1>10 DEF Step

LEMMA TypedNext == Typed /\ [Next]_vars => Typed'
  <1>1. ASSUME Typed, Next
        PROVE  Typed'
    BY <1>1, TypedBegin, TypedStep, CommitReenrichTyped DEF Next
  <1>2. ASSUME Typed, UNCHANGED vars
        PROVE  Typed'
    BY <1>2 DEF vars, Typed, TypeOK
  <1>. QED
    BY <1>1, <1>2

(* A busy handler has a case, and one about to commit has a loaded row.    *)
THEOREM TypedAlways == Spec => []Typed
  BY TypedInit, TypedNext, PTL DEF Spec

(* Every variable keeps its type: no step of any handler, in any order and *)
(* with any failure, writes a row, an event or a list the schema does not  *)
(* know.                                                                   *)
THEOREM TypeCorrect == Spec => []TypeOK
  <1>1. Typed => TypeOK
    BY DEF Typed
  <1>. QED
    BY <1>1, TypedAlways, PTL

-----------------------------------------------------------------------------
(* The kinds of step, by what they do to the tables.                       *)

LEMMA Effects ==
    ASSUME Typed, Next
    PROVE  \/ \E w \in Workers : CommitDecision(w)
           \/ \E w \in Workers, c \in CaseIds, s \in Scores : InsertCase(w, c, s)
           \/ \E w \in Workers, s \in Scores : CommitReenrich(w, s)
           \/ \E w \in Workers : CommitDelete(w)
           \/ \E w \in Workers : InsertSignals(w)
           \/ \E w \in Workers : CommitNote(w)
           \/ UNCHANGED dbVars
  <1>1. ASSUME NEW w \in Workers, Begin(w)
        PROVE  UNCHANGED dbVars \/ \E c \in CaseIds, s \in Scores : InsertCase(w, c, s)
    BY <1>1 DEF Begin, BeginDecide, BeginNote, BeginReenrich, BeginDelete
  <1>2. ASSUME NEW w \in Workers, Step(w)
        PROVE  \/ UNCHANGED dbVars \/ CommitDecision(w) \/ CommitDelete(w)
               \/ InsertSignals(w) \/ CommitNote(w)
    BY <1>2 DEF Step, ChildRefused, StaleRow, Fault, Fail, Load, LoadMissing, ReadPrior,
                Echo, EnrichmentFails, CommitDeleteFails
  <1>. QED
    BY <1>1, <1>2 DEF Next

(* The tables after a step that neither decides, creates nor deletes.      *)
LEMMA QuietSteps ==
    ASSUME Typed, NEW w \in Workers, InsertSignals(w) \/ CommitNote(w) \/ UNCHANGED dbVars
    PROVE  UNCHANGED <<rows, events>> /\ UNCHANGED used
  BY DEF InsertSignals, CommitNote, dbVars

LEMMA FreshIsUndecided ==
    ASSUME NEW s \in Scores
    PROVE  Fresh(s).status = "open" /\ Fresh(s).remark = NoRemark /\ Fresh(s).timed = FALSE
  BY DEF Fresh

-----------------------------------------------------------------------------
(* What a case shows was decided.                                          *)

Shown(c) ==
    /\ rows[c].status = "open"
         \/ \E i \in DOMAIN events[c] : events[c][i].status = rows[c].status
    /\ rows[c].remark = NoRemark
         \/ \E i \in DOMAIN events[c] : events[c][i].remark = rows[c].remark

LEMMA ShownInit == Init => ShownWasDecided
  <1>. SUFFICES ASSUME Init, NEW c \in Live PROVE Shown(c)
    BY DEF ShownWasDecided, Shown
  <1>1. PICK s \in Scores : rows = [d \in CaseIds |-> IF d \in Existing THEN Fresh(s) ELSE NoCase]
    BY DEF Init
  <1>2. rows[c] = Fresh(s)
    BY <1>1 DEF Live
  <1>. QED
    BY <1>2, FreshIsUndecided DEF Shown

LEMMA ShownStep ==
    ASSUME Typed, ShownWasDecided, Next
    PROVE  ShownWasDecided'
  <1>. SUFFICES ASSUME NEW c \in CaseIds, rows'[c] # NoCase PROVE Shown(c)'
    BY DEF ShownWasDecided, Shown, Live
  <1>0. rows[c] # NoCase => Shown(c)
    BY DEF ShownWasDecided, Shown, Live
  <1>1. ASSUME NEW w \in Workers, CommitDecision(w)
        PROVE  Shown(c)'
    <2>1. PICK d \in CaseIds, e \in Event, row \in Row :
              /\ d \in Live
              /\ row.status \in {e.status, rows[d].status}
              /\ row.remark \in {e.remark, rows[d].remark}
              /\ rows' = [rows EXCEPT ![d] = row]
              /\ events' = [events EXCEPT ![d] = Append(events[d], e)]
      BY <1>1, DecisionCommitted
    <2>2. CASE c # d
      BY <1>0, <2>1, <2>2 DEF Shown, Typed, TypeOK
    <2>3. CASE c = d
      <3>1. rows'[c] = row /\ events'[c] = Append(events[c], e) /\ events[c] \in Seq(Event)
        BY <2>1, <2>3 DEF Typed, TypeOK
      <3>2. Shown(c)
        BY <1>0, <2>1, <2>3 DEF Live
      <3>. DEFINE h == events[c]
                  k == Append(h, e)
      <3>3. /\ \E i \in DOMAIN k : k[i] = e
            /\ \A i \in DOMAIN h : i \in DOMAIN k /\ k[i] = h[i]
        BY <3>1, AppendedEvent
      <3>4. row.status \in {e.status, rows[c].status} /\ row.remark \in {e.remark, rows[c].remark}
        BY <2>1, <2>3
      <3>. HIDE DEF k
      <3>5. row.status = "open" \/ \E i \in DOMAIN k : k[i].status = row.status
        BY <3>2, <3>3, <3>4 DEF Shown
      <3>6. row.remark = NoRemark \/ \E i \in DOMAIN k : k[i].remark = row.remark
        BY <3>2, <3>3, <3>4 DEF Shown
      <3>. QED
        BY <3>1, <3>5, <3>6 DEF Shown, k
    <2>. QED
      BY <2>2, <2>3
  <1>2. ASSUME NEW w \in Workers, NEW d \in CaseIds, NEW s \in Scores, InsertCase(w, d, s)
        PROVE  Shown(c)'
    <2>1. rows' = [rows EXCEPT ![d] = Fresh(s)] /\ events' = events
      BY <1>2 DEF InsertCase
    <2>2. c # d => rows'[c] = rows[c]
      BY <2>1 DEF Typed, TypeOK
    <2>3. c = d => rows'[c] = Fresh(s)
      BY <2>1 DEF Typed, TypeOK
    <2>. QED
      BY <1>0, <2>1, <2>2, <2>3, FreshIsUndecided DEF Shown
  <1>3. ASSUME NEW w \in Workers, NEW s \in Scores, CommitReenrich(w, s)
        PROVE  Shown(c)'
    <2>1. PICK d \in CaseIds, x \in Scores :
              /\ d \in Live /\ rows[d] \in Row
              /\ rows' = [rows EXCEPT ![d] = [rows[d] EXCEPT !.score = x]]
              /\ UNCHANGED events
      BY <1>3, ReenrichCommitted
    <2>2. rows[c] # NoCase /\ rows'[c].status = rows[c].status /\ rows'[c].remark = rows[c].remark
      BY <2>1 DEF Live, Typed, TypeOK, Row
    <2>. QED
      BY <1>0, <2>1, <2>2 DEF Shown
  <1>4. ASSUME NEW w \in Workers, CommitDelete(w)
        PROVE  Shown(c)'
    <2>. DEFINE d == Current(w)
    <2>1. d \in CaseIds
      BY <1>4, CurrentTyped DEF CommitDelete
    <2>2. rows' = [rows EXCEPT ![d] = NoCase] /\ events' = [events EXCEPT ![d] = <<>>]
      BY <1>4 DEF CommitDelete
    <2>. HIDE DEF d
    <2>3. c # d /\ rows'[c] = rows[c] /\ events'[c] = events[c]
      BY <2>1, <2>2 DEF Typed, TypeOK
    <2>. QED
      BY <1>0, <2>3 DEF Shown
  <1>5. ASSUME NEW w \in Workers, InsertSignals(w) \/ CommitNote(w) \/ UNCHANGED dbVars
        PROVE  Shown(c)'
    BY <1>0, <1>5, QuietSteps DEF Shown
  <1>6. ASSUME UNCHANGED dbVars
        PROVE  Shown(c)'
    BY <1>0, <1>6 DEF Shown, dbVars
  <1>. QED
    BY <1>1, <1>2, <1>3, <1>4, <1>5, <1>6, Effects

(* Whatever analysts, re-enrichments and deletions overlap, the status and *)
(* the remark a case shows are initial or those of events in its history.  *)
THEOREM ShownWasDecidedHolds == Spec => []ShownWasDecided
  <1>1. Typed /\ ShownWasDecided /\ [Next]_vars => ShownWasDecided'
    <2>1. ASSUME ShownWasDecided, UNCHANGED vars
          PROVE  ShownWasDecided'
      BY <2>1 DEF vars, ShownWasDecided, Live
    <2>. QED
      BY <2>1, ShownStep
  <1>. QED
    BY <1>1, ShownInit, TypedAlways, PTL DEF Spec

-----------------------------------------------------------------------------
(* A case has a time to first decision exactly when it has a decision.  A  *)
(* handler that saw a prior event commits later, when the event may be     *)
(* gone with its case; what makes the invariant inductive is that the case *)
(* cannot come back, for no identifier is drawn twice.                     *)

Planned(w) == pc[w] \in {"prior", "decide"}

ReviewInv ==
    /\ Typed
    /\ Live \subseteq used
    /\ \A c \in CaseIds \ used : events[c] = <<>>
    /\ \A w \in Workers : Planned(w) => Current(w) \in used
    /\ \A w \in Workers : pc[w] = "decide" /\ Current(w) \in Live =>
          first[w] \/ events[Current(w)] # <<>>
    /\ TimedIffDecided

LEMMA ReviewInvInit == Init => ReviewInv
  <1>. SUFFICES ASSUME Init PROVE ReviewInv
    OBVIOUS
  <1>1. PICK s \in Scores : rows = [d \in CaseIds |-> IF d \in Existing THEN Fresh(s) ELSE NoCase]
    BY DEF Init
  <1>2. Live \subseteq used /\ \A c \in Live : rows[c] = Fresh(s)
    BY <1>1 DEF Init, Live
  <1>3. \A c \in CaseIds : events[c] = <<>>
    BY DEF Init
  <1>4. TimedIffDecided
    BY <1>2, <1>3, FreshIsUndecided DEF TimedIffDecided, Live
  <1>5. \A w \in Workers : pc[w] = "idle"
    BY DEF Init
  <1>. QED
    BY <1>2, <1>3, <1>4, <1>5, TypedInit DEF ReviewInv, Planned

(* A step changes the plan of one handler, and a handler comes to decide   *)
(* by loading a case that exists and then counting its events.             *)
LEMMA OneHandlerMoves ==
    ASSUME Typed, Next
    PROVE  \E w \in Workers :
              /\ \A v \in Workers \ {w} : pc'[v] = pc[v] /\ task'[v] = task[v] /\ first'[v] = first[v]
              /\ ~(Planned(w)') \/ Load(w) \/ ReadPrior(w)
  <1>1. ASSUME NEW w \in Workers, Finish(w)
        PROVE  /\ \A v \in Workers \ {w} : pc'[v] = pc[v] /\ task'[v] = task[v] /\ first'[v] = first[v]
               /\ ~(Planned(w)')
    BY <1>1 DEF Finish, Goto, Planned, Typed, TypeOK
  <1>2. ASSUME NEW w \in Workers, NEW step \in {"load", "reload"}, Proceed(w, step)
        PROVE  /\ \A v \in Workers \ {w} : pc'[v] = pc[v] /\ task'[v] = task[v] /\ first'[v] = first[v]
               /\ ~(Planned(w)')
    BY <1>1, <1>2 DEF Proceed, Goto, Planned, Typed, TypeOK
  <1>3. ASSUME NEW w \in Workers, Begin(w)
        PROVE  /\ \A v \in Workers \ {w} : pc'[v] = pc[v] /\ task'[v] = task[v] /\ first'[v] = first[v]
               /\ ~(Planned(w)')
    BY <1>3 DEF Begin, InsertCase, BeginDecide, BeginNote, BeginReenrich, BeginDelete, Goto,
                Planned, Typed, TypeOK
  <1>4. ASSUME NEW w \in Workers, Step(w)
        PROVE  /\ \A v \in Workers \ {w} : pc'[v] = pc[v] /\ task'[v] = task[v] /\ first'[v] = first[v]
               /\ ~(Planned(w)') \/ Load(w) \/ ReadPrior(w)
    <2>1. CASE Load(w) \/ ReadPrior(w)
      BY <2>1 DEF Load, ReadPrior, Goto, Typed, TypeOK
    <2>2. CASE CommitDecision(w)
      BY <2>2 DEF CommitDecision, Goto, localVars, Planned, Typed, TypeOK
    <2>3. CASE LoadMissing(w) \/ EnrichmentFails(w)
      BY <1>2, <2>3 DEF LoadMissing, EnrichmentFails
    <2>4. CASE Echo(w)
      BY <1>1, <1>2, <2>4 DEF Echo
    <2>. QED
      BY <1>1, <1>4, <2>1, <2>2, <2>3, <2>4
         DEF Step, ChildRefused, StaleRow, Fault, Fail, InsertSignals, CommitNote, CommitDelete,
             CommitDeleteFails
  <1>5. ASSUME NEW w \in Workers, NEW s \in Scores, CommitReenrich(w, s)
        PROVE  /\ \A v \in Workers \ {w} : pc'[v] = pc[v] /\ task'[v] = task[v] /\ first'[v] = first[v]
               /\ ~(Planned(w)')
    BY <1>2, <1>5 DEF CommitReenrich
  <1>. QED
    BY <1>3, <1>4, <1>5 DEF Next

(* A case whose identifier is drawn and that still exists has kept its     *)
(* history, and only decisions make one longer.                            *)
LEMMA HistoriesKept ==
    ASSUME ReviewInv, Next
    PROVE  /\ used \subseteq used' /\ (Live \subseteq used)'
           /\ \A c \in CaseIds \ used' : events'[c] = <<>>
           /\ \A c \in used : rows'[c] # NoCase =>
                 rows[c] # NoCase /\ (events[c] # <<>> => events'[c] # <<>>)
           /\ TimedIffDecided'
  <1>. DEFINE Kept == /\ used \subseteq used' /\ (Live \subseteq used)'
                      /\ \A c \in CaseIds \ used' : events'[c] = <<>>
                      /\ \A c \in used : rows'[c] # NoCase =>
                            rows[c] # NoCase /\ (events[c] # <<>> => events'[c] # <<>>)
                      /\ TimedIffDecided'
  <1>0. /\ Typed /\ used \subseteq CaseIds
        /\ \A c \in CaseIds : rows[c] # NoCase =>
              /\ c \in used
              /\ rows[c].timed <=> events[c] # <<>>
              /\ events[c] # <<>> => events[c][1].first
        /\ \A c \in CaseIds \ used : events[c] = <<>>
    BY DEF ReviewInv, TimedIffDecided, Live, Typed, TypeOK
  <1>a. ASSUME /\ used \subseteq used' /\ used' \subseteq CaseIds
               /\ \A c \in CaseIds :
                     \/ /\ rows'[c] # NoCase /\ c \in used'
                        /\ c \in used => rows[c] # NoCase /\ (events[c] # <<>> => events'[c] # <<>>)
                        /\ rows'[c].timed <=> events'[c] # <<>>
                        /\ events'[c] # <<>> => events'[c][1].first
                     \/ /\ rows'[c] = NoCase
                        /\ c \notin used' => events'[c] = <<>>
        PROVE  Kept
    BY <1>0, <1>a DEF TimedIffDecided, Live
  <1>1. ASSUME NEW w \in Workers, CommitDecision(w)
        PROVE  Kept
    <2>1. PICK d \in CaseIds, e \in Event, row \in Row :
              /\ d = Current(w) /\ d \in Live /\ e.first = first[w] /\ pc[w] = "decide"
              /\ row.timed = (rows[d].timed \/ first[w])
              /\ rows' = [rows EXCEPT ![d] = row]
              /\ events' = [events EXCEPT ![d] = Append(events[d], e)]
              /\ UNCHANGED used
      BY <1>0, <1>1, DecisionCommitted
    <2>2. first[w] \/ events[d] # <<>>
      BY <2>1 DEF ReviewInv
    <2>3. /\ events'[d] # <<>>
          /\ events[d] = <<>> => events'[d][1] = e
          /\ events[d] # <<>> => events'[d][1] = events[d][1]
          /\ \A c \in CaseIds \ {d} : events'[c] = events[c]
      BY <2>1, AppendedEvent DEF Typed, TypeOK, ReviewInv
    <2>4. /\ rows'[d] = row /\ row # NoCase /\ rows[d] # NoCase
          /\ \A c \in CaseIds \ {d} : rows'[c] = rows[c]
      BY <2>1, ReviewAssumption DEF Typed, TypeOK, ReviewInv, Live, Row
    <2>5. events'[d][1].first
      BY <1>0, <2>1, <2>2, <2>3, <2>4
    <2>6. rows'[d].timed
      BY <1>0, <2>1, <2>2, <2>4
    <2>. QED
      BY <1>0, <1>a, <2>1, <2>3, <2>4, <2>5, <2>6
  <1>2. ASSUME NEW w \in Workers, NEW d \in CaseIds, NEW s \in Scores, InsertCase(w, d, s)
        PROVE  Kept
    <2>1. /\ rows' = [rows EXCEPT ![d] = Fresh(s)] /\ UNCHANGED events
          /\ d \notin used /\ used' = used \cup {d}
      BY <1>2 DEF InsertCase
    <2>2. /\ rows'[d] = Fresh(s) /\ Fresh(s) # NoCase /\ events'[d] = <<>> /\ ~Fresh(s).timed
          /\ \A c \in CaseIds \ {d} : rows'[c] = rows[c]
      BY <1>0, <2>1, FreshTyped, FreshIsUndecided DEF Typed, TypeOK
    <2>. QED
      BY <1>0, <1>a, <2>1, <2>2
  <1>3. ASSUME NEW w \in Workers, NEW s \in Scores, CommitReenrich(w, s)
        PROVE  Kept
    <2>1. PICK d \in CaseIds, x \in Scores :
              /\ d \in Live /\ rows[d] \in Row
              /\ rows' = [rows EXCEPT ![d] = [rows[d] EXCEPT !.score = x]]
              /\ UNCHANGED <<events, used>>
      BY <1>0, <1>3, ReenrichCommitted
    <2>2. /\ rows'[d] # NoCase /\ rows[d] # NoCase /\ rows'[d].timed = rows[d].timed
          /\ \A c \in CaseIds \ {d} : rows'[c] = rows[c]
      <3>1. [rows[d] EXCEPT !.score = x] \in Row
        BY <2>1 DEF Row
      <3>. QED
        BY <1>0, <2>1, <3>1, ReviewAssumption DEF Live, Typed, TypeOK, Row
    <2>. QED
      BY <1>0, <1>a, <2>1, <2>2
  <1>4. ASSUME NEW w \in Workers, CommitDelete(w)
        PROVE  Kept
    <2>. DEFINE d == Current(w)
    <2>1. d \in CaseIds
      BY <1>0, <1>4, CurrentTyped DEF CommitDelete
    <2>2. /\ rows' = [rows EXCEPT ![d] = NoCase] /\ events' = [events EXCEPT ![d] = <<>>]
          /\ UNCHANGED used
      BY <1>4 DEF CommitDelete
    <2>. HIDE DEF d
    <2>3. /\ rows'[d] = NoCase /\ events'[d] = <<>>
          /\ \A c \in CaseIds \ {d} : rows'[c] = rows[c] /\ events'[c] = events[c]
      BY <1>0, <2>1, <2>2 DEF Typed, TypeOK
    <2>. QED
      BY <1>0, <1>a, <2>1, <2>2, <2>3
  <1>5. ASSUME UNCHANGED <<rows, events>>, UNCHANGED used
        PROVE  Kept
    BY <1>0, <1>5, <1>a
  <1>. QED
    BY <1>0, <1>1, <1>2, <1>3, <1>4, <1>5, Effects DEF InsertSignals, CommitNote, dbVars

LEMMA ReviewInvStep ==
    ASSUME ReviewInv, Next
    PROVE  ReviewInv'
  <1>1. Typed /\ Typed'
    BY TypedNext DEF ReviewInv
  <1>2. PICK w \in Workers :
              /\ \A v \in Workers \ {w} : pc'[v] = pc[v] /\ task'[v] = task[v] /\ first'[v] = first[v]
              /\ ~(Planned(w)') \/ Load(w) \/ ReadPrior(w)
    BY <1>1, OneHandlerMoves
  <1>3. \A v \in Workers : Planned(v)' => Current(v)' \in used'
    <2>1. ASSUME NEW v \in Workers \ {w}, Planned(v)'
          PROVE  Current(v)' \in used'
      BY <1>2, <2>1, HistoriesKept DEF ReviewInv, Planned, Current
    <2>2. ASSUME Load(w)
          PROVE  Current(w)' \in used'
      BY <2>2, HistoriesKept DEF Load, ReviewInv, Current
    <2>3. ASSUME ReadPrior(w)
          PROVE  Current(w)' \in used'
      BY <2>3, HistoriesKept DEF ReadPrior, ReviewInv, Current, Planned
    <2>. QED
      BY <1>2, <2>1, <2>2, <2>3
  <1>4. \A v \in Workers : (pc[v] = "decide" /\ Current(v) \in Live)' =>
              first'[v] \/ events'[Current(v)'] # <<>>
    <2>1. ASSUME NEW v \in Workers \ {w}, (pc[v] = "decide" /\ Current(v) \in Live)'
          PROVE  first'[v] \/ events'[Current(v)'] # <<>>
      <3>1. Current(v)' = Current(v) /\ pc[v] = "decide" /\ first'[v] = first[v]
        BY <1>2, <2>1 DEF Current
      <3>2. Current(v) \in used /\ rows'[Current(v)] # NoCase /\ Current(v) \in CaseIds
        BY <2>1, <3>1 DEF ReviewInv, Planned, Live
      <3>3. Current(v) \in Live /\ (events[Current(v)] # <<>> => events'[Current(v)] # <<>>)
        BY <3>2, HistoriesKept DEF Live
      <3>. QED
        BY <3>1, <3>3 DEF ReviewInv
    <2>2. ASSUME Load(w)
          PROVE  pc'[w] # "decide"
      BY <1>1, <2>2 DEF Load, Goto, Typed, TypeOK
    <2>3. ASSUME ReadPrior(w)
          PROVE  first'[w] \/ events'[Current(w)'] # <<>>
      BY <1>1, <2>3 DEF ReadPrior, dbVars, Current, Typed, TypeOK
    <2>. QED
      BY <1>2, <2>1, <2>2, <2>3 DEF Planned
  <1>. QED
    BY <1>1, <1>3, <1>4, HistoriesKept DEF ReviewInv, Current, Live

LEMMA ReviewInvNext == ReviewInv /\ [Next]_vars => ReviewInv'
  <1>1. ASSUME ReviewInv, UNCHANGED vars
        PROVE  ReviewInv'
    BY <1>1, TypedNext DEF vars, ReviewInv, Planned, Current, Live, TimedIffDecided
  <1>. QED
    BY <1>1, ReviewInvStep

(* In whatever order analysts' first decisions and deletions overlap, a    *)
(* case has a time to first decision exactly when its history has a        *)
(* decision, and the history starts with one taken for the first.          *)
THEOREM TimedIffDecidedHolds == Spec => []TimedIffDecided
  <1>1. ReviewInv => TimedIffDecided
    BY DEF ReviewInv
  <1>. QED
    BY <1>1, ReviewInvInit, ReviewInvNext, PTL DEF Spec

-----------------------------------------------------------------------------
(* Re-enrichment and decisions.                                            *)

(* A re-enrichment that ends, however it ends and whatever was decided     *)
(* while it ran, leaves the columns of the decision and the history alone. *)
THEOREM ReenrichPreserves == Spec => ReenrichPreservesDecision
  <1>. DEFINE Preserved ==
         \A w \in Workers :
            pc[w] = "rescore" /\ pc'[w] # "rescore" /\ Current(w) \in Live =>
               LET c == Current(w)
               IN  /\ rows'[c] # NoCase
                   /\ [rows'[c] EXCEPT !.score = 0] = [rows[c] EXCEPT !.score = 0]
                   /\ events'[c] = events[c]
  <1>1. ASSUME Typed, [Next]_vars
        PROVE  [Preserved]_vars
    <2>. SUFFICES ASSUME Next, NEW w \in Workers, pc[w] = "rescore", pc'[w] # "rescore",
                         Current(w) \in Live
                  PROVE  LET c == Current(w)
                         IN  /\ rows'[c] # NoCase
                             /\ [rows'[c] EXCEPT !.score = 0] = [rows[c] EXCEPT !.score = 0]
                             /\ events'[c] = events[c]
      BY <1>1 DEF vars
    <2>1. UNCHANGED <<rows, events>> \/ \E s \in Scores : CommitReenrich(w, s)
      <3>1. ASSUME NEW v \in Workers, v # w, Begin(v) \/ Step(v)
                     \/ \E s \in Scores : CommitReenrich(v, s)
            PROVE  pc'[w] = pc[w]
        <4>1. ASSUME Finish(v) \/ Proceed(v, "load") \/ Proceed(v, "reload")
              PROVE  pc'[w] = pc[w]
          BY <1>1, <3>1, <4>1 DEF Finish, Proceed, Goto, Typed, TypeOK
        <4>2. ASSUME Begin(v)
              PROVE  pc'[w] = pc[w]
          BY <1>1, <3>1, <4>2 DEF Begin, InsertCase, BeginDecide, BeginNote, BeginReenrich,
                                  BeginDelete, Goto, Typed, TypeOK
        <4>3. ASSUME Step(v)
              PROVE  pc'[w] = pc[w]
          BY <1>1, <3>1, <4>1, <4>3
             DEF Step, ChildRefused, StaleRow, Fault, Fail, InsertSignals, Load, LoadMissing,
                 ReadPrior, CommitDecision, Echo, CommitNote, EnrichmentFails, CommitDelete,
                 CommitDeleteFails, Goto, Typed, TypeOK
        <4>4. ASSUME NEW s \in Scores, CommitReenrich(v, s)
              PROVE  pc'[w] = pc[w]
          BY <4>1, <4>4 DEF CommitReenrich
        <4>. QED
          BY <3>1, <4>2, <4>3, <4>4
      <3>2. Begin(w) => FALSE
        BY DEF Begin, InsertCase, BeginDecide, BeginNote, BeginReenrich, BeginDelete
      <3>3. Step(w) => UNCHANGED <<rows, events>>
        BY DEF Step, ChildRefused, StaleRow, Fault, Fail, InsertSignals, Load, LoadMissing,
               ReadPrior, CommitDecision, Echo, CommitNote, EnrichmentFails, CommitDelete,
               CommitDeleteFails, dbVars
      <3>. QED
        BY <3>1, <3>2, <3>3 DEF Next
    <2>2. CASE UNCHANGED <<rows, events>>
      BY <2>2 DEF Live
    <2>3. ASSUME NEW s \in Scores, CommitReenrich(w, s)
          PROVE  LET c == Current(w)
                 IN  /\ rows'[c] # NoCase
                     /\ [rows'[c] EXCEPT !.score = 0] = [rows[c] EXCEPT !.score = 0]
                     /\ events'[c] = events[c]
      <3>1. PICK d \in CaseIds, x \in Scores :
              /\ d = Current(w) /\ rows[d] \in Row
              /\ rows' = [rows EXCEPT ![d] = [rows[d] EXCEPT !.score = x]]
              /\ UNCHANGED events
        BY <1>1, <2>3, ReenrichCommitted
      <3>2. rows'[d] = [rows[d] EXCEPT !.score = x] /\ rows'[d] \in Row
        BY <1>1, <3>1 DEF Typed, TypeOK, Row
      <3>3. [rows'[d] EXCEPT !.score = 0] = [rows[d] EXCEPT !.score = 0]
        BY <3>1, <3>2 DEF Row
      <3>. QED
        BY <3>1, <3>2, <3>3, ReviewAssumption DEF Row
    <2>. QED
      BY <2>1, <2>2, <2>3
  <1>. QED
    BY <1>1, TypedAlways, PTL DEF Spec, ReenrichPreservesDecision

-----------------------------------------------------------------------------
(***************************************************************************)
(* Theorems about the review of cases by one handler at a time, for any    *)
(* cases, statuses, notes and scores, whatever fails: what two overlapping *)
(* handlers can break holds as soon as they take turns.                    *)
(***************************************************************************)

ShowsLast(c) ==
    events[c] # <<>> => /\ rows[c].status = events[c][Len(events[c])].status
                        /\ rows[c].remark = events[c][Len(events[c])].remark

Settled(c) == signals[c] \subseteq {rows[c].score} /\ ShowsLast(c)

(* What the handler loaded is still what the table holds.                  *)
Fresher(w) ==
    /\ pc[w] \in Holding => Current(w) \in Live /\ seen[w] = rows[Current(w)]
    /\ pc[w] = "children" => signals[Current(w)] = {}

Blank(c) == events[c] = <<>> /\ signals[c] = {}

SerialInv(w) ==
    /\ Typed
    /\ Live \subseteq used
    /\ \A c \in CaseIds \ used : Blank(c)
    /\ \A c \in Live : Settled(c)
    /\ Fresher(w)

LEMMA FinishReleases ==
    ASSUME Typed, NEW w \in Workers, Finish(w)
    PROVE  pc'[w] \notin Holding
  BY DEF Finish, Goto, Typed, TypeOK, Holding

LEMMA ProceedReleases ==
    ASSUME Typed, NEW w \in Workers, NEW step \in {"load", "reload"}, Proceed(w, step)
    PROVE  pc'[w] \notin Holding
  <1>1. CASE Finish(w)
    BY <1>1, FinishReleases
  <1>2. CASE Goto(w, step)
    BY <1>2 DEF Goto, Typed, TypeOK, Holding
  <1>. QED
    BY <1>1, <1>2 DEF Proceed

(* A handler that writes nothing and holds nothing afterwards.             *)
LEMMA ReleasingStep ==
    ASSUME NEW w \in Workers, SerialInv(w), Typed', UNCHANGED <<rows, events, signals, used>>,
           pc'[w] \notin Holding
    PROVE  SerialInv(w)'
  <1>1. Fresher(w)'
    BY DEF Fresher, Holding
  <1>. QED
    BY <1>1 DEF SerialInv, Live, Settled, ShowsLast, Blank

(* A step that writes the row and the children of one case.                *)
LEMMA WritingStep ==
    ASSUME NEW w \in Workers, SerialInv(w), Typed', NEW c \in CaseIds,
           used \subseteq used', c \in used',
           \A d \in CaseIds : d # c =>
               rows'[d] = rows[d] /\ events'[d] = events[d] /\ signals'[d] = signals[d],
           rows'[c] # NoCase => Settled(c)',
           Fresher(w)'
    PROVE  SerialInv(w)'
  <1>1. \A d \in Live' : d # c => d \in Live
    BY DEF Live
  <1>2. Live' \subseteq used'
    BY <1>1 DEF SerialInv, Live
  <1>3. ASSUME NEW d \in CaseIds \ used' PROVE Blank(d)'
    BY <1>3 DEF SerialInv, Blank
  <1>4. ASSUME NEW d \in Live' PROVE Settled(d)'
    <2>1. CASE d = c
      BY <1>4, <2>1 DEF Live
    <2>2. CASE d # c
      BY <1>1, <1>4, <2>2 DEF SerialInv, Settled, ShowsLast, Live
    <2>. QED
      BY <2>1, <2>2
  <1>. QED
    BY <1>2, <1>3, <1>4 DEF SerialInv

LEMMA SerialInit == ASSUME NEW w \in Workers PROVE Init => SerialInv(w)
  <1>. SUFFICES ASSUME Init PROVE SerialInv(w)
    OBVIOUS
  <1>1. PICK s \in Scores :
          /\ rows = [c \in CaseIds |-> IF c \in Existing THEN Fresh(s) ELSE NoCase]
          /\ signals = [c \in CaseIds |-> IF c \in Existing THEN {s} ELSE {}]
    BY DEF Init
  <1>2. \A c \in Live : c \in Existing /\ rows[c] = Fresh(s) /\ signals[c] = {s}
    BY <1>1 DEF Live
  <1>3. \A c \in CaseIds : events[c] = <<>>
    BY DEF Init
  <1>4. \A c \in Live : Settled(c)
    BY <1>2, <1>3 DEF Settled, ShowsLast, Fresh, Live
  <1>5. \A c \in CaseIds \ used : Blank(c)
    BY <1>1, <1>3 DEF Blank, Init
  <1>6. Fresher(w)
    BY DEF Init, Fresher, Holding
  <1>. QED
    BY <1>2, <1>4, <1>5, <1>6, TypedInit DEF SerialInv, Init

LEMMA SerialInsertCase ==
    ASSUME NEW w \in Workers, SerialInv(w), Typed', NEW c \in CaseIds, NEW s \in Scores,
           InsertCase(w, c, s)
    PROVE  SerialInv(w)'
  <1>1. c \notin used /\ used' = used \cup {c} /\ rows' = [rows EXCEPT ![c] = Fresh(s)]
    BY DEF InsertCase
  <1>2. rows'[c] = Fresh(s) /\ events' = events /\ signals' = signals
    BY <1>1 DEF InsertCase, SerialInv, Typed, TypeOK
  <1>3. \A d \in CaseIds : d # c => rows'[d] = rows[d]
    BY <1>1 DEF SerialInv, Typed, TypeOK
  <1>4. events[c] = <<>> /\ signals[c] = {}
    BY <1>1 DEF SerialInv, Blank
  <1>5. Settled(c)'
    BY <1>2, <1>4 DEF Settled, ShowsLast
  <1>6. Fresher(w)'
    <2>1. task'[w].queue = <<c>> /\ seen'[w] = Fresh(s)
      BY DEF InsertCase, SerialInv, Typed, TypeOK, Task
    <2>2. Current(w)' = c
      BY <2>1 DEF Current
    <2>3. c \in Live'
      BY <1>2, FreshTyped DEF Live
    <2>. QED
      BY <1>2, <1>4, <2>1, <2>2, <2>3 DEF Fresher
  <1>. QED
    BY <1>1, <1>2, <1>3, <1>5, <1>6, WritingStep

LEMMA SerialBegin ==
    ASSUME NEW w \in Workers, SerialInv(w), Typed', Begin(w)
    PROVE  SerialInv(w)'
  <1>1. CASE \E c \in CaseIds, s \in Scores : InsertCase(w, c, s)
    BY <1>1, SerialInsertCase
  <1>2. CASE \/ \E q \in Queues, s \in Statuses, r \in Remarks : BeginDecide(w, q, s, r)
             \/ \E c \in CaseIds : BeginNote(w, c)
             \/ \E q \in Queues : BeginReenrich(w, q)
             \/ \E c \in CaseIds : BeginDelete(w, c)
    <2>1. pc'[w] \in {"load", "note", "reload", "delete"} /\ UNCHANGED dbVars
      BY <1>2 DEF BeginDecide, BeginNote, BeginReenrich, BeginDelete, Goto, SerialInv, Typed, TypeOK
    <2>. QED
      BY <2>1, ReleasingStep DEF dbVars, Holding
  <1>. QED
    BY <1>1, <1>2 DEF Begin

(* A decision taken on a row nobody touched since shows as it was asked.   *)
LEMMA SerialDecision ==
    ASSUME NEW w \in Workers, SerialInv(w), Typed', CommitDecision(w)
    PROVE  SerialInv(w)'
  <1>0. PICK c \in CaseIds : c = Current(w)
    BY CurrentTyped DEF CommitDecision, SerialInv
  <1>. DEFINE row == [status |-> Written(task[w].status, seen[w].status, rows[c].status),
                      remark |-> Written(task[w].remark, seen[w].remark, rows[c].remark),
                      timed  |-> rows[c].timed \/ first[w],
                      score  |-> rows[c].score]
              e == [status |-> task[w].status, remark |-> task[w].remark, first |-> first[w]]
  <1>1. c \in Live /\ seen[w] = rows[c] /\ Typed
    BY <1>0 DEF CommitDecision, SerialInv, Fresher, Holding
  <1>2. row.status = e.status /\ row.remark = e.remark /\ row.score = rows[c].score
    BY <1>1 DEF Written
  <1>3. /\ rows' = [rows EXCEPT ![c] = row]
        /\ events' = [events EXCEPT ![c] = Append(events[c], e)]
        /\ signals' = signals /\ used' = used /\ pc' = [pc EXCEPT ![w] = "echo"]
    BY <1>0 DEF CommitDecision, Goto
  <1>4. e \in Event /\ events[c] \in Seq(Event)
    BY <1>1 DEF Event, Typed, TypeOK, Task
  <1>. HIDE DEF row, e
  <1>5. rows'[c] = row /\ events'[c] = Append(events[c], e) /\ signals'[c] \subseteq {row.score}
    BY <1>1, <1>2, <1>3 DEF SerialInv, Settled, Typed, TypeOK
  <1>6. Len(events'[c]) = Len(events[c]) + 1 /\ events'[c][Len(events[c]) + 1] = e
    BY <1>4, <1>5
  <1>7. Settled(c)'
    BY <1>2, <1>5, <1>6 DEF Settled, ShowsLast
  <1>8. Fresher(w)'
    BY <1>1, <1>3 DEF Fresher, Holding, Typed, TypeOK
  <1>9. \A d \in CaseIds : d # c =>
            rows'[d] = rows[d] /\ events'[d] = events[d] /\ signals'[d] = signals[d]
    BY <1>1, <1>3 DEF Typed, TypeOK
  <1>10. c \in used'
    BY <1>1, <1>3 DEF SerialInv
  <1>. QED
    BY <1>1, <1>3, <1>7, <1>8, <1>9, <1>10, WritingStep

(* A re-enrichment stores the score whose signals it stores.               *)
LEMMA SerialReenrich ==
    ASSUME NEW w \in Workers, SerialInv(w), Typed', NEW s \in Scores, CommitReenrich(w, s)
    PROVE  SerialInv(w)'
  <1>0. PICK c \in CaseIds : c = Current(w)
    BY CurrentTyped DEF CommitReenrich, SerialInv
  <1>. DEFINE x == Written(s, seen[w].score, rows[c].score)
  <1>1. c \in Live /\ seen[w] = rows[c] /\ rows[c] \in Row /\ Typed
    BY <1>0 DEF CommitReenrich, SerialInv, Fresher, Holding, Live, Typed, TypeOK
  <1>2. x = s
    BY <1>1 DEF Written
  <1>3. /\ rows' = [rows EXCEPT ![c] = [rows[c] EXCEPT !.score = x]]
        /\ signals' = [signals EXCEPT ![c] = {s}]
        /\ events' = events /\ used' = used /\ Proceed(w, "reload")
    BY <1>0 DEF CommitReenrich
  <1>. HIDE DEF x
  <1>4. rows'[c] = [rows[c] EXCEPT !.score = s] /\ signals'[c] = {s} /\ events'[c] = events[c]
    BY <1>1, <1>2, <1>3 DEF Typed, TypeOK
  <1>5. /\ rows'[c].score = s /\ rows'[c].status = rows[c].status
        /\ rows'[c].remark = rows[c].remark
    BY <1>1, <1>4 DEF Row
  <1>6. Settled(c)'
    BY <1>1, <1>4, <1>5 DEF SerialInv, Settled, ShowsLast
  <1>7. Fresher(w)'
    BY <1>1, <1>3, ProceedReleases DEF Fresher, Holding
  <1>8. \A d \in CaseIds : d # c =>
            rows'[d] = rows[d] /\ events'[d] = events[d] /\ signals'[d] = signals[d]
    BY <1>1, <1>3 DEF Typed, TypeOK
  <1>9. c \in used'
    BY <1>1, <1>3 DEF SerialInv
  <1>. QED
    BY <1>1, <1>3, <1>6, <1>7, <1>8, <1>9, WritingStep

LEMMA SerialStep ==
    ASSUME NEW w \in Workers, SerialInv(w), Typed', Step(w)
    PROVE  SerialInv(w)'
  <1>0. Typed
    BY DEF SerialInv
  <1>1. CASE ChildRefused(w) \/ StaleRow(w) \/ Fault(w) \/ CommitDeleteFails(w)
    <2>1. Finish(w) /\ UNCHANGED dbVars
      BY <1>1 DEF ChildRefused, StaleRow, Fault, CommitDeleteFails, Fail
    <2>. QED
      BY <1>0, <2>1, FinishReleases, ReleasingStep DEF dbVars
  <1>2. CASE LoadMissing(w) \/ Echo(w) \/ EnrichmentFails(w) \/ CommitNote(w)
    <2>1. /\ Finish(w) \/ \E step \in {"load", "reload"} : Proceed(w, step)
          /\ UNCHANGED <<rows, events, signals, used>>
      BY <1>2 DEF LoadMissing, Echo, EnrichmentFails, CommitNote, dbVars
    <2>. QED
      BY <1>0, <2>1, FinishReleases, ProceedReleases, ReleasingStep
  <1>3. CASE InsertSignals(w)
    <2>0. PICK c \in CaseIds : c = Current(w)
      BY <1>0, <1>3, CurrentTyped DEF InsertSignals
    <2>1. c \in Live /\ seen[w] = rows[c] /\ signals[c] = {}
      BY <1>3, <2>0 DEF InsertSignals, SerialInv, Fresher, Holding
    <2>2. /\ Finish(w)
          /\ signals' = [signals EXCEPT ![c] = signals[c] \cup {seen[w].score}]
          /\ UNCHANGED <<rows, events, used>>
      BY <1>3, <2>0 DEF InsertSignals
    <2>3. signals'[c] = {rows'[c].score}
      BY <1>0, <2>1, <2>2 DEF Typed, TypeOK
    <2>4. Settled(c)'
      BY <2>1, <2>2, <2>3 DEF SerialInv, Settled, ShowsLast
    <2>5. Fresher(w)'
      BY <1>0, <2>2, FinishReleases DEF Fresher, Holding
    <2>6. \A d \in CaseIds : d # c =>
              rows'[d] = rows[d] /\ events'[d] = events[d] /\ signals'[d] = signals[d]
      BY <1>0, <2>1, <2>2 DEF Typed, TypeOK
    <2>7. c \in used'
      BY <2>1, <2>2 DEF SerialInv
    <2>. QED
      BY <2>1, <2>2, <2>4, <2>5, <2>6, <2>7, WritingStep
  <1>4. CASE Load(w)
    <2>. DEFINE c == Current(w)
    <2>1. c \in Live /\ seen'[w] = rows[c] /\ Current(w)' = c /\ pc'[w] # "children"
      BY <1>0, <1>4 DEF Load, Goto, Current, Typed, TypeOK
    <2>2. UNCHANGED <<rows, events, signals, used>>
      BY <1>4 DEF Load, dbVars
    <2>3. Fresher(w)'
      BY <2>1, <2>2 DEF Fresher, Live
    <2>. QED
      BY <2>2, <2>3 DEF SerialInv, Live, Settled, ShowsLast, Blank
  <1>5. CASE ReadPrior(w)
    <2>1. /\ pc[w] \in Holding /\ pc'[w] # "children"
          /\ UNCHANGED <<rows, events, signals, used, seen, task>>
      BY <1>0, <1>5 DEF ReadPrior, Goto, dbVars, Holding, Typed, TypeOK
    <2>2. Fresher(w)'
      BY <2>1 DEF SerialInv, Fresher, Live, Current
    <2>. QED
      BY <2>1, <2>2 DEF SerialInv, Live, Settled, ShowsLast, Blank
  <1>6. CASE CommitDecision(w)
    BY <1>6, SerialDecision
  <1>7. CASE CommitDelete(w)
    <2>1. PICK c \in CaseIds : c = Current(w)
      BY <1>0, <1>7, CurrentTyped DEF CommitDelete
    <2>2. /\ Finish(w)
          /\ rows' = [rows EXCEPT ![c] = NoCase]
          /\ events' = [events EXCEPT ![c] = <<>>]
          /\ signals' = [signals EXCEPT ![c] = {}]
          /\ UNCHANGED used
      BY <1>7, <2>1 DEF CommitDelete
    <2>3. \A d \in CaseIds :
            /\ d # c => rows'[d] = rows[d] /\ events'[d] = events[d] /\ signals'[d] = signals[d]
            /\ d = c => rows'[d] = NoCase /\ events'[d] = <<>> /\ signals'[d] = {}
      BY <1>0, <2>1, <2>2 DEF Typed, TypeOK
    <2>4. Fresher(w)'
      BY <1>0, <2>2, FinishReleases DEF Fresher, Holding
    <2>. QED
      BY <2>2, <2>3, <2>4 DEF SerialInv, Live, Settled, ShowsLast, Blank
  <1>. QED
    BY <1>1, <1>2, <1>3, <1>4, <1>5, <1>6, <1>7 DEF Step

LEMMA SerialAlways ==
    ASSUME NEW w, Workers = {w}
    PROVE  Spec => []SerialInv(w)
  <1>1. Init => SerialInv(w)
    BY SerialInit
  <1>2. SerialInv(w) /\ [Next]_vars => SerialInv(w)'
    <2>. SUFFICES ASSUME SerialInv(w), [Next]_vars PROVE SerialInv(w)'
      OBVIOUS
    <2>1. Typed'
      BY TypedNext DEF SerialInv
    <2>2. CASE Next
      BY <2>1, <2>2, SerialBegin, SerialStep, SerialReenrich DEF Next
    <2>3. CASE UNCHANGED vars
      <3>1. Fresher(w)'
        BY <2>3 DEF vars, SerialInv, Fresher, Live, Current
      <3>. QED
        BY <2>1, <2>3, <3>1 DEF vars, SerialInv, Live, Settled, ShowsLast, Blank
    <2>. QED
      BY <2>2, <2>3
  <1>. QED
    BY <1>1, <1>2, PTL DEF Spec

-----------------------------------------------------------------------------

(* With one handler at a time, the signals of a case are those of one run  *)
(* of enrichment: the last to have ended replaced what was there.          *)
THEOREM SignalsOfOneRunHolds ==
    ASSUME NEW w, Workers = {w}
    PROVE  Spec => []SignalsOfOneRun
  <1>1. ASSUME NEW S, NEW x, S \subseteq {x} PROVE Cardinality(S) <= 1
    <2>1. S = {} \/ S = {x}
      BY <1>1
    <2>2. Cardinality({}) = 0 /\ Cardinality({x}) = 1
      BY FS_EmptySet, FS_Singleton
    <2>. QED
      BY <2>1, <2>2
  <1>2. SerialInv(w) => SignalsOfOneRun
    BY <1>1 DEF SerialInv, Settled, SignalsOfOneRun
  <1>. QED
    BY <1>2, SerialAlways, PTL

(* With one handler at a time, the score of a case is that of the run      *)
(* whose signals it has.                                                   *)
THEOREM ScoreMatchesSignalsHolds ==
    ASSUME NEW w, Workers = {w}
    PROVE  Spec => []ScoreMatchesSignals
  <1>1. SerialInv(w) => ScoreMatchesSignals
    BY DEF SerialInv, Settled, ScoreMatchesSignals
  <1>. QED
    BY <1>1, SerialAlways, PTL

(* With one handler at a time, a case shows the status and the notes of    *)
(* the last decision of its history.                                       *)
THEOREM ShowsLastDecisionHolds ==
    ASSUME NEW w, Workers = {w}
    PROVE  Spec => []ShowsLastDecision
  <1>1. SerialInv(w) => ShowsLastDecision
    BY DEF SerialInv, Settled, ShowsLast, ShowsLastDecision
  <1>. QED
    BY <1>1, SerialAlways, PTL
=============================================================================
