-------------------------------- MODULE Jobs --------------------------------
(***************************************************************************)
(* Background jobs (services/job_manager.py): uploads of many rows run in  *)
(* a pool of threads while clients poll for their result.                  *)
(*                                                                         *)
(* A record is shared without a lock between the worker, which assigns its *)
(* fields one after the other, and the clients' requests, which read them  *)
(* one after the other.  The table and the records live in memory.         *)
(* Uploads are accepted on the event loop, one at a time.                  *)
(***************************************************************************)
EXTENDS Integers, Sequences, Functions, SequencesExt

CONSTANTS
    Jobs,      \* job identities
    Workers,   \* threads of the executor
    Pollers,   \* requests that ask for a job
    MaxJobs    \* records kept by submit

ASSUME JobsAssumption == MaxJobs \in Nat \ {0}

VARIABLES
    record,  \* the record of each job that was ever submitted
    table,   \* _jobs, in the order of created_at
    queue,   \* the executor's queue
    worker,  \* the job of a worker and the assignments it has left
    poll,    \* a client's request and what it has read
    up       \* whether the process still is the one it was: it may end once

jobVars == <<record, table, queue, worker, poll, up>>

NoWork == [job |-> "none"]
NoPoll == [at |-> "idle"]

New == [status |-> "pending", progress |-> 0, result |-> FALSE, error |-> FALSE, ended |-> FALSE]

(* A mutant: the status is set before the result.                          *)
FinishingEarly == <<"completed", "result", "progress", "ended">>

(* What _wrapper assigns after the function returned.                      *)
Finishing == <<"result", "completed", "progress", "ended">>

(* A mutant: what a failure leaves behind is not marked as ended.          *)
FailingOpen == <<"failed", "error">>

(* And after it raised.                                                    *)
Failing == <<"failed", "error", "ended">>

Assigned(r, field) ==
    CASE field \in {"completed", "failed"} -> [r EXCEPT !.status = field]
      [] field = "progress" -> [r EXCEPT !.progress = 100]
      [] field = "result" -> [r EXCEPT !.result = TRUE]
      [] field = "error" -> [r EXCEPT !.error = TRUE]
      [] field = "ended" -> [r EXCEPT !.ended = TRUE]

(* The newest records, whatever has become of the others.                  *)
Newest(s) == IF Len(s) > MaxJobs THEN SubSeq(s, Len(s) - MaxJobs + 1, Len(s)) ELSE s

JobInit ==
    /\ record = <<>> /\ table = <<>> /\ queue = <<>> /\ up = TRUE
    /\ worker = [w \in Workers |-> NoWork]
    /\ poll = [c \in Pollers |-> NoPoll]

Submit(j) ==
    /\ j \notin DOMAIN record
    /\ record' = [i \in DOMAIN record \cup {j} |-> IF i = j THEN New ELSE record[i]]
    /\ table' = Newest(Append(table, j))
    /\ queue' = Append(queue, j)
    /\ UNCHANGED <<worker, poll, up>>

Take(w) ==
    /\ worker[w] = NoWork /\ queue # <<>>
    /\ worker' = [worker EXCEPT ![w] = [job |-> Head(queue), todo |-> <<"run">>]]
    /\ record' = [record EXCEPT ![Head(queue)].status = "running"]
    /\ queue' = Tail(queue)
    /\ UNCHANGED <<table, poll, up>>

(* The upload itself sets the progress at its end.                         *)
Succeed(w) ==
    /\ worker[w] # NoWork /\ worker[w].todo = <<"run">>
    /\ worker' = [worker EXCEPT ![w].todo = Finishing]
    /\ record' = [record EXCEPT ![worker[w].job].progress = 100]
    /\ UNCHANGED <<table, queue, poll, up>>

Fail(w) ==
    /\ worker[w] # NoWork /\ worker[w].todo = <<"run">>
    /\ worker' = [worker EXCEPT ![w].todo = Failing]
    /\ UNCHANGED <<record, table, queue, poll, up>>

Assign(w) ==
    /\ worker[w] # NoWork /\ worker[w].todo \notin {<<>>, <<"run">>}
    /\ record' = [record EXCEPT ![worker[w].job] = Assigned(@, Head(worker[w].todo))]
    /\ worker' = [worker EXCEPT ![w].todo = Tail(@)]
    /\ UNCHANGED <<table, queue, poll, up>>

Leave(w) ==
    /\ worker[w] # NoWork /\ worker[w].todo = <<>>
    /\ worker' = [worker EXCEPT ![w] = NoWork]
    /\ UNCHANGED <<record, table, queue, poll, up>>

(* api_get_job finds the record and reads its status ...                   *)
Ask(c) ==
    \E j \in DOMAIN record :
        /\ poll[c].at = "idle"
        /\ poll' = [poll EXCEPT ![c] = IF j \in Range(table)
                                       THEN [at |-> "status", job |-> j, status |-> record[j].status]
                                       ELSE [at |-> "unknown"]]
        /\ UNCHANGED <<record, table, queue, worker, up>>

(* ... reads it again to decide on the result ...                          *)
ReadResult(c) ==
    LET r == record[poll[c].job] IN
    /\ poll[c].at = "status"
    /\ poll' = [poll EXCEPT ![c] = [at |-> "result", job |-> poll[c].job, status |-> poll[c].status,
                                    result |-> r.status = "completed" /\ r.result]]
    /\ UNCHANGED <<record, table, queue, worker, up>>

(* ... and the error and the time at last.                                 *)
ReadError(c) ==
    LET r == record[poll[c].job] IN
    /\ poll[c].at = "result"
    /\ poll' = [poll EXCEPT ![c] = [at |-> "answered", status |-> poll[c].status,
                                    result |-> poll[c].result, error |-> r.error]]
    /\ UNCHANGED <<record, table, queue, worker, up>>

Answered(c) ==
    /\ poll[c].at \in {"answered", "unknown"}
    /\ poll' = [poll EXCEPT ![c] = NoPoll]
    /\ UNCHANGED <<record, table, queue, worker, up>>

(* A restart forgets jobs and records.                                     *)
JobsRestart ==
    /\ up /\ up' = FALSE
    /\ record' = [j \in DOMAIN record |-> [record[j] EXCEPT !.status = "lost"]]
    /\ table' = <<>> /\ queue' = <<>>
    /\ worker' = [w \in Workers |-> NoWork]
    /\ poll' = [c \in Pollers |-> NoPoll]

Work(w) == Take(w) \/ Succeed(w) \/ Fail(w) \/ Assign(w) \/ Leave(w)

JobNext ==
    \/ \E j \in Jobs : Submit(j)
    \/ \E w \in Workers : Work(w)
    \/ \E c \in Pollers : Ask(c) \/ ReadResult(c) \/ ReadError(c) \/ Answered(c)
    \/ JobsRestart

(* jobs.py: no client is told that its job is completed without being      *)
(* given the job's result, although the record changes while it is read.   *)
CompletedHasResult ==
    \A c \in Pollers : poll[c].at = "answered" /\ poll[c].status = "completed" => poll[c].result

(* Every job that was accepted ends, marked as completed or failed at a    *)
(* known time, unless a restart loses it; that its record may have been    *)
(* pruned long before does not stop it.                                    *)
JobsEnd ==
    \A j \in Jobs :
        j \in DOMAIN record
          ~> (j \in DOMAIN record /\ (\/ record[j].status = "lost"
                                      \/ record[j].ended /\ record[j].status \in {"completed", "failed"}))
=============================================================================
