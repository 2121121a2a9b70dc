---------------------------- MODULE CaseIntake ----------------------------
(***************************************************************************)
(* Alert intake: the request handlers that turn an alert into a case row   *)
(* (create_case, create_grouped_case) and the ones that delete cases with  *)
(* their child rows (single and bulk delete).                              *)
(*                                                                         *)
(* The endpoints are synchronous functions run by a thread pool, each with *)
(* a database session of its own, so handlers interleave between database  *)
(* statements.  One action is one statement or one commit.  create_case    *)
(* commits the case row first and its source rows in a second transaction; *)
(* the duplicate check reads the source rows.                              *)
(*                                                                         *)
(* Abstractions.  An alert is what the duplicate checks look at: tenant,   *)
(* source identity (sourceSystem, sourceAlertId), signature (alert type    *)
(* and user) and event time.  Enrichment is a pure computation that        *)
(* precedes the first statement and is modelled in module Scoring.         *)
(***************************************************************************)
EXTENDS Integers, FiniteSets

CONSTANTS
    Workers,      \* threads of the server's pool that may hold a request
    CaseIds,      \* identifiers uuid4 can draw
    Tenants,      \* tenant identifiers API keys resolve to
    Keys,         \* source identities (sourceSystem, sourceAlertId)
    NoKey,        \* an alert whose source system or alert id is empty
    Sigs,         \* (alert type, user) pairs
    NoSig,        \* the user is unknown
    Times,        \* event times
    Window,       \* window_minutes of _find_existing_case, in units of Times
    Alerts,       \* the alerts clients submit
    ForeignKeys,  \* TRUE: the database enforces foreign keys (PostgreSQL);
                  \* FALSE: it does not (SQLite as engine configures it)
    NoCase,       \* no case: an absent row, or an answer that is an error
    NoAlert       \* a worker without a request

Alert == [tenant: Tenants, key: Keys \cup {NoKey}, more: SUBSET Keys,
          sig: Sigs \cup {NoSig}, at: Times, grouped: BOOLEAN]

ASSUME IntakeAssumption ==
    /\ Alerts \subseteq Alert
    /\ Times \subseteq Int
    /\ Window \in Nat
    /\ ForeignKeys \in BOOLEAN
    /\ NoKey \notin Keys
    /\ NoSig \notin Sigs
    /\ NoCase \notin CaseIds
    /\ NoAlert \notin Alert
    /\ NoCase \notin [tenant: Tenants, sig: Sigs \cup {NoSig}, at: Times]

VARIABLES
    tenants,   \* number of rows of the tenants table with each tenant_id
    rows,      \* rows of the cases table
    sources,   \* rows of the case_sources table
    used,      \* identifiers drawn so far
    pc,        \* where each worker is in its handler
    req,       \* the alert a worker handles
    mine,      \* the case a worker found or inserted
    doomed,    \* the cases a worker deletes, and the children it saw
    got,       \* the case a worker answered its last request with
    stored,    \* history: the cases that held the alert when it arrived
    torn       \* history: cases whose handler died between its two commits

dbVars  == <<tenants, rows, sources, used>>
vars == <<tenants, rows, sources, used, pc, req, mine, doomed, got, stored, torn>>

CaseRow   == [tenant: Tenants, sig: Sigs \cup {NoSig}, at: Times]
SourceRow == [case: CaseIds, key: Keys \cup {NoKey}]
Doom      == [cases: SUBSET CaseIds, children: SUBSET SourceRow]
NoDoom    == [cases |-> {}, children |-> {}]
Steps     == {"idle", "tenant", "newTenant", "source", "sourceHit", "window",
              "windowHit", "insert", "children", "reply", "delete"}

(* Types; tenant_id is unique, so no tenant ever has two rows.             *)
TypeOK ==
    /\ tenants \in [Tenants -> 0..1]
    /\ rows \in [CaseIds -> CaseRow \cup {NoCase}]
    /\ sources \subseteq SourceRow
    /\ used \subseteq CaseIds
    /\ pc \in [Workers -> Steps]
    /\ req \in [Workers -> Alerts \cup {NoAlert}]
    /\ mine \in [Workers -> CaseIds \cup {NoCase}]
    /\ doomed \in [Workers -> Doom]
    /\ got \in [Workers -> CaseIds \cup {NoCase}]
    /\ stored \in [Workers -> SUBSET CaseIds]
    /\ torn \subseteq CaseIds

Live == {c \in CaseIds : rows[c] # NoCase}

SourcesOf(S) == {s \in sources : s.case \in S}

(* Mutant: the alert that opens a group is left out of its sources.        *)
SourceKeysOfRest(a) == a.more

(* The source rows of an alert: one per alert it groups.                   *)
SourceKeys(a) == {a.key} \cup a.more

(* Mutant: the join with the tenant is forgotten.                          *)
ExistingBySourceOfAnyTenant(tenant, key) ==
    IF key = NoKey THEN {}
    ELSE {c \in Live : [case |-> c, key |-> key] \in sources}

(* _find_existing_case_by_source: the live cases of the tenant that carry  *)
(* this source identity.  An empty identity never matches.                 *)
ExistingBySource(tenant, key) ==
    IF key = NoKey THEN {}
    ELSE {c \in Live : /\ rows[c].tenant = tenant
                       /\ [case |-> c, key |-> key] \in sources}

(* Mutant: the users are not compared.                                     *)
ExistingInWindowOfAnyUser(a) ==
    {c \in Live : /\ rows[c].tenant = a.tenant
                  /\ a.at - Window <= rows[c].at
                  /\ rows[c].at <= a.at + Window}

(* _find_existing_case: same tenant, alert type and user, event time at    *)
(* most Window away.  An unknown user never matches.                       *)
ExistingInWindow(a) ==
    {c \in Live : /\ a.sig # NoSig
                  /\ rows[c].tenant = a.tenant
                  /\ rows[c].sig = a.sig
                  /\ a.at - Window <= rows[c].at
                  /\ rows[c].at <= a.at + Window}

Init ==
    /\ tenants = [t \in Tenants |-> 0]
    /\ rows = [c \in CaseIds |-> NoCase]
    /\ sources = {}
    /\ used = {}
    /\ pc = [w \in Workers |-> "idle"]
    /\ req = [w \in Workers |-> NoAlert]
    /\ mine = [w \in Workers |-> NoCase]
    /\ doomed = [w \in Workers |-> NoDoom]
    /\ got = [w \in Workers |-> NoCase]
    /\ stored = [w \in Workers |-> {}]
    /\ torn = {}

Goto(w, step) == pc' = [pc EXCEPT ![w] = step]

(* The handler of w returns; c is the case it answers with, NoCase an      *)
(* error status.  The session is closed and the thread is free again.      *)
Release(w, c) ==
    /\ Goto(w, "idle")
    /\ got' = [got EXCEPT ![w] = c]
    /\ req' = [req EXCEPT ![w] = NoAlert]
    /\ mine' = [mine EXCEPT ![w] = NoCase]
    /\ doomed' = [doomed EXCEPT ![w] = NoDoom]
    /\ stored' = [stored EXCEPT ![w] = {}]

Return(w, c) == Release(w, c) /\ UNCHANGED torn

-----------------------------------------------------------------------------
(* Creation.                                                               *)

(* A request arrives; the alert is normalised and enriched.                *)
Receive(w, a) ==
    /\ pc[w] = "idle"
    /\ Goto(w, "tenant")
    /\ req' = [req EXCEPT ![w] = a]
    /\ stored' = [stored EXCEPT ![w] = ExistingBySource(a.tenant, a.key)]
    /\ UNCHANGED <<dbVars, mine, doomed, got, torn>>

(* SELECT from tenants.                                                    *)
FindTenant(w) ==
    /\ pc[w] = "tenant"
    /\ Goto(w, IF tenants[req[w].tenant] > 0 THEN "source" ELSE "newTenant")
    /\ UNCHANGED <<dbVars, req, mine, doomed, got, stored, torn>>

(* Mutant: the index on tenant_id is not unique.                           *)
InsertTenantTwice(w) ==
    /\ pc[w] = "newTenant"
    /\ tenants' = [tenants EXCEPT ![req[w].tenant] = @ + 1]
    /\ Goto(w, "source")
    /\ UNCHANGED <<rows, sources, used, req, mine, doomed, got, stored, torn>>

(* INSERT INTO tenants and commit.                                         *)
InsertTenant(w) ==
    /\ pc[w] = "newTenant"
    /\ tenants[req[w].tenant] = 0
    /\ tenants' = [tenants EXCEPT ![req[w].tenant] = @ + 1]
    /\ Goto(w, "source")
    /\ UNCHANGED <<rows, sources, used, req, mine, doomed, got, stored, torn>>

(* Another handler inserted the row since the SELECT: the unique index on  *)
(* tenant_id refuses the insert and the request ends with an error.        *)
InsertTenantFails(w) ==
    /\ pc[w] = "newTenant"
    /\ tenants[req[w].tenant] > 0
    /\ Return(w, NoCase)
    /\ UNCHANGED dbVars

(* SELECT from case_sources: some case has the source identity.            *)
FindBySource(w) ==
    /\ pc[w] = "source"
    /\ \E c \in ExistingBySource(req[w].tenant, req[w].key) : mine' = [mine EXCEPT ![w] = c]
    /\ Goto(w, "sourceHit")
    /\ UNCHANGED <<dbVars, req, doomed, got, stored, torn>>

AfterSource(a) == IF a.grouped THEN "window" ELSE "insert"

(* Mutant: the handler inserts without looking at what the check found.    *)
NoneBySourceUnchecked(w) ==
    /\ pc[w] = "source"
    /\ Goto(w, AfterSource(req[w]))
    /\ UNCHANGED <<dbVars, req, mine, doomed, got, stored, torn>>

NoneBySource(w) ==
    /\ pc[w] = "source"
    /\ ExistingBySource(req[w].tenant, req[w].key) = {}
    /\ Goto(w, AfterSource(req[w]))
    /\ UNCHANGED <<dbVars, req, mine, doomed, got, stored, torn>>

(* A grouped case also looks for a case of the same user and type.         *)
FindInWindow(w) ==
    /\ pc[w] = "window"
    /\ \E c \in ExistingInWindow(req[w]) : mine' = [mine EXCEPT ![w] = c]
    /\ Goto(w, "windowHit")
    /\ UNCHANGED <<dbVars, req, doomed, got, stored, torn>>

NoneInWindow(w) ==
    /\ pc[w] = "window"
    /\ ExistingInWindow(req[w]) = {}
    /\ Goto(w, "insert")
    /\ UNCHANGED <<dbVars, req, mine, doomed, got, stored, torn>>

(* get_case reads the case that was found and the handler answers with it. *)
AnswerExisting(w) ==
    /\ pc[w] \in {"sourceHit", "windowHit"}
    /\ mine[w] \in Live
    /\ Return(w, mine[w])
    /\ UNCHANGED dbVars

(* It has been deleted meanwhile: the handler goes on as if none had been  *)
(* found, without looking for another one.                                 *)
LoseExisting(w) ==
    /\ pc[w] \in {"sourceHit", "windowHit"}
    /\ mine[w] \notin Live
    /\ Goto(w, IF pc[w] = "sourceHit" THEN AfterSource(req[w]) ELSE "insert")
    /\ UNCHANGED <<dbVars, req, mine, doomed, got, stored, torn>>

(* INSERT INTO cases and commit: the row is visible without its sources.   *)
InsertCase(w) ==
    /\ pc[w] = "insert"
    /\ \E c \in CaseIds \ used :
          /\ rows' = [rows EXCEPT ![c] = [tenant |-> req[w].tenant,
                                          sig |-> req[w].sig,
                                          at |-> req[w].at]]
          /\ used' = used \cup {c}
          /\ mine' = [mine EXCEPT ![w] = c]
    /\ Goto(w, "children")
    /\ UNCHANGED <<tenants, sources, req, doomed, got, stored, torn>>

(* INSERT INTO case_sources and commit.  Without foreign keys the insert   *)
(* succeeds even when the case has been deleted in between.                *)
InsertChildren(w) ==
    /\ pc[w] = "children"
    /\ mine[w] \in Live \/ ~ForeignKeys
    /\ sources' = sources \cup {[case |-> mine[w], key |-> k] : k \in SourceKeys(req[w])}
    /\ Goto(w, "reply")
    /\ UNCHANGED <<tenants, rows, used, req, mine, doomed, got, stored, torn>>

InsertChildrenFails(w) ==
    /\ pc[w] = "children"
    /\ mine[w] \notin Live
    /\ ForeignKeys
    /\ Return(w, NoCase)
    /\ UNCHANGED dbVars

(* get_case reads the row back; the assertion fails if it is gone.         *)
Reply(w) ==
    /\ pc[w] = "reply"
    /\ Return(w, IF mine[w] \in Live THEN mine[w] ELSE NoCase)
    /\ UNCHANGED dbVars

-----------------------------------------------------------------------------
(* Deletion.                                                               *)

(* The handler keeps the cases of S that exist and are the caller's; the   *)
(* first statements of _cascade_delete_cases delete the children visible   *)
(* now.                                                                    *)
BeginDelete(w, t, S) ==
    /\ pc[w] = "idle"
    /\ LET allowed == {c \in S \cap Live : rows[c].tenant = t}
       IN  /\ allowed # {}
           /\ doomed' = [doomed EXCEPT ![w] = [cases |-> allowed,
                                               children |-> SourcesOf(allowed)]]
    /\ Goto(w, "delete")
    /\ UNCHANGED <<dbVars, req, mine, got, stored, torn>>

(* Mutant: the cascade forgets the source rows.                            *)
CommitDeleteRowsOnly(w) ==
    /\ pc[w] = "delete"
    /\ rows' = [c \in CaseIds |-> IF c \in doomed[w].cases THEN NoCase ELSE rows[c]]
    /\ Return(w, NoCase)
    /\ UNCHANGED <<tenants, sources, used>>

(* The last statement deletes the case rows, and the transaction commits.  *)
(* With foreign keys, children inserted since the first statements make    *)
(* it fail and roll back.  SQLite lets one writer run at a time, so there  *)
(* the statements see the same children.                                   *)
CommitDelete(w) ==
    /\ pc[w] = "delete"
    /\ ForeignKeys => SourcesOf(doomed[w].cases) \subseteq doomed[w].children
    /\ sources' = sources \ SourcesOf(doomed[w].cases)
    /\ rows' = [c \in CaseIds |-> IF c \in doomed[w].cases THEN NoCase ELSE rows[c]]
    /\ Return(w, NoCase)
    /\ UNCHANGED <<tenants, used>>

CommitDeleteFails(w) ==
    /\ pc[w] = "delete"
    /\ ForeignKeys
    /\ ~(SourcesOf(doomed[w].cases) \subseteq doomed[w].children)
    /\ Return(w, NoCase)
    /\ UNCHANGED dbVars

(* A statement fails (connection lost, lock timeout): nothing in the       *)
(* handlers catches it, the open transaction rolls back, the client gets   *)
(* an error; what the handler committed before stays.                      *)
DatabaseError(w) ==
    /\ pc[w] # "idle"
    /\ Release(w, NoCase)
    /\ torn' = IF pc[w] = "children" THEN torn \cup {mine[w]} ELSE torn
    /\ UNCHANGED dbVars

(* The process stops and is started again: every open request is lost,     *)
(* committed rows stay.                                                    *)
Crash ==
    /\ \E w \in Workers : pc[w] # "idle"
    /\ torn' = torn \cup {mine[w] : w \in {v \in Workers : pc[v] = "children"}}
    /\ pc' = [w \in Workers |-> "idle"]
    /\ got' = [w \in Workers |-> NoCase]
    /\ req' = [w \in Workers |-> NoAlert]
    /\ mine' = [w \in Workers |-> NoCase]
    /\ doomed' = [w \in Workers |-> NoDoom]
    /\ stored' = [w \in Workers |-> {}]
    /\ UNCHANGED dbVars

Create(w) ==
    \/ FindTenant(w)
    \/ InsertTenant(w)
    \/ InsertTenantFails(w)
    \/ FindBySource(w)
    \/ NoneBySource(w)
    \/ FindInWindow(w)
    \/ NoneInWindow(w)
    \/ AnswerExisting(w)
    \/ LoseExisting(w)
    \/ InsertCase(w)
    \/ InsertChildren(w)
    \/ InsertChildrenFails(w)
    \/ Reply(w)

Delete(w) == CommitDelete(w) \/ CommitDeleteFails(w)

Next ==
    \/ \E w \in Workers, a \in Alerts : Receive(w, a)
    \/ \E w \in Workers : Create(w)
    \/ \E w \in Workers, t \in Tenants, S \in SUBSET CaseIds : BeginDelete(w, t, S)
    \/ \E w \in Workers : Delete(w)
    \/ \E w \in Workers : DatabaseError(w)
    \/ Crash

Spec == Init /\ [][Next]_vars

-----------------------------------------------------------------------------
(* Properties.                                                             *)

(* A worker past the source check, about to insert.                        *)
Inserting == {w \in Workers : pc[w] \in {"window", "insert"}}

(* An alert stored before a submission of it arrived is not stored a       *)
(* second time by that submission: when the handler is about to insert,    *)
(* every case that held the alert on arrival is gone, or the case its      *)
(* check had found was deleted before it could be read.                    *)
NoDuplicateAfterStore ==
    \A w \in Inserting :
        \/ \A c \in stored[w] : rows[c] = NoCase
        \/ mine[w] \in CaseIds /\ rows[mine[w]] = NoCase

(* A case without source rows, which no later duplicate check can find, is *)
(* one whose handler is between its two commits or died there.             *)
SourcelessOnlyWhenTorn ==
    \A c \in Live : SourcesOf({c}) = {} =>
        \/ c \in torn
        \/ \E w \in Workers : pc[w] = "children" /\ mine[w] = c

(* A handler never answers with the case of another tenant, and the case   *)
(* it answers with still exists and stands for the alert: it carries the   *)
(* source identity, or the alert is grouped and has its user and type.     *)
AnswersStandForAlert ==
    [][\A w \in Workers :
         (pc[w] \notin {"idle", "delete"} /\ got'[w] # NoCase /\ pc'[w] = "idle") =>
            LET c == got'[w] IN
            /\ c \in Live
            /\ rows[c].tenant = req[w].tenant
            /\ \/ [case |-> c, key |-> req[w].key] \in sources
               \/ req[w].grouped /\ req[w].sig # NoSig /\ rows[c].sig = req[w].sig]_vars

(* No source row outlives its case ("Delete a single case and all its      *)
(* child rows").                                                           *)
NoOrphanSources == \A s \in sources : s.case \in Live

(* At most one case per source identity of a tenant: what the duplicate    *)
(* check is meant to ensure.                                               *)
OneCasePerSource ==
    \A t \in Tenants, k \in Keys : Cardinality(ExistingBySource(t, k)) <= 1

(* The registry the source rows implement: a case holds an identity once   *)
(* its source rows are committed.                                          *)
Held == [i \in Tenants \X Keys |-> ExistingBySource(i[1], i[2])]

Registry == INSTANCE AlertRegistry WITH Clients <- Workers, held <- Held, answer <- got

(* With one request at a time, intake implements the registry: each        *)
(* identity of a tenant has at most one case, across failed requests,      *)
(* restarts and deletions, and every answer is the case holding it.        *)
IntakeImplementsRegistry == Registry!Spec
=============================================================================
