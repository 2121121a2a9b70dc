------------------------------- MODULE Upload -------------------------------
(***************************************************************************)
(* Uploading a file of alerts (process_upload, api_enrich_batch): rows are *)
(* validated, enriched and stored one by one, or grouped first and stored  *)
(* by group.  Stored cases may be closed at once, by a suppression rule or *)
(* as noise, while analysts decide and delete cases.                       *)
(*                                                                         *)
(* Three ways exist: "batch" (a small upload, or the batch route),         *)
(* "single" (a large one, run as a background job) and "grouped".          *)
(*                                                                         *)
(* Abstractions.  The content of a file is the rows each parser would find *)
(* in it and what parse_file looks at before it picks one.  Storing  *)
(* a case is one step here; its statements and their interleavings are the *)
(* subject of CaseIntake.  A row is an alert of Grouping with what its     *)
(* enrichment makes of it.                                                 *)
(***************************************************************************)
EXTENDS Grouping

CONSTANTS
    Requests,   \* uploads: the content, the way, the persist flag
    CaseIds,    \* identifiers uuid4 can draw
    NoCase,     \* an identifier not drawn yet
    Gone,       \* the case has been deleted
    Window,     \* minutes _find_existing_case looks around an event time
    Now,        \* the time of the first upload; later than every event
    MaxRows,    \* rows of a file that are processed (2000)
    MaxUploads, \* bound: uploads of a behaviour
    MaxActs,    \* bound: decisions and deletions of a behaviour
    Severe,     \* severities that are never closed as noise
    Rules       \* enabled suppression rules: [types, sevs, maxScore, close]

(* What a row must have, and what else an alert is made of.                *)
RowFields == {"user", "src", "type", "at", "public", "sev", "scores"}

IsRow(r) ==
    /\ RowFields \subseteq DOMAIN r
    /\ IsFiniteSet(r.public) /\ r.scores \subseteq Nat
    /\ r.sev \in Nat

(* A list of rows, of which nothing else is known.                         *)
AreRows(rows) ==
    /\ Len(rows) \in Nat /\ rows = [i \in 1..Len(rows) |-> rows[i]]
    /\ \A i \in 1..Len(rows) : IsRow(rows[i])

Parsers == {"leef", "kv", "xml", "tsv", "csv", "json", "jsonl"}

ASSUME UploadAssumption ==
    /\ MaxRows \in Nat /\ MaxUploads \in Nat /\ MaxActs \in Nat
    /\ \A r \in Requests : \A p \in Parsers : AreRows(r.content.rows[p])

VARIABLES
    cases,   \* rows of the cases table, with their sources
    hits,    \* hits_count of each rule
    file, mode, persist, \* the upload being processed
    pc, at,              \* where it is: step and row, or step and group
    enriched,            \* its enriched alerts
    groups,              \* its groups, once computed
    results,             \* what it reports of each row
    mine,                \* the case it has just stored or found
    uploads,             \* uploads started
    acts                 \* decisions and deletions made

vars == <<cases, hits, file, mode, persist, pc, at, enriched, groups, results, mine, uploads, acts>>

dbVars == <<cases, hits>>
request == <<file, mode, persist, uploads, acts>>

Live == {c \in CaseIds : cases[c] \notin {NoCase, Gone}}

Outcomes == {"skipped", "enriched", "failed"}

TypeOK ==
    /\ \A c \in Live : /\ cases[c].status \in {"open", "benign", "threat"}
                       /\ cases[c].by \in {"nobody", "analyst", "rule", "noise"}
                       /\ cases[c].rows # {}
    /\ hits \in [Rules -> Nat]
    /\ pc \in {"idle", "rows", "rule", "groups", "noise"}
    /\ pc \in {"rows", "rule"} => at \in 1..Len(file) + 1
    /\ pc \in {"groups", "noise"} => mode = "grouped" /\ at \in 1..Len(groups) + 1
    /\ pc \in {"rule", "noise"} => mine \in CaseIds
    /\ \A i \in DOMAIN results : results[i].is \in Outcomes
    /\ Len(results) <= MaxRows
    /\ uploads \in 0..MaxUploads /\ acts \in 0..MaxActs

Init ==
    /\ cases = [c \in CaseIds |-> NoCase]
    /\ hits = [r \in Rules |-> 0]
    /\ file = <<>> /\ mode = "none" /\ persist = FALSE
    /\ pc = "idle" /\ at = 1
    /\ enriched = <<>> /\ groups = <<>> /\ results = <<>>
    /\ mine = NoCase /\ uploads = 0 /\ acts = 0

-----------------------------------------------------------------------------
(* Content.                                                                *)

Truncated(rows) == SubSeq(rows, 1, Min({Len(rows), MaxRows}))

Finds(c, parser) == c.rows[parser] # <<>>

(* parse_file: the extension or the first line names a format; a parser    *)
(* that finds no rows leaves the content to the next one, except that the  *)
(* formats with an extension of their own are final.                       *)
ParserOf(c) ==
    IF "leef" \in {c.ext, c.opens} /\ Finds(c, "leef") THEN "leef"
    ELSE IF (c.ext \in {"kv", "log"} \/ c.opens = "pairs") /\ Finds(c, "kv") THEN "kv"
    ELSE IF "xml" \in {c.ext, c.opens} /\ Finds(c, "xml") THEN "xml"
    ELSE IF c.ext \in {"tsv", "csv"} THEN c.ext
    ELSE IF Finds(c, "json") THEN "json"
    ELSE IF c.ext = "json" THEN "jsonl" ELSE "csv"

Parsed(c) == c.rows[ParserOf(c)]

(* What validate_row finds missing.                                        *)
Reasons(r) ==
    {k \in {"identity", "ip", "type", "time"} :
        \/ k = "identity" /\ r.user = None
        \/ k = "ip" /\ r.ip = None
        \/ k = "type" /\ ~r.inferable
        \/ k = "time" /\ r.at = None}

(* A row is usable when nothing is missing, or something identifies it and *)
(* it has a severity, which parse_severity always finds.                   *)
Valid(r) ==
    Reasons(r) = {} \/ r.device # None \/ r.context \/ r.user # None \/ r.ip # None

-----------------------------------------------------------------------------
(* Rows.                                                                   *)

(* Rows that name a host or address but no user get the user that the last *)
(* row with both gave to that host, else to that address.                  *)
OwnerOf(rows, field, e) ==
    LET naming == {i \in DOMAIN rows : rows[i].user # None /\ rows[i][field] = e}
    IN  IF e = None \/ naming = {} THEN None ELSE rows[Max(naming)].user

Resolved(rows) ==
    [i \in DOMAIN rows |->
        [rows[i] EXCEPT !.upn = IF @ # None \/ rows[i].user # None THEN @
                                ELSE Or(OwnerOf(rows, "device", rows[i].device),
                                        OwnerOf(rows, "ip", rows[i].ip))]]

(* The event time of a row without one is the time of its processing.      *)
EventTime(r) == IF r.at = None THEN Now + uploads ELSE r.at

(* Mutant: the time in the identity is always that of the upload.          *)
SourceIdOfUpload(i) == IF mode = "batch" THEN <<i>> ELSE <<file, i, Now + uploads>>

(* sourceAlertId of row i: "upload:file:i:time", or "batch:i".             *)
SourceId(i) == IF mode = "batch" THEN <<i>> ELSE <<file, i, EventTime(file[i])>>

BySource(k) == {c \in Live : k \in cases[c].sources}

InWindow(type, upn, t) ==
    {c \in Live : /\ upn # None
                  /\ cases[c].type = type /\ cases[c].upn = upn
                  /\ t - Window <= cases[c].at /\ cases[c].at <= t + Window}

(* create_case, create_grouped_case: the existing case or a new one.       *)
Put(existing, new) ==
    \/ \E c \in existing : mine' = c /\ UNCHANGED cases
    \/ /\ existing = {}
       /\ \E c \in CaseIds : /\ cases[c] = NoCase
                          /\ cases' = [cases EXCEPT ![c] = new]
                          /\ mine' = c

(* Mutant: the status written is not one of the vocabulary.                *)
CloseAsClosed(c, who) ==
    /\ c \in Live
    /\ cases' = [cases EXCEPT ![c].status = "closed", ![c].by = who]

(* update_disposition, which raises when the case is gone.                 *)
Close(c, who) ==
    /\ c \in Live
    /\ cases' = [cases EXCEPT ![c].status = "benign", ![c].by = who]

Report(r) == results' = Append(results, r)

Start(r) ==
    /\ pc = "idle" /\ uploads < MaxUploads
    /\ file' = Resolved(Truncated(Parsed(r.content)))
    /\ mode' = r.mode /\ persist' = r.persist /\ uploads' = uploads + 1
    /\ pc' = "rows"
    /\ UNCHANGED <<dbVars, at, enriched, groups, results, mine, acts>>

(* The upload is over: its locals are gone, what it committed stays.       *)
End ==
    /\ pc' = "idle" /\ at' = 1
    /\ file' = <<>> /\ mode' = "none" /\ persist' = FALSE
    /\ enriched' = <<>> /\ groups' = <<>> /\ results' = <<>> /\ mine' = NoCase
    /\ UNCHANGED <<dbVars, uploads, acts>>

AtRow == pc = "rows" /\ at <= Len(file)

(* validate_row rejects the row; the batch route does not validate.        *)
SkipRow ==
    /\ AtRow /\ mode # "batch" /\ ~Valid(file[at])
    /\ Report([is |-> "skipped", case |-> NoCase])
    /\ at' = at + 1
    /\ UNCHANGED <<dbVars, request, pc, enriched, groups, mine>>

Usable == AtRow /\ (Valid(file[at]) \/ mode = "batch")

(* Mapping, enrichment or storing raises: the row is reported as failed.   *)
FailRow ==
    /\ Usable
    /\ Report([is |-> "failed", case |-> NoCase])
    /\ at' = at + 1
    /\ UNCHANGED <<dbVars, request, pc, enriched, groups, mine>>

Enriched(r, s) ==
    [f \in DOMAIN r \cup {"score", "row"} |->
        CASE f = "score" -> s [] f = "row" -> at [] OTHER -> r[f]]

(* The row is enriched; the score depends on what is stored by then.       *)
EnrichRow ==
    /\ Usable /\ (mode = "grouped" \/ ~persist)
    /\ \E s \in file[at].scores :
          enriched' = Append(enriched, Enriched(file[at], s))
    /\ Report([is |-> "enriched", case |-> NoCase])
    /\ at' = at + 1
    /\ UNCHANGED <<dbVars, request, pc, groups, mine>>

NewCase(r, s) ==
    [sources |-> {SourceId(at)}, rows |-> {<<file, at>>}, type |-> r.type, upn |-> r.upn,
     at |-> EventTime(r), sev |-> r.sev, score |-> s, quiet |-> r.quiet, rich |-> r.rich,
     status |-> "open", by |-> "nobody"]

(* create_case; the row is reported only after the suppression rules have  *)
(* been applied to it ("single").                                          *)
StoreRow ==
    /\ Usable /\ mode # "grouped" /\ persist
    /\ \E s \in file[at].scores :
          /\ Put(BySource(SourceId(at)), NewCase(file[at], s))
          /\ enriched' = Append(enriched, Enriched(file[at], s))
    /\ IF mode = "single" THEN pc' = "rule" /\ UNCHANGED <<results, at>>
       ELSE /\ Report([is |-> "enriched", case |-> mine'])
            /\ at' = at + 1 /\ UNCHANGED pc
    /\ UNCHANGED <<hits, request, groups>>

Matching(a) == {r \in Rules : a.type \in r.types /\ a.sev \in r.sevs /\ a.score <= r.maxScore}

(* evaluate_suppression: the first matching rule, in no specified order,   *)
(* counts a hit and may close the case create_case answered with.          *)
ApplyRule ==
    /\ pc = "rule"
    /\ \E r \in Matching(enriched[Len(enriched)]) :
          /\ hits' = [hits EXCEPT ![r] = @ + 1]
          /\ IF r.close THEN Close(mine, "rule") ELSE UNCHANGED cases
    /\ Report([is |-> "enriched", case |-> mine])
    /\ pc' = "rows" /\ at' = at + 1
    /\ UNCHANGED <<request, enriched, groups, mine>>

NoRule ==
    /\ pc = "rule" /\ Matching(enriched[Len(enriched)]) = {}
    /\ Report([is |-> "enriched", case |-> mine])
    /\ pc' = "rows" /\ at' = at + 1
    /\ UNCHANGED <<dbVars, request, enriched, groups, mine>>

(* An error there, before or after the hit is committed, or a case deleted *)
(* meanwhile: the row is reported as failed although it was stored.        *)
RuleFails ==
    /\ pc = "rule"
    /\ \/ UNCHANGED hits
       \/ \E r \in Matching(enriched[Len(enriched)]) : hits' = [hits EXCEPT ![r] = @ + 1]
    /\ Report([is |-> "failed", case |-> NoCase])
    /\ pc' = "rows" /\ at' = at + 1
    /\ UNCHANGED <<cases, request, enriched, groups, mine>>

-----------------------------------------------------------------------------
(* Groups.                                                                 *)

RowsDone == pc = "rows" /\ at > Len(file)

GroupAlerts ==
    /\ RowsDone /\ mode = "grouped" /\ enriched # <<>>
    /\ groups' = Groups(enriched)
    /\ pc' = "groups" /\ at' = 1
    /\ UNCHANGED <<dbVars, request, enriched, results, mine>>

(* build_grouped_case: entities and description of the best alert, sources *)
(* of all.  A text made for several alerts may or may not count as rich.   *)
GroupCase(g, rich) ==
    [sources |-> {SourceId(g.alerts[i].row) : i \in DOMAIN g.alerts},
     rows |-> {<<file, g.alerts[i].row>> : i \in DOMAIN g.alerts},
     type |-> g.type, upn |-> Best(g.alerts).upn,
     at |-> IF g.from = None THEN Now + uploads ELSE g.from,
     sev |-> g.sev, score |-> g.score,
     quiet |-> \A i \in DOMAIN g.alerts : g.alerts[i].quiet, rich |-> rich,
     status |-> "open", by |-> "nobody"]

(* create_grouped_case: a case with the source of the first alert, else    *)
(* one of the same user and type around the same time, else a new one.     *)
StoreGroup ==
    /\ pc = "groups" /\ persist /\ at <= Len(groups)
    /\ LET g    == groups[at]
           same == BySource(SourceId(g.alerts[1].row))
       IN  \E rich \in IF Len(g.alerts) = 1 THEN {Best(g.alerts).rich} ELSE BOOLEAN :
              Put(IF same # {} THEN same
                  ELSE InWindow(g.type, Best(g.alerts).upn, GroupCase(g, rich).at),
                  GroupCase(g, rich))
    /\ pc' = "noise"
    /\ UNCHANGED <<hits, request, at, enriched, groups, results>>

LowScore == 45

(* Mutant: the severity looked at is the group's, not that of the case it  *)
(* was answered with.                                                      *)
IsNoiseOfGroup(c) ==
    /\ c.quiet \/ (c.upn = None /\ c.score < LowScore)
    /\ ~c.rich
    /\ groups[at].sev \notin Severe

(* The quality flags of the case as stored call it noise.                  *)
IsNoise(c) ==
    /\ c.quiet \/ (c.upn = None /\ c.score < LowScore)
    /\ ~c.rich
    /\ c.sev \notin Severe

(* The case may have been decided since it was stored or found.            *)
CloseNoise ==
    /\ pc = "noise" /\ mine \in Live /\ IsNoise(cases[mine])
    /\ Close(mine, "noise")
    /\ pc' = "groups" /\ at' = at + 1
    /\ UNCHANGED <<hits, request, enriched, groups, results, mine>>

(* It is no noise, or the update fails: the error is swallowed.            *)
KeepGroup ==
    /\ pc = "noise"
    /\ pc' = "groups" /\ at' = at + 1
    /\ UNCHANGED <<dbVars, request, enriched, groups, results, mine>>

(* Nothing catches an error while a group is stored: the upload ends and   *)
(* the groups before it stay.                                              *)
GroupFails ==
    /\ pc = "groups" /\ persist /\ at <= Len(groups)
    /\ End

Finish ==
    /\ \/ RowsDone /\ (mode # "grouped" \/ enriched = <<>>)
       \/ pc = "groups" /\ (~persist \/ at > Len(groups))
    /\ End

-----------------------------------------------------------------------------
(* Everyone else.                                                          *)

Act(c, row) ==
    /\ c \in Live /\ acts < MaxActs
    /\ cases' = [cases EXCEPT ![c] = row]
    /\ acts' = acts + 1
    /\ UNCHANGED <<hits, file, mode, persist, pc, at, enriched, groups, results, mine, uploads>>

Decide(c, s) == Act(c, [cases[c] EXCEPT !.status = s, !.by = "analyst"])

Delete(c) == Act(c, Gone)

(* The process restarts: the upload is lost.                               *)
Crash == pc # "idle" /\ End

Row == SkipRow \/ FailRow \/ EnrichRow \/ StoreRow

Rule == ApplyRule \/ NoRule \/ RuleFails

Next ==
    \/ \E r \in Requests : Start(r)
    \/ Row \/ Rule
    \/ GroupAlerts \/ StoreGroup \/ CloseNoise \/ KeepGroup \/ GroupFails \/ Finish
    \/ \E c \in CaseIds : Delete(c) \/ (\E s \in {"benign", "threat"} : Decide(c, s))
    \/ Crash

Spec == Init /\ [][Next]_vars

-----------------------------------------------------------------------------
(* Properties.                                                             *)

(* The batch route gives its rows identities of another form.              *)
SameRoute(c, d) == {Len(k) : k \in cases[c].sources} = {Len(k) : k \in cases[d].sources}

(* Uploading a file again ("re-uploading the SAME file deduplicates        *)
(* correctly"), also after an upload that failed or was lost on the way:   *)
(* no two cases with identities of the same route stand for the same rows, *)
(* if each of these carries a time.                                        *)
ReuploadDeduplicates ==
    \A c, d \in Live : c # d /\ SameRoute(c, d) /\ cases[c].rows = cases[d].rows =>
        \E r \in cases[c].rows : r[1][r[2]].at = None

(* "NEVER auto-close critical/high": no case that is shown as severe was   *)
(* closed as noise, whatever the group was that found it.                  *)
NoiseNeverHidesSevere ==
    \A c \in Live : cases[c].by = "noise" => cases[c].sev \notin Severe

Grouped == pc = "groups" /\ at = 1

(* No enriched alert gets lost on its way through the four passes: it is   *)
(* in a group, or a duplicate of it that scores no less is.                *)
GroupsCoverAlerts ==
    Grouped => \A i \in DOMAIN enriched : \E g \in DOMAIN groups :
        \E k \in DOMAIN groups[g].alerts :
            LET a == enriched[i]  b == groups[g].alerts[k]
            IN  /\ a.user = b.user /\ a.src = b.src
                /\ a.score <= b.score
                /\ a.row = b.row \/ a.type = b.type \/ b.type = Spray

(* What a group says of its alerts, computed before duplicates were taken  *)
(* out, stays true of those that are left: the score is one of theirs and  *)
(* none is more severe.                                                    *)
GroupsDescribed ==
    Grouped => \A g \in DOMAIN groups :
        LET members == {groups[g].alerts[k] : k \in DOMAIN groups[g].alerts}
        IN  /\ groups[g].score = Max({a.score : a \in members})
            /\ \A a \in members : a.sev <= groups[g].sev
=============================================================================
