# Vigilis: TLA+ models, model checking and proofs

Vigilis (the "Alert-to-Case Enrichment Pack") receives security alerts over HTTP, enriches
and scores each one, stores it as a *case*, lets analysts review cases, and correlates cases
into incidents. It is a FastAPI application (`src/backend/app`) over a relational database
(PostgreSQL in the docker deployment, SQLite in "zero infra" mode), run as one process. This
directory holds TLA+ models of its core, TLC configurations that check them on small
instances, and proofs checked by TLAPS that hold for every instance.

## Inventory

| Component | State | Operations | Interacts with | What is hard | What makes it correct |
|---|---|---|---|---|---|
| Case intake and deletion (`services/case_service.py`, `api/v1/endpoints/cases.py`) | rows of `tenants`, `cases`, `case_sources` | create, create grouped, delete, bulk delete | database, scoring, cross-alert window, entity graph | handlers interleave between statements; two commits per creation; crashes between them; foreign keys only on PostgreSQL | no alert stored twice; answers stand for the alert submitted; no child rows without a case |
| Confidence scoring (`services/enrichment/scoring.py`, `__init__.py`) | the signal list of one alert | extract, look up, compute, adjust | extractors, threat intelligence, calibration, configuration | order of caps and adjustments, truncation, shadowed signals | caps survive the adjustments; suppressions count; the loop computes what it documents |
| Case review (`case_service.py`, `cases.py`, `admin.py`) | `cases`, `case_disposition_events`, `case_confidence_signals`, `case_notes` | set a disposition (one, many), add a note, re-enrich (batch), delete | database through an ORM that writes only changed columns | stale rows, lost and mixed updates, partial batches | what a case shows was decided; a decision survives re-enrichment; score and signals agree |
| Webhook delivery (`services/webhook_service.py`) | `webhook_deliveries` | deliver, retry loop | receiver, cases | deliveries of one case side by side, its deletion between two transactions, timestamps without a zone | a failed delivery is retried |
| Threat intelligence and cache (`enrichment/threat_intel.py`, `cache.py`, `domain_intel.py`, `ip_identity.py`, providers) | TTL/LRU cache, cache of domain ages, quotas, notes of the last lookup | look up, store, expire, evict, prefetch | external providers, feeds, scoring | eviction while others look up, errors that providers answer as "clean", notes shared by threads | size bound, one entry per question, an outage is forgotten |
| Cross-alert window (`enrichment/cross_alert.py`) | sliding window of entries and an index | register, scan | scoring, re-enrichment | out-of-order times, other threads between registering and scanning | index and window agree |
| Incident correlation (`incident_service.py`, `correlation/`) | `incidents`, `incident_case_links`, case scores | correlate (after every ingest and on request), list | cases, scoring | repeated and overlapping runs, merging in two commits, the score boost | clusters hold related cases once; an incident links stored cases and describes them; no second incident for a user who has one; scores bounded |
| Authentication and rate limit (`core/auth.py`) | in-process counters or Redis, `api_keys` | resolve a key, count, prune | every endpoint | read-modify-write without a lock, pruning by several threads, minute boundaries | nobody is refused before the limit |
| Background jobs (`services/job_manager.py`, `endpoints/jobs.py`) | job table, a pool of two threads | submit, run, poll, prune | upload pipeline | a record assigned field by field while it is read field by field, pruning of live jobs | a job ends; a completed job comes with its result |
| Live event feed (`services/ws_manager.py`, `live_feed.py`) | set of connections | connect, disconnect, broadcast | intake, review | the set changes during a broadcast; no loop in pool threads | every connected client receives an event |
| Indicator feeds (`services/feed_ingestion.py`) | `threat_intel_iocs` | download, upsert | threat intelligence | a feed that fails half-way, lookups meanwhile | a feed is loaded whole or not at all |
| Entity graph (`enrichment/entity_graph.py`) | `entity_relationships` | store, query | intake, scoring | select-then-write by several threads: lost counts, duplicate rows | what was seen often enough stops being new |
| Case history (`enrichment/historical.py`, `user_baseline.py`, `cloud_ip_allowlist.py`) | none (reads `cases`) | history of user, host, address; peers; transfers | cases, scoring | scores that feed later scores | claims of an analyst's decision rest on decisions alone |
| Upload pipeline, grouping (`services/ingestion.py`, `grouping.py`, `endpoints/demo_ingestion.py`) | groups of an upload | parse, validate, resolve users, group, persist, suppress | intake, review, jobs | automatic decisions on deduplicated cases, failures and restarts between groups, alerts taken by several passes | a file uploaded again adds nothing; every alert ends in a group; nothing severe is closed as noise |
| Intake routes (`api/v1/endpoints/ingest.py`, `demo_enrichment.py`) | none | normalise identity, call intake | intake | identities that collapse | different alerts stay different |
| Learning loop (`services/calibration.py`) | none (reads `cases`; feedback is stored and never read back) | compute multipliers | review, scoring | small samples, old cases, automatic decisions counted as an analyst's | distrust of a signal does not outlive its reasons |
| Suppression rules (`suppression_service.py`) | rules and their hits | match, close | upload | a rule applied to a deduplicated case | see upload |
| Retention (`services/retention.py`) | case age | clean up | cases | timestamps without a zone | (no case ever expires: below) |
| Detection helpers (`enrichment/base.py`, `asset_criticality.py`) | none | tests of one alert's text and fields; tiers of signals, assets, users | scoring | which of several paths gives the tier | feeds the scoring run with tiers the code can give |
| Tenant configuration (`services/config_service.py`) | one JSON file | read, change, write whole | scoring, intake | overlapping changes | not modelled |

Everything else (vendor mappings, normalisation, extractor tables, playbooks, metrics, SOAR calls, demo
data, exporters, the user interface) is stateless translation, read-only reporting or a call of an
outside service; `PROJECT.json` lists it with the reason it is not modelled.

**How handlers run.** The endpoints are synchronous functions, so the server runs each request
in a thread of a pool, with a database session of its own (`db_session_dep`). Handlers therefore
interleave between database statements. Background loops run in the event loop. Nothing
serialises handlers of one case or one tenant. An exception leaves a handler through the session's
context manager, which rolls back what was not committed.

## Modules

| Module | Role |
|---|---|
| `CaseIntake` | creation and deletion of cases, one action per database statement or commit |
| `AlertRegistry` | the abstract specification: each source identity of a tenant is held by at most one case, and an answer is its holder |
| `MCCaseIntake` | alerts, tenants and groups for TLC |
| `CaseIntakeProofs` | type correctness, four safety invariants of `CaseIntake`; one handler at a time implements `AlertRegistry` |
| `Scoring` | the signal list of one alert and the score computed from it, loop iterations included |
| `MCScoring` | evidence, contexts and denylists for TLC |
| `CaseReviewProofs` | type correctness, two safety invariants and an action property of `CaseReview`; three more invariants with one handler at a time |
| `ScoringProofs` | type correctness and all five properties of `Scoring` |
| `CaseReview` | dispositions, notes, re-enrichment and deletion of stored cases |
| `MCCaseReview` | statuses and notes for TLC |
| `Clustering` | how correlation groups cases, and what an incident computes from its cases: operators on case rows |
| `Correlation` | runs of the correlation engine beside intake, review and deletion; extends `Clustering` |
| `CorrelationProofs` | type correctness, the three safety invariants (links, clusters, incidents) and the action property of `Correlation` |
| `MCCorrelation` | five scenarios of stored cases for TLC |
| `Lists` | folds and selections as recursive functions, which theorems can be proved about; used by `Scoring`, `Clustering`, `Grouping` and `Enrichment` |
| `Grouping` | the grouping passes of an upload: keys and time buckets, sprays, duplicates, merging by user |
| `Upload` | an upload from its text to cases: parser, validation, rows, groups, rules and noise; extends `Grouping` |
| `MCUpload` | files, orders of alerts and rules for TLC |
| `UploadProofs` | types and all four safety invariants of `Upload`, for any files, windows, limits and rules |
| `Verdicts` | what each provider makes of a reply, and the signals a verdict gives: operators |
| `ThreatIntel` | lookups through the shared cache, quotas, feeds, time and restarts; extends `Verdicts` |
| `ThreatIntelProofs` | whole feeds, and types: one entry per question, the size of the cache, the quotas |
| `MCIntel` | deployments, indicators, replies and feed rows for TLC |
| `Evidence` | what the case table and the entity graph say about an alert: operators |
| `Enrichment` | enrichments that read the cases, the graph and the window, and write them; extends `Evidence` |
| `EnrichmentProofs` | types, the window's index and list, and signals that rest on decisions alone |
| `MCEnrichment` | alerts, times and scores for TLC |
| `Detectors` | the detection helpers on one alert, asset and user tiers: operators that `MCScoring` builds its instances with |
| `Requests`, `Jobs`, `Webhooks`, `Learning` | the rate limit; background jobs; deliveries with the retry and retention loops; the learning loop |
| `Platform` | the four of them in one process, with the fairness of their schedulers |
| `PlatformProofs` | the rate limit and the answers about jobs, for any number of threads |
| `MCPlatform` | constants for TLC |

Definitions keep the names of the source where they model a function or a column;
`PROJECT.json` ("map") gives the lines of each. Definitions preceded by "Mutant:" are plausible
bugs of the definition that follows them: exchanging the two must make the property named in
"mutants" fail, which shows that the property depends on the code it is about.

### CaseIntake

State: the tables `tenants` (how many rows a tenant has, which the unique index keeps at one), `rows` (cases) and `sources`; the identifiers drawn; and per worker
thread the point its handler has reached (`pc`), its request (`req`), the case it found or inserted
(`mine`), what it is deleting (`doomed`) and the case it last answered with (`got`). Two history
variables serve properties only: `stored` (the cases that held the alert when the request arrived)
and `torn` (cases whose handler died between its two commits).

The actions follow `create_case` / `create_grouped_case` statement by statement: `FindTenant`,
`InsertTenant` (or `InsertTenantFails` on the unique index), the source check (`FindBySource` /
`NoneBySource`), for groups the time window (`FindInWindow` / `NoneInWindow`), the read of the case
that was found (`AnswerExisting`, or `LoseExisting` when it has been deleted meanwhile),
`InsertCase` (first commit), `InsertChildren` (second commit) and `Reply`. Deletion is split where
the database splits it: the child rows visible to the first statements (`BeginDelete`) and the rest
with the commit (`CommitDelete`), which a foreign key refuses when new children have appeared.
`DatabaseError` ends any handler anywhere; `Crash` ends all of them. `ForeignKeys` selects
PostgreSQL or SQLite behaviour.

Abstractions: an alert is its tenant, source identity, the further identities it groups,
its (alert type, user) signature and event time. Signal rows of a new case are committed with its
sources; they are followed in `CaseReview`.

### Scoring

One behaviour scores one alert. `Extract` and `Lookup` append rows to the signal list in any order
(what the alert contains is a choice); a lookup's row is dropped if the list has a row of that
name, fired or not, and loses its tier if it is rebuilt. `BeginScore` reads the denylist;
`SubtractNext` and `WeighNext` are the iterations of `compute_confidence`; `Total` applies context,
combos, corroboration, clamping, caps and source fidelity; `AdjustScore` is what `_run_enrichment`
does to the score afterwards. Floating-point multipliers are percentages; `int()` is truncation
towards zero, and the integer formulas agree with the floating-point ones for every weight and
multiplier of the registry.

### CaseReview

State: the columns of a case row that handlers write, its disposition events in commit order, the
runs of enrichment its signal rows come from, whether it has notes, and per worker the list of
cases it works through and the row as its session loaded it (`seen`). `Written` is the ORM's
unit of work: a commit writes a column only if the assigned value differs from the loaded one.
`StaleRow` is the ORM's error for an update that matches no row, `ChildRefused` the foreign key's.
`Fault` (errors, deadlocks broken by the database, process stop) ends a handler anywhere.

### Clustering and Correlation

`ClusterCases` is `cluster_cases`: sprays seed clusters with all cases of an address, then the other
cases are placed in the order of their event times; a case below its threshold may be rescued into the
first cluster with a strong case and its user or device, and goes on to be linked like any other
(which is why a rescued case can be in a cluster twice, or in two). Its list of cases is the list
`correlate_incidents` goes through, so a case that occurs twice counts twice and gets two links, as in
the code.

State of `Correlation`: the case rows correlation reads (`cases`), the incidents in the order of their
commits with their link rows in the order of insertion (a case may have several), and per thread the run's position, the rows its session
holds (`seen`: as read at the start, or after the last commit, which expires them), the incidents it found
`open`, the clusters still `todo`, the incidents `made` and not committed, and the merge under way (`target`,
`fresh`). Actions: `Start` (read and cluster), `Merge` (links committed, with everything pending),
`Refresh` and `Store` (recompute, then commit what changed, column by column), `Create`, `Finish`
(commit) and `Boost`; `Fail` when a row the run needs is gone, `Fault` for an error or a stop anywhere.
`Arrive`, `Decide` and `Delete` are the rest of the system. `ForeignKeys` selects the database as in `CaseIntake`: with
foreign keys a commit that links a case deleted meanwhile is refused and the run fails (`CanCommit`, `Fail`), without them it leaves
a dangling link and the run goes on; readers skip such links (`LiveLinked`). Two tests of the code call an address
private, the spray pass by the networks of `base.py` (`Private`), the strength of a link by Python's `ipaddress` (`Reserved`),
and an address may be private by one only. The history variables `overlapped`, `torn` and `raced` serve properties only. The order of the incidents a query returns is
unspecified and therefore a choice; so is the order of cases with the same event time, which `cluster_cases` takes
over from the query. Lists are gone through with `Folded` and `Where` of `Lists`, so that theorems can be proved about them. Percentages such as 1.2 are integer arithmetic; the code's
floating-point product can be one lower for six or more cases.

### Grouping and Upload

`Groups` is `group_enriched_alerts`: sprays first (an alert may join several), then keys of the other
alerts (type, anchor entity and adaptive time bucket), duplicates taken out within a group, groups of
one user merged, and the description of a group (type, severity, score, time span) computed where the code computes
it. The order of alerts matters to the buckets, so the run enumerates orders. An alert's passes are selections from a
list (`Where`, `ByKey`), so that what they keep can be proved.

`Upload` follows `process_upload` and `api_enrich_batch`: a file is parsed by the parser its name and
first line lead to, truncated, users are resolved across rows, then rows are skipped, fail, are enriched or
stored (mode "single" with the suppression rules, "batch" without), or grouped and stored group by group, with
noise closed on the case the store answered with. `Put` is the duplicate check and the insert as one step
(their races are `CaseIntake`'s subject). An error in a group, or a restart, ends the upload with what it
committed. `Decide` and `Delete` are the analyst.

Abstractions: texts are the rows their parsers yield; an alert carries its grouping fields and what the
quality checks make of its narrative (`quiet`, `rich`); the score is one of a set.

### Verdicts and ThreatIntel

An enrichment works through a list of questions (provider and indicator) in the order of `enrich`, then
publishes and collects the notes, asks for the owner of addresses and for the age of the first domain. Each
question is a lookup in the cache (`Hit`, `Miss`), an answer (`Answered`, `Unanswered`, `Raised`) that
`Put` stores; the cache is a sequence in the order of use, with the time each entry has left. Verdicts are
computed from the reply by the provider's own rules, including the answer "clean" for an error.
`BeginUpload`, `Prefetch`, `Batch`, `Keep` and `KeepNone` are the addresses that an upload looks up together before its
first row, some of them without success. `FeedRow`, `FeedCommit`, `FeedFails` load feeds row by row in one transaction each (`feed.table` is the
table as that transaction sees it); what a feed publishes is constant, so loading a feed again whose rows have changed is not exercised; the provider `local` reads the committed rows. `Tick`, `Midnight` and `Restart` are time and the end of the process.

### Evidence and Enrichment

An enrichment reads the case table (`History`), the graph (`Graph`), registers its alert in the window, scans
it, and stores a case or a new score (`Persist`, `Rescore`), after which a new case's relationships are read
(`ReadPairs`) and written (`WritePairs`). Signals are added one by one under names that are still free (`Plus`):
of two of one name the first stays, whichever address comes first. Everyone else decides, correlates, deletes, or restarts the process.
Abstractions: the limits of five and three addresses per alert and the tenants (which only two of the checks
look at) are left out; times are ticks; counts above "rare" are one count.

### Detectors

The tiered helpers of `base.py` as operators on an alert of topics, facts and technique families, with the
order in which their verified, observed and inferred paths are tried; the promotion of a listed signal by its
helper; and the tiers of assets and users, whose points `MCScoring`'s contexts use. No property is stated about these
operators themselves: they are the translation that tells which tiers, promotions and context points the scoring run may be
given, and the text of an alert is reduced to what they test.

### Platform and its parts

`Requests` is `_check_rate_limit` as a thread executes it on a shared dictionary: read the entry, decide, write,
walk, prune; or one atomic increment in Redis (an error after it ends the request, which was counted all the same). `Jobs` is the executor: a worker assigns the fields of a record
one by one, a client reads them one by one, `submit` prunes the table. `Webhooks` is a delivery in its two
transactions and the two loops, each of whose passes raises at its first comparison of a time with a zone and one
without. `Learning` is the case table as the multipliers see it. They share no state, so `Platform` interleaves
one of them at a time (`scene`).

## Runs

| Run | Question | Bounds |
|---|---|---|
| `intake_concurrent` | Do the duplicate checks and answers hold up when two threads create, delete, fail and crash in every order? | 2 threads, 2 cases, 2 tenants, 2 identities; 5 alerts: one identity used by both tenants, a group overlapping a single alert, groups inside and outside the window |
| `intake_serial` | Does intake implement `AlertRegistry` when requests do not overlap? | 1 thread, 3 cases, 2 tenants x 2 identities, no foreign keys |
| `scoring` | Do the caps hold and does the loop compute its reference for every list of signals? | 9 detections (6 positive, 2 negative, 1 unfired), 3 contexts, 3 denylists, learned multipliers |
| `review_races` | What survives two threads that decide, annotate, re-enrich and delete one case? | 2 threads, 1 case, 2 statuses, 2 notes, 2 scores, 2 decisions per case, faults, foreign keys |
| `review_serial` | Does a case show its last decision and the score of its signals when requests do not overlap? | 1 thread, 2 cases (one created meanwhile), lists of two |
| `correlation` | Do clusters and incidents stay right when runs repeat, overlap and fail while cases arrive, are decided and deleted? | 2 threads, 3 runs, 3 cases in 5 scenarios, 1 decision or deletion, no foreign keys (838,557 states); thresholds of sprays and shared egresses at 3 users (the code has 3 and 5) |
| `upload` | Does storing a file again add nothing, and do the grouping passes lose or misdescribe no alert? | every order of up to 4 of 5 alerts and 3 of 9; files of 2 rows and misleading names, in all modes; 2 uploads, 4 cases, 1 act of an analyst |
| `intel` | Do cache, feeds and outages behave under eviction, expiry, quotas and restarts? | 5 deployments with 1 indicator each (one with 2 enrichments at once), a cache of 2 entries, a feed with an indicator twice, quota 1 |
| `enrichment` | Do window, history and graph stay sound when enrichments overlap and times are out of order? | 3 scenes: 2 alerts of a user at 3 times in any order; 2 threads storing the same pairs; 2 cases of a host with two scores |
| `platform` | Are requests refused only at the limit, do jobs end and answer consistently, does distrust fade? | 2 threads and 2 keys over 3 minutes with a limit of 2; 2 workers, 2 jobs, 1 client, a table of 1; 2 senders, 2 deliveries; 3 cases and a sample of 2 |
| `intake_race`, `webhook_retry` | Disagreements between the documentation and the code (below) | the smallest instance that shows each |

Why the bounds suffice: duplicate checks, answers and row conflicts relate at most two handlers and
two cases; a third thread adds no new kind of overlap, and the invariants proved for every number of
threads confirm it. `review_races` has one case, so a bulk decision there is a list of one: two cases with two threads exceed what TLC
finishes, and the lists of two are in `review_serial` and in the theorems, which hold for lists of any length.
Two tenants sharing one identity is the least that can confuse tenants; a group
with two identities the least that can overlap. Six positive signals reach all three bands of the
diminishing returns and every corroboration step. Three runs let an
incident be created, merged into and met again. Bounds inside specifications: `MaxDecisions` in `CaseReview`
(length of a disposition history), `MaxRuns` and `MaxEdits` in `Correlation`, `MaxUploads` and `MaxActs` in
`Upload`, `atOnce` of a site in `ThreatIntel`, `most` of a scene and `MaxWindow` in `Enrichment`, `LastMinute`
(and requests shorter than a minute) in `Requests`, `MaxRows` of deliveries in `Webhooks`; identifiers are not
reused in `CaseIntake`, `CaseReview`, `Correlation` and `Upload`, which bounds creations by the number of `CaseIds`.
Time spans are scaled down (a window of 12, 2 or 1 ticks); what counts is that alerts fall inside, at and
outside them. Two enrichments with a cache of two entries evict each other's answers; a table of one job prunes
jobs that still run.

Fairness. `CaseIntake`, `Scoring`, `CaseReview`, `Correlation` and `Upload` assume none: their properties are
safety properties, and handlers may stop anywhere (`Crash`, `DatabaseError`, `Fault`). `ThreatIntel` assumes that time
passes (`Tick`). `Enrichment` assumes that an enrichment that has begun goes on: it is straight-line code whose
calls have time limits. `Platform` assumes that a pool thread that can go on does (the same reason), that the event
loop wakes its sleeping tasks, and that days pass. Nothing is assumed of clients, analysts, providers or feeds;
`JobsEnd` excuses a restart, `OutageForgotten` providers that keep failing.

Deadlock checking is off where the system may really stop: `scoring` (a scored alert is final), `correlation`,
`upload` and `platform` (runs, uploads, acts and minutes are used up).

### Properties worth knowing

- `NoDuplicateAfterStore`: an alert stored before a submission of it arrived is not stored again by
  that submission, unless every case that held it is gone or the one the check had found was deleted
  before it could be read. Concurrent first submissions are a different matter (`intake_race`).
- `SourcelessOnlyWhenTorn`: a case no later duplicate check can find exists only while its handler
  is between its two commits, or because the handler died there.
- `AnswersStandForAlert`: a handler never answers with another tenant's case or a case that is gone.
- `UnverifiedNeverCritical`, `CappedNeverHigh`: although points are added after the caps, they never lift a case out of
  the band the caps are meant to keep it in.
- `NoEvidenceStaysBounded`: without a positive signal that counts a score ends at 31 at most: the cap of 20, 3 for the
  hour and 8 for the asset or user. The run reaches 31. (What the documentation makes of a score of 31: below.)
- `LoopComputesReference`: the iterations add up what sorting, weighing each signal by its rank, and summing would give.
- `TimedIffDecided`: racing analysts may both take the first decision, but a decided case always has a
  time to first decision, and an undecided one never.
- `ShownWasDecided`, `ReenrichPreservesDecision`: a row may mix the columns of two decisions, but every
  value it shows was decided, and re-enrichment overlapping a decision does not undo it.

- `LinksHaveCases`: with foreign keys no link names a case that is gone. Without them a run can commit a link to a
  case deleted while it was active, and that is the only way one is left: the cascade of a deletion removes every link there is, and
  no run links a case that had gone before it started.
- `ClustersSound`: a case that needs no rescue is in exactly one cluster once, every member is related to
  an earlier one, and the window holds for all but sprayed and rescued cases.
- `IncidentsFollowLinks`: count and severity agree with the links, however incidents were created and
  merged, while runs do not overlap, none is cut short, no linked case is deleted and no deleted one linked. Two overlapping merges
  lose this: the one that stores last may have read before the other linked its cases.
- `NewIncidentsAreOfNewUsers`: runs that do not overlap merge rather than create whenever they could have.
- `ReuploadDeduplicates`: no second case for the same rows of a file, also after uploads that failed or were lost
  between two groups, if all its rows carry a time (without one the identity holds the time of processing).
- `NoiseNeverHidesSevere`: the case that is closed may be an older one than the group; the check is on that case.
- `GroupsCoverAlerts`, `GroupsDescribed`: no pass loses an alert but to a duplicate of no lower score, and what a group
  says, computed before duplicates are dropped, is true of what is left.
- `FeedsWhole`: a feed shows all its rows or none, each indicator once, wherever it fails.
- `OutageForgotten`: once providers answer, what the caches give out is what they say. An outage is answered as "clean"
  and cached, so this holds for the expiry of the entries alone.
- `WindowWhole`: index and list agree and stay pruned although alerts come in any order.
- `NoScoreCascade`: signals that claim a decision ("repeat offender", "host repeat target") do not depend on scores.
- `NoveltyFades`: a pair stored again and again stops being rare although counts are overwritten and rows duplicated.
- `RefusedOnlyAtLimit`: lost updates and pruning let requests through, but never refuse one early.
- `CompletedHasResult`: holds because the result is assigned before the status and read after it.
- `JobsEnd`, `DistrustFades`: jobs end though pruned; multipliers recover when no case counts against a signal any more.

### Disagreements between documentation and code

Each has a run that must end in a violation:

- `intake_race`: "Idempotent" ingestion (`ingest.py:82`) stores an alert twice when two submissions overlap.
- `webhook_retry`: the loop that is to "check for failed webhooks and retry them" (`webhook_service.py:96`)
  compares a time with a zone to one without: each pass raises at its first row, and no failed delivery is
  retried.

Met while modelling and not kept as runs:

- Intake. A group is looked up by its first source only (`case_service.py:363`), so a group that overlaps stored alerts
  stores them again. Without foreign keys a deletion between the two commits of a creation leaves source rows of a case
  that is gone (`cases.py:168`).
- Scoring. Points added after the cap lift an unverified case to 76, against "score capped at 65"
  (`src/README.md:53`, `enrichment/__init__.py:535`). Likewise a case in which nothing counts reaches 31, against "the score
  is forced to ≤20" (`src/README.md:19`, also 56). That is "low" by the code, whose medium starts at 35
  (`scoring.py:37`), but "medium" by the documentation, "medium (30-59), low (0-29)" (`docs/architecture.md:49`): all scores
  from 30 to 34 are labelled otherwise than documented. A threat-intelligence hit is rebuilt without its `verified` tier
  (`__init__.py:176`), and dropped entirely when the extractor listed the signal unfired (`__init__.py:174`). A
  denylisted verified signal still lifts the cap (`scoring.py:209`); an additional signal with a reduced multiplier can
  lower the score (`scoring.py:154`); the signal of an authorised administrator is appended after the score was computed
  (`__init__.py:500`); the cap at 20 is skipped for an empty list (`scoring.py:226`). A helper "promotes" a signal
  from inferred to observed although observed weighs 0.4 and inferred 0.6 (`scoring.py:8`): confirmation by
  structured fields lowers the score.
- Review. A case deleted while a batch re-enriches it ends the whole batch, against "a single failure doesn't abort
  the whole batch" (`admin.py:227`). Re-enrichment between the two commits of a creation leaves the signals of both runs
  (`case_service.py:768`); overlapping re-enrichments can leave the score of one beside the signals of the other, because the
  ORM leaves out a score equal to the loaded one (`case_service.py:748`).
- Correlation. Without foreign keys the commit of a run can leave a link to a case deleted meanwhile
  (`incident_service.py:532`, `LinksHaveCases`). A case decided benign is linked when it is rescued or sprayed, against "Skip cases that have been
  dispositioned" (`clustering.py:353`). The spray rule ignores its window (`clustering.py:120`); a cluster without users
  becomes a new incident in every run (`incident_service.py:272`); the boost repeats with every run and lowers a score of 71
  to 74 in an incident of 70 (`incident_service.py:680`).
- Upload. A group that sprays an address, whose first alert has no time though others do, is stored again by an upload
  more than the search window later: only the first source is looked up, and it holds the time of processing
  (`case_service.py:363`, `ingestion.py:1032`). Small uploads and the batch route give row i the identity "batch:i" (`demo_ingestion.py:63`), so the
  second small upload of a tenant is answered with the cases of the first. The claim that buckets make grouping independent
  of the order of alerts does not hold (`grouping.py:119`). The texts of groups are long enough that the noise rule rarely applies to them;
  grouped uploads skip the suppression rules; no code sets the status "auto_closed". The upload route is a
  coroutine that parses and enriches small files on the event loop, which stops every other request meanwhile.
- Threat intelligence. Providers swallow errors, so an outage is cached as a clean verdict for the life of the entry. Tags that
  mark an indicator benign never take effect. ThreatFox indicators keep their case while lookups are in lower case. The
  notes of the last lookup are shared by all threads (`threat_intel.py:505`).
- Evidence. An event time with a zone makes several history checks raise, and their signals are lost. The
  frequency check always raises. "Previous cases" of an internal address include later cases and the case itself; a
  case in an incident counts itself as prior. Re-enrichment registers the alert again in the window
  (`cross_alert.py:113`). Relationship rows are selected and then inserted: duplicates and lost counts (`entity_graph.py:86`); a label
  says "seen at most 2 times" where the code says 5. The comparison with peers spans tenants.
- Rate limit and jobs. Lost updates admit more requests than the limit (`auth.py:105`); two threads that prune
  at once answer one request with a 500 (`auth.py:109`). A polled job can be "failed" without its error yet; a pruned or lost job is
  a 404.
- Learning. Feedback and telemetry are stored and never weighed; negative weights yield a multiplier of 2.0, above
  the documented 1.3; the branch at 0.5 can go below the documented minimum; benign decisions of suppression rules count as
  an analyst's.
- Loops. Retention compares times as the retry loop does: nothing ever expires. The targets configured per tenant are
  never used by delivery. The live feed unpacks three values into two (`ws.py`), so no connection with a key is accepted.


## Proofs

TLAPS checks, for every value of the constants that satisfies the modules' assumptions:

- `CaseIntakeProofs!TypeCorrect`, `NoDuplicateAfterStoreHolds`, `SourcelessOnlyWhenTornHolds`. The
  inductive invariant adds to type correctness: a worker between the two commits owns a case that no
  other worker owns and whose identifier is used; the source rows of a case that is live and not torn
  appear with the second commit and disappear only with the case; and a worker past the source check
  saw every case recorded in `stored` die, because source rows of a live case are never removed. The
  last fact is why the check need not be repeated before the insert as far as alerts stored earlier are
  concerned.
- `CaseIntakeProofs!AnswersStandForAlertHolds`: the invariant `StandInv` says that what a handler holds (the case
  it found or inserted) stands for its alert for as long as the case lives; a row's identity never changes and
  no identifier is drawn twice, so the case cannot turn into another between the check and the answer.
  `NoOrphanSourcesHolds` is proved under `ForeignKeys`; the run `intake_serial` shows the same without them for one handler.
- `CaseIntakeProofs!IntakeImplementsRegistryHolds`: with one handler at a time, and alerts that carry an
  identity, every step of intake is a step of `AlertRegistry` or none. The invariant `Alone` says what the handler knows
  between the check and its commits still holds, which is what a second handler breaks (`intake_race`).
- `ScoringProofs!TypeCorrect`, `UnverifiedNeverCriticalHolds`, `CappedNeverHighHolds`,
  `NoEvidenceStaysBoundedHolds`. The inductive invariant (`CapInv`) says what the caps leave of the score
  when `Total` is taken and bounds what `AdjustScore` can add (at most 11 points) against the distance
  to the next label; the administrator's row, appended last, is negative and cannot change which caps
  applied. Lemmas bound `Percent`, `Clamp`, `CapIf` and `Adjusted`. `DenylistKeepsSuppressionHolds` follows from
  `SubtractInv`: while rows are subtracted, the sum is at most the weight of each suppressing row already taken.
- `ScoringProofs!LoopComputesReferenceHolds`, for any list of signals. The reference weighs each counted signal by the number
  of better ones, however the loop goes about it. `LoopInv` says what the loops have summed so far: the reference's points of the
  rows left (`PointsOf`), no more and no less; that `taken` counts the positive ones among them; and that each of those is better
  than every row still to be taken, so that the rank of the best row left is `taken` (`RankOfBest`). A sum along a list changes
  by what one of its numbers changes by (`SumChanges`), whatever the order in which the loop visits positions.
- `CaseReviewProofs!TypeCorrect`, `ShownWasDecidedHolds`, `TimedIffDecidedHolds`, `ReenrichPreserves`. `Typed` adds to type correctness that a busy handler
  has a case and that one about to commit has a loaded row. `DecisionCommitted` and `ReenrichCommitted`
  say what the ORM's column-wise write amounts to: a decision's commit writes a column with its event's
  value or not at all, a re-enrichment's changes the score alone; from these `ShownWasDecided` is
  inductive and `ReenrichPreservesDecision` follows. `TimedIffDecided` is not inductive: a handler that
  counted a prior event commits later, when that event may be gone with its case. `ReviewInv` adds that
  the case of such a handler has a drawn identifier, and that while it exists its history is not empty;
  identifiers are never drawn twice, so the case cannot come back without its history.
- `CaseReviewProofs!SignalsOfOneRunHolds`, `ScoreMatchesSignalsHolds`, `ShowsLastDecisionHolds`, under the
  assumption that there is one worker; failures, stops, lists and missing foreign keys are included. `SerialInv` says that what the
  handler loaded is still what the table holds (so the ORM's column-wise write stores what was assigned), that
  a case between its two commits has no signals yet, and that identifiers not drawn have no children.
  With two workers all three can be violated (see "Met while modelling" and `ShownWasDecided`): the theorems say the races are the only cause.
- `UploadProofs!GroupsCoverAlertsHolds`, `GroupsDescribedHolds`, for every list of alerts. A selection by key puts each
  element into exactly the list of its key (`ByKeyClasses`, `ClassOf`). From this, pass by pass: every group has alerts, scores the best of
  theirs and is no less severe than any (`GroupsOK`, kept by taking duplicates out because the best of equal alerts stays, and
  by merging because the description is recomputed); and every alert is somewhere (`Somewhere`), as itself, retyped, or as a
  duplicate that scores no less (`StandsFor`). `GroupsSound` puts the passes together.
- `UploadProofs!UploadTypes`: `WorkInv` adds to the types that a row is reported once, when it is left
  (`Len(results) = at - 1`), that rows and enriched alerts are what the passes expect, and that the groups at work fit the alerts.
  The proof corrected the model's bound on groups: since one alert may be in several spray groups, there can be more
  groups than rows.
- `UploadProofs!ReuploadDeduplicatesHolds`: `CasesInv` ties the identities of a stored case to its rows: a batch case has
  the position of its one row, any other has for each row with a time the identity made of it, and no identity of any
  other row. Two cases of one route with the same timed rows therefore share all identities (`SameIdentities`), one of
  which was looked up among all live cases before the later one was inserted. The lookup and the insert are one step of this model
  (what overlapping requests make of them is `intake_race`).
- `UploadProofs!NoiseNeverHidesSevereHolds`: every live row has the columns a close writes or must not, and a close
  looks at the row it closes.
- `PlatformProofs!RefusedOnlyAtLimitHolds`: an entry of the counters that is of the current minute, or
  about to be written for it, counts no more than the requests the minute has let pass. Lost updates only lower the count,
  and an entry of an earlier minute is never read as one of this minute (`ReqInv`).
  `CompletedHasResultHolds`: a job is in the hands of one worker; the status of a record changes once, after its result
  was assigned; and a client reads status before result (`JobInv`).

- `CorrelationProofs!CorrelationTypeCorrect`, `LinksHaveCasesHolds`, `IncidentsFollow`, `NewUsersNewIncidents`, for any threads,
  cases, windows and thresholds, with and without foreign keys (the run checks the weaker database). The invariant `CorrelationInv` adds to types and phases: the user and severity of a case never change, so
  what a run's session holds of a case still there is true (`ColumnsStay`), and an identifier that was linked is not
  stored again; without overlap only one run is active (`OneRun`); what a run has added and not committed counts its links, is
  as severe as its cases and shares no user with an incident that was open (`NewOK`); and while nothing overlapped,
  stopped or lost a linked case, every incident says what is true of its links, except the one a merge is working on, for
  which storing what the run computed will make it true again (`Follows`). `NewOK` is what makes the choice "merge or
  create", taken with rows read before, still right at the commit. Lemmas bound the score and the severity of an incident and
  the boost of a case for every list of cases. `LinksHaveCases` needs that whatever a run holds and may still link (its rows, its
  clusters, the incidents it has added) names cases that are stored or went while it was active (`Holds`, `LinksWithin`).
- `CorrelationProofs!ClustersAreSound`, for any number of cases, users, addresses and any order of cases of one time. Each cluster
  is kept `Formed` by each of the three passes: what it is known by is what its members have (`Anchored`), so a link of the
  threshold's strength, or a rescue, ties the new case to a member before it (`SharedEntity`, `StrongLink`); and as long as
  its members are all firm they lie within the window, because cases come in the order of their times
  (`WhereInOrder`) and a link measures from the earliest one. `OnceEach` says where the firm cases are: those placed so far
  in one spot, unless they are left out on purpose, the others nowhere; a rescue or a second link concerns weak cases only, and
  sprays hold no firm case. `PlaceStep` carries both through one case, `WholePass` through all of them.
- `ThreatIntelProofs!FeedsWholeHolds`: `FeedsOK` says what the session of a feed sees after each row: the committed
  table, and of the rows taken so far the last one for each indicator (`After`); after the last row that is `Whole`. A
  failure drops it. `IntelTypeCorrect`: `IntelInv` with lemmas about the cache: `put` removes the entry of its key before it
  appends and cuts from the oldest end, so no key is stored twice and the limit holds, whatever threads ask meanwhile.
- `EnrichmentProofs!WindowAgrees`: list and index stay equal key by key because the age of an entry does not depend on
  its key, so taking the young entries and taking those of a key commute (`WhereBoth`, `WhereConcat`); that no entry is
  older by more than the window than a later one (`Ordered`) follows although alerts come in any order, because each registration
  prunes by its own time. `DecisionsAlone`: each of the checks that claim a decision selects the same cases when the scores are taken away.
  `EnrichmentTypeCorrect`: a thread finds a pair absent only while the pair has no row, so its rows and the threads that
  will insert one are together no more than the threads (`RelsOK`), which bounds the duplicates of `entity_graph.py:86`.

Assumptions are the named ASSUMEs of the modules (typing and finiteness of the constants, distinct feeds); TLC
evaluates them in the runs. The provers cannot instantiate the library's induction theorems, whose parameter is an operator;
what is proved about a list of any length (`Folded`, `Where`) goes through sets instead: a set of numbers that has 0 and,
with every number but the last, the next one, has them all (`UpTo`), which follows from the least element of what is left out.

Only model-checked: the liveness properties (`OutageForgotten`, `NoveltyFades`, `JobsEnd`, `DistrustFades`), which are
beyond the prover. Every invariant and action property that a run checks is a theorem as well; where a theorem has a
further hypothesis (foreign keys, one handler at a time), the entry above says so.

## Plan

1. Done: `CaseIntake` (with the registry, its refinement and proofs), `Scoring`, `CaseReview` (with proofs).
2. Done: `Clustering` and `Correlation`.
3. Done: `Verdicts`, `ThreatIntel`; `Evidence`, `Enrichment`; `Detectors`.
4. Done: `Grouping`, `Upload`, and what is proved of it.
5. Done: `Requests`, `Jobs`, `Webhooks` (with retention), `Learning`, composed in `Platform`, with proofs.
6. Done: proofs about `ThreatIntel`, `Enrichment` and `Correlation`.
7. Done: proofs of all invariants of `Upload`.
8. Done: proofs of `ClustersSound` and of the weighing loop.
9. Left: the live feed once connections can be accepted; tenant configuration.
