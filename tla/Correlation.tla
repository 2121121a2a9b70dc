---------------------------- MODULE Correlation ----------------------------
(***************************************************************************)
(* Runs of the correlation engine over the stored cases of one tenant.     *)
(* Every ingest starts one in the background, and an analyst may ask for   *)
(* one, so runs overlap each other and everything else: cases arriving,    *)
(* being decided and being deleted.                                        *)
(*                                                                         *)
(* A run clusters the cases it read at its start and takes the clusters    *)
(* in turn.  A cluster that shares a user with an incident that was open   *)
(* at the start is merged into it: one commit links the cases, a second    *)
(* stores what the incident makes of all its cases.  Another cluster may   *)
(* become an incident, which others see at the run's next commit.  At the  *)
(* end the run raises the scores of the cases of strong incidents.         *)
(*                                                                         *)
(* Abstractions.  No code closes an incident, so none is frozen and the    *)
(* filter on closed incidents is left out.  A list of incidents is read in *)
(* an unspecified order.  Of an incident the model keeps what is computed  *)
(* from its cases and compared by a property.                              *)
(***************************************************************************)
EXTENDS Clustering

CONSTANTS
    Runners,      \* threads of the server's pool that correlate
    Scenarios,    \* what intake may store: functions from CaseIds to case rows
    MaxRuns,      \* bound: correlation runs
    MaxEdits,     \* bound: decisions and deletions of cases
    ForeignKeys,  \* TRUE: the database enforces foreign keys (PostgreSQL);
                  \* FALSE: it does not (SQLite as engine configures it)
    NoCase

ASSUME CorrelationAssumption ==
    /\ IsFiniteSet(CaseIds)
    /\ SprayUsers \in Nat \ {0} /\ Window \in Nat
    /\ Scenarios \subseteq [CaseIds -> CaseRow \cup {NoCase}]
    /\ ForeignKeys \in BOOLEAN
    /\ NoCase \notin CaseRow

VARIABLES
    incoming,     \* the cases that intake will store
    cases,        \* the case rows correlation reads
    incidents,    \* incident rows in the order they were committed, with their link rows
    pc,           \* where each run is
    seen,         \* the case rows as the run's session holds them
    open,         \* the incidents the run found open at its start
    todo,         \* clusters the run has still to take
    made,         \* incidents the run has added and not committed
    target,       \* the incident the run is merging into
    fresh,        \* what the run computed for it, beside the row it started from
    started,      \* runs started so far
    edited,       \* decisions and deletions so far
    overlapped,   \* history: two runs have been active at once
    torn,         \* history: a run stopped early, a linked case was deleted or
                  \* a deleted case was linked
    raced         \* history: the cases that were deleted while a run was active

vars == <<incoming, cases, incidents, pc, seen, open, todo, made, target, fresh,
          started, edited, overlapped, torn, raced>>
tables == <<incoming, cases, incidents, edited, raced>>
local  == <<seen, open, todo, made, target, fresh>>

(* Every link row names a case; a case that is gone is skipped when the    *)
(* rows are read.                                                          *)
Linked(incident) == ToSet(incident.links)
LiveLinked(incident) == {c \in Linked(incident) : cases[c] # NoCase}
UsersOf(incident) == Named({cases[c].user : c \in LiveLinked(incident)})
LinkedList(incident) == Where(incident.links, LiveLinked(incident))

Active(r) == pc[r] # "idle"
Idle == \A r \in Runners : ~Active(r)

TypeOK ==
    /\ \A c \in CaseIds : cases[c] = NoCase \/ cases[c].score \in 0..100
    /\ \A k \in DOMAIN incidents :
          /\ incidents[k].score \in 0..100 /\ incidents[k].severity \in 0..3
          /\ incidents[k].count \in Nat /\ incidents[k].links \in Seq(CaseIds)
    /\ pc \in [Runners -> {"idle", "cluster", "refresh", "store", "boost"}]
    /\ open \in [Runners -> 0..Len(incidents)]
    /\ \A r \in Runners : pc[r] \in {"refresh", "store"} => target[r] \in 1..open[r]

Init ==
    /\ incoming \in Scenarios
    /\ cases = [c \in CaseIds |-> NoCase]
    /\ incidents = <<>>
    /\ pc = [r \in Runners |-> "idle"]
    /\ seen = [r \in Runners |-> [c \in CaseIds |-> NoCase]]
    /\ open = [r \in Runners |-> 0]
    /\ todo = [r \in Runners |-> <<>>]
    /\ made = [r \in Runners |-> <<>>]
    /\ target = [r \in Runners |-> 0]
    /\ fresh = [r \in Runners |-> <<>>]
    /\ started = 0
    /\ edited = 0
    /\ overlapped = FALSE
    /\ torn = FALSE
    /\ raced = {}

-----------------------------------------------------------------------------
(* The rest of the system: intake stores a case, an analyst decides one    *)
(* (or opens it again), a tenant deletes one with its links.               *)

Arrive(c) ==
    /\ cases[c] = NoCase /\ incoming[c] # NoCase
    /\ cases' = [cases EXCEPT ![c] = incoming[c]]
    /\ incoming' = [incoming EXCEPT ![c] = NoCase]
    /\ UNCHANGED <<incidents, pc, local, started, edited, overlapped, torn, raced>>

Decide(c) ==
    /\ cases[c] # NoCase /\ edited < MaxEdits
    /\ cases' = [cases EXCEPT ![c].dismissed = ~@]
    /\ edited' = edited + 1
    /\ UNCHANGED <<incoming, incidents, pc, local, started, overlapped, torn, raced>>

Gone(c) ==
    /\ cases[c] # NoCase /\ edited < MaxEdits
    /\ cases' = [cases EXCEPT ![c] = NoCase]
    /\ edited' = edited + 1
    /\ raced' = IF Idle THEN raced ELSE raced \cup {c}
    /\ torn' = (torn \/ \E k \in DOMAIN incidents : c \in Linked(incidents[k]))

(* Mutant: the cascade forgets the link table. *)
DeleteKeepingLinks(c) ==
    /\ Gone(c)
    /\ UNCHANGED <<incoming, incidents, pc, local, started, overlapped>>
Delete(c) ==
    /\ Gone(c)
    /\ incidents' = [k \in DOMAIN incidents |->
                        [incidents[k] EXCEPT !.links = Where(@, CaseIds \ {c})]]
    /\ UNCHANGED <<incoming, pc, local, started, overlapped>>

-----------------------------------------------------------------------------
(* correlate_incidents. *)

Stop(r) ==
    /\ pc' = [pc EXCEPT ![r] = "idle"]
    /\ seen' = [seen EXCEPT ![r] = [c \in CaseIds |-> NoCase]]
    /\ open' = [open EXCEPT ![r] = 0]
    /\ todo' = [todo EXCEPT ![r] = <<>>]
    /\ made' = [made EXCEPT ![r] = <<>>]
    /\ target' = [target EXCEPT ![r] = 0]
    /\ fresh' = [fresh EXCEPT ![r] = <<>>]

Goto(r, step) == pc' = [pc EXCEPT ![r] = step]

(* A commit expires what the session has loaded: later reads see the rows  *)
(* of after the commit. *)
Reloaded(r) == seen' = [seen EXCEPT ![r] = cases]

Start(r) ==
    LET stored == {c \in CaseIds : cases[c] # NoCase}
    IN  /\ pc[r] = "idle" /\ started < MaxRuns
        /\ stored # {}
        /\ Goto(r, "cluster")
        /\ Reloaded(r)
        /\ open' = [open EXCEPT ![r] = Len(incidents)]
        /\ \E order \in Orders(cases, stored) :
              todo' = [todo EXCEPT ![r] = ClusterCases(cases, order)]
        /\ started' = started + 1
        /\ overlapped' = (overlapped \/ ~Idle)
        /\ UNCHANGED <<tables, made, target, fresh, torn>>

Cases(r) == Head(todo[r]).cases
Readable(r) == \A c \in ToSet(Cases(r)) : seen[r][c] # NoCase
(* Mutant: only an incident of exactly the cluster's users is merged into. *)
MatchesOfSameUsers(r) ==
    {k \in 1..open[r] : NamedUsers(seen[r], Cases(r)) = UsersOf(incidents[k])}
Matches(r) ==
    {k \in 1..open[r] : NamedUsers(seen[r], Cases(r)) \cap UsersOf(incidents[k]) # {}}

(* Links are foreign keys: a database that enforces them refuses a commit  *)
(* that links a case that is gone, another one keeps the dangling link.    *)
Dangles(list) ==
    \E k \in DOMAIN list : \E c \in Linked(list[k]) : cases[c] = NoCase
CanCommit(list) == ForeignKeys => ~Dangles(list)

(* A case already linked is not linked again, even if listed twice.        *)
WithLinks(links, list) ==
    Folded(LAMBDA known, c : IF c \in ToSet(known) THEN known ELSE Append(known, c), links, list)

Merge(r) ==
    /\ pc[r] = "cluster" /\ todo[r] # <<>>
    /\ Readable(r)
    /\ \E k \in Matches(r) :
          LET merged == [incidents EXCEPT ![k].links = WithLinks(@, Cases(r))]
          IN  /\ CanCommit(<<merged[k]>> \o made[r])
              /\ torn' = (torn \/ Dangles(<<merged[k]>> \o made[r]))
              /\ incidents' = merged \o made[r]
              /\ target' = [target EXCEPT ![r] = k]
    /\ made' = [made EXCEPT ![r] = <<>>]
    /\ todo' = [todo EXCEPT ![r] = Tail(@)]
    /\ Goto(r, "refresh")
    /\ Reloaded(r)
    /\ UNCHANGED <<incoming, cases, open, fresh, started, edited, overlapped, raced>>

(* The columns re-derived from every linked case; a single stage leaves    *)
(* severity and score as they are. *)
(* Mutant: severity stays what it was when the incident was created. *)
DerivedKeepingSeverity(incident) ==
    LET list   == LinkedList(incident)
        stages == StagesOf(cases, list)
    IN  [links    |-> incident.links,
         stages   |-> stages,
         count    |-> Len(list),
         severity |-> incident.severity,
         score    |-> IF Cardinality(stages) >= 2
                      THEN CompoundBoost(cases, list, stages, Confidence(cases, list, stages))
                      ELSE incident.score]
Derived(incident) ==
    LET list   == LinkedList(incident)
        stages == StagesOf(cases, list)
        chain  == Cardinality(stages) >= 2
    IN  [links    |-> incident.links,
         stages   |-> stages,
         count    |-> Len(list),
         severity |-> IF chain THEN ChainSeverity(cases, list, stages) ELSE incident.severity,
         score    |-> IF chain THEN CompoundBoost(cases, list, stages,
                                                  Confidence(cases, list, stages))
                      ELSE incident.score]

Refresh(r) ==
    LET incident == incidents[target[r]]
    IN  /\ pc[r] = "refresh"
        /\ IF LinkedList(incident) = <<>>
           THEN /\ Goto(r, "cluster")
                /\ target' = [target EXCEPT ![r] = 0]
                /\ UNCHANGED fresh
           ELSE /\ Goto(r, "store")
                /\ fresh' = [fresh EXCEPT ![r] = [old |-> incident, new |-> Derived(incident)]]
                /\ UNCHANGED target
        /\ UNCHANGED <<tables, seen, open, todo, made, started, overlapped, torn>>

(* The ORM writes the columns whose value differs from the loaded one.     *)
Column(now, old, new) == IF new # old THEN new ELSE now
Updated(row, old, new) ==
    [links    |-> row.links,
     stages   |-> Column(row.stages, old.stages, new.stages),
     count    |-> Column(row.count, old.count, new.count),
     severity |-> Column(row.severity, old.severity, new.severity),
     score    |-> Column(row.score, old.score, new.score)]

Store(r) ==
    /\ pc[r] = "store"
    /\ incidents' = [incidents EXCEPT ![target[r]] = Updated(@, fresh[r].old, fresh[r].new)]
    /\ target' = [target EXCEPT ![r] = 0]
    /\ fresh' = [fresh EXCEPT ![r] = <<>>]
    /\ Goto(r, "cluster")
    /\ Reloaded(r)
    /\ UNCHANGED <<incoming, cases, open, todo, made, started, edited, overlapped, torn, raced>>

Incident(list, severity, score, stages) ==
    [links |-> list, stages |-> stages, count |-> Len(list), severity |-> severity,
     score |-> score]

PatternIncident(rows, list) ==
    LET stages == StagesOf(rows, list)
    IN  Incident(list, PatternSeverity(Total(rows, list, "alerts"), Highest(rows, list, "score")),
                 CompoundBoost(rows, list, stages, PatternConfidence(rows, list)), stages)
ChainIncident(rows, list) ==
    LET stages == StagesOf(rows, list)
    IN  Incident(list, ChainSeverity(rows, list, stages),
                 CompoundBoost(rows, list, stages, Confidence(rows, list, stages)), stages)

(* A cluster that matches no open incident becomes one if it spans two     *)
(* stages or is a pattern of many alerts, and is left alone otherwise.     *)
Create(r) ==
    LET list == Cases(r)
        rows == seen[r]
    IN  /\ pc[r] = "cluster" /\ todo[r] # <<>>
        /\ Readable(r)
        /\ Matches(r) = {}
        /\ made' = [made EXCEPT ![r] =
              IF Cardinality(StagesOf(rows, list)) >= 2 THEN Append(@, ChainIncident(rows, list))
              ELSE IF IsPattern(rows, list) THEN Append(@, PatternIncident(rows, list))
              ELSE @]
        /\ todo' = [todo EXCEPT ![r] = Tail(@)]
        /\ UNCHANGED <<tables, pc, seen, open, target, fresh, started, overlapped, torn>>

Finish(r) ==
    /\ pc[r] = "cluster" /\ todo[r] = <<>>
    /\ CanCommit(made[r])
    /\ torn' = (torn \/ Dangles(made[r]))
    /\ incidents' = incidents \o made[r]
    /\ made' = [made EXCEPT ![r] = <<>>]
    /\ Goto(r, "boost")
    /\ Reloaded(r)
    /\ UNCHANGED <<incoming, cases, open, todo, target, fresh, started, edited, overlapped, raced>>

(* Once per link row of each strong incident.                              *)
Boosted(score, by, times) ==
    LET f[n \in 0..times] == IF n = 0 THEN score
                             ELSE IF f[n - 1] < 75 THEN AtMost(f[n - 1] + 15, by) ELSE f[n - 1]
    IN  f[times]
Times(incident, c) == Cardinality({n \in DOMAIN incident.links : incident.links[n] = c})
Raised(c, order) ==
    Folded(LAMBDA score, k : Boosted(score, incidents[k].score, Times(incidents[k], c)),
           cases[c].score, order)

Boost(r) ==
    /\ pc[r] = "boost"
    /\ \E order \in SetToSeqs({k \in DOMAIN incidents : incidents[k].score >= 70}) :
          cases' = [c \in CaseIds |-> IF cases[c] = NoCase THEN NoCase
                                      ELSE [cases[c] EXCEPT !.score = Raised(c, order)]]
    /\ Stop(r)
    /\ UNCHANGED <<incoming, incidents, started, edited, overlapped, torn, raced>>

(* A case of the cluster is gone, or one that a commit would link and the  *)
(* foreign key refuses.                                                    *)
Fail(r) ==
    /\ pc[r] = "cluster"
    /\ IF todo[r] = <<>> THEN ~CanCommit(made[r])
       ELSE IF ~Readable(r) THEN TRUE
       ELSE /\ Matches(r) # {}
            /\ \/ ~CanCommit(made[r])
               \/ ForeignKeys /\ \E c \in ToSet(Cases(r)) : cases[c] = NoCase
    /\ Stop(r)
    /\ UNCHANGED <<tables, started, overlapped, torn>>

(* A statement fails or the process stops; what the run had not committed  *)
(* is gone, and the background task says nothing of it but in its log.     *)
Fault(r) ==
    /\ Active(r)
    /\ Stop(r)
    /\ torn' = TRUE
    /\ UNCHANGED <<tables, started, overlapped>>

Run(r) == Start(r) \/ Merge(r) \/ Refresh(r) \/ Store(r) \/ Create(r) \/ Finish(r)
          \/ Boost(r) \/ Fail(r)

Next == \/ \E c \in CaseIds : Arrive(c) \/ Decide(c) \/ Delete(c)
        \/ \E r \in Runners : Run(r) \/ Fault(r)

Spec == Init /\ [][Next]_vars

-----------------------------------------------------------------------------
(* Clusters are sound.  A case that needs no rescue and is on no spray     *)
(* address is in exactly one cluster, once (in none, if it is a response   *)
(* or was decided benign); every other member of a cluster shares a user,  *)
(* a device or a public address with a member before it (public to the     *)
(* spray pass or to the weight of a link, whose tests differ); and without *)
(* rescued or sprayed cases a cluster fits into the window.  About         *)
(* cluster_cases, whose three passes each may add a case to a cluster.     *)
Stored == {c \in CaseIds : cases[c] # NoCase}
OnSpray(c, order) ==
    \E ip \in ToSet(cases[c].ips) \ Private : IsSpray(cases, WithIp(cases, order, ip))
Weak(c) == cases[c].score < Threshold(cases[c])
Related(c, d) ==
    \/ EntitiesOf(cases[c]).users \cap EntitiesOf(cases[d]).users # {}
    \/ EntitiesOf(cases[c]).devices \cap EntitiesOf(cases[d]).devices # {}
    \/ (ToSet(cases[c].ips) \cap ToSet(cases[d].ips)) \ (Private \cap Reserved) # {}
Occurrences(clusters, c) ==
    Cardinality(UNION {{i} \X {k \in DOMAIN clusters[i].cases : clusters[i].cases[k] = c} :
                          i \in DOMAIN clusters})
ClustersSound ==
    \A order \in Orders(cases, Stored) :
        LET clusters == ClusterCases(cases, order)
            Firm(c)  == ~Weak(c) /\ ~OnSpray(c, order)
        IN  /\ \A c \in Stored : Firm(c) =>
                  Occurrences(clusters, c) = IF cases[c].response \/ cases[c].dismissed THEN 0 ELSE 1
            /\ \A i \in DOMAIN clusters :
                  LET list == clusters[i].cases
                  IN  /\ \A k \in 2..Len(list) : \E j \in 1..(k - 1) : Related(list[j], list[k])
                      /\ (\A c \in ToSet(list) : Firm(c)) => Span(cases, list) <= Window

(* A link to a case that is gone is left behind only without foreign keys, *)
(* and only for a case deleted while a run that might link it was active:  *)
(* the cascade removes every link there is, and a run links nothing that   *)
(* had gone before it started.  About _cascade_delete_cases and the two    *)
(* commits of correlate_incidents that add links.                          *)
LinksHaveCases ==
    \A k \in DOMAIN incidents : \A c \in Linked(incidents[k]) :
        cases[c] # NoCase \/ (~ForeignKeys /\ c \in raced)

(* What an incident says of itself follows its links: its case count is    *)
(* the number of its links, and an incident of several stages is at least  *)
(* as severe as each of its cases, whichever runs created it and merged    *)
(* into it.  Holds while runs do not overlap, none is cut short, no linked *)
(* case is deleted and no deleted one linked; about the two commits of a   *)
(* merge.                                                                  *)
Settled(k) == ~overlapped /\ ~torn /\ \A r \in Runners : target[r] # k
IncidentsFollowLinks ==
    \A k \in DOMAIN incidents : Settled(k) =>
        /\ incidents[k].count = Len(LinkedList(incidents[k]))
        /\ Cardinality(incidents[k].stages) >= 2 =>
              \A c \in Linked(incidents[k]) : incidents[k].severity >= cases[c].severity

(* Runs that do not overlap give a user who is in an open incident no      *)
(* second one: an incident is committed only if none of its users is in an *)
(* incident its run found open.  About the merge of clusters.              *)
NewIncidentsAreOfNewUsers ==
    [][\A r \in Runners : \A k \in (Len(incidents) + 1)..Len(incidents') :
          /\ made[r] # <<>>
          /\ ~overlapped
          => \A i \in 1..open[r] : UsersOf(incidents[i]) \cap UsersOf(incidents'[k]) = {}]_vars
=============================================================================
