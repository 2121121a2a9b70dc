----------------------------- MODULE Enrichment -----------------------------
(* Enrichments of alerts, several at once: each looks at the cases there   *)
(* are, at the entity graph and at the window of recent alerts, and then   *)
(* leaves a case and relationships behind for later ones.                  *)
(* enrichment/__init__.py, cross_alert.py, entity_graph.py and the parts   *)
(* of case_service.py around them.  What the extractors, providers and the *)
(* score make of an alert is modelled in Scoring and ThreatIntel; here a   *)
(* score is any of Scores.                                                 *)
EXTENDS Evidence, SequencesExt, Lists

CONSTANTS Threads,
          Scenes,       \* [alerts, times, scores: sets; threads: those that work;
                        \*  most: a bound on the cases]
          Window, Rapid,            \* 15 and 5 minutes
          MaxWindow                 \* a bound on the window

VARIABLES scene,      \* the alerts that may arrive, when they may have happened, in
                      \* any order, and what they may score
          cases,      \* the case table
          rels,       \* entity_relationships: [pair -> the counts of its rows]
          entries,    \* CrossAlertScanner._entries
          index,      \* CrossAlertScanner._entity_index: [key -> entries]
          job         \* [thread -> its enrichment]

ASSUME EnrichmentAssumption ==
    /\ Window \in Nat /\ IsFiniteSet(Threads)
    /\ \A s \in Scenes :
         /\ s.threads \subseteq Threads /\ s.times \subseteq Int /\ s.most \in Nat
         /\ \A a \in s.alerts : IsFiniteSet(a.ips)

vars == <<scene, cases, rels, entries, index, job>>

Idle == [pc |-> "idle"]

Job(alert, at, zoned, case) ==
    [pc |-> "history", alert |-> alert, at |-> at, zoned |-> zoned, case |-> case, found |-> {}]

Keys(alert) ==
    ({alert.user, alert.host} \ {None}) \cup {i.addr : i \in {a \in alert.ips : a.place # "private"}}

AllAlerts == UNION {s.alerts : s \in Scenes}

AllPairs == UNION {Pairs(a) : a \in AllAlerts}

AllKeys == UNION {Keys(a) : a \in AllAlerts}

OneEach(signals) == \A s, o \in signals : s.name = o.name => s = o

(* Signals are added one by one, each under a name that is still free: of  *)
(* two of one name the first, in any order the addresses may come in.      *)
Plus(found, more) ==
    LET free == {s \in more : \A o \in found : o.name # s.name}
    IN  {found \cup new : new \in {n \in SUBSET free : OneEach(n) /\ \A s \in free : \E o \in n : o.name = s.name}}

Then(t, pc, more) ==
    \E found \in Plus(job[t].found, more) :
        job' = [job EXCEPT ![t] = [job[t] EXCEPT !.pc = pc, !.found = found]]

(* create_case; an upload and a request at the same time are two threads.  *)
Create(t) ==
    /\ t \in scene.threads /\ job[t].pc = "idle"
    /\ Cardinality(cases) < scene.most /\ Len(entries) < MaxWindow
    /\ \E alert \in scene.alerts, at \in scene.times, zoned \in BOOLEAN :
         job' = [job EXCEPT ![t] = Job(alert, at, zoned, 0)]
    /\ UNCHANGED <<scene, cases, rels, entries, index>>

(* re_enrich_case runs the stored alert through everything again; the time *)
(* comes from the database.                                                *)
Reenrich(t) ==
    /\ t \in scene.threads /\ job[t].pc = "idle" /\ Len(entries) < MaxWindow
    /\ \E c \in cases : job' = [job EXCEPT ![t] = Job(c.alert, c.at, FALSE, c.id)]
    /\ UNCHANGED <<scene, cases, rels, entries, index>>

(* The five checks of the case table, with nothing committed in between.   *)
History(t) ==
    LET j == job[t]
        seen == {UserHistory(cases, j.alert, j.at, j.zoned), PeerComparison(cases, j.alert, j.at),
                 AddressesHistory(cases, j.alert, j.at), HostHistory(cases, j.alert, j.at),
                 TransferBaseline(cases, j.alert, j.at), CloudProvider(j.alert)}
    IN  /\ j.pc = "history"
        /\ Then(t, "graph", UNION seen)
        /\ UNCHANGED <<scene, cases, rels, entries, index>>

Graph(t) ==
    LET a == job[t].alert
    IN  /\ job[t].pc = "graph"
        /\ \E seen \in Readings(rels, Pairs(a)) :
             Then(t, "register", Relationships(rels, seen) \cup ProcessRelationships(rels, seen, a)
                                 \cup FrequencyAnomaly(rels) \cup StateDrift(a))
        /\ UNCHANGED <<scene, cases, rels, entries, index>>

(* ----------------------- the window of recent alerts -------------------- *)

Entry(alert, key, at) == [key |-> key, at |-> at, vector |-> alert.vector, type |-> alert.type]

(* Mutant: the old entries are taken to be the first ones.                 *)
KeptFromYoung(s, at) ==
    LET young == {i \in 1..Len(s) : s[i].at >= at - Window}
    IN  IF young = {} THEN <<>> ELSE SubSeq(s, Min(young), Len(s))

Kept(s, at) == Where(s, {e \in Range(s) : e.at >= at - Window})

OfKey(s, k) == Where(s, {e \in Range(s) : e.key = k})

(* register_alert: entries too old for this alert are dropped from the     *)
(* list and from the index, then there is one entry for each of its keys.  *)
Register(t) ==
    LET j == job[t]
        new == SetToSeq({Entry(j.alert, k, j.at) : k \in Keys(j.alert)})
    IN  /\ j.pc = "register"
        /\ entries' = Kept(entries, j.at) \o new
        /\ index' = [k \in AllKeys |-> Kept(index[k], j.at) \o OfKey(new, k)]
        /\ Then(t, "scan", {})
        /\ UNCHANGED <<scene, cases, rels>>

(* scan_for_patterns, for one key; the lock was released in between.       *)
Patterns(s) ==
    LET all == Range(s)
        newest == CHOOSE e \in all : \A o \in all : o.at <= e.at
        types == {e.type : e \in all}
    IN  IF Len(s) < 2 THEN {}
        ELSE When(Cardinality({e.vector : e \in all}) >= 2, "_multiVectorAttack", 12)
             \cup When(Cardinality({e.vector : e \in all}) = 1, "_crossAlertCorroboration", 8)
             \cup When(Cardinality({i \in 1..Len(s) : s[i].at >= newest.at - Rapid}) >= 3,
                       "_rapidEscalation", 10)
             \cup When("exfil" \in types /\ types \cap {"transfer", "signin"} # {},
                       "_dlpCorroborated", 15)

Scan(t) ==
    /\ job[t].pc = "scan"
    /\ Then(t, "case", UNION {Patterns(index[k]) : k \in Keys(job[t].alert)})
    /\ UNCHANGED <<scene, cases, rels, entries, index>>

(* ------------------------ what an enrichment leaves --------------------- *)

InUse == {c.id : c \in cases} \cup {job[t].case : t \in {u \in Threads : "case" \in DOMAIN job[u]}}

NewId(id) ==
    LET free == (1..(scene.most + Cardinality(Threads))) \ InUse
    IN  id \in free /\ \A other \in free : id <= other

(* A new case is committed before its relationships are stored.            *)
Persist(t) ==
    LET j == job[t]
    IN  /\ j.pc = "case" /\ j.case = 0
        /\ \E score \in scene.scores, id \in 1..(scene.most + Cardinality(Threads)) :
             /\ NewId(id)
             /\ cases' = cases \cup {[id |-> id, alert |-> j.alert, at |-> j.at,
                                      score |-> score, confirmed |-> FALSE, linked |-> FALSE]}
        /\ job' = [job EXCEPT ![t] = [pc |-> "read", alert |-> j.alert]]
        /\ UNCHANGED <<scene, rels, entries, index>>

(* A case enriched again changes its score only.                           *)
Rescore(t) ==
    LET j == job[t]
    IN  /\ j.pc = "case" /\ j.case # 0
        /\ \E score \in scene.scores :
             cases' = {IF c.id = j.case THEN [c EXCEPT !.score = score] ELSE c : c \in cases}
        /\ job' = [job EXCEPT ![t] = Idle]
        /\ UNCHANGED <<scene, rels, entries, index>>

(* extract_and_store_relationships selects the row of each pair and then   *)
(* writes the count it found, plus one, or a new row.                      *)
ReadPairs(t) ==
    /\ job[t].pc = "read"
    /\ \E rows \in [Pairs(job[t].alert) -> 0..Cardinality(Threads)] :
         /\ \A p \in DOMAIN rows :
              IF rels[p] = <<>> THEN rows[p] = 0 ELSE rows[p] \in 1..Len(rels[p])
         /\ job' = [job EXCEPT ![t] =
              [pc |-> "write",
               rows |-> [p \in DOMAIN rows |-> [row |-> rows[p],
                           count |-> IF rows[p] = 0 THEN 0 ELSE rels[p][rows[p]]]]]]
    /\ UNCHANGED <<scene, cases, rels, entries, index>>

(* Counts above RareUpTo are all the same to the checks.                   *)
Next1(count) == IF count > RareUpTo THEN count ELSE count + 1

(* Mutant: the row of a pair seen before is written back as it was.        *)
WrittenBack(old, r) ==
    IF r.row = 0 THEN Append(old, 1) ELSE [old EXCEPT ![r.row] = r.count]

(* Mutant: a pair seen before gets another row.                            *)
WrittenAnew(old, r) == Append(old, Next1(r.count))

Written(old, r) ==
    IF r.row = 0 THEN Append(old, 1) ELSE [old EXCEPT ![r.row] = Next1(r.count)]

WritePairs(t) ==
    LET rows == job[t].rows
    IN  /\ job[t].pc = "write"
        /\ rels' = [p \in AllPairs |-> IF p \in DOMAIN rows THEN Written(rels[p], rows[p]) ELSE rels[p]]
        /\ job' = [job EXCEPT ![t] = Idle]
        /\ UNCHANGED <<scene, cases, entries, index>>

(* An error while storing is caught; the case stays.                       *)
StoreFails(t) ==
    /\ job[t].pc \in {"read", "write"}
    /\ job' = [job EXCEPT ![t] = Idle]
    /\ UNCHANGED <<scene, cases, rels, entries, index>>

(* --------------------------------- others ------------------------------- *)

(* An analyst decides about a case, or changes the decision.               *)
Decide ==
    /\ \E c \in cases : cases' = (cases \ {c}) \cup {[c EXCEPT !.confirmed = ~@]}
    /\ UNCHANGED <<scene, rels, entries, index, job>>

(* Correlation puts a case into an incident.                               *)
Correlate ==
    /\ \E c \in {x \in cases : ~x.linked} : cases' = (cases \ {c}) \cup {[c EXCEPT !.linked = TRUE]}
    /\ UNCHANGED <<scene, rels, entries, index, job>>

(* A case is deleted; its relationships and its entries stay.              *)
Delete ==
    /\ \E c \in cases : cases' = cases \ {c}
    /\ UNCHANGED <<scene, rels, entries, index, job>>

Restart ==
    /\ job' = [t \in Threads |-> Idle]
    /\ entries' = <<>> /\ index' = [k \in AllKeys |-> <<>>]
    /\ UNCHANGED <<scene, cases, rels>>

Init ==
    /\ scene \in Scenes
    /\ cases = {} /\ rels = [p \in AllPairs |-> <<>>]
    /\ entries = <<>> /\ index = [k \in AllKeys |-> <<>>]
    /\ job = [t \in Threads |-> Idle]

Step(t) ==
    \/ History(t) \/ Graph(t) \/ Register(t) \/ Scan(t)
    \/ Persist(t) \/ Rescore(t) \/ ReadPairs(t) \/ WritePairs(t) \/ StoreFails(t)

Next ==
    \/ \E t \in Threads : Create(t) \/ Reenrich(t) \/ Step(t)
    \/ Decide \/ Correlate \/ Delete \/ Restart

(* An enrichment that has begun goes on; nothing is assumed of anyone else.*)
Spec == Init /\ [][Next]_vars /\ \A t \in Threads : WF_vars(Step(t))

(* ------------------------------ properties ------------------------------ *)

(* Types; an enrichment has one signal of a name, and a pair has no more   *)
(* rows than enrichments could have inserted before they saw one.          *)
TypeOK ==
    /\ scene \in Scenes
    /\ \A c, d \in cases : c.id = d.id => c = d
    /\ \A p \in AllPairs : Len(rels[p]) <= Cardinality(scene.threads)
    /\ \A t \in Threads :
         "found" \in DOMAIN job[t] => OneEach(job[t].found)

(* cross_alert.py: the list and the index of the window agree whatever the *)
(* order alerts arrive in, and no entry is older by more than the window   *)
(* than an alert registered after it.                                      *)
WindowWhole ==
    /\ \A k \in AllKeys : index[k] = OfKey(entries, k)
    /\ \A i, j \in 1..Len(entries) : i < j => entries[i].at >= entries[j].at - Window

Verified(signals) ==
    {s \in signals : s.name \in {"repeat_offender", "host_repeat_target", "host_in_prior_incident"}}

Unscored(s) == {[c EXCEPT !.score = 0] : c \in s}

(* "Disposition-only: no confidence_score fallback (cascade risk)"         *)
(* (historical.py): what scores the program has given earlier cases never  *)
(* makes a difference to the signals that claim an analyst's decision, in  *)
(* any state of the case table and for any alert that could come next.     *)
NoScoreCascade ==
    \A a \in scene.alerts, at \in scene.times :
        LET history(s) == Verified(UserHistory(s, a, at, FALSE) \cup HostHistory(s, a, at))
        IN  history(cases) = history(Unscored(cases))

Stores(t, p) == WritePairs(t) /\ p \in DOMAIN job[t].rows

(* A relationship that is stored again and again stops being new or rare   *)
(* in some row of its own, although enrichments that run at the same time  *)
(* overwrite each other's counts and insert rows twice. (entity_graph.py)  *)
NoveltyFades ==
    \A p \in AllPairs :
        []<><<\E t \in Threads : Stores(t, p)>>_vars
            => <>[](\E i \in 1..Len(rels[p]) : rels[p][i] > RareUpTo)
=============================================================================
