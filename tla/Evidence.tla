------------------------------ MODULE Evidence ------------------------------
(* What the program's own records say about an alert: the cases of its     *)
(* user, host and addresses, the relationships of its entities, the state  *)
(* of its host and the importance of what it touches: historical.py,       *)
(* user_baseline.py, entity_graph.py, cloud_ip_allowlist.py and            *)
(* asset_criticality.py.  A case is its alert and when it happened, its    *)
(* score, whether an analyst has confirmed it and whether it is in an      *)
(* incident.  Times are ticks; spans of time are constants.                *)
EXTENDS Integers, Sequences, FiniteSets, FiniteSetsExt

CONSTANTS None,
          Recent, Day, Week, Month,   \* 6 hours, 24 hours, 7 days, 30 days
          PeerMin, PerUser,           \* cases a comparison needs, 10; assumed for a user, 5
          ColdGraph, ColdProcess,     \* rows below which nothing is new, 10 and 5
          RareUpTo                    \* 5

Signal(name, weight) == [name |-> name, weight |-> weight]

When(condition, name, weight) == IF condition THEN {Signal(name, weight)} ELSE {}

Since(cases, from) == {c \in cases : c.at >= from}

Before(cases, at) == {c \in Since(cases, at - Month) : c.at < at}

Days(cases) == {c.at \div Day : c \in cases}

Vectors(cases) == {c.alert.vector : c \in cases}

(* check_user_history.  Times read back have no zone: compared with an     *)
(* event time that has one they raise, and what was found so far is kept.  *)
UserHistory(cases, alert, at, zoned) ==
    LET mine == {c \in Before(cases, at) : c.alert.user = alert.user}
        sure == {c \in Since(mine, at - Recent) : c.confirmed}
    IN  IF alert.user = None THEN {}
        ELSE When(Cardinality(sure) >= 2, "repeat_offender", 10)
             \cup IF zoned THEN {}
                  ELSE When(\E c \in Since(mine, at - Week) : c.score >= 85, "escalating_threat", 15)
                       \cup When(\E d \in Days(mine) : {d + 1, d + 2} \subseteq Days(mine),
                                 "sustained_activity", 12)
                       \cup When(Cardinality({c \in mine : c.alert.exfil}) >= 2,
                                 "escalating_exfiltration", 15)

(* check_peer_comparison: the average is the total over a guessed number   *)
(* of users.                                                               *)
PeerComparison(cases, alert, at) ==
    LET same  == {c \in Since(cases, at - Week) : c.alert.type = alert.type}
        total == Cardinality(same)
        users == IF total \div PerUser > 1 THEN total \div PerUser ELSE 1
        mine  == Cardinality({c \in same : c.alert.user = alert.user})
    IN  IF alert.user = None \/ total < PeerMin THEN {}
        ELSE IF mine * users >= 5 * total THEN {Signal("peer_anomaly_critical", 22)}
        ELSE When(mine * users >= 3 * total, "peer_anomaly", 15)

(* check_internal_ip_reputation, for one private address.  Cases of any    *)
(* later time count, the one being enriched again among them.              *)
AddressHistory(cases, ip, at) ==
    LET near  == Since(cases, at - Month)
        exact == {c \in near : ip \in c.alert.ips}
        net   == {c \in near \ exact : \E o \in c.alert.ips : o.net = ip.net}
        high(s) == Cardinality({c \in s : c.score >= 60})
    IN  When(ip.sensitive, "sensitive_subnet", 8)
        \cup IF high(exact) >= 2 THEN {Signal("internal_ip_repeat_offender", 12)}
             ELSE When(high(net) >= 2, "internal_ip_repeat_offender", 8)
        \cup When(\E c \in exact : c.linked, "internal_ip_in_incident", 15)
        \cup When(Cardinality(Vectors(exact \cup net)) >= 2, "internal_ip_cross_domain", 10)

AddressesHistory(cases, alert, at) ==
    UNION {AddressHistory(cases, ip, at) : ip \in {i \in alert.ips : i.place = "private"}}

(* Mutant: a high score stands in for a decision.                          *)
HostHistoryByScore(cases, alert, at) ==
    LET sure == {c \in Since(cases, at - Month) : c.alert.host = alert.host /\ (c.confirmed \/ c.score >= 85)}
    IN  IF alert.host = None THEN {}
        ELSE When(Cardinality(Since(sure, at - Recent)) >= 2, "host_repeat_target", 15)
             \cup When(\E c \in Since(sure, at - Day) : c.linked, "host_in_prior_incident", 18)

(* check_hostname_history                                                  *)
HostHistory(cases, alert, at) ==
    LET sure == {c \in Since(cases, at - Month) : c.alert.host = alert.host /\ c.confirmed}
    IN  IF alert.host = None THEN {}
        ELSE When(Cardinality(Since(sure, at - Recent)) >= 2, "host_repeat_target", 15)
             \cup When(\E c \in Since(sure, at - Day) : c.linked, "host_in_prior_incident", 18)

(* check_user_transfer_baseline; the scores of earlier cases stand for the *)
(* sizes of their transfers.                                               *)
TransferBaseline(cases, alert, at) ==
    LET past  == Before(cases, at)
        moved == {c \in past : c.alert.transfer}
        mine  == {c \in past : c.alert.user = alert.user}
        own   == moved \cap mine
        days  == Days(mine)
        close == {d \in days : \E e \in days : e < d /\ d - e <= 2}
        sum   == MapThenSumSet(LAMBDA c : c.score, own)
    IN  IF alert.user = None \/ alert.size = 0 THEN {}
        ELSE When(own = {}, "first_external_transfer", 18)
             \cup When(own # {} /\ alert.size > 100 /\ sum < 50 * Cardinality(own), "volume_anomaly", 20)
             \cup When(Cardinality(close) >= 2, "escalating_user_activity", 15)
             \cup When(alert.transfer /\ own = {} /\ \A c \in moved : c.alert.user = None,
                       "unique_behavior", 12)

CloudProvider(alert) == When(\E ip \in alert.ips : ip.place = "cloud", "known_cloud_provider", -12)

(* --------------------------- the entity graph --------------------------- *)

Pair(a, b) == [a |-> a, b |-> b]

(* _extract_pairs: every pair of entities the alert has, addresses only    *)
(* when they are public.                                                   *)
Pairs(alert) ==
    LET out == {i.addr : i \in {a \in alert.ips : a.place # "private"}}
        has(x) == {x} \ {None}
        drift == IF alert.drift = None THEN {} ELSE {alert.drift.item}
    IN  {p \in {Pair(u, h) : u \in has(alert.user), h \in has(alert.host)}
                \cup {Pair(x, i) : x \in {alert.user, alert.host, alert.process} \ {None}, i \in out}
                \cup {Pair(h, p) : h \in has(alert.host), p \in has(alert.process)}
                \cup {Pair(i, d) : i \in out, d \in has(alert.domain)}
                \cup {Pair(h, s) : h \in has(alert.host), s \in drift} : p.a # p.b}

Rows(rels) == MapThenSumSet(LAMBDA p : Len(rels[p]), DOMAIN rels)

(* The counts a query may find: a pair can have more than one row.         *)
Counts(rels, pair) == IF rels[pair] = <<>> THEN {0} ELSE {rels[pair][i] : i \in 1..Len(rels[pair])}

Readings(rels, pairs) ==
    {seen \in [pairs -> UNION {Counts(rels, p) : p \in pairs}] : \A p \in pairs : seen[p] \in Counts(rels, p)}

(* check_entity_relationships, from the counts it has read.                *)
Relationships(rels, seen) ==
    LET new  == {p \in DOMAIN seen : seen[p] = 0}
        rare == {p \in DOMAIN seen : seen[p] \in 1..RareUpTo}
    IN  IF Rows(rels) < ColdGraph THEN {}
        ELSE When(new # {}, "new_entity_relationship", 20)
             \cup When(rare # {}, "rare_entity_relationship", 15)
             \cup When(Cardinality(new) >= 3, "entity_graph_anomaly", 18)

(* check_process_relationships                                             *)
ProcessRelationships(rels, seen, alert) ==
    LET count == seen[Pair(alert.host, alert.process)]
    IN  IF alert.host = None \/ alert.process = None THEN {}
        ELSE When(count = 0 /\ Rows(rels) >= ColdProcess, "process_on_new_host", 18)
             \cup When(alert.server /\ count <= 2, "rare_process_on_server", 20)
             \cup When(alert.controller /\ alert.tool, "known_tool_on_dc", 25)

(* check_frequency_anomaly subtracts a stored time, which has no zone, from*)
(* one that has one, so it raises as soon as there is a relationship.      *)
FrequencyAnomaly(rels) == {}

(* check_state_drift                                                       *)
StateDrift(alert) ==
    LET d == alert.drift
    IN  IF d = None THEN {}
        ELSE IF d.action # "added" THEN {}
        ELSE {Signal("state_drift", 8)}
             \cup When(d.category = "service" /\ d.odd, "unusual_service_path", 20)
             \cup When(d.category = "autorun" /\ d.odd, "userland_autorun", 22)
             \cup When(d.category = "scheduled_task" /\ d.odd, "script_scheduled_task", 20)
             \cup When(d.category = "local_user" /\ d.odd, "privilege_escalation_drift", 18)
=============================================================================
