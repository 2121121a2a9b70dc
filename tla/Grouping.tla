------------------------------ MODULE Grouping ------------------------------
(***************************************************************************)
(* How the alerts of one upload become groups, each of which becomes one   *)
(* case (group_enriched_alerts): alerts sprayed from one public address,   *)
(* then alerts with the same key, duplicates dropped within each group,    *)
(* and groups of one user and type merged.                                 *)
(*                                                                         *)
(* Abstractions.  An alert is the fields the passes read: its entities     *)
(* (None when the row has no such field), its type and category, its time  *)
(* and its score.  Times are in units that divide both windows; texts that *)
(* only describe a group are left out.                                     *)
(***************************************************************************)
EXTENDS Integers, Sequences, FiniteSets, SequencesExt, FiniteSetsExt, Lists

CONSTANTS
    GroupWindow, \* grouping_window_minutes
    DupWindow,   \* the span in which equal alerts are duplicates (10 minutes)
    SprayMin,    \* users one address must have tried to be spraying (3)
    Upns,        \* entities that are user principal names (with an "@")
    Spray,       \* the alert type identity.passwordSpray
    None         \* a missing field, an unknown time

ASSUME GroupingAssumption ==
    GroupWindow \in Nat \ {0} /\ DupWindow \in Nat \ {0} /\ SprayMin \in Nat \ {0}

(* "a or b": the first value that is present.                              *)
Or(a, b) == IF a # None THEN a ELSE b

Apart(s, t) == IF s < t THEN t - s ELSE s - t

-----------------------------------------------------------------------------
(* Time buckets and keys.                                                  *)

TimeBucket(t) == IF t = None THEN None ELSE t \div GroupWindow

PreAnchor(a) == Or(a.user, Or(a.device, a.ip))

(* The buckets of the alert's entity and type whose first alert is at most *)
(* one window away.                                                        *)
Joinable(a, buckets) ==
    {n \in DOMAIN buckets : /\ buckets[n].of = <<PreAnchor(a), a.type>>
                            /\ Apart(a.at, buckets[n].first) <= GroupWindow}

(* _adaptive_time_bucket: the first such bucket, or the one of its time.   *)
BucketOf(a, buckets) ==
    IF a.at = None THEN None
    ELSE IF Joinable(a, buckets) # {} THEN buckets[Min(Joinable(a, buckets))].id
    ELSE TimeBucket(a.at)

BucketsAfter(a, buckets) ==
    IF a.at = None \/ Joinable(a, buckets) # {} THEN buckets
    ELSE LET new  == [of |-> <<PreAnchor(a), a.type>>, id |-> TimeBucket(a.at), first |-> a.at]
             same == {n \in DOMAIN buckets : buckets[n].of = new.of /\ buckets[n].id = new.id}
         IN  IF same = {} THEN Append(buckets, new) ELSE [buckets EXCEPT ![Min(same)] = new]

(* What must be equal, besides type and bucket, for alerts to be grouped.  *)
Anchor(a) ==
    CASE a.cat = "endpoint" -> <<Or(a.user, a.device)>>
      [] a.cat = "email"    -> <<Or(a.recipient, a.user), a.sender>>
      [] a.cat = "cloud"    -> <<Or(a.user, a.ip)>>
      [] a.cat = "network"  -> <<Or(a.ip, a.device), IF a.ip = None THEN None ELSE a.device>>
      [] a.cat = "dlp"      -> <<a.user, a.class>>
      [] OTHER              -> <<PreAnchor(a)>>

(* compute_grouping_key.                                                   *)
GroupingKey(a, buckets) == <<Anchor(a), a.type, BucketOf(a, buckets)>>

-----------------------------------------------------------------------------
(* Groups.                                                                 *)

TimesOf(alerts) == {alerts[i].at : i \in DOMAIN alerts} \ {None}

(* The most frequent type, the first seen of those.                        *)
PrimaryType(alerts) ==
    LET count(i) == Cardinality({j \in DOMAIN alerts : alerts[j].type = alerts[i].type})
        most     == {i \in DOMAIN alerts : \A j \in DOMAIN alerts : count(j) <= count(i)}
    IN  alerts[Min(most)].type

(* _recompute_group_metadata: what a group says of its members.            *)
Described(g) ==
    [g EXCEPT !.type  = PrimaryType(g.alerts),
              !.sev   = Max({g.alerts[i].sev : i \in DOMAIN g.alerts}),
              !.score = Max({g.alerts[i].score : i \in DOMAIN g.alerts}),
              !.from  = IF TimesOf(g.alerts) = {} THEN g.from ELSE Min(TimesOf(g.alerts))]

NewGroup(anchor, alerts) ==
    Described([anchor |-> anchor, alerts |-> alerts, type |-> None,
               sev |-> 0, score |-> 0, from |-> None])

(* Pass 1, _detect_batch_spray: a public address tried with enough users   *)
(* takes all its alerts and retypes them.  They have no event time yet.    *)
UsersAt(alerts, ip) ==
    {alerts[i].user : i \in {j \in DOMAIN alerts : ip \in alerts[j].public}} \ {None}

Addresses(alerts) == UNION {alerts[i].public : i \in DOMAIN alerts}

Spraying(alerts) ==
    {ip \in Addresses(alerts) : Cardinality(UsersAt(alerts, ip)) >= SprayMin}

(* Mutant: every alert with a public address is taken out.                 *)
SprayedWithAddress(alerts) == {a \in ToSet(alerts) : a.public # {}}

Sprayed(alerts) == {a \in ToSet(alerts) : a.public \cap Spraying(alerts) # {}}

Retyped(a) == [a EXCEPT !.type = Spray, !.at = None]

SprayGroups(alerts) ==
    LET From(ip) == Where(alerts, {a \in ToSet(alerts) : ip \in a.public})
        ips      == SetToSeq(Spraying(alerts))
    IN  [n \in DOMAIN ips |->
            NewGroup(ips[n], [i \in DOMAIN From(ips[n]) |-> Retyped(From(ips[n])[i])])]

(* Pass 2: the alerts no spray took, in order of arrival, by key.          *)
Rest(alerts) == Where(alerts, ToSet(alerts) \ Sprayed(alerts))

(* The buckets there are after each alert.                                 *)
Buckets(alerts) ==
    LET after[n \in 0..Len(alerts)] ==
            IF n = 0 THEN <<>> ELSE BucketsAfter(alerts[n], after[n - 1])
    IN  after

Keys(alerts) == [n \in DOMAIN alerts |-> GroupingKey(alerts[n], Buckets(alerts)[n - 1])]

KeyGroups(alerts) ==
    LET found == ByKey(Rest(alerts), Keys(Rest(alerts)))
    IN  [n \in DOMAIN found |-> NewGroup(PreAnchor(found[n][1]), found[n])]

(* Pass 3, _dedup_within_group: of equal alerts the highest-scored stays,  *)
(* at the place of the first.  The group's description is not recomputed.  *)
Fingerprint(a) ==
    <<a.user, a.type, IF a.at = None THEN None ELSE a.at \div DupWindow, a.src>>

Equal(alerts) == ByKey(alerts, [i \in DOMAIN alerts |-> Fingerprint(alerts[i])])

(* The first of the highest-scored.                                        *)
Best(alerts) ==
    alerts[Min({i \in DOMAIN alerts :
                    alerts[i].score = Max({alerts[k].score : k \in DOMAIN alerts})})]

(* Mutant: the last of equal alerts stays.                                 *)
DedupKeepingLast(alerts) ==
    LET same == Equal(alerts) IN [n \in DOMAIN same |-> same[n][Len(same[n])]]

Dedup(alerts) == LET same == Equal(alerts) IN [n \in DOMAIN same |-> Best(same[n])]

(* Pass 4, _merge_same_user_groups: groups of one user and type that start *)
(* in the same time bucket.  A group without a user is left alone.         *)
UserOf(g) ==
    LET named == {i \in DOMAIN g.alerts : g.alerts[i].box # None}
    IN  IF g.anchor \in Upns THEN g.anchor
        ELSE IF named = {} THEN None ELSE g.alerts[Min(named)].box

MergeKey(g) == <<UserOf(g), g.type, TimeBucket(g.from)>>

MergedAlerts(groups) == Folded(LAMBDA all, g : all \o g.alerts, <<>>, groups)

OneOf(groups) ==
    IF Len(groups) = 1 THEN groups[1]
    ELSE Described([groups[1] EXCEPT !.alerts = MergedAlerts(groups)])

Merged(groups) ==
    LET keys == [n \in DOMAIN groups |->
                    IF UserOf(groups[n]) = None THEN <<n>> ELSE MergeKey(groups[n])]
        like == ByKey(groups, keys)
    IN  [n \in DOMAIN like |-> OneOf(like[n])]

(* group_enriched_alerts; the final order of the groups is abstracted.     *)
Groups(alerts) ==
    LET found == KeyGroups(alerts) \o SprayGroups(alerts)
    IN  Merged([n \in DOMAIN found |-> [found[n] EXCEPT !.alerts = Dedup(found[n].alerts)]])
=============================================================================
