----------------------------- MODULE Clustering -----------------------------
(***************************************************************************)
(* How correlation groups the cases of a tenant: the entities of a case,   *)
(* the strength of a link, the password-spray and shared-egress rules, and *)
(* the pass that puts each case, in the order of event time, into a        *)
(* cluster; then what an incident makes of a cluster (its stages,          *)
(* confidence, severity).  Everything is a function of rows, the case rows *)
(* as the run's session holds them.                                        *)
(*                                                                         *)
(* Abstractions.  A case has at most one user and one device and lists an  *)
(* address once; its stage is the refined one.  Times are whole hours.  Wording, link components and  *)
(* the narrative are left out.  The branch of the pass for a shared public *)
(* address without a shared user is unreachable (such a link already has   *)
(* the threshold's weight) and is not modelled.                            *)
(***************************************************************************)
EXTENDS Integers, FiniteSets, SequencesExt, Lists

CONSTANTS
    CaseIds, Users, Devices, Addresses, Stages,
    NoUser, UploadUser,   \* no address; the placeholder "unknown@upload"
    NoDevice,
    Private,              \* addresses of the networks enrichment calls private
    Reserved,             \* addresses the ipaddress module calls private
    Internal,             \* addresses with a prefix 10., 192.168., 172. or 127.
    Window,               \* CORRELATION_WINDOW_HOURS
    SprayUsers,           \* distinct users that make an address a spray (3)
    EgressUsers           \* distinct users that make an address shared (5)

(* The columns of a case that correlation reads; a severity is a rank: 0   *)
(* low, 1 medium, 2 high, 3 critical.                                      *)
CaseRow ==
    [user : Users, ips : Seq(Addresses), device : Devices, time : Nat, stage : Stages,
     phishing : BOOLEAN, severity : 0..3, alerts : Nat, response : BOOLEAN,
     score : 0..100, dismissed : BOOLEAN]

AtLeast(a, b) == IF a >= b THEN a ELSE b
AtMost(a, b)  == IF a <= b THEN a ELSE b

(* Sums and maxima over a list of cases; a case listed twice counts twice. *)
Total(rows, list, column)   == Folded(LAMBDA sum, c : sum + rows[c][column], 0, list)
Highest(rows, list, column) == Max({rows[c][column] : c \in ToSet(list)})

Named(users) == users \ {NoUser, UploadUser}
EntitiesOf(row) == [users   |-> Named({row.user}),
                    ips     |-> ToSet(row.ips),
                    devices |-> {row.device} \ {NoDevice}]
Joined(a, b) == [users   |-> a.users \cup b.users, ips |-> a.ips \cup b.ips,
                 devices |-> a.devices \cup b.devices]

LinkThreshold == 2
LinkStrength(a, b) ==
    (IF a.users \cap b.users # {} THEN 3 ELSE 0)
    + 2 * Cardinality((a.ips \cap b.ips) \ Reserved)
    + (IF a.devices \cap b.devices # {} THEN 2 ELSE 0)

(* The score below which a case needs a rescue. *)
Threshold(row) == IF ToSet(row.ips) \subseteq Internal THEN 20 ELSE 30

(* Cases of one time are in the order the database returns them.           *)
Orders(rows, cases) ==
    {order \in SetToSeqs(cases) : \A j, k \in DOMAIN order :
        j < k => rows[order[j]].time <= rows[order[k]].time}

(* A public address seen with SprayUsers users (the placeholder has an "@" *)
(* and counts) is a spray, unless a case of it is a phishing case; each    *)
(* seeds a cluster with all its cases, in the order addresses first occur. *)
AddPublic(known, ip) ==
    IF ip \in Private \cup ToSet(known) THEN known ELSE Append(known, ip)
PublicIps(rows, order) ==
    Folded(LAMBDA known, c : Folded(AddPublic, known, rows[c].ips), <<>>, order)
WithIp(rows, order, ip) == Where(order, {c \in ToSet(order) : ip \in ToSet(rows[c].ips)})
IsSpray(rows, list) ==
    /\ Len(list) >= SprayUsers
    /\ Cardinality({rows[c].user : c \in ToSet(list)} \ {NoUser}) >= SprayUsers
    /\ \A c \in ToSet(list) : ~rows[c].phishing

Cluster(rows, list) ==
    LET of == {EntitiesOf(rows[c]) : c \in ToSet(list)}
    IN  [cases |-> list,
         has   |-> [users   |-> UNION {e.users : e \in of},
                    ips     |-> UNION {e.ips : e \in of},
                    devices |-> UNION {e.devices : e \in of}]]

AddSpray(rows, clusters, list) ==
    IF IsSpray(rows, list) THEN Append(clusters, Cluster(rows, list)) ELSE clusters
SprayClusters(rows, order) ==
    Folded(LAMBDA clusters, ip : AddSpray(rows, clusters, WithIp(rows, order, ip)),
           <<>>, PublicIps(rows, order))

(* A public address of EgressUsers users is a shared egress: it links no one. *)
SharedEgress(rows, order) ==
    {ip \in ToSet(PublicIps(rows, order)) :
        Cardinality(Named({rows[c].user : c \in ToSet(WithIp(rows, order, ip))})) >= EgressUsers}

(* A case below its threshold is still taken into the first cluster with a *)
(* strong case and its user or device; whatever its time.                  *)
RescueInto(rows, clusters, c, has) ==
    {i \in DOMAIN clusters :
        /\ rows[c].score >= 15
        /\ \E d \in ToSet(clusters[i].cases) : rows[d].score >= Threshold(rows[c])
        /\ \/ has.users \cap clusters[i].has.users # {}
           \/ has.devices \cap clusters[i].has.devices # {}}

Earliest(rows, list) == Min({rows[c].time : c \in ToSet(list)})
(* Mutant: the window is not looked at. *)
LinkIntoAtAnyTime(rows, clusters, c, has) ==
    {i \in DOMAIN clusters : LinkStrength(has, clusters[i].has) >= LinkThreshold}
LinkInto(rows, clusters, c, has) ==
    {i \in DOMAIN clusters :
        /\ rows[c].time - Earliest(rows, clusters[i].cases) <= Window
        /\ LinkStrength(has, clusters[i].has) >= LinkThreshold}

(* Linking extends only the users a cluster is known by; a rescue extends  *)
(* every entity.  A rescued case then goes through the linking as well.    *)
Rescue(rows, clusters, c, has) ==
    IF RescueInto(rows, clusters, c, has) = {} THEN clusters
    ELSE [clusters EXCEPT ![Min(RescueInto(rows, clusters, c, has))] =
            [cases |-> Append(@.cases, c), has |-> Joined(@.has, has)]]
Link(rows, clusters, c, has) ==
    IF LinkInto(rows, clusters, c, has) = {}
    THEN Append(clusters, [cases |-> <<c>>, has |-> has])
    ELSE [clusters EXCEPT ![Min(LinkInto(rows, clusters, c, has))] =
            [cases |-> Append(@.cases, c),
             has   |-> [users   |-> @.has.users \cup has.users,
                        ips     |-> @.has.ips,
                        devices |-> @.has.devices]]]

Place(rows, egress, clusters, c) ==
    LET own  == EntitiesOf(rows[c])
        has  == [users |-> own.users, ips |-> own.ips \ egress, devices |-> own.devices]
        weak == rows[c].score < Threshold(rows[c])
        kept == IF weak THEN Rescue(rows, clusters, c, has) ELSE clusters
    IN  IF \/ weak /\ kept = clusters
           \/ rows[c].response      \* a case about the responders' own work
           \/ rows[c].dismissed     \* decided benign, closed or false positive
        THEN kept
        ELSE Link(rows, kept, c, has)

ClusterCases(rows, order) ==
    LET sprays  == SprayClusters(rows, order)
        sprayed == UNION {ToSet(sprays[k].cases) : k \in DOMAIN sprays}
    IN  Folded(LAMBDA clusters, c : Place(rows, SharedEgress(rows, order), clusters, c),
               sprays, Where(order, CaseIds \ sprayed))

-----------------------------------------------------------------------------
(* What an incident makes of its cases. *)

StagesOf(rows, list) == {rows[c].stage : c \in ToSet(list)}
NamedUsers(rows, list) == Named({rows[c].user : c \in ToSet(list)})
Span(rows, list) == Highest(rows, list, "time") - Earliest(rows, list)

ConsistencyPoints(rows, list) ==
    LET known == {k \in DOMAIN list : Named({rows[list[k]].user}) # {}}
    IN  IF Cardinality(known) >= 2 /\ Cardinality(NamedUsers(rows, list)) = 1 THEN 15 ELSE 0
ProximityPoints(rows, list) ==
    CASE Len(list) < 2          -> 0
      [] Span(rows, list) < 1   -> 10
      [] Span(rows, list) < 4   -> 7
      [] Span(rows, list) < 12  -> 4
      [] OTHER                  -> 0
MeanPoints(rows, list) ==
    CASE Total(rows, list, "score") >= 70 * Len(list) -> 5
      [] Total(rows, list, "score") >= 50 * Len(list) -> 3
      [] OTHER                                      -> 0

(* The stages are sorted before they are scored, so the five points for    *)
(* their order are always given.                                           *)
Confidence(rows, list, stages) ==
    AtMost(100, 20 + AtMost(10 * Cardinality(stages), 30)
                + (IF Len(list) >= 5 THEN 15 ELSE IF Len(list) >= 3 THEN 10 ELSE 5)
                + ConsistencyPoints(rows, list) + ProximityPoints(rows, list)
                + 5 + MeanPoints(rows, list))

(* Mutant: the boosted score may exceed 100. *)
CompoundBoostUncapped(rows, list, stages, score) ==
    LET factor == IF Len(list) > 10 THEN 16 ELSE IF Len(list) >= 6 THEN 14 ELSE 12
        breadth == CASE Cardinality(stages) >= 3 -> 20
                     [] Cardinality(stages) = 2  -> 10
                     [] OTHER                    -> 0
    IN  IF Len(list) < 3 \/ Total(rows, list, "score") < 30 * Len(list) THEN score
        ELSE AtLeast(score, (Highest(rows, list, "score") * factor) \div 10 + breadth)
CompoundBoost(rows, list, stages, score) ==
    LET factor == IF Len(list) > 10 THEN 16 ELSE IF Len(list) >= 6 THEN 14 ELSE 12
        breadth == CASE Cardinality(stages) >= 3 -> 20
                     [] Cardinality(stages) = 2  -> 10
                     [] OTHER                    -> 0
    IN  IF Len(list) < 3 \/ Total(rows, list, "score") < 30 * Len(list) THEN score
        ELSE AtLeast(score, AtMost(100, (Highest(rows, list, "score") * factor) \div 10 + breadth))

ChainSeverity(rows, list, stages) ==
    LET worst   == Highest(rows, list, "severity")
        raised  == IF \/ "exfiltration" \in stages
                      \/ {"privilege_escalation", "execution"} \subseteq stages
                   THEN AtLeast(worst, 2) ELSE worst
    IN  CASE Cardinality(stages) >= 4 /\ "exfiltration" \in stages -> 3
          [] Cardinality(stages) >= 4 -> AtMost(raised + 2, 3)
          [] Cardinality(stages) = 3  -> AtMost(raised + 1, 3)
          [] OTHER                    -> raised

(* Many alerts of one stage are an incident as well. *)
IsPattern(rows, list) ==
    Total(rows, list, "alerts") >= 3 /\ Highest(rows, list, "score") >= 50
PatternSeverity(alerts, best) ==
    CASE alerts >= 10 /\ best >= 85 -> 2
      [] alerts >= 7 \/ best >= 80  -> 1
      [] OTHER                      -> 0
PatternConfidence(rows, list) ==
    AtMost(100, Total(rows, list, "score") \div Len(list)
                + AtMost(2 * Total(rows, list, "alerts"), 20))
=============================================================================
