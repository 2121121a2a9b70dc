---------------------------- MODULE MCEnrichment ----------------------------
(* Alerts, times and scores for Enrichment.                                *)
EXTENDS Enrichment

CONSTANTS t1, t2

In  == [addr |-> "10.0.0.7", net |-> "office", place |-> "private", sensitive |-> TRUE]
Out == [addr |-> "20.1.1.1", net |-> "cloud", place |-> "cloud", sensitive |-> FALSE]

Alert(user, host, ips, process, vector, type) ==
    [user |-> user, host |-> host, ips |-> ips, process |-> process, domain |-> None,
     drift |-> None, vector |-> vector, type |-> type, exfil |-> type = "exfil",
     transfer |-> type = "transfer", size |-> 200, server |-> TRUE, controller |-> FALSE,
     tool |-> FALSE]

(* One user's transfer and exfiltration, seen by two sources.              *)
Upload == Alert("alice", None, {In}, None, "network", "exfil")
Copy   == Alert("alice", None, {}, None, "cloud", "transfer")

(* A process that reaches an address; a service that was added to a server. *)
Beacon  == Alert(None, None, {Out}, "tool", "endpoint", "other")
Drifted == [Alert(None, "srv", {}, "tool", "endpoint", "other") EXCEPT
              !.drift = [category |-> "service", action |-> "added", item |-> "svc", odd |-> TRUE]]

Scene(alerts, times, scores, threads, most) ==
    [alerts |-> alerts, times |-> times, scores |-> scores, threads |-> threads, most |-> most]

AllScenes ==
    {Scene({Upload, Copy}, {0, 2, 5}, {50}, {t1}, 1),
     Scene({Beacon}, {0}, {50}, {t1, t2}, 1),
     Scene({Drifted}, {1}, {40, 90}, {t1}, 2)}
=============================================================================
