---------------------------- MODULE MCCorrelation ----------------------------
(* Small instances of Correlation: what intake stores, in any order. *)
EXTENDS Correlation, TLC

CONSTANTS c1, c2, c3, alice, bob, host, web, nat, doc

Plain == [user |-> alice, ips |-> <<>>, device |-> NoDevice, time |-> 0,
          stage |-> "initial_access", phishing |-> FALSE, severity |-> 1, alerts |-> 1,
          response |-> FALSE, score |-> 40, dismissed |-> FALSE]
Nothing == [c \in CaseIds |-> NoCase]

(* One user over two days, two stages on the first. *)
TwoDays == c1 :> Plain
           @@ c2 :> [Plain EXCEPT !.stage = "execution", !.severity = 2, !.time = 5, !.score = 70]
           @@ c3 :> [Plain EXCEPT !.stage = "exfiltration", !.severity = 3, !.time = 40]
(* A case too weak for its own cluster, of the same user or the same host. *)
Rescued == c1 :> [Plain EXCEPT !.device = host, !.alerts = 4, !.score = 85]
           @@ c2 :> [Plain EXCEPT !.stage = "execution", !.time = 3, !.score = 18]
           @@ c3 :> [Plain EXCEPT !.user = NoUser, !.device = host, !.stage = "persistence",
                                  !.time = 60, !.score = 15]
(* One address, three users (one the placeholder): a documentation address, *)
(* which is a spray like any other and links no one; two share another.    *)
Sprayed == c1 :> [Plain EXCEPT !.ips = <<doc>>, !.stage = "credential_access"]
           @@ c2 :> [Plain EXCEPT !.ips = <<nat, doc, web>>, !.user = bob, !.time = 30]
           @@ c3 :> [Plain EXCEPT !.ips = <<web, doc>>, !.user = UploadUser, !.time = 50, !.score = 74]
(* Linked by a host alone: no user to find an open incident by. *)
Hosts   == c1 :> [Plain EXCEPT !.user = NoUser, !.device = host]
           @@ c2 :> [Plain EXCEPT !.user = NoUser, !.device = host, !.stage = "execution", !.time = 2]
           @@ c3 :> [Plain EXCEPT !.device = host, !.stage = "collection", !.time = 4, !.response = TRUE]
(* A phishing campaign from one address: no spray, and a shared egress. *)
Campaign == c1 :> [Plain EXCEPT !.ips = <<web>>, !.phishing = TRUE, !.score = 35]
            @@ c2 :> [Plain EXCEPT !.ips = <<web>>, !.user = bob, !.stage = "execution", !.time = 1]
            @@ c3 :> [Plain EXCEPT !.ips = <<web>>, !.user = host, !.stage = "execution", !.time = 2]

Everything == {TwoDays, Rescued, Sprayed, Hosts, Campaign}
=============================================================================
