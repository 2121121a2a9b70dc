----------------------------- MODULE Detectors ------------------------------
(***************************************************************************)
(* What one alert says: the detection helpers of enrichment/base.py, the   *)
(* promotion of a signal's tier by them (enrichment/__init__.py), and the  *)
(* points of asset and user (enrichment/asset_criticality.py).             *)
(*                                                                         *)
(* An alert is a record.                                                   *)
(*   text        topics whose keywords occur in its context, name or       *)
(*               description ("exfiltration, often" when two of them do)   *)
(*   fields      structured facts its source tool or a translator set; a   *)
(*               number past the threshold of a test is such a fact        *)
(*   techniques  families of its ATT&CK technique identifiers              *)
(*   process     what kind of tool its process is                          *)
(*   identity    privilege tier, and the pattern its account name fits     *)
(*   host        criticality as set, and by name, type and safety level    *)
(*   hosts       hosts the entity graph knows its user on                  *)
(*                                                                         *)
(* A tiered helper returns (fired, tier); "none" stands for not fired.     *)
(***************************************************************************)
EXTENDS Integers, Sequences

(* The first of the paths of a helper that applies.                        *)
Path(verified, observed, inferred) ==
    IF verified THEN "verified"
    ELSE IF observed THEN "observed"
    ELSE IF inferred THEN "inferred"
    ELSE "none"

Shows(a, facts) == a.fields \cap facts # {}

(* Points of the facts a helper adds up.                                   *)
Hits(a, fact, points) == IF fact \in a.fields THEN points ELSE 0

(* ------------------------------- helpers -------------------------------- *)

Insider(a) ==
    Path(FALSE,
         Shows(a, {"resignation", "account disabled", "termination", "departing"}),
         "insider" \in a.text)

(* Two points of structured evidence, or two keywords.                     *)
Exfiltration(a) ==
    LET points == Hits(a, "many megabytes", 1) + Hits(a, "many items", 1)
                    + Hits(a, "personal cloud", 2) + Hits(a, "policy violation", 1)
                    + Hits(a, "removable device", 1) + Hits(a, "removable media", 1)
                    + Hits(a, "many bytes", 1)
    IN  Path(FALSE, points >= 2, "exfiltration, often" \in a.text)

Persistence(a) ==
    Path("persistence" \in a.techniques,
         Shows(a, {"new service", "new task", "autorun", "offline access"}),
         "persistence" \in a.text)

DirectoryAttack(a) ==
    Path("directory" \in a.techniques \/ a.process = "directory tool",
         FALSE,
         "directory" \in a.text)

DomainAdmin(a) ==
    Path(FALSE,
         "admin group" \in a.fields \/ a.identity.tier = "admin",
         "domain admin" \in a.text)

(* Wiping the shadow copies, or clearing logs next to stealing credentials *)
(* or disabling the defence.                                               *)
Ransomware(a) ==
    Path(FALSE,
         \/ "shadow copy deletion" \in a.fields
         \/ "log cleared" \in a.fields /\ Shows(a, {"lsass access", "defender tampered"})
         \/ "recovery" \in a.techniques,
         "ransomware" \in a.text)

ShadowCopyDeletion(a) ==
    Path(FALSE,
         "shadow copy deletion" \in a.fields \/ "recovery" \in a.techniques,
         "shadow copy" \in a.text)

Beaconing(a) ==
    Path(a.process = "c2 tool",
         Shows(a, {"beaconing", "regular interval", "many connections"}),
         "beaconing" \in a.text)

ContainerEscape(a) ==
    LET points == Hits(a, "privileged container", 2) + Hits(a, "host pid", 2)
                    + Hits(a, "host network", 1) + Hits(a, "host ipc", 1)
                    + Hits(a, "dangerous capability", 2) + Hits(a, "sensitive mount", 2)
                    + (IF a.process = "container tool" THEN 1 ELSE 0)
    IN  Path(FALSE, points >= 2, "container" \in a.text)

(* The only helper that asks the database: the graph of entities.          *)
LateralMovement(a) == Path(a.hosts >= 3, FALSE, "lateral" \in a.text)

DnsTunnel(a) ==
    Path(a.process = "dns tool",
         Shows(a, {"many queries", "large payload", "long label"}),
         "dns tunnel" \in a.text)

(* is_ir_response: the alert's name, its category, or a phrase.            *)
IrResponse(a) == "response named" \in a.text \/ Shows(a, {"response category"}) \/ "response" \in a.text

(* --------------------------- tiers of signals --------------------------- *)

(* _tier_upgrades                                                          *)
Helper(name, a) ==
    CASE name = "insider_threat" -> Insider(a)
      [] name \in {"domain_admin_target", "domain_admin_context"} -> DomainAdmin(a)
      [] name = "lateral_movement" -> LateralMovement(a)
      [] name = "ad_attack" -> DirectoryAttack(a)
      [] name \in {"data_exfiltration", "data_exfiltration_context", "insider_data_exfil"}
           -> Exfiltration(a)
      [] name = "container_escape" -> ContainerEscape(a)
      [] name \in {"persistence", "persistence_mechanism"} -> Persistence(a)
      [] name \in {"dns_tunnel", "dns_tunnel_process"} -> DnsTunnel(a)
      [] name = "c2_beaconing" -> Beaconing(a)
      [] name \in {"ransomware_chain", "ransomware_context"} -> Ransomware(a)
      [] name = "shadow_copy_deletion" -> ShadowCopyDeletion(a)
      [] OTHER -> "none"

(* A fired signal takes the tier its helper finds, unless that is          *)
(* "inferred"; a helper that finds nothing says "inferred" as well.  The   *)
(* code calls this a promotion, but "observed" weighs less in Scoring.     *)
Promoted(d, a) ==
    IF d.fired /\ Helper(d.name, a) \in {"verified", "observed"}
    THEN [d EXCEPT !.tier = Helper(d.name, a)]
    ELSE d

(* ------------------------------- context -------------------------------- *)

(* compute_asset_criticality: the criticality that was set, then the host  *)
(* name, the type of the device and its safety level.                      *)
AssetTier(a) ==
    IF a.host.set # "none" THEN a.host.set
    ELSE IF a.host.name # "none" THEN a.host.name
    ELSE IF a.host.type # "none" THEN a.host.type
    ELSE IF a.host.safety THEN "critical"
    ELSE "standard"

AssetPoints == [critical |-> 20, high |-> 12, standard |-> 0, low |-> -5]

(* compute_user_risk                                                       *)
UserTier(a) ==
    IF "resignation" \in a.fields THEN "high_risk_user"
    ELSE IF a.identity.account = "executive" \/ a.identity.title THEN "critical_user"
    ELSE IF a.identity.tier \in {"admin", "privileged"} THEN "high_risk_user"
    ELSE IF a.identity.tier \in {"service", "service_account"} THEN "low_risk_user"
    ELSE IF a.identity.account = "monitoring" THEN "low_risk_user"
    ELSE "standard_user"

UserPoints ==
    [critical_user |-> 15, high_risk_user |-> 10, standard_user |-> 0, low_risk_user |-> -5]

=============================================================================
