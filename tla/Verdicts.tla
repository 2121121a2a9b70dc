------------------------------ MODULE Verdicts ------------------------------
(* What each threat intelligence provider concludes from a reply, and the  *)
(* signals an enrichment takes from a verdict: threat_intel.py and the     *)
(* modules of providers/.  An indicator is a record: its kind and, for the *)
(* built-in lists, its class.  Confidences are percentages.                *)
EXTENDS Integers, Sequences, FiniteSets

CONSTANTS Clean,    \* None: the provider knows nothing bad
          Base      \* [signal -> its weight in weights.py, 0 when unlisted]

Verdict(malicious, confidence, tags) ==
    [malicious |-> malicious, confidence |-> confidence, tags |-> tags, actors |-> FALSE]

Only(ind, kind, verdict) == IF ind.kind = kind THEN verdict ELSE Clean

(* virustotal.py: engines that flag the indicator, of all that scanned it. *)
VirusTotal(ind, r) ==
    LET flagged == IF r.malicious > 5 THEN "vt_malicious_" ELSE "vt_suspicious_"
    IN  IF r.malicious = 0 /\ r.suspicious = 0 THEN Clean
        ELSE Verdict(r.malicious > 5, (100 * r.malicious) \div r.total,
                     {flagged \o ind.kind}
                     \cup (IF r.reputation < -50 THEN {"vt_bad_reputation"} ELSE {})
                     \cup (IF r.tor THEN {"tor_exit_node"} ELSE {}))

(* abuseipdb.py: a reported datacenter counts only with its full name when *)
(* the score is low, and by a part of it when tags are chosen.             *)
AbuseIPDB(ind, r) ==
    LET bad == r.score > 50 /\ r.reports > 5
    IN  Only(ind, "ip",
          IF r.score < 25 /\ ~r.tor /\ r.usage # "datacenter" THEN Clean
          ELSE Verdict(bad, r.score,
                 (IF bad THEN {"abuseipdb_malicious"}
                  ELSE IF r.score >= 25 THEN {"abuseipdb_suspicious"} ELSE {})
                 \cup (IF r.tor THEN {"abuseipdb_tor"} ELSE {})
                 \cup (IF r.usage \in {"datacenter", "some datacenter"}
                       THEN {"abuseipdb_datacenter"} ELSE {})
                 \cup (IF r.usage = "vpn" THEN {"abuseipdb_vpn_proxy"} ELSE {})))

(* otx.py: the themes of the pulses, their number and the reputation.      *)
OTX(ind, r) ==
    LET named == {"otx_" \o t \o "_" \o ind.kind : t \in r.themes \ {"tor"}}
                 \cup (IF "tor" \in r.themes THEN {"tor_exit_node"} ELSE {})
        sure  == IF r.pulses >= 10 THEN 90 ELSE IF r.pulses >= 5 THEN 75
                 ELSE IF r.pulses >= 2 THEN 50 ELSE 30
    IN  IF r.pulses = 0 /\ r.reputation >= 0 /\ ~r.validated THEN Clean
        ELSE [malicious  |-> r.pulses >= 5 \/ r.reputation < 0,
              confidence |-> IF r.reputation < 0 /\ sure < 80 THEN 80 ELSE sure,
              tags |-> (IF r.pulses > 0 /\ named = {}
                        THEN {"otx_suspicious_" \o ind.kind} ELSE named)
                       \cup (IF r.validated THEN {"otx_malware_" \o ind.kind} ELSE {}),
              actors |-> r.adversary]

(* greynoise.py                                                            *)
GreyNoise(ind, r) ==
    Only(ind, "ip",
      IF r.class = "malicious" THEN Verdict(TRUE, 85, {"greynoise_malicious"})
      ELSE IF r.class = "benign" \/ r.riot THEN Verdict(FALSE, 90, {"greynoise_benign"})
      ELSE IF r.noise THEN Verdict(FALSE, 70, {"greynoise_scanner"}) ELSE Clean)

(* whois_lookup.py: the age of a domain in days; -1, no registration date. *)
Whois(ind, r) ==
    Only(ind, "domain",
      IF ind.class = "well known" \/ r.age = -1 \/ r.age >= 90 THEN Clean
      ELSE IF r.age < 7 THEN Verdict(TRUE, 95, {"domain_age_critical"})
      ELSE IF r.age < 30 THEN Verdict(TRUE, 75, {"domain_age_suspicious"})
      ELSE Verdict(FALSE, 40, {"domain_age_young"}))

(* The lists that ship with the program, used when no provider is set.     *)
StaticList(ind) ==
    IF ind.kind = "ip" /\ ind.class = "tor" THEN Verdict(TRUE, 95, {"tor_exit_node"})
    ELSE IF ind.kind = "ip" /\ ind.class = "listed" THEN Verdict(TRUE, 90, {"known_malicious_ip"})
    ELSE IF ind.kind = "ip" /\ ind.class = "well known"
         THEN Verdict(FALSE, 95, {"known_benign_service"})
    ELSE IF ind.kind = "domain" /\ ind.class = "listed"
         THEN Verdict(TRUE, 90, {"known_malicious_domain"})
    ELSE IF ind.kind = "domain" /\ ind.class = "odd name"
         THEN Verdict(TRUE, 70, {"suspicious_domain"})
    ELSE IF ind.kind = "hash" /\ ind.class = "listed" THEN Verdict(TRUE, 85, {"known_bad_hash"})
    ELSE Clean

(* local_db.py: a row of the indicator table, spelled in lower case.       *)
LocalRows(ind, iocs) == {row \in iocs : row.ind = ind /\ row.lower}

LocalDB(ind, row) == Verdict(TRUE, row.confidence, {"localdb_" \o row.source})

(* The signals that stand for tags; a tag in none of them is its own name. *)
TagsFor ==
    [known_malicious_ip |->
        {"known_malicious_ip", "vt_malicious_ip", "abuseipdb_malicious", "otx_c2_ip", "otx_apt_ip",
         "otx_malware_ip", "greynoise_malicious", "localdb_feodo_tracker", "localdb_threatfox"},
     known_malicious_domain |->
        {"known_malicious_domain", "vt_malicious_domain", "otx_c2_domain", "otx_apt_domain",
         "otx_malware_domain", "localdb_urlhaus"},
     known_bad_hash |->
        {"known_bad_hash", "vt_malicious_hash", "otx_malware_hash", "localdb_malwarebazaar",
         "localdb_urlhaus_hashes"},
     anomalous_ip |->
        {"vt_suspicious_ip", "vt_suspicious_domain", "vt_suspicious_hash", "abuseipdb_suspicious",
         "otx_phishing_ip", "otx_phishing_domain", "otx_suspicious_ip", "otx_suspicious_domain",
         "otx_suspicious_hash"},
     tor_exit_node |-> {"tor_exit_node", "abuseipdb_tor"},
     recently_registered_domain |->
        {"suspicious_domain", "domain_age_critical", "domain_age_suspicious"},
     source_high_risk |-> {"vt_bad_reputation"},
     server_execution |-> {"abuseipdb_datacenter"},
     known_proxy_vpn |-> {"abuseipdb_vpn_proxy"},
     service_account_noise |-> {"greynoise_benign", "greynoise_scanner", "known_benign_service"},
     new_domain |-> {"domain_age_young"}]

SignalFor(tag) ==
    IF \E s \in DOMAIN TagsFor : tag \in TagsFor[s]
    THEN CHOOSE s \in DOMAIN TagsFor : tag \in TagsFor[s] ELSE tag

(* A weight follows the confidence, down to half of the listed one.        *)
DynamicWeight(signal, confidence) ==
    LET base == IF signal \in DOMAIN Base THEN Base[signal] ELSE 15
        w    == (base * (IF confidence > 50 THEN confidence ELSE 50)) \div 100
    IN  IF w > 1 THEN w ELSE 1

(* Only malicious verdicts give signals; the first verdict fixes a weight. *)
Gained(found, verdict) ==
    IF verdict = Clean THEN found
    ELSE IF ~verdict.malicious THEN found
    ELSE LET new == {SignalFor(t) : t \in verdict.tags} \ {s.name : s \in found}
         IN  found \cup {[name |-> n, weight |-> DynamicWeight(n, verdict.confidence)] : n \in new}

(* domain_intel.py: what is kept of a registration, and its signals.       *)
AgeFacts(ind, age) == [age |-> age, tld |-> ind.class = "odd name"]

AgeSignals(ind, facts) ==
    IF ind.class = "well known" THEN {[name |-> "domain_known_safe", weight |-> -10]}
    ELSE (IF facts.age \in 0..6 THEN {[name |-> "domain_very_new", weight |-> 22]}
          ELSE IF facts.age \in 7..29 THEN {[name |-> "domain_newly_registered", weight |-> 18]}
          ELSE {})
         \cup (IF facts.tld THEN {[name |-> "domain_suspicious_tld", weight |-> 12]} ELSE {})

(* ip_identity.py and enrichment/__init__.py: who owns an address.         *)
OwnerSignals(r) ==
    (IF r.proxy THEN {[name |-> "known_proxy_vpn", weight |-> 15]} ELSE {})
    \cup (IF r.storage THEN {[name |-> "destination_personal_cloud", weight |-> 15]} ELSE {})

(* Signals of a later stage are added under names that are still free.     *)
Merged(found, more) == found \cup {s \in more : \A o \in found : o.name # s.name}

=============================================================================
