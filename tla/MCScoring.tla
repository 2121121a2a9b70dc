----------------------------- MODULE MCScoring -----------------------------
(* Small instances of Scoring, with names, weights and tiers of the signal *)
(* registry (services/enrichment/weights.py).                              *)
EXTENDS Scoring, Detectors

D(name, weight, tier, fired, rebuilt) ==
    [name |-> name, weight |-> weight, tier |-> tier, fired |-> fired, rebuilt |-> rebuilt]

Ctx(base, asset, user, fidelity, outcome, detail, transfer, admin) ==
    [base |-> base, asset |-> asset, user |-> user, fidelity |-> fidelity,
     outcome |-> outcome, detail |-> detail, transfer |-> transfer, admin |-> admin]

(* Alerts.  A director copies files from a domain controller; a developer  *)
(* is suspected of it by the words of a blocked alert; a monitoring account*)
(* is active on a server.                                                  *)
Alert(text, fields, account, host) ==
    [text |-> text, fields |-> fields, techniques |-> {}, process |-> "other",
     identity |-> [tier |-> "none", account |-> account, title |-> FALSE],
     host |-> [set |-> "none", name |-> host, type |-> "none", safety |-> FALSE],
     hosts |-> 1]

Copying == Alert({}, {"many items", "policy violation"}, "executive", "critical")
Hearsay == Alert({"exfiltration, often", "response"}, {}, "other", "low")
Watching == Alert({}, {}, "monitoring", "high")

ContextOf(a, base, fidelity, outcome, detail, transfer, admin) ==
    Ctx(base, AssetPoints[AssetTier(a)], UserPoints[UserTier(a)], fidelity, outcome, detail,
        transfer, admin)

(* A severe alert with every bonus after the cap, an administrator's that  *)
(* was blocked and one of a distrusted tool.                               *)
AllContexts == {ContextOf(Copying, 30, 100, "other", TRUE, 8, FALSE),
                ContextOf(Hearsay, 15, 100, "blocked", FALSE, 3, TRUE),
                ContextOf(Watching, 22, 60, "detected", TRUE, 5, FALSE)}

(* Mixed evidence: a combo, a lone country, a response action, suppressed  *)
(* and verified lookups; six positive signals reach every band of the      *)
(* diminishing returns and every corroboration step.                       *)
MixedExtracted == {D("resignation_on_file", 22, "observed", TRUE, FALSE),
                   D("resignation_on_file", 22, "observed", FALSE, FALSE),
                   Promoted(D("insider_data_exfil", 20, "inferred", TRUE, FALSE), Copying),
                   D("external_geo", 8, "observed", TRUE, FALSE),
                   D("ir_response", -30, "inferred", IrResponse(Hearsay), FALSE)}
MixedLookups == {D("known_proxy_vpn", 15, "verified", TRUE, TRUE),
                 D("peer_anomaly", 15, "verified", TRUE, FALSE),
                 D("domain_very_new", 22, "verified", TRUE, FALSE),
                 D("known_cloud_provider", -12, "verified", TRUE, FALSE)}
MixedDenylists == {{}, {"domain_very_new"}, {"resignation_on_file", "ir_response"}}

(* Names of the registry that occur here.                                  *)
RegistryNames ==
    {"authorized_admin_activity"}
      \cup {d.name : d \in MixedExtracted \cup MixedLookups}

LearnedCalibration ==
    [n \in Names |-> CASE n = "insider_data_exfil" -> 130
                       [] n = "domain_very_new" -> 30
                       [] OTHER -> 100]
=============================================================================
