------------------------------- MODULE MCIntel -------------------------------
(* Deployments, indicators, replies and feed rows for ThreatIntel.         *)
EXTENDS ThreatIntel

Ip  == [kind |-> "ip", class |-> "tor"]
Dom == [kind |-> "domain", class |-> "odd name"]
Sha == [kind |-> "hash", class |-> "listed"]

Names == [ips |-> <<>>, domains |-> <<Dom>>, hashes |-> <<>>]
Hosts == [ips |-> <<Ip>>, domains |-> <<>>, hashes |-> <<>>]
Files == [ips |-> <<>>, domains |-> <<>>, hashes |-> <<Sha>>]

Site(providers, alerts, atOnce) == [providers |-> providers, alerts |-> alerts, atOnce |-> atOnce]

WithoutKeys == <<"local", "greynoise", "whois">>
WithKeys == <<"local", "otx", "greynoise", "whois", "abuseipdb", "virustotal">>

AllSites ==
    {Site(WithoutKeys, {Hosts}, 2), Site(<<"static">>, {Files}, 1),
     Site(WithKeys, {Hosts}, 1), Site(WithoutKeys, {Names}, 1), Site(WithKeys, {Files}, 1)}

ReplyOf(by, ind) ==
    CASE by = "virustotal" /\ ind = Ip ->
           [malicious |-> 17, suspicious |-> 0, total |-> 20, reputation |-> 0, tor |-> FALSE]
      [] by = "virustotal" /\ ind # Ip ->
           [malicious |-> 2, suspicious |-> 5, total |-> 70, reputation |-> -60, tor |-> FALSE]
      [] by = "abuseipdb" -> [score |-> 85, reports |-> 9, tor |-> FALSE, usage |-> "none"]
      [] by = "otx" -> [pulses |-> 5, reputation |-> -1, validated |-> FALSE, adversary |-> TRUE,
                        themes |-> {"c2"}]
      [] by = "greynoise" -> [class |-> "malicious", riot |-> FALSE, noise |-> TRUE]
      [] by = "whois" -> [age |-> 5]
      [] by = "rdap" -> 5
      [] by = "ipapi" -> [proxy |-> TRUE, storage |-> FALSE]

Row(ind, c) == [ind |-> ind, confidence |-> c, lower |-> TRUE, url |-> FALSE, valid |-> TRUE]

PublishedBy(f) ==
    <<Row(Ip, 50), Row(Ip, 90)>>

OneFeed == <<"threatfox">>

Weights == [known_malicious_ip |-> 20, tor_exit_node |-> 15, recently_registered_domain |-> 12,
            known_malicious_domain |-> 18, known_bad_hash |-> 20, anomalous_ip |-> 12,
            source_high_risk |-> 12, server_execution |-> 10, known_proxy_vpn |-> 15,
            service_account_noise |-> -15, new_domain |-> 15]

TTLs == [ip |-> 0, domain |-> 1, hash |-> 0]
=============================================================================
