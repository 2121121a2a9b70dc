----------------------------- MODULE ThreatIntel -----------------------------
(* Enrichments look indicators up at threat intelligence providers through *)
(* a shared cache, while a background loop loads indicator feeds into the  *)
(* database that one of the providers reads: threat_intel.py, cache.py,    *)
(* ip_identity.py, domain_intel.py, feed_ingestion.py, providers/*.        *)
(* An action is what happens between two points at which another thread    *)
(* can run: the cache is locked, a request to a provider takes time.       *)
EXTENDS Verdicts, SequencesExt

CONSTANTS Threads,
          Sites,        \* [providers: a sequence, alerts: a set, atOnce: a bound]
                        \* an alert is [ips, domains, hashes: sequences of indicators]
          Reply(_, _),  \* what a provider says of an indicator
          Feeds,        \* the feeds in the order they are loaded
          Published(_), \* the rows a feed publishes
          MaxFeedRows,  \* 5000
          MaxSize,      \* entries of the cache, 10000
          TTL,          \* [kind -> ticks a verdict is kept]
          Quota         \* requests to a limited provider per tick or day

Providers == {"local", "static", "otx", "greynoise", "whois", "abuseipdb", "virustotal"}

Kinds == {"ip", "domain", "hash"}
Indicator(kind) == [kind : {kind}, class : STRING]
Indicators == [kind : Kinds, class : STRING]

(* Sites have lists of indicators; sizes, times and limits are not         *)
(* negative; feeds have names of their own and publish rows.               *)
ASSUME IntelAssumption ==
    /\ \A s \in Sites : /\ s.providers \in Seq(Providers)
                        /\ \A a \in s.alerts : /\ a.ips \in Seq(Indicator("ip"))
                                               /\ a.domains \in Seq(Indicator("domain"))
                                               /\ a.hashes \in Seq(Indicator("hash"))
    /\ MaxSize \in Nat /\ Quota \in Nat /\ TTL \in [Kinds -> Nat]
    /\ Feeds \in Seq(STRING) /\ Feeds # <<>>
    /\ \A k, l \in 1..Len(Feeds) : Feeds[k] = Feeds[l] => k = l
    /\ \A k \in 1..Len(Feeds) :
          Published(Feeds[k]) \in Seq([ind : Indicators, confidence : 0..100, lower : BOOLEAN,
                                       url : BOOLEAN, valid : BOOLEAN])

VARIABLES site,         \* the deployment: set_threat_intel_providers, its alerts
          store,        \* the cache, least recently used first
          ages,         \* the cache of domain_intel: [domain -> entry]
          spent,        \* requests counted against the quotas
          lastNotes,    \* _last_ti_notes: actors named by the last enrich()
          job,          \* [thread -> its enrichment]
          iocs,         \* threat_intel_iocs
          feed          \* [at: the feed being loaded or 0, row: rows read of it,
                        \*  table: threat_intel_iocs as its session sees it]

vars == <<site, store, ages, spent, lastNotes, job, iocs, feed>>

Limited == {"virustotal", "abuseipdb"}

None == [kind |-> "none", class |-> "none"]

(* ---------------------------- the work list ---------------------------- *)

Item(by, ind) == [by |-> by, ind |-> ind]

Each(inds) ==
    FlattenSeq([i \in 1..Len(inds) |-> [p \in 1..Len(site.providers) |-> Item(site.providers[p], inds[i])]])

By(p, inds) == [i \in 1..Len(inds) |-> Item(p, inds[i])]

First(inds) == IF inds = <<>> THEN <<>> ELSE <<inds[1]>>

(* enrich(), then its caller reads the notes and asks who owns the         *)
(* addresses and how old the first domain is.                              *)
Work(alert) ==
    Each(alert.ips) \o Each(alert.domains) \o By("dns", alert.domains) \o Each(alert.hashes)
    \o <<Item("publish", None), Item("collect", None)>>
    \o By("ipapi", alert.ips) \o By("rdap", First(alert.domains))

Idle == [pc |-> "idle", todo |-> <<>>, answer |-> Clean, found |-> {}, actors |-> {}, notes |-> {}]

Now(t) == Head(job[t].todo)

Does(t, by) == job[t].pc = "get" /\ job[t].todo # <<>> /\ Now(t).by \in by

Remote == {"otx", "greynoise", "whois", "abuseipdb", "virustotal", "ipapi"}

Cached == Remote \cup {"local", "static"}

(* The next item, with the signals and actors this one has added.          *)
Done(t, found, actors) ==
    job' = [job EXCEPT ![t] = [job[t] EXCEPT !.todo = Tail(@), !.pc = "get", !.answer = Clean,
                                        !.found = found, !.actors = actors]]

Used(t, verdict) ==
    LET j == job[t]
        ind == Now(t).ind
    IN  IF Now(t).by = "ipapi"
        THEN Done(t, IF verdict = Clean THEN j.found ELSE Merged(j.found, OwnerSignals(verdict)),
                  j.actors)
        ELSE Done(t, Gained(j.found, verdict),
                  IF verdict # Clean /\ verdict.malicious /\ verdict.actors
                  THEN j.actors \cup {ind} ELSE j.actors)

(* ------------------------------- the cache ------------------------------ *)

Of(s, by, ind) == {e \in Range(s) : e.by = by /\ e.ind = ind}

At(s, by, ind) == {i \in 1..Len(s) : s[i].by = by /\ s[i].ind = ind}

Without(s, by, ind) ==
    IF At(s, by, ind) = {} THEN s ELSE RemoveAt(s, CHOOSE i \in At(s, by, ind) : TRUE)

Entry(by, ind, verdict) == [by |-> by, ind |-> ind, verdict |-> verdict, left |-> TTL[ind.kind]]

StoredBeside(s, entry) ==
    LET all == Append(s, entry)
    IN  IF Len(all) > MaxSize THEN SubSeq(all, Len(all) - MaxSize + 1, Len(all)) ELSE all

(* ThreatIntelCache.put: the newest entry last, the oldest ones dropped.   *)
Stored(s, entry) ==
    LET all == Append(Without(s, entry.by, entry.ind), entry)
    IN  IF Len(all) > MaxSize THEN SubSeq(all, Len(all) - MaxSize + 1, Len(all)) ELSE all

LiveForever(s, by, ind) == Of(s, by, ind)

Live(s, by, ind) == {e \in Of(s, by, ind) : e.left >= 0}

(* ThreatIntelCache.get: a found entry becomes the most recently used one  *)
(* and keeps its time; an expired one is deleted.                          *)
Looked(s, by, ind) ==
    IF Live(s, by, ind) = {} THEN Without(s, by, ind)
    ELSE Append(Without(s, by, ind), CHOOSE e \in Live(s, by, ind) : TRUE)

Hit(t) ==
    /\ Does(t, Cached)
    /\ \E e \in Live(store, Now(t).by, Now(t).ind) : Used(t, e.verdict)
    /\ store' = Looked(store, Now(t).by, Now(t).ind)
    /\ UNCHANGED <<site, ages, spent, lastNotes, iocs, feed>>

Miss(t) ==
    /\ Does(t, Cached) /\ Live(store, Now(t).by, Now(t).ind) = {}
    /\ store' = Looked(store, Now(t).by, Now(t).ind)
    /\ job' = [job EXCEPT ![t].pc = "ask"]
    /\ UNCHANGED <<site, ages, spent, lastNotes, iocs, feed>>

(* ----------------------------- the providers ---------------------------- *)

(* What a provider's answer can be; the database may hold several rows.    *)
Says(by, ind) ==
    CASE by = "local" -> IF LocalRows(ind, iocs) = {} THEN {Clean}
                         ELSE {LocalDB(ind, row) : row \in LocalRows(ind, iocs)}
      [] by = "static" -> {StaticList(ind)}
      [] by = "otx" -> {OTX(ind, Reply(by, ind))}
      [] by = "greynoise" -> {GreyNoise(ind, Reply(by, ind))}
      [] by = "whois" -> {Whois(ind, Reply(by, ind))}
      [] by = "abuseipdb" -> {AbuseIPDB(ind, Reply(by, ind))}
      [] by = "virustotal" -> {VirusTotal(ind, Reply(by, ind))}
      [] by = "ipapi" -> {Reply(by, ind)}
      [] by = "rdap" -> {AgeFacts(ind, Reply(by, ind))}

Counted(by, ind) == by \in Limited /\ (by = "abuseipdb" => ind.kind = "ip")

Spend(by) == spent' = [spent EXCEPT ![by] = @ + 1]

Answered(t) ==
    /\ job[t].pc = "ask"
    /\ IF Counted(Now(t).by, Now(t).ind)
       THEN spent[Now(t).by] < Quota /\ Spend(Now(t).by)
       ELSE UNCHANGED spent
    /\ \E v \in Says(Now(t).by, Now(t).ind) :
         job' = [job EXCEPT ![t].pc = "put", ![t].answer = v]
    /\ UNCHANGED <<site, store, ages, lastNotes, iocs, feed>>

(* A provider that cannot be reached, answers with an error or is over its *)
(* limit gives None, which is kept like a clean verdict.                   *)
Unanswered(t) ==
    /\ job[t].pc = "ask" /\ Now(t).by \in Remote \cup {"local"}
    /\ IF Counted(Now(t).by, Now(t).ind) /\ spent[Now(t).by] < Quota
       THEN Spend(Now(t).by) ELSE UNCHANGED spent
    /\ job' = [job EXCEPT ![t].pc = "put", ![t].answer = Clean]
    /\ UNCHANGED <<site, store, ages, lastNotes, iocs, feed>>

(* A reply that cannot be read raises: the provider is marked, nothing is  *)
(* kept.  Other providers catch every exception themselves.                *)
Raised(t) ==
    /\ job[t].pc = "ask" /\ Now(t).by \in {"otx", "abuseipdb", "virustotal", "ipapi"}
    /\ Now(t).by = "abuseipdb" => Now(t).ind.kind = "ip"
    /\ IF Counted(Now(t).by, Now(t).ind) THEN spent[Now(t).by] < Quota /\ Spend(Now(t).by)
       ELSE UNCHANGED spent
    /\ Used(t, Clean)
    /\ UNCHANGED <<site, store, ages, lastNotes, iocs, feed>>

Put(t) ==
    /\ job[t].pc = "put"
    /\ store' = Stored(store, Entry(Now(t).by, Now(t).ind, job[t].answer))
    /\ Used(t, job[t].answer)
    /\ UNCHANGED <<site, ages, spent, lastNotes, iocs, feed>>

(* ---------------------- names, ages, notes, prefetch -------------------- *)

Resolve(t) ==
    /\ Does(t, {"dns"})
    /\ \E fails \in BOOLEAN :
         Done(t, IF fails THEN Merged(job[t].found, {[name |-> "unresolvable_domain", weight |-> 15]})
                 ELSE job[t].found, job[t].actors)
    /\ UNCHANGED <<site, store, ages, spent, lastNotes, iocs, feed>>

(* lookup_domain drops its whole cache when it has grown too large, before *)
(* it looks for the domain.                                                *)
Kept == IF Cardinality(DOMAIN ages) > MaxSize THEN <<>> ELSE ages

Fresh(ind) == ind \in DOMAIN Kept /\ ages[ind].left > 0

AgeKnown(t) ==
    /\ Does(t, {"rdap"}) /\ (Now(t).ind.class = "well known" \/ Fresh(Now(t).ind))
    /\ LET facts == IF Fresh(Now(t).ind) THEN ages[Now(t).ind].verdict ELSE AgeFacts(Now(t).ind, -1)
       IN  Done(t, Merged(job[t].found, AgeSignals(Now(t).ind, facts)), job[t].actors)
    /\ UNCHANGED <<site, store, ages, spent, lastNotes, iocs, feed>>

AskAge(t) ==
    /\ Does(t, {"rdap"}) /\ Now(t).ind.class # "well known" /\ ~Fresh(Now(t).ind)
    /\ ages' = Kept
    /\ job' = [job EXCEPT ![t].pc = "age"]
    /\ UNCHANGED <<site, store, spent, lastNotes, iocs, feed>>

KeepAge(t, facts) ==
    /\ job[t].pc = "age"
    /\ LET ind == Now(t).ind
           entry == [verdict |-> facts, left |-> TTL[ind.kind]]
       IN  /\ ages' = [i \in DOMAIN ages \cup {ind} |-> IF i = ind THEN entry ELSE ages[i]]
           /\ Done(t, Merged(job[t].found, AgeSignals(ind, facts)), job[t].actors)
    /\ UNCHANGED <<site, store, spent, lastNotes, iocs, feed>>

AgeAnswered(t) == job[t].pc = "age" /\ \E facts \in Says("rdap", Now(t).ind) : KeepAge(t, facts)

AgeUnanswered(t) == job[t].pc = "age" /\ KeepAge(t, AgeFacts(Now(t).ind, -1))

(* The actors an enrichment has met go to its caller through a field that  *)
(* all enrichments share.                                                  *)
Publish(t) ==
    /\ Does(t, {"publish"})
    /\ lastNotes' = job[t].actors
    /\ Done(t, job[t].found, job[t].actors)
    /\ UNCHANGED <<site, store, ages, spent, iocs, feed>>

Collect(t) ==
    /\ Does(t, {"collect"})
    /\ job' = [job EXCEPT ![t].todo = Tail(@), ![t].notes = lastNotes]
    /\ UNCHANGED <<site, store, ages, spent, lastNotes, iocs, feed>>

Begin(t) ==
    /\ job[t].pc = "idle" /\ Cardinality({u \in Threads : job[u].pc # "idle"}) < site.atOnce
    /\ \E alert \in site.alerts : job' = [job EXCEPT ![t] = [Idle EXCEPT !.pc = "get", !.todo = Work(alert)]]
    /\ UNCHANGED <<site, store, ages, spent, lastNotes, iocs, feed>>

End(t) ==
    /\ job[t].pc = "get" /\ job[t].todo = <<>>
    /\ job' = [job EXCEPT ![t] = Idle]
    /\ UNCHANGED <<site, store, ages, spent, lastNotes, iocs, feed>>

(* An upload looks all its addresses up before its first row, asks at once *)
(* for those that are not in the cache, and keeps the replies one by one;  *)
(* a request that fails keeps nothing.                                     *)
BeginUpload(t) ==
    /\ job[t].pc = "idle" /\ Cardinality({u \in Threads : job[u].pc # "idle"}) < site.atOnce
    /\ \E alert \in site.alerts :
         /\ alert.ips # <<>>
         /\ job' = [job EXCEPT ![t] = [Idle EXCEPT !.pc = "get",
                       !.todo = By("prefetch", alert.ips) \o <<Item("batch", None)>>]]
    /\ UNCHANGED <<site, store, ages, spent, lastNotes, iocs, feed>>

Prefetch(t) ==
    /\ Does(t, {"prefetch"})
    /\ LET ind == Now(t).ind
       IN  /\ store' = Looked(store, "ipapi", ind)
           /\ job' = [job EXCEPT ![t].todo =
                IF Live(store, "ipapi", ind) = {} THEN Append(Tail(@), Item("keep", ind)) ELSE Tail(@)]
    /\ UNCHANGED <<site, ages, spent, lastNotes, iocs, feed>>

Batch(t) ==
    /\ Does(t, {"batch"})
    /\ \E answered \in BOOLEAN : job' = [job EXCEPT ![t].todo = IF answered THEN Tail(@) ELSE <<>>]
    /\ UNCHANGED <<site, store, ages, spent, lastNotes, iocs, feed>>

KeepAs(t, verdict) ==
    /\ Does(t, {"keep"})
    /\ store' = Stored(store, Entry("ipapi", Now(t).ind, verdict))
    /\ job' = [job EXCEPT ![t].todo = Tail(@)]
    /\ UNCHANGED <<site, ages, spent, lastNotes, iocs, feed>>

Keep(t) == KeepAs(t, Reply("ipapi", Now(t).ind))

(* The batch was answered, but without success for this address.           *)
KeepNone(t) == KeepAs(t, Clean)

(* -------------------------------- feeds --------------------------------- *)

Capped == {"malwarebazaar", "urlhaus_hashes", "openphish", "sslbl"}

(* A row a loader accepts, as it is stored: ThreatFox keeps the spelling   *)
(* of names and hashes, the other loaders use lower case.                  *)
AsStored(f, row) ==
    [ind |-> row.ind, source |-> f,
     lower |-> f = "threatfox" /\ row.ind.kind # "ip" /\ ~row.url => row.lower,
     confidence |-> CASE f = "threatfox" -> IF row.confidence > 95 THEN 95 ELSE row.confidence
                      [] f \in {"urlhaus", "urlhaus_hashes"} -> 85
                      [] OTHER -> 90]

(* The positions of the rows a loader takes: a row it cannot use is passed *)
(* over, and some loaders stop after so many rows they took.               *)
Taken(f) ==
    LET kinds == [feodo_tracker |-> {"ip"}, urlhaus |-> {"domain"}, threatfox |-> {"ip", "domain", "hash"},
                  malwarebazaar |-> {"hash"}, urlhaus_hashes |-> {"hash"}, openphish |-> {"domain"},
                  sslbl |-> {"hash"}][f]
        good  == {i \in 1..Len(Published(f)) : Published(f)[i].ind.kind \in kinds /\ Published(f)[i].valid}
    IN  {i \in good : f \in Capped => Cardinality({j \in good : j <= i}) <= MaxFeedRows}

SameRow(r, s) == r.ind = s.ind /\ r.source = s.source /\ r.lower = s.lower

(* _upsert_ioc: one row for each indicator of a source.                    *)
Upserted(rows, row) == {r \in rows : ~SameRow(r, row)} \cup {row}

(* The table after the i-th published row, in the session of the feed.     *)
WithRow(rows, f, i) ==
    IF i \in Taken(f) THEN Upserted(rows, AsStored(f, Published(f)[i])) ELSE rows

Loading(at, rows) == [at |-> at, row |-> 0, table |-> rows]

NextFeed(rows) == Loading((feed.at + 1) % (Len(Feeds) + 1), rows)

Reads(row) ==
    /\ feed.at > 0 /\ row \in 1..Len(Published(Feeds[feed.at]))
    /\ feed' = [feed EXCEPT !.row = row, !.table = WithRow(@, Feeds[feed.at], row)]

(* Mutant: each row is committed by itself.                                *)
FeedRowSaved ==
    /\ Reads(feed.row + 1)
    /\ iocs' = feed'.table
    /\ UNCHANGED <<site, store, ages, spent, lastNotes, job>>

FeedRow ==
    /\ Reads(feed.row + 1)
    /\ UNCHANGED <<site, store, ages, spent, lastNotes, job, iocs>>

FeedCommit ==
    /\ feed.at > 0 /\ feed.row = Len(Published(Feeds[feed.at]))
    /\ iocs' = feed.table
    /\ feed' = NextFeed(feed.table)
    /\ UNCHANGED <<site, store, ages, spent, lastNotes, job>>

(* A download or a row that fails ends the feed's session and the next     *)
(* feed is loaded all the same.                                            *)
FeedFails ==
    /\ feed.at > 0
    /\ feed' = NextFeed(iocs)
    /\ UNCHANGED <<site, store, ages, spent, lastNotes, job, iocs>>

FeedWakes ==
    /\ feed.at = 0
    /\ feed' = Loading(1, iocs)
    /\ UNCHANGED <<site, store, ages, spent, lastNotes, job, iocs>>

(* --------------------------------- time --------------------------------- *)

Tick ==
    /\ store' = [i \in 1..Len(store) |-> [store[i] EXCEPT !.left = IF @ > -1 THEN @ - 1 ELSE -1]]
    /\ ages' = [d \in DOMAIN ages |-> [ages[d] EXCEPT !.left = IF @ > 0 THEN @ - 1 ELSE 0]]
    /\ spent' = [spent EXCEPT !["virustotal"] = 0]
    /\ UNCHANGED <<site, lastNotes, job, iocs, feed>>

Midnight ==
    /\ spent["abuseipdb"] > 0
    /\ spent' = [spent EXCEPT !["abuseipdb"] = 0]
    /\ UNCHANGED <<site, store, ages, lastNotes, job, iocs, feed>>

(* The process ends and starts again; what it held in memory is lost.      *)
Restart ==
    /\ store' = <<>> /\ ages' = <<>> /\ lastNotes' = {}
    /\ spent' = [p \in Limited |-> 0]
    /\ job' = [t \in Threads |-> Idle]
    /\ \E at \in {0, 1} : feed' = Loading(at, iocs)
    /\ UNCHANGED <<site, iocs>>

Init ==
    /\ site \in Sites
    /\ store = <<>> /\ ages = <<>> /\ lastNotes = {} /\ iocs = {}
    /\ spent = [p \in Limited |-> 0]
    /\ job = [t \in Threads |-> Idle]
    /\ \E at \in {0, 1} : feed = Loading(at, iocs)

Step(t) ==
    \/ Hit(t) \/ Miss(t) \/ Answered(t) \/ Unanswered(t) \/ Raised(t) \/ Put(t)
    \/ Resolve(t) \/ AgeKnown(t) \/ AskAge(t) \/ AgeAnswered(t) \/ AgeUnanswered(t)
    \/ Publish(t) \/ Collect(t) \/ Prefetch(t) \/ Batch(t) \/ Keep(t) \/ KeepNone(t) \/ End(t)

Next ==
    \/ \E t \in Threads : Step(t) \/ Begin(t) \/ BeginUpload(t)
    \/ FeedRow \/ FeedCommit \/ FeedFails \/ FeedWakes
    \/ Tick \/ Midnight \/ Restart

(* Time passes.  Nothing is assumed of providers, feeds or enrichments.    *)
Spec == Init /\ [][Next]_vars /\ WF_vars(Tick)

(* ------------------------------ properties ------------------------------ *)

(* Types; the cache holds one entry for a provider and indicator and no    *)
(* more entries than its limit; an enrichment has one signal of a name.    *)
TypeOK ==
    /\ site \in Sites
    /\ Len(store) <= MaxSize
    /\ \A i, k \in 1..Len(store) :
         /\ store[i].left \in -1..TTL[store[i].ind.kind]
         /\ store[i].by = store[k].by /\ store[i].ind = store[k].ind => i = k
    /\ spent \in [Limited -> 0..Quota]
    /\ feed.at \in 0..Len(Feeds)
    /\ \A t \in Threads :
         /\ job[t].pc \in {"idle", "get", "ask", "put", "age"}
         /\ \A s, o \in job[t].found : s.name = o.name => s = o

(* What a feed stores when it is loaded: of its rows for one indicator the *)
(* last one.                                                               *)
Whole(f) ==
    LET row(i) == AsStored(f, Published(f)[i])
    IN  {row(i) : i \in {k \in Taken(f) : \A j \in Taken(f) : j > k => ~SameRow(row(j), row(k))}}

(* feed_ingestion.py: whatever fails and whenever the process ends, a feed *)
(* is in the database with all the rows it was last loaded with or not at  *)
(* all, and each of its indicators is there once.                          *)
FeedsWhole ==
    \A k \in 1..Len(Feeds) : {r \in iocs : r.source = Feeds[k]} \in {{}, Whole(Feeds[k])}

Lapse(t) == Unanswered(t) \/ AgeUnanswered(t) \/ KeepNone(t)

(* What a provider that could not be reached left behind does not last: if *)
(* providers answer from some time on, then from some time on every verdict*)
(* the caches still give out is what its provider says, and what the feeds *)
(* have loaded is found.  (threat_intel.py, cache.py, domain_intel.py)     *)
OutageForgotten ==
    \/ []<><<\E t \in Threads : Lapse(t)>>_vars
    \/ <>[](/\ \A e \in Range(store) : \A live \in Live(store, e.by, e.ind) :
                  live.verdict \in Says(e.by, e.ind)
            /\ \A d \in DOMAIN ages : ages[d].left > 0 => ages[d].verdict \in Says("rdap", d))
=============================================================================
