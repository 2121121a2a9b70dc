------------------------------ MODULE Requests ------------------------------
(***************************************************************************)
(* The rate limit of an API key (core/auth.py).                            *)
(*                                                                         *)
(* FastAPI runs require_tenant, a plain function, in threads of its pool.  *)
(* _check_rate_limit keeps a dictionary from keys to the requests counted  *)
(* in a minute, without a lock: a thread reads the entry, decides, writes  *)
(* it, and after counting a further request prunes what is stale.  With a  *)
(* REDIS_URL the count is one atomic INCR of a key of the minute.          *)
(*                                                                         *)
(* Left out: the search for the key's hash, which changes nothing (a       *)
(* request without a valid key never reaches the counter), and the expiry  *)
(* of a Redis key, which comes after its minute.                           *)
(***************************************************************************)
EXTENDS Integers, FiniteSets

CONSTANTS
    Callers,    \* threads that serve requests
    Keys,       \* valid API keys
    RateLimit,  \* _RATE_LIMIT
    LastMinute  \* bound of the clock

ASSUME RequestsAssumption == RateLimit \in Nat \ {0} /\ LastMinute \in Nat

VARIABLES
    minute,  \* the clock
    redis,   \* whether a Redis server counts
    counts,  \* _rate_counts
    buckets, \* the counters of the Redis server, by key and minute
    call,    \* the request of a thread
    passed   \* history: requests of a key and minute that were counted, also if an
             \* error was answered then

reqVars == <<minute, redis, counts, buckets, call, passed>>

Minutes == 0..LastMinute
NoCall == [at |-> "idle"]

(* A mutant: whatever the entry counts, it is taken for this minute's.     *)
CurrentWhenever(k, m) == k \in DOMAIN counts

(* The dictionary has an entry of the minute for the key.                  *)
Current(k, m) == k \in DOMAIN counts /\ counts[k].minute = m

Counting(k, m, n) ==
    [q \in DOMAIN counts \cup {k} |-> IF q = k THEN [count |-> n, minute |-> m] ELSE counts[q]]

Without(k) == [q \in DOMAIN counts \ {k} |-> counts[q]]

(* Beyond the limit the history need not count.                            *)
Pass(k, m) == passed' = [passed EXCEPT ![k][m] = IF @ < RateLimit THEN @ + 1 ELSE @]

ReqInit ==
    /\ minute = 0 /\ redis \in BOOLEAN /\ counts = <<>>
    /\ call = [t \in Callers |-> NoCall]
    /\ buckets = [k \in Keys |-> [m \in Minutes |-> 0]]
    /\ passed = [k \in Keys |-> [m \in Minutes |-> 0]]

(* A request with a valid key; its thread looks at the clock.              *)
Arrive(t, k) ==
    /\ call[t] = NoCall
    /\ call' = [call EXCEPT ![t] = [at |-> "asked", key |-> k, minute |-> minute]]
    /\ UNCHANGED <<minute, redis, counts, buckets, passed>>

(* entry = _rate_counts.get(api_key), and what follows from it.            *)
ReadEntry(t) ==
    LET c == call[t] IN
    /\ c.at = "asked" /\ ~redis
    /\ \/ /\ ~Current(c.key, c.minute)
          /\ call' = [call EXCEPT ![t].at = "first"]
       \/ /\ Current(c.key, c.minute) /\ counts[c.key].count < RateLimit
          /\ call' = [call EXCEPT ![t] = [at |-> "more", key |-> c.key, minute |-> c.minute,
                                          next |-> counts[c.key].count + 1]]
    /\ UNCHANGED <<minute, redis, counts, buckets, passed>>

(* "Rate limit exceeded"                                                   *)
Refuse(t) ==
    LET c == call[t] IN
    /\ c.at = "asked"
    /\ \/ ~redis /\ Current(c.key, c.minute) /\ counts[c.key].count >= RateLimit
       \/ redis /\ buckets[c.key][c.minute] + 1 > RateLimit
    /\ call' = [call EXCEPT ![t] = NoCall]
    /\ UNCHANGED <<minute, redis, counts, buckets, passed>>

(* The first request of the key in the minute, as far as the thread knows. *)
CountFirst(t) ==
    LET c == call[t] IN
    /\ c.at = "first"
    /\ counts' = Counting(c.key, c.minute, 1)
    /\ Pass(c.key, c.minute)
    /\ call' = [call EXCEPT ![t] = NoCall]
    /\ UNCHANGED <<minute, redis, buckets>>

(* A further one: the thread then walks over the dictionary.               *)
CountMore(t) ==
    LET c == call[t] IN
    /\ c.at = "more"
    /\ counts' = Counting(c.key, c.minute, c.next)
    /\ Pass(c.key, c.minute)
    /\ call' = [call EXCEPT ![t] = [at |-> "walk", key |-> c.key, minute |-> c.minute,
                                    size |-> Cardinality(DOMAIN counts')]]
    /\ UNCHANGED <<minute, redis, buckets>>

(* The walk ends with the stale keys, or fails (the client gets a 500)     *)
(* because the dictionary changed its size meanwhile.                      *)
Walk(t) ==
    LET c == call[t]
        stale == {k \in DOMAIN counts : counts[k].minute < c.minute - 1}
    IN
    /\ c.at = "walk"
    /\ \/ /\ Cardinality(DOMAIN counts) # c.size
          /\ call' = [call EXCEPT ![t] = NoCall]
       \/ /\ Cardinality(DOMAIN counts) = c.size
          /\ call' = [call EXCEPT ![t] = [at |-> "prune", key |-> c.key, minute |-> c.minute,
                                          stale |-> stale]]
    /\ UNCHANGED <<minute, redis, counts, buckets, passed>>

(* del _rate_counts[k]: a KeyError if another thread was faster.           *)
Prune(t) ==
    LET c == call[t] IN
    /\ c.at = "prune"
    /\ \/ /\ c.stale = {}
          /\ call' = [call EXCEPT ![t] = NoCall]
          /\ UNCHANGED counts
       \/ \E k \in c.stale :
            IF k \in DOMAIN counts
            THEN counts' = Without(k) /\ call' = [call EXCEPT ![t].stale = @ \ {k}]
            ELSE call' = [call EXCEPT ![t] = NoCall] /\ UNCHANGED counts
    /\ UNCHANGED <<minute, redis, buckets, passed>>

(* _check_rate_limit_redis: INCR of the key of the request's minute.  The  *)
(* count past the limit is left out: it never falls.                       *)
Incr(t) ==
    LET c == call[t]
        n == buckets[c.key][c.minute] + 1
    IN
    /\ c.at = "asked" /\ redis /\ n <= RateLimit
    /\ buckets' = [buckets EXCEPT ![c.key][c.minute] = n]
    /\ call' = [call EXCEPT ![t] = NoCall]
    /\ Pass(c.key, c.minute)
    /\ UNCHANGED <<minute, redis, counts>>

(* The Redis server is chosen at import; nothing catches its errors later. *)
(* An error before the server has counted; one after it (of the reply or   *)
(* of EXPIRE) is a step of Incr, whose request then ends with the error.   *)
RedisFails(t) ==
    /\ call[t].at = "asked" /\ redis
    /\ call' = [call EXCEPT ![t] = NoCall]
    /\ UNCHANGED <<minute, redis, counts, buckets, passed>>

(* A request is at hand for less than a minute, which is a bound, so the   *)
(* clock moves at most once under it.  What no request at hand can be      *)
(* refused for is forgotten.                                               *)
MinutePasses ==
    LET open(m) == \E t \in Callers : call[t] # NoCall /\ call[t].minute = m IN
    /\ minute < LastMinute
    /\ \A t \in Callers : call[t] # NoCall => call[t].minute = minute
    /\ minute' = minute + 1
    /\ passed' = [k \in Keys |-> [m \in Minutes |-> IF open(m) THEN passed[k][m] ELSE 0]]
    /\ UNCHANGED <<redis, counts, buckets, call>>

ReqNext ==
    \/ \E t \in Callers : \/ \E k \in Keys : Arrive(t, k)
                          \/ ReadEntry(t) \/ Refuse(t) \/ CountFirst(t) \/ CountMore(t)
                          \/ Walk(t) \/ Prune(t) \/ Incr(t) \/ RedisFails(t)
    \/ MinutePasses

(* auth.py: "Rate limit exceeded" is only answered once as many requests   *)
(* of the key as the limit allows have been counted in the minute of       *)
(* the request, whatever updates other threads overwrote or pruned.        *)
RefusedOnlyAtLimit ==
    [][\A t \in Callers : Refuse(t) => passed[call[t].key][call[t].minute] >= RateLimit]_reqVars
=============================================================================
