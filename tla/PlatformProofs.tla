--------------------------- MODULE PlatformProofs ---------------------------
(***************************************************************************)
(* Theorems about the services around the intake, for any number of        *)
(* threads, keys, workers, clients and jobs, and for every limit: the rate *)
(* limit refuses nobody early, and a job reported as completed comes with  *)
(* its result.                                                             *)
(***************************************************************************)
EXTENDS Platform, TLAPS

(* ------------------------------ the counter ----------------------------- *)

Counters == [Keys -> [Minutes -> 0..RateLimit]]

Calls ==
    {NoCall}
      \cup [at : {"asked", "first"}, key : Keys, minute : Minutes]
      \cup [at : {"more"}, key : Keys, minute : Minutes, next : 1..RateLimit]
      \cup [at : {"walk"}, key : Keys, minute : Minutes,
            size : {Cardinality(d) : d \in SUBSET Keys}]
      \cup [at : {"prune"}, key : Keys, minute : Minutes, stale : SUBSET Keys]

ReqTyped ==
    /\ minute \in Minutes /\ redis \in BOOLEAN
    /\ DOMAIN counts \subseteq Keys
    /\ \A k \in DOMAIN counts : counts[k] \in [count : 1..RateLimit, minute : Minutes]
    /\ buckets \in Counters /\ passed \in Counters
    /\ call \in [Callers -> Calls]

(* The minutes a request can be refused for, now or later.                 *)
Open == {m \in Minutes : m = minute \/ \E t \in Callers : call[t] # NoCall /\ call[t].minute = m}

(* Whatever was overwritten, an entry counts no more requests of a minute  *)
(* that is open than were counted, and none of a minute to come.           *)
ReqInv ==
    /\ ReqTyped
    /\ \A t \in Callers : call[t] # NoCall => call[t].minute <= minute
    /\ \A k \in DOMAIN counts :
          /\ counts[k].minute <= minute
          /\ counts[k].minute \in Open => counts[k].count <= passed[k][counts[k].minute]
    /\ \A t \in Callers :
          call[t].at = "more" => call[t].next <= passed[call[t].key][call[t].minute] + 1
    /\ \A k \in Keys : \A m \in Minutes :
          /\ m \in Open => buckets[k][m] <= passed[k][m]
          /\ m > minute => buckets[k][m] = 0

(* What a call that is in hand looks like at each of its steps.            *)
LEMMA CallShapes ==
    ASSUME NEW c \in Calls
    PROVE  /\ c = NoCall <=> c.at = "idle"
           /\ c.at \in {"asked", "first"} => c \in [at : {"asked", "first"}, key : Keys, minute : Minutes]
           /\ c.at = "more" => c \in [at : {"more"}, key : Keys, minute : Minutes, next : 1..RateLimit]
           /\ c.at = "walk" => c \in [at : {"walk"}, key : Keys, minute : Minutes,
                                      size : {Cardinality(d) : d \in SUBSET Keys}]
           /\ c.at = "prune" => c \in [at : {"prune"}, key : Keys, minute : Minutes,
                                       stale : SUBSET Keys]
           /\ c # NoCall => c.key \in Keys /\ c.minute \in Minutes
  BY DEF Calls, NoCall

(* A thread that goes on with its request, drops it or takes a new one.    *)
LEMMA CallStep ==
    ASSUME ReqInv, NEW t \in Callers, NEW c \in Calls,
           call' = [call EXCEPT ![t] = c], minute' = minute,
           \/ c = NoCall
           \/ c.minute = minute
           \/ call[t] # NoCall /\ c.minute = call[t].minute
    PROVE  /\ call' \in [Callers -> Calls]
           /\ Open' \subseteq Open
           /\ \A u \in Callers : call'[u] # NoCall => call'[u].minute <= minute'
  <1>1. call' \in [Callers -> Calls]
    BY DEF ReqInv, ReqTyped
  <1>2. call'[t] = c /\ \A u \in Callers : u # t => call'[u] = call[u]
    BY DEF ReqInv, ReqTyped
  <1>3. Open' \subseteq Open
    BY <1>2 DEF Open
  <1>4. c # NoCall => c.minute <= minute
    BY RequestsAssumption DEF ReqInv, ReqTyped, Minutes
  <1>5. \A u \in Callers : call'[u] # NoCall => call'[u].minute <= minute'
    BY <1>2, <1>4 DEF ReqInv
  <1>. QED
    BY <1>1, <1>3, <1>5

(* Steps that leave the counters and the history alone.                    *)
LEMMA QuietStep ==
    ASSUME ReqInv, NEW t \in Callers, NEW c \in Calls,
           call' = [call EXCEPT ![t] = c], UNCHANGED <<minute, redis, counts, buckets, passed>>,
           \/ c = NoCall
           \/ c.minute = minute
           \/ call[t] # NoCall /\ c.minute = call[t].minute,
           c.at = "more" => c.next <= passed[c.key][c.minute] + 1
    PROVE  ReqInv'
  <1>1. /\ call' \in [Callers -> Calls]
        /\ Open' \subseteq Open
        /\ \A u \in Callers : call'[u] # NoCall => call'[u].minute <= minute'
    BY CallStep
  <1>2. ReqTyped'
    BY <1>1 DEF ReqInv, ReqTyped
  <1>3. call'[t] = c /\ \A u \in Callers : u # t => call'[u] = call[u]
    BY DEF ReqInv, ReqTyped
  <1>4. \A u \in Callers :
           call'[u].at = "more" => call'[u].next <= passed'[call'[u].key][call'[u].minute] + 1
    BY <1>3 DEF ReqInv
  <1>5. \A k \in DOMAIN counts' :
           /\ counts'[k].minute <= minute'
           /\ counts'[k].minute \in Open' => counts'[k].count <= passed'[k][counts'[k].minute]
    BY <1>1 DEF ReqInv
  <1>6. \A k \in Keys : \A m \in Minutes :
           /\ m \in Open' => buckets'[k][m] <= passed'[k][m]
           /\ m > minute' => buckets'[k][m] = 0
    BY <1>1 DEF ReqInv
  <1>. QED
    BY <1>1, <1>2, <1>4, <1>5, <1>6 DEF ReqInv

(* Counting a request that passes.                                         *)
LEMMA PassStep ==
    ASSUME ReqInv, NEW k \in Keys, NEW m \in Minutes, Pass(k, m)
    PROVE  /\ passed' \in Counters
           /\ \A q \in Keys : \A n \in Minutes : passed[q][n] <= passed'[q][n]
           /\ passed'[k][m] = IF passed[k][m] < RateLimit THEN passed[k][m] + 1 ELSE RateLimit
  <1>1. passed \in Counters /\ passed[k] \in [Minutes -> 0..RateLimit]
           /\ passed[k][m] \in 0..RateLimit
    BY DEF ReqInv, ReqTyped, Counters
  <1>. DEFINE n == IF passed[k][m] < RateLimit THEN passed[k][m] + 1 ELSE passed[k][m]
  <1>2. n \in 0..RateLimit
    BY <1>1, RequestsAssumption
  <1>3. passed' = [passed EXCEPT ![k] = [passed[k] EXCEPT ![m] = n]]
    BY DEF Pass
  <1>. HIDE DEF n
  <1>4. [passed[k] EXCEPT ![m] = n] \in [Minutes -> 0..RateLimit]
    BY <1>1, <1>2
  <1>5. passed' \in Counters
    BY <1>1, <1>3, <1>4 DEF Counters
  <1>6. /\ passed'[k][m] = n
        /\ \A i \in Minutes : i # m => passed'[k][i] = passed[k][i]
        /\ \A q \in Keys : q # k => passed'[q] = passed[q]
    BY <1>1, <1>3, <1>4 DEF Counters
  <1>7. passed[k][m] <= n
    BY <1>1, RequestsAssumption DEF n
  <1>8. \A q \in Keys : \A i \in Minutes : passed[q][i] \in 0..RateLimit
    BY <1>1 DEF Counters
  <1>9. \A q \in Keys : \A i \in Minutes : passed[q][i] <= passed'[q][i]
    BY <1>6, <1>7, <1>8, RequestsAssumption
  <1>. QED
    BY <1>1, <1>5, <1>6, <1>9, RequestsAssumption DEF n

(* A step that lets a request pass: the history of its key and minute grows*)
(* up to the limit, and an entry or bucket of no other minute changes.     *)
LEMMA CountStep ==
    ASSUME ReqInv, NEW t \in Callers, NEW c \in Calls, NEW n \in 1..RateLimit,
           call[t] # NoCall, n <= passed[call[t].key][call[t].minute] + 1,
           c = NoCall \/ (c.at = "walk" /\ c.minute = call[t].minute),
           call' = [call EXCEPT ![t] = c], UNCHANGED <<minute, redis>>,
           Pass(call[t].key, call[t].minute),
           \/ UNCHANGED buckets /\ counts' = Counting(call[t].key, call[t].minute, n)
           \/ /\ UNCHANGED counts
              /\ n = buckets[call[t].key][call[t].minute] + 1
              /\ buckets' = [buckets EXCEPT ![call[t].key][call[t].minute] = n]
    PROVE  ReqInv'
  <1>. DEFINE k == call[t].key
              m == call[t].minute
  <1>1. call[t] \in Calls /\ k \in Keys /\ m \in Minutes /\ m <= minute /\ m \in Open
    BY CallShapes DEF ReqInv, ReqTyped, Open
  <1>2. /\ passed' \in Counters
        /\ \A q \in Keys : \A i \in Minutes : passed[q][i] <= passed'[q][i]
        /\ passed'[k][m] = IF passed[k][m] < RateLimit THEN passed[k][m] + 1 ELSE RateLimit
    BY <1>1, PassStep
  <1>3. /\ call' \in [Callers -> Calls]
        /\ Open' \subseteq Open
        /\ \A u \in Callers : call'[u] # NoCall => call'[u].minute <= minute'
    BY CallStep
  <1>4. call'[t] = c /\ \A u \in Callers : u # t => call'[u] = call[u]
    BY DEF ReqInv, ReqTyped
  <1>5. \A q \in Keys : \A i \in Minutes :
           passed[q][i] \in 0..RateLimit /\ passed'[q][i] \in 0..RateLimit
    BY <1>2 DEF ReqInv, ReqTyped, Counters
  <1>6. \A u \in Callers :
           call'[u].at = "more" => call'[u].next <= passed'[call'[u].key][call'[u].minute] + 1
    <2>. SUFFICES ASSUME NEW u \in Callers, call'[u].at = "more"
                  PROVE  call'[u].next <= passed'[call'[u].key][call'[u].minute] + 1
      OBVIOUS
    <2>1. u # t
      BY <1>4 DEF NoCall
    <2>2. /\ call'[u] = call[u] /\ call[u] \in Calls
          /\ call[u] \in [at : {"more"}, key : Keys, minute : Minutes, next : 1..RateLimit]
      BY <1>4, <2>1, CallShapes DEF ReqInv, ReqTyped
    <2>3. call[u].next <= passed[call[u].key][call[u].minute] + 1
      BY <2>2 DEF ReqInv
    <2>4. passed[call[u].key][call[u].minute] <= passed'[call[u].key][call[u].minute]
      BY <1>2, <2>2
    <2>. QED
      BY <1>5, <2>2, <2>3, <2>4, RequestsAssumption
  <1>7. n <= passed'[k][m]
    BY <1>1, <1>2, <1>5, RequestsAssumption
  <1>8. /\ DOMAIN counts' \subseteq Keys
        /\ \A q \in DOMAIN counts' : counts'[q] \in [count : 1..RateLimit, minute : Minutes]
        /\ \A q \in DOMAIN counts' :
              /\ counts'[q].minute <= minute'
              /\ counts'[q].minute \in Open' => counts'[q].count <= passed'[q][counts'[q].minute]
    <2>1. CASE counts' = Counting(k, m, n)
      <3>1. /\ DOMAIN counts' = DOMAIN counts \cup {k}
            /\ counts'[k] = [count |-> n, minute |-> m]
            /\ \A q \in DOMAIN counts : q # k => counts'[q] = counts[q]
        BY <2>1 DEF Counting
      <3>2. counts'[k] \in [count : 1..RateLimit, minute : Minutes]
        BY <1>1, <3>1
      <3>3. ASSUME NEW q \in DOMAIN counts, q # k
            PROVE  /\ counts'[q] \in [count : 1..RateLimit, minute : Minutes]
                   /\ counts'[q].minute <= minute'
                   /\ counts'[q].minute \in Open' => counts'[q].count <= passed'[q][counts'[q].minute]
        <4>1. counts'[q] = counts[q] /\ q \in Keys
                /\ counts[q] \in [count : 1..RateLimit, minute : Minutes]
          BY <3>1, <3>3 DEF ReqInv, ReqTyped
        <4>2. passed[q][counts[q].minute] <= passed'[q][counts[q].minute]
          BY <1>2, <4>1
        <4>3. counts[q].minute <= minute
                /\ (counts[q].minute \in Open => counts[q].count <= passed[q][counts[q].minute])
          BY DEF ReqInv
        <4>. QED
          BY <1>3, <1>5, <4>1, <4>2, <4>3, RequestsAssumption
      <3>. QED
        BY <1>1, <1>7, <3>1, <3>2, <3>3 DEF ReqInv, ReqTyped
    <2>2. CASE UNCHANGED counts
      <3>1. ASSUME NEW q \in DOMAIN counts
            PROVE  /\ counts[q].minute <= minute
                   /\ counts[q].minute \in Open' => counts[q].count <= passed'[q][counts[q].minute]
        <4>1. q \in Keys /\ counts[q] \in [count : 1..RateLimit, minute : Minutes]
          BY DEF ReqInv, ReqTyped
        <4>2. passed[q][counts[q].minute] <= passed'[q][counts[q].minute]
          BY <1>2, <4>1
        <4>3. counts[q].minute <= minute
                /\ (counts[q].minute \in Open => counts[q].count <= passed[q][counts[q].minute])
          BY DEF ReqInv
        <4>. QED
          BY <1>3, <1>5, <4>1, <4>2, <4>3, RequestsAssumption
      <3>. QED
        BY <2>2, <3>1 DEF ReqInv, ReqTyped
    <2>. QED
      BY <2>1, <2>2
  <1>9. /\ buckets' \in Counters
        /\ \A q \in Keys : \A i \in Minutes :
              /\ i \in Open' => buckets'[q][i] <= passed'[q][i]
              /\ i > minute' => buckets'[q][i] = 0
    <2>1. CASE UNCHANGED buckets
      <3>1. \A q \in Keys : \A i \in Minutes : buckets[q][i] \in 0..RateLimit
        BY DEF ReqInv, ReqTyped, Counters
      <3>. QED
        BY <1>2, <1>3, <1>5, <2>1, <3>1, RequestsAssumption DEF ReqInv, ReqTyped
    <2>2. CASE buckets' = [buckets EXCEPT ![k][m] = n]
      <3>1. buckets[k] \in [Minutes -> 0..RateLimit] /\ n \in 0..RateLimit
        BY <1>1, RequestsAssumption DEF ReqInv, ReqTyped, Counters
      <3>2. [buckets[k] EXCEPT ![m] = n] \in [Minutes -> 0..RateLimit]
        BY <3>1
      <3>3. buckets' = [buckets EXCEPT ![k] = [buckets[k] EXCEPT ![m] = n]]
        BY <2>2
      <3>4. /\ buckets' \in Counters
            /\ buckets'[k][m] = n
            /\ \A i \in Minutes : i # m => buckets'[k][i] = buckets[k][i]
            /\ \A q \in Keys : q # k => buckets'[q] = buckets[q]
        BY <1>1, <3>1, <3>2, <3>3 DEF ReqInv, ReqTyped, Counters
      <3>5. ASSUME NEW q \in Keys, NEW i \in Minutes
            PROVE  /\ i \in Open' => buckets'[q][i] <= passed'[q][i]
                   /\ i > minute' => buckets'[q][i] = 0
        <4>1. CASE q = k /\ i = m
          BY <1>1, <1>7, <3>4, <4>1, RequestsAssumption DEF ReqInv, ReqTyped, Minutes
        <4>2. CASE ~(q = k /\ i = m)
          <5>1. buckets'[q][i] = buckets[q][i] /\ buckets[q][i] \in 0..RateLimit
            BY <3>4, <4>2 DEF ReqInv, ReqTyped, Counters
          <5>2. passed[q][i] <= passed'[q][i]
            BY <1>2
          <5>3. (i \in Open => buckets[q][i] <= passed[q][i]) /\ (i > minute => buckets[q][i] = 0)
            BY DEF ReqInv
          <5>. QED
            BY <1>3, <1>5, <5>1, <5>2, <5>3, RequestsAssumption
        <4>. QED
          BY <4>1, <4>2
      <3>. QED
        BY <3>4, <3>5
    <2>. QED
      BY <2>1, <2>2
  <1>10. ReqTyped'
    BY <1>2, <1>3, <1>8, <1>9 DEF ReqInv, ReqTyped
  <1>. QED
    BY <1>3, <1>6, <1>8, <1>9, <1>10 DEF ReqInv

LEMMA PruneStep ==
    ASSUME ReqInv, NEW t \in Callers, Prune(t)
    PROVE  ReqInv'
  <1>1. /\ call[t] \in [at : {"prune"}, key : Keys, minute : Minutes, stale : SUBSET Keys]
        /\ call[t] # NoCall
    BY CallShapes DEF Prune, NoCall, ReqInv, ReqTyped
  <1>2. NoCall \in Calls
    BY DEF Calls
  <1>3. CASE call' = [call EXCEPT ![t] = NoCall] /\ UNCHANGED counts
    BY <1>2, <1>3, QuietStep DEF Prune, NoCall
  <1>4. ASSUME NEW k \in call[t].stale,
               counts' = Without(k), call' = [call EXCEPT ![t].stale = @ \ {k}]
        PROVE  ReqInv'
    <2>. DEFINE c == [call[t] EXCEPT !.stale = @ \ {k}]
    <2>1. c \in Calls /\ c.minute = call[t].minute /\ c.at = "prune"
      BY <1>1 DEF Calls
    <2>2. call' = [call EXCEPT ![t] = c]
      BY <1>4
    <2>. HIDE DEF c
    <2>3. UNCHANGED <<minute, redis, buckets, passed>>
      BY DEF Prune
    <2>4. /\ call' \in [Callers -> Calls]
          /\ Open' \subseteq Open
          /\ \A u \in Callers : call'[u] # NoCall => call'[u].minute <= minute'
      BY <1>1, <2>1, <2>2, <2>3, CallStep
    <2>5. DOMAIN counts' \subseteq DOMAIN counts /\ \A q \in DOMAIN counts' : counts'[q] = counts[q]
      BY <1>4 DEF Without
    <2>6. ReqTyped'
      BY <2>3, <2>4, <2>5 DEF ReqInv, ReqTyped
    <2>7. call'[t] = c /\ \A u \in Callers : u # t => call'[u] = call[u]
      BY <2>2 DEF ReqInv, ReqTyped
    <2>8. \A u \in Callers :
             call'[u].at = "more" => call'[u].next <= passed'[call'[u].key][call'[u].minute] + 1
      BY <2>1, <2>3, <2>7 DEF ReqInv
    <2>9. \A q \in DOMAIN counts' :
             /\ counts'[q].minute <= minute'
             /\ counts'[q].minute \in Open' => counts'[q].count <= passed'[q][counts'[q].minute]
      BY <2>3, <2>4, <2>5 DEF ReqInv
    <2>10. \A q \in Keys : \A m \in Minutes :
             /\ m \in Open' => buckets'[q][m] <= passed'[q][m]
             /\ m > minute' => buckets'[q][m] = 0
      BY <2>3, <2>4 DEF ReqInv
    <2>. QED
      BY <2>4, <2>6, <2>8, <2>9, <2>10 DEF ReqInv
  <1>. QED
    BY <1>3, <1>4 DEF Prune

(* The clock: no counter has anything of the new minute yet, and what is   *)
(* forgotten belongs to minutes nobody can be refused for any more.        *)
LEMMA MinuteStep ==
    ASSUME ReqInv, MinutePasses
    PROVE  ReqInv'
  <1>. DEFINE busy == {m \in Minutes : \E t \in Callers : call[t] # NoCall /\ call[t].minute = m}
  <1>1. /\ minute' = minute + 1 /\ minute' \in Minutes /\ minute \in Nat
        /\ passed' = [k \in Keys |-> [m \in Minutes |-> IF m \in busy THEN passed[k][m] ELSE 0]]
        /\ UNCHANGED <<redis, counts, buckets, call>>
    BY RequestsAssumption DEF MinutePasses, ReqInv, ReqTyped, Minutes
  <1>2. \A k \in Keys : \A m \in Minutes : passed[k][m] \in 0..RateLimit
    BY DEF ReqInv, ReqTyped, Counters
  <1>3. \A k \in Keys : \A m \in Minutes :
           /\ passed'[k][m] \in 0..RateLimit
           /\ passed'[k][m] = IF m \in busy THEN passed[k][m] ELSE 0
    BY <1>1, <1>2, RequestsAssumption
  <1>4. passed' \in Counters
    BY <1>1, <1>2, RequestsAssumption DEF Counters
  <1>5. \A m \in Open' : m = minute' \/ m \in busy
    BY <1>1 DEF Open
  <1>6. \A m \in Minutes : m \in busy => m \in Open
    BY DEF Open
  <1>7. \A t \in Callers : call[t] # NoCall =>
           /\ call[t].minute \in busy /\ call[t].minute \in Minutes /\ call[t].key \in Keys
           /\ call[t].minute <= minute
    BY CallShapes DEF ReqInv, ReqTyped
  <1>. HIDE DEF busy
  <1>8. ReqTyped'
    BY <1>1, <1>4 DEF ReqInv, ReqTyped
  <1>9. \A t \in Callers : call'[t] # NoCall => call'[t].minute <= minute'
    BY <1>1, <1>7 DEF Minutes
  <1>10. \A t \in Callers :
           call'[t].at = "more" => call'[t].next <= passed'[call'[t].key][call'[t].minute] + 1
    BY <1>1, <1>3, <1>7, RequestsAssumption DEF ReqInv, NoCall
  <1>11. \A k \in DOMAIN counts' :
           /\ counts'[k].minute <= minute'
           /\ counts'[k].minute \in Open' => counts'[k].count <= passed'[k][counts'[k].minute]
    <2>. SUFFICES ASSUME NEW k \in DOMAIN counts
                  PROVE  /\ counts[k].minute <= minute'
                         /\ counts[k].minute \in Open' => counts[k].count <= passed'[k][counts[k].minute]
      BY <1>1
    <2>1. k \in Keys /\ counts[k].minute \in Minutes /\ counts[k].minute <= minute
      BY DEF ReqInv, ReqTyped
    <2>2. counts[k].minute # minute' /\ counts[k].minute <= minute'
      BY <1>1, <2>1 DEF Minutes
    <2>3. ASSUME counts[k].minute \in Open'
          PROVE  counts[k].count <= passed'[k][counts[k].minute]
      <3>1. counts[k].minute \in busy /\ counts[k].minute \in Open
        BY <1>5, <1>6, <2>1, <2>2, <2>3
      <3>. QED
        BY <1>3, <2>1, <3>1 DEF ReqInv
    <2>. QED
      BY <2>2, <2>3
  <1>12. \A k \in Keys : \A m \in Minutes :
           /\ m \in Open' => buckets'[k][m] <= passed'[k][m]
           /\ m > minute' => buckets'[k][m] = 0
    <2>. SUFFICES ASSUME NEW k \in Keys, NEW m \in Minutes
                  PROVE  /\ m \in Open' => buckets[k][m] <= passed'[k][m]
                         /\ m > minute' => buckets[k][m] = 0
      BY <1>1
    <2>1. /\ m \in Open => buckets[k][m] <= passed[k][m]
          /\ m > minute => buckets[k][m] = 0
      BY DEF ReqInv
    <2>2. CASE m \in busy
      BY <1>1, <1>3, <1>6, <2>1, <2>2 DEF Minutes
    <2>3. CASE m \notin busy
      BY <1>1, <1>3, <1>5, <2>1, <2>3 DEF Minutes
    <2>. QED
      BY <2>2, <2>3
  <1>. QED
    BY <1>8, <1>9, <1>10, <1>11, <1>12 DEF ReqInv

LEMMA RequestsStep ==
    ASSUME ReqInv, ReqNext
    PROVE  ReqInv'
  <1>0. NoCall \in Calls /\ NoCall.at = "idle"
    BY DEF Calls, NoCall
  <1>1. ASSUME NEW t \in Callers, NEW k \in Keys, Arrive(t, k)
        PROVE  ReqInv'
    <2>. DEFINE c == [at |-> "asked", key |-> k, minute |-> minute]
    <2>1. c \in Calls /\ c.minute = minute /\ c.at # "more"
      BY DEF Calls, ReqInv, ReqTyped
    <2>. QED
      BY <1>1, <2>1, QuietStep DEF Arrive
  <1>2. ASSUME NEW t \in Callers, ReadEntry(t)
        PROVE  ReqInv'
    <2>1. /\ call[t] \in [at : {"asked", "first"}, key : Keys, minute : Minutes]
          /\ call[t] # NoCall /\ call[t].minute \in Open
      BY <1>2, CallShapes DEF ReadEntry, ReqInv, ReqTyped, NoCall, Open
    <2>2. CASE call' = [call EXCEPT ![t].at = "first"]
      <3>. DEFINE c == [call[t] EXCEPT !.at = "first"]
      <3>1. c \in Calls /\ c.minute = call[t].minute /\ c.at # "more"
        BY <2>1 DEF Calls
      <3>2. call' = [call EXCEPT ![t] = c]
        BY <2>2
      <3>. QED
        BY <1>2, <2>1, <3>1, <3>2, QuietStep DEF ReadEntry
    <2>3. CASE /\ Current(call[t].key, call[t].minute) /\ counts[call[t].key].count < RateLimit
               /\ call' = [call EXCEPT ![t] = [at |-> "more", key |-> call[t].key,
                                               minute |-> call[t].minute,
                                               next |-> counts[call[t].key].count + 1]]
      <3>. DEFINE c == [at |-> "more", key |-> call[t].key, minute |-> call[t].minute,
                        next |-> counts[call[t].key].count + 1]
      <3>1. /\ call[t].key \in DOMAIN counts /\ counts[call[t].key].minute = call[t].minute
            /\ counts[call[t].key].count \in 1..RateLimit
            /\ counts[call[t].key].count <= passed[call[t].key][call[t].minute]
        BY <2>1, <2>3 DEF Current, ReqInv, ReqTyped
      <3>2. counts[call[t].key].count + 1 \in 1..RateLimit
        BY <2>3, <3>1, RequestsAssumption
      <3>3. c \in Calls
        BY <2>1, <3>2 DEF Calls
      <3>4. passed[call[t].key][call[t].minute] \in 0..RateLimit
        BY <2>1 DEF ReqInv, ReqTyped, Counters
      <3>5. c.next <= passed[c.key][c.minute] + 1
        BY <3>1, <3>4, RequestsAssumption
      <3>. QED
        BY <1>2, <2>1, <2>3, <3>3, <3>5, QuietStep DEF ReadEntry
    <2>. QED
      BY <1>2, <2>2, <2>3 DEF ReadEntry
  <1>3. ASSUME NEW t \in Callers, Refuse(t) \/ RedisFails(t)
        PROVE  ReqInv'
    BY <1>0, <1>3, QuietStep DEF Refuse, RedisFails
  <1>4. ASSUME NEW t \in Callers, CountFirst(t)
        PROVE  ReqInv'
    <2>1. /\ call[t] # NoCall /\ call[t].key \in Keys /\ call[t].minute \in Minutes
      BY <1>4, CallShapes DEF CountFirst, ReqInv, ReqTyped, NoCall
    <2>2. passed[call[t].key][call[t].minute] \in 0..RateLimit /\ 1 \in 1..RateLimit
      BY <2>1, RequestsAssumption DEF ReqInv, ReqTyped, Counters
    <2>3. 1 <= passed[call[t].key][call[t].minute] + 1
      BY <2>2
    <2>. QED
      BY <1>0, <1>4, <2>1, <2>2, <2>3, CountStep DEF CountFirst
  <1>5. ASSUME NEW t \in Callers, CountMore(t)
        PROVE  ReqInv'
    <2>1. /\ call[t] # NoCall /\ call[t].key \in Keys /\ call[t].minute \in Minutes
          /\ call[t].next \in 1..RateLimit
          /\ call[t].next <= passed[call[t].key][call[t].minute] + 1
      BY <1>5, CallShapes DEF CountMore, ReqInv, ReqTyped, NoCall
    <2>. DEFINE c == [at |-> "walk", key |-> call[t].key, minute |-> call[t].minute,
                      size |-> Cardinality(DOMAIN counts')]
    <2>2. DOMAIN counts' \in SUBSET Keys
      BY <1>5, <2>1 DEF CountMore, Counting, ReqInv, ReqTyped
    <2>3. c \in Calls /\ c.at = "walk" /\ c.minute = call[t].minute
      BY <2>1, <2>2 DEF Calls
    <2>4. call' = [call EXCEPT ![t] = c]
      BY <1>5 DEF CountMore
    <2>. HIDE DEF c
    <2>. QED
      BY <1>5, <2>1, <2>3, <2>4, CountStep DEF CountMore
  <1>6. ASSUME NEW t \in Callers, Walk(t)
        PROVE  ReqInv'
    <2>1. call[t] # NoCall /\ call[t].key \in Keys /\ call[t].minute \in Minutes
      BY <1>6, CallShapes DEF Walk, ReqInv, ReqTyped, NoCall
    <2>2. CASE call' = [call EXCEPT ![t] = NoCall]
      BY <1>0, <1>6, <2>2, QuietStep DEF Walk
    <2>3. CASE call' # [call EXCEPT ![t] = NoCall]
      <3>. DEFINE stale == {k \in DOMAIN counts : counts[k].minute < call[t].minute - 1}
                  c == [at |-> "prune", key |-> call[t].key, minute |-> call[t].minute,
                        stale |-> stale]
      <3>1. stale \in SUBSET Keys
        BY DEF ReqInv, ReqTyped
      <3>2. call' = [call EXCEPT ![t] = c]
        BY <1>6, <2>3 DEF Walk
      <3>. HIDE DEF stale
      <3>3. c \in Calls /\ c.at # "more" /\ c.minute = call[t].minute
        BY <2>1, <3>1 DEF Calls
      <3>. HIDE DEF c
      <3>. QED
        BY <1>6, <2>1, <3>2, <3>3, QuietStep DEF Walk
    <2>. QED
      BY <2>2, <2>3
  <1>7. ASSUME NEW t \in Callers, Incr(t)
        PROVE  ReqInv'
    <2>1. /\ call[t] # NoCall /\ call[t].key \in Keys /\ call[t].minute \in Open
          /\ call[t].minute \in Minutes
      BY <1>7, CallShapes DEF Incr, ReqInv, ReqTyped, NoCall, Open
    <2>. DEFINE n == buckets[call[t].key][call[t].minute] + 1
    <2>2. /\ buckets[call[t].key][call[t].minute] \in 0..RateLimit
          /\ passed[call[t].key][call[t].minute] \in 0..RateLimit
          /\ buckets[call[t].key][call[t].minute] <= passed[call[t].key][call[t].minute]
      BY <2>1 DEF ReqInv, ReqTyped, Counters
    <2>3. n \in 1..RateLimit /\ n <= passed[call[t].key][call[t].minute] + 1
      BY <1>7, <2>2, RequestsAssumption DEF Incr
    <2>. QED
      BY <1>0, <1>7, <2>1, <2>3, CountStep DEF Incr
  <1>. QED
    BY <1>1, <1>2, <1>3, <1>4, <1>5, <1>6, <1>7, PruneStep, MinuteStep DEF ReqNext

LEMMA ReqInvAlways == Spec => []ReqInv
  <1>1. Init => ReqInv
    <2>. SUFFICES ASSUME ReqInit
                  PROVE  ReqInv
      BY DEF Init
    <2>1. DOMAIN counts = {}
      BY DEF ReqInit
    <2>2. call = [t \in Callers |-> NoCall] /\ NoCall \in Calls /\ NoCall.at = "idle"
      BY DEF ReqInit, Calls, NoCall
    <2>3. /\ minute = 0 /\ 0 \in Minutes /\ redis \in BOOLEAN
          /\ \A k \in Keys : \A m \in Minutes : buckets[k][m] = 0 /\ passed[k][m] = 0
      BY RequestsAssumption DEF ReqInit, Minutes
    <2>4. buckets \in Counters /\ passed \in Counters
      BY RequestsAssumption DEF ReqInit, Counters
    <2>5. ReqTyped
      BY <2>1, <2>2, <2>3, <2>4 DEF ReqTyped
    <2>6. \A t \in Callers : call[t] = NoCall
      BY <2>2
    <2>. QED
      BY <2>1, <2>2, <2>3, <2>5, <2>6, RequestsAssumption DEF ReqInv
  <1>2. ReqInv /\ [Next]_vars => ReqInv'
    <2>. SUFFICES ASSUME ReqInv, ReqNext \/ UNCHANGED reqVars
                  PROVE  ReqInv'
      BY DEF Next, vars
    <2>1. CASE UNCHANGED reqVars
      BY <2>1 DEF reqVars, ReqInv, ReqTyped, Open
    <2>. QED
      BY <2>1, RequestsStep
  <1>. QED
    BY <1>1, <1>2, PTL DEF Spec

(* core/auth.py: for any number of threads and keys, in memory and with    *)
(* Redis, a request is refused only when as many requests of its key as    *)
(* the limit allows were counted in its minute.  The updates other threads *)
(* overwrite and the entries they prune only ever let requests through.    *)
THEOREM RefusedOnlyAtLimitHolds == Spec => RefusedOnlyAtLimit
  <1>1. ASSUME ReqInv, NEW t \in Callers, Refuse(t)
        PROVE  passed[call[t].key][call[t].minute] >= RateLimit
    <2>1. /\ call[t].key \in Keys /\ call[t].minute \in Minutes /\ call[t].minute \in Open
      BY <1>1, CallShapes DEF Refuse, ReqInv, ReqTyped, NoCall, Open
    <2>2. /\ buckets[call[t].key][call[t].minute] \in 0..RateLimit
          /\ passed[call[t].key][call[t].minute] \in 0..RateLimit
          /\ buckets[call[t].key][call[t].minute] <= passed[call[t].key][call[t].minute]
      BY <1>1, <2>1 DEF ReqInv, ReqTyped, Counters
    <2>3. CASE Current(call[t].key, call[t].minute) /\ counts[call[t].key].count >= RateLimit
      <3>1. /\ counts[call[t].key].count \in 1..RateLimit
            /\ counts[call[t].key].count <= passed[call[t].key][call[t].minute]
        BY <1>1, <2>1, <2>3 DEF Current, ReqInv, ReqTyped
      <3>. QED
        BY <2>2, <2>3, <3>1, RequestsAssumption
    <2>4. CASE buckets[call[t].key][call[t].minute] + 1 > RateLimit
      BY <2>2, <2>4, RequestsAssumption
    <2>. QED
      BY <1>1, <2>3, <2>4 DEF Refuse
  <1>2. ReqInv => [\A t \in Callers :
                     Refuse(t) => passed[call[t].key][call[t].minute] >= RateLimit]_reqVars
    BY <1>1
  <1>. QED
    BY <1>2, ReqInvAlways, PTL DEF RefusedOnlyAtLimit

(* -------------------------------- the jobs ------------------------------ *)

Todos ==
    {<<"run">>, <<>>,
     <<"result", "completed", "progress", "ended">>, <<"completed", "progress", "ended">>,
     <<"progress", "ended">>, <<"ended">>,
     <<"failed", "error", "ended">>, <<"error", "ended">>}

(* What a worker can have left before it has set a status of its own.      *)
Unmarked ==
    {<<"run">>, <<"result", "completed", "progress", "ended">>,
     <<"completed", "progress", "ended">>, <<"failed", "error", "ended">>}

Busy(w) == worker[w] # NoWork

JobTyped ==
    /\ DOMAIN record \subseteq Jobs
    /\ \A j \in DOMAIN record : DOMAIN record[j] = {"status", "progress", "result", "error", "ended"}
    /\ queue \in Seq(DOMAIN record)
    /\ DOMAIN worker = Workers /\ DOMAIN poll = Pollers
    /\ \A w \in Workers :
          Busy(w) => /\ worker[w] \in [job : Jobs, todo : Todos]
                     /\ worker[w].job \in DOMAIN record

(* A job is in the hands of one worker, or in the queue once, or done.     *)
OneHand ==
    /\ \A m, n \in 1..Len(queue) : queue[m] = queue[n] => m = n
    /\ \A w \in Workers : Busy(w) => \A m \in 1..Len(queue) : queue[m] # worker[w].job
    /\ \A v, w \in Workers : Busy(v) /\ Busy(w) /\ worker[v].job = worker[w].job => v = w

(* Until its status is set a job is not completed, and a status is set     *)
(* once, after the result; so what a client has read stays true.           *)
Progressing ==
    /\ \A m \in 1..Len(queue) : record[queue[m]].status # "completed"
    /\ \A w \in Workers :
          /\ Busy(w) /\ worker[w].todo \in Unmarked => record[worker[w].job].status # "completed"
          /\ Busy(w) /\ worker[w].todo = <<"completed", "progress", "ended">>
               => record[worker[w].job].result = TRUE
    /\ \A j \in DOMAIN record : record[j].status = "completed" => record[j].result = TRUE

Polled ==
    \A c \in Pollers :
        /\ poll[c].at = "status" /\ poll[c].status = "completed"
             => poll[c].job \in DOMAIN record /\ record[poll[c].job].status = "completed"
        /\ poll[c].at \in {"result", "answered"} /\ poll[c].status = "completed"
             => poll[c].result = TRUE

JobInv == JobTyped /\ OneHand /\ Progressing /\ Polled

(* A step that leaves every completed job completed keeps what the clients *)
(* have read true.                                                         *)
LEMMA PolledKept ==
    ASSUME Polled, UNCHANGED poll,
           \A j \in DOMAIN record : record[j].status = "completed"
               => j \in DOMAIN record' /\ record'[j].status = "completed"
    PROVE  Polled'
  BY DEF Polled

LEMMA SubmitStep ==
    ASSUME JobInv, NEW j \in Jobs, Submit(j)
    PROVE  JobInv'
  <1>1. /\ DOMAIN record' = DOMAIN record \cup {j} /\ j \notin DOMAIN record
        /\ record'[j] = New /\ \A i \in DOMAIN record : record'[i] = record[i]
    BY DEF Submit
  <1>2. /\ queue' \in Seq(DOMAIN record') /\ Len(queue') = Len(queue) + 1 /\ Len(queue) \in Nat
        /\ \A m \in 1..Len(queue) : queue'[m] = queue[m] /\ queue[m] \in DOMAIN record
        /\ queue'[Len(queue) + 1] = j
    <2>1. queue' = Append(queue, j) /\ queue \in Seq(DOMAIN record) /\ queue \in Seq(DOMAIN record')
      BY <1>1 DEF Submit, JobInv, JobTyped
    <2>. QED
      BY <1>1, <2>1
  <1>3. UNCHANGED <<worker, poll>>
    BY DEF Submit
  <1>4. JobTyped'
    BY <1>1, <1>2, <1>3 DEF JobInv, JobTyped, Busy, New
  <1>5. OneHand'
    <2>1. \A m, n \in 1..Len(queue') : queue'[m] = queue'[n] => m = n
      BY <1>1, <1>2 DEF JobInv, OneHand
    <2>2. \A w \in Workers : Busy(w) => worker[w].job \in DOMAIN record
      BY DEF JobInv, JobTyped
    <2>3. \A w \in Workers : Busy(w)' => \A m \in 1..Len(queue') : queue'[m] # worker'[w].job
      BY <1>1, <1>2, <1>3, <2>2 DEF JobInv, OneHand, Busy
    <2>. QED
      BY <1>3, <2>1, <2>3 DEF JobInv, OneHand, Busy
  <1>6. Progressing'
    <2>1. \A m \in 1..Len(queue') : record'[queue'[m]].status # "completed"
      BY <1>1, <1>2 DEF JobInv, Progressing, New
    <2>. QED
      BY <1>1, <1>3, <2>1 DEF JobInv, JobTyped, Progressing, Busy, New
  <1>7. Polled'
    BY <1>1, <1>3, PolledKept DEF JobInv
  <1>. QED
    BY <1>4, <1>5, <1>6, <1>7 DEF JobInv

LEMMA TakeStep ==
    ASSUME JobInv, NEW w \in Workers, Take(w)
    PROVE  JobInv'
  <1>. DEFINE h == Head(queue)
  <1>1. /\ queue \in Seq(DOMAIN record) /\ queue # <<>> /\ Len(queue) \in Nat \ {0}
        /\ h = queue[1] /\ h \in DOMAIN record /\ h \in Jobs
    BY DEF Take, JobInv, JobTyped
  <1>2. /\ queue' \in Seq(DOMAIN record) /\ Len(queue') = Len(queue) - 1
        /\ \A m \in 1..Len(queue') : queue'[m] = queue[m + 1]
    BY <1>1 DEF Take
  <1>3. /\ DOMAIN record' = DOMAIN record
        /\ record'[h] = [record[h] EXCEPT !.status = "running"]
        /\ \A i \in DOMAIN record : i # h => record'[i] = record[i]
    BY <1>1 DEF Take
  <1>4. /\ worker' = [worker EXCEPT ![w] = [job |-> h, todo |-> <<"run">>]] /\ ~Busy(w)
        /\ UNCHANGED poll
    BY DEF Take, Busy
  <1>5. /\ worker'[w] = [job |-> h, todo |-> <<"run">>] /\ DOMAIN worker' = Workers
        /\ \A v \in Workers : v # w => worker'[v] = worker[v]
    BY <1>4 DEF JobInv, JobTyped
  <1>6. /\ record'[h].status = "running" /\ record'[h].result = record[h].result
        /\ DOMAIN record'[h] = DOMAIN record[h]
    BY <1>1, <1>3 DEF JobInv, JobTyped
  <1>. HIDE DEF h
  <1>7. JobTyped'
    BY <1>1, <1>2, <1>3, <1>4, <1>5, <1>6 DEF JobInv, JobTyped, Busy, Todos
  <1>8. OneHand'
    <2>1. \A m, n \in 1..Len(queue') : queue'[m] = queue'[n] => m = n
      BY <1>1, <1>2 DEF JobInv, OneHand
    <2>2. \A m \in 1..Len(queue') : queue'[m] # h /\ m + 1 \in 1..Len(queue)
      BY <1>1, <1>2 DEF JobInv, OneHand
    <2>3. \A v \in Workers : Busy(v)' => \A m \in 1..Len(queue') : queue'[m] # worker'[v].job
      BY <1>2, <1>5, <2>2 DEF JobInv, OneHand, Busy
    <2>4. \A v \in Workers : Busy(v) => worker[v].job # h
      BY <1>1 DEF JobInv, OneHand
    <2>5. \A u, v \in Workers : Busy(u)' /\ Busy(v)' /\ worker'[u].job = worker'[v].job => u = v
      BY <1>5, <2>4 DEF JobInv, OneHand, Busy
    <2>. QED
      BY <2>1, <2>3, <2>5 DEF OneHand
  <1>9. Progressing'
    <2>1. \A m \in 1..Len(queue') : record'[queue'[m]].status # "completed"
      <3>. SUFFICES ASSUME NEW m \in 1..Len(queue')
                    PROVE  record'[queue'[m]].status # "completed"
        OBVIOUS
      <3>1. queue'[m] = queue[m + 1] /\ m + 1 \in 1..Len(queue)
        BY <1>1, <1>2
      <3>2. queue[m + 1] \in DOMAIN record /\ record[queue[m + 1]].status # "completed"
        BY <1>1, <3>1 DEF JobInv, Progressing
      <3>. QED
        BY <1>3, <1>6, <3>1, <3>2
    <2>2. \A v \in Workers :
             /\ Busy(v)' /\ worker'[v].todo \in Unmarked => record'[worker'[v].job].status # "completed"
             /\ Busy(v)' /\ worker'[v].todo = <<"completed", "progress", "ended">>
                  => record'[worker'[v].job].result = TRUE
      <3>1. /\ worker'[w].job = h /\ worker'[w].todo = <<"run">>
            /\ <<"run">> # <<"completed", "progress", "ended">>
        BY <1>5
      <3>2. ASSUME NEW v \in Workers, v # w, Busy(v)'
            PROVE  worker'[v] = worker[v] /\ Busy(v) /\ worker[v].job \in DOMAIN record
                     /\ worker[v].job # h
        BY <1>1, <1>5, <3>2 DEF JobInv, JobTyped, OneHand, Busy
      <3>3. ASSUME NEW v \in Workers, v # w, Busy(v)'
            PROVE  record'[worker'[v].job] = record[worker[v].job]
        BY <1>3, <3>2, <3>3
      <3>4. ASSUME NEW v \in Workers, v # w, Busy(v)'
            PROVE  /\ worker'[v].todo \in Unmarked => record'[worker'[v].job].status # "completed"
                   /\ worker'[v].todo = <<"completed", "progress", "ended">>
                        => record'[worker'[v].job].result = TRUE
        BY <3>2, <3>3, <3>4 DEF JobInv, Progressing
      <3>. QED
        BY <1>6, <3>1, <3>4
    <2>3. \A j \in DOMAIN record' : record'[j].status = "completed" => record'[j].result = TRUE
      BY <1>3, <1>6 DEF JobInv, Progressing
    <2>. QED
      BY <2>1, <2>2, <2>3 DEF Progressing
  <1>10. Polled'
    <2>1. record[h].status # "completed"
      BY <1>1 DEF JobInv, Progressing
    <2>. QED
      BY <1>3, <1>4, <2>1, PolledKept DEF JobInv
  <1>. QED
    BY <1>7, <1>8, <1>9, <1>10 DEF JobInv

(* A worker goes on with its job: what is left for it to do comes later in *)
(* the wrapper, and nobody else touches the record.                        *)
LEMMA WorkStep ==
    ASSUME JobInv, NEW w \in Workers, Busy(w), NEW r, NEW todo \in Todos,
           worker' = [worker EXCEPT ![w].todo = todo],
           DOMAIN record' = DOMAIN record, record'[worker[w].job] = r,
           \A i \in DOMAIN record : i # worker[w].job => record'[i] = record[i],
           UNCHANGED <<queue, poll>>,
           DOMAIN r = {"status", "progress", "result", "error", "ended"},
           record[worker[w].job].status = "completed" => r.status = "completed",
           todo \in Unmarked => r.status # "completed",
           todo = <<"completed", "progress", "ended">> => r.result = TRUE,
           r.status = "completed" => r.result = TRUE
    PROVE  JobInv'
  <1>. DEFINE j == worker[w].job
  <1>1. /\ worker[w] \in [job : Jobs, todo : Todos] /\ j \in DOMAIN record
        /\ DOMAIN worker = Workers /\ queue \in Seq(DOMAIN record)
        /\ \A m \in 1..Len(queue) : queue[m] \in DOMAIN record /\ queue[m] # j
    BY DEF JobInv, JobTyped, OneHand
  <1>2. /\ DOMAIN record' = DOMAIN record /\ record'[j] = r
        /\ \A i \in DOMAIN record : i # j => record'[i] = record[i]
    BY <1>1
  <1>3. /\ DOMAIN worker' = Workers /\ worker'[w] \in [job : Jobs, todo : Todos]
        /\ worker'[w].job = j /\ worker'[w].todo = todo
        /\ \A v \in Workers : v # w => worker'[v] = worker[v]
    BY <1>1
  <1>4. \A v \in Workers : Busy(v)' => Busy(v) /\ worker'[v].job = worker[v].job
    BY <1>3 DEF Busy
  <1>5. \A v \in Workers : Busy(v)' /\ v # w => worker'[v] = worker[v] /\ worker[v].job # j
    BY <1>3, <1>4 DEF JobInv, OneHand
  <1>. HIDE DEF j
  <1>6. JobTyped'
    BY <1>1, <1>2, <1>3, <1>4 DEF JobInv, JobTyped, Busy
  <1>7. OneHand'
    BY <1>4 DEF JobInv, OneHand
  <1>8. Progressing'
    <2>1. \A m \in 1..Len(queue') : record'[queue'[m]].status # "completed"
      BY <1>1, <1>2 DEF JobInv, Progressing
    <2>2. \A v \in Workers :
             /\ Busy(v)' /\ worker'[v].todo \in Unmarked => record'[worker'[v].job].status # "completed"
             /\ Busy(v)' /\ worker'[v].todo = <<"completed", "progress", "ended">>
                  => record'[worker'[v].job].result = TRUE
      <3>1. ASSUME NEW v \in Workers, v # w, Busy(v)'
            PROVE  /\ worker'[v] = worker[v] /\ Busy(v)
                   /\ record'[worker'[v].job] = record[worker[v].job]
        BY <1>2, <1>4, <1>5, <3>1 DEF JobInv, JobTyped
      <3>2. ASSUME NEW v \in Workers, v # w, Busy(v)'
            PROVE  /\ worker'[v].todo \in Unmarked => record'[worker'[v].job].status # "completed"
                   /\ worker'[v].todo = <<"completed", "progress", "ended">>
                        => record'[worker'[v].job].result = TRUE
        BY <3>1, <3>2 DEF JobInv, Progressing
      <3>3. /\ worker'[w].todo \in Unmarked => record'[worker'[w].job].status # "completed"
            /\ worker'[w].todo = <<"completed", "progress", "ended">>
                 => record'[worker'[w].job].result = TRUE
        BY <1>2, <1>3
      <3>. QED
        BY <3>2, <3>3
    <2>3. \A i \in DOMAIN record' : record'[i].status = "completed" => record'[i].result = TRUE
      BY <1>2 DEF JobInv, Progressing
    <2>. QED
      BY <2>1, <2>2, <2>3 DEF Progressing
  <1>9. Polled'
    BY <1>1, <1>2, PolledKept DEF JobInv, j
  <1>. QED
    BY <1>6, <1>7, <1>8, <1>9 DEF JobInv

LEMMA SucceedStep ==
    ASSUME JobInv, NEW w \in Workers, Succeed(w)
    PROVE  JobInv'
  <1>. DEFINE j == worker[w].job
              r == [record[j] EXCEPT !.progress = 100]
  <1>1. /\ Busy(w) /\ j \in DOMAIN record /\ record[j].status # "completed"
        /\ DOMAIN record[j] = {"status", "progress", "result", "error", "ended"}
    BY DEF Succeed, Busy, JobInv, JobTyped, Progressing, Unmarked
  <1>2. /\ worker' = [worker EXCEPT ![w].todo = Finishing]
        /\ DOMAIN record' = DOMAIN record /\ record'[j] = r
        /\ \A i \in DOMAIN record : i # j => record'[i] = record[i]
        /\ UNCHANGED <<queue, poll>>
    BY <1>1 DEF Succeed
  <1>3. DOMAIN r = DOMAIN record[j] /\ r.status = record[j].status
    BY <1>1
  <1>4. Finishing \in Todos /\ Finishing # <<"completed", "progress", "ended">>
    BY DEF Finishing, Todos
  <1>. QED
    BY <1>1, <1>2, <1>3, <1>4, WorkStep

LEMMA FailStep ==
    ASSUME JobInv, NEW w \in Workers, Fail(w)
    PROVE  JobInv'
  <1>. DEFINE j == worker[w].job
              r == record[j]
  <1>1. /\ Busy(w) /\ j \in DOMAIN record /\ record[j].status # "completed"
        /\ DOMAIN record[j] = {"status", "progress", "result", "error", "ended"}
    BY DEF Fail, Busy, JobInv, JobTyped, Progressing, Unmarked
  <1>2. /\ worker' = [worker EXCEPT ![w].todo = Failing]
        /\ DOMAIN record' = DOMAIN record /\ record'[j] = r
        /\ \A i \in DOMAIN record : i # j => record'[i] = record[i]
        /\ UNCHANGED <<queue, poll>>
    BY <1>1 DEF Fail
  <1>3. Failing \in Todos /\ Failing # <<"completed", "progress", "ended">>
    BY DEF Failing, Todos
  <1>. QED
    BY <1>1, <1>2, <1>3, WorkStep

(* The assignments a worker has left shrink to one of the known rests.     *)
LEMMA Rests ==
    ASSUME NEW todo \in Todos, todo # <<>>, todo # <<"run">>
    PROVE  \/ /\ todo = <<"result", "completed", "progress", "ended">> /\ Head(todo) = "result"
              /\ Tail(todo) = <<"completed", "progress", "ended">>
           \/ /\ todo = <<"completed", "progress", "ended">> /\ Head(todo) = "completed"
              /\ Tail(todo) = <<"progress", "ended">>
           \/ /\ todo = <<"progress", "ended">> /\ Head(todo) = "progress"
              /\ Tail(todo) = <<"ended">>
           \/ todo = <<"ended">> /\ Head(todo) = "ended" /\ Tail(todo) = <<>>
           \/ /\ todo = <<"failed", "error", "ended">> /\ Head(todo) = "failed"
              /\ Tail(todo) = <<"error", "ended">>
           \/ todo = <<"error", "ended">> /\ Head(todo) = "error" /\ Tail(todo) = <<"ended">>
  <1>1. /\ Head(<<"result", "completed", "progress", "ended">>) = "result"
        /\ Tail(<<"result", "completed", "progress", "ended">>) = <<"completed", "progress", "ended">>
    OBVIOUS
  <1>2. /\ Head(<<"completed", "progress", "ended">>) = "completed"
        /\ Tail(<<"completed", "progress", "ended">>) = <<"progress", "ended">>
    OBVIOUS
  <1>3. /\ Head(<<"progress", "ended">>) = "progress" /\ Tail(<<"progress", "ended">>) = <<"ended">>
    OBVIOUS
  <1>4. Head(<<"ended">>) = "ended" /\ Tail(<<"ended">>) = <<>>
    OBVIOUS
  <1>5. /\ Head(<<"failed", "error", "ended">>) = "failed"
        /\ Tail(<<"failed", "error", "ended">>) = <<"error", "ended">>
    OBVIOUS
  <1>6. Head(<<"error", "ended">>) = "error" /\ Tail(<<"error", "ended">>) = <<"ended">>
    OBVIOUS
  <1>. QED
    BY <1>1, <1>2, <1>3, <1>4, <1>5, <1>6, Zenon DEF Todos

LEMMA AssignStep ==
    ASSUME JobInv, NEW w \in Workers, Assign(w)
    PROVE  JobInv'
  <1>. DEFINE j == worker[w].job
              todo == worker[w].todo
              r == Assigned(record[j], Head(todo))
  <1>1. /\ Busy(w) /\ j \in DOMAIN record /\ todo \in Todos \ {<<>>, <<"run">>}
        /\ DOMAIN record[j] = {"status", "progress", "result", "error", "ended"}
    BY DEF Assign, Busy, JobInv, JobTyped
  <1>2. /\ worker' = [worker EXCEPT ![w].todo = Tail(todo)]
        /\ DOMAIN record' = DOMAIN record /\ record'[j] = r
        /\ \A i \in DOMAIN record : i # j => record'[i] = record[i]
        /\ UNCHANGED <<queue, poll>>
    BY <1>1 DEF Assign
  <1>3. todo \in Unmarked => record[j].status # "completed"
    BY <1>1 DEF JobInv, Progressing
  <1>4. /\ todo = <<"completed", "progress", "ended">> => record[j].result = TRUE
        /\ record[j].status = "completed" => record[j].result = TRUE
    BY <1>1 DEF JobInv, Progressing
  <1>. HIDE DEF j, todo
  <1>5. /\ Tail(todo) \in Todos
        /\ DOMAIN r = {"status", "progress", "result", "error", "ended"}
        /\ record[j].status = "completed" => r.status = "completed"
        /\ Tail(todo) \in Unmarked => r.status # "completed"
        /\ Tail(todo) = <<"completed", "progress", "ended">> => r.result = TRUE
        /\ r.status = "completed" => r.result = TRUE
    <2>1. CASE Head(todo) = "result" /\ Tail(todo) = <<"completed", "progress", "ended">>
                 /\ todo \in Unmarked
      BY <1>1, <1>3, <2>1 DEF Assigned, Todos
    <2>2. CASE todo = <<"completed", "progress", "ended">> /\ Head(todo) = "completed"
                 /\ Tail(todo) = <<"progress", "ended">>
      BY <1>1, <1>4, <2>2 DEF Assigned, Unmarked, Todos
    <2>3. CASE Head(todo) \in {"progress", "ended", "error"} /\ Tail(todo) \in {<<"ended">>, <<>>}
      BY <1>1, <1>4, <2>3 DEF Assigned, Unmarked, Todos
    <2>4. CASE todo \in Unmarked /\ Head(todo) = "failed" /\ Tail(todo) = <<"error", "ended">>
      BY <1>1, <1>3, <2>4 DEF Assigned, Unmarked, Todos
    <2>. QED
      BY <1>1, <2>1, <2>2, <2>3, <2>4, Rests DEF Unmarked
  <1>. QED
    BY <1>1, <1>2, <1>5, WorkStep DEF j, todo

LEMMA LeaveStep ==
    ASSUME JobInv, NEW w \in Workers, Leave(w)
    PROVE  JobInv'
  <1>1. /\ DOMAIN worker' = Workers /\ worker'[w] = NoWork /\ UNCHANGED <<record, queue, poll>>
        /\ \A v \in Workers : v # w => worker'[v] = worker[v]
    BY DEF Leave, JobInv, JobTyped
  <1>2. \A v \in Workers : Busy(v)' => Busy(v) /\ worker'[v] = worker[v]
    BY <1>1 DEF Busy
  <1>3. JobTyped' /\ OneHand'
    BY <1>1, <1>2 DEF JobInv, JobTyped, OneHand, Busy
  <1>4. Progressing' /\ Polled'
    BY <1>1, <1>2, PolledKept DEF JobInv, Progressing
  <1>. QED
    BY <1>3, <1>4 DEF JobInv

(* A client's request reads one field after the other.                     *)
LEMMA PollStep ==
    ASSUME JobInv, NEW c \in Pollers, Ask(c) \/ ReadResult(c) \/ ReadError(c) \/ Answered(c)
    PROVE  JobInv'
  <1>1. UNCHANGED <<record, queue, worker>>
    BY DEF Ask, ReadResult, ReadError, Answered
  <1>2. ASSUME NEW p, poll' = [poll EXCEPT ![c] = p],
               p.at = "status" /\ p.status = "completed"
                 => p.job \in DOMAIN record /\ record[p.job].status = "completed",
               p.at \in {"result", "answered"} /\ p.status = "completed" => p.result = TRUE
        PROVE  JobInv'
    <2>1. /\ DOMAIN poll' = Pollers /\ poll'[c] = p
          /\ \A d \in Pollers : d # c => poll'[d] = poll[d]
      BY <1>2 DEF JobInv, JobTyped
    <2>2. JobTyped' /\ OneHand' /\ Progressing'
      BY <1>1, <2>1 DEF JobInv, JobTyped, OneHand, Progressing, Busy
    <2>3. Polled'
      BY <1>1, <1>2, <2>1 DEF JobInv, Polled
    <2>. QED
      BY <2>2, <2>3 DEF JobInv
  <1>3. CASE Ask(c)
    <2>1. PICK j \in DOMAIN record :
             poll' = [poll EXCEPT ![c] = IF j \in Range(table)
                                         THEN [at |-> "status", job |-> j, status |-> record[j].status]
                                         ELSE [at |-> "unknown"]]
      BY <1>3 DEF Ask
    <2>. DEFINE p == IF j \in Range(table)
                     THEN [at |-> "status", job |-> j, status |-> record[j].status]
                     ELSE [at |-> "unknown"]
    <2>2. /\ p.at = "status" /\ p.status = "completed"
               => p.job \in DOMAIN record /\ record[p.job].status = "completed"
          /\ p.at \notin {"result", "answered"}
      OBVIOUS
    <2>3. poll' = [poll EXCEPT ![c] = p]
      BY <2>1
    <2>. HIDE DEF p
    <2>. QED
      BY <1>2, <2>2, <2>3
  <1>4. CASE ReadResult(c)
    <2>. DEFINE p == [at |-> "result", job |-> poll[c].job, status |-> poll[c].status,
                      result |-> record[poll[c].job].status = "completed" /\ record[poll[c].job].result]
    <2>1. poll' = [poll EXCEPT ![c] = p] /\ poll[c].at = "status"
      BY <1>4 DEF ReadResult
    <2>2. p.at = "result" /\ p.status = poll[c].status
      OBVIOUS
    <2>3. p.status = "completed"
            => /\ poll[c].job \in DOMAIN record /\ record[poll[c].job].status = "completed"
               /\ record[poll[c].job].result = TRUE
      BY <2>1, <2>2 DEF JobInv, Polled, Progressing
    <2>4. p.status = "completed" => p.result = TRUE
      BY <2>3
    <2>. QED
      BY <1>2, <2>1, <2>2, <2>4
  <1>5. CASE ReadError(c)
    BY <1>2, <1>5 DEF ReadError, JobInv, Polled
  <1>6. CASE Answered(c)
    BY <1>2, <1>6 DEF Answered, NoPoll
  <1>. QED
    BY <1>3, <1>4, <1>5, <1>6

LEMMA JobsRestartStep ==
    ASSUME JobInv, JobsRestart
    PROVE  JobInv'
  <1>1. /\ DOMAIN record' = DOMAIN record /\ queue' = <<>>
        /\ \A j \in DOMAIN record : record'[j] = [record[j] EXCEPT !.status = "lost"]
        /\ DOMAIN worker' = Workers /\ \A w \in Workers : worker'[w] = NoWork
        /\ DOMAIN poll' = Pollers /\ \A c \in Pollers : poll'[c] = NoPoll
    BY DEF JobsRestart
  <1>2. \A j \in DOMAIN record : DOMAIN record'[j] = DOMAIN record[j] /\ record'[j].status = "lost"
    BY <1>1 DEF JobInv, JobTyped
  <1>3. queue' \in Seq(DOMAIN record') /\ Len(queue') = 0
    BY <1>1
  <1>4. JobTyped' /\ OneHand'
    BY <1>1, <1>2, <1>3 DEF JobInv, JobTyped, OneHand, Busy
  <1>5. Progressing' /\ Polled'
    BY <1>1, <1>2, <1>3 DEF Progressing, Polled, Busy, NoPoll
  <1>. QED
    BY <1>4, <1>5 DEF JobInv

LEMMA JobInvAlways == Spec => []JobInv
  <1>1. Init => JobInv
    BY DEF Init, JobInit, JobInv, JobTyped, OneHand, Progressing, Polled, Busy, NoPoll
  <1>2. JobInv /\ [Next]_vars => JobInv'
    <2>. SUFFICES ASSUME JobInv, [Next]_vars
                  PROVE  JobInv'
      OBVIOUS
    <2>1. CASE JobNext
      BY <2>1, SubmitStep, TakeStep, SucceedStep, FailStep, AssignStep, LeaveStep, PollStep,
         JobsRestartStep DEF JobNext, Work
    <2>2. CASE UNCHANGED jobVars
      BY <2>2 DEF jobVars, JobInv, JobTyped, OneHand, Progressing, Polled, Busy
    <2>. QED
      BY <2>1, <2>2 DEF Next, vars
  <1>. QED
    BY <1>1, <1>2, PTL DEF Spec

(* No client is told that its job is completed without the job's result,   *)
(* for any number of workers, clients and jobs.                            *)
THEOREM CompletedHasResultHolds == Spec => []CompletedHasResult
  <1>1. JobInv => CompletedHasResult
    BY DEF JobInv, Polled, CompletedHasResult
  <1>. QED
    BY <1>1, JobInvAlways, PTL
=============================================================================
