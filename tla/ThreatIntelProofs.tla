-------------------------- MODULE ThreatIntelProofs --------------------------
(***************************************************************************)
(* Theorems about the lookups and the feeds, for any sites, threads,       *)
(* replies, feeds and limits, whatever fails.                              *)
(***************************************************************************)
EXTENDS ThreatIntel, SequenceTheorems, FiniteSetTheorems, WellFoundedInduction, TLAPS

-----------------------------------------------------------------------------
(* Feeds.                                                                  *)

RowOf(f, i) == AsStored(f, Published(f)[i])

(* Of the rows taken among the first n, the last one for each indicator.   *)
Latest(f, n) ==
    {k \in Taken(f) : k <= n /\ \A j \in Taken(f) : j <= n /\ j > k => ~SameRow(RowOf(f, j), RowOf(f, k))}

(* The table that held these rows after the first n rows of a feed.        *)
After(rows, f, n) ==
    {r \in rows : \A i \in Taken(f) : i <= n => ~SameRow(RowOf(f, i), r)}
    \cup {RowOf(f, k) : k \in Latest(f, n)}

LEMMA TakenPositions ==
    ASSUME NEW k \in 1..Len(Feeds)
    PROVE  /\ Len(Published(Feeds[k])) \in Nat
           /\ \A i \in Taken(Feeds[k]) : i \in 1..Len(Published(Feeds[k])) /\ i \in Nat
  <1>1. Len(Published(Feeds[k])) \in Nat
    BY IntelAssumption
  <1>. QED
    BY <1>1 DEF Taken

LEMMA AfterNone ==
    ASSUME NEW rows, NEW k \in 1..Len(Feeds)
    PROVE  After(rows, Feeds[k], 0) = rows
  BY TakenPositions DEF After, Latest

LEMMA AfterOneMore ==
    ASSUME NEW rows, NEW k \in 1..Len(Feeds), NEW n \in Nat
    PROVE  WithRow(After(rows, Feeds[k], n), Feeds[k], n + 1) = After(rows, Feeds[k], n + 1)
  <1>. DEFINE f == Feeds[k]
              T == Taken(f)
  <1>. \A i \in T : i \in Nat
    BY TakenPositions
  <1>. DEFINE new == RowOf(f, n + 1)
  <1>1. CASE n + 1 \notin T
    <2>1. \A i \in T : i <= n <=> i <= n + 1
      BY <1>1
    <2>2. Latest(f, n) = Latest(f, n + 1)
      BY <2>1 DEF Latest
    <2>. QED
      BY <1>1, <2>1, <2>2 DEF After, WithRow
  <1>2. CASE n + 1 \in T
    <2>1. \A i \in T : i <= n + 1 <=> i <= n \/ i = n + 1
      OBVIOUS
    <2>2. Latest(f, n + 1) = {j \in Latest(f, n) : ~SameRow(new, RowOf(f, j))} \cup {n + 1}
      BY <1>2, <2>1 DEF Latest
    <2>3. \A r, s : SameRow(r, s) <=> SameRow(s, r)
      BY DEF SameRow
    <2>4. WithRow(After(rows, f, n), f, n + 1) = {r \in After(rows, f, n) : ~SameRow(r, new)} \cup {new}
      BY <1>2 DEF WithRow, Upserted, RowOf
    <2>5. {r \in After(rows, f, n) : ~SameRow(r, new)}
            = {r \in rows : \A i \in T : i <= n + 1 => ~SameRow(RowOf(f, i), r)}
              \cup {RowOf(f, j) : j \in {i \in Latest(f, n) : ~SameRow(new, RowOf(f, i))}}
      BY <1>2, <2>1, <2>3 DEF After
    <2>. QED
      BY <2>2, <2>4, <2>5 DEF After
  <1>. QED
    BY <1>1, <1>2

(* A feed whose rows are all in has exactly its whole, and no other feed   *)
(* has lost or gained a row.                                               *)
LEMMA AfterAll ==
    ASSUME NEW rows, NEW k \in 1..Len(Feeds),
           {r \in rows : r.source = Feeds[k]} \in {{}, Whole(Feeds[k])}
    PROVE  LET all == After(rows, Feeds[k], Len(Published(Feeds[k])))
           IN  /\ {r \in all : r.source = Feeds[k]} = Whole(Feeds[k])
               /\ \A g : g # Feeds[k] => {r \in all : r.source = g} = {r \in rows : r.source = g}
  <1>. DEFINE f == Feeds[k]
              n == Len(Published(f))
              all == After(rows, f, n)
  <1>1. Whole(f) = {RowOf(f, i) : i \in Latest(f, n)}
    <2>1. n \in Nat /\ \A i \in Taken(f) : i \in Nat /\ i <= n
      BY TakenPositions
    <2>. QED
      BY <2>1 DEF Whole, Latest, RowOf
  <1>2. \A i : RowOf(f, i).source = f
    BY DEF RowOf, AsStored
  <1>3. \A i \in Latest(f, n) : i \in Taken(f) /\ i <= n
    BY DEF Latest
  <1>4. \A r \in Whole(f) : r \notin {q \in rows : \A i \in Taken(f) : i <= n => ~SameRow(RowOf(f, i), q)}
    BY <1>1, <1>3 DEF SameRow
  <1>5. {r \in all : r.source = f} = Whole(f)
    <2>1. ASSUME NEW r \in all, r.source = f PROVE r \in Whole(f)
      <3>1. CASE r \in rows /\ \A i \in Taken(f) : i <= n => ~SameRow(RowOf(f, i), r)
        BY <2>1, <3>1, <1>4
      <3>2. CASE r \in {RowOf(f, i) : i \in Latest(f, n)}
        BY <3>2, <1>1
      <3>. QED
        BY <3>1, <3>2 DEF After
    <2>2. ASSUME NEW r \in Whole(f) PROVE r \in all /\ r.source = f
      BY <2>2, <1>1, <1>2 DEF After
    <2>. QED
      BY <2>1, <2>2
  <1>6. ASSUME NEW g, g # f PROVE {r \in all : r.source = g} = {r \in rows : r.source = g}
    BY <1>2, <1>6 DEF After, SameRow
  <1>. QED
    BY <1>5, <1>6

FeedOK(fd, rows) ==
    /\ fd = [at |-> fd.at, row |-> fd.row, table |-> fd.table]
    /\ fd.at \in 0..Len(Feeds)
    /\ fd.at > 0 => /\ fd.row \in 0..Len(Published(Feeds[fd.at]))
                    /\ fd.table = After(rows, Feeds[fd.at], fd.row)

FeedsOK == FeedOK(feed, iocs) /\ FeedsWhole

LEMMA LoadingOK ==
    ASSUME NEW k \in 0..Len(Feeds), NEW rows
    PROVE  FeedOK(Loading(k, rows), rows)
  <1>1. k > 0 => k \in 1..Len(Feeds)
    BY IntelAssumption
  <1>2. ASSUME k > 0 PROVE 0 \in 0..Len(Published(Feeds[k])) /\ After(rows, Feeds[k], 0) = rows
    <2>1. Len(Published(Feeds[k])) \in Nat
      BY <1>1, <1>2, TakenPositions
    <2>2. After(rows, Feeds[k], 0) = rows
      BY <1>1, <1>2, AfterNone
    <2>. QED
      BY <2>1, <2>2
  <1>. QED
    BY <1>2 DEF FeedOK, Loading

LEMMA NextFeedOK ==
    ASSUME feed.at \in 0..Len(Feeds), NEW rows
    PROVE  FeedOK(NextFeed(rows), rows)
  <1>. Len(Feeds) \in Nat
    BY IntelAssumption
  <1>1. (feed.at + 1) % (Len(Feeds) + 1) \in 0..Len(Feeds)
    OBVIOUS
  <1>. QED
    BY <1>1, LoadingOK DEF NextFeed

LEMMA FeedsOKInit == Init => FeedsOK
  <1>. SUFFICES ASSUME Init PROVE FeedsOK
    OBVIOUS
  <1>1. \E k \in {0, 1} : feed = Loading(k, iocs)
    BY DEF Init
  <1>2. Len(Feeds) \in Nat /\ Len(Feeds) > 0
    BY IntelAssumption
  <1>. QED
    BY <1>1, <1>2, LoadingOK DEF Init, FeedsOK, FeedsWhole

LEMMA FeedsOKStep == FeedsOK /\ [Next]_vars => FeedsOK'
  <1>. SUFFICES ASSUME FeedsOK, [Next]_vars PROVE FeedsOK'
    OBVIOUS
  <1>. Len(Feeds) \in Nat /\ Len(Feeds) > 0
    BY IntelAssumption
  <1>. USE DEF FeedsOK
  <1>1. CASE FeedRow
    <2>. DEFINE f == Feeds[feed.at]
                n == feed.row
    <2>1. feed.at \in 1..Len(Feeds) /\ n + 1 \in 1..Len(Published(f)) /\ iocs' = iocs
      BY <1>1 DEF FeedRow, Reads, FeedOK
    <2>2. n \in Nat
      BY <2>1, TakenPositions DEF FeedOK
    <2>3. feed' = [at |-> feed.at, row |-> n + 1, table |-> WithRow(feed.table, f, n + 1)]
      BY <1>1 DEF FeedRow, Reads, FeedOK
    <2>4. feed.table = After(iocs, f, n)
      BY <2>1 DEF FeedOK
    <2>5. WithRow(feed.table, f, n + 1) = After(iocs, f, n + 1)
      BY <2>1, <2>2, <2>4, AfterOneMore
    <2>. QED
      BY <2>1, <2>2, <2>3, <2>5 DEF FeedOK, FeedsWhole
  <1>2. CASE FeedCommit
    <2>. DEFINE f == Feeds[feed.at]
    <2>1. feed.at \in 1..Len(Feeds) /\ iocs' = After(iocs, f, Len(Published(f)))
      BY <1>2 DEF FeedCommit, FeedOK
    <2>2. feed' = NextFeed(iocs')
      BY <1>2 DEF FeedCommit
    <2>3. FeedOK(NextFeed(iocs'), iocs')
      BY <2>1, NextFeedOK
    <2>4. {r \in iocs : r.source = f} \in {{}, Whole(f)}
      BY <2>1 DEF FeedsWhole
    <2>. DEFINE all == After(iocs, f, Len(Published(f)))
    <2>5. /\ {r \in all : r.source = f} = Whole(f)
          /\ \A g : g # f => {r \in all : r.source = g} = {r \in iocs : r.source = g}
      BY <2>1, <2>4, AfterAll
    <2>. HIDE DEF all
    <2>6. \A g : g # f => {r \in iocs' : r.source = g} = {r \in iocs : r.source = g}
      BY <2>1, <2>5 DEF all
    <2>7. {r \in iocs' : r.source = f} = Whole(f)
      BY <2>1, <2>5 DEF all
    <2>. HIDE DEF f
    <2>8. ASSUME NEW k \in 1..Len(Feeds)
          PROVE  {r \in iocs' : r.source = Feeds[k]} \in {{}, Whole(Feeds[k])}
      <3>1. CASE Feeds[k] = f
        BY <2>7, <3>1
      <3>2. CASE Feeds[k] # f
        <4>1. {r \in iocs' : r.source = Feeds[k]} = {r \in iocs : r.source = Feeds[k]}
          BY <2>6, <3>2
        <4>. QED
          BY <4>1 DEF FeedsWhole
      <3>. QED
        BY <3>1, <3>2
    <2>9. FeedsWhole'
      BY <2>8 DEF FeedsWhole
    <2>. QED
      BY <2>2, <2>3, <2>9
  <1>3. CASE FeedFails
    BY <1>3, NextFeedOK DEF FeedFails, FeedOK, FeedsWhole
  <1>4. CASE FeedWakes \/ Restart
    <2>1. \E k \in {0, 1} : feed' = Loading(k, iocs)
      BY <1>4 DEF FeedWakes, Restart
    <2>. QED
      BY <1>4, <2>1, LoadingOK DEF FeedWakes, Restart, FeedsWhole
  <1>5. CASE UNCHANGED <<iocs, feed>>
    BY <1>5 DEF FeedOK, FeedsWhole
  <1>6. ASSUME NEW t \in Threads, Step(t) \/ Begin(t) \/ BeginUpload(t)
        PROVE  UNCHANGED <<iocs, feed>>
    <2>1. CASE Step(t)
      BY <2>1
      DEF Step, Hit, Miss, Answered, Unanswered, Raised, Put, Resolve, AgeKnown, AskAge,
          AgeAnswered, AgeUnanswered, KeepAge, Publish, Collect, Prefetch, Batch, Keep, KeepNone,
          KeepAs, End
    <2>2. CASE Begin(t) \/ BeginUpload(t)
      BY <2>2 DEF Begin, BeginUpload
    <2>. QED
      BY <1>6, <2>1, <2>2
  <1>7. Tick \/ Midnight \/ UNCHANGED vars => UNCHANGED <<iocs, feed>>
    BY DEF Tick, Midnight, vars
  <1>. QED
    BY <1>1, <1>2, <1>3, <1>4, <1>5, <1>6, <1>7 DEF Next

(* Whatever fails and whenever the process ends, a feed is in the database *)
(* with all the rows it was last loaded with or not at all.                *)
(* (feed_ingestion.py, one session and one commit for each feed)           *)
THEOREM FeedsWholeHolds == Spec => []FeedsWhole
  <1>1. FeedsOK => FeedsWhole
    BY DEF FeedsOK
  <1>. QED
    BY <1>1, FeedsOKInit, FeedsOKStep, PTL DEF Spec

-----------------------------------------------------------------------------
(* Numbers: the least of a set, and from it induction up to a bound.       *)

LEMMA LeastNat ==
    ASSUME NEW T \in SUBSET Nat, T # {}
    PROVE  \E n \in T : \A m \in T : n <= m
  <1>. DEFINE R == OpToRel(<, Nat)
  <1>1. IsWellFoundedOn(R, Nat)
    BY NatLessThanWellFounded
  <1>2. \A a, b \in Nat : a < b => <<a, b>> \in R
    BY DEF OpToRel
  <1>. HIDE DEF R
  <1>3. PICK x \in T : \A y \in T : ~ (<<y, x>> \in R)
    BY <1>1, WFMin
  <1>4. ASSUME NEW y \in T PROVE x <= y
    <2>1. ~(y < x)
      BY <1>2, <1>3
    <2>. QED
      BY <2>1
  <1>. QED
    BY <1>4

LEMMA UpTo ==
    ASSUME NEW b \in Nat, NEW n \in Nat, NEW S, b \in S, \A k \in b..(n - 1) : k \in S => k + 1 \in S
    PROVE  \A k \in b..n : k \in S
  <1>. DEFINE Out == {k \in b..n : k \notin S}
  <1>. SUFFICES ASSUME Out # {} PROVE FALSE
    OBVIOUS
  <1>1. Out \in SUBSET Nat
    OBVIOUS
  <1>2. PICK m \in Out : \A k \in Out : m <= k
    BY <1>1, LeastNat
  <1>3. m \in b..n /\ m \notin S /\ m # b
    BY <1>2
  <1>4. m - 1 \in b..(n - 1)
    BY <1>3
  <1>5. m - 1 \in S
    <2>1. m - 1 \notin Out
      BY <1>2, <1>3
    <2>. QED
      BY <2>1, <1>4
  <1>6. (m - 1) + 1 \in S
    BY <1>4, <1>5
  <1>. QED
    BY <1>3, <1>6

(* FlattenSeq is a recursive function: there is one, and it yields lists.  *)

Flattening(seqs, n, f) ==
  f = [i \in 1..n |-> IF i = 1 THEN seqs[i] ELSE f[i - 1] \o seqs[i]]

LEMMA FlatteningExists ==
    ASSUME NEW S, NEW seqs \in Seq(Seq(S)), seqs # <<>>
    PROVE  \E f \in [1..Len(seqs) -> Seq(S)] : Flattening(seqs, Len(seqs), f)
  <1>. DEFINE N == Len(seqs)
              Good == {n \in Nat : \E f \in [1..n -> Seq(S)] : Flattening(seqs, n, f)}
  <1>0. N \in Nat /\ N >= 1 /\ \A i \in 1..N : seqs[i] \in Seq(S)
    BY EmptySeq, ElementOfSeq
  <1>1. 1 \in Good
    <2>. DEFINE f == [i \in 1..1 |-> seqs[i]]
    <2>1. f \in [1..1 -> Seq(S)] /\ Flattening(seqs, 1, f)
      BY <1>0 DEF Flattening
    <2>. HIDE DEF f
    <2>. QED
      BY <2>1
  <1>2. ASSUME NEW n \in 1..(N - 1), n \in Good PROVE n + 1 \in Good
    <2>1. PICK f \in [1..n -> Seq(S)] : Flattening(seqs, n, f)
      BY <1>2
    <2>. DEFINE g == [i \in 1..(n + 1) |-> IF i = n + 1 THEN f[n] \o seqs[i] ELSE f[i]]
    <2>2. g \in [1..(n + 1) -> Seq(S)]
      <3>1. n \in Nat /\ n \in 1..n /\ n + 1 \in 1..N
        BY <1>0
      <3>2. f[n] \o seqs[n + 1] \in Seq(S)
        BY <1>0, <3>1, ConcatProperties
      <3>. QED
        BY <3>2
    <2>3. ASSUME NEW i \in 1..(n + 1)
          PROVE  g[i] = IF i = 1 THEN seqs[i] ELSE g[i - 1] \o seqs[i]
      <3>0. n \in Nat /\ n >= 1
        BY <1>0
      <3>1. CASE i = n + 1
        <4>1. i # 1 /\ i - 1 = n /\ n \in 1..(n + 1) /\ n # n + 1
          BY <3>0, <3>1
        <4>2. g[i - 1] = f[n] /\ g[i] = f[n] \o seqs[i]
          BY <3>1, <4>1
        <4>. QED
          BY <4>1, <4>2
      <3>2. CASE i \in 1..n
        <4>1. f[i] = IF i = 1 THEN seqs[i] ELSE f[i - 1] \o seqs[i]
          BY <3>2, <2>1 DEF Flattening
        <4>2. g[i] = f[i] /\ (i # 1 => i - 1 \in 1..n /\ g[i - 1] = f[i - 1])
          BY <3>0, <3>2
        <4>. QED
          BY <4>1, <4>2
      <3>. QED
        BY <3>1, <3>2
    <2>4. g = [i \in 1..(n + 1) |-> IF i = 1 THEN seqs[i] ELSE g[i - 1] \o seqs[i]]
      <3>. HIDE DEF g
      <3>. QED
        BY <2>2, <2>3
    <2>5. Flattening(seqs, n + 1, g)
      <3>. HIDE DEF g
      <3>. QED
        BY <2>4 DEF Flattening
    <2>. HIDE DEF g
    <2>. QED
      BY <2>2, <2>5
  <1>3. N \in Good
    <2>. HIDE DEF Good
    <2>1. \A n \in 1..N : n \in Good
      BY <1>0, <1>1, <1>2, UpTo
    <2>. QED
      BY <2>1, <1>0
  <1>. QED
    BY <1>3

LEMMA FlattenSeqType ==
    ASSUME NEW S, NEW seqs \in Seq(Seq(S))
    PROVE  FlattenSeq(seqs) \in Seq(S)
  <1>1. CASE Len(seqs) = 0
    BY <1>1, EmptySeq DEF FlattenSeq
  <1>2. CASE Len(seqs) # 0
    <2>. DEFINE N == Len(seqs)
    <2>1. seqs # <<>> /\ N \in Nat /\ N >= 1
      BY <1>2, EmptySeq
    <2>2. PICK f \in [1..N -> Seq(S)] : Flattening(seqs, N, f)
      BY <2>1, FlatteningExists
    <2>3. PICK g : Flattening(seqs, N, g) /\ FlattenSeq(seqs) = g[N]
      BY <1>2, <2>2 DEF FlattenSeq, Flattening
    <2>. DEFINE Good == {n \in 1..N : g[n] \in Seq(S)}
    <2>4. \A i \in 1..N : /\ g[i] = IF i = 1 THEN seqs[i] ELSE g[i - 1] \o seqs[i]
                          /\ seqs[i] \in Seq(S)
      BY <2>3, ElementOfSeq DEF Flattening
    <2>5. 1 \in Good
      <3>1. 1 \in 1..N
        BY <2>1
      <3>2. g[1] = seqs[1] /\ seqs[1] \in Seq(S)
        BY <2>4, <3>1
      <3>. QED
        BY <3>1, <3>2
    <2>6. ASSUME NEW n \in 1..(N - 1), n \in Good PROVE n + 1 \in Good
      <3>1. n + 1 \in 1..N /\ n + 1 # 1 /\ (n + 1) - 1 = n
        BY <2>1
      <3>2. g[n + 1] = g[n] \o seqs[n + 1]
        BY <2>4, <3>1
      <3>3. g[n] \in Seq(S) /\ seqs[n + 1] \in Seq(S)
        BY <2>4, <2>6, <3>1
      <3>4. g[n] \o seqs[n + 1] \in Seq(S)
        BY <3>3, ConcatProperties
      <3>. QED
        BY <3>1, <3>2, <3>4
    <2>7. \A n \in 1..N : n \in Good
      <3>. HIDE DEF Good
      <3>. QED
        BY <2>1, <2>5, <2>6, UpTo
    <2>. QED
      BY <2>1, <2>3, <2>7
  <1>. QED
    BY <1>1, <1>2

-----------------------------------------------------------------------------
(* The cache.                                                              *)

EntryOK(e) ==
    /\ DOMAIN e = {"by", "ind", "verdict", "left"}
    /\ e.ind.kind \in Kinds
    /\ e.left \in -1..TTL[e.ind.kind]

Distinct(s) ==
    \A i, k \in 1..Len(s) : s[i].by = s[k].by /\ s[i].ind = s[k].ind => i = k

StoreOK(s) ==
    /\ s \in Seq(Range(s))
    /\ \A i \in 1..Len(s) : EntryOK(s[i])
    /\ Distinct(s)

LEMMA SeqOwnRange ==
    ASSUME NEW E, NEW s \in Seq(E)
    PROVE  s \in Seq(Range(s))
  BY SeqOfRange

(* Without the entry of a key: the other entries, in order.                *)
LEMMA WithoutOK ==
    ASSUME NEW s, StoreOK(s), NEW by, NEW ind
    PROVE  /\ StoreOK(Without(s, by, ind))
           /\ Len(Without(s, by, ind)) <= Len(s)
           /\ At(s, by, ind) # {} => Len(Without(s, by, ind)) + 1 <= Len(s)
           /\ \A i \in 1..Len(Without(s, by, ind)) :
                 Without(s, by, ind)[i].by # by \/ Without(s, by, ind)[i].ind # ind
  <1>. DEFINE R == Range(s)
              n == Len(s)
              w == Without(s, by, ind)
  <1>1. s \in Seq(R) /\ n \in Nat
    BY DEF StoreOK
  <1>2. CASE At(s, by, ind) = {}
    BY <1>1, <1>2 DEF At, Without
  <1>3. CASE At(s, by, ind) # {}
    <2>1. PICK k \in At(s, by, ind) : w = RemoveAt(s, k)
      BY <1>3 DEF Without
    <2>2. k \in 1..n /\ s[k].by = by /\ s[k].ind = ind
      BY <2>1 DEF At
    <2>. DEFINE a == SubSeq(s, 1, k - 1)
                b == SubSeq(s, k + 1, n)
    <2>3. a \in Seq(R) /\ Len(a) = k - 1 /\ \A i \in 1..(k - 1) : a[i] = s[i]
      BY <1>1, <2>2
    <2>4. b \in Seq(R) /\ Len(b) = n - k /\ \A i \in 1..(n - k) : b[i] = s[i + k]
      BY <1>1, <2>2
    <2>5. w = a \o b
      BY <2>1 DEF RemoveAt
    <2>6. /\ w \in Seq(R) /\ Len(w) = n - 1
          /\ \A i \in 1..(n - 1) : w[i] = IF i < k THEN s[i] ELSE s[i + 1]
      <3>. HIDE DEF a, b, w
      <3>0. /\ w \in Seq(R) /\ Len(w) = Len(a) + Len(b)
            /\ \A i \in 1..(Len(a) + Len(b)) : w[i] = IF i <= Len(a) THEN a[i] ELSE b[i - Len(a)]
        BY <2>3, <2>4, <2>5, ConcatProperties
      <3>1. w \in Seq(R) /\ Len(w) = (k - 1) + (n - k)
        BY <2>3, <2>4, <3>0
      <3>2. \A i \in 1..((k - 1) + (n - k)) : w[i] = IF i <= k - 1 THEN a[i] ELSE b[i - (k - 1)]
        BY <2>3, <2>4, <3>0
      <3>3. ASSUME NEW i \in 1..(n - 1) PROVE w[i] = IF i < k THEN s[i] ELSE s[i + 1]
        <4>1. w[i] = IF i <= k - 1 THEN a[i] ELSE b[i - (k - 1)]
          BY <1>1, <2>2, <3>2
        <4>2. CASE i < k
          BY <4>1, <4>2, <1>1, <2>2, <2>3
        <4>3. CASE ~(i < k)
          <5>1. i - (k - 1) \in 1..(n - k) /\ (i - (k - 1)) + k = i + 1
            BY <1>1, <2>2, <4>3
          <5>. QED
            BY <4>1, <4>3, <5>1, <1>1, <2>2, <2>4
        <4>. QED
          BY <4>2, <4>3
      <3>. QED
        BY <1>1, <2>2, <3>1, <3>3
    <2>. HIDE DEF w, n
    <2>7. \A i \in 1..(n - 1) : \E j \in 1..n : w[i] = s[j] /\ j # k /\ j = IF i < k THEN i ELSE i + 1
      BY <1>1, <2>2, <2>6
    <2>8. \A i \in 1..n : EntryOK(s[i])
      BY DEF StoreOK, n
    <2>9. \A i, j \in 1..n : s[i].by = s[j].by /\ s[i].ind = s[j].ind => i = j
      BY DEF StoreOK, Distinct, n
    <2>10. \A i \in 1..(n - 1) : EntryOK(w[i]) /\ (w[i].by # by \/ w[i].ind # ind)
      BY <2>2, <2>7, <2>8, <2>9
    <2>11. ASSUME NEW i \in 1..(n - 1), NEW j \in 1..(n - 1), w[i].by = w[j].by, w[i].ind = w[j].ind
           PROVE  i = j
      <3>1. PICK p \in 1..n : w[i] = s[p] /\ p = IF i < k THEN i ELSE i + 1
        BY <2>7
      <3>2. PICK q \in 1..n : w[j] = s[q] /\ q = IF j < k THEN j ELSE j + 1
        BY <2>7
      <3>3. p = q
        BY <2>9, <2>11, <3>1, <3>2
      <3>. QED
        BY <1>1, <2>2, <3>1, <3>2, <3>3
    <2>12. w \in Seq(Range(w))
      BY <2>6, SeqOwnRange
    <2>. QED
      BY <1>1, <2>6, <2>10, <2>11, <2>12 DEF StoreOK, Distinct, w, n
  <1>. QED
    BY <1>2, <1>3

LEMMA AppendOK ==
    ASSUME NEW s, StoreOK(s), NEW e, EntryOK(e),
           \A i \in 1..Len(s) : s[i].by # e.by \/ s[i].ind # e.ind
    PROVE  StoreOK(Append(s, e)) /\ Len(Append(s, e)) = Len(s) + 1
  <1>. DEFINE R == Range(s) \cup {e}
  <1>1. s \in Seq(R) /\ Len(s) \in Nat
    BY SeqMonotonic DEF StoreOK
  <1>2. /\ Append(s, e) \in Seq(R) /\ Len(Append(s, e)) = Len(s) + 1
        /\ \A i \in 1..Len(s) : Append(s, e)[i] = s[i]
        /\ Append(s, e)[Len(s) + 1] = e
    BY <1>1, AppendProperties
  <1>3. \A i \in 1..(Len(s) + 1) : i \in 1..Len(s) \/ i = Len(s) + 1
    BY <1>1
  <1>4. \A i \in 1..Len(Append(s, e)) : EntryOK(Append(s, e)[i])
    BY <1>2, <1>3 DEF StoreOK
  <1>5. Distinct(Append(s, e))
    BY <1>1, <1>2, <1>3 DEF StoreOK, Distinct
  <1>6. Append(s, e) \in Seq(Range(Append(s, e)))
    BY <1>2, SeqOwnRange
  <1>. QED
    BY <1>2, <1>4, <1>5, <1>6 DEF StoreOK

LEMMA NewestOK ==
    ASSUME NEW s, StoreOK(s), NEW m \in Nat, Len(s) > m
    PROVE  LET r == SubSeq(s, Len(s) - m + 1, Len(s)) IN StoreOK(r) /\ Len(r) = m
  <1>. DEFINE n == Len(s)
              r == SubSeq(s, n - m + 1, n)
  <1>1. s \in Seq(Range(s)) /\ n \in Nat
    BY DEF StoreOK
  <1>2. /\ r \in Seq(Range(s)) /\ Len(r) = m
        /\ \A i \in 1..m : r[i] = s[i + (n - m)] /\ i + (n - m) \in 1..n
    BY <1>1
  <1>3. r \in Seq(Range(r))
    BY <1>2, SeqOwnRange
  <1>. HIDE DEF r
  <1>4. \A i \in 1..m : EntryOK(r[i])
    BY <1>2 DEF StoreOK
  <1>5. ASSUME NEW i \in 1..m, NEW j \in 1..m, r[i].by = r[j].by, r[i].ind = r[j].ind PROVE i = j
    <2>1. r[i] = s[i + (n - m)] /\ r[j] = s[j + (n - m)] /\ i + (n - m) \in 1..n /\ j + (n - m) \in 1..n
      BY <1>2
    <2>2. i + (n - m) = j + (n - m)
      BY <1>5, <2>1 DEF StoreOK, Distinct
    <2>. QED
      BY <1>1, <2>2
  <1>. QED
    BY <1>2, <1>3, <1>4, <1>5 DEF StoreOK, Distinct, r

LEMMA EntryIsOK ==
    ASSUME NEW by, NEW ind, ind.kind \in Kinds, NEW verdict
    PROVE  EntryOK(Entry(by, ind, verdict))
  BY IntelAssumption DEF EntryOK, Entry

(* put keeps one entry for a key and the size of the cache.                *)
LEMMA StoredOK ==
    ASSUME NEW s, StoreOK(s), NEW e, EntryOK(e)
    PROVE  StoreOK(Stored(s, e)) /\ Len(Stored(s, e)) <= MaxSize
  <1>. DEFINE w == Without(s, e.by, e.ind)
              all == Append(w, e)
  <1>1. StoreOK(w) /\ \A i \in 1..Len(w) : w[i].by # e.by \/ w[i].ind # e.ind
    BY WithoutOK
  <1>2. StoreOK(all)
    <2>. HIDE DEF w
    <2>. QED
      BY <1>1, AppendOK
  <1>3. Len(all) \in Nat /\ MaxSize \in Nat
    BY <1>2, IntelAssumption DEF StoreOK
  <1>4. CASE Len(all) > MaxSize
    <2>1. Stored(s, e) = SubSeq(all, Len(all) - MaxSize + 1, Len(all))
      BY <1>4 DEF Stored
    <2>. HIDE DEF all
    <2>. QED
      BY <1>2, <1>3, <1>4, <2>1, NewestOK
  <1>5. CASE ~(Len(all) > MaxSize)
    BY <1>2, <1>3, <1>5 DEF Stored
  <1>. QED
    BY <1>4, <1>5

(* get deletes an expired entry and moves a live one.                      *)
LEMMA LookedOK ==
    ASSUME NEW s, StoreOK(s), Len(s) <= MaxSize, NEW by, NEW ind
    PROVE  StoreOK(Looked(s, by, ind)) /\ Len(Looked(s, by, ind)) <= MaxSize
  <1>. DEFINE w == Without(s, by, ind)
  <1>1. /\ StoreOK(w) /\ Len(w) <= Len(s)
        /\ At(s, by, ind) # {} => Len(w) + 1 <= Len(s)
        /\ \A i \in 1..Len(w) : w[i].by # by \/ w[i].ind # ind
    BY WithoutOK
  <1>2. Len(w) \in Nat /\ Len(s) \in Nat /\ MaxSize \in Nat
    BY <1>1, IntelAssumption DEF StoreOK
  <1>3. CASE Live(s, by, ind) = {}
    BY <1>1, <1>2, <1>3 DEF Looked
  <1>4. CASE Live(s, by, ind) # {}
    <2>1. PICK e \in Live(s, by, ind) : Looked(s, by, ind) = Append(w, e)
      BY <1>4 DEF Looked
    <2>2. e \in Range(s) /\ e.by = by /\ e.ind = ind
      BY <2>1 DEF Live, Of
    <2>3. PICK i \in 1..Len(s) : s[i] = e
      BY <2>2, RangeEquality DEF StoreOK
    <2>4. EntryOK(e) /\ At(s, by, ind) # {}
      BY <2>2, <2>3 DEF StoreOK, At
    <2>. HIDE DEF w
    <2>5. StoreOK(Append(w, e)) /\ Len(Append(w, e)) = Len(w) + 1
      BY <1>1, <2>2, <2>4, AppendOK
    <2>. QED
      BY <1>1, <1>2, <2>1, <2>4, <2>5
  <1>. QED
    BY <1>3, <1>4

LEMMA AgedOK ==
    ASSUME NEW s, StoreOK(s)
    PROVE  LET aged == [i \in 1..Len(s) |-> [s[i] EXCEPT !.left = IF @ > -1 THEN @ - 1 ELSE -1]]
           IN  StoreOK(aged) /\ Len(aged) = Len(s)
  <1>. DEFINE aged == [i \in 1..Len(s) |-> [s[i] EXCEPT !.left = IF @ > -1 THEN @ - 1 ELSE -1]]
  <1>1. Len(s) \in Nat /\ \A i \in 1..Len(s) : EntryOK(s[i])
    BY DEF StoreOK
  <1>2. aged \in Seq({aged[i] : i \in 1..Len(s)}) /\ Len(aged) = Len(s)
    BY <1>1
  <1>3. aged \in Seq(Range(aged))
    BY <1>2, SeqOwnRange
  <1>4. \A i \in 1..Len(s) : aged[i].by = s[i].by /\ aged[i].ind = s[i].ind
    BY <1>1 DEF EntryOK
  <1>5. ASSUME NEW i \in 1..Len(s) PROVE EntryOK(aged[i])
    <2>1. s[i].left \in -1..TTL[s[i].ind.kind] /\ TTL[s[i].ind.kind] \in Nat
      BY <1>1, IntelAssumption DEF EntryOK
    <2>2. DOMAIN aged[i] = DOMAIN s[i] /\ aged[i].left = IF s[i].left > -1 THEN s[i].left - 1 ELSE -1
      BY <1>1 DEF EntryOK
    <2>. HIDE DEF aged
    <2>. QED
      BY <1>1, <1>4, <2>1, <2>2 DEF EntryOK
  <1>. HIDE DEF aged
  <1>6. StoreOK(aged)
    BY <1>2, <1>3, <1>4, <1>5 DEF StoreOK, Distinct
  <1>. QED
    BY <1>2, <1>6 DEF aged

-----------------------------------------------------------------------------
(* The signals of an enrichment and the items it works on.                 *)

OneEach(found) == \A s, o \in found : s.name = o.name => s = o

LEMMA GainedOneEach ==
    ASSUME NEW found, OneEach(found), NEW verdict
    PROVE  OneEach(Gained(found, verdict))
  <1>. DEFINE new == {SignalFor(tag) : tag \in verdict.tags} \ {s.name : s \in found}
              more == {[name |-> n, weight |-> DynamicWeight(n, verdict.confidence)] : n \in new}
  <1>1. Gained(found, verdict) \in {found, found \cup more}
    BY DEF Gained
  <1>2. \A s \in more : s.name \in new /\ s = [name |-> s.name, weight |-> DynamicWeight(s.name, verdict.confidence)]
    OBVIOUS
  <1>3. \A s \in found : s.name \notin new
    OBVIOUS
  <1>. HIDE DEF new, more
  <1>4. ASSUME NEW s \in found \cup more, NEW o \in found \cup more, s.name = o.name PROVE s = o
    <2>1. CASE s \in more /\ o \in more
      <3>1. /\ s = [name |-> s.name, weight |-> DynamicWeight(s.name, verdict.confidence)]
            /\ o = [name |-> o.name, weight |-> DynamicWeight(o.name, verdict.confidence)]
        BY <1>2, <2>1
      <3>. QED
        BY <1>4, <3>1
    <2>. QED
      BY <1>2, <1>3, <1>4, <2>1 DEF OneEach
  <1>5. OneEach(found \cup more)
    BY <1>4 DEF OneEach
  <1>. QED
    BY <1>1, <1>5

LEMMA MergedOneEach ==
    ASSUME NEW found, OneEach(found), NEW more, OneEach(more)
    PROVE  OneEach(Merged(found, more))
  BY DEF OneEach, Merged

LEMMA OwnerOneEach == ASSUME NEW r PROVE OneEach(OwnerSignals(r))
  BY DEF OneEach, OwnerSignals

LEMMA AgeOneEach == ASSUME NEW ind, NEW facts PROVE OneEach(AgeSignals(ind, facts))
  <1>1. CASE ind.class = "well known"
    BY <1>1 DEF OneEach, AgeSignals
  <1>2. CASE ind.class # "well known"
    <2>1. \A s \in AgeSignals(ind, facts) :
            \/ s = [name |-> "domain_very_new", weight |-> 22] /\ facts.age \in 0..6
            \/ s = [name |-> "domain_newly_registered", weight |-> 18] /\ facts.age \notin 0..6
            \/ s = [name |-> "domain_suspicious_tld", weight |-> 12]
      BY <1>2 DEF AgeSignals
    <2>. QED
      BY <2>1 DEF OneEach
  <1>. QED
    BY <1>1, <1>2

Unnamed == {"publish", "collect", "batch"}

Naming == Providers \cup {"dns", "ipapi", "rdap", "prefetch", "keep"}

Items == {Item(by, None) : by \in Unnamed} \cup {Item(by, ind) : by \in Naming, ind \in Indicators}

LEMMA ItemFacts ==
    /\ \A by \in Naming, ind \in Indicators : Item(by, ind) \in Items
    /\ \A by \in Unnamed : Item(by, None) \in Items
    /\ \A item \in Items : item.by \notin Unnamed => item.ind \in Indicators /\ item.ind.kind \in Kinds
  <1>1. \A by \in Naming, ind \in Indicators : Item(by, ind) \in Items
    BY DEF Items
  <1>2. \A by \in Unnamed : Item(by, None) \in Items
    BY DEF Items
  <1>3. ASSUME NEW item \in Items, item.by \notin Unnamed
        PROVE  item.ind \in Indicators /\ item.ind.kind \in Kinds
    <2>1. \A by \in Unnamed : item # Item(by, None)
      BY <1>3 DEF Item
    <2>2. PICK by \in Naming, ind \in Indicators : item = Item(by, ind)
      BY <2>1 DEF Items
    <2>. QED
      BY <2>2 DEF Item, Indicators
  <1>. QED
    BY <1>1, <1>2, <1>3

LEMMA ByType ==
    ASSUME NEW by \in Naming, NEW inds \in Seq(Indicators)
    PROVE  By(by, inds) \in Seq(Items)
  <1>1. Len(inds) \in Nat /\ \A i \in 1..Len(inds) : Item(by, inds[i]) \in Items
    BY ElementOfSeq, ItemFacts
  <1>2. [i \in 1..Len(inds) |-> Item(by, inds[i])] \in Seq(Items)
    BY <1>1
  <1>. QED
    BY <1>2 DEF By

LEMMA WorkType ==
    ASSUME site \in Sites, NEW alert \in site.alerts
    PROVE  Work(alert) \in Seq(Items)
  <1>. DEFINE ps == site.providers
              seqs(inds) == [i \in 1..Len(inds) |-> [p \in 1..Len(ps) |-> Item(ps[p], inds[i])]]
  <1>1. ps \in Seq(Naming)
    BY IntelAssumption, SeqMonotonic DEF Naming
  <1>2. Len(ps) \in Nat /\ \A p \in 1..Len(ps) : ps[p] \in Naming
    BY <1>1, ElementOfSeq
  <1>3. alert.ips \in Seq(Indicators) /\ alert.domains \in Seq(Indicators) /\ alert.hashes \in Seq(Indicators)
    <2>1. /\ alert.ips \in Seq(Indicator("ip")) /\ alert.domains \in Seq(Indicator("domain"))
          /\ alert.hashes \in Seq(Indicator("hash"))
      BY IntelAssumption
    <2>2. \A kind \in Kinds : Indicator(kind) \subseteq Indicators
      BY DEF Indicator, Indicators
    <2>3. "ip" \in Kinds /\ "domain" \in Kinds /\ "hash" \in Kinds
      BY DEF Kinds
    <2>. QED
      BY <2>1, <2>2, <2>3, SeqMonotonic
  <1>4. ASSUME NEW inds \in Seq(Indicators) PROVE Each(inds) \in Seq(Items)
    <2>1. Len(inds) \in Nat /\ \A i \in 1..Len(inds) : inds[i] \in Indicators
      BY ElementOfSeq
    <2>2. \A i \in 1..Len(inds), p \in 1..Len(ps) : Item(ps[p], inds[i]) \in Items
      BY <1>2, <2>1, ItemFacts
    <2>3. \A i \in 1..Len(inds) : [p \in 1..Len(ps) |-> Item(ps[p], inds[i])] \in Seq(Items)
      BY <1>2, <2>2
    <2>4. seqs(inds) \in Seq(Seq(Items))
      BY <2>1, <2>3
    <2>5. FlattenSeq(seqs(inds)) \in Seq(Items)
      <3>. HIDE DEF seqs
      <3>. QED
        BY <2>4, FlattenSeqType
    <2>. QED
      BY <2>5 DEF Each
  <1>5. First(alert.domains) \in Seq(Indicators)
    <2>1. CASE alert.domains = <<>>
      BY <2>1 DEF First
    <2>2. CASE alert.domains # <<>>
      <3>1. alert.domains[1] \in Indicators
        BY <1>3, <2>2, EmptySeq, ElementOfSeq
      <3>. QED
        BY <2>2, <3>1 DEF First
    <2>. QED
      BY <2>1, <2>2
  <1>6. <<Item("publish", None), Item("collect", None)>> \in Seq(Items)
    BY ItemFacts DEF Unnamed
  <1>7. /\ By("dns", alert.domains) \in Seq(Items) /\ By("ipapi", alert.ips) \in Seq(Items)
        /\ By("rdap", First(alert.domains)) \in Seq(Items)
    <2>1. \A by \in {"dns", "ipapi", "rdap"} : by \in Naming
      BY DEF Naming
    <2>. QED
      BY <1>3, <1>5, <2>1, ByType
  <1>8. Each(alert.ips) \in Seq(Items) /\ Each(alert.domains) \in Seq(Items) /\ Each(alert.hashes) \in Seq(Items)
    BY <1>3, <1>4
  <1>. QED
    BY <1>6, <1>7, <1>8, ConcatProperties DEF Work

-----------------------------------------------------------------------------
(* Type correctness.                                                       *)

JobOK(j) ==
    /\ DOMAIN j = {"pc", "todo", "answer", "found", "actors", "notes"}
    /\ j.pc \in {"idle", "get", "ask", "put", "age"}
    /\ j.todo \in Seq(Items)
    /\ OneEach(j.found)
    /\ j.pc \in {"ask", "put", "age"} => j.todo # <<>> /\ Head(j.todo).ind.kind \in Kinds

JobsOK(jobs) == DOMAIN jobs = Threads /\ \A t \in Threads : JobOK(jobs[t])

IntelInv ==
    /\ site \in Sites
    /\ StoreOK(store) /\ Len(store) <= MaxSize
    /\ spent \in [Limited -> 0..Quota]
    /\ JobsOK(job)

LEMMA IdleOK == JobOK(Idle)
  BY DEF JobOK, Idle, OneEach

LEMMA JobsChange ==
    ASSUME JobsOK(job), NEW t \in Threads, NEW j, JobOK(j), job' = [job EXCEPT ![t] = j]
    PROVE  JobsOK(job')
  BY DEF JobsOK

LEMMA TailOK ==
    ASSUME NEW todo \in Seq(Items), todo # <<>>
    PROVE  Tail(todo) \in Seq(Items) /\ Head(todo) \in Items
  BY HeadTailProperties

LEMMA DoneOK ==
    ASSUME JobsOK(job), NEW t \in Threads, job[t].todo # <<>>, NEW found, OneEach(found), NEW actors,
           Done(t, found, actors)
    PROVE  JobsOK(job')
  <1>. DEFINE j == [job[t] EXCEPT !.todo = Tail(@), !.pc = "get", !.answer = Clean,
                                  !.found = found, !.actors = actors]
  <1>1. JobOK(job[t]) /\ Tail(job[t].todo) \in Seq(Items)
    BY TailOK DEF JobsOK, JobOK
  <1>2. JobOK(j)
    BY <1>1 DEF JobOK
  <1>3. job' = [job EXCEPT ![t] = j]
    BY DEF Done
  <1>. HIDE DEF j
  <1>. QED
    BY <1>2, <1>3, JobsChange

LEMMA UsedOK ==
    ASSUME JobsOK(job), NEW t \in Threads, job[t].todo # <<>>, NEW verdict, Used(t, verdict)
    PROVE  JobsOK(job')
  <1>1. OneEach(job[t].found)
    BY DEF JobsOK, JobOK
  <1>2. OneEach(Gained(job[t].found, verdict)) /\ OneEach(Merged(job[t].found, OwnerSignals(verdict)))
    BY <1>1, GainedOneEach, MergedOneEach, OwnerOneEach
  <1>3. \E found, actors : OneEach(found) /\ Done(t, found, actors)
    <2>1. CASE Now(t).by = "ipapi"
      BY <1>1, <1>2, <2>1 DEF Used
    <2>2. CASE Now(t).by # "ipapi"
      BY <1>2, <2>2 DEF Used
    <2>. QED
      BY <2>1, <2>2
  <1>. QED
    BY <1>3, DoneOK

LEMMA DoesItem ==
    ASSUME JobsOK(job), NEW t \in Threads, NEW by, by \cap Unnamed = {}, Does(t, by)
    PROVE  job[t].todo # <<>> /\ Now(t).ind.kind \in Kinds
  <1>1. Head(job[t].todo) \in Items /\ job[t].todo # <<>>
    BY TailOK DEF Does, JobsOK, JobOK
  <1>. QED
    BY <1>1, ItemFacts DEF Does, Now

LEMMA SpentOK ==
    ASSUME spent \in [Limited -> 0..Quota], NEW by \in Limited, spent[by] < Quota, Spend(by)
    PROVE  spent' \in [Limited -> 0..Quota]
  <1>1. Quota \in Nat /\ spent[by] + 1 \in 0..Quota
    BY IntelAssumption
  <1>. QED
    BY <1>1 DEF Spend

LEMMA AsksKinds ==
    ASSUME JobsOK(job), NEW t \in Threads, job[t].pc \in {"ask", "put", "age"}
    PROVE  job[t].todo # <<>> /\ Now(t).ind.kind \in Kinds
  BY DEF JobsOK, JobOK, Now

(* A new step within the item at hand.                                     *)
LEMMA GotoOK ==
    ASSUME JobsOK(job), NEW t \in Threads, job[t].todo # <<>>, Now(t).ind.kind \in Kinds,
           NEW pc \in {"ask", "put", "age"}, NEW answer,
           job' = [job EXCEPT ![t] = [job[t] EXCEPT !.pc = pc, !.answer = answer]]
    PROVE  JobsOK(job')
  <1>. DEFINE j == [job[t] EXCEPT !.pc = pc, !.answer = answer]
  <1>1. JobOK(j)
    BY DEF JobsOK, JobOK, Now
  <1>. HIDE DEF j
  <1>2. job' = [job EXCEPT ![t] = j]
    BY DEF j
  <1>. QED
    BY <1>1, <1>2, JobsChange

(* Another list of items, with the thread between two items.               *)
LEMMA TodoOK ==
    ASSUME JobsOK(job), NEW t \in Threads, job[t].pc = "get", NEW todo \in Seq(Items), NEW notes,
           job' = [job EXCEPT ![t] = [job[t] EXCEPT !.todo = todo, !.notes = notes]]
    PROVE  JobsOK(job')
  <1>. DEFINE j == [job[t] EXCEPT !.todo = todo, !.notes = notes]
  <1>1. JobOK(j)
    BY DEF JobsOK, JobOK
  <1>. HIDE DEF j
  <1>2. job' = [job EXCEPT ![t] = j]
    BY DEF j
  <1>. QED
    BY <1>1, <1>2, JobsChange

LEMMA BeginOK ==
    ASSUME JobsOK(job), NEW t \in Threads, NEW todo \in Seq(Items),
           job' = [job EXCEPT ![t] = [Idle EXCEPT !.pc = "get", !.todo = todo]]
    PROVE  JobsOK(job')
  <1>. DEFINE j == [Idle EXCEPT !.pc = "get", !.todo = todo]
  <1>1. JobOK(j)
    BY DEF Idle, JobOK, OneEach
  <1>. HIDE DEF j
  <1>2. job' = [job EXCEPT ![t] = j]
    BY DEF j
  <1>. QED
    BY <1>1, <1>2, JobsChange

LEMMA IntelInit == Init => IntelInv
  <1>. SUFFICES ASSUME Init PROVE IntelInv
    OBVIOUS
  <1>1. StoreOK(<<>>) /\ Len(<<>>) <= MaxSize
    BY IntelAssumption, EmptySeq DEF StoreOK, Distinct
  <1>. QED
    BY <1>1, IdleOK, IntelAssumption DEF Init, IntelInv, JobsOK

LEMMA LookupStep ==
    ASSUME IntelInv, NEW t \in Threads, Hit(t) \/ Miss(t) \/ Put(t) \/ Answered(t) \/ Unanswered(t) \/ Raised(t)
    PROVE  IntelInv'
  <1>. USE DEF IntelInv
  <1>0. Cached \cap Unnamed = {}
    BY DEF Cached, Remote, Unnamed
  <1>1. CASE Hit(t)
    <2>1. job[t].todo # <<>>
      BY <1>0, <1>1, DoesItem DEF Hit
    <2>2. \E verdict : Used(t, verdict)
      BY <1>1 DEF Hit
    <2>. QED
      BY <1>1, <2>1, <2>2, UsedOK, LookedOK DEF Hit
  <1>2. CASE Miss(t)
    <2>1. job[t].todo # <<>> /\ Now(t).ind.kind \in Kinds
      BY <1>0, <1>2, DoesItem DEF Miss
    <2>2. job' = [job EXCEPT ![t] = [job[t] EXCEPT !.pc = "ask", !.answer = job[t].answer]]
      BY <1>2 DEF Miss, JobsOK, JobOK
    <2>. QED
      BY <1>2, <2>1, <2>2, GotoOK, LookedOK DEF Miss
  <1>3. CASE Put(t)
    <2>1. job[t].todo # <<>> /\ Now(t).ind.kind \in Kinds
      BY <1>3, AsksKinds DEF Put
    <2>2. EntryOK(Entry(Now(t).by, Now(t).ind, job[t].answer))
      BY <2>1, EntryIsOK
    <2>3. StoreOK(store') /\ Len(store') <= MaxSize
      BY <1>3, <2>2, StoredOK DEF Put
    <2>4. JobsOK(job')
      BY <1>3, <2>1, UsedOK DEF Put
    <2>. QED
      BY <1>3, <2>3, <2>4 DEF Put
  <1>4. CASE Answered(t) \/ Unanswered(t)
    <2>1. job[t].todo # <<>> /\ Now(t).ind.kind \in Kinds
      BY <1>4, AsksKinds DEF Answered, Unanswered
    <2>2. PICK answer : job' = [job EXCEPT ![t] = [job[t] EXCEPT !.pc = "put", !.answer = answer]]
      BY <1>4 DEF Answered, Unanswered
    <2>3. JobsOK(job')
      BY <2>1, <2>2, GotoOK
    <2>4. spent' \in [Limited -> 0..Quota]
      BY <1>4, SpentOK DEF Answered, Unanswered, Counted
    <2>. QED
      BY <1>4, <2>3, <2>4 DEF Answered, Unanswered
  <1>5. CASE Raised(t)
    <2>1. job[t].todo # <<>>
      BY <1>5, AsksKinds DEF Raised
    <2>2. JobsOK(job')
      BY <1>5, <2>1, UsedOK DEF Raised
    <2>3. spent' \in [Limited -> 0..Quota]
      BY <1>5, SpentOK DEF Raised, Counted
    <2>. QED
      BY <1>5, <2>2, <2>3 DEF Raised
  <1>. QED
    BY <1>1, <1>2, <1>3, <1>4, <1>5

LEMMA OtherStep ==
    ASSUME IntelInv, NEW t \in Threads,
           \/ Resolve(t) \/ AgeKnown(t) \/ AskAge(t) \/ AgeAnswered(t) \/ AgeUnanswered(t)
           \/ Publish(t) \/ Collect(t) \/ End(t)
    PROVE  IntelInv'
  <1>. USE DEF IntelInv
  <1>0. JobOK(job[t]) /\ OneEach(job[t].found)
    BY DEF JobsOK, JobOK
  <1>1. CASE Resolve(t)
    <2>1. job[t].todo # <<>>
      BY <1>1 DEF Resolve, Does
    <2>2. OneEach(Merged(job[t].found, {[name |-> "unresolvable_domain", weight |-> 15]}))
      BY <1>0, MergedOneEach DEF OneEach
    <2>3. \E found, actors : OneEach(found) /\ Done(t, found, actors)
      BY <1>0, <1>1, <2>2 DEF Resolve
    <2>. QED
      BY <1>1, <2>1, <2>3, DoneOK DEF Resolve
  <1>2. CASE AgeKnown(t) \/ AgeAnswered(t) \/ AgeUnanswered(t)
    <2>1. job[t].todo # <<>>
      BY <1>2, AsksKinds DEF AgeKnown, AgeAnswered, AgeUnanswered, KeepAge, Does
    <2>2. \E ind, facts : Done(t, Merged(job[t].found, AgeSignals(ind, facts)), job[t].actors)
      BY <1>2 DEF AgeKnown, AgeAnswered, AgeUnanswered, KeepAge
    <2>3. JobsOK(job')
      BY <1>0, <2>1, <2>2, DoneOK, MergedOneEach, AgeOneEach
    <2>. QED
      BY <1>2, <2>3 DEF AgeKnown, AgeAnswered, AgeUnanswered, KeepAge
  <1>3. CASE AskAge(t)
    <2>1. job[t].todo # <<>> /\ Now(t).ind.kind \in Kinds
      BY <1>3, DoesItem DEF AskAge, Unnamed
    <2>2. job' = [job EXCEPT ![t] = [job[t] EXCEPT !.pc = "age", !.answer = job[t].answer]]
      BY <1>0, <1>3 DEF AskAge, JobsOK, JobOK
    <2>. QED
      BY <1>3, <2>1, <2>2, GotoOK DEF AskAge
  <1>4. CASE Publish(t)
    <2>1. job[t].todo # <<>>
      BY <1>4 DEF Publish, Does
    <2>. QED
      BY <1>0, <1>4, <2>1, DoneOK DEF Publish
  <1>5. CASE Collect(t)
    <2>1. job[t].pc = "get" /\ Tail(job[t].todo) \in Seq(Items)
      BY <1>0, <1>5, TailOK DEF Collect, Does, JobOK
    <2>2. job' = [job EXCEPT ![t] = [job[t] EXCEPT !.todo = Tail(job[t].todo), !.notes = lastNotes]]
      BY <1>5 DEF Collect
    <2>. QED
      BY <1>5, <2>1, <2>2, TodoOK DEF Collect
  <1>6. CASE End(t)
    BY <1>6, IdleOK, JobsChange DEF End
  <1>. QED
    BY <1>1, <1>2, <1>3, <1>4, <1>5, <1>6

LEMMA UploadStep ==
    ASSUME IntelInv, NEW t \in Threads,
           Begin(t) \/ BeginUpload(t) \/ Prefetch(t) \/ Batch(t) \/ Keep(t) \/ KeepNone(t)
    PROVE  IntelInv'
  <1>. USE DEF IntelInv
  <1>0. JobOK(job[t])
    BY DEF JobsOK
  <1>1. CASE Begin(t)
    <2>1. PICK alert \in site.alerts :
             job' = [job EXCEPT ![t] = [Idle EXCEPT !.pc = "get", !.todo = Work(alert)]]
      BY <1>1 DEF Begin
    <2>. QED
      BY <1>1, <2>1, WorkType, BeginOK DEF Begin
  <1>2. CASE BeginUpload(t)
    <2>1. PICK alert \in site.alerts :
             job' = [job EXCEPT ![t] = [Idle EXCEPT !.pc = "get",
                       !.todo = By("prefetch", alert.ips) \o <<Item("batch", None)>>]]
      BY <1>2 DEF BeginUpload
    <2>2. alert.ips \in Seq(Indicators)
      <3>1. alert.ips \in Seq(Indicator("ip")) /\ Indicator("ip") \subseteq Indicators
        BY IntelAssumption DEF Indicator, Indicators, Kinds
      <3>. QED
        BY <3>1, SeqMonotonic
    <2>3. By("prefetch", alert.ips) \in Seq(Items) /\ <<Item("batch", None)>> \in Seq(Items)
      <3>1. Item("batch", None) \in Items
        BY ItemFacts DEF Unnamed
      <3>2. "prefetch" \in Naming
        BY DEF Naming
      <3>. QED
        BY <2>2, <3>1, <3>2, ByType
    <2>4. By("prefetch", alert.ips) \o <<Item("batch", None)>> \in Seq(Items)
      BY <2>3, ConcatProperties
    <2>. QED
      BY <1>2, <2>1, <2>4, BeginOK DEF BeginUpload
  <1>3. CASE Prefetch(t)
    <2>1. Head(job[t].todo) \in Items /\ Tail(job[t].todo) \in Seq(Items)
      BY <1>0, <1>3, TailOK DEF Prefetch, Does, JobOK
    <2>2. Now(t).ind \in Indicators
      BY <1>3, <2>1, ItemFacts DEF Prefetch, Does, Now, Unnamed
    <2>3. Append(Tail(job[t].todo), Item("keep", Now(t).ind)) \in Seq(Items)
      BY <2>1, <2>2, ItemFacts, AppendProperties DEF Naming
    <2>4. PICK todo \in Seq(Items) : job' = [job EXCEPT ![t].todo = todo]
      BY <1>3, <2>1, <2>3 DEF Prefetch
    <2>5. job' = [job EXCEPT ![t] = [job[t] EXCEPT !.todo = todo, !.notes = job[t].notes]]
      BY <1>0, <2>4 DEF JobsOK, JobOK
    <2>6. job[t].pc = "get"
      BY <1>3 DEF Prefetch, Does
    <2>7. JobsOK(job')
      BY <2>5, <2>6, TodoOK
    <2>. QED
      BY <1>3, <2>7, LookedOK DEF Prefetch
  <1>4. CASE Batch(t)
    <2>1. Tail(job[t].todo) \in Seq(Items) /\ <<>> \in Seq(Items)
      BY <1>0, <1>4, TailOK, EmptySeq DEF Batch, Does, JobOK
    <2>2. PICK todo \in Seq(Items) : job' = [job EXCEPT ![t].todo = todo]
      BY <1>4, <2>1 DEF Batch
    <2>3. job' = [job EXCEPT ![t] = [job[t] EXCEPT !.todo = todo, !.notes = job[t].notes]]
      BY <1>0, <2>2 DEF JobsOK, JobOK
    <2>. QED
      BY <1>4, <2>3, TodoOK DEF Batch, Does
  <1>5. CASE Keep(t) \/ KeepNone(t)
    <2>1. PICK verdict : KeepAs(t, verdict)
      BY <1>5 DEF Keep, KeepNone
    <2>2. Now(t).ind.kind \in Kinds
      BY <2>1, DoesItem DEF KeepAs, Unnamed
    <2>3. StoreOK(store') /\ Len(store') <= MaxSize
      BY <2>1, <2>2, EntryIsOK, StoredOK DEF KeepAs
    <2>4. Tail(job[t].todo) \in Seq(Items)
      BY <1>0, <2>1, TailOK DEF KeepAs, Does, JobOK
    <2>5. job' = [job EXCEPT ![t] = [job[t] EXCEPT !.todo = Tail(job[t].todo), !.notes = job[t].notes]]
      BY <1>0, <2>1 DEF KeepAs, JobsOK, JobOK
    <2>6. job[t].pc = "get"
      BY <2>1 DEF KeepAs, Does
    <2>7. JobsOK(job')
      BY <2>4, <2>5, <2>6, TodoOK
    <2>. QED
      BY <2>1, <2>3, <2>7 DEF KeepAs
  <1>. QED
    BY <1>1, <1>2, <1>3, <1>4, <1>5

LEMMA IntelStep == IntelInv /\ [Next]_vars => IntelInv'
  <1>. SUFFICES ASSUME IntelInv, [Next]_vars PROVE IntelInv'
    OBVIOUS
  <1>1. ASSUME NEW t \in Threads, Step(t) \/ Begin(t) \/ BeginUpload(t) PROVE IntelInv'
    BY <1>1, LookupStep, OtherStep, UploadStep DEF Step
  <1>2. CASE FeedRow \/ FeedCommit \/ FeedFails \/ FeedWakes
    BY <1>2 DEF FeedRow, FeedCommit, FeedFails, FeedWakes, IntelInv
  <1>3. CASE Tick
    <2>1. StoreOK(store') /\ Len(store') <= MaxSize
      BY <1>3, AgedOK DEF Tick, IntelInv
    <2>2. spent' \in [Limited -> 0..Quota]
      <3>1. 0 \in 0..Quota
        BY IntelAssumption
      <3>2. spent' = [spent EXCEPT !["virustotal"] = 0]
        BY <1>3 DEF Tick
      <3>. QED
        BY <3>1, <3>2 DEF IntelInv
    <2>. QED
      BY <1>3, <2>1, <2>2 DEF Tick, IntelInv
  <1>4. CASE Midnight
    <2>1. spent' \in [Limited -> 0..Quota]
      <3>1. 0 \in 0..Quota
        BY IntelAssumption
      <3>2. spent' = [spent EXCEPT !["abuseipdb"] = 0]
        BY <1>4 DEF Midnight
      <3>. QED
        BY <3>1, <3>2 DEF IntelInv
    <2>. QED
      BY <1>4, <2>1 DEF Midnight, IntelInv
  <1>5. CASE Restart
    <2>1. StoreOK(<<>>) /\ Len(<<>>) <= MaxSize
      BY IntelAssumption, EmptySeq DEF StoreOK, Distinct
    <2>. QED
      BY <1>5, <2>1, IdleOK, IntelAssumption DEF Restart, IntelInv, JobsOK
  <1>6. CASE UNCHANGED vars
    BY <1>6 DEF vars, IntelInv
  <1>. QED
    BY <1>1, <1>2, <1>3, <1>4, <1>5, <1>6 DEF Next

(* The cache holds one entry for a provider and indicator and no more than *)
(* its limit whatever is asked at once; an enrichment has one signal of a  *)
(* name; a limited provider is not asked beyond its quota.                 *)
(* (ThreatIntelCache under its lock; enrich; the providers' counters)      *)
THEOREM IntelTypeCorrect == Spec => []TypeOK
  <1>1. IntelInv /\ FeedsOK => TypeOK
    BY DEF IntelInv, FeedsOK, FeedOK, TypeOK, StoreOK, EntryOK, Distinct, JobsOK, JobOK, OneEach
  <1>. QED
    BY <1>1, IntelInit, IntelStep, FeedsOKInit, FeedsOKStep, PTL DEF Spec
=============================================================================
