-------------------------- MODULE EnrichmentProofs --------------------------
(***************************************************************************)
(* Theorems about the enrichments that run at once and the window of       *)
(* recent alerts, for any alerts, times, scores, threads and limits.       *)
(***************************************************************************)
EXTENDS Enrichment, SequenceTheorems, FiniteSetTheorems, WellFoundedInduction, TLAPS

-----------------------------------------------------------------------------
(* Induction over the positions of a sequence, from the least element of a *)
(* set of numbers.                                                         *)

LEMMA LeastNat ==
    ASSUME NEW T \in SUBSET Nat, T # {}
    PROVE  \E n \in T : \A m \in T : n <= m
  <1>. DEFINE R == OpToRel(<, Nat)
  <1>1. IsWellFoundedOn(R, Nat)
    BY NatLessThanWellFounded
  <1>2. \A a, b \in Nat : a < b => <<a, b>> \in R
    BY DEF OpToRel
  <1>. HIDE DEF R
  <1>3. PICK x \in T : \A y \in T : ~ (<<y, x>> \in R)
    BY <1>1, WFMin
  <1>4. ASSUME NEW y \in T PROVE x <= y
    <2>1. ~(y < x)
      BY <1>2, <1>3
    <2>. QED
      BY <2>1
  <1>. QED
    BY <1>4

LEMMA UpTo ==
    ASSUME NEW n \in Nat, NEW S, 0 \in S, \A k \in 0..(n - 1) : k \in S => k + 1 \in S
    PROVE  \A k \in 0..n : k \in S
  <1>. DEFINE Out == {k \in 0..n : k \notin S}
  <1>. SUFFICES ASSUME Out # {} PROVE FALSE
    OBVIOUS
  <1>1. Out \in SUBSET Nat
    OBVIOUS
  <1>2. PICK m \in Out : \A k \in Out : m <= k
    BY <1>1, LeastNat
  <1>3. m \in 0..n /\ m \notin S /\ m # 0
    BY <1>2
  <1>4. m - 1 \in 0..(n - 1)
    BY <1>3
  <1>5. m - 1 \in S
    <2>1. m - 1 \notin Out
      BY <1>2, <1>3
    <2>. QED
      BY <2>1, <1>4
  <1>6. (m - 1) + 1 \in S
    BY <1>4, <1>5
  <1>. QED
    BY <1>3, <1>6

-----------------------------------------------------------------------------
(* The elements of a sequence that are in a set.                           *)

(* w[n] are those among the first n elements of s.                         *)
Selecting(s, those, n, w) ==
    w = [i \in 0..n |-> IF i = 0 THEN <<>>
                        ELSE IF s[i] \in those THEN Append(w[i - 1], s[i]) ELSE w[i - 1]]

LEMMA SelectingExists ==
    ASSUME NEW S, NEW s \in Seq(S), NEW those
    PROVE  \E w \in [0..Len(s) -> Seq(S)] : Selecting(s, those, Len(s), w)
  <1>. DEFINE N == Len(s)
              Good == {n \in 0..N : \E w \in [0..n -> Seq(S)] : Selecting(s, those, n, w)}
  <1>0. N \in Nat /\ \A i \in 1..N : s[i] \in S
    BY ElementOfSeq
  <1>1. 0 \in Good
    <2>. DEFINE w == [i \in 0..0 |-> <<>>]
    <2>1. w \in [0..0 -> Seq(S)] /\ Selecting(s, those, 0, w)
      <3>1. w \in [0..0 -> Seq(S)] /\ w[0] = <<>> /\ 0..0 = {0}
        OBVIOUS
      <3>. QED
        BY <3>1 DEF Selecting
    <2>. HIDE DEF w
    <2>. QED
      BY <2>1, <1>0
  <1>2. ASSUME NEW n \in 0..(N - 1), n \in Good PROVE n + 1 \in Good
    <2>0. n \in Nat /\ n + 1 \in 1..N
      BY <1>0
    <2>1. PICK w \in [0..n -> Seq(S)] : Selecting(s, those, n, w)
      BY <1>2
    <2>. DEFINE last == IF s[n + 1] \in those THEN Append(w[n], s[n + 1]) ELSE w[n]
                v == [i \in 0..(n + 1) |-> IF i = n + 1 THEN last ELSE w[i]]
    <2>2. last \in Seq(S)
      BY <1>0, <2>0, AppendProperties
    <2>3. v \in [0..(n + 1) -> Seq(S)]
      <3>. HIDE DEF last
      <3>. QED
        BY <2>0, <2>2
    <2>4. ASSUME NEW i \in 0..(n + 1)
          PROVE  v[i] = IF i = 0 THEN <<>>
                        ELSE IF s[i] \in those THEN Append(v[i - 1], s[i]) ELSE v[i - 1]
      <3>1. CASE i = n + 1
        <4>1. i # 0 /\ i - 1 = n /\ n \in 0..(n + 1) /\ n # n + 1
          BY <2>0, <3>1
        <4>2. v[i - 1] = w[n] /\ v[i] = last
          BY <3>1, <4>1
        <4>. QED
          BY <3>1, <4>1, <4>2
      <3>2. CASE i \in 0..n
        <4>1. w[i] = IF i = 0 THEN <<>>
                     ELSE IF s[i] \in those THEN Append(w[i - 1], s[i]) ELSE w[i - 1]
          BY <3>2, <2>1 DEF Selecting
        <4>2. v[i] = w[i] /\ (i # 0 => v[i - 1] = w[i - 1])
          BY <2>0, <3>2
        <4>. QED
          BY <4>1, <4>2
      <3>. QED
        BY <2>0, <3>1, <3>2
    <2>5. Selecting(s, those, n + 1, v)
      <3>. HIDE DEF v
      <3>. QED
        BY <2>3, <2>4 DEF Selecting
    <2>. HIDE DEF v
    <2>. QED
      BY <2>0, <2>3, <2>5
  <1>3. N \in Good
    <2>. HIDE DEF Good
    <2>1. \A n \in 0..N : n \in Good
      BY <1>0, <1>1, <1>2, UpTo
    <2>. QED
      BY <2>1, <1>0
  <1>. QED
    BY <1>3

(* Where is the last value of such a function.                             *)
Chosen(s, those, w) ==
    /\ Selecting(s, those, Len(s), w)
    /\ Where(s, those) = w[Len(s)]

LEMMA WhereChosen ==
    ASSUME NEW S, NEW s \in Seq(S), NEW those
    PROVE  \E w : Chosen(s, those, w)
  <1>1. PICK w \in [0..Len(s) -> Seq(S)] : Selecting(s, those, Len(s), w)
    BY SelectingExists
  <1>. QED
    BY <1>1 DEF Where, Folded, Selecting, Chosen

Steps(s, those, N, w) ==
    /\ w[0] = <<>>
    /\ \A i \in 1..N : w[i] = IF s[i] \in those THEN Append(w[i - 1], s[i]) ELSE w[i - 1]

LEMMA SelectedSteps ==
    ASSUME NEW s, NEW those, NEW N \in Nat, NEW w, Selecting(s, those, N, w)
    PROVE  Steps(s, those, N, w)
  <1>2. w = [i \in 0..N |-> IF i = 0 THEN <<>>
                        ELSE IF s[i] \in those THEN Append(w[i - 1], s[i]) ELSE w[i - 1]]
    BY DEF Selecting
  <1>3. 0 \in 0..N /\ \A i \in 1..N : i \in 0..N /\ i # 0
    OBVIOUS
  <1>4. w[0] = <<>>
    BY <1>2, <1>3
  <1>5. ASSUME NEW i \in 1..N
        PROVE  w[i] = IF s[i] \in those THEN Append(w[i - 1], s[i]) ELSE w[i - 1]
    <2>1. i \in 0..N /\ i # 0
      BY <1>3
    <2>. QED
      BY <1>2, <2>1
  <1>. QED
    BY <1>4, <1>5 DEF Steps

(* Both agree as long as the sequences and the sets do.                    *)
LEMMA SelectedSame ==
    ASSUME NEW s, NEW those, NEW M \in Nat, NEW w, Selecting(s, those, M, w),
           NEW r, NEW others, NEW N \in Nat, NEW v, Selecting(r, others, N, v),
           NEW n \in Nat, n <= M, n <= N,
           \A i \in 1..n : s[i] = r[i] /\ (s[i] \in those <=> r[i] \in others)
    PROVE  w[n] = v[n]
  <1>. DEFINE Good == {i \in 0..n : w[i] = v[i]}
  <1>1. Steps(s, those, M, w) /\ Steps(r, others, N, v)
    BY SelectedSteps
  <1>3. 0 \in Good
    BY <1>1 DEF Steps
  <1>4. ASSUME NEW i \in 0..(n - 1), i \in Good PROVE i + 1 \in Good
    <2>1. i + 1 \in 1..n /\ i + 1 \in 1..M /\ i + 1 \in 1..N /\ (i + 1) - 1 = i
      OBVIOUS
    <2>2. w[i + 1] = IF s[i + 1] \in those THEN Append(w[i], s[i + 1]) ELSE w[i]
      BY <1>1, <2>1 DEF Steps
    <2>3. v[i + 1] = IF r[i + 1] \in others THEN Append(v[i], r[i + 1]) ELSE v[i]
      BY <1>1, <2>1 DEF Steps
    <2>4. w[i] = v[i] /\ s[i + 1] = r[i + 1] /\ (s[i + 1] \in those <=> r[i + 1] \in others)
      BY <1>4, <2>1
    <2>5. w[i + 1] = v[i + 1]
      BY <2>2, <2>3, <2>4
    <2>. QED
      BY <2>1, <2>5
  <1>5. \A i \in 0..n : i \in Good
    <2>. HIDE DEF Good
    <2>. QED
      BY <1>3, <1>4, UpTo
  <1>. QED
    BY <1>5

LEMMA WhereSame ==
    ASSUME NEW S, NEW s \in Seq(S), NEW those, NEW others,
           \A i \in 1..Len(s) : s[i] \in those <=> s[i] \in others
    PROVE  Where(s, those) = Where(s, others)
  <1>. DEFINE r == s
  <1>1. PICK w : Chosen(s, those, w)
    BY WhereChosen
  <1>2. PICK v : Chosen(r, others, v)
    BY WhereChosen
  <1>3. r = s
    OBVIOUS
  <1>. HIDE DEF r
  <1>4. w[Len(s)] = v[Len(s)]
    <2>. DEFINE n == Len(s)
    <2>1. n \in Nat /\ n <= n /\ \A i \in 1..n : s[i] = r[i] /\ (s[i] \in those <=> r[i] \in others)
      BY <1>3
    <2>2. Selecting(s, those, n, w) /\ Selecting(r, others, n, v)
      BY <1>1, <1>2, <1>3 DEF Chosen
    <2>. HIDE DEF n
    <2>3. w[n] = v[n]
      BY <2>1, <2>2, SelectedSame
    <2>. QED
      BY <2>3 DEF n
  <1>. QED
    BY <1>1, <1>2, <1>3, <1>4 DEF Chosen

LEMMA WhereEmpty == ASSUME NEW those PROVE Where(<<>>, those) = <<>>
  <1>. DEFINE s == <<>>
  <1>1. s \in Seq({}) /\ Len(s) = 0 /\ Len(s) \in Nat
    BY EmptySeq
  <1>. HIDE DEF s
  <1>2. PICK w : Chosen(s, those, w)
    BY <1>1, WhereChosen
  <1>3. Selecting(s, those, Len(s), w) /\ Where(s, those) = w[0]
    BY <1>1, <1>2 DEF Chosen
  <1>4. Steps(s, those, Len(s), w)
    BY <1>1, <1>3, SelectedSteps
  <1>. QED
    BY <1>3, <1>4 DEF s, Steps

LEMMA WhereAppend ==
    ASSUME NEW S, NEW s \in Seq(S), NEW e \in S, NEW those
    PROVE  Where(Append(s, e), those)
             = IF e \in those THEN Append(Where(s, those), e) ELSE Where(s, those)
  <1>. DEFINE r == Append(s, e)
              n == Len(s)
  <1>1. /\ r \in Seq(S) /\ Len(r) = n + 1 /\ n \in Nat
        /\ r[n + 1] = e /\ \A i \in 1..n : s[i] = r[i]
    BY AppendProperties
  <1>. HIDE DEF r
  <1>2. PICK w : Chosen(s, those, w)
    BY WhereChosen
  <1>3. PICK v : Chosen(r, those, v)
    BY <1>1, WhereChosen
  <1>4. Selecting(s, those, Len(s), w) /\ Selecting(r, those, Len(r), v)
    BY <1>2, <1>3 DEF Chosen
  <1>5. w[n] = v[n]
    <2>. DEFINE m == Len(r)
    <2>1. /\ n \in Nat /\ m \in Nat /\ n <= n /\ n <= m
          /\ \A i \in 1..n : s[i] = r[i] /\ (s[i] \in those <=> r[i] \in those)
          /\ Selecting(s, those, n, w) /\ Selecting(r, those, m, v)
      BY <1>1, <1>4
    <2>. HIDE DEF n, m
    <2>. QED
      BY <2>1, SelectedSame
  <1>6. v[n + 1] = IF r[n + 1] \in those THEN Append(v[(n + 1) - 1], r[n + 1]) ELSE v[(n + 1) - 1]
    <2>1. Steps(r, those, Len(r), v)
      BY <1>1, <1>4, SelectedSteps
    <2>. QED
      BY <1>1, <2>1 DEF Steps
  <1>7. (n + 1) - 1 = n
    BY <1>1
  <1>8. v[n + 1] = IF e \in those THEN Append(w[n], e) ELSE w[n]
    BY <1>1, <1>5, <1>6, <1>7
  <1>. QED
    BY <1>1, <1>2, <1>3, <1>8 DEF Chosen, r

(* What holds of the empty sequence and is kept by appending holds of all. *)
LEMMA Growing ==
    ASSUME NEW S, NEW s \in Seq(S), NEW P, <<>> \in P,
           \A q \in Seq(S), e \in S : q \in P => Append(q, e) \in P
    PROVE  s \in P
  <1>. DEFINE N == Len(s)
              Good == {n \in 0..N : SubSeq(s, 1, n) \in P}
  <1>0. N \in Nat /\ \A i \in 1..N : s[i] \in S
    BY ElementOfSeq
  <1>1. 0 \in Good
    <2>1. SubSeq(s, 1, 0) = <<>>
      BY <1>0, SubSeqProperties
    <2>2. 0 \in 0..N
      BY <1>0
    <2>. HIDE DEF N
    <2>. QED
      BY <2>1, <2>2
  <1>2. ASSUME NEW n \in 0..(N - 1), n \in Good PROVE n + 1 \in Good
    <2>1. n \in Nat /\ n + 1 \in 1..N
      BY <1>0
    <2>2. SubSeq(s, 1, n) \in Seq(S) /\ s[n + 1] \in S
      BY <1>0, <2>1, SubSeqProperties
    <2>3. SubSeq(s, 1, n + 1) = Append(SubSeq(s, 1, n), s[n + 1])
      BY <1>0, <2>1
    <2>4. SubSeq(s, 1, n) \in P
      BY <1>2
    <2>5. Append(SubSeq(s, 1, n), s[n + 1]) \in P
      BY <2>2, <2>4
    <2>6. n + 1 \in 0..N
      BY <2>1
    <2>. HIDE DEF N
    <2>. QED
      BY <2>3, <2>5, <2>6
  <1>3. \A n \in 0..N : n \in Good
    <2>. HIDE DEF Good
    <2>. QED
      BY <1>0, <1>1, <1>2, UpTo
  <1>4. SubSeq(s, 1, N) \in P /\ SubSeq(s, 1, N) = s
    <2>1. N \in Good
      BY <1>0, <1>3
    <2>. QED
      BY <1>0, <2>1
  <1>. QED
    BY <1>4

LEMMA WhereType ==
    ASSUME NEW S, NEW s \in Seq(S), NEW those
    PROVE  Where(s, those) \in Seq(S)
  <1>. DEFINE P == {q \in Seq(S) : Where(q, those) \in Seq(S)}
  <1>1. <<>> \in P
    BY WhereEmpty, EmptySeq
  <1>2. ASSUME NEW q \in Seq(S), NEW e \in S, q \in P PROVE Append(q, e) \in P
    <2>1. Where(Append(q, e), those) = IF e \in those THEN Append(Where(q, those), e) ELSE Where(q, those)
      BY WhereAppend
    <2>2. Append(q, e) \in Seq(S) /\ Where(q, those) \in Seq(S)
      BY <1>2, AppendProperties
    <2>3. Append(Where(q, those), e) \in Seq(S)
      BY <2>2, AppendProperties
    <2>. QED
      BY <2>1, <2>2, <2>3
  <1>. HIDE DEF P
  <1>3. s \in P
    BY <1>1, <1>2, Growing
  <1>. QED
    BY <1>3 DEF P

LEMMA WhereConcat ==
    ASSUME NEW S, NEW s \in Seq(S), NEW r \in Seq(S), NEW those
    PROVE  Where(s \o r, those) = Where(s, those) \o Where(r, those)
  <1>. DEFINE P == {q \in Seq(S) : Where(s \o q, those) = Where(s, those) \o Where(q, those)}
  <1>0. Where(s, those) \in Seq(S)
    BY WhereType
  <1>1. <<>> \in P
    <2>1. s \o <<>> = s /\ Where(s, those) \o <<>> = Where(s, those) /\ <<>> \in Seq(S)
      BY <1>0, EmptySeq
    <2>. QED
      BY <2>1, WhereEmpty
  <1>2. ASSUME NEW q \in Seq(S), NEW e \in S, q \in P PROVE Append(q, e) \in P
    <2>1. s \o q \in Seq(S) /\ s \o Append(q, e) = Append(s \o q, e) /\ Append(q, e) \in Seq(S)
      BY ConcatProperties, AppendProperties
    <2>2. Where(q, those) \in Seq(S)
      BY WhereType
    <2>3. Where(s, those) \o Append(Where(q, those), e) = Append(Where(s, those) \o Where(q, those), e)
      BY <1>0, <2>2
    <2>4. Where(Append(s \o q, e), those)
            = IF e \in those THEN Append(Where(s \o q, those), e) ELSE Where(s \o q, those)
      BY <2>1, WhereAppend
    <2>5. Where(Append(q, e), those)
            = IF e \in those THEN Append(Where(q, those), e) ELSE Where(q, those)
      BY WhereAppend
    <2>6. Where(s \o q, those) = Where(s, those) \o Where(q, those)
      BY <1>2
    <2>. QED
      BY <2>1, <2>3, <2>4, <2>5, <2>6
  <1>. HIDE DEF P
  <1>3. r \in P
    BY <1>1, <1>2, Growing
  <1>. QED
    BY <1>3 DEF P

LEMMA WhereBoth ==
    ASSUME NEW S, NEW s \in Seq(S), NEW those, NEW others
    PROVE  Where(Where(s, those), others) = Where(s, those \cap others)
  <1>. DEFINE P == {q \in Seq(S) : Where(Where(q, those), others) = Where(q, those \cap others)}
  <1>1. <<>> \in P
    BY WhereEmpty, EmptySeq
  <1>2. ASSUME NEW q \in Seq(S), NEW e \in S, q \in P PROVE Append(q, e) \in P
    <2>1. Where(q, those) \in Seq(S) /\ Append(q, e) \in Seq(S)
      BY WhereType, AppendProperties
    <2>2. Where(Append(q, e), those) = IF e \in those THEN Append(Where(q, those), e) ELSE Where(q, those)
      BY WhereAppend
    <2>3. Where(Append(q, e), those \cap others)
            = IF e \in those \cap others THEN Append(Where(q, those \cap others), e)
                                         ELSE Where(q, those \cap others)
      BY WhereAppend
    <2>4. Where(Append(Where(q, those), e), others)
            = IF e \in others THEN Append(Where(Where(q, those), others), e)
                              ELSE Where(Where(q, those), others)
      BY <2>1, WhereAppend
    <2>5. Where(Where(q, those), others) = Where(q, those \cap others)
      BY <1>2
    <2>6. Where(Where(Append(q, e), those), others) = Where(Append(q, e), those \cap others)
      <3>1. CASE e \in those
        <4>1. Where(Append(q, e), those) = Append(Where(q, those), e) /\ (e \in those \cap others <=> e \in others)
          BY <3>1, <2>2
        <4>. QED
          BY <4>1, <2>3, <2>4, <2>5
      <3>2. CASE e \notin those
        BY <3>2, <2>2, <2>3, <2>5
      <3>. QED
        BY <3>1, <3>2
    <2>. QED
      BY <2>1, <2>6
  <1>. HIDE DEF P
  <1>3. s \in P
    BY <1>1, <1>2, Growing
  <1>. QED
    BY <1>3 DEF P

LEMMA WhereElements ==
    ASSUME NEW S, NEW s \in Seq(S), NEW those
    PROVE  \A i \in 1..Len(Where(s, those)) :
             /\ Where(s, those)[i] \in those
             /\ \E j \in 1..Len(s) : s[j] = Where(s, those)[i]
  <1>. DEFINE Found(q, e) == e \in those /\ \E j \in 1..Len(q) : q[j] = e
              P == {q \in Seq(S) : \A i \in 1..Len(Where(q, those)) : Found(q, Where(q, those)[i])}
  <1>1. <<>> \in P
    BY WhereEmpty, EmptySeq
  <1>2. ASSUME NEW q \in Seq(S), NEW e \in S, q \in P PROVE Append(q, e) \in P
    <2>. DEFINE w == Where(q, those)
                v == Where(Append(q, e), those)
    <2>1. w \in Seq(S) /\ v = IF e \in those THEN Append(w, e) ELSE w
      BY WhereType, WhereAppend
    <2>2. \A i \in 1..Len(w) : Found(q, w[i])
      BY <1>2
    <2>3. /\ Append(q, e) \in Seq(S) /\ Len(Append(q, e)) = Len(q) + 1
          /\ Append(q, e)[Len(q) + 1] = e /\ \A i \in 1..Len(q) : Append(q, e)[i] = q[i]
      BY AppendProperties
    <2>. HIDE DEF w, v
    <2>4. ASSUME NEW x, Found(q, x) PROVE Found(Append(q, e), x)
      <3>1. PICK j \in 1..Len(q) : q[j] = x
        BY <2>4
      <3>2. j \in 1..(Len(q) + 1) /\ Append(q, e)[j] = x
        BY <2>3, <3>1
      <3>. QED
        BY <2>3, <2>4, <3>2
    <2>5. ASSUME NEW i \in 1..Len(v) PROVE Found(Append(q, e), v[i])
      <3>1. CASE v = w
        <4>. HIDE DEF Found
        <4>. QED
          BY <2>2, <2>4, <3>1
      <3>2. CASE e \in those /\ v = Append(w, e)
        <4>1. (i \in 1..Len(w) /\ v[i] = w[i]) \/ v[i] = e
          BY <2>1, <3>2, AppendProperties
        <4>2. Found(Append(q, e), e)
          <5>1. Len(q) + 1 \in 1..Len(Append(q, e))
            BY <2>3
          <5>. QED
            BY <2>3, <3>2, <5>1
        <4>. HIDE DEF Found
        <4>. QED
          BY <2>2, <2>4, <4>1, <4>2
      <3>. QED
        BY <2>1, <3>1, <3>2
    <2>. HIDE DEF Found
    <2>. QED
      BY <2>3, <2>5 DEF v
  <1>. HIDE DEF P
  <1>3. s \in P
    BY <1>1, <1>2, Growing
  <1>. QED
    BY <1>3 DEF P

-----------------------------------------------------------------------------
(* The window.                                                             *)

Entries ==
    [key : AllKeys, at : Int, vector : {a.vector : a \in AllAlerts}, type : {a.type : a \in AllAlerts}]

(* No entry is older by more than the window than one that follows it.     *)
Ordered(s) == \A i, j \in 1..Len(s) : i < j => s[i].at >= s[j].at - Window

LEMMA OrderedConcat ==
    ASSUME NEW s \in Seq(Entries), NEW r \in Seq(Entries), Ordered(s), Ordered(r),
           \A i \in 1..Len(s), j \in 1..Len(r) : s[i].at >= r[j].at - Window
    PROVE  Ordered(s \o r)
  <1>. DEFINE m == Len(s)
              n == Len(r)
              c == s \o r
  <1>1. /\ Len(c) = m + n /\ m \in Nat /\ n \in Nat
        /\ \A i \in 1..m : c[i] = s[i]
        /\ \A i \in (m + 1)..(m + n) : c[i] = r[i - m]
    BY ConcatProperties
  <1>. HIDE DEF c
  <1>2. ASSUME NEW i \in 1..(m + n), NEW j \in 1..(m + n), i < j PROVE c[i].at >= c[j].at - Window
    <2>1. CASE j \in 1..m
      <3>1. i \in 1..m
        BY <1>1, <1>2, <2>1
      <3>. QED
        BY <1>1, <1>2, <2>1, <3>1 DEF Ordered
    <2>2. CASE i \in 1..m /\ j \in (m + 1)..(m + n)
      <3>1. j - m \in 1..n
        BY <1>1, <2>2
      <3>. QED
        BY <1>1, <2>2, <3>1
    <2>3. CASE i \in (m + 1)..(m + n)
      <3>1. j \in (m + 1)..(m + n) /\ i - m \in 1..n /\ j - m \in 1..n /\ i - m < j - m
        BY <1>1, <1>2, <2>3
      <3>2. r[i - m].at >= r[j - m].at - Window
        BY <3>1 DEF Ordered
      <3>. QED
        BY <1>1, <2>3, <3>1, <3>2
    <2>. QED
      BY <1>1, <2>1, <2>2, <2>3
  <1>. QED
    BY <1>1, <1>2 DEF Ordered, c

LEMMA OrderedWhere ==
    ASSUME NEW s \in Seq(Entries), NEW those, Ordered(s)
    PROVE  Ordered(Where(s, those))
  <1>. DEFINE P == {q \in Seq(Entries) : Ordered(q) => Ordered(Where(q, those))}
  <1>1. <<>> \in P
    BY WhereEmpty, EmptySeq
  <1>2. ASSUME NEW q \in Seq(Entries), NEW e \in Entries, q \in P PROVE Append(q, e) \in P
    <2>. DEFINE r == Append(q, e)
                w == Where(q, those)
                n == Len(q)
    <2>0. /\ r \in Seq(Entries) /\ Len(r) = n + 1 /\ n \in Nat
          /\ r[n + 1] = e /\ \A i \in 1..n : r[i] = q[i]
      BY AppendProperties
    <2>. HIDE DEF r
    <2>1. SUFFICES ASSUME Ordered(r) PROVE Ordered(Where(r, those))
      BY <2>0 DEF r
    <2>2. \A i \in 1..n : q[i].at >= e.at - Window
      <3>1. ASSUME NEW i \in 1..n PROVE r[i].at >= r[n + 1].at - Window
        <4>1. i \in 1..(n + 1) /\ n + 1 \in 1..(n + 1) /\ i < n + 1
          BY <2>0
        <4>. QED
          BY <2>0, <2>1, <4>1 DEF Ordered
      <3>. QED
        BY <2>0, <3>1
    <2>3. Ordered(q)
      <3>1. ASSUME NEW i \in 1..n, NEW j \in 1..n, i < j PROVE q[i].at >= q[j].at - Window
        <4>1. i \in 1..(n + 1) /\ j \in 1..(n + 1)
          BY <2>0
        <4>2. r[i].at >= r[j].at - Window
          BY <2>0, <2>1, <3>1, <4>1 DEF Ordered
        <4>. QED
          BY <2>0, <4>2
      <3>. QED
        BY <3>1 DEF Ordered
    <2>4. Ordered(w) /\ w \in Seq(Entries)
      BY <1>2, <2>3, WhereType
    <2>5. Where(r, those) = IF e \in those THEN Append(w, e) ELSE w
      BY WhereAppend DEF r
    <2>6. \A i \in 1..Len(w) : w[i].at >= e.at - Window
      BY <2>2, WhereElements
    <2>. HIDE DEF w
    <2>7. Ordered(Append(w, e))
      <3>1. /\ Len(Append(w, e)) = Len(w) + 1 /\ Len(w) \in Nat
            /\ Append(w, e)[Len(w) + 1] = e /\ \A i \in 1..Len(w) : Append(w, e)[i] = w[i]
        BY <2>4, AppendProperties
      <3>2. ASSUME NEW i \in 1..(Len(w) + 1), NEW j \in 1..(Len(w) + 1), i < j
            PROVE  Append(w, e)[i].at >= Append(w, e)[j].at - Window
        <4>1. i \in 1..Len(w)
          BY <3>1, <3>2
        <4>2. CASE j = Len(w) + 1
          BY <2>6, <3>1, <4>1, <4>2
        <4>3. CASE j \in 1..Len(w)
          BY <2>4, <3>1, <3>2, <4>1, <4>3 DEF Ordered
        <4>. QED
          BY <3>1, <4>2, <4>3
      <3>. QED
        BY <3>1, <3>2 DEF Ordered
    <2>. QED
      BY <2>4, <2>5, <2>7
  <1>. HIDE DEF P
  <1>3. s \in P
    BY <1>1, <1>2, Growing
  <1>. QED
    BY <1>3 DEF P

(* The sets Kept and OfKey select by do not depend on the sequence.        *)
Young(at) == {e \in Entries : e.at >= at - Window}

Under(k) == {e \in Entries : e.key = k}

LEMMA EntryOfSeq ==
    ASSUME NEW s \in Seq(Entries), NEW i \in 1..Len(s)
    PROVE  s[i] \in Range(s) /\ s[i] \in Entries
  <1>1. i \in DOMAIN s
    BY LenProperties
  <1>2. s[i] \in Range(s)
    BY <1>1 DEF Range
  <1>. QED
    BY <1>2, ElementOfSeq

LEMMA KeptIsYoung ==
    ASSUME NEW s \in Seq(Entries), NEW at
    PROVE  Kept(s, at) = Where(s, Young(at))
  <1>1. \A i \in 1..Len(s) : s[i] \in {e \in Range(s) : e.at >= at - Window} <=> s[i] \in Young(at)
    <2>1. ASSUME NEW i \in 1..Len(s)
          PROVE  /\ s[i] \in {e \in Range(s) : e.at >= at - Window} <=> s[i].at >= at - Window
                 /\ s[i] \in Young(at) <=> s[i].at >= at - Window
      <3>1. s[i] \in Range(s) /\ s[i] \in Entries
        BY EntryOfSeq
      <3>. QED
        BY <3>1 DEF Young
    <2>. QED
      BY <2>1
  <1>. QED
    BY <1>1, WhereSame DEF Kept

LEMMA OfKeyIsUnder ==
    ASSUME NEW s \in Seq(Entries), NEW k
    PROVE  OfKey(s, k) = Where(s, Under(k))
  <1>1. \A i \in 1..Len(s) : s[i] \in {e \in Range(s) : e.key = k} <=> s[i] \in Under(k)
    <2>1. ASSUME NEW i \in 1..Len(s)
          PROVE  /\ s[i] \in {e \in Range(s) : e.key = k} <=> s[i].key = k
                 /\ s[i] \in Under(k) <=> s[i].key = k
      <3>1. s[i] \in Range(s) /\ s[i] \in Entries
        BY EntryOfSeq
      <3>. QED
        BY <3>1 DEF Under
    <2>. QED
      BY <2>1
  <1>. QED
    BY <1>1, WhereSame DEF OfKey

(* Registering keeps the index and the list alike.                         *)
LEMMA IndexFollows ==
    ASSUME NEW s \in Seq(Entries), NEW new \in Seq(Entries), NEW at \in Int, NEW k \in AllKeys
    PROVE  /\ Kept(s, at) \o new \in Seq(Entries)
           /\ Kept(OfKey(s, k), at) \o OfKey(new, k) \in Seq(Entries)
           /\ OfKey(Kept(s, at) \o new, k) = Kept(OfKey(s, k), at) \o OfKey(new, k)
  <1>1. OfKey(s, k) = Where(s, Under(k)) /\ OfKey(new, k) = Where(new, Under(k))
    BY OfKeyIsUnder
  <1>2. OfKey(s, k) \in Seq(Entries) /\ OfKey(new, k) \in Seq(Entries)
    BY <1>1, WhereType
  <1>3. Kept(s, at) = Where(s, Young(at)) /\ Kept(OfKey(s, k), at) = Where(OfKey(s, k), Young(at))
    BY <1>2, KeptIsYoung
  <1>4. Kept(s, at) \in Seq(Entries) /\ Kept(OfKey(s, k), at) \in Seq(Entries)
    BY <1>2, <1>3, WhereType
  <1>5. /\ Kept(s, at) \o new \in Seq(Entries)
        /\ Kept(OfKey(s, k), at) \o OfKey(new, k) \in Seq(Entries)
    BY <1>2, <1>4, ConcatProperties
  <1>6. OfKey(Kept(s, at) \o new, k) = Where(Kept(s, at) \o new, Under(k))
    BY <1>5, OfKeyIsUnder
  <1>7. Where(Kept(s, at) \o new, Under(k)) = Where(Kept(s, at), Under(k)) \o Where(new, Under(k))
    <2>. DEFINE q == Kept(s, at)
                those == Under(k)
    <2>1. q \in Seq(Entries)
      BY <1>4
    <2>. HIDE DEF q, those
    <2>2. Where(q \o new, those) = Where(q, those) \o Where(new, those)
      BY <2>1, WhereConcat
    <2>. QED
      BY <2>2 DEF q, those
  <1>8. Where(Kept(s, at), Under(k)) = Where(s, Young(at) \cap Under(k))
    BY <1>3, WhereBoth
  <1>9. Kept(OfKey(s, k), at) = Where(s, Under(k) \cap Young(at))
    BY <1>1, <1>3, WhereBoth
  <1>10. Young(at) \cap Under(k) = Under(k) \cap Young(at)
    OBVIOUS
  <1>11. OfKey(Kept(s, at) \o new, k) = Kept(OfKey(s, k), at) \o OfKey(new, k)
    BY <1>1, <1>6, <1>7, <1>8, <1>9, <1>10
  <1>. QED
    BY <1>5, <1>11

LEMMA StaysOrdered ==
    ASSUME NEW s \in Seq(Entries), NEW new \in Seq(Entries), NEW at \in Int,
           Ordered(s), \A i \in 1..Len(new) : new[i].at = at
    PROVE  Ordered(Kept(s, at) \o new)
  <1>1. Kept(s, at) = Where(s, Young(at)) /\ Where(s, Young(at)) \in Seq(Entries)
    BY KeptIsYoung, WhereType
  <1>2. Ordered(Where(s, Young(at)))
    BY OrderedWhere
  <1>3. \A i \in 1..Len(Where(s, Young(at))) : Where(s, Young(at))[i].at >= at - Window
    BY WhereElements DEF Young
  <1>4. Ordered(new)
    BY EnrichmentAssumption DEF Ordered
  <1>5. \A i \in 1..Len(Where(s, Young(at))), j \in 1..Len(new) :
          Where(s, Young(at))[i].at >= new[j].at - Window
    BY <1>3
  <1>. QED
    BY <1>1, <1>2, <1>4, <1>5, OrderedConcat

-----------------------------------------------------------------------------
(* The inductive invariant: cases are rows with an id each, enrichments    *)
(* are somewhere in their work, the window is whole, and the rows of a     *)
(* pair with those that are about to be inserted are no more than the      *)
(* threads.                                                                *)

Working == {"history", "graph", "register", "scan", "case"}

AllScores == UNION {s.scores : s \in Scenes}

CaseRows ==
    [id : Nat, alert : AllAlerts, at : Int, score : AllScores, confirmed : BOOLEAN, linked : BOOLEAN]

CasesOK ==
    /\ cases \subseteq CaseRows /\ IsFiniteSet(cases)
    /\ \A c, d \in cases : c.id = d.id => c = d

IsWorking(j) ==
    /\ j.pc \in Working
    /\ DOMAIN j = {"pc", "alert", "at", "zoned", "case", "found"}
    /\ j.alert \in AllAlerts /\ j.at \in Int /\ OneEach(j.found)

IsReading(j) == j.pc = "read" /\ j = [pc |-> "read", alert |-> j.alert] /\ j.alert \in AllAlerts

IsWriting(j) ==
    /\ j.pc = "write" /\ j = [pc |-> "write", rows |-> j.rows]
    /\ \E a \in AllAlerts : j.rows \in [Pairs(a) -> [row : Nat, count : Nat]]

JobOK(j) == j = Idle \/ IsWorking(j) \/ IsReading(j) \/ IsWriting(j)

JobsOK ==
    /\ job = [t \in Threads |-> job[t]]
    /\ \A t \in Threads : JobOK(job[t]) /\ (job[t] # Idle => t \in scene.threads)

(* The threads that have found no row of a pair and will insert one.       *)
Inserting(p) ==
    {t \in Threads : job[t].pc = "write" /\ p \in DOMAIN job[t].rows /\ job[t].rows[p].row = 0}

RelsOK ==
    /\ rels \in [AllPairs -> Seq(Nat)]
    /\ \A p \in AllPairs : Len(rels[p]) + Cardinality(Inserting(p)) <= Cardinality(scene.threads)

WindowOK ==
    /\ entries \in Seq(Entries) /\ index \in [AllKeys -> Seq(Entries)]
    /\ \A k \in AllKeys : index[k] = OfKey(entries, k)
    /\ Ordered(entries)

EnrichInv == scene \in Scenes /\ CasesOK /\ JobsOK /\ RelsOK /\ WindowOK

-----------------------------------------------------------------------------
(* Constants.                                                              *)

LEMMA SceneFacts ==
    ASSUME scene \in Scenes
    PROVE  /\ scene.threads \subseteq Threads /\ scene.times \subseteq Int /\ scene.most \in Nat
           /\ scene.alerts \subseteq AllAlerts /\ scene.scores \subseteq AllScores
           /\ Cardinality(Threads) \in Nat /\ IsFiniteSet(Threads)
           /\ Cardinality(scene.threads) \in Nat /\ IsFiniteSet(scene.threads)
  <1>1. scene.threads \subseteq Threads /\ scene.times \subseteq Int /\ scene.most \in Nat /\ IsFiniteSet(Threads)
    BY EnrichmentAssumption
  <1>2. scene.alerts \subseteq AllAlerts /\ scene.scores \subseteq AllScores
    BY DEF AllAlerts, AllScores
  <1>3. Cardinality(Threads) \in Nat /\ IsFiniteSet(scene.threads)
    BY <1>1, FS_CardinalityType, FS_Subset
  <1>4. Cardinality(scene.threads) \in Nat
    BY <1>3, FS_CardinalityType
  <1>. QED
    BY <1>1, <1>2, <1>3, <1>4

LEMMA KeysFinite ==
    ASSUME NEW a \in AllAlerts
    PROVE  IsFiniteSet(Keys(a)) /\ Keys(a) \subseteq AllKeys
  <1>. DEFINE public == {i \in a.ips : i.place # "private"}
              addrs == {i.addr : i \in public}
              f == [i \in public |-> i.addr]
  <1>1. IsFiniteSet(a.ips)
    BY EnrichmentAssumption DEF AllAlerts
  <1>2. IsFiniteSet(public)
    BY <1>1, FS_Subset
  <1>3. f \in Surjection(public, addrs)
    BY DEF Surjection
  <1>4. IsFiniteSet(addrs)
    <2>. HIDE DEF f, public, addrs
    <2>. QED
      BY <1>2, <1>3, FS_Surjection
  <1>5. IsFiniteSet({a.user, a.host} \ {None})
    <2>1. IsFiniteSet({a.user} \cup {a.host})
      BY FS_Singleton, FS_Union
    <2>2. {a.user, a.host} \ {None} \in SUBSET ({a.user} \cup {a.host})
      OBVIOUS
    <2>. QED
      BY <2>1, <2>2, FS_Subset
  <1>6. Keys(a) = ({a.user, a.host} \ {None}) \cup addrs
    BY DEF Keys
  <1>7. IsFiniteSet(Keys(a))
    <2>. HIDE DEF addrs
    <2>. QED
      BY <1>4, <1>5, <1>6, FS_Union
  <1>. QED
    BY <1>7 DEF AllKeys

LEMMA SetToSeqOK ==
    ASSUME NEW E, IsFiniteSet(E)
    PROVE  /\ SetToSeq(E) \in Seq(E)
           /\ \A i \in 1..Len(SetToSeq(E)) : SetToSeq(E)[i] \in E
  <1>. DEFINE n == Cardinality(E)
  <1>1. n \in Nat /\ ExistsBijection(1..n, E)
    BY FS_CardinalityType
  <1>2. PICK f \in Bijection(1..n, E) : TRUE
    BY <1>1 DEF ExistsBijection
  <1>3. f \in [1..n -> E] /\ IsInjective(f)
    BY <1>2 DEF Bijection, Injection, IsInjective
  <1>4. SetToSeq(E) \in [1..n -> E]
    BY <1>3 DEF SetToSeq
  <1>5. SetToSeq(E) \in Seq(E)
    <2>. HIDE DEF n
    <2>. QED
      BY <1>1, <1>4
  <1>. QED
    BY <1>5, ElementOfSeq

LEMMA NewEntriesOK ==
    ASSUME NEW a \in AllAlerts, NEW at \in Int
    PROVE  LET new == SetToSeq({Entry(a, k, at) : k \in Keys(a)})
           IN  new \in Seq(Entries) /\ \A i \in 1..Len(new) : new[i].at = at
  <1>. DEFINE K == Keys(a)
              E == {Entry(a, k, at) : k \in K}
              f == [k \in K |-> Entry(a, k, at)]
              new == SetToSeq(E)
  <1>1. IsFiniteSet(K) /\ K \subseteq AllKeys
    BY KeysFinite
  <1>2. f \in Surjection(K, E)
    BY DEF Surjection
  <1>3. IsFiniteSet(E)
    <2>. HIDE DEF f, K, E
    <2>. QED
      BY <1>1, <1>2, FS_Surjection
  <1>4. E \subseteq Entries /\ \A e \in E : e.at = at
    BY <1>1 DEF Entries, Entry
  <1>5. new \in Seq(E) /\ \A i \in 1..Len(new) : new[i] \in E
    <2>. HIDE DEF E
    <2>. QED
      BY <1>3, SetToSeqOK
  <1>6. new \in Seq(Entries)
    <2>. HIDE DEF E, new
    <2>. QED
      BY <1>4, <1>5
  <1>. QED
    BY <1>4, <1>5, <1>6

-----------------------------------------------------------------------------
(* Steps.                                                                  *)

LEMMA IdleFacts == Idle.pc = "idle" /\ JobOK(Idle) /\ "case" \notin DOMAIN Idle
  BY DEF Idle, JobOK

LEMMA WhichJob ==
    ASSUME NEW j, JobOK(j)
    PROVE  /\ j.pc \in Working => IsWorking(j)
           /\ j.pc = "read" => IsReading(j)
           /\ j.pc = "write" => IsWriting(j)
           /\ j.pc # "idle" => j # Idle
  BY DEF JobOK, IsWorking, IsReading, IsWriting, Working, Idle

LEMMA JobsChange ==
    ASSUME JobsOK, NEW t \in Threads, NEW j, JobOK(j), j # Idle => t \in scene.threads,
           job' = [job EXCEPT ![t] = j], scene' = scene
    PROVE  JobsOK' /\ job'[t] = j /\ \A u \in Threads \ {t} : job'[u] = job[u]
  <1>1. job = [u \in Threads |-> job[u]] /\ \A u \in Threads : JobOK(job[u]) /\ (job[u] # Idle => u \in scene.threads)
    BY DEF JobsOK
  <1>2. job' = [u \in Threads |-> IF u = t THEN j ELSE job[u]]
    BY <1>1
  <1>3. \A u \in Threads : job'[u] = IF u = t THEN j ELSE job[u]
    BY <1>2
  <1>4. job' = [u \in Threads |-> job'[u]]
    BY <1>2
  <1>5. \A u \in Threads : JobOK(job'[u]) /\ (job'[u] # Idle => u \in scene'.threads)
    BY <1>1, <1>3
  <1>6. JobsOK'
    BY <1>4, <1>5 DEF JobsOK
  <1>. QED
    BY <1>3, <1>6

(* No row is inserted, and no thread comes to insert one.                  *)
LEMMA RelsStay ==
    ASSUME RelsOK, scene \in Scenes, rels' = rels, scene' = scene,
           \A u \in Threads : job'[u] = job[u] \/ job'[u].pc # "write"
    PROVE  RelsOK'
  <1>1. ASSUME NEW p \in AllPairs
        PROVE  Len(rels'[p]) + Cardinality(Inserting(p)') <= Cardinality(scene'.threads)
    <2>1. Inserting(p)' \subseteq Inserting(p) /\ Inserting(p) \subseteq Threads
      BY DEF Inserting
    <2>2. IsFiniteSet(Inserting(p)) /\ IsFiniteSet(Inserting(p)')
      BY <2>1, SceneFacts, FS_Subset
    <2>3. Cardinality(Inserting(p)') <= Cardinality(Inserting(p))
      BY <2>1, <2>2, FS_Subset
    <2>4. /\ Cardinality(Inserting(p)') \in Nat /\ Cardinality(Inserting(p)) \in Nat
          /\ Cardinality(scene.threads) \in Nat /\ Len(rels[p]) \in Nat
      BY <2>2, FS_CardinalityType, SceneFacts DEF RelsOK
    <2>5. Len(rels[p]) + Cardinality(Inserting(p)) <= Cardinality(scene.threads)
      BY DEF RelsOK
    <2>. QED
      BY <2>3, <2>4, <2>5
  <1>. QED
    BY <1>1 DEF RelsOK, AllPairs, AllAlerts

LEMMA WindowStays ==
    ASSUME WindowOK, UNCHANGED <<entries, index>>
    PROVE  WindowOK'
  <1>1. Ordered(entries)'
    BY DEF WindowOK, Ordered
  <1>2. entries' \in Seq(Entries) /\ index' \in [AllKeys -> Seq(Entries)]
    BY DEF WindowOK
  <1>3. \A k \in AllKeys : index'[k] = OfKey(entries', k)
    BY DEF WindowOK
  <1>. QED
    BY <1>1, <1>2, <1>3 DEF WindowOK

LEMMA CasesStay == ASSUME CasesOK, UNCHANGED cases PROVE CasesOK'
  BY DEF CasesOK

(* An enrichment that goes on to something other than writing.             *)
LEMMA OneJobMoves ==
    ASSUME EnrichInv, NEW t \in Threads, NEW j, JobOK(j), j # Idle => t \in scene.threads,
           j.pc # "write", job' = [job EXCEPT ![t] = j], UNCHANGED <<scene, rels>>
    PROVE  JobsOK' /\ RelsOK' /\ scene' \in Scenes
  <1>1. JobsOK' /\ \A u \in Threads : job'[u] = job[u] \/ job'[u].pc # "write"
    BY JobsChange DEF EnrichInv
  <1>. QED
    BY <1>1, RelsStay DEF EnrichInv

LEMMA PlusOK ==
    ASSUME NEW found, OneEach(found), NEW more, NEW f \in Plus(found, more)
    PROVE  OneEach(f)
  BY DEF Plus, OneEach

LEMMA ThenOK ==
    ASSUME EnrichInv, NEW t \in Threads, job[t].pc \in Working, NEW pc \in Working, NEW more,
           Then(t, pc, more), UNCHANGED <<scene, rels>>
    PROVE  JobsOK' /\ RelsOK' /\ scene' \in Scenes
  <1>1. PICK found \in Plus(job[t].found, more) :
            job' = [job EXCEPT ![t] = [job[t] EXCEPT !.pc = pc, !.found = found]]
    BY DEF Then
  <1>. DEFINE j == [job[t] EXCEPT !.pc = pc, !.found = found]
  <1>2. IsWorking(job[t]) /\ t \in scene.threads
    BY WhichJob, IdleFacts DEF EnrichInv, JobsOK, Working
  <1>3. OneEach(found)
    BY <1>2, PlusOK DEF IsWorking
  <1>4. IsWorking(j)
    <2>1. j.pc = pc /\ j.found = found /\ j.alert = job[t].alert /\ j.at = job[t].at /\ DOMAIN j = DOMAIN job[t]
      BY <1>2 DEF IsWorking
    <2>. HIDE DEF j
    <2>. QED
      BY <1>2, <1>3, <2>1 DEF IsWorking
  <1>5. JobOK(j) /\ j.pc # "write"
    BY <1>4 DEF JobOK, IsWorking, Working
  <1>. HIDE DEF j
  <1>. QED
    BY <1>1, <1>2, <1>5, OneJobMoves DEF j

LEMMA NewJobOK ==
    ASSUME NEW alert \in AllAlerts, NEW at \in Int, NEW zoned, NEW case
    PROVE  JobOK(Job(alert, at, zoned, case)) /\ Job(alert, at, zoned, case).pc = "history"
  BY DEF Job, JobOK, IsWorking, Working, OneEach

LEMMA BeginStep ==
    ASSUME EnrichInv, NEW t \in Threads, Create(t) \/ Reenrich(t)
    PROVE  EnrichInv'
  <1>1. PICK alert \in AllAlerts, at \in Int, zoned \in BOOLEAN,
                case \in {0} \cup {c.id : c \in cases} :
            job' = [job EXCEPT ![t] = Job(alert, at, zoned, case)]
    <2>1. CASE Create(t)
      BY <2>1, SceneFacts DEF Create, EnrichInv
    <2>2. CASE Reenrich(t)
      <3>1. PICK c \in cases : job' = [job EXCEPT ![t] = Job(c.alert, c.at, FALSE, c.id)]
        BY <2>2 DEF Reenrich
      <3>2. c.alert \in AllAlerts /\ c.at \in Int
        BY DEF EnrichInv, CasesOK, CaseRows
      <3>. QED
        BY <3>1, <3>2
    <2>. QED
      BY <2>1, <2>2
  <1>2. t \in scene.threads /\ UNCHANGED <<scene, cases, rels, entries, index>>
    BY DEF Create, Reenrich
  <1>. DEFINE j == Job(alert, at, zoned, case)
  <1>3. JobOK(j) /\ j.pc # "write"
    BY NewJobOK
  <1>. HIDE DEF j
  <1>4. JobsOK' /\ RelsOK' /\ scene' \in Scenes
    BY <1>1, <1>2, <1>3, OneJobMoves DEF j
  <1>. QED
    BY <1>2, <1>4, WindowStays, CasesStay DEF EnrichInv

LEMMA LookStep ==
    ASSUME EnrichInv, NEW t \in Threads, History(t) \/ Graph(t) \/ Scan(t)
    PROVE  EnrichInv'
  <1>1. /\ job[t].pc \in Working /\ UNCHANGED <<scene, cases, rels, entries, index>>
        /\ \E pc \in Working : \E more : Then(t, pc, more)
    <2>1. CASE History(t)
      <3>1. \E more : Then(t, "graph", more)
        BY <2>1 DEF History
      <3>. QED
        BY <2>1, <3>1 DEF History, Working
    <2>2. CASE Graph(t)
      <3>1. \E more : Then(t, "register", more)
        BY <2>2 DEF Graph
      <3>. QED
        BY <2>2, <3>1 DEF Graph, Working
    <2>3. CASE Scan(t)
      <3>1. \E more : Then(t, "case", more)
        BY <2>3 DEF Scan
      <3>. QED
        BY <2>3, <3>1 DEF Scan, Working
    <2>. QED
      BY <2>1, <2>2, <2>3
  <1>2. JobsOK' /\ RelsOK' /\ scene' \in Scenes
    BY <1>1, ThenOK
  <1>. QED
    BY <1>1, <1>2, WindowStays, CasesStay DEF EnrichInv

LEMMA RegisterStep ==
    ASSUME EnrichInv, NEW t \in Threads, Register(t)
    PROVE  EnrichInv'
  <1>. DEFINE j == job[t]
              new == SetToSeq({Entry(j.alert, k, j.at) : k \in Keys(j.alert)})
  <1>1. /\ j.pc = "register" /\ entries' = Kept(entries, j.at) \o new
        /\ index' = [k \in AllKeys |-> Kept(index[k], j.at) \o OfKey(new, k)]
        /\ Then(t, "scan", {}) /\ UNCHANGED <<scene, cases, rels>>
    BY DEF Register
  <1>2. IsWorking(j)
    BY <1>1, WhichJob DEF EnrichInv, JobsOK, Working
  <1>3. new \in Seq(Entries) /\ \A i \in 1..Len(new) : new[i].at = j.at
    BY <1>2, NewEntriesOK DEF IsWorking
  <1>4. JobsOK' /\ RelsOK' /\ scene' \in Scenes
    BY <1>1, ThenOK DEF Working
  <1>. HIDE DEF j, new
  <1>5. /\ entries \in Seq(Entries) /\ Ordered(entries)
        /\ \A k \in AllKeys : index[k] = OfKey(entries, k)
        /\ j.at \in Int
    BY <1>2 DEF EnrichInv, WindowOK, IsWorking
  <1>6. entries' \in Seq(Entries) /\ Ordered(entries')
    <2>. DEFINE at == j.at
    <2>1. entries \in Seq(Entries) /\ new \in Seq(Entries) /\ at \in Int
      BY <1>3, <1>5
    <2>2. Ordered(entries) /\ \A i \in 1..Len(new) : new[i].at = at
      BY <1>3, <1>5
    <2>. HIDE DEF at
    <2>3. Kept(entries, at) \o new \in Seq(Entries)
      <3>1. Kept(entries, at) \in Seq(Entries)
        BY <2>1, KeptIsYoung, WhereType
      <3>. QED
        BY <2>1, <3>1, ConcatProperties
    <2>4. Ordered(Kept(entries, at) \o new)
      BY <2>1, <2>2, StaysOrdered
    <2>. QED
      BY <1>1, <2>3, <2>4 DEF at
  <1>7. ASSUME NEW k \in AllKeys
        PROVE  index'[k] \in Seq(Entries) /\ index'[k] = OfKey(entries', k)
    <2>1. index'[k] = Kept(OfKey(entries, k), j.at) \o OfKey(new, k)
      BY <1>1, <1>5
    <2>2. /\ Kept(OfKey(entries, k), j.at) \o OfKey(new, k) \in Seq(Entries)
          /\ OfKey(Kept(entries, j.at) \o new, k) = Kept(OfKey(entries, k), j.at) \o OfKey(new, k)
      <3>. DEFINE at == j.at
      <3>1. entries \in Seq(Entries) /\ new \in Seq(Entries) /\ at \in Int
        BY <1>3, <1>5
      <3>. HIDE DEF at
      <3>2. /\ Kept(OfKey(entries, k), at) \o OfKey(new, k) \in Seq(Entries)
            /\ OfKey(Kept(entries, at) \o new, k) = Kept(OfKey(entries, k), at) \o OfKey(new, k)
        BY <3>1, IndexFollows
      <3>. QED
        BY <3>2 DEF at
    <2>. QED
      BY <1>1, <2>1, <2>2
  <1>8. index' \in [AllKeys -> Seq(Entries)]
    BY <1>1, <1>7
  <1>9. WindowOK'
    BY <1>6, <1>7, <1>8 DEF WindowOK
  <1>. QED
    BY <1>1, <1>4, <1>9, CasesStay DEF EnrichInv

LEMMA PersistStep ==
    ASSUME EnrichInv, NEW t \in Threads, Persist(t)
    PROVE  EnrichInv'
  <1>1. PICK score \in scene.scores, id \in 1..(scene.most + Cardinality(Threads)) :
          /\ NewId(id)
          /\ cases' = cases \cup {[id |-> id, alert |-> job[t].alert, at |-> job[t].at,
                                   score |-> score, confirmed |-> FALSE, linked |-> FALSE]}
    BY DEF Persist
  <1>. DEFINE c == [id |-> id, alert |-> job[t].alert, at |-> job[t].at,
                    score |-> score, confirmed |-> FALSE, linked |-> FALSE]
  <1>2. IsWorking(job[t]) /\ t \in scene.threads
    BY WhichJob DEF Persist, EnrichInv, JobsOK, Working
  <1>3. c \in CaseRows
    <2>1. id \in Nat /\ score \in AllScores
      BY SceneFacts DEF EnrichInv
    <2>. QED
      BY <1>2, <2>1 DEF CaseRows, IsWorking
  <1>4. c.id = id /\ \A d \in cases : d.id # id
    BY <1>1 DEF NewId, InUse
  <1>5. CasesOK'
    <2>. HIDE DEF c
    <2>1. cases' = cases \cup {c}
      BY <1>1 DEF c
    <2>2. cases' \subseteq CaseRows /\ IsFiniteSet(cases')
      BY <1>3, <2>1, FS_AddElement DEF EnrichInv, CasesOK
    <2>3. \A d, e \in cases' : d.id = e.id => d = e
      BY <1>4, <2>1 DEF EnrichInv, CasesOK
    <2>. QED
      BY <2>2, <2>3 DEF CasesOK
  <1>. DEFINE j == [pc |-> "read", alert |-> job[t].alert]
  <1>6. JobOK(j) /\ j.pc # "write"
    BY <1>2 DEF JobOK, IsReading, IsWorking
  <1>7. job' = [job EXCEPT ![t] = j] /\ UNCHANGED <<scene, rels, entries, index>>
    BY DEF Persist
  <1>8. JobsOK' /\ RelsOK' /\ scene' \in Scenes
    <2>. HIDE DEF j
    <2>. QED
      BY <1>2, <1>6, <1>7, OneJobMoves
  <1>. QED
    BY <1>5, <1>7, <1>8, WindowStays DEF EnrichInv

(* A thread that is done, whether it stored its relationships or not.      *)
LEMMA EndsOK ==
    ASSUME EnrichInv, NEW t \in Threads, job' = [job EXCEPT ![t] = Idle], UNCHANGED <<scene, rels>>
    PROVE  JobsOK' /\ RelsOK' /\ scene' \in Scenes
  <1>1. JobOK(Idle) /\ Idle.pc # "write"
    BY IdleFacts
  <1>. QED
    BY <1>1, OneJobMoves

(* Rows are replaced by rows of the same ids.                              *)
LEMMA CasesMapped ==
    ASSUME CasesOK, NEW f \in [cases -> CaseRows], \A c \in cases : f[c].id = c.id,
           cases' = {f[c] : c \in cases}
    PROVE  CasesOK'
  <1>1. f \in Surjection(cases, cases')
    BY DEF Surjection
  <1>2. IsFiniteSet(cases')
    BY <1>1, FS_Surjection DEF CasesOK
  <1>3. ASSUME NEW d \in cases', NEW e \in cases', d.id = e.id PROVE d = e
    <2>1. PICK c \in cases, b \in cases : d = f[c] /\ e = f[b]
      OBVIOUS
    <2>2. c.id = b.id
      BY <1>3, <2>1
    <2>. QED
      BY <2>1, <2>2 DEF CasesOK
  <1>. QED
    BY <1>2, <1>3 DEF CasesOK

LEMMA RescoreStep ==
    ASSUME EnrichInv, NEW t \in Threads, Rescore(t)
    PROVE  EnrichInv'
  <1>1. PICK score \in scene.scores :
          cases' = {IF c.id = job[t].case THEN [c EXCEPT !.score = score] ELSE c : c \in cases}
    BY DEF Rescore
  <1>. DEFINE f == [c \in cases |-> IF c.id = job[t].case THEN [c EXCEPT !.score = score] ELSE c]
  <1>2. score \in AllScores
    BY SceneFacts DEF EnrichInv
  <1>3. f \in [cases -> CaseRows] /\ \A c \in cases : f[c].id = c.id
    BY <1>2 DEF EnrichInv, CasesOK, CaseRows
  <1>4. cases' = {f[c] : c \in cases}
    BY <1>1
  <1>5. CasesOK'
    <2>. HIDE DEF f
    <2>. QED
      BY <1>3, <1>4, CasesMapped DEF EnrichInv
  <1>6. job' = [job EXCEPT ![t] = Idle] /\ UNCHANGED <<scene, rels, entries, index>>
    BY DEF Rescore
  <1>7. JobsOK' /\ RelsOK' /\ scene' \in Scenes
    BY <1>6, EndsOK
  <1>. QED
    BY <1>5, <1>6, <1>7, WindowStays DEF EnrichInv

LEMMA PairsFinite == ASSUME NEW a \in AllAlerts PROVE Pairs(a) \subseteq AllPairs
  BY DEF AllPairs

(* Of the pairs it has read, a thread will insert those without a row.     *)
LEMMA ReadPairsStep ==
    ASSUME EnrichInv, NEW t \in Threads, ReadPairs(t)
    PROVE  EnrichInv'
  <1>. DEFINE a == job[t].alert
  <1>1. PICK rows \in [Pairs(a) -> 0..Cardinality(Threads)] :
          /\ \A p \in DOMAIN rows : IF rels[p] = <<>> THEN rows[p] = 0 ELSE rows[p] \in 1..Len(rels[p])
          /\ job' = [job EXCEPT ![t] =
               [pc |-> "write",
                rows |-> [p \in DOMAIN rows |-> [row |-> rows[p],
                            count |-> IF rows[p] = 0 THEN 0 ELSE rels[p][rows[p]]]]]]
    BY DEF ReadPairs
  <1>. DEFINE read == [p \in DOMAIN rows |-> [row |-> rows[p],
                            count |-> IF rows[p] = 0 THEN 0 ELSE rels[p][rows[p]]]]
              j == [pc |-> "write", rows |-> read]
  <1>2. IsReading(job[t]) /\ t \in scene.threads /\ job[t].pc = "read"
    BY WhichJob DEF ReadPairs, EnrichInv, JobsOK
  <1>3. a \in AllAlerts /\ Pairs(a) \subseteq AllPairs
    BY <1>2, PairsFinite DEF IsReading
  <1>4. rels \in [AllPairs -> Seq(Nat)] /\ Cardinality(Threads) \in Nat
    BY SceneFacts DEF EnrichInv, RelsOK
  <1>5. read \in [Pairs(a) -> [row : Nat, count : Nat]]
    <2>1. ASSUME NEW p \in Pairs(a)
          PROVE  [row |-> rows[p], count |-> IF rows[p] = 0 THEN 0 ELSE rels[p][rows[p]]] \in [row : Nat, count : Nat]
      <3>1. rows[p] \in Nat /\ rels[p] \in Seq(Nat)
        BY <1>3, <1>4
      <3>2. rows[p] # 0 => rows[p] \in 1..Len(rels[p])
        BY <1>1
      <3>3. rows[p] # 0 => rels[p][rows[p]] \in Nat
        BY <3>1, <3>2, ElementOfSeq
      <3>. QED
        BY <3>1, <3>3
    <2>. QED
      BY <2>1
  <1>6. JobOK(j) /\ j.pc = "write" /\ j.rows = read
    BY <1>3, <1>5 DEF JobOK, IsWriting
  <1>7. \A p \in Pairs(a) : read[p].row = 0 => rels[p] = <<>>
    BY <1>1, <1>4
  <1>8. job' = [job EXCEPT ![t] = j] /\ UNCHANGED <<scene, cases, rels, entries, index>>
    BY <1>1 DEF ReadPairs
  <1>. HIDE DEF j, read, a
  <1>9. JobsOK' /\ job'[t] = j /\ \A u \in Threads \ {t} : job'[u] = job[u]
    BY <1>2, <1>6, <1>8, JobsChange DEF EnrichInv
  <1>10. ASSUME NEW p \in AllPairs
         PROVE  Len(rels[p]) + Cardinality(Inserting(p)') <= Cardinality(scene.threads)
    <2>1. Inserting(p) \subseteq Threads /\ Inserting(p)' \subseteq scene.threads
      <3>1. \A u \in Threads : job'[u].pc = "write" => u \in scene'.threads
        BY <1>9, WhichJob DEF JobsOK, Idle
      <3>. QED
        BY <1>8, <3>1 DEF Inserting
    <2>2. /\ IsFiniteSet(Inserting(p)) /\ IsFiniteSet(Inserting(p)')
          /\ Cardinality(Inserting(p)') <= Cardinality(scene.threads)
          /\ Cardinality(scene.threads) \in Nat
      BY <2>1, SceneFacts, FS_Subset DEF EnrichInv
    <2>3. Cardinality(Inserting(p)) \in Nat /\ Cardinality(Inserting(p)') \in Nat
      BY <2>2, FS_CardinalityType
    <2>4. CASE rels[p] = <<>>
      <3>1. Len(rels[p]) = 0
        BY <2>4, EmptySeq
      <3>. QED
        BY <2>2, <2>3, <3>1
    <2>5. CASE rels[p] # <<>>
      <3>1. Inserting(p)' \subseteq Inserting(p)
        <4>1. t \notin Inserting(p)'
          BY <1>5, <1>6, <1>7, <1>9, <2>5 DEF Inserting
        <4>. QED
          BY <1>9, <4>1 DEF Inserting
      <3>2. Cardinality(Inserting(p)') <= Cardinality(Inserting(p))
        BY <2>2, <3>1, FS_Subset
      <3>3. Len(rels[p]) + Cardinality(Inserting(p)) <= Cardinality(scene.threads) /\ Len(rels[p]) \in Nat
        BY <1>4 DEF EnrichInv, RelsOK
      <3>. QED
        BY <2>2, <2>3, <3>2, <3>3
    <2>. QED
      BY <2>4, <2>5
  <1>11. RelsOK'
    BY <1>4, <1>8, <1>10 DEF RelsOK, AllPairs, AllAlerts
  <1>. QED
    BY <1>8, <1>9, <1>11, WindowStays, CasesStay DEF EnrichInv

LEMMA WrittenOK ==
    ASSUME NEW old \in Seq(Nat), NEW r \in [row : Nat, count : Nat]
    PROVE  /\ Written(old, r) \in Seq(Nat)
           /\ Len(Written(old, r)) = IF r.row = 0 THEN Len(old) + 1 ELSE Len(old)
  <1>1. CASE r.row = 0
    BY <1>1, AppendProperties DEF Written
  <1>2. CASE r.row # 0
    <2>1. Next1(r.count) \in Nat
      BY DEF Next1
    <2>. DEFINE n == Next1(r.count)
                i == r.row
    <2>. HIDE DEF n, i
    <2>2. [old EXCEPT ![i] = n] \in Seq(Nat) /\ Len([old EXCEPT ![i] = n]) = Len(old)
      <3>1. old \in [1..Len(old) -> Nat] /\ Len(old) \in Nat
        BY LenProperties
      <3>2. [old EXCEPT ![i] = n] \in [1..Len(old) -> Nat]
        BY <2>1, <3>1 DEF n
      <3>. QED
        BY <3>1, <3>2
    <2>. QED
      BY <1>2, <2>2 DEF Written, n, i
  <1>. QED
    BY <1>1, <1>2

LEMMA WritePairsStep ==
    ASSUME EnrichInv, NEW t \in Threads, WritePairs(t)
    PROVE  EnrichInv'
  <1>. DEFINE rows == job[t].rows
  <1>1. /\ job[t].pc = "write" /\ job' = [job EXCEPT ![t] = Idle]
        /\ rels' = [p \in AllPairs |-> IF p \in DOMAIN rows THEN Written(rels[p], rows[p]) ELSE rels[p]]
        /\ UNCHANGED <<scene, cases, entries, index>>
    BY DEF WritePairs
  <1>2. IsWriting(job[t])
    BY <1>1, WhichJob DEF EnrichInv, JobsOK
  <1>3. \A p \in DOMAIN rows : rows[p] \in [row : Nat, count : Nat]
    BY <1>2 DEF IsWriting
  <1>4. JobsOK' /\ job'[t] = Idle /\ \A u \in Threads \ {t} : job'[u] = job[u]
    BY <1>1, IdleFacts, JobsChange DEF EnrichInv
  <1>. HIDE DEF rows
  <1>5. ASSUME NEW p \in AllPairs
        PROVE  /\ rels'[p] \in Seq(Nat)
               /\ Len(rels'[p]) + Cardinality(Inserting(p)') <= Cardinality(scene.threads)
    <2>1. /\ rels[p] \in Seq(Nat) /\ Len(rels[p]) \in Nat
          /\ Len(rels[p]) + Cardinality(Inserting(p)) <= Cardinality(scene.threads)
      BY DEF EnrichInv, RelsOK
    <2>2. Inserting(p)' = Inserting(p) \ {t}
      BY <1>4, IdleFacts DEF Inserting
    <2>3. IsFiniteSet(Inserting(p)) /\ Cardinality(scene.threads) \in Nat
      <3>1. Inserting(p) \subseteq Threads
        BY DEF Inserting
      <3>. QED
        BY <3>1, SceneFacts, FS_Subset DEF EnrichInv
    <2>4. /\ Cardinality(Inserting(p)) \in Nat
          /\ Cardinality(Inserting(p)') = IF t \in Inserting(p) THEN Cardinality(Inserting(p)) - 1
                                                               ELSE Cardinality(Inserting(p))
      BY <2>2, <2>3, FS_RemoveElement, FS_CardinalityType
    <2>5. CASE p \notin DOMAIN rows
      <3>1. rels'[p] = rels[p]
        BY <1>1, <2>5
      <3>. QED
        BY <2>1, <2>3, <2>4, <3>1
    <2>6. CASE p \in DOMAIN rows
      <3>1. rels'[p] = Written(rels[p], rows[p])
        BY <1>1, <2>6
      <3>2. /\ rels'[p] \in Seq(Nat)
            /\ Len(rels'[p]) = IF rows[p].row = 0 THEN Len(rels[p]) + 1 ELSE Len(rels[p])
        BY <1>3, <2>1, <2>6, <3>1, WrittenOK
      <3>3. rows[p].row = 0 => t \in Inserting(p)
        BY <1>1, <2>6 DEF Inserting, rows
      <3>. QED
        BY <2>1, <2>3, <2>4, <3>2, <3>3
    <2>. QED
      BY <2>5, <2>6
  <1>6. rels' \in [AllPairs -> Seq(Nat)]
    BY <1>1, <1>5
  <1>7. RelsOK'
    BY <1>1, <1>5, <1>6 DEF RelsOK, AllPairs, AllAlerts
  <1>. QED
    BY <1>1, <1>4, <1>7, WindowStays, CasesStay DEF EnrichInv

LEMMA StoreFailsStep ==
    ASSUME EnrichInv, NEW t \in Threads, StoreFails(t)
    PROVE  EnrichInv'
  BY EndsOK, WindowStays, CasesStay DEF StoreFails, EnrichInv

(* A row that is changed keeps its id.                                     *)
LEMMA OneCaseChanges ==
    ASSUME CasesOK, NEW c \in cases, NEW d \in CaseRows, d.id = c.id,
           cases' = (cases \ {c}) \cup {d}
    PROVE  CasesOK'
  <1>1. cases' \subseteq CaseRows /\ IsFiniteSet(cases')
    BY FS_RemoveElement, FS_AddElement DEF CasesOK
  <1>2. \A e, f \in cases' : e.id = f.id => e = f
    BY DEF CasesOK
  <1>. QED
    BY <1>1, <1>2 DEF CasesOK

LEMMA OthersStep ==
    ASSUME EnrichInv, Decide \/ Correlate \/ Delete
    PROVE  EnrichInv'
  <1>1. UNCHANGED <<scene, rels, entries, index, job>>
    BY DEF Decide, Correlate, Delete
  <1>2. CasesOK'
    <2>1. CASE Decide
      <3>1. PICK c \in cases : cases' = (cases \ {c}) \cup {[c EXCEPT !.confirmed = ~@]}
        BY <2>1 DEF Decide
      <3>. DEFINE d == [c EXCEPT !.confirmed = ~@]
      <3>2. c \in CaseRows
        BY DEF EnrichInv, CasesOK
      <3>3. d \in CaseRows /\ d.id = c.id
        BY <3>2 DEF CaseRows
      <3>. HIDE DEF d
      <3>. QED
        BY <3>1, <3>3, OneCaseChanges DEF EnrichInv, d
    <2>2. CASE Correlate
      <3>1. PICK c \in cases : cases' = (cases \ {c}) \cup {[c EXCEPT !.linked = TRUE]}
        BY <2>2 DEF Correlate
      <3>. DEFINE d == [c EXCEPT !.linked = TRUE]
      <3>2. c \in CaseRows
        BY DEF EnrichInv, CasesOK
      <3>3. d \in CaseRows /\ d.id = c.id
        BY <3>2 DEF CaseRows
      <3>. HIDE DEF d
      <3>. QED
        BY <3>1, <3>3, OneCaseChanges DEF EnrichInv, d
    <2>3. CASE Delete
      <3>1. cases' \in SUBSET cases
        BY <2>3 DEF Delete
      <3>2. IsFiniteSet(cases')
        BY <3>1, FS_Subset DEF EnrichInv, CasesOK
      <3>. QED
        BY <3>1, <3>2 DEF EnrichInv, CasesOK
    <2>. QED
      BY <2>1, <2>2, <2>3
  <1>3. JobsOK' /\ scene' \in Scenes
    BY <1>1 DEF EnrichInv, JobsOK
  <1>4. RelsOK'
    BY <1>1, RelsStay DEF EnrichInv
  <1>. QED
    BY <1>1, <1>2, <1>3, <1>4, WindowStays DEF EnrichInv

LEMMA EmptyWindowOK ==
    ASSUME entries = <<>>, index = [k \in AllKeys |-> <<>>]
    PROVE  WindowOK
  <1>1. entries \in Seq(Entries) /\ index \in [AllKeys -> Seq(Entries)] /\ Len(entries) = 0
    BY EmptySeq
  <1>2. ASSUME NEW k \in AllKeys PROVE index[k] = OfKey(entries, k)
    <2>1. OfKey(entries, k) = Where(entries, Under(k))
      BY <1>1, OfKeyIsUnder
    <2>. QED
      BY <2>1, WhereEmpty
  <1>3. Ordered(entries)
    BY <1>1 DEF Ordered
  <1>. QED
    BY <1>1, <1>2, <1>3 DEF WindowOK

LEMMA AllIdleOK ==
    ASSUME job = [t \in Threads |-> Idle]
    PROVE  JobsOK /\ \A p : Inserting(p) = {}
  BY IdleFacts DEF JobsOK, Inserting

LEMMA RestartStep ==
    ASSUME EnrichInv, Restart
    PROVE  EnrichInv'
  <1>1. /\ job' = [t \in Threads |-> Idle] /\ entries' = <<>> /\ index' = [k \in AllKeys |-> <<>>]
        /\ UNCHANGED <<scene, cases, rels>>
    BY DEF Restart
  <1>2. WindowOK'
    <2>1. entries' \in Seq(Entries) /\ index' \in [AllKeys -> Seq(Entries)] /\ Len(entries') = 0
      BY <1>1, EmptySeq
    <2>2. ASSUME NEW k \in AllKeys PROVE index'[k] = OfKey(entries', k)
      <3>1. OfKey(entries', k) = Where(entries', Under(k))
        BY <2>1, OfKeyIsUnder
      <3>. QED
        BY <1>1, <3>1, WhereEmpty
    <2>3. Ordered(entries')
      BY <2>1 DEF Ordered
    <2>. QED
      BY <2>1, <2>2, <2>3 DEF WindowOK
  <1>3. JobsOK'
    BY <1>1, IdleFacts DEF JobsOK
  <1>4. RelsOK'
    <2>1. \A u \in Threads : job'[u].pc # "write"
      BY <1>1, IdleFacts
    <2>. QED
      BY <1>1, <2>1, RelsStay DEF EnrichInv
  <1>. QED
    BY <1>1, <1>2, <1>3, <1>4, CasesStay DEF EnrichInv

LEMMA EnrichInit == Init => EnrichInv
  <1>. SUFFICES ASSUME Init PROVE EnrichInv
    OBVIOUS
  <1>1. WindowOK
    BY EmptyWindowOK DEF Init
  <1>2. JobsOK /\ \A p : Inserting(p) = {}
    BY AllIdleOK DEF Init
  <1>3. CasesOK
    BY FS_EmptySet DEF Init, CasesOK
  <1>4. RelsOK
    <2>1. scene \in Scenes /\ rels = [p \in AllPairs |-> <<>>]
      BY DEF Init
    <2>2. Cardinality(scene.threads) \in Nat /\ <<>> \in Seq(Nat) /\ Len(<<>>) = 0
      BY <2>1, SceneFacts, EmptySeq
    <2>3. ASSUME NEW p \in AllPairs
          PROVE  Len(rels[p]) + Cardinality(Inserting(p)) <= Cardinality(scene.threads)
      <3>1. Cardinality(Inserting(p)) = 0
        BY <1>2, FS_EmptySet
      <3>. QED
        BY <2>1, <2>2, <3>1
    <2>. QED
      BY <2>1, <2>2, <2>3 DEF RelsOK
  <1>. QED
    BY <1>1, <1>2, <1>3, <1>4 DEF Init, EnrichInv

LEMMA EnrichStep == EnrichInv /\ [Next]_vars => EnrichInv'
  <1>. SUFFICES ASSUME EnrichInv, [Next]_vars PROVE EnrichInv'
    OBVIOUS
  <1>1. ASSUME NEW t \in Threads, Create(t) \/ Reenrich(t) PROVE EnrichInv'
    BY <1>1, BeginStep
  <1>2. ASSUME NEW t \in Threads, Step(t) PROVE EnrichInv'
    BY <1>2, LookStep, RegisterStep, PersistStep, RescoreStep, ReadPairsStep, WritePairsStep,
       StoreFailsStep DEF Step
  <1>3. CASE Decide \/ Correlate \/ Delete
    BY <1>3, OthersStep
  <1>4. CASE Restart
    BY <1>4, RestartStep
  <1>5. CASE UNCHANGED vars
    <2>1. UNCHANGED <<scene, cases, rels, entries, index, job>>
      BY <1>5 DEF vars
    <2>2. RelsOK'
      BY <2>1, RelsStay DEF EnrichInv
    <2>. QED
      BY <2>1, <2>2, WindowStays, CasesStay DEF EnrichInv, JobsOK
  <1>. QED
    BY <1>1, <1>2, <1>3, <1>4, <1>5 DEF Next

-----------------------------------------------------------------------------
(* Types; an enrichment has one signal of a name, and a pair has no more   *)
(* rows than the threads that may store relationships at once.             *)
(* (enrichment/__init__.py, entity_graph.py)                               *)
THEOREM EnrichmentTypeCorrect == Spec => []TypeOK
  <1>1. EnrichInv => TypeOK
    <2>. SUFFICES ASSUME EnrichInv PROVE TypeOK
      OBVIOUS
    <2>1. ASSUME NEW p \in AllPairs PROVE Len(rels[p]) <= Cardinality(scene.threads)
      <3>1. IsFiniteSet(Inserting(p)) /\ Cardinality(scene.threads) \in Nat
        <4>1. Inserting(p) \subseteq Threads
          BY DEF Inserting
        <4>. QED
          BY <4>1, SceneFacts, FS_Subset DEF EnrichInv
      <3>2. Cardinality(Inserting(p)) \in Nat
        BY <3>1, FS_CardinalityType
      <3>3. Len(rels[p]) \in Nat /\ Len(rels[p]) + Cardinality(Inserting(p)) <= Cardinality(scene.threads)
        BY DEF EnrichInv, RelsOK
      <3>. QED
        BY <3>1, <3>2, <3>3
    <2>2. ASSUME NEW t \in Threads, "found" \in DOMAIN job[t] PROVE OneEach(job[t].found)
      BY <2>2 DEF EnrichInv, JobsOK, JobOK, IsWorking, IsReading, IsWriting, Idle
    <2>. QED
      BY <2>1, <2>2 DEF TypeOK, EnrichInv, CasesOK
  <1>. QED
    BY <1>1, EnrichInit, EnrichStep, PTL DEF Spec

(* cross_alert.py: the list and the index of the window agree whatever the *)
(* order alerts arrive in, for any window, any alerts and any times, and   *)
(* no entry is older by more than the window than one registered after it. *)
THEOREM WindowAgrees == Spec => []WindowWhole
  <1>1. EnrichInv => WindowWhole
    <2>. SUFFICES ASSUME EnrichInv PROVE WindowWhole
      OBVIOUS
    <2>1. (\A k \in AllKeys : index[k] = OfKey(entries, k)) /\ Ordered(entries)
      BY DEF EnrichInv, WindowOK
    <2>. QED
      BY <2>1 DEF WindowWhole, Ordered
  <1>. QED
    BY <1>1, EnrichInit, EnrichStep, PTL DEF Spec

-----------------------------------------------------------------------------
(* Scores and the signals that claim an analyst's decision.                *)

(* The confirmed cases those signals count, of a user and of a host.       *)
SureOfUser(s, a, at) ==
    {c \in Since({c \in Before(s, at) : c.alert.user = a.user}, at - Recent) : c.confirmed}

SureOfHost(s, a, at) ==
    {c \in Since(s, at - Month) : c.alert.host = a.host /\ c.confirmed}

LEMMA VerifiedUnion ==
    ASSUME NEW p, NEW q
    PROVE  Verified(p \cup q) = Verified(p) \cup Verified(q)
  BY DEF Verified

LEMMA VerifiedUser ==
    ASSUME NEW s, NEW a, NEW at
    PROVE  Verified(UserHistory(s, a, at, FALSE))
             = IF a.user = None THEN {}
               ELSE When(Cardinality(SureOfUser(s, a, at)) >= 2, "repeat_offender", 10)
  <1>. DEFINE sure == When(Cardinality(SureOfUser(s, a, at)) >= 2, "repeat_offender", 10)
  <1>1. CASE a.user = None
    BY <1>1 DEF UserHistory, Verified
  <1>2. CASE a.user # None
    <2>. DEFINE history == UserHistory(s, a, at, FALSE)
                others == history \ sure
    <2>1. /\ sure \subseteq history
          /\ others \subseteq {Signal("escalating_threat", 15), Signal("sustained_activity", 12),
                                Signal("escalating_exfiltration", 15)}
      BY <1>2 DEF UserHistory, SureOfUser, When
    <2>2. Verified(others) = {}
      <3>. HIDE DEF others
      <3>. QED
        BY <2>1 DEF Verified, Signal
    <2>3. Verified(sure) = sure
      BY DEF Verified, When, Signal
    <2>4. Verified(sure \cup others) = Verified(sure) \cup Verified(others)
      <3>. HIDE DEF sure, others
      <3>. QED
        BY VerifiedUnion
    <2>5. history = sure \cup others
      BY <2>1
    <2>. HIDE DEF sure, others, history
    <2>6. Verified(history) = sure
      BY <2>2, <2>3, <2>4, <2>5
    <2>. QED
      BY <1>2, <2>6 DEF sure, history
  <1>. QED
    BY <1>1, <1>2

LEMMA VerifiedHost ==
    ASSUME NEW s, NEW a, NEW at
    PROVE  Verified(HostHistory(s, a, at))
             = IF a.host = None THEN {}
               ELSE When(Cardinality(Since(SureOfHost(s, a, at), at - Recent)) >= 2, "host_repeat_target", 15)
                    \cup When(\E c \in Since(SureOfHost(s, a, at), at - Day) : c.linked,
                              "host_in_prior_incident", 18)
  <1>. DEFINE repeat == When(Cardinality(Since(SureOfHost(s, a, at), at - Recent)) >= 2, "host_repeat_target", 15)
              prior == When(\E c \in Since(SureOfHost(s, a, at), at - Day) : c.linked, "host_in_prior_incident", 18)
  <1>1. Verified(repeat) = repeat
    BY DEF Verified, When, Signal
  <1>2. Verified(prior) = prior
    BY DEF Verified, When, Signal
  <1>3. HostHistory(s, a, at) = IF a.host = None THEN {} ELSE repeat \cup prior
    BY DEF HostHistory, SureOfHost
  <1>. HIDE DEF repeat, prior
  <1>4. Verified({}) = {}
    BY DEF Verified
  <1>5. Verified(HostHistory(s, a, at)) = IF a.host = None THEN {} ELSE repeat \cup prior
    <2>1. Verified(repeat \cup prior) = repeat \cup prior
      BY <1>1, <1>2, VerifiedUnion
    <2>. QED
      BY <1>3, <1>4, <2>1
  <1>. QED
    BY <1>5 DEF repeat, prior

(* Forgetting the scores of rows with an id each merges no two of them.    *)
LEMMA UnscoredFields ==
    ASSUME NEW c \in CaseRows
    PROVE  LET d == [c EXCEPT !.score = 0]
           IN  /\ d.id = c.id /\ d.alert = c.alert /\ d.at = c.at
               /\ d.confirmed = c.confirmed /\ d.linked = c.linked
  BY DEF CaseRows

LEMMA UnscoredSameSize ==
    ASSUME CasesOK, NEW s \in SUBSET cases
    PROVE  Cardinality(Unscored(s)) = Cardinality(s)
  <1>. DEFINE f == [c \in s |-> [c EXCEPT !.score = 0]]
              u == Unscored(s)
  <1>1. IsFiniteSet(s)
    BY FS_Subset DEF CasesOK
  <1>2. \A c \in s : f[c].id = c.id /\ f[c] \in u
    BY UnscoredFields DEF CasesOK, Unscored
  <1>3. \A d \in u : \E c \in s : f[c] = d
    BY DEF Unscored
  <1>4. \A c, d \in s : f[c] = f[d] => c = d
    <2>. HIDE DEF f
    <2>. QED
      BY <1>2 DEF CasesOK
  <1>5. f \in Bijection(s, u)
    <2>1. f \in [s -> u]
      BY <1>2
    <2>. HIDE DEF f, u
    <2>. QED
      BY <1>3, <1>4, <2>1 DEF Bijection, Injection, Surjection, IsInjective
  <1>6. ExistsBijection(s, u)
    <2>. HIDE DEF f, u
    <2>. QED
      BY <1>5 DEF ExistsBijection
  <1>. QED
    BY <1>1, <1>6, FS_Bijection

LEMMA SureUnscored ==
    ASSUME CasesOK, NEW a, NEW at
    PROVE  /\ SureOfUser(cases, a, at) \subseteq cases
           /\ Since(SureOfHost(cases, a, at), at - Recent) \subseteq cases
           /\ SureOfUser(Unscored(cases), a, at) = Unscored(SureOfUser(cases, a, at))
           /\ \A from : Since(SureOfHost(Unscored(cases), a, at), from)
                          = Unscored(Since(SureOfHost(cases, a, at), from))
           /\ \A from : (\E c \in Unscored(Since(SureOfHost(cases, a, at), from)) : c.linked)
                          <=> (\E c \in Since(SureOfHost(cases, a, at), from) : c.linked)
  <1>1. \A c \in cases :
          LET d == [c EXCEPT !.score = 0]
          IN  /\ d.alert = c.alert /\ d.at = c.at
              /\ d.confirmed = c.confirmed /\ d.linked = c.linked
    BY UnscoredFields DEF CasesOK
  <1>2. SureOfUser(cases, a, at) \subseteq cases
    BY DEF SureOfUser, Since, Before
  <1>3. \A from : Since(SureOfHost(cases, a, at), from) \subseteq cases
    BY DEF SureOfHost, Since
  <1>4. SureOfUser(Unscored(cases), a, at) = Unscored(SureOfUser(cases, a, at))
    <2>. DEFINE u == Unscored(cases)
                sure == SureOfUser(cases, a, at)
                sureU == SureOfUser(u, a, at)
                Right(c) == /\ c.at >= at - Month /\ c.at < at /\ c.alert.user = a.user
                            /\ c.at >= at - Recent /\ c.confirmed
    <2>1. sure = {c \in cases : Right(c)}
      BY DEF SureOfUser, Since, Before
    <2>2. sureU = {c \in u : Right(c)}
      BY DEF SureOfUser, Since, Before
    <2>3. \A c \in cases : Right([c EXCEPT !.score = 0]) <=> Right(c)
      BY <1>1
    <2>4. u = {[c EXCEPT !.score = 0] : c \in cases}
      BY DEF Unscored
    <2>. HIDE DEF u, sure, sureU, Right
    <2>5. sureU = Unscored(sure)
      BY <2>1, <2>2, <2>3, <2>4 DEF Unscored
    <2>. QED
      BY <2>5 DEF u, sure, sureU
  <1>5. \A from : Since(SureOfHost(Unscored(cases), a, at), from)
                          = Unscored(Since(SureOfHost(cases, a, at), from))
    <2>. TAKE from
    <2>. DEFINE u == Unscored(cases)
                sure == Since(SureOfHost(cases, a, at), from)
                sureU == Since(SureOfHost(u, a, at), from)
                Right(c) == c.alert.host = a.host /\ c.confirmed /\ c.at >= at - Month /\ c.at >= from
    <2>0. /\ sure = {c \in cases : Right(c)} /\ sureU = {c \in u : Right(c)}
          /\ \A c \in cases : Right([c EXCEPT !.score = 0]) <=> Right(c)
          /\ u = {[c EXCEPT !.score = 0] : c \in cases}
      <3>1. sure = {c \in cases : Right(c)}
        BY DEF SureOfHost, Since
      <3>2. sureU = {c \in u : Right(c)}
        BY DEF SureOfHost, Since
      <3>3. \A c \in cases : Right([c EXCEPT !.score = 0]) <=> Right(c)
        BY <1>1
      <3>. QED
        BY <3>1, <3>2, <3>3 DEF Unscored
    <2>. HIDE DEF u, sure, sureU, Right
    <2>1. sureU \subseteq Unscored(sure)
      BY <2>0 DEF Unscored
    <2>2. Unscored(sure) \subseteq sureU
      BY <2>0 DEF Unscored
    <2>3. sureU = Unscored(sure)
      BY <2>1, <2>2
    <2>. QED
      BY <2>3 DEF u, sure, sureU
  <1>6. \A from : (\E c \in Unscored(Since(SureOfHost(cases, a, at), from)) : c.linked)
                          <=> (\E c \in Since(SureOfHost(cases, a, at), from) : c.linked)
    <2>. TAKE from
    <2>. DEFINE sure == Since(SureOfHost(cases, a, at), from)
    <2>1. sure \subseteq cases
      BY <1>3
    <2>. HIDE DEF sure
    <2>2. Unscored(sure) = {[c EXCEPT !.score = 0] : c \in sure}
      BY DEF Unscored
    <2>3. \A c \in sure : [c EXCEPT !.score = 0].linked = c.linked
      BY <1>1, <2>1
    <2>4. (\E c \in Unscored(sure) : c.linked) <=> (\E c \in sure : c.linked)
      BY <2>2, <2>3
    <2>. QED
      BY <2>4 DEF sure
  <1>. QED
    BY <1>2, <1>3, <1>4, <1>5, <1>6

(* "Disposition-only: no confidence_score fallback (cascade risk)"         *)
(* (historical.py): for any table of cases the program can reach and any   *)
(* alert, the signals that claim an analyst's decision are the same as if  *)
(* no case had a score.                                                    *)
THEOREM DecisionsAlone == Spec => []NoScoreCascade
  <1>1. EnrichInv => NoScoreCascade
    <2>. SUFFICES ASSUME EnrichInv, NEW a \in scene.alerts, NEW at \in scene.times
                  PROVE  Verified(UserHistory(cases, a, at, FALSE) \cup HostHistory(cases, a, at))
                           = Verified(UserHistory(Unscored(cases), a, at, FALSE)
                                        \cup HostHistory(Unscored(cases), a, at))
      BY DEF NoScoreCascade
    <2>1. CasesOK
      BY DEF EnrichInv
    <2>2. Cardinality(SureOfUser(Unscored(cases), a, at)) = Cardinality(SureOfUser(cases, a, at))
      BY <2>1, SureUnscored, UnscoredSameSize
    <2>3. Cardinality(Since(SureOfHost(Unscored(cases), a, at), at - Recent))
            = Cardinality(Since(SureOfHost(cases, a, at), at - Recent))
      BY <2>1, SureUnscored, UnscoredSameSize
    <2>4. (\E c \in Since(SureOfHost(Unscored(cases), a, at), at - Day) : c.linked)
            <=> (\E c \in Since(SureOfHost(cases, a, at), at - Day) : c.linked)
      BY <2>1, SureUnscored
    <2>5. Verified(UserHistory(cases, a, at, FALSE)) = Verified(UserHistory(Unscored(cases), a, at, FALSE))
      BY <2>2, VerifiedUser
    <2>6. Verified(HostHistory(cases, a, at)) = Verified(HostHistory(Unscored(cases), a, at))
      BY <2>3, <2>4, VerifiedHost DEF When
    <2>. DEFINE user == UserHistory(cases, a, at, FALSE)
                user0 == UserHistory(Unscored(cases), a, at, FALSE)
                host == HostHistory(cases, a, at)
                host0 == HostHistory(Unscored(cases), a, at)
    <2>7. Verified(user) = Verified(user0) /\ Verified(host) = Verified(host0)
      BY <2>5, <2>6
    <2>. HIDE DEF user, user0, host, host0
    <2>8. Verified(user \cup host) = Verified(user0 \cup host0)
      <3>1. Verified(user \cup host) = Verified(user) \cup Verified(host)
        BY VerifiedUnion
      <3>2. Verified(user0 \cup host0) = Verified(user0) \cup Verified(host0)
        BY VerifiedUnion
      <3>. QED
        BY <2>7, <3>1, <3>2
    <2>. QED
      BY <2>8 DEF user, user0, host, host0
  <1>. QED
    BY <1>1, EnrichInit, EnrichStep, PTL DEF Spec
=============================================================================
