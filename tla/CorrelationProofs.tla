-------------------------- MODULE CorrelationProofs --------------------------
(***************************************************************************)
(* Theorems about correlation runs, for any number of threads and runs,    *)
(* any cases, limits and thresholds: the rows are of their types, what an  *)
(* incident says follows its links, and a user in an open incident gets no *)
(* second one.                                                             *)
(***************************************************************************)
EXTENDS Correlation, SequenceTheorems, FiniteSetTheorems, WellFoundedInduction, TLAPS

-----------------------------------------------------------------------------
(* Folds over a list.                                                      *)

LEMMA LeastOfNats ==
    ASSUME NEW T \in SUBSET Nat, T # {}
    PROVE  \E n \in T : \A m \in T : n <= m
  <1>. DEFINE R == OpToRel(<, Nat)
  <1>1. IsWellFoundedOn(R, Nat)
    BY NatLessThanWellFounded
  <1>2. \A a, b \in Nat : a < b => <<a, b>> \in R
    BY DEF OpToRel
  <1>. HIDE DEF R
  <1>3. PICK x \in T : \A y \in T : ~ (<<y, x>> \in R)
    BY <1>1, WFMin
  <1>4. ASSUME NEW y \in T PROVE x <= y
    <2>1. ~(y < x)
      BY <1>2, <1>3
    <2>. QED
      BY <2>1
  <1>. QED
    BY <1>4

LEMMA UpTo ==
    ASSUME NEW n \in Nat, NEW S, 0 \in S, \A k \in 1..n : k - 1 \in S => k \in S
    PROVE  \A k \in 0..n : k \in S
  <1>. DEFINE Out == {k \in 0..n : k \notin S}
  <1>. SUFFICES ASSUME Out # {} PROVE FALSE
    OBVIOUS
  <1>1. PICK m \in Out : \A k \in Out : m <= k
    <2>1. Out \in SUBSET Nat
      OBVIOUS
    <2>. QED
      BY <2>1, LeastOfNats
  <1>2. m \in 1..n /\ m \notin S /\ m - 1 \in 0..n
    BY <1>1
  <1>3. m - 1 \in S
    BY <1>1, <1>2
  <1>. QED
    BY <1>2, <1>3

(* A recursive function on the numbers up to n exists, within any set that *)
(* its steps do not leave.                                                 *)
Follow(f, base, step, n) ==
    f = [k \in 0..n |-> IF k = 0 THEN base ELSE step[<<f[k - 1], k>>]]

LEMMA FoldExists ==
    ASSUME NEW X, NEW base \in X, NEW n \in Nat, NEW step \in [X \X (1..n) -> X]
    PROVE  \E f \in [0..n -> X] : Follow(f, base, step, n)
  <1>. DEFINE Good == {m \in 0..n : \E f \in [0..m -> X] : Follow(f, base, step, m)}
  <1>1. 0 \in Good
    <2>. DEFINE f == [k \in 0..0 |-> base]
    <2>1. f \in [0..0 -> X] /\ Follow(f, base, step, 0)
      BY DEF Follow
    <2>. HIDE DEF f
    <2>. QED
      BY <2>1
  <1>2. ASSUME NEW m \in 1..n, m - 1 \in Good PROVE m \in Good
    <2>1. PICK f \in [0..(m - 1) -> X] : Follow(f, base, step, m - 1)
      BY <1>2
    <2>. DEFINE last == step[<<f[m - 1], m>>]
                g == [k \in 0..m |-> IF k = m THEN last ELSE f[k]]
    <2>2. last \in X
      <3>1. f[m - 1] \in X
        OBVIOUS
      <3>. QED
        BY <3>1
    <2>3. g \in [0..m -> X]
      <3>. HIDE DEF last
      <3>. QED
        BY <2>2
    <2>4. ASSUME NEW k \in 0..m
          PROVE  g[k] = IF k = 0 THEN base ELSE step[<<g[k - 1], k>>]
      <3>1. CASE k = m
        <4>1. k # 0 /\ g[k - 1] = f[m - 1]
          BY <3>1
        <4>. QED
          BY <3>1, <4>1
      <3>2. CASE k \in 0..(m - 1)
        <4>1. f[k] = IF k = 0 THEN base ELSE step[<<f[k - 1], k>>]
          BY <2>1, <3>2 DEF Follow
        <4>2. g[k] = f[k] /\ (k # 0 => g[k - 1] = f[k - 1])
          BY <3>2
        <4>. HIDE DEF g
        <4>. QED
          BY <4>1, <4>2
      <3>. QED
        BY <3>1, <3>2
    <2>5. Follow(g, base, step, m)
      <3>. HIDE DEF g
      <3>. QED
        BY <2>3, <2>4 DEF Follow
    <2>. HIDE DEF g
    <2>. QED
      BY <2>3, <2>5
  <1>3. n \in Good
    <2>. HIDE DEF Good
    <2>1. \A m \in 0..n : m \in Good
      BY <1>1, <1>2, UpTo
    <2>. QED
      BY <2>1
  <1>. QED
    BY <1>3

(* The steps of such a function, one by one.                               *)
Taken(f, X, base, step, n) ==
    /\ f \in [0..n -> X]
    /\ f[0] = base
    /\ \A k \in 1..n : f[k - 1] \in X /\ f[k] = step[<<f[k - 1], k>>]

LEMMA FoldSteps ==
    ASSUME NEW X, NEW base \in X, NEW n \in Nat, NEW step \in [X \X (1..n) -> X]
    PROVE  \E f : Taken(f, X, base, step, n)
  <1>1. PICK f \in [0..n -> X] : Follow(f, base, step, n)
    BY FoldExists
  <1>2. \A k \in 0..n : f[k] = IF k = 0 THEN base ELSE step[<<f[k - 1], k>>]
    BY <1>1 DEF Follow
  <1>3. 0 \in 0..n /\ \A k \in 1..n : k \in 0..n /\ k # 0 /\ k - 1 \in 0..n
    OBVIOUS
  <1>. QED
    BY <1>2, <1>3 DEF Taken

-----------------------------------------------------------------------------
(* The elements of a list that are in a set.                               *)

LEMMA AppendOfSet ==
    ASSUME NEW S, NEW list \in Seq(S), NEW e \in S
    PROVE  /\ Append(list, e) \in Seq(S)
           /\ ToSet(Append(list, e)) = ToSet(list) \cup {e}
  <1>1. Append(list, e) \in Seq(S) /\ Len(list) \in Nat
    BY AppendProperties
  <1>2. DOMAIN Append(list, e) = 1..(Len(list) + 1) /\ DOMAIN list = 1..Len(list)
    BY AppendProperties, LenProperties
  <1>3. /\ \A k \in 1..Len(list) : Append(list, e)[k] = list[k]
        /\ Append(list, e)[Len(list) + 1] = e
    BY AppendProperties
  <1>4. 1..(Len(list) + 1) = 1..Len(list) \cup {Len(list) + 1}
    BY <1>1
  <1>. QED
    BY <1>1, <1>2, <1>3, <1>4 DEF ToSet

LEMMA SeqOfMore ==
    ASSUME NEW S, NEW T, S \subseteq T, NEW list \in Seq(S)
    PROVE  list \in Seq(T)
  OBVIOUS

(* w[n] are those among the first n elements.                              *)
Selects(w, list, those) ==
    /\ w[0] = <<>>
    /\ \A k \in 1..Len(list) :
          w[k] = IF list[k] \in those THEN Append(w[k - 1], list[k]) ELSE w[k - 1]

LEMMA WhereSelects ==
    ASSUME NEW S, NEW list \in Seq(S), NEW those
    PROVE  \E w : Selects(w, list, those) /\ Where(list, those) = w[Len(list)]
  <1>. DEFINE n == Len(list)
              none == <<>>
              X == Seq(S)
              Op(kept, e) == IF e \in those THEN Append(kept, e) ELSE kept
              step == [p \in X \X (1..n) |-> Op(p[1], list[p[2]])]
              Is(f) == f = [k \in 0..n |-> IF k = 0 THEN <<>>
                               ELSE IF list[k] \in those THEN Append(f[k - 1], list[k])
                                    ELSE f[k - 1]]
  <1>1. n \in Nat /\ \A k \in 1..n : list[k] \in S
    BY ElementOfSeq
  <1>2. step \in [X \X (1..n) -> X] /\ none \in X
    BY <1>1, AppendProperties, EmptySeq
  <1>3. PICK f : Taken(f, X, none, step, n)
    <2>. HIDE DEF n, step, none, X
    <2>. QED
      BY <1>1, <1>2, FoldSteps
  <1>4. /\ f \in [0..n -> X]
        /\ \A k \in 0..n : f[k] = IF k = 0 THEN none ELSE Op(f[k - 1], list[k])
    <2>1. \A k \in 1..n : f[k] = Op(f[k - 1], list[k])
      BY <1>3 DEF Taken
    <2>2. f \in [0..n -> X] /\ f[0] = none
      <3>. HIDE DEF n, step, Op, X, none
      <3>. QED
        BY <1>3 DEF Taken
    <2>3. ASSUME NEW k \in 0..n
          PROVE  f[k] = IF k = 0 THEN none ELSE Op(f[k - 1], list[k])
      <3>1. k = 0 \/ k \in 1..n
        BY <1>1
      <3>. HIDE DEF n, step, Op, X, none
      <3>. QED
        BY <2>1, <2>2, <3>1
    <2>. QED
      BY <2>2, <2>3
  <1>5. Is(f)
    <2>. HIDE DEF n, step, X
    <2>. QED
      BY <1>4
  <1>6. PICK w : Is(w) /\ Where(list, those) = w[n]
    BY <1>5 DEF Where, Folded
  <1>7. \A k \in 0..n : w[k] = IF k = 0 THEN <<>> ELSE Op(w[k - 1], list[k])
    <2>. HIDE DEF n
    <2>. QED
      BY <1>6
  <1>8. Selects(w, list, those)
    <2>. HIDE DEF Is
    <2>. QED
      BY <1>1, <1>7 DEF Selects
  <1>. QED
    BY <1>6, <1>8

LEMMA WhereList ==
    ASSUME NEW S, NEW list \in Seq(S), NEW those
    PROVE  /\ Where(list, those) \in Seq(S)
           /\ ToSet(Where(list, those)) = ToSet(list) \cap those
  <1>1. PICK w : Selects(w, list, those) /\ Where(list, those) = w[Len(list)]
    BY WhereSelects
  <1>. DEFINE n == Len(list)
              Good == {k \in 0..n : /\ w[k] \in Seq(S)
                                    /\ ToSet(w[k]) = {list[i] : i \in 1..k} \cap those}
  <1>2. n \in Nat /\ ToSet(list) = {list[i] : i \in 1..n} /\ \A k \in 1..n : list[k] \in S
    BY ElementOfSeq, LenProperties DEF ToSet
  <1>3. 0 \in Good
    <2>1. ToSet(<<>>) = {} /\ <<>> \in Seq(S)
      BY EmptySeq DEF ToSet
    <2>2. 0 \in 0..n /\ {list[i] : i \in 1..0} = {}
      BY <1>2
    <2>. HIDE DEF n
    <2>. QED
      BY <1>1, <2>1, <2>2 DEF Selects
  <1>4. ASSUME NEW k \in 1..n, k - 1 \in Good PROVE k \in Good
    <2>1. w[k] = IF list[k] \in those THEN Append(w[k - 1], list[k]) ELSE w[k - 1]
      BY <1>1 DEF Selects
    <2>2. /\ w[k - 1] \in Seq(S) /\ list[k] \in S /\ k \in 0..n
          /\ ToSet(w[k - 1]) = {list[i] : i \in 1..(k - 1)} \cap those
      BY <1>2, <1>4
    <2>3. {list[i] : i \in 1..k} = {list[i] : i \in 1..(k - 1)} \cup {list[k]}
      <3>1. 1..k = 1..(k - 1) \cup {k}
        BY <1>2
      <3>. QED
        BY <3>1
    <2>4. /\ Append(w[k - 1], list[k]) \in Seq(S)
          /\ ToSet(Append(w[k - 1], list[k])) = ToSet(w[k - 1]) \cup {list[k]}
      BY <2>2, AppendOfSet
    <2>. HIDE DEF n
    <2>. QED
      BY <2>1, <2>2, <2>3, <2>4
  <1>5. n \in Good
    <2>1. \A k \in 0..n : k \in Good
      <3>. HIDE DEF n, Good
      <3>. QED
        BY <1>2, <1>3, <1>4, UpTo
    <2>2. n \in 0..n
      BY <1>2
    <2>. HIDE DEF n, Good
    <2>. QED
      BY <2>1, <2>2
  <1>. QED
    BY <1>1, <1>2, <1>5

LEMMA WhereAll ==
    ASSUME NEW S, NEW list \in Seq(S), NEW those, ToSet(list) \subseteq those
    PROVE  Where(list, those) = list
  <1>1. PICK w : Selects(w, list, those) /\ Where(list, those) = w[Len(list)]
    BY WhereSelects
  <1>. DEFINE n == Len(list)
              Good == {k \in 0..n : w[k] = SubSeq(list, 1, k)}
  <1>2. n \in Nat /\ \A k \in 1..n : list[k] \in S /\ list[k] \in those
    BY ElementOfSeq, LenProperties DEF ToSet
  <1>3. 0 \in Good
    <2>1. SubSeq(list, 1, 0) = <<>>
      BY SubSeqProperties
    <2>2. 0 \in 0..n
      BY <1>2
    <2>3. w[0] = <<>>
      BY <1>1 DEF Selects
    <2>. QED
      BY <2>1, <2>2, <2>3
  <1>4. ASSUME NEW k \in 1..n, k - 1 \in Good PROVE k \in Good
    <2>1. w[k] = Append(w[k - 1], list[k]) /\ w[k - 1] = SubSeq(list, 1, k - 1)
      BY <1>1, <1>2, <1>4 DEF Selects
    <2>2. SubSeq(list, 1, k) = Append(SubSeq(list, 1, k - 1), list[k])
      BY <1>2
    <2>3. k \in 0..n
      BY <1>2
    <2>. QED
      BY <2>1, <2>2, <2>3
  <1>5. n \in Good
    <2>1. \A k \in 0..n : k \in Good
      <3>. HIDE DEF n, Good
      <3>. QED
        BY <1>2, <1>3, <1>4, UpTo
    <2>2. n \in 0..n
      BY <1>2
    <2>. HIDE DEF n, Good
    <2>. QED
      BY <2>1, <2>2
  <1>6. SubSeq(list, 1, n) = list
    BY <1>2
  <1>. QED
    BY <1>1, <1>5, <1>6

(* Sums of numbers.                                                        *)
LEMMA TotalNat ==
    ASSUME NEW rows, NEW list \in Seq(CaseIds), NEW column,
           \A k \in 1..Len(list) : rows[list[k]][column] \in Nat
    PROVE  Total(rows, list, column) \in Nat
  <1>. DEFINE n == Len(list)
              base == 0
              X == Nat
              Op(x, e) == x + rows[e][column]
              step == [p \in X \X (1..n) |-> Op(p[1], list[p[2]])]
              Is(f) == f = [k \in 0..n |-> IF k = 0 THEN 0 ELSE f[k - 1] + rows[list[k]][column]]
  <1>1. /\ n \in Nat
        /\ base \in X
        /\ \A k \in 1..n, x \in X : Op(x, list[k]) \in X
    BY LenProperties
  <1>2. step \in [X \X (1..n) -> X] /\ base \in X
    <2>. HIDE DEF n, Op, X
    <2>. QED
      BY <1>1
  <1>3. PICK f : Taken(f, X, base, step, n)
    <2>. HIDE DEF n, step, base, X
    <2>. QED
      BY <1>1, <1>2, FoldSteps
  <1>4. /\ f \in [0..n -> X]
        /\ \A k \in 0..n : f[k] = IF k = 0 THEN base ELSE Op(f[k - 1], list[k])
    <2>1. \A k \in 1..n : f[k] = Op(f[k - 1], list[k])
      <3>. HIDE DEF n, Op, X
      <3>. QED
        BY <1>3 DEF Taken
    <2>. HIDE DEF n, step, Op, X
    <2>. QED
      BY <1>1, <1>3, <2>1 DEF Taken
  <1>5. Is(f)
    <2>. HIDE DEF n, step, X
    <2>. QED
      BY <1>4
  <1>6. PICK w : Is(w) /\ Total(rows, list, column) = w[n]
    BY <1>5 DEF Total, Folded
  <1>7. \A k \in 0..n : w[k] = IF k = 0 THEN base ELSE Op(w[k - 1], list[k])
    <2>. HIDE DEF n
    <2>. QED
      BY <1>6
  <1>. DEFINE Good == {k \in 0..n : w[k] \in X}
  <1>8. n \in Good
    <2>. HIDE DEF n, step, Op, X, base, Is
    <2>1. 0 \in Good
      BY <1>1, <1>7
    <2>2. ASSUME NEW k \in 1..n, k - 1 \in Good PROVE k \in Good
      <3>1. k \in 0..n /\ k # 0 /\ w[k - 1] \in X
        BY <1>1, <2>2
      <3>. QED
        BY <1>1, <1>7, <3>1
    <2>3. \A k \in 0..n : k \in Good
      <3>. HIDE DEF Good
      <3>. QED
        BY <1>1, <2>1, <2>2, UpTo
    <2>. QED
      BY <1>1, <2>3
  <1>. QED
    BY <1>6, <1>8

(* The public addresses of a case, then of all.                            *)
LEMMA AddPublicType ==
    ASSUME NEW known \in Seq(Addresses \ Private), NEW ips \in Seq(Addresses)
    PROVE  Folded(AddPublic, known, ips) \in Seq(Addresses \ Private)
  <1>. DEFINE n == Len(ips)
              base == known
              X == Seq(Addresses \ Private)
              Op(x, e) == AddPublic(x, e)
              step == [p \in X \X (1..n) |-> Op(p[1], ips[p[2]])]
              Is(f) == f = [k \in 0..n |-> IF k = 0 THEN known ELSE AddPublic(f[k - 1], ips[k])]
  <1>1. /\ n \in Nat
        /\ base \in X
        /\ \A k \in 1..n, x \in X : Op(x, ips[k]) \in X
    <2>1. \A k \in 1..n : ips[k] \in Addresses
      BY ElementOfSeq
    <2>. QED
      BY <2>1, LenProperties, AppendProperties DEF AddPublic
  <1>2. step \in [X \X (1..n) -> X] /\ base \in X
    <2>. HIDE DEF n, Op, X
    <2>. QED
      BY <1>1
  <1>3. PICK f : Taken(f, X, base, step, n)
    <2>. HIDE DEF n, step, base, X
    <2>. QED
      BY <1>1, <1>2, FoldSteps
  <1>4. /\ f \in [0..n -> X]
        /\ \A k \in 0..n : f[k] = IF k = 0 THEN base ELSE Op(f[k - 1], ips[k])
    <2>1. \A k \in 1..n : f[k] = Op(f[k - 1], ips[k])
      <3>. HIDE DEF n, Op, X
      <3>. QED
        BY <1>3 DEF Taken
    <2>. HIDE DEF n, step, Op, X
    <2>. QED
      BY <1>1, <1>3, <2>1 DEF Taken
  <1>5. Is(f)
    <2>. HIDE DEF n, step, X
    <2>. QED
      BY <1>4
  <1>6. PICK w : Is(w) /\ Folded(AddPublic, known, ips) = w[n]
    BY <1>5 DEF Folded
  <1>7. \A k \in 0..n : w[k] = IF k = 0 THEN base ELSE Op(w[k - 1], ips[k])
    <2>. HIDE DEF n
    <2>. QED
      BY <1>6
  <1>. DEFINE Good == {k \in 0..n : w[k] \in X}
  <1>8. n \in Good
    <2>. HIDE DEF n, step, Op, X, base, Is
    <2>1. 0 \in Good
      BY <1>1, <1>7
    <2>2. ASSUME NEW k \in 1..n, k - 1 \in Good PROVE k \in Good
      <3>1. k \in 0..n /\ k # 0 /\ w[k - 1] \in X
        BY <1>1, <2>2
      <3>. QED
        BY <1>1, <1>7, <3>1
    <2>3. \A k \in 0..n : k \in Good
      <3>. HIDE DEF Good
      <3>. QED
        BY <1>1, <2>1, <2>2, UpTo
    <2>. QED
      BY <1>1, <2>3
  <1>. QED
    BY <1>6, <1>8

LEMMA PublicIpsType ==
    ASSUME NEW rows, NEW order \in Seq(CaseIds),
           \A k \in 1..Len(order) : rows[order[k]].ips \in Seq(Addresses)
    PROVE  PublicIps(rows, order) \in Seq(Addresses \ Private)
  <1>. DEFINE n == Len(order)
              base == <<>>
              X == Seq(Addresses \ Private)
              Op(x, e) == Folded(AddPublic, x, rows[e].ips)
              step == [p \in X \X (1..n) |-> Op(p[1], order[p[2]])]
              Is(f) == f = [k \in 0..n |-> IF k = 0 THEN <<>>
                               ELSE Folded(AddPublic, f[k - 1], rows[order[k]].ips)]
  <1>1. /\ n \in Nat
        /\ base \in X
        /\ \A k \in 1..n, x \in X : Op(x, order[k]) \in X
    BY LenProperties, EmptySeq, AddPublicType
  <1>2. step \in [X \X (1..n) -> X] /\ base \in X
    <2>. HIDE DEF n, Op, X
    <2>. QED
      BY <1>1
  <1>3. PICK f : Taken(f, X, base, step, n)
    <2>. HIDE DEF n, step, base, X
    <2>. QED
      BY <1>1, <1>2, FoldSteps
  <1>4. /\ f \in [0..n -> X]
        /\ \A k \in 0..n : f[k] = IF k = 0 THEN base ELSE Op(f[k - 1], order[k])
    <2>1. \A k \in 1..n : f[k] = Op(f[k - 1], order[k])
      <3>. HIDE DEF n, Op, X
      <3>. QED
        BY <1>3 DEF Taken
    <2>. HIDE DEF n, step, Op, X
    <2>. QED
      BY <1>1, <1>3, <2>1 DEF Taken
  <1>5. Is(f)
    <2>. HIDE DEF n, step, X
    <2>. QED
      BY <1>4
  <1>6. PICK w : Is(w) /\ PublicIps(rows, order) = w[n]
    BY <1>5 DEF PublicIps, Folded
  <1>7. \A k \in 0..n : w[k] = IF k = 0 THEN base ELSE Op(w[k - 1], order[k])
    <2>. HIDE DEF n
    <2>. QED
      BY <1>6
  <1>. DEFINE Good == {k \in 0..n : w[k] \in X}
  <1>8. n \in Good
    <2>. HIDE DEF n, step, Op, X, base, Is
    <2>1. 0 \in Good
      BY <1>1, <1>7
    <2>2. ASSUME NEW k \in 1..n, k - 1 \in Good PROVE k \in Good
      <3>1. k \in 0..n /\ k # 0 /\ w[k - 1] \in X
        BY <1>1, <2>2
      <3>. QED
        BY <1>1, <1>7, <3>1
    <2>3. \A k \in 0..n : k \in Good
      <3>. HIDE DEF Good
      <3>. QED
        BY <1>1, <2>1, <2>2, UpTo
    <2>. QED
      BY <1>1, <2>3
  <1>. QED
    BY <1>6, <1>8

-----------------------------------------------------------------------------
(* The rows and lists of the model.                                        *)
Rows == [CaseIds -> CaseRow \cup {NoCase}]
EntitySets == [users : SUBSET Users, ips : SUBSET Addresses, devices : SUBSET Devices]
Lists == Seq(CaseIds) \ {<<>>}
ClusterRows == [cases : Lists, has : EntitySets]
IncidentRows ==
    [links : Seq(CaseIds), stages : SUBSET Stages, count : Nat, severity : 0..3, score : 0..100]

(* A list of cases whose rows are there.                                   *)
ListOf(rows, list) ==
    /\ rows \in Rows /\ list \in Seq(CaseIds)
    /\ \A c \in ToSet(list) : rows[c] # NoCase

LEMMA ListRows ==
    ASSUME NEW rows, NEW list, ListOf(rows, list)
    PROVE  /\ Len(list) \in Nat /\ DOMAIN list = 1..Len(list)
           /\ \A k \in 1..Len(list) : list[k] \in CaseIds /\ rows[list[k]] \in CaseRow
           /\ \A c \in ToSet(list) : c \in CaseIds /\ rows[c] \in CaseRow
  <1>1. /\ Len(list) \in Nat /\ DOMAIN list = 1..Len(list)
        /\ \A k \in 1..Len(list) : list[k] \in CaseIds
    BY ElementOfSeq, LenProperties DEF ListOf
  <1>2. ToSet(list) = {list[k] : k \in 1..Len(list)}
    BY <1>1 DEF ToSet
  <1>. QED
    BY <1>1, <1>2 DEF ListOf, Rows

LEMMA EntitiesType ==
    ASSUME NEW row \in CaseRow
    PROVE  EntitiesOf(row) \in EntitySets
  <1>1. row.user \in Users /\ row.ips \in Seq(Addresses) /\ row.device \in Devices
    BY DEF CaseRow
  <1>2. ToSet(row.ips) \subseteq Addresses
    BY <1>1, ElementOfSeq, LenProperties DEF ToSet
  <1>. QED
    BY <1>1, <1>2 DEF EntitiesOf, EntitySets, Named

LEMMA WithIpList ==
    ASSUME NEW rows, NEW order, ListOf(rows, order), NEW ip
    PROVE  ListOf(rows, WithIp(rows, order, ip))
  <1>1. order \in Seq(CaseIds)
    BY DEF ListOf
  <1>2. /\ WithIp(rows, order, ip) \in Seq(CaseIds)
        /\ ToSet(WithIp(rows, order, ip)) \subseteq ToSet(order)
    BY <1>1, WhereList DEF WithIp
  <1>. QED
    BY <1>2 DEF ListOf

LEMMA ClusterType ==
    ASSUME NEW rows, NEW list, ListOf(rows, list), list # <<>>
    PROVE  Cluster(rows, list) \in ClusterRows
  <1>1. \A c \in ToSet(list) : EntitiesOf(rows[c]) \in EntitySets
    BY ListRows, EntitiesType
  <1>. DEFINE of == {EntitiesOf(rows[c]) : c \in ToSet(list)}
  <1>2. \A e \in of : e.users \in SUBSET Users /\ e.ips \in SUBSET Addresses
                                              /\ e.devices \in SUBSET Devices
    <2>1. of \subseteq EntitySets
      BY <1>1
    <2>. QED
      BY <2>1 DEF EntitySets
  <1>3. /\ UNION {e.users : e \in of} \in SUBSET Users
        /\ UNION {e.ips : e \in of} \in SUBSET Addresses
        /\ UNION {e.devices : e \in of} \in SUBSET Devices
    <2>. HIDE DEF of
    <2>. QED
      BY <1>2
  <1>4. list \in Lists
    BY DEF Lists, ListOf
  <1>. QED
    BY <1>3, <1>4 DEF Cluster, ClusterRows, EntitySets

(* The clusters the sprays seed, each of the cases of a public address.    *)
OfSpray(rows, order, x) ==
    \E ip \in Addresses \ Private :
        /\ IsSpray(rows, WithIp(rows, order, ip)) /\ WithIp(rows, order, ip) # <<>>
        /\ x = Cluster(rows, WithIp(rows, order, ip))
SprayRows(rows, order) == {x \in ClusterRows : OfSpray(rows, order, x)}

LEMMA AddSprayType ==
    ASSUME NEW rows, NEW order, ListOf(rows, order), NEW ip \in Addresses \ Private,
           NEW clusters \in Seq(SprayRows(rows, order))
    PROVE  AddSpray(rows, clusters, WithIp(rows, order, ip)) \in Seq(SprayRows(rows, order))
  <1>. DEFINE list == WithIp(rows, order, ip)
  <1>1. ListOf(rows, list)
    BY WithIpList
  <1>. HIDE DEF list
  <1>2. CASE IsSpray(rows, list)
    <2>1. Len(list) # 0
      BY <1>1, <1>2, ListRows, CorrelationAssumption DEF IsSpray
    <2>2. list # <<>>
      BY <2>1, EmptySeq
    <2>3. Cluster(rows, list) \in ClusterRows
      BY <1>1, <2>2, ClusterType
    <2>4. Cluster(rows, list) \in SprayRows(rows, order)
      BY <1>2, <2>2, <2>3 DEF SprayRows, OfSpray, list
    <2>5. Append(clusters, Cluster(rows, list)) \in Seq(SprayRows(rows, order))
      BY <2>4, AppendProperties
    <2>. QED
      BY <1>2, <2>5 DEF AddSpray, list
  <1>3. CASE ~IsSpray(rows, list)
    BY <1>3 DEF AddSpray, list
  <1>. QED
    BY <1>2, <1>3

LEMMA SprayClustersType ==
    ASSUME NEW rows, NEW order, ListOf(rows, order)
    PROVE  SprayClusters(rows, order) \in Seq(SprayRows(rows, order))
  <1>. DEFINE n == Len(PublicIps(rows, order))
              base == <<>>
              X == Seq(SprayRows(rows, order))
              Op(x, e) == AddSpray(rows, x, WithIp(rows, order, e))
              step == [p \in X \X (1..n) |-> Op(p[1], PublicIps(rows, order)[p[2]])]
              Is(f) == f = [k \in 0..n |-> IF k = 0 THEN <<>>
                               ELSE AddSpray(rows, f[k - 1],
                                             WithIp(rows, order, PublicIps(rows, order)[k]))]
  <1>1. /\ n \in Nat
        /\ base \in X
        /\ \A k \in 1..n, x \in X : Op(x, PublicIps(rows, order)[k]) \in X
    <2>1. PublicIps(rows, order) \in Seq(Addresses \ Private)
      <3>1. \A k \in 1..Len(order) : rows[order[k]].ips \in Seq(Addresses)
        BY ListRows DEF CaseRow
      <3>. QED
        BY <3>1, PublicIpsType DEF ListOf
    <2>. QED
      BY <2>1, LenProperties, EmptySeq, AddSprayType
  <1>2. step \in [X \X (1..n) -> X] /\ base \in X
    <2>. HIDE DEF n, Op, X
    <2>. QED
      BY <1>1
  <1>3. PICK f : Taken(f, X, base, step, n)
    <2>. HIDE DEF n, step, base, X
    <2>. QED
      BY <1>1, <1>2, FoldSteps
  <1>4. /\ f \in [0..n -> X]
        /\ \A k \in 0..n : f[k] = IF k = 0 THEN base ELSE Op(f[k - 1], PublicIps(rows, order)[k])
    <2>1. \A k \in 1..n : f[k] = Op(f[k - 1], PublicIps(rows, order)[k])
      <3>. HIDE DEF n, Op, X
      <3>. QED
        BY <1>3 DEF Taken
    <2>. HIDE DEF n, step, Op, X
    <2>. QED
      BY <1>1, <1>3, <2>1 DEF Taken
  <1>5. Is(f)
    <2>. HIDE DEF n, step, X
    <2>. QED
      BY <1>4
  <1>6. PICK w : Is(w) /\ SprayClusters(rows, order) = w[n]
    BY <1>5 DEF SprayClusters, Folded
  <1>7. \A k \in 0..n : w[k] = IF k = 0 THEN base ELSE Op(w[k - 1], PublicIps(rows, order)[k])
    <2>. HIDE DEF n
    <2>. QED
      BY <1>6
  <1>. DEFINE Good == {k \in 0..n : w[k] \in X}
  <1>8. n \in Good
    <2>. HIDE DEF n, step, Op, X, base, Is
    <2>1. 0 \in Good
      BY <1>1, <1>7
    <2>2. ASSUME NEW k \in 1..n, k - 1 \in Good PROVE k \in Good
      <3>1. k \in 0..n /\ k # 0 /\ w[k - 1] \in X
        BY <1>1, <2>2
      <3>. QED
        BY <1>1, <1>7, <3>1
    <2>3. \A k \in 0..n : k \in Good
      <3>. HIDE DEF Good
      <3>. QED
        BY <1>1, <2>1, <2>2, UpTo
    <2>. QED
      BY <1>1, <2>3
  <1>. QED
    BY <1>6, <1>8

(* The first of some clusters is one of them.                              *)
LEMMA FirstOfThem ==
    ASSUME NEW T \in SUBSET Nat, T # {}
    PROVE  Min(T) \in T
  BY LeastOfNats DEF Min

LEMMA ChangedCluster ==
    ASSUME NEW clusters \in Seq(ClusterRows), NEW T \in SUBSET DOMAIN clusters, T # {},
           NEW c \in CaseIds
    PROVE  /\ Min(T) \in 1..Len(clusters)
           /\ clusters[Min(T)].has \in EntitySets
           /\ Append(clusters[Min(T)].cases, c) \in Lists
  <1>1. DOMAIN clusters = 1..Len(clusters) /\ Len(clusters) \in Nat
    BY LenProperties
  <1>2. T \in SUBSET Nat
    BY <1>1
  <1>3. Min(T) \in 1..Len(clusters)
    BY <1>1, <1>2, FirstOfThem
  <1>4. clusters[Min(T)] \in ClusterRows
    BY <1>3, ElementOfSeq
  <1>5. clusters[Min(T)].cases \in Seq(CaseIds) /\ clusters[Min(T)].has \in EntitySets
    BY <1>4 DEF ClusterRows, Lists
  <1>6. Append(clusters[Min(T)].cases, c) \in Seq(CaseIds) /\ Append(clusters[Min(T)].cases, c) # <<>>
    BY <1>5, AppendProperties, EmptySeq
  <1>. QED
    BY <1>3, <1>5, <1>6 DEF Lists

LEMMA PlaceType ==
    ASSUME NEW rows, NEW egress, NEW clusters \in Seq(ClusterRows), NEW c \in CaseIds,
           rows[c] \in CaseRow
    PROVE  Place(rows, egress, clusters, c) \in Seq(ClusterRows)
  <1>. DEFINE own == EntitiesOf(rows[c])
              has == [users |-> own.users, ips |-> own.ips \ egress, devices |-> own.devices]
              weak == rows[c].score < Threshold(rows[c])
              kept == IF weak THEN Rescue(rows, clusters, c, has) ELSE clusters
  <1>1. has \in EntitySets
    <2>1. own \in EntitySets
      BY EntitiesType
    <2>. HIDE DEF own
    <2>. QED
      BY <2>1 DEF EntitySets
  <1>. HIDE DEF has
  <1>2. Rescue(rows, clusters, c, has) \in Seq(ClusterRows)
    <2>. DEFINE T == RescueInto(rows, clusters, c, has)
    <2>1. T \in SUBSET DOMAIN clusters
      BY DEF RescueInto
    <2>2. CASE T = {}
      BY <2>2 DEF Rescue
    <2>3. CASE T # {}
      <3>. DEFINE i == Min(T)
                  row == [cases |-> Append(clusters[i].cases, c),
                          has |-> Joined(clusters[i].has, has)]
      <3>1. /\ i \in 1..Len(clusters) /\ clusters[i].has \in EntitySets
            /\ Append(clusters[i].cases, c) \in Lists
        <4>. HIDE DEF T
        <4>. QED
          BY <2>1, <2>3, ChangedCluster
      <3>. HIDE DEF T, i
      <3>2. row \in ClusterRows
        BY <1>1, <3>1 DEF Joined, ClusterRows, EntitySets
      <3>3. [clusters EXCEPT ![i] = row] \in Seq(ClusterRows)
        <4>. HIDE DEF row
        <4>. QED
          BY <3>1, <3>2, ExceptSeq
      <3>. QED
        BY <2>3, <3>3 DEF Rescue, T, i
    <2>. QED
      BY <2>2, <2>3
  <1>3. kept \in Seq(ClusterRows)
    BY <1>2
  <1>. HIDE DEF kept
  <1>4. Link(rows, kept, c, has) \in Seq(ClusterRows)
    <2>. DEFINE T == LinkInto(rows, kept, c, has)
    <2>1. T \in SUBSET DOMAIN kept
      BY DEF LinkInto
    <2>2. CASE T = {}
      <3>1. <<c>> \in Seq(CaseIds) /\ <<c>> # <<>>
        OBVIOUS
      <3>2. [cases |-> <<c>>, has |-> has] \in ClusterRows
        BY <1>1, <3>1 DEF ClusterRows, Lists
      <3>3. Append(kept, [cases |-> <<c>>, has |-> has]) \in Seq(ClusterRows)
        BY <1>3, <3>2, AppendProperties
      <3>. QED
        BY <2>2, <3>3 DEF Link
    <2>3. CASE T # {}
      <3>. DEFINE i == Min(T)
                  row == [cases |-> Append(kept[i].cases, c),
                          has   |-> [users   |-> kept[i].has.users \cup has.users,
                                     ips     |-> kept[i].has.ips,
                                     devices |-> kept[i].has.devices]]
      <3>1. /\ i \in 1..Len(kept) /\ kept[i].has \in EntitySets
            /\ Append(kept[i].cases, c) \in Lists
        <4>. HIDE DEF T
        <4>. QED
          BY <1>3, <2>1, <2>3, ChangedCluster
      <3>. HIDE DEF T, i
      <3>2. row \in ClusterRows
        BY <1>1, <3>1 DEF ClusterRows, EntitySets
      <3>3. [kept EXCEPT ![i] = row] \in Seq(ClusterRows)
        <4>. HIDE DEF row
        <4>. QED
          BY <1>3, <3>1, <3>2, ExceptSeq
      <3>. QED
        BY <2>3, <3>3 DEF Link, T, i
    <2>. QED
      BY <2>2, <2>3
  <1>5. Place(rows, egress, clusters, c) \in {kept, Link(rows, kept, c, has)}
    BY DEF Place, kept, has
  <1>. QED
    BY <1>3, <1>4, <1>5

(* The cases on no spray address, and the pass that places them: w[k] are  *)
(* the clusters after k of them.                                           *)
SprayedCases(rows, order) ==
    UNION {ToSet(SprayClusters(rows, order)[k].cases) : k \in DOMAIN SprayClusters(rows, order)}
Rest(rows, order) == Where(order, CaseIds \ SprayedCases(rows, order))
Passes(w, rows, order, rest) ==
    /\ w[0] = SprayClusters(rows, order)
    /\ \A k \in 0..Len(rest) : w[k] \in Seq(ClusterRows)
    /\ \A k \in 1..Len(rest) :
          w[k] = Place(rows, SharedEgress(rows, order), w[k - 1], rest[k])

LEMMA ClusterCasesSteps ==
    ASSUME NEW rows, NEW order, ListOf(rows, order), NEW rest, rest = Rest(rows, order)
    PROVE  \E w : Passes(w, rows, order, rest) /\ ClusterCases(rows, order) = w[Len(rest)]
  <1>. DEFINE n == Len(rest)
              base == SprayClusters(rows, order)
              X == Seq(ClusterRows)
              Op(x, e) == Place(rows, SharedEgress(rows, order), x, e)
              step == [p \in X \X (1..n) |-> Op(p[1], rest[p[2]])]
              Is(f) == f = [k \in 0..n |-> IF k = 0 THEN SprayClusters(rows, order)
                               ELSE Place(rows, SharedEgress(rows, order), f[k - 1], rest[k])]
  <1>1. /\ n \in Nat
        /\ base \in X
        /\ \A k \in 1..n, x \in X : Op(x, rest[k]) \in X
    <2>1. ListOf(rows, rest)
      <3>1. rest \in Seq(CaseIds) /\ ToSet(rest) \subseteq ToSet(order)
        BY WhereList DEF ListOf, Rest
      <3>. QED
        BY <3>1 DEF ListOf
    <2>2. base \in X
      <3>1. SprayRows(rows, order) \subseteq ClusterRows
        BY DEF SprayRows
      <3>. QED
        BY <3>1, SprayClustersType, SeqOfMore
    <2>. QED
      BY <2>1, <2>2, ListRows, PlaceType
  <1>2. step \in [X \X (1..n) -> X] /\ base \in X
    <2>. HIDE DEF n, Op, X
    <2>. QED
      BY <1>1
  <1>3. PICK f : Taken(f, X, base, step, n)
    <2>. HIDE DEF n, step, base, X
    <2>. QED
      BY <1>1, <1>2, FoldSteps
  <1>4. /\ f \in [0..n -> X]
        /\ \A k \in 0..n : f[k] = IF k = 0 THEN base ELSE Op(f[k - 1], rest[k])
    <2>1. \A k \in 1..n : f[k] = Op(f[k - 1], rest[k])
      <3>. HIDE DEF n, Op, X
      <3>. QED
        BY <1>3 DEF Taken
    <2>. HIDE DEF n, step, Op, X
    <2>. QED
      BY <1>1, <1>3, <2>1 DEF Taken
  <1>5. Is(f)
    <2>. HIDE DEF n, step, X
    <2>. QED
      BY <1>4
  <1>6. PICK w : Is(w) /\ ClusterCases(rows, order) = w[n]
    BY <1>5 DEF ClusterCases, Folded, Rest, SprayedCases
  <1>7. \A k \in 0..n : w[k] = IF k = 0 THEN base ELSE Op(w[k - 1], rest[k])
    <2>. HIDE DEF n
    <2>. QED
      BY <1>6
  <1>. DEFINE Good == {k \in 0..n : w[k] \in X}
  <1>8. \A k \in 0..n : k \in Good
    <2>. HIDE DEF n, step, Op, X, base, Is
    <2>1. 0 \in Good
      BY <1>1, <1>7
    <2>2. ASSUME NEW k \in 1..n, k - 1 \in Good PROVE k \in Good
      <3>1. k \in 0..n /\ k # 0 /\ w[k - 1] \in X
        BY <1>1, <2>2
      <3>. QED
        BY <1>1, <1>7, <3>1
    <2>. HIDE DEF Good
    <2>. QED
      BY <1>1, <2>1, <2>2, UpTo
  <1>9. w[0] = base /\ \A k \in 1..n : w[k] = Op(w[k - 1], rest[k])
    <2>. HIDE DEF n, Op, base, Is
    <2>. QED
      BY <1>1, <1>7
  <1>10. \A k \in 0..n : w[k] \in X
    <2>. HIDE DEF n, X, Is
    <2>. QED
      BY <1>8
  <1>11. Passes(w, rows, order, rest)
    <2>. HIDE DEF Is
    <2>. QED
      BY <1>9, <1>10 DEF Passes
  <1>. QED
    BY <1>6, <1>11

(* What a run takes are clusters of cases, none of them empty.             *)
LEMMA RunClusters ==
    ASSUME NEW rows, NEW order, ListOf(rows, order)
    PROVE  ClusterCases(rows, order) \in Seq(ClusterRows)
  <1>. DEFINE rest == Rest(rows, order)
  <1>1. PICK w : Passes(w, rows, order, rest) /\ ClusterCases(rows, order) = w[Len(rest)]
    BY ClusterCasesSteps
  <1>2. Len(rest) \in Nat
    BY WhereList, LenProperties DEF ListOf, Rest
  <1>. QED
    BY <1>1, <1>2 DEF Passes

-----------------------------------------------------------------------------
(* The links of an incident.                                               *)

LEMMA WithLinksList ==
    ASSUME NEW links \in Seq(CaseIds), NEW list \in Seq(CaseIds)
    PROVE  WithLinks(links, list) \in
              {l \in Seq(CaseIds) : /\ ToSet(links) \subseteq ToSet(l)
                                    /\ ToSet(l) \subseteq ToSet(links) \cup ToSet(list)}
  <1>. DEFINE n == Len(list)
              base == links
              X == {l \in Seq(CaseIds) : /\ ToSet(links) \subseteq ToSet(l)
                                         /\ ToSet(l) \subseteq ToSet(links) \cup ToSet(list)}
              Op(x, e) == IF e \in ToSet(x) THEN x ELSE Append(x, e)
              step == [p \in X \X (1..n) |-> Op(p[1], list[p[2]])]
              Is(f) == f = [k \in 0..n |-> IF k = 0 THEN links
                               ELSE IF list[k] \in ToSet(f[k - 1]) THEN f[k - 1]
                                    ELSE Append(f[k - 1], list[k])]
  <1>1. /\ n \in Nat
        /\ base \in X
        /\ \A k \in 1..n, x \in X : Op(x, list[k]) \in X
    <2>1. \A k \in 1..n : list[k] \in CaseIds /\ list[k] \in ToSet(list)
      BY ElementOfSeq, LenProperties DEF ToSet
    <2>2. n \in Nat
      BY LenProperties
    <2>. HIDE DEF n
    <2>. QED
      BY <2>1, <2>2, AppendOfSet
  <1>2. step \in [X \X (1..n) -> X] /\ base \in X
    <2>. HIDE DEF n, Op, X
    <2>. QED
      BY <1>1
  <1>3. PICK f : Taken(f, X, base, step, n)
    <2>. HIDE DEF n, step, base, X
    <2>. QED
      BY <1>1, <1>2, FoldSteps
  <1>4. /\ f \in [0..n -> X]
        /\ \A k \in 0..n : f[k] = IF k = 0 THEN base ELSE Op(f[k - 1], list[k])
    <2>1. \A k \in 1..n : f[k] = Op(f[k - 1], list[k])
      <3>. HIDE DEF n, Op, X
      <3>. QED
        BY <1>3 DEF Taken
    <2>. HIDE DEF n, step, Op, X
    <2>. QED
      BY <1>1, <1>3, <2>1 DEF Taken
  <1>5. Is(f)
    <2>. HIDE DEF n, step, X
    <2>. QED
      BY <1>4
  <1>6. PICK w : Is(w) /\ WithLinks(links, list) = w[n]
    BY <1>5 DEF WithLinks, Folded
  <1>7. \A k \in 0..n : w[k] = IF k = 0 THEN base ELSE Op(w[k - 1], list[k])
    <2>. HIDE DEF n
    <2>. QED
      BY <1>6
  <1>. DEFINE Good == {k \in 0..n : w[k] \in X}
  <1>8. n \in Good
    <2>. HIDE DEF n, step, Op, X, base, Is
    <2>1. 0 \in Good
      BY <1>1, <1>7
    <2>2. ASSUME NEW k \in 1..n, k - 1 \in Good PROVE k \in Good
      <3>1. k \in 0..n /\ k # 0 /\ w[k - 1] \in X
        BY <1>1, <2>2
      <3>. QED
        BY <1>1, <1>7, <3>1
    <2>3. \A k \in 0..n : k \in Good
      <3>. HIDE DEF Good
      <3>. QED
        BY <1>1, <2>1, <2>2, UpTo
    <2>. QED
      BY <1>1, <2>3
  <1>. QED
    BY <1>6, <1>8

-----------------------------------------------------------------------------
(* What an incident makes of its cases.                                    *)

LEMMA FiniteList ==
    ASSUME NEW S, NEW list \in Seq(S)
    PROVE  IsFiniteSet(ToSet(list))
  <1>1. Len(list) \in Nat /\ DOMAIN list = 1..Len(list)
    BY LenProperties
  <1>2. list \in Surjection(1..Len(list), ToSet(list))
    <2>1. list \in [1..Len(list) -> ToSet(list)]
      BY <1>1 DEF ToSet
    <2>. QED
      BY <1>1, <2>1 DEF ToSet, Surjection
  <1>3. IsFiniteSet(1..Len(list))
    BY <1>1, FS_Interval
  <1>. QED
    BY <1>2, <1>3, FS_Surjection

LEMMA StagesOfList ==
    ASSUME NEW rows, NEW list, ListOf(rows, list)
    PROVE  /\ StagesOf(rows, list) \in SUBSET Stages
           /\ Cardinality(StagesOf(rows, list)) \in Nat
  <1>1. \A c \in ToSet(list) : rows[c].stage \in Stages
    BY ListRows DEF CaseRow
  <1>2. IsFiniteSet(ToSet(list))
    BY FiniteList DEF ListOf
  <1>. DEFINE f == [c \in ToSet(list) |-> rows[c].stage]
  <1>3. f \in Surjection(ToSet(list), StagesOf(rows, list))
    BY DEF Surjection, StagesOf
  <1>4. IsFiniteSet(StagesOf(rows, list))
    <2>. HIDE DEF f
    <2>. QED
      BY <1>2, <1>3, FS_Surjection
  <1>. QED
    BY <1>1, <1>4, FS_CardinalityType DEF StagesOf

(* The largest of some numbers below a bound.                              *)
LEMMA LargestOf ==
    ASSUME NEW n \in Nat, NEW T \in SUBSET (0..n), T # {}
    PROVE  Max(T) \in T /\ \A x \in T : Max(T) >= x
  <1>. DEFINE Gaps == {k \in 0..n : n - k \in T}
  <1>1. Gaps \in SUBSET Nat /\ Gaps # {}
    <2>1. PICK x \in T : TRUE
      OBVIOUS
    <2>2. n - x \in Gaps
      <3>1. x \in 0..n /\ n - (n - x) = x
        OBVIOUS
      <3>. QED
        BY <3>1
    <2>3. Gaps \in SUBSET Nat
      OBVIOUS
    <2>. HIDE DEF Gaps
    <2>. QED
      BY <2>2, <2>3
  <1>2. PICK k \in Gaps : \A j \in Gaps : k <= j
    BY <1>1, LeastOfNats
  <1>3. n - k \in T /\ k \in 0..n
    BY <1>2
  <1>4. ASSUME NEW x \in T PROVE n - k >= x
    <2>1. x \in 0..n /\ n - x \in 0..n /\ n - (n - x) = x
      OBVIOUS
    <2>2. n - x \in Gaps
      BY <2>1
    <2>3. k <= n - x
      BY <1>2, <2>2
    <2>. QED
      BY <1>3, <2>1, <2>3
  <1>5. \E m \in T : \A x \in T : m >= x
    BY <1>3, <1>4
  <1>. QED
    BY <1>5 DEF Max

LEMMA HighestOfList ==
    ASSUME NEW rows, NEW list, ListOf(rows, list), list # <<>>
    PROVE  /\ Highest(rows, list, "score") \in 0..100
           /\ Highest(rows, list, "severity") \in 0..3
           /\ \A c \in ToSet(list) : Highest(rows, list, "severity") >= rows[c].severity
  <1>1. PICK c \in ToSet(list) : TRUE
    <2>1. Len(list) \in Nat /\ Len(list) # 0 /\ DOMAIN list = 1..Len(list)
      BY ListRows, EmptySeq DEF ListOf
    <2>2. list[1] \in ToSet(list)
      BY <2>1 DEF ToSet
    <2>. QED
      BY <2>2
  <1>2. \A d \in ToSet(list) : rows[d].score \in 0..100 /\ rows[d].severity \in 0..3
    <2>1. \A d \in ToSet(list) : rows[d] \in CaseRow
      BY ListRows
    <2>. QED
      BY ONLY <2>1 DEF CaseRow
  <1>. DEFINE scores == {rows[d].score : d \in ToSet(list)}
              worst  == {rows[d].severity : d \in ToSet(list)}
  <1>3. scores \in SUBSET (0..100) /\ scores # {} /\ worst \in SUBSET (0..3) /\ worst # {}
    <2>1. scores \in SUBSET (0..100)
      BY <1>2
    <2>2. worst \in SUBSET (0..3)
      BY <1>2
    <2>3. rows[c].score \in scores /\ rows[c].severity \in worst
      BY <1>1
    <2>. QED
      BY <2>1, <2>2, <2>3
  <1>4. Max(scores) \in scores
    <2>. HIDE DEF scores
    <2>. QED
      BY <1>3, LargestOf
  <1>5. Max(worst) \in worst /\ \A x \in worst : Max(worst) >= x
    <2>. HIDE DEF worst
    <2>. QED
      BY <1>3, LargestOf
  <1>6. Highest(rows, list, "score") = Max(scores) /\ Highest(rows, list, "severity") = Max(worst)
    BY DEF Highest
  <1>. QED
    BY <1>3, <1>4, <1>5, <1>6

LEMMA ConfidenceRange ==
    ASSUME NEW rows, NEW list, ListOf(rows, list)
    PROVE  Confidence(rows, list, StagesOf(rows, list)) \in 0..100
  <1>. DEFINE stages == StagesOf(rows, list)
  <1>1. Cardinality(stages) \in Nat
    BY StagesOfList
  <1>2. ConsistencyPoints(rows, list) \in 0..15
    BY DEF ConsistencyPoints
  <1>3. ProximityPoints(rows, list) \in 0..10
    BY DEF ProximityPoints
  <1>4. MeanPoints(rows, list) \in 0..5
    BY DEF MeanPoints
  <1>5. AtMost(10 * Cardinality(stages), 30) \in 0..30
    BY <1>1 DEF AtMost
  <1>6. (IF Len(list) >= 5 THEN 15 ELSE IF Len(list) >= 3 THEN 10 ELSE 5) \in 5..15
    OBVIOUS
  <1>. DEFINE a == AtMost(10 * Cardinality(stages), 30)
              b == IF Len(list) >= 5 THEN 15 ELSE IF Len(list) >= 3 THEN 10 ELSE 5
              c == ConsistencyPoints(rows, list)
              d == ProximityPoints(rows, list)
              e == MeanPoints(rows, list)
  <1>7. AtMost(100, 20 + a + b + c + d + 5 + e) \in 0..100
    <2>. HIDE DEF a, b, c, d, e
    <2>1. a \in 0..30 /\ b \in 5..15 /\ c \in 0..15 /\ d \in 0..10 /\ e \in 0..5
      BY <1>2, <1>3, <1>4, <1>5, <1>6 DEF a, b, c, d, e
    <2>. QED
      BY <2>1 DEF AtMost
  <1>. QED
    BY <1>7 DEF Confidence

LEMMA CompoundRange ==
    ASSUME NEW rows, NEW list, ListOf(rows, list), list # <<>>, NEW stages, NEW score \in 0..100
    PROVE  CompoundBoost(rows, list, stages, score) \in 0..100
  <1>1. Highest(rows, list, "score") \in 0..100
    BY HighestOfList
  <1>. DEFINE factor == IF Len(list) > 10 THEN 16 ELSE IF Len(list) >= 6 THEN 14 ELSE 12
              breadth == CASE Cardinality(stages) >= 3 -> 20
                           [] Cardinality(stages) = 2  -> 10
                           [] OTHER                    -> 0
              most == (Highest(rows, list, "score") * factor) \div 10
  <1>2. factor \in {12, 14, 16} /\ breadth \in 0..20
    OBVIOUS
  <1>3. most \in Nat
    <2>1. /\ (Highest(rows, list, "score") * 12) \div 10 \in Nat
          /\ (Highest(rows, list, "score") * 14) \div 10 \in Nat
          /\ (Highest(rows, list, "score") * 16) \div 10 \in Nat
      <3>. DEFINE top == Highest(rows, list, "score")
      <3>1. top \in 0..100
        BY <1>1
      <3>. HIDE DEF top
      <3>2. (top * 12) \div 10 \in Nat /\ (top * 14) \div 10 \in Nat /\ (top * 16) \div 10 \in Nat
        BY <3>1
      <3>. QED
        BY <3>2 DEF top
    <2>. HIDE DEF factor
    <2>. QED
      BY <1>2, <2>1
  <1>4. AtLeast(score, AtMost(100, most + breadth)) \in 0..100
    <2>. HIDE DEF most, breadth
    <2>. QED
      BY <1>2, <1>3 DEF AtLeast, AtMost
  <1>. QED
    BY <1>4 DEF CompoundBoost

(* An incident is at least as severe as each of its cases.                 *)
LEMMA SeverityRange ==
    ASSUME NEW rows, NEW list, ListOf(rows, list), list # <<>>
    PROVE  /\ ChainSeverity(rows, list, StagesOf(rows, list)) \in 0..3
           /\ \A c \in ToSet(list) :
                 ChainSeverity(rows, list, StagesOf(rows, list)) >= rows[c].severity
  <1>. DEFINE worst == Highest(rows, list, "severity")
              stages == StagesOf(rows, list)
  <1>1. worst \in 0..3 /\ \A c \in ToSet(list) : worst >= rows[c].severity
    BY HighestOfList
  <1>2. \A c \in ToSet(list) : rows[c].severity \in 0..3
    BY ListRows DEF CaseRow
  <1>. HIDE DEF stages
  <1>3. ChainSeverity(rows, list, stages) \in 0..3 /\ ChainSeverity(rows, list, stages) >= worst
    <2>. DEFINE raised == IF \/ "exfiltration" \in stages
                             \/ {"privilege_escalation", "execution"} \subseteq stages
                          THEN AtLeast(worst, 2) ELSE worst
    <2>. HIDE DEF worst
    <2>1. raised \in 0..3 /\ raised >= worst
      BY <1>1 DEF AtLeast
    <2>. HIDE DEF raised
    <2>2. /\ AtMost(raised + 2, 3) \in 0..3 /\ AtMost(raised + 2, 3) >= worst
          /\ AtMost(raised + 1, 3) \in 0..3 /\ AtMost(raised + 1, 3) >= worst
          /\ 3 >= worst
      BY <1>1, <2>1 DEF AtMost
    <2>3. ChainSeverity(rows, list, stages)
             \in {3, AtMost(raised + 2, 3), AtMost(raised + 1, 3), raised}
      BY DEF ChainSeverity, raised, worst
    <2>. QED
      BY <1>1, <2>1, <2>2, <2>3
  <1>. HIDE DEF worst
  <1>4. ASSUME NEW c \in ToSet(list) PROVE ChainSeverity(rows, list, stages) >= rows[c].severity
    BY <1>1, <1>2, <1>3
  <1>. QED
    BY <1>3, <1>4 DEF stages

LEMMA PatternRange ==
    ASSUME NEW rows, NEW list, ListOf(rows, list), list # <<>>
    PROVE  /\ PatternConfidence(rows, list) \in 0..100
           /\ PatternSeverity(Total(rows, list, "alerts"), Highest(rows, list, "score")) \in 0..3
  <1>1. Len(list) \in Nat /\ Len(list) > 0
    BY ListRows, EmptySeq DEF ListOf
  <1>2. Total(rows, list, "score") \in Nat /\ Total(rows, list, "alerts") \in Nat
    <2>1. \A k \in 1..Len(list) : rows[list[k]]["score"] \in Nat /\ rows[list[k]]["alerts"] \in Nat
      <3>1. ASSUME NEW row \in CaseRow PROVE row["score"] \in Nat /\ row["alerts"] \in Nat
        <4>1. row.score \in Nat /\ row.alerts \in Nat
          <5>1. row.score \in 0..100 /\ row.alerts \in Nat
            BY DEF CaseRow
          <5>2. 0..100 \subseteq Nat
            OBVIOUS
          <5>. QED
            BY <5>1, <5>2
        <4>2. row["score"] \in Nat
          BY <4>1
        <4>3. row["alerts"] \in Nat
          BY <4>1
        <4>. QED
          BY <4>2, <4>3
      <3>. QED
        BY <3>1, ListRows
    <2>. QED
      BY <2>1, TotalNat DEF ListOf
  <1>3. Total(rows, list, "score") \div Len(list) \in Nat
    BY <1>1, <1>2
  <1>4. PatternConfidence(rows, list) \in 0..100
    <2>. DEFINE mean == Total(rows, list, "score") \div Len(list)
                more == AtMost(2 * Total(rows, list, "alerts"), 20)
    <2>1. mean \in Nat /\ more \in 0..20
      <3>. DEFINE alerts == Total(rows, list, "alerts")
      <3>1. alerts \in Nat /\ mean \in Nat
        BY <1>2, <1>3
      <3>. HIDE DEF alerts, mean
      <3>2. AtMost(2 * alerts, 20) \in 0..20
        BY <3>1 DEF AtMost
      <3>. QED
        BY <3>1, <3>2 DEF alerts
    <2>2. AtMost(100, mean + more) \in 0..100
      <3>. HIDE DEF mean, more
      <3>. QED
        BY <2>1 DEF AtMost
    <2>. QED
      BY <2>2 DEF PatternConfidence
  <1>5. PatternSeverity(Total(rows, list, "alerts"), Highest(rows, list, "score")) \in {0, 1, 2}
    BY DEF PatternSeverity
  <1>. QED
    BY <1>4, <1>5

-----------------------------------------------------------------------------
(* The scores of the cases of strong incidents.                            *)

LEMMA BoostedRange ==
    ASSUME NEW score \in 0..100, NEW by \in 0..100, NEW times \in Nat
    PROVE  Boosted(score, by, times) \in (0..100)
  <1>. DEFINE n == times
              base == score
              X == (0..100)
              Op(x, e) == IF x < 75 THEN AtMost(x + 15, by) ELSE x
              step == [p \in X \X (1..n) |-> Op(p[1], p[2])]
              Is(f) == f = [k \in 0..n |-> IF k = 0 THEN score
                               ELSE IF f[k - 1] < 75 THEN AtMost(f[k - 1] + 15, by)
                                    ELSE f[k - 1]]
  <1>1. /\ n \in Nat
        /\ base \in X
        /\ \A k \in 1..n, x \in X : Op(x, k) \in X
    BY DEF AtMost
  <1>2. step \in [X \X (1..n) -> X] /\ base \in X
    <2>. HIDE DEF n, Op, X
    <2>. QED
      BY <1>1
  <1>3. PICK f : Taken(f, X, base, step, n)
    <2>. HIDE DEF n, step, base, X
    <2>. QED
      BY <1>1, <1>2, FoldSteps
  <1>4. /\ f \in [0..n -> X]
        /\ \A k \in 0..n : f[k] = IF k = 0 THEN base ELSE Op(f[k - 1], k)
    <2>1. \A k \in 1..n : f[k] = Op(f[k - 1], k)
      <3>. HIDE DEF n, Op, X
      <3>. QED
        BY <1>3 DEF Taken
    <2>. HIDE DEF n, step, Op, X
    <2>. QED
      BY <1>1, <1>3, <2>1 DEF Taken
  <1>5. Is(f)
    <2>. HIDE DEF n, step, X
    <2>. QED
      BY <1>4
  <1>6. PICK w : Is(w) /\ Boosted(score, by, times) = w[n]
    BY <1>5 DEF Boosted
  <1>7. \A k \in 0..n : w[k] = IF k = 0 THEN base ELSE Op(w[k - 1], k)
    <2>. HIDE DEF n
    <2>. QED
      BY <1>6
  <1>. DEFINE Good == {k \in 0..n : w[k] \in X}
  <1>8. n \in Good
    <2>. HIDE DEF n, step, Op, X, base, Is
    <2>1. 0 \in Good
      BY <1>1, <1>7
    <2>2. ASSUME NEW k \in 1..n, k - 1 \in Good PROVE k \in Good
      <3>1. k \in 0..n /\ k # 0 /\ w[k - 1] \in X
        BY <1>1, <2>2
      <3>. QED
        BY <1>1, <1>7, <3>1
    <2>3. \A k \in 0..n : k \in Good
      <3>. HIDE DEF Good
      <3>. QED
        BY <1>1, <2>1, <2>2, UpTo
    <2>. QED
      BY <1>1, <2>3
  <1>. QED
    BY <1>6, <1>8

LEMMA TimesNat ==
    ASSUME NEW incident \in IncidentRows, NEW c
    PROVE  Times(incident, c) \in Nat
  <1>1. incident.links \in Seq(CaseIds)
    BY DEF IncidentRows
  <1>2. DOMAIN incident.links = 1..Len(incident.links) /\ Len(incident.links) \in Nat
    BY <1>1, LenProperties
  <1>3. IsFiniteSet(DOMAIN incident.links)
    BY <1>2, FS_Interval
  <1>4. IsFiniteSet({n \in DOMAIN incident.links : incident.links[n] = c})
    BY <1>3, FS_Subset
  <1>. QED
    BY <1>4, FS_CardinalityType DEF Times

LEMMA RaisedRange ==
    ASSUME NEW c \in CaseIds, cases[c] \in CaseRow, incidents \in Seq(IncidentRows),
           NEW order \in Seq(DOMAIN incidents)
    PROVE  Raised(c, order) \in (0..100)
  <1>. DEFINE n == Len(order)
              base == cases[c].score
              X == (0..100)
              Op(x, e) == Boosted(x, incidents[e].score, Times(incidents[e], c))
              step == [p \in X \X (1..n) |-> Op(p[1], order[p[2]])]
              Is(f) == f = [k \in 0..n |-> IF k = 0 THEN cases[c].score
                               ELSE Boosted(f[k - 1], incidents[order[k]].score,
                                            Times(incidents[order[k]], c))]
  <1>1. /\ n \in Nat
        /\ base \in X
        /\ \A k \in 1..n, x \in X : Op(x, order[k]) \in X
    <2>1. \A k \in 1..n : order[k] \in DOMAIN incidents
      BY ElementOfSeq
    <2>2. \A i \in DOMAIN incidents :
             incidents[i].score \in 0..100 /\ Times(incidents[i], c) \in Nat
      <3>1. \A i \in DOMAIN incidents : incidents[i] \in IncidentRows
        BY ElementOfSeq, LenProperties
      <3>. QED
        BY <3>1, TimesNat DEF IncidentRows
    <2>3. cases[c].score \in 0..100
      BY DEF CaseRow
    <2>4. n \in Nat
      BY LenProperties
    <2>. HIDE DEF n
    <2>. QED
      BY <2>1, <2>2, <2>3, <2>4, BoostedRange
  <1>2. step \in [X \X (1..n) -> X] /\ base \in X
    <2>. HIDE DEF n, Op, X
    <2>. QED
      BY <1>1
  <1>3. PICK f : Taken(f, X, base, step, n)
    <2>. HIDE DEF n, step, base, X
    <2>. QED
      BY <1>1, <1>2, FoldSteps
  <1>4. /\ f \in [0..n -> X]
        /\ \A k \in 0..n : f[k] = IF k = 0 THEN base ELSE Op(f[k - 1], order[k])
    <2>1. \A k \in 1..n : f[k] = Op(f[k - 1], order[k])
      <3>. HIDE DEF n, Op, X
      <3>. QED
        BY <1>3 DEF Taken
    <2>. HIDE DEF n, step, Op, X
    <2>. QED
      BY <1>1, <1>3, <2>1 DEF Taken
  <1>5. Is(f)
    <2>. HIDE DEF n, step, X
    <2>. QED
      BY <1>4
  <1>6. PICK w : Is(w) /\ Raised(c, order) = w[n]
    BY <1>5 DEF Raised, Folded
  <1>7. \A k \in 0..n : w[k] = IF k = 0 THEN base ELSE Op(w[k - 1], order[k])
    <2>. HIDE DEF n
    <2>. QED
      BY <1>6
  <1>. DEFINE Good == {k \in 0..n : w[k] \in X}
  <1>8. n \in Good
    <2>. HIDE DEF n, step, Op, X, base, Is
    <2>1. 0 \in Good
      BY <1>1, <1>7
    <2>2. ASSUME NEW k \in 1..n, k - 1 \in Good PROVE k \in Good
      <3>1. k \in 0..n /\ k # 0 /\ w[k - 1] \in X
        BY <1>1, <2>2
      <3>. QED
        BY <1>1, <1>7, <3>1
    <2>3. \A k \in 0..n : k \in Good
      <3>. HIDE DEF Good
      <3>. QED
        BY <1>1, <2>1, <2>2, UpTo
    <2>. QED
      BY <1>1, <2>3
  <1>. QED
    BY <1>6, <1>8

-----------------------------------------------------------------------------
(* The inductive invariant.                                                *)

Phases == {"idle", "cluster", "refresh", "store", "boost"}
NoRows == [c \in CaseIds |-> NoCase]

(* The tables hold rows; a link is to a case that arrived, and that exists *)
(* as long as no linked case was deleted and no deleted one was linked.    *)
Live(rows) == \A k \in 1..Len(rows) : \A c \in ToSet(rows[k].links) : cases[c] # NoCase
Known(rows) == \A k \in 1..Len(rows) : \A c \in ToSet(rows[k].links) : incoming[c] = NoCase
TablesOK ==
    /\ cases \in Rows /\ incoming \in Rows
    /\ incidents \in Seq(IncidentRows)
    /\ Known(incidents)
    /\ ~torn => Live(incidents)

(* What a run may hold in each of its phases.                              *)
RunOK(r) ==
    /\ seen[r] \in Rows
    /\ open[r] <= Len(incidents)
    /\ todo[r] \in Seq(ClusterRows)
    /\ made[r] \in Seq(IncidentRows)
    /\ pc[r] # "cluster" => made[r] = <<>>
    /\ target[r] \in Nat
    /\ IF pc[r] \in {"refresh", "store"} THEN target[r] \in 1..open[r] ELSE target[r] = 0
    /\ pc[r] = "store" => fresh[r] \in [old : IncidentRows, new : IncidentRows]
RunsOK ==
    /\ pc \in [Runners -> Phases] /\ open \in [Runners -> Nat]
    /\ DOMAIN seen = Runners /\ DOMAIN todo = Runners /\ DOMAIN made = Runners
    /\ DOMAIN target = Runners /\ DOMAIN fresh = Runners
    /\ \A r \in Runners : RunOK(r)

(* A case arrives once, and then its user and severity stay what they are: *)
(* rows agrees with the stored rows.                                       *)
Fits(rows, stored, coming) ==
    \A c \in CaseIds : rows[c] # NoCase =>
        /\ coming[c] = NoCase
        /\ stored[c] # NoCase => /\ rows[c].user = stored[c].user
                                 /\ rows[c].severity = stored[c].severity
ColumnsStay ==
    /\ Fits(cases, cases, incoming)
    /\ \A r \in Runners : Fits(seen[r], cases, incoming)

(* What an incident says of itself is true of its links.                   *)
Says(incident, stored, coming) ==
    /\ incident.count = Len(incident.links)
    /\ \A c \in ToSet(incident.links) :
          /\ coming[c] = NoCase
          /\ Cardinality(incident.stages) >= 2 /\ stored[c] # NoCase
                => incident.severity >= stored[c].severity

UsersIn(incident, stored) ==
    Named({stored[c].user : c \in {d \in ToSet(incident.links) : stored[d] # NoCase}})

OneRun == ~overlapped => \A r, q \in Runners : Active(r) /\ Active(q) => r = q

(* The incidents a run has added are true to their links, and of users who *)
(* are in none of the incidents that were open.                            *)
NewOK ==
    \A r \in Runners : \A m \in 1..Len(made[r]) :
        /\ Says(made[r][m], cases, incoming)
        /\ ~overlapped => \A i \in 1..open[r] :
               UsersIn(made[r][m], cases) \cap UsersIn(incidents[i], cases) = {}

(* An incident follows its links, or the run that merges into it is about  *)
(* to make it follow.                                                      *)
Merging(r) ==
    /\ pc[r] = "refresh" => incidents[target[r]].links # <<>>
    /\ pc[r] = "store" =>
          Says(Updated(incidents[target[r]], fresh[r].old, fresh[r].new), cases, incoming)
Follows ==
    ~overlapped /\ ~torn =>
        /\ \A k \in 1..Len(incidents) :
              (\A r \in Runners : target[r] # k) => Says(incidents[k], cases, incoming)
        /\ \A r \in Runners : Merging(r)

CorrelationInv == TablesOK /\ RunsOK /\ ColumnsStay /\ OneRun /\ NewOK /\ Follows

-----------------------------------------------------------------------------
(* What steps do to what the invariant is about.                           *)

LEMMA SeqFacts ==
    ASSUME NEW S, NEW list \in Seq(S)
    PROVE  /\ Len(list) \in Nat /\ DOMAIN list = 1..Len(list)
           /\ \A k \in 1..Len(list) : list[k] \in S
  BY ElementOfSeq, LenProperties

(* Rows may arrive, go, or change in columns other than user and severity. *)
CasesMove ==
    /\ cases' \in Rows /\ incoming' \in Rows
    /\ Fits(cases', cases', incoming')
    /\ \A c \in CaseIds : incoming[c] = NoCase =>
          /\ incoming'[c] = NoCase
          /\ cases'[c] # NoCase => /\ cases[c] # NoCase
                                   /\ cases'[c].user = cases[c].user
                                   /\ cases'[c].severity = cases[c].severity

LEMMA CasesRest ==
    ASSUME TablesOK, ColumnsStay, UNCHANGED <<cases, incoming>>
    PROVE  CasesMove
  BY DEF TablesOK, ColumnsStay, CasesMove, Fits

LEMMA FitsStays ==
    ASSUME NEW rows, Fits(rows, cases, incoming), CasesMove
    PROVE  Fits(rows, cases', incoming')
  BY DEF Fits, CasesMove

LEMMA SaysStays ==
    ASSUME NEW a, NEW b, Says(a, cases, incoming), CasesMove, a.links \in Seq(CaseIds),
           b.links = a.links, b.count = a.count, b.stages = a.stages, b.severity = a.severity
    PROVE  Says(b, cases', incoming')
  <1>1. \A c \in ToSet(a.links) : c \in CaseIds
    BY SeqFacts DEF ToSet
  <1>. QED
    BY <1>1 DEF Says, CasesMove

(* Links that are not new bring no user who was not there.                 *)
LEMMA UsersStay ==
    ASSUME NEW a, NEW b, CasesMove, a.links \in Seq(CaseIds), ToSet(b.links) \subseteq ToSet(a.links),
           \A c \in ToSet(a.links) : incoming[c] = NoCase
    PROVE  UsersIn(b, cases') \subseteq UsersIn(a, cases)
  <1>1. \A c \in ToSet(a.links) : c \in CaseIds
    BY SeqFacts DEF ToSet
  <1>2. \A c \in ToSet(b.links) : cases'[c] # NoCase =>
           c \in ToSet(a.links) /\ cases[c] # NoCase /\ cases'[c].user = cases[c].user
    BY <1>1 DEF CasesMove
  <1>. QED
    BY <1>2 DEF UsersIn, Named

LEMMA LinkedKnown ==
    ASSUME TablesOK, NEW k \in 1..Len(incidents)
    PROVE  /\ incidents[k] \in IncidentRows /\ incidents[k].links \in Seq(CaseIds)
           /\ \A c \in ToSet(incidents[k].links) :
                 /\ c \in CaseIds /\ incoming[c] = NoCase
                 /\ ~torn => cases[c] # NoCase
  <1>1. incidents[k] \in IncidentRows
    BY SeqFacts DEF TablesOK
  <1>2. incidents[k].links \in Seq(CaseIds)
    BY <1>1 DEF IncidentRows
  <1>3. \A c \in ToSet(incidents[k].links) : c \in CaseIds
    BY <1>2, SeqFacts DEF ToSet
  <1>. QED
    BY <1>1, <1>2, <1>3 DEF TablesOK, Known, Live

LEMMA UsersAreThose ==
    ASSUME NEW incident
    PROVE  UsersOf(incident) = UsersIn(incident, cases)
  BY DEF UsersOf, LiveLinked, Linked, UsersIn

(* Only the run r moves.                                                   *)
OnlyRun(r) ==
    /\ pc' \in [Runners -> Phases] /\ open' \in [Runners -> Nat]
    /\ DOMAIN seen' = Runners /\ DOMAIN todo' = Runners /\ DOMAIN made' = Runners
    /\ DOMAIN target' = Runners /\ DOMAIN fresh' = Runners
    /\ \A q \in Runners \ {r} :
          /\ pc'[q] = pc[q] /\ open'[q] = open[q] /\ seen'[q] = seen[q] /\ todo'[q] = todo[q]
          /\ made'[q] = made[q] /\ target'[q] = target[q] /\ fresh'[q] = fresh[q]

LEMMA OthersOK ==
    ASSUME RunsOK, NEW r \in Runners, OnlyRun(r), RunOK(r)',
           Len(incidents) \in Nat, Len(incidents') \in Nat, Len(incidents) <= Len(incidents')
    PROVE  RunsOK'
  <1>1. ASSUME NEW q \in Runners \ {r} PROVE RunOK(q)'
    <2>1. RunOK(q) /\ open[q] \in Nat
      BY DEF RunsOK
    <2>2. /\ pc'[q] = pc[q] /\ open'[q] = open[q] /\ seen'[q] = seen[q] /\ todo'[q] = todo[q]
          /\ made'[q] = made[q] /\ target'[q] = target[q] /\ fresh'[q] = fresh[q]
      BY DEF OnlyRun
    <2>. QED
      BY <2>1, <2>2 DEF RunOK
  <1>. QED
    BY <1>1 DEF RunsOK, OnlyRun

LEMMA ColumnsOK ==
    ASSUME ColumnsStay, CasesMove, NEW r \in Runners, OnlyRun(r),
           seen'[r] \in {seen[r], cases', NoRows}
    PROVE  ColumnsStay'
  <1>1. Fits(cases', cases', incoming')
    BY DEF CasesMove
  <1>2. Fits(NoRows, cases', incoming')
    BY DEF Fits, NoRows
  <1>3. ASSUME NEW q \in Runners PROVE Fits(seen'[q], cases', incoming')
    <2>1. Fits(seen[q], cases, incoming)
      BY DEF ColumnsStay
    <2>2. Fits(seen[q], cases', incoming')
      BY <2>1, FitsStays
    <2>3. seen'[q] \in {seen[q], cases', NoRows}
      BY DEF OnlyRun
    <2>. QED
      BY <1>1, <1>2, <2>2, <2>3
  <1>. QED
    BY <1>1, <1>3 DEF ColumnsStay

LEMMA OneRunOK ==
    ASSUME OneRun, NEW r \in Runners, OnlyRun(r), Active(r), overlapped' = overlapped
    PROVE  OneRun'
  BY DEF OneRun, OnlyRun, Active

LEMMA OthersIdle ==
    ASSUME RunsOK, OneRun, NEW r \in Runners, Active(r), ~overlapped
    PROVE  \A q \in Runners \ {r} : pc[q] = "idle" /\ target[q] = 0 /\ made[q] = <<>>
  <1>1. ASSUME NEW q \in Runners \ {r} PROVE pc[q] = "idle" /\ target[q] = 0 /\ made[q] = <<>>
    <2>1. pc[q] = "idle"
      BY DEF OneRun, Active
    <2>. QED
      BY <2>1 DEF RunsOK, RunOK
  <1>. QED
    BY <1>1

LEMMA NewStays ==
    ASSUME RunsOK, OneRun, NewOK, CasesMove, NEW r \in Runners, OnlyRun(r), Active(r),
           overlapped' = overlapped,
           \A m \in 1..Len(made'[r]) :
              /\ Says(made'[r][m], cases', incoming')
              /\ ~overlapped => \A i \in 1..open'[r] :
                     UsersIn(made'[r][m], cases') \cap UsersIn(incidents'[i], cases') = {}
    PROVE  NewOK'
  <1>1. ASSUME NEW q \in Runners \ {r}, NEW m \in 1..Len(made'[q])
        PROVE  Says(made'[q][m], cases', incoming') /\ overlapped
    <2>1. made'[q] = made[q] /\ made[q] \in Seq(IncidentRows)
      BY DEF OnlyRun, RunsOK, RunOK
    <2>2. made[q][m] \in IncidentRows
      BY <2>1, SeqFacts
    <2>3. made[q][m].links \in Seq(CaseIds)
      BY <2>2 DEF IncidentRows
    <2>4. Says(made[q][m], cases, incoming)
      BY <2>1 DEF NewOK
    <2>5. Says(made'[q][m], cases', incoming')
      BY <2>1, <2>3, <2>4, SaysStays
    <2>6. made[q] # <<>>
      <3>1. Len(<<>>) = 0
        OBVIOUS
      <3>. QED
        BY <2>1, <3>1
    <2>7. overlapped
      BY <2>6, OthersIdle
    <2>. QED
      BY <2>5, <2>7
  <1>. QED
    BY <1>1 DEF NewOK

LEMMA FollowsFor ==
    ASSUME RunsOK, OneRun, Follows, NEW r \in Runners, Active(r), ~overlapped, ~torn
    PROVE  /\ Merging(r)
           /\ \A k \in 1..Len(incidents) : target[r] # k => Says(incidents[k], cases, incoming)
  <1>1. \A q \in Runners \ {r} : target[q] = 0
    BY OthersIdle
  <1>. QED
    BY <1>1 DEF Follows

LEMMA FollowsOK ==
    ASSUME RunsOK, OneRun, NEW r \in Runners, Active(r), OnlyRun(r), overlapped' = overlapped,
           ~overlapped /\ ~torn' =>
              /\ \A k \in 1..Len(incidents') :
                    target'[r] # k => Says(incidents'[k], cases', incoming')
              /\ Merging(r)'
    PROVE  Follows'
  <1>1. ~overlapped => \A q \in Runners \ {r} : Merging(q)'
    <2>1. ASSUME ~overlapped, NEW q \in Runners \ {r} PROVE pc'[q] = "idle"
      BY <2>1, OthersIdle DEF OnlyRun
    <2>. QED
      BY <2>1 DEF Merging
  <1>. QED
    BY <1>1 DEF Follows

-----------------------------------------------------------------------------
(* The incidents that a run makes and derives.                             *)

RowOf(row, list, severity, stages) ==
    /\ row \in IncidentRows /\ row.links = list /\ row.count = Len(list)
    /\ row.stages = stages /\ row.severity = severity

LEMMA IncidentOK ==
    ASSUME NEW list \in Seq(CaseIds), NEW severity \in 0..3, NEW score \in 0..100,
           NEW stages \in SUBSET Stages
    PROVE  RowOf(Incident(list, severity, score, stages), list, severity, stages)
  BY SeqFacts DEF Incident, IncidentRows, RowOf

(* What holds of an incident made of a list of rows.                       *)
MadeOf(incident, rows, list) ==
    /\ incident \in IncidentRows
    /\ incident.links = list /\ incident.count = Len(list)
    /\ Cardinality(incident.stages) >= 2 =>
          \A c \in ToSet(list) : incident.severity >= rows[c].severity

LEMMA ChainMade ==
    ASSUME NEW rows, NEW list, ListOf(rows, list), list # <<>>
    PROVE  MadeOf(ChainIncident(rows, list), rows, list)
  <1>. DEFINE stages == StagesOf(rows, list)
              severity == ChainSeverity(rows, list, stages)
              score == CompoundBoost(rows, list, stages, Confidence(rows, list, stages))
  <1>1. stages \in SUBSET Stages /\ list \in Seq(CaseIds)
    BY StagesOfList DEF ListOf
  <1>2. severity \in 0..3 /\ \A c \in ToSet(list) : severity >= rows[c].severity
    BY SeverityRange
  <1>3. score \in 0..100
    BY ConfidenceRange, CompoundRange
  <1>4. ChainIncident(rows, list) = Incident(list, severity, score, stages)
    BY DEF ChainIncident
  <1>. HIDE DEF stages, severity, score
  <1>. DEFINE row == Incident(list, severity, score, stages)
  <1>5. RowOf(row, list, severity, stages)
    BY <1>1, <1>2, <1>3, IncidentOK
  <1>. HIDE DEF row
  <1>6. MadeOf(row, rows, list)
    BY <1>2, <1>4, <1>5 DEF MadeOf, RowOf
  <1>. QED
    BY <1>4, <1>6 DEF row

LEMMA PatternMade ==
    ASSUME NEW rows, NEW list, ListOf(rows, list), list # <<>>,
           ~(Cardinality(StagesOf(rows, list)) >= 2)
    PROVE  MadeOf(PatternIncident(rows, list), rows, list)
  <1>. DEFINE stages == StagesOf(rows, list)
              severity == PatternSeverity(Total(rows, list, "alerts"), Highest(rows, list, "score"))
              score == CompoundBoost(rows, list, stages, PatternConfidence(rows, list))
  <1>1. stages \in SUBSET Stages /\ list \in Seq(CaseIds)
    BY StagesOfList DEF ListOf
  <1>2. severity \in 0..3 /\ score \in 0..100
    BY PatternRange, CompoundRange
  <1>3. PatternIncident(rows, list) = Incident(list, severity, score, stages)
    BY DEF PatternIncident
  <1>4. ~(Cardinality(stages) >= 2)
    OBVIOUS
  <1>. HIDE DEF stages, severity, score
  <1>. DEFINE row == Incident(list, severity, score, stages)
  <1>5. RowOf(row, list, severity, stages)
    BY <1>1, <1>2, <1>3, IncidentOK
  <1>. HIDE DEF row
  <1>6. MadeOf(row, rows, list)
    BY <1>2, <1>4, <1>5 DEF MadeOf, RowOf
  <1>. QED
    BY <1>3, <1>6 DEF row

LEMMA LinkedListIs ==
    ASSUME TablesOK, NEW k \in 1..Len(incidents)
    PROVE  /\ ListOf(cases, LinkedList(incidents[k]))
           /\ ~torn => LinkedList(incidents[k]) = incidents[k].links
  <1>. DEFINE links == incidents[k].links
              live == LiveLinked(incidents[k])
  <1>1. /\ links \in Seq(CaseIds)
        /\ \A c \in ToSet(links) : ~torn => cases[c] # NoCase
    BY LinkedKnown
  <1>2. live \subseteq ToSet(links) /\ \A c \in live : cases[c] # NoCase
    BY DEF LiveLinked, Linked
  <1>3. ~torn => ToSet(links) \subseteq live
    BY <1>1 DEF LiveLinked, Linked
  <1>. HIDE DEF links, live
  <1>4. Where(links, live) \in Seq(CaseIds) /\ ToSet(Where(links, live)) \subseteq live
    BY <1>1, WhereList
  <1>5. ~torn => Where(links, live) = links
    BY <1>1, <1>3, WhereAll
  <1>. QED
    BY <1>2, <1>4, <1>5 DEF LinkedList, ListOf, TablesOK, links, live

LEMMA DerivedOK ==
    ASSUME TablesOK, NEW k \in 1..Len(incidents), LinkedList(incidents[k]) # <<>>
    PROVE  /\ Derived(incidents[k]) \in IncidentRows
           /\ Derived(incidents[k]).links = incidents[k].links
           /\ ~torn => Says(Derived(incidents[k]), cases, incoming)
  <1>. DEFINE old == incidents[k]
              list == LinkedList(old)
              stages == StagesOf(cases, list)
              chain == Cardinality(stages) >= 2
              severity == ChainSeverity(cases, list, stages)
              score == CompoundBoost(cases, list, stages, Confidence(cases, list, stages))
  <1>1. ListOf(cases, list) /\ list # <<>> /\ (~torn => list = old.links)
    BY LinkedListIs
  <1>2. old \in IncidentRows /\ \A c \in ToSet(old.links) : incoming[c] = NoCase
    BY LinkedKnown
  <1>. HIDE DEF list
  <1>3. stages \in SUBSET Stages /\ severity \in 0..3 /\ score \in 0..100 /\ Len(list) \in Nat
        /\ \A c \in ToSet(list) : severity >= cases[c].severity
    BY <1>1, StagesOfList, SeverityRange, ConfidenceRange, CompoundRange, ListRows
  <1>4. Derived(old) = [links    |-> old.links,
                        stages   |-> stages,
                        count    |-> Len(list),
                        severity |-> IF chain THEN severity ELSE old.severity,
                        score    |-> IF chain THEN score ELSE old.score]
    BY DEF Derived, list
  <1>5. chain \in BOOLEAN
    OBVIOUS
  <1>. HIDE DEF severity, score
  <1>6. old.links \in Seq(CaseIds) /\ old.severity \in 0..3 /\ old.score \in 0..100
    BY <1>2 DEF IncidentRows
  <1>. HIDE DEF old
  <1>7. /\ Derived(old).links = old.links /\ Derived(old).count = Len(list)
        /\ Derived(old).stages = stages
        /\ chain => Derived(old).severity = severity
    BY <1>4
  <1>8. Derived(old) \in IncidentRows
    <2>. HIDE DEF chain, stages
    <2>. QED
      BY <1>3, <1>4, <1>6 DEF IncidentRows
  <1>9. ~torn => Says(Derived(old), cases, incoming)
    <2>. HIDE DEF stages
    <2>. QED
      BY <1>1, <1>2, <1>3, <1>7 DEF Says
  <1>. QED
    BY <1>7, <1>8, <1>9 DEF old

(* A row that is still what it was when it was read becomes the new one.   *)
LEMMA UpdatedRow ==
    ASSUME NEW now \in IncidentRows, NEW old \in IncidentRows, NEW new \in IncidentRows
    PROVE  /\ Updated(now, old, new) \in IncidentRows
           /\ Updated(now, old, new).links = now.links
           /\ now = old => /\ Updated(now, old, new).count = new.count
                           /\ Updated(now, old, new).stages = new.stages
                           /\ Updated(now, old, new).severity = new.severity
  BY DEF Updated, Column, IncidentRows

-----------------------------------------------------------------------------
(* The steps.  First those that move no run.                               *)

LEMMA InitOK == Init => CorrelationInv
  <1>. SUFFICES ASSUME Init PROVE CorrelationInv
    OBVIOUS
  <1>1. incoming \in Rows /\ cases \in Rows /\ \A c \in CaseIds : cases[c] = NoCase
    BY CorrelationAssumption DEF Init, Rows
  <1>2. <<>> \in Seq(IncidentRows) /\ <<>> \in Seq(ClusterRows) /\ Len(<<>>) = 0
    BY EmptySeq
  <1>3. TablesOK
    BY <1>1, <1>2 DEF Init, TablesOK, Known, Live
  <1>4. ASSUME NEW r \in Runners
        PROVE  /\ pc[r] = "idle" /\ seen[r] = NoRows /\ open[r] = 0 /\ todo[r] = <<>>
               /\ made[r] = <<>> /\ target[r] = 0
    BY DEF Init, NoRows
  <1>5. NoRows \in Rows
    BY DEF Rows, NoRows
  <1>6. RunsOK
    <2>1. ASSUME NEW r \in Runners PROVE RunOK(r)
      BY <1>2, <1>4, <1>5 DEF RunOK, Init
    <2>2. pc \in [Runners -> Phases] /\ open \in [Runners -> Nat]
      BY DEF Init, Phases
    <2>. QED
      BY <2>1, <2>2 DEF RunsOK, Init
  <1>7. ColumnsStay
    BY <1>1, <1>4 DEF ColumnsStay, Fits, NoRows
  <1>8. OneRun /\ NewOK
    BY <1>2, <1>4 DEF OneRun, NewOK, Active
  <1>9. Follows
    BY <1>2, <1>4 DEF Follows, Merging, Init
  <1>. QED
    BY <1>3, <1>6, <1>7, <1>8, <1>9 DEF CorrelationInv

LEMMA EnvironmentStep ==
    ASSUME CorrelationInv, CasesMove, UNCHANGED <<pc, local, overlapped>>,
           incidents' \in Seq(IncidentRows), Len(incidents') = Len(incidents), torn => torn',
           \A k \in 1..Len(incidents) :
              /\ ToSet(incidents'[k].links) \subseteq ToSet(incidents[k].links)
              /\ ~torn' => \A c \in ToSet(incidents'[k].links) : cases'[c] # NoCase
              /\ ~torn' => /\ incidents'[k].links = incidents[k].links
                           /\ incidents'[k].count = incidents[k].count
                           /\ incidents'[k].stages = incidents[k].stages
                           /\ incidents'[k].severity = incidents[k].severity
    PROVE  CorrelationInv'
  <1>. USE DEF local
  <1>0. TablesOK /\ RunsOK /\ ColumnsStay /\ OneRun /\ NewOK /\ Follows
    BY DEF CorrelationInv
  <1>1. TablesOK'
    <2>1. Known(incidents)'
      <3>1. ASSUME NEW k \in 1..Len(incidents), NEW c \in ToSet(incidents[k].links)
            PROVE  incoming'[c] = NoCase
        BY <1>0, LinkedKnown DEF CasesMove
      <3>. QED
        BY <3>1 DEF Known
    <2>2. ~torn' => Live(incidents)'
      BY DEF Live
    <2>. QED
      BY <2>1, <2>2 DEF TablesOK, CasesMove
  <1>2. RunsOK'
    <2>1. Len(incidents) \in Nat
      BY <1>0, SeqFacts DEF TablesOK
    <2>2. ASSUME NEW r \in Runners PROVE RunOK(r)'
      BY <1>0, <2>1 DEF RunsOK, RunOK
    <2>. QED
      BY <1>0, <2>2 DEF RunsOK
  <1>3. ColumnsStay'
    <2>1. ASSUME NEW r \in Runners PROVE Fits(seen'[r], cases', incoming')
      <3>1. Fits(seen[r], cases, incoming)
        BY <1>0 DEF ColumnsStay
      <3>. QED
        BY <3>1, FitsStays
    <2>. QED
      BY <2>1 DEF ColumnsStay, CasesMove
  <1>4. OneRun'
    BY <1>0 DEF OneRun, Active
  <1>5. NewOK'
    <2>. SUFFICES ASSUME NEW r \in Runners, NEW m \in 1..Len(made[r])
                  PROVE  /\ Says(made[r][m], cases', incoming')
                         /\ ~overlapped => \A i \in 1..open[r] :
                              UsersIn(made[r][m], cases') \cap UsersIn(incidents'[i], cases') = {}
      BY DEF NewOK
    <2>1. made[r] \in Seq(IncidentRows) /\ open[r] \in Nat /\ open[r] <= Len(incidents)
      BY <1>0 DEF RunsOK, RunOK
    <2>2. made[r][m] \in IncidentRows
      BY <2>1, SeqFacts
    <2>3. made[r][m].links \in Seq(CaseIds)
      BY <2>2 DEF IncidentRows
    <2>4. Says(made[r][m], cases, incoming)
      BY <1>0 DEF NewOK
    <2>5. Says(made[r][m], cases', incoming')
      BY <2>3, <2>4, SaysStays
    <2>6. UsersIn(made[r][m], cases') \subseteq UsersIn(made[r][m], cases)
      BY <2>3, <2>4, UsersStay DEF Says
    <2>7. ASSUME ~overlapped, NEW i \in 1..open[r]
          PROVE  UsersIn(made[r][m], cases') \cap UsersIn(incidents'[i], cases') = {}
      <3>1. i \in 1..Len(incidents)
        BY <1>0, <2>1, SeqFacts DEF TablesOK
      <3>2. UsersIn(incidents'[i], cases') \subseteq UsersIn(incidents[i], cases)
        BY <1>0, <3>1, LinkedKnown, UsersStay
      <3>3. UsersIn(made[r][m], cases) \cap UsersIn(incidents[i], cases) = {}
        BY <1>0, <2>7 DEF NewOK
      <3>. QED
        BY <2>6, <3>2, <3>3
    <2>. QED
      BY <2>5, <2>7
  <1>6. Follows'
    <2>. SUFFICES ASSUME ~overlapped, ~torn'
                  PROVE  /\ \A k \in 1..Len(incidents) : (\A r \in Runners : target[r] # k) =>
                              Says(incidents'[k], cases', incoming')
                         /\ \A r \in Runners : Merging(r)'
      BY DEF Follows
    <2>1. ASSUME NEW k \in 1..Len(incidents), \A r \in Runners : target[r] # k
          PROVE  Says(incidents'[k], cases', incoming')
      <3>1. Says(incidents[k], cases, incoming)
        BY <1>0, <2>1 DEF Follows
      <3>. QED
        BY <1>0, <3>1, LinkedKnown, SaysStays
    <2>2. ASSUME NEW r \in Runners PROVE Merging(r)'
      <3>1. Merging(r)
        BY <1>0 DEF Follows
      <3>2. CASE pc[r] \in {"refresh", "store"}
        <4>1. target[r] \in 1..Len(incidents)
          <5>1. /\ target[r] \in 1..open[r] /\ open[r] \in Nat /\ open[r] <= Len(incidents)
                /\ Len(incidents) \in Nat
            BY <1>0, <3>2, SeqFacts DEF RunsOK, RunOK, TablesOK
          <5>. QED
            BY <5>1
        <4>. DEFINE a == Updated(incidents[target[r]], fresh[r].old, fresh[r].new)
                    b == Updated(incidents'[target[r]], fresh[r].old, fresh[r].new)
        <4>2. /\ b.links = a.links /\ b.count = a.count /\ b.stages = a.stages
              /\ b.severity = a.severity
          BY <4>1 DEF Updated, Column
        <4>3. a.links \in Seq(CaseIds)
          BY <1>0, <4>1, LinkedKnown DEF Updated
        <4>4. pc[r] = "store" => Says(a, cases, incoming)
          BY <3>1 DEF Merging
        <4>. HIDE DEF a, b
        <4>5. pc[r] = "store" => Says(b, cases', incoming')
          BY <4>2, <4>3, <4>4, SaysStays
        <4>6. pc[r] = "refresh" => incidents'[target[r]].links # <<>>
          BY <3>1, <4>1 DEF Merging
        <4>. QED
          BY <4>5, <4>6 DEF Merging, b
      <3>3. CASE pc[r] \notin {"refresh", "store"}
        BY <3>3 DEF Merging
      <3>. QED
        BY <3>2, <3>3
    <2>. QED
      BY <2>1, <2>2
  <1>. QED
    BY <1>1, <1>2, <1>3, <1>4, <1>5, <1>6 DEF CorrelationInv

LEMMA SameIncidents ==
    ASSUME CorrelationInv, UNCHANGED <<incidents, torn>>,
           \A c \in CaseIds : cases[c] # NoCase => cases'[c] # NoCase
    PROVE  /\ incidents' \in Seq(IncidentRows)
           /\ \A k \in 1..Len(incidents) :
                 ~torn' => \A c \in ToSet(incidents'[k].links) : cases'[c] # NoCase
  BY LinkedKnown DEF CorrelationInv, TablesOK

LEMMA ArriveStep == ASSUME CorrelationInv, NEW c \in CaseIds, Arrive(c) PROVE CorrelationInv'
  <1>1. TablesOK /\ ColumnsStay
    BY DEF CorrelationInv
  <1>2. cases \in Rows /\ incoming \in Rows /\ incoming[c] # NoCase /\ cases[c] = NoCase
    BY <1>1 DEF TablesOK, Arrive
  <1>3. cases' \in Rows /\ incoming' \in Rows
    BY <1>2 DEF Rows, Arrive
  <1>4. \A d \in CaseIds : /\ cases'[d] = IF d = c THEN incoming[c] ELSE cases[d]
                           /\ incoming'[d] = IF d = c THEN NoCase ELSE incoming[d]
    BY <1>2 DEF Rows, Arrive
  <1>5. CasesMove
    BY <1>1, <1>2, <1>3, <1>4 DEF CasesMove, ColumnsStay, Fits
  <1>6. \A d \in CaseIds : cases[d] # NoCase => cases'[d] # NoCase
    BY <1>2, <1>4
  <1>7. UNCHANGED <<incidents, pc, local, overlapped, torn>>
    BY DEF Arrive
  <1>. QED
    BY <1>5, <1>6, <1>7, SameIncidents, EnvironmentStep

LEMMA DecideStep == ASSUME CorrelationInv, NEW c \in CaseIds, Decide(c) PROVE CorrelationInv'
  <1>1. TablesOK /\ ColumnsStay
    BY DEF CorrelationInv
  <1>2. cases \in Rows /\ incoming \in Rows /\ cases[c] # NoCase
    BY <1>1 DEF TablesOK, Decide
  <1>3. cases[c] \in CaseRow
    BY <1>2 DEF Rows
  <1>. DEFINE row == [cases[c] EXCEPT !.dismissed = ~cases[c].dismissed]
  <1>4. row \in CaseRow /\ row.user = cases[c].user /\ row.severity = cases[c].severity
    BY <1>3 DEF CaseRow
  <1>5. cases' = [cases EXCEPT ![c] = row]
    BY DEF Decide
  <1>. HIDE DEF row
  <1>6. row # NoCase
    BY <1>4, CorrelationAssumption
  <1>7. cases' \in Rows /\ incoming' = incoming
    BY <1>2, <1>4, <1>5 DEF Rows, Decide
  <1>8. \A d \in CaseIds : cases'[d] = IF d = c THEN row ELSE cases[d]
    BY <1>2, <1>5 DEF Rows
  <1>9. CasesMove
    BY <1>1, <1>2, <1>4, <1>6, <1>7, <1>8 DEF CasesMove, ColumnsStay, Fits
  <1>10. \A d \in CaseIds : cases[d] # NoCase => cases'[d] # NoCase
    BY <1>6, <1>8
  <1>11. UNCHANGED <<incidents, pc, local, overlapped, torn>>
    BY DEF Decide
  <1>. QED
    BY <1>9, <1>10, <1>11, SameIncidents, EnvironmentStep

LEMMA DeleteStep == ASSUME CorrelationInv, NEW c \in CaseIds, Delete(c) PROVE CorrelationInv'
  <1>1. TablesOK /\ ColumnsStay
    BY DEF CorrelationInv
  <1>2. cases \in Rows /\ incoming \in Rows
    BY <1>1 DEF TablesOK
  <1>3. cases' \in Rows /\ incoming' = incoming
    BY <1>2 DEF Rows, Delete, Gone
  <1>4. \A d \in CaseIds : cases'[d] = IF d = c THEN NoCase ELSE cases[d]
    BY <1>2 DEF Rows, Delete, Gone
  <1>5. CasesMove
    BY <1>1, <1>2, <1>3, <1>4 DEF CasesMove, ColumnsStay, Fits
  <1>6. incidents \in Seq(IncidentRows) /\ Len(incidents) \in Nat /\ DOMAIN incidents = 1..Len(incidents)
    BY <1>1, SeqFacts DEF TablesOK
  <1>7. incidents' = [k \in 1..Len(incidents) |->
                        [incidents[k] EXCEPT !.links = Where(incidents[k].links, CaseIds \ {c})]]
    BY <1>6 DEF Delete
  <1>8. ASSUME NEW k \in 1..Len(incidents)
        PROVE  /\ incidents'[k] \in IncidentRows
               /\ ToSet(incidents'[k].links) = ToSet(incidents[k].links) \cap (CaseIds \ {c})
               /\ ~torn' => \A d \in ToSet(incidents'[k].links) : cases'[d] # NoCase
               /\ incidents'[k].count = incidents[k].count
               /\ incidents'[k].stages = incidents[k].stages
               /\ incidents'[k].severity = incidents[k].severity
               /\ ~torn' => incidents'[k].links = incidents[k].links
    <2>. DEFINE links == Where(incidents[k].links, CaseIds \ {c})
    <2>1. /\ incidents[k] \in IncidentRows /\ incidents[k].links \in Seq(CaseIds)
          /\ \A d \in ToSet(incidents[k].links) : d \in CaseIds /\ (~torn => cases[d] # NoCase)
      BY <1>1, LinkedKnown
    <2>2. links \in Seq(CaseIds) /\ ToSet(links) = ToSet(incidents[k].links) \cap (CaseIds \ {c})
      BY <2>1, WhereList
    <2>3. ~torn' => links = incidents[k].links
      <3>1. ~torn' => c \notin ToSet(incidents[k].links)
        BY <1>6 DEF Delete, Gone, Linked
      <3>2. c \notin ToSet(incidents[k].links) => ToSet(incidents[k].links) \subseteq CaseIds \ {c}
        BY <2>1
      <3>. QED
        BY <2>1, <3>1, <3>2, WhereAll
    <2>4. incidents'[k] = [incidents[k] EXCEPT !.links = links]
      BY <1>7
    <2>. HIDE DEF links
    <2>5. /\ incidents'[k] \in IncidentRows /\ incidents'[k].links = links
          /\ incidents'[k].count = incidents[k].count
          /\ incidents'[k].stages = incidents[k].stages
          /\ incidents'[k].severity = incidents[k].severity
      BY <2>1, <2>2, <2>4 DEF IncidentRows
    <2>6. torn => torn'
      BY DEF Delete, Gone
    <2>. QED
      BY <1>4, <2>1, <2>2, <2>3, <2>5, <2>6
  <1>9. incidents' \in Seq(IncidentRows) /\ Len(incidents') = Len(incidents)
    <2>1. \A k \in 1..Len(incidents) : incidents'[k] \in IncidentRows
      BY <1>8
    <2>2. incidents' \in [1..Len(incidents) -> IncidentRows]
      BY <1>7, <2>1
    <2>. QED
      BY <1>6, <2>2
  <1>10. (torn => torn') /\ UNCHANGED <<pc, local, overlapped>>
    BY DEF Delete, Gone
  <1>. QED
    BY <1>5, <1>8, <1>9, <1>10, EnvironmentStep

-----------------------------------------------------------------------------
(* The steps of a run.                                                     *)

LEMMA OrderOfCases ==
    ASSUME TablesOK, NEW order \in Orders(cases, {c \in CaseIds : cases[c] # NoCase})
    PROVE  ListOf(cases, order)
  <1>. DEFINE stored == {c \in CaseIds : cases[c] # NoCase}
  <1>1. Cardinality(stored) \in Nat
    BY CorrelationAssumption, FS_Subset, FS_CardinalityType
  <1>2. order \in [1..Cardinality(stored) -> stored]
    BY DEF Orders, SetToSeqs
  <1>. HIDE DEF stored
  <1>3. order \in Seq(stored)
    BY <1>1, <1>2
  <1>4. \A c \in ToSet(order) : c \in stored
    BY <1>3, SeqFacts DEF ToSet
  <1>5. order \in Seq(CaseIds)
    <2>1. stored \subseteq CaseIds
      BY DEF stored
    <2>2. order \in [1..Cardinality(stored) -> CaseIds]
      BY <1>2, <2>1
    <2>. QED
      BY <1>1, <2>2
  <1>. QED
    BY <1>4, <1>5 DEF ListOf, stored, TablesOK

LEMMA StartStep == ASSUME CorrelationInv, NEW r \in Runners, Start(r) PROVE CorrelationInv'
  <1>0. TablesOK /\ RunsOK /\ ColumnsStay /\ OneRun /\ NewOK /\ Follows
    BY DEF CorrelationInv
  <1>1. UNCHANGED <<cases, incoming, incidents, made, target, fresh, torn>>
    BY DEF Start, tables
  <1>2. /\ pc[r] = "idle" /\ pc' = [pc EXCEPT ![r] = "cluster"]
        /\ seen' = [seen EXCEPT ![r] = cases] /\ open' = [open EXCEPT ![r] = Len(incidents)]
        /\ overlapped' = (overlapped \/ ~Idle)
    BY DEF Start, Goto, Reloaded
  <1>3. PICK clusters \in Seq(ClusterRows) : todo' = [todo EXCEPT ![r] = clusters]
    BY <1>0, OrderOfCases, RunClusters DEF Start
  <1>4. CasesMove
    BY <1>0, <1>1, CasesRest
  <1>5. Len(incidents) \in Nat
    BY <1>0, SeqFacts DEF TablesOK
  <1>6. OnlyRun(r)
    BY <1>0, <1>1, <1>2, <1>3, <1>5 DEF OnlyRun, RunsOK, Phases
  <1>7. TablesOK'
    BY <1>0, <1>1 DEF TablesOK, Known, Live
  <1>8. made[r] = <<>> /\ target[r] = 0 /\ <<>> \in Seq(IncidentRows)
    BY <1>0, <1>2, EmptySeq DEF RunsOK, RunOK
  <1>9. RunsOK'
    <2>1. /\ pc'[r] = "cluster" /\ seen'[r] = cases /\ open'[r] = Len(incidents)
          /\ todo'[r] = clusters /\ made'[r] = <<>> /\ target'[r] = 0
      BY <1>0, <1>1, <1>2, <1>3, <1>8 DEF RunsOK
    <2>2. RunOK(r)'
      BY <1>0, <1>1, <1>5, <1>8, <2>1 DEF RunOK, TablesOK
    <2>. QED
      BY <1>0, <1>1, <1>5, <1>6, <2>2, OthersOK
  <1>10. ColumnsStay'
    BY <1>0, <1>1, <1>2, <1>4, <1>6, ColumnsOK DEF RunsOK
  <1>11. ~overlapped' => /\ ~overlapped
                         /\ \A q \in Runners : pc[q] = "idle" /\ (q # r => pc'[q] = "idle")
    BY <1>2, <1>6 DEF Idle, Active, OnlyRun
  <1>12. OneRun'
    BY <1>11 DEF OneRun, Active
  <1>13. NewOK'
    <2>1. \A q \in Runners : made'[q] = made[q] /\ (q # r => open'[q] = open[q])
      BY <1>1, <1>6 DEF OnlyRun
    <2>2. Len(made[r]) = 0
      BY <1>8
    <2>3. ASSUME NEW q \in Runners, NEW m \in 1..Len(made'[q])
          PROVE  /\ Says(made'[q][m], cases', incoming')
                 /\ ~overlapped' => \A i \in 1..open'[q] :
                        UsersIn(made'[q][m], cases') \cap UsersIn(incidents'[i], cases') = {}
      <3>1. q # r /\ made'[q] = made[q] /\ open'[q] = open[q]
        BY <2>1, <2>2
      <3>2. m \in 1..Len(made[q])
        BY <3>1
      <3>. QED
        BY <1>0, <1>1, <1>11, <3>1, <3>2 DEF NewOK
    <2>. QED
      BY <2>3 DEF NewOK
  <1>14. Follows'
    <2>1. \A q \in Runners : ~overlapped' => pc'[q] # "refresh" /\ pc'[q] # "store"
      BY <1>0, <1>2, <1>11 DEF RunsOK
    <2>. QED
      BY <1>0, <1>1, <1>11, <2>1 DEF Follows, Merging
  <1>. QED
    BY <1>7, <1>9, <1>10, <1>12, <1>13, <1>14 DEF CorrelationInv

(* Every run that leaves, for whatever reason, leaves nothing behind.      *)
LEMMA StopMoves ==
    ASSUME RunsOK, NEW r \in Runners, Stop(r)
    PROVE  /\ OnlyRun(r)
           /\ pc'[r] = "idle" /\ seen'[r] = NoRows /\ open'[r] = 0 /\ todo'[r] = <<>>
           /\ made'[r] = <<>> /\ target'[r] = 0
  BY DEF Stop, RunsOK, OnlyRun, Phases, NoRows

LEMMA LeavingStep ==
    ASSUME CorrelationInv, NEW r \in Runners, Active(r), Stop(r), CasesMove,
           UNCHANGED <<incidents, overlapped>>, torn => torn',
           ~overlapped /\ ~torn' => pc[r] \notin {"refresh", "store"},
           \A c \in CaseIds : cases[c] # NoCase => cases'[c] # NoCase
    PROVE  CorrelationInv'
  <1>0. TablesOK /\ RunsOK /\ ColumnsStay /\ OneRun /\ NewOK /\ Follows
    BY DEF CorrelationInv
  <1>1. /\ OnlyRun(r)
        /\ pc'[r] = "idle" /\ seen'[r] = NoRows /\ open'[r] = 0 /\ todo'[r] = <<>>
        /\ made'[r] = <<>> /\ target'[r] = 0
    BY <1>0, StopMoves
  <1>2. TablesOK'
    <2>1. ASSUME NEW k \in 1..Len(incidents), NEW c \in ToSet(incidents[k].links)
          PROVE  incoming'[c] = NoCase /\ (~torn' => cases'[c] # NoCase)
      BY <1>0, LinkedKnown DEF CasesMove
    <2>2. Known(incidents)' /\ (~torn' => Live(incidents)')
      BY <2>1 DEF Known, Live
    <2>. QED
      BY <1>0, <2>2 DEF TablesOK, CasesMove
  <1>3. RunsOK'
    <2>1. Len(incidents) \in Nat
      BY <1>0, SeqFacts DEF TablesOK
    <2>2. NoRows \in Rows /\ <<>> \in Seq(ClusterRows) /\ <<>> \in Seq(IncidentRows)
      BY EmptySeq DEF NoRows, Rows
    <2>3. RunOK(r)'
      BY <1>1, <2>1, <2>2 DEF RunOK
    <2>. QED
      BY <1>0, <1>1, <2>1, <2>3, OthersOK
  <1>4. ColumnsStay'
    BY <1>0, <1>1, ColumnsOK
  <1>5. OneRun'
    BY <1>0, <1>1, OneRunOK
  <1>6. NewOK'
    <2>1. Len(<<>>) = 0
      BY EmptySeq
    <2>. QED
      BY <1>0, <1>1, <2>1, NewStays
  <1>7. Follows'
    <2>1. ASSUME ~overlapped, ~torn', NEW k \in 1..Len(incidents)
          PROVE  Says(incidents[k], cases', incoming')
      <3>1. target[r] = 0 /\ ~torn
        BY <1>0, <2>1 DEF RunsOK, RunOK
      <3>2. Says(incidents[k], cases, incoming)
        BY <1>0, <2>1, <3>1, FollowsFor
      <3>. QED
        BY <1>0, <3>2, LinkedKnown, SaysStays
    <2>2. Merging(r)'
      BY <1>1 DEF Merging
    <2>. QED
      BY <1>0, <1>1, <2>1, <2>2, FollowsOK
  <1>. QED
    BY <1>2, <1>3, <1>4, <1>5, <1>6, <1>7 DEF CorrelationInv

LEMMA FailStep == ASSUME CorrelationInv, NEW r \in Runners, Fail(r) PROVE CorrelationInv'
  <1>1. UNCHANGED <<cases, incoming, incidents, overlapped, torn>> /\ Stop(r)
    BY DEF Fail, tables
  <1>2. Active(r) /\ pc[r] \notin {"refresh", "store"}
    BY DEF Fail, Active
  <1>3. CasesMove
    BY <1>1, CasesRest DEF CorrelationInv
  <1>. QED
    BY <1>1, <1>2, <1>3, LeavingStep

LEMMA FaultStep == ASSUME CorrelationInv, NEW r \in Runners, Fault(r) PROVE CorrelationInv'
  <1>1. UNCHANGED <<cases, incoming, incidents, overlapped>> /\ torn' /\ Stop(r) /\ Active(r)
    BY DEF Fault, tables
  <1>2. CasesMove
    BY <1>1, CasesRest DEF CorrelationInv
  <1>. QED
    BY <1>1, <1>2, LeavingStep

LEMMA RescoredRow ==
    ASSUME NEW row \in CaseRow, NEW n \in 0..100
    PROVE  /\ [row EXCEPT !.score = n] \in CaseRow
           /\ [row EXCEPT !.score = n].user = row.user
           /\ [row EXCEPT !.score = n].severity = row.severity
  BY DEF CaseRow

LEMMA BoostMoves ==
    ASSUME CorrelationInv, NEW r \in Runners, Boost(r)
    PROVE  CasesMove /\ \A c \in CaseIds : cases[c] # NoCase => cases'[c] # NoCase
  <1>0. TablesOK /\ ColumnsStay
    BY DEF CorrelationInv
  <1>1. UNCHANGED incoming
    BY DEF Boost
  <1>. DEFINE strong == {k \in DOMAIN incidents : incidents[k].score >= 70}
  <1>2. PICK order \in SetToSeqs(strong) :
           cases' = [c \in CaseIds |-> IF cases[c] = NoCase THEN NoCase
                                       ELSE [cases[c] EXCEPT !.score = Raised(c, order)]]
    BY DEF Boost
  <1>3. order \in Seq(DOMAIN incidents)
    <2>1. DOMAIN incidents = 1..Len(incidents) /\ Len(incidents) \in Nat
      BY <1>0, SeqFacts DEF TablesOK
    <2>2. IsFiniteSet(DOMAIN incidents)
      <3>1. Len(incidents) \in Int /\ 1 \in Int
        BY <2>1
      <3>2. IsFiniteSet(1..Len(incidents))
        BY <3>1, FS_Interval
      <3>. QED
        BY <2>1, <3>2
    <2>3. Cardinality(strong) \in Nat
      BY <2>2, FS_Subset, FS_CardinalityType
    <2>4. order \in [1..Cardinality(strong) -> strong]
      BY DEF SetToSeqs
    <2>. HIDE DEF strong
    <2>5. strong \subseteq DOMAIN incidents
      BY DEF strong
    <2>6. order \in [1..Cardinality(strong) -> DOMAIN incidents]
      BY <2>4, <2>5
    <2>. QED
      BY <2>3, <2>6
  <1>4. ASSUME NEW c \in CaseIds, cases[c] # NoCase
        PROVE  /\ cases'[c] \in CaseRow /\ cases'[c] # NoCase
               /\ cases'[c].user = cases[c].user /\ cases'[c].severity = cases[c].severity
    <2>1. cases[c] \in CaseRow
      BY <1>0, <1>4 DEF TablesOK, Rows
    <2>. DEFINE score == Raised(c, order)
    <2>2. score \in 0..100
      BY <1>0, <1>3, <2>1, RaisedRange DEF TablesOK
    <2>3. cases'[c] = [cases[c] EXCEPT !.score = score]
      BY <1>2, <1>4
    <2>. HIDE DEF score
    <2>4. cases'[c] \in CaseRow
      BY ONLY <2>2, <2>3, RescoredRow, <2>1
    <2>5. cases'[c].user = cases[c].user /\ cases'[c].severity = cases[c].severity
      BY ONLY <2>2, <2>3, RescoredRow, <2>1
    <2>. QED
      BY <2>4, <2>5, CorrelationAssumption
  <1>5. \A c \in CaseIds : cases[c] = NoCase => cases'[c] = NoCase
    BY <1>2
  <1>6. cases' \in Rows
    <2>1. \A c \in CaseIds : cases'[c] \in CaseRow \cup {NoCase}
      BY <1>4, <1>5
    <2>2. cases' = [c \in CaseIds |-> cases'[c]]
      BY <1>2
    <2>. QED
      BY <2>1, <2>2 DEF Rows
  <1>7. CasesMove
    BY <1>0, <1>1, <1>4, <1>5, <1>6 DEF CasesMove, TablesOK, ColumnsStay, Fits
  <1>. QED
    BY <1>4, <1>7

LEMMA BoostStep == ASSUME CorrelationInv, NEW r \in Runners, Boost(r) PROVE CorrelationInv'
  <1>1. UNCHANGED <<incidents, overlapped, torn>> /\ Stop(r)
    BY DEF Boost
  <1>2. Active(r) /\ pc[r] \notin {"refresh", "store"}
    BY DEF Boost, Active
  <1>. QED
    BY <1>1, <1>2, BoostMoves, LeavingStep

LEMMA TargetRow ==
    ASSUME CorrelationInv, NEW r \in Runners, pc[r] \in {"refresh", "store"}
    PROVE  /\ target[r] \in 1..open[r] /\ target[r] \in 1..Len(incidents)
           /\ incidents[target[r]] \in IncidentRows
  <1>1. /\ target[r] \in 1..open[r] /\ open[r] \in Nat /\ open[r] <= Len(incidents)
        /\ Len(incidents) \in Nat
    BY SeqFacts DEF CorrelationInv, TablesOK, RunsOK, RunOK
  <1>2. target[r] \in 1..Len(incidents)
    BY <1>1
  <1>. QED
    BY <1>1, <1>2, SeqFacts DEF CorrelationInv, TablesOK

LEMMA RefreshStep == ASSUME CorrelationInv, NEW r \in Runners, Refresh(r) PROVE CorrelationInv'
  <1>. DEFINE old == incidents[target[r]]
  <1>0. TablesOK /\ RunsOK /\ ColumnsStay /\ OneRun /\ NewOK /\ Follows
    BY DEF CorrelationInv
  <1>1. UNCHANGED <<cases, incoming, incidents, seen, open, todo, made, overlapped, torn>>
    BY DEF Refresh, tables
  <1>2. pc[r] = "refresh" /\ Active(r)
    BY DEF Refresh, Active
  <1>3. target[r] \in 1..open[r] /\ target[r] \in 1..Len(incidents) /\ old \in IncidentRows
    BY <1>2, TargetRow
  <1>. DEFINE none == LinkedList(old) = <<>>
  <1>4. none \in BOOLEAN /\ (~torn => (none <=> old.links = <<>>))
    BY <1>0, <1>3, LinkedListIs
  <1>5. \/ /\ none
           /\ pc' = [pc EXCEPT ![r] = "cluster"] /\ target' = [target EXCEPT ![r] = 0]
           /\ fresh' = fresh
        \/ /\ ~none
           /\ pc' = [pc EXCEPT ![r] = "store"] /\ target' = target
           /\ fresh' = [fresh EXCEPT ![r] = [old |-> old, new |-> Derived(old)]]
    BY DEF Refresh, Goto
  <1>. HIDE DEF none
  <1>6. CasesMove
    BY <1>0, <1>1, CasesRest
  <1>7. OnlyRun(r)
    BY <1>0, <1>1, <1>5 DEF OnlyRun, RunsOK, Phases
  <1>8. TablesOK'
    BY <1>0, <1>1 DEF TablesOK, Known, Live
  <1>9. made[r] = <<>> /\ Len(made[r]) = 0
    BY <1>0, <1>2, EmptySeq DEF RunsOK, RunOK
  <1>10. ~none => /\ Derived(old) \in IncidentRows /\ Derived(old).links = old.links
                  /\ ~torn => Says(Derived(old), cases, incoming)
    BY <1>0, <1>3, DerivedOK DEF none
  <1>11. \/ none /\ pc'[r] = "cluster" /\ target'[r] = 0
         \/ /\ ~none /\ pc'[r] = "store" /\ target'[r] = target[r]
            /\ fresh'[r].old = old /\ fresh'[r].new = Derived(old)
            /\ fresh'[r] \in [old : IncidentRows, new : IncidentRows]
    <2>. HIDE DEF old
    <2>. QED
      BY <1>0, <1>3, <1>5, <1>10 DEF RunsOK
  <1>12. RunsOK'
    <2>1. Len(incidents) \in Nat
      BY <1>0, SeqFacts DEF TablesOK
    <2>2. RunOK(r)
      BY <1>0 DEF RunsOK
    <2>3. RunOK(r)'
      <3>. HIDE DEF old
      <3>. QED
        BY <1>1, <1>3, <1>9, <1>11, <2>1, <2>2 DEF RunOK
    <2>. QED
      BY <1>0, <1>1, <1>7, <2>1, <2>3, OthersOK
  <1>13. ColumnsStay'
    BY <1>0, <1>1, <1>6, <1>7, ColumnsOK
  <1>14. OneRun'
    BY <1>0, <1>1, <1>2, <1>7, OneRunOK
  <1>15. NewOK'
    BY <1>0, <1>1, <1>2, <1>6, <1>7, <1>9, NewStays
  <1>16. Follows'
    <2>1. ASSUME ~overlapped, ~torn'
          PROVE  /\ ~none /\ ~torn
                 /\ \A k \in 1..Len(incidents) : target[r] # k => Says(incidents[k], cases, incoming)
      BY <1>0, <1>1, <1>2, <1>4, <2>1, FollowsFor DEF Merging
    <2>2. ASSUME ~overlapped, ~torn' PROVE Merging(r)'
      <3>1. /\ pc'[r] = "store" /\ target'[r] = target[r]
            /\ fresh'[r].old = old /\ fresh'[r].new = Derived(old)
        BY <1>11, <2>1, <2>2
      <3>. DEFINE new == Updated(old, old, Derived(old))
      <3>2. /\ new.links = Derived(old).links /\ new.count = Derived(old).count
            /\ new.stages = Derived(old).stages /\ new.severity = Derived(old).severity
        BY <1>3, <1>10, <2>1, <2>2, UpdatedRow
      <3>3. Says(new, cases', incoming')
        <4>1. Derived(old).links \in Seq(CaseIds) /\ Says(Derived(old), cases, incoming)
          BY <1>10, <2>1, <2>2 DEF IncidentRows
        <4>. HIDE DEF new
        <4>. QED
          BY <1>6, <3>2, <4>1, SaysStays
      <3>. QED
        BY <1>1, <3>1, <3>3 DEF Merging
    <2>3. ASSUME ~overlapped, ~torn', NEW k \in 1..Len(incidents), target'[r] # k
          PROVE  Says(incidents[k], cases', incoming')
      <3>1. target'[r] = target[r]
        BY <1>0, <1>5, <1>11, <2>1, <2>3 DEF RunsOK
      <3>. QED
        BY <1>1, <2>1, <2>3, <3>1
    <2>. QED
      BY <1>0, <1>1, <1>2, <1>7, <2>2, <2>3, FollowsOK
  <1>. QED
    BY <1>8, <1>12, <1>13, <1>14, <1>15, <1>16 DEF CorrelationInv

LEMMA StoreStep == ASSUME CorrelationInv, NEW r \in Runners, Store(r) PROVE CorrelationInv'
  <1>. DEFINE t == target[r]
              row == Updated(incidents[t], fresh[r].old, fresh[r].new)
  <1>0. TablesOK /\ RunsOK /\ ColumnsStay /\ OneRun /\ NewOK /\ Follows
    BY DEF CorrelationInv
  <1>1. UNCHANGED <<cases, incoming, open, todo, made, overlapped, torn>>
    BY DEF Store
  <1>2. pc[r] = "store" /\ Active(r)
    BY DEF Store, Active
  <1>3. t \in 1..open[r] /\ t \in 1..Len(incidents) /\ incidents[t] \in IncidentRows
    BY <1>2, TargetRow
  <1>4. fresh[r] \in [old : IncidentRows, new : IncidentRows]
    BY <1>0, <1>2 DEF RunsOK, RunOK
  <1>5. row \in IncidentRows /\ row.links = incidents[t].links
    BY <1>3, <1>4, UpdatedRow
  <1>6. /\ incidents' = [incidents EXCEPT ![t] = row] /\ target' = [target EXCEPT ![r] = 0]
        /\ fresh' = [fresh EXCEPT ![r] = <<>>] /\ pc' = [pc EXCEPT ![r] = "cluster"]
        /\ seen' = [seen EXCEPT ![r] = cases]
    BY DEF Store, Goto, Reloaded
  <1>. HIDE DEF t, row
  <1>7. incidents \in Seq(IncidentRows) /\ Len(incidents) \in Nat
    BY <1>0, SeqFacts DEF TablesOK
  <1>8. /\ incidents' \in Seq(IncidentRows) /\ Len(incidents') = Len(incidents)
        /\ \A k \in 1..Len(incidents) : incidents'[k] = IF k = t THEN row ELSE incidents[k]
    BY <1>3, <1>5, <1>6, <1>7, ExceptSeq
  <1>9. \A k \in 1..Len(incidents) : incidents'[k].links = incidents[k].links
    BY <1>5, <1>8
  <1>10. CasesMove
    BY <1>0, <1>1, CasesRest
  <1>11. OnlyRun(r)
    BY <1>0, <1>1, <1>6 DEF OnlyRun, RunsOK, Phases
  <1>12. TablesOK'
    BY <1>0, <1>1, <1>8, <1>9 DEF TablesOK, Known, Live
  <1>13. made[r] = <<>> /\ Len(made[r]) = 0
    BY <1>0, <1>2, EmptySeq DEF RunsOK, RunOK
  <1>14. pc'[r] = "cluster" /\ target'[r] = 0 /\ seen'[r] = cases
    BY <1>0, <1>6 DEF RunsOK
  <1>15. RunsOK'
    <2>1. RunOK(r)
      BY <1>0 DEF RunsOK
    <2>2. RunOK(r)'
      BY <1>0, <1>1, <1>8, <1>13, <1>14, <2>1 DEF RunOK, TablesOK
    <2>. QED
      BY <1>0, <1>7, <1>8, <1>11, <2>2, OthersOK
  <1>16. ColumnsStay'
    BY <1>0, <1>1, <1>10, <1>11, <1>14, ColumnsOK
  <1>17. OneRun'
    BY <1>0, <1>1, <1>2, <1>11, OneRunOK
  <1>18. NewOK'
    BY <1>0, <1>1, <1>2, <1>10, <1>11, <1>13, NewStays
  <1>19. Follows'
    <2>1. ASSUME ~overlapped, ~torn', NEW k \in 1..Len(incidents)
          PROVE  Says(incidents'[k], cases', incoming')
      <3>1. Merging(r) /\ \A j \in 1..Len(incidents) : target[r] # j => Says(incidents[j], cases, incoming)
        BY <1>0, <1>1, <1>2, <2>1, FollowsFor
      <3>2. CASE k = t
        <4>1. Says(row, cases, incoming)
          BY <1>2, <3>1 DEF Merging, row, t
        <4>. QED
          BY <1>1, <1>8, <3>2, <4>1
      <3>3. CASE k # t
        BY <1>1, <1>8, <3>1, <3>3 DEF t
      <3>. QED
        BY <3>2, <3>3
    <2>2. Merging(r)'
      BY <1>14 DEF Merging
    <2>. QED
      BY <1>0, <1>1, <1>2, <1>8, <1>11, <2>1, <2>2, FollowsOK
  <1>. QED
    BY <1>12, <1>15, <1>16, <1>17, <1>18, <1>19 DEF CorrelationInv

(* The cluster that a run takes.                                           *)
LEMMA TakenCluster ==
    ASSUME CorrelationInv, NEW r \in Runners, todo[r] # <<>>, Readable(r)
    PROVE  /\ Cases(r) # <<>> /\ ListOf(seen[r], Cases(r))
           /\ Tail(todo[r]) \in Seq(ClusterRows)
  <1>1. todo[r] \in Seq(ClusterRows) /\ seen[r] \in Rows
    BY DEF CorrelationInv, RunsOK, RunOK
  <1>2. Head(todo[r]) \in ClusterRows /\ Tail(todo[r]) \in Seq(ClusterRows)
    BY <1>1, HeadTailProperties
  <1>3. Cases(r) \in Lists
    BY <1>2 DEF ClusterRows, Cases
  <1>. QED
    BY <1>1, <1>2, <1>3 DEF Lists, ListOf, Readable

(* A cluster taken that becomes an incident is added to those made.        *)
CreatedBy(r) ==
    /\ DOMAIN made' = DOMAIN made /\ \A q \in Runners \ {r} : made'[q] = made[q]
    /\ made'[r] \in Seq(IncidentRows)
    /\ \A m \in 1..Len(made'[r]) :
          \/ m \in 1..Len(made[r]) /\ made'[r][m] = made[r][m]
          \/ MadeOf(made'[r][m], seen[r], Cases(r))

LEMMA CreatedRows ==
    ASSUME CorrelationInv, NEW r \in Runners, Create(r)
    PROVE  CreatedBy(r)
  <1>. DEFINE list == Cases(r)
              rows == seen[r]
  <1>0. RunsOK
    BY DEF CorrelationInv
  <1>1. list # <<>> /\ ListOf(rows, list)
    BY TakenCluster DEF Create
  <1>2. \/ made' = [made EXCEPT ![r] = made[r]]
        \/ \E row : /\ MadeOf(row, rows, list)
                    /\ made' = [made EXCEPT ![r] = Append(made[r], row)]
    <2>1. MadeOf(ChainIncident(rows, list), rows, list)
      BY <1>1, ChainMade
    <2>2. ~(Cardinality(StagesOf(rows, list)) >= 2) => MadeOf(PatternIncident(rows, list), rows, list)
      BY <1>1, PatternMade
    <2>3. made' = [made EXCEPT ![r] =
              IF Cardinality(StagesOf(rows, list)) >= 2
              THEN Append(made[r], ChainIncident(rows, list))
              ELSE IF IsPattern(rows, list) THEN Append(made[r], PatternIncident(rows, list))
              ELSE made[r]]
      BY DEF Create
    <2>. HIDE DEF list, rows
    <2>4. CASE Cardinality(StagesOf(rows, list)) >= 2
      BY <2>1, <2>3, <2>4
    <2>5. CASE ~(Cardinality(StagesOf(rows, list)) >= 2) /\ IsPattern(rows, list)
      BY <2>2, <2>3, <2>5
    <2>6. CASE ~(Cardinality(StagesOf(rows, list)) >= 2) /\ ~IsPattern(rows, list)
      BY <2>3, <2>6
    <2>. QED
      BY <2>4, <2>5, <2>6
  <1>3. made[r] \in Seq(IncidentRows) /\ Len(made[r]) \in Nat
        /\ \A m \in 1..Len(made[r]) : made[r][m] \in IncidentRows
    <2>1. made[r] \in Seq(IncidentRows)
      BY <1>0 DEF RunsOK, RunOK
    <2>. QED
      BY <2>1, SeqFacts
  <1>4. \/ made'[r] = made[r]
        \/ \E row : MadeOf(row, rows, list) /\ made'[r] = Append(made[r], row)
    <2>. HIDE DEF list, rows
    <2>. QED
      BY <1>0, <1>2 DEF RunsOK
  <1>5. /\ made'[r] \in Seq(IncidentRows)
         /\ \A m \in 1..Len(made'[r]) :
               \/ m \in 1..Len(made[r]) /\ made'[r][m] = made[r][m]
               \/ MadeOf(made'[r][m], rows, list)
    <2>. HIDE DEF list, rows
    <2>1. CASE made'[r] = made[r]
      BY <1>3, <2>1
    <2>2. ASSUME NEW row, MadeOf(row, rows, list), made'[r] = Append(made[r], row)
          PROVE  /\ made'[r] \in Seq(IncidentRows)
                 /\ \A m \in 1..Len(made'[r]) :
                       \/ m \in 1..Len(made[r]) /\ made'[r][m] = made[r][m]
                       \/ MadeOf(made'[r][m], rows, list)
      <3>1. row \in IncidentRows
        BY <2>2 DEF MadeOf
      <3>2. /\ Append(made[r], row) \in Seq(IncidentRows)
            /\ Len(Append(made[r], row)) = Len(made[r]) + 1
            /\ \A m \in 1..Len(made[r]) : Append(made[r], row)[m] = made[r][m]
            /\ Append(made[r], row)[Len(made[r]) + 1] = row
        BY <1>3, <3>1, AppendProperties
      <3>. QED
        BY <1>3, <2>2, <3>2
    <2>. QED
      BY <1>4, <2>1, <2>2
  <1>6. DOMAIN made' = DOMAIN made /\ \A q \in Runners \ {r} : made'[q] = made[q]
    <2>1. PICK added : made' = [made EXCEPT ![r] = added]
      BY <1>2
    <2>. QED
      BY <2>1
  <1>. QED
    BY <1>5, <1>6 DEF CreatedBy

LEMMA CreateStep == ASSUME CorrelationInv, NEW r \in Runners, Create(r) PROVE CorrelationInv'
  <1>. DEFINE list == Cases(r)
              rows == seen[r]
  <1>0. TablesOK /\ RunsOK /\ ColumnsStay /\ OneRun /\ NewOK /\ Follows
    BY DEF CorrelationInv
  <1>1. UNCHANGED <<cases, incoming, incidents, pc, seen, open, target, fresh, overlapped, torn>>
    BY DEF Create, tables
  <1>2. pc[r] = "cluster" /\ Active(r) /\ Matches(r) = {}
    BY DEF Create, Active
  <1>3. /\ list # <<>> /\ ListOf(rows, list) /\ Tail(todo[r]) \in Seq(ClusterRows)
        /\ todo' = [todo EXCEPT ![r] = Tail(todo[r])]
    BY TakenCluster DEF Create
  <1>4. CreatedBy(r)
    BY CreatedRows
  <1>5. CasesMove
    BY <1>0, <1>1, CasesRest
  <1>6. OnlyRun(r)
    BY <1>0, <1>1, <1>3, <1>4 DEF OnlyRun, RunsOK, Phases, CreatedBy
  <1>7. TablesOK'
    BY <1>0, <1>1 DEF TablesOK, Known, Live
  <1>8. RunsOK'
    <2>1. Len(incidents) \in Nat /\ RunOK(r)
      BY <1>0, SeqFacts DEF TablesOK, RunsOK
    <2>2. todo'[r] = Tail(todo[r])
      BY <1>0, <1>3 DEF RunsOK
    <2>3. RunOK(r)'
      BY <1>1, <1>2, <1>3, <1>4, <2>1, <2>2 DEF RunOK, CreatedBy
    <2>. QED
      BY <1>0, <1>1, <1>6, <2>1, <2>3, OthersOK
  <1>9. ColumnsStay'
    BY <1>0, <1>1, <1>5, <1>6, ColumnsOK
  <1>10. OneRun'
    BY <1>0, <1>1, <1>2, <1>6, OneRunOK
  <1>11. NewOK'
    <2>1. ASSUME NEW row, MadeOf(row, rows, list)
          PROVE  /\ Says(row, cases, incoming)
                 /\ \A i \in 1..open[r] : UsersIn(row, cases) \cap UsersIn(incidents[i], cases) = {}
      <3>1. \A c \in ToSet(list) :
               /\ c \in CaseIds /\ incoming[c] = NoCase
               /\ cases[c] # NoCase => /\ rows[c].user = cases[c].user
                                       /\ rows[c].severity = cases[c].severity
        <4>1. \A c \in ToSet(list) : c \in CaseIds /\ rows[c] # NoCase
          BY <1>3, ListRows DEF ListOf
        <4>2. Fits(rows, cases, incoming)
          BY <1>0 DEF ColumnsStay
        <4>. HIDE DEF list, rows
        <4>. QED
          BY <4>1, <4>2 DEF Fits
      <3>2. row.links = list /\ row.count = Len(list)
            /\ (Cardinality(row.stages) >= 2 => \A c \in ToSet(list) : row.severity >= rows[c].severity)
        BY <2>1 DEF MadeOf
      <3>3. Says(row, cases, incoming)
        <4>. HIDE DEF list, rows
        <4>. QED
          BY <3>1, <3>2 DEF Says
      <3>4. UsersIn(row, cases) \subseteq NamedUsers(rows, list)
        <4>. HIDE DEF list, rows
        <4>. QED
          BY <3>1, <3>2 DEF UsersIn, NamedUsers, Named
      <3>5. ASSUME NEW i \in 1..open[r]
            PROVE  NamedUsers(rows, list) \cap UsersIn(incidents[i], cases) = {}
        <4>1. NamedUsers(rows, list) \cap UsersOf(incidents[i]) = {}
          BY <1>2 DEF Matches
        <4>. QED
          BY <4>1, UsersAreThose
      <3>. QED
        BY <3>3, <3>4, <3>5
    <2>2. ASSUME NEW m \in 1..Len(made'[r])
          PROVE  /\ Says(made'[r][m], cases', incoming')
                 /\ ~overlapped => \A i \in 1..open'[r] :
                        UsersIn(made'[r][m], cases') \cap UsersIn(incidents'[i], cases') = {}
      <3>1. CASE m \in 1..Len(made[r]) /\ made'[r][m] = made[r][m]
        BY <1>0, <1>1, <3>1 DEF NewOK
      <3>2. CASE MadeOf(made'[r][m], rows, list)
        BY <1>1, <2>1, <3>2
      <3>. QED
        BY <1>4, <3>1, <3>2 DEF CreatedBy
    <2>. QED
      BY <1>0, <1>1, <1>2, <1>5, <1>6, <2>2, NewStays
  <1>12. Follows'
    <2>1. ASSUME ~overlapped, ~torn', NEW k \in 1..Len(incidents), target[r] # k
          PROVE  Says(incidents[k], cases, incoming)
      BY <1>0, <1>1, <1>2, <2>1, FollowsFor
    <2>2. Merging(r)'
      BY <1>1, <1>2 DEF Merging
    <2>. QED
      BY <1>0, <1>1, <1>2, <1>6, <2>1, <2>2, FollowsOK
  <1>. QED
    BY <1>7, <1>8, <1>9, <1>10, <1>11, <1>12 DEF CorrelationInv

(* A commit appends the incidents that the run has added to the table.     *)
LEMMA CommitStep ==
    ASSUME CorrelationInv, NEW r \in Runners, pc[r] = "cluster", OnlyRun(r),
           UNCHANGED <<cases, incoming, overlapped>>, torn => torn',
           NEW base \in Seq(IncidentRows), Len(base) = Len(incidents),
           Known(base), Known(made[r]), ~torn' => Live(base) /\ Live(made[r]),
           incidents' = base \o made[r],
           made'[r] = <<>>, seen'[r] = cases, open'[r] = open[r], todo'[r] \in Seq(ClusterRows),
           target'[r] \in Nat,
           \/ pc'[r] = "boost" /\ target'[r] = 0
           \/ /\ pc'[r] = "refresh" /\ target'[r] \in 1..open[r]
              /\ base[target'[r]].links # <<>>,
           \A k \in 1..Len(incidents) : k # target'[r] => base[k] = incidents[k]
    PROVE  CorrelationInv'
  <1>0. TablesOK /\ RunsOK /\ ColumnsStay /\ OneRun /\ NewOK /\ Follows
    BY DEF CorrelationInv
  <1>. DEFINE n == Len(incidents)
              more == made[r]
  <1>1. more \in Seq(IncidentRows) /\ n \in Nat /\ Len(more) \in Nat
        /\ open[r] \in Nat /\ open[r] <= n
    <2>1. more \in Seq(IncidentRows) /\ open[r] \in Nat /\ open[r] <= n
      BY <1>0 DEF RunsOK, RunOK
    <2>. QED
      BY <1>0, <2>1, SeqFacts DEF TablesOK
  <1>. HIDE DEF n, more
  <1>2. /\ incidents' \in Seq(IncidentRows) /\ Len(incidents') = n + Len(more)
        /\ \A k \in 1..n : incidents'[k] = base[k]
        /\ \A k \in (n + 1)..(n + Len(more)) : incidents'[k] = more[k - n]
    <2>1. Len(base) = n /\ incidents' = base \o more
      BY DEF n, more
    <2>2. /\ base \o more \in Seq(IncidentRows) /\ Len(base \o more) = Len(base) + Len(more)
          /\ \A k \in 1..(Len(base) + Len(more)) :
                (base \o more)[k] = IF k <= Len(base) THEN base[k] ELSE more[k - Len(base)]
      <3>1. base \in Seq(IncidentRows) /\ more \in Seq(IncidentRows)
        BY <1>1
      <3>. QED
        BY ONLY <3>1, ConcatProperties
    <2>. QED
      BY <1>1, <2>1, <2>2
  <1>3. \A k \in 1..Len(incidents') :
           \/ k \in 1..n /\ incidents'[k] = base[k]
           \/ k - n \in 1..Len(more) /\ incidents'[k] = more[k - n]
    BY <1>1, <1>2
  <1>4. CasesMove
    BY <1>0, CasesRest
  <1>5. TablesOK'
    <2>1. ASSUME NEW k \in 1..Len(incidents'), NEW c \in ToSet(incidents'[k].links)
          PROVE  incoming[c] = NoCase /\ (~torn' => cases[c] # NoCase)
      <3>1. CASE k \in 1..n /\ incidents'[k] = base[k]
        BY <3>1 DEF Known, Live, n
      <3>2. CASE k - n \in 1..Len(more) /\ incidents'[k] = more[k - n]
        BY <3>2 DEF Known, Live, more
      <3>. QED
        BY <1>3, <3>1, <3>2
    <2>2. Known(incidents)' /\ (~torn' => Live(incidents)')
      BY <2>1 DEF Known, Live
    <2>. QED
      BY <1>0, <1>2, <2>2 DEF TablesOK
  <1>6. RunsOK'
    <2>1. /\ Len(incidents) \in Nat /\ Len(incidents') \in Nat /\ Len(incidents) <= Len(incidents')
          /\ open[r] <= Len(incidents')
      BY <1>1, <1>2 DEF n
    <2>2. <<>> \in Seq(IncidentRows)
      BY EmptySeq
    <2>3. RunOK(r)'
      BY <1>0, <2>1, <2>2 DEF RunOK, TablesOK
    <2>. QED
      BY <1>0, <2>1, <2>3, OthersOK
  <1>7. ColumnsStay'
    BY <1>0, <1>4, ColumnsOK
  <1>8. Active(r)
    BY DEF Active
  <1>9. OneRun'
    BY <1>0, <1>8, OneRunOK
  <1>10. NewOK'
    <2>1. Len(<<>>) = 0
      BY EmptySeq
    <2>. QED
      BY <1>0, <1>4, <1>8, <2>1, NewStays
  <1>11. Follows'
    <2>1. ASSUME ~overlapped, ~torn', NEW k \in 1..Len(incidents'), target'[r] # k
          PROVE  Says(incidents'[k], cases', incoming')
      <3>1. target[r] = 0
        BY <1>0 DEF RunsOK, RunOK
      <3>2. CASE k \in 1..n /\ incidents'[k] = base[k]
        <4>1. k \in 1..Len(incidents) /\ target[r] # k
          BY <3>1, <3>2 DEF n
        <4>2. base[k] = incidents[k]
          BY <1>1, <4>1, <2>1
        <4>3. Says(incidents[k], cases, incoming)
          BY <1>0, <1>8, <2>1, <4>1, FollowsFor
        <4>. QED
          BY <3>2, <4>2, <4>3
      <3>3. CASE k - n \in 1..Len(more) /\ incidents'[k] = more[k - n]
        BY <1>0, <3>3 DEF NewOK, more
      <3>. QED
        BY <1>3, <3>2, <3>3
    <2>2. Merging(r)'
      <3>1. CASE pc'[r] = "refresh" /\ target'[r] \in 1..open[r] /\ base[target'[r]].links # <<>>
        <4>1. target'[r] \in 1..n
          BY <1>1, <3>1
        <4>. QED
          BY <1>2, <3>1, <4>1 DEF Merging
      <3>2. CASE pc'[r] = "boost"
        BY <3>2 DEF Merging
      <3>. QED
        BY <3>1, <3>2
    <2>. QED
      BY <1>0, <1>8, <2>1, <2>2, FollowsOK
  <1>. QED
    BY <1>5, <1>6, <1>7, <1>9, <1>10, <1>11 DEF CorrelationInv

LEMMA CommittedLive ==
    ASSUME NEW rows \in Seq(IncidentRows), ~Dangles(rows)
    PROVE  Live(rows)
  BY SeqFacts DEF Dangles, Linked, Live

(* The commit of a merge refuses the extended incident or those made. *)
LEMMA LinkedFirst ==
    ASSUME NEW row \in IncidentRows, NEW more \in Seq(IncidentRows), ~Dangles(<<row>> \o more)
    PROVE  Live(more) /\ \A c \in Linked(row) : cases[c] # NoCase
  <1>. DEFINE one == <<row>>
              all == one \o more
  <1>1. one \in Seq(IncidentRows) /\ Len(one) = 1 /\ one[1] = row
    OBVIOUS
  <1>2. Len(more) \in Nat
    BY SeqFacts
  <1>. HIDE DEF one
  <1>3. /\ all \in Seq(IncidentRows) /\ Len(all) = Len(one) + Len(more)
        /\ \A j \in 1..(Len(one) + Len(more)) :
              all[j] = IF j <= Len(one) THEN one[j] ELSE more[j - Len(one)]
    BY <1>1, ConcatProperties
  <1>4. ~Dangles(all)
    BY DEF one
  <1>. HIDE DEF all
  <1>5. Live(all)
    BY <1>3, <1>4, CommittedLive
  <1>6. 1 \in 1..Len(all) /\ all[1] = row
        /\ \A j \in 1..Len(more) : j + 1 \in 1..Len(all) /\ all[j + 1] = more[j]
    BY <1>1, <1>2, <1>3
  <1>. QED
    BY <1>5, <1>6 DEF Live, Linked

LEMMA MadeKnown ==
    ASSUME CorrelationInv, NEW r \in Runners
    PROVE  Known(made[r])
  BY DEF CorrelationInv, NewOK, Says, Known

LEMMA FinishStep == ASSUME CorrelationInv, NEW r \in Runners, Finish(r) PROVE CorrelationInv'
  <1>0. TablesOK /\ RunsOK
    BY DEF CorrelationInv
  <1>1. /\ pc[r] = "cluster" /\ incidents' = incidents \o made[r]
        /\ UNCHANGED <<cases, incoming, overlapped>> /\ torn' = (torn \/ Dangles(made[r]))
    BY DEF Finish
  <1>2. OnlyRun(r)
    BY <1>0 DEF Finish, Goto, Reloaded, OnlyRun, RunsOK, Phases
  <1>3. /\ made'[r] = <<>> /\ seen'[r] = cases /\ open'[r] = open[r] /\ todo'[r] = todo[r]
        /\ pc'[r] = "boost" /\ target'[r] = target[r]
    BY <1>0 DEF Finish, Goto, Reloaded, RunsOK
  <1>4. RunOK(r) /\ target[r] = 0
    BY <1>0, <1>1 DEF RunsOK, RunOK
  <1>5. Known(made[r]) /\ (torn => torn') /\ (~torn' => Live(made[r]))
    BY <1>1, <1>4, CommittedLive, MadeKnown DEF RunOK
  <1>6. Known(incidents) /\ (~torn' => Live(incidents)) /\ incidents \in Seq(IncidentRows)
    BY <1>0, <1>5 DEF TablesOK
  <1>7. todo'[r] \in Seq(ClusterRows) /\ target'[r] = 0 /\ target'[r] \in Nat
    BY <1>3, <1>4 DEF RunOK
  <1>. DEFINE base == incidents
  <1>8. base = incidents
    OBVIOUS
  <1>. HIDE DEF base
  <1>9. /\ base \in Seq(IncidentRows) /\ Len(base) = Len(incidents)
        /\ Known(base) /\ (~torn' => Live(base))
        /\ incidents' = base \o made[r]
        /\ \A k \in 1..Len(incidents) : k # target'[r] => base[k] = incidents[k]
    BY <1>1, <1>6, <1>8
  <1>. QED
    BY <1>1, <1>2, <1>3, <1>5, <1>7, <1>9, CommitStep

(* The table with the links of one incident extended, as a merge commits   *)
(* it together with the incidents made.                                    *)
MergedInto(r, k, base) ==
    /\ k \in 1..open[r] /\ k \in 1..Len(incidents) /\ k \in Nat
    /\ base \in Seq(IncidentRows) /\ Len(base) = Len(incidents) /\ base[k].links # <<>>
    /\ \A j \in 1..Len(incidents) : j # k => base[j] = incidents[j]
    /\ ToSet(base[k].links) \subseteq ToSet(incidents[k].links) \cup ToSet(Cases(r))
    /\ incidents' = base \o made[r] /\ CanCommit(<<base[k]>> \o made[r])
    /\ torn' = (torn \/ Dangles(<<base[k]>> \o made[r]))
    /\ target' = [target EXCEPT ![r] = k]

LEMMA MergedTable ==
    ASSUME CorrelationInv, NEW r \in Runners, Merge(r)
    PROVE  \E k, base : MergedInto(r, k, base)
  <1>0. TablesOK /\ RunsOK /\ ColumnsStay
    BY DEF CorrelationInv
  <1>1. PICK k \in Matches(r) :
           LET merged == [incidents EXCEPT ![k].links = WithLinks(incidents[k].links, Cases(r))]
           IN  /\ CanCommit(<<merged[k]>> \o made[r])
               /\ torn' = (torn \/ Dangles(<<merged[k]>> \o made[r]))
               /\ incidents' = merged \o made[r]
               /\ target' = [target EXCEPT ![r] = k]
    BY DEF Merge
  <1>2. /\ pc[r] = "cluster" /\ todo[r] # <<>> /\ Readable(r)
        /\ UNCHANGED <<cases, incoming, overlapped>>
    BY DEF Merge
  <1>3. ListOf(seen[r], Cases(r)) /\ Tail(todo[r]) \in Seq(ClusterRows)
    BY <1>2, TakenCluster
  <1>4. /\ incidents \in Seq(IncidentRows) /\ Len(incidents) \in Nat
        /\ made[r] \in Seq(IncidentRows) /\ open[r] \in Nat /\ open[r] <= Len(incidents)
    <2>1. made[r] \in Seq(IncidentRows) /\ open[r] \in Nat /\ open[r] <= Len(incidents)
      BY <1>0 DEF RunsOK, RunOK
    <2>. QED
      BY <1>0, <2>1, SeqFacts DEF TablesOK
  <1>5. k \in 1..open[r] /\ k \in 1..Len(incidents) /\ k \in Nat
    BY <1>4 DEF Matches
  <1>6. incidents[k] \in IncidentRows /\ incidents[k].links \in Seq(CaseIds)
    BY <1>0, <1>5, LinkedKnown
  <1>. DEFINE links == WithLinks(incidents[k].links, Cases(r))
              row == [incidents[k] EXCEPT !.links = links]
              base == [incidents EXCEPT ![k] = row]
  <1>7. /\ links \in Seq(CaseIds) /\ ToSet(incidents[k].links) \subseteq ToSet(links)
        /\ ToSet(links) \subseteq ToSet(incidents[k].links) \cup ToSet(Cases(r))
    BY <1>3, <1>6, WithLinksList DEF ListOf
  <1>8. incidents[k].links # <<>>
    <2>1. UsersOf(incidents[k]) # {}
      BY <1>1 DEF Matches
    <2>2. ToSet(incidents[k].links) # {}
      BY <2>1 DEF UsersOf, LiveLinked, Linked, Named
    <2>3. ToSet(<<>>) = {}
      BY EmptySeq DEF ToSet
    <2>. QED
      BY <2>2, <2>3
  <1>9. links # <<>>
    <2>1. ToSet(<<>>) = {}
      BY EmptySeq DEF ToSet
    <2>2. ToSet(incidents[k].links) # {}
      <3>1. Len(incidents[k].links) # 0
        BY <1>6, <1>8, EmptySeq
      <3>2. incidents[k].links[1] \in ToSet(incidents[k].links)
        BY <1>6, <3>1, SeqFacts DEF ToSet
      <3>. QED
        BY <3>2
    <2>. HIDE DEF links
    <2>. QED
      BY <1>7, <2>1, <2>2
  <1>10. row \in IncidentRows /\ row.links = links
    <2>. HIDE DEF links
    <2>. QED
      BY <1>6, <1>7 DEF IncidentRows
  <1>11. base = [incidents EXCEPT ![k].links = links]
    OBVIOUS
  <1>12. /\ incidents' = base \o made[r] /\ CanCommit(<<base[k]>> \o made[r])
         /\ torn' = (torn \/ Dangles(<<base[k]>> \o made[r]))
         /\ target' = [target EXCEPT ![r] = k]
    <2>. HIDE DEF base
    <2>. QED
      BY <1>1, <1>11
  <1>. HIDE DEF links, row
  <1>13. /\ base \in Seq(IncidentRows) /\ Len(base) = Len(incidents) /\ base[k] = row
         /\ \A j \in 1..Len(incidents) : j # k => base[j] = incidents[j]
    BY <1>4, <1>5, <1>10, ExceptSeq
  <1>. HIDE DEF base
  <1>14. MergedInto(r, k, base)
    BY <1>5, <1>7, <1>9, <1>10, <1>12, <1>13 DEF MergedInto
  <1>. QED
    BY <1>14

LEMMA MergeStep == ASSUME CorrelationInv, NEW r \in Runners, Merge(r) PROVE CorrelationInv'
  <1>0. TablesOK /\ RunsOK
    BY DEF CorrelationInv
  <1>1. PICK k, base : MergedInto(r, k, base)
    BY MergedTable
  <1>2. /\ pc[r] = "cluster" /\ todo[r] # <<>> /\ Readable(r)
        /\ UNCHANGED <<cases, incoming, overlapped>>
    BY DEF Merge
  <1>3. Tail(todo[r]) \in Seq(ClusterRows)
    BY <1>2, TakenCluster
  <1>. DEFINE row == base[k]
  <1>4. /\ k \in 1..open[r] /\ k \in 1..Len(incidents) /\ k \in Nat
        /\ base \in Seq(IncidentRows) /\ Len(base) = Len(incidents) /\ row.links # <<>>
        /\ \A j \in 1..Len(incidents) : j # k => base[j] = incidents[j]
        /\ ToSet(row.links) \subseteq ToSet(incidents[k].links) \cup ToSet(Cases(r))
        /\ incidents' = base \o made[r] /\ torn' = (torn \/ Dangles(<<row>> \o made[r]))
        /\ target' = [target EXCEPT ![r] = k]
    BY <1>1 DEF MergedInto
  <1>5. made[r] \in Seq(IncidentRows)
    BY <1>0 DEF RunsOK, RunOK
  <1>6. row \in IncidentRows
    BY <1>4, SeqFacts
  <1>7. row = base[k]
    OBVIOUS
  <1>. HIDE DEF row
  <1>8. ~torn' => Live(made[r]) /\ \A c \in ToSet(row.links) : cases[c] # NoCase
    BY <1>4, <1>5, <1>6, LinkedFirst DEF Linked
  <1>9. \A c \in ToSet(row.links) : incoming[c] = NoCase
    <2>1. \A c \in ToSet(incidents[k].links) : incoming[c] = NoCase
      BY <1>0, <1>4, LinkedKnown
    <2>2. \A c \in ToSet(Cases(r)) : c \in CaseIds /\ seen[r][c] # NoCase
      BY <1>2, TakenCluster, ListRows DEF ListOf
    <2>3. \A c \in ToSet(Cases(r)) : incoming[c] = NoCase
      BY <2>2 DEF CorrelationInv, ColumnsStay, Fits
    <2>. QED
      BY <1>4, <2>1, <2>3
  <1>10. /\ Known(base) /\ Known(made[r]) /\ (torn => torn')
         /\ ~torn' => Live(base) /\ Live(made[r])
    <2>1. \A j \in 1..Len(incidents) : base[j] = row \/ base[j] = incidents[j]
      BY <1>4, <1>7
    <2>2. Known(base)
      BY <1>0, <1>4, <1>9, <2>1 DEF Known, TablesOK
    <2>3. ~torn' => Live(base)
      BY <1>0, <1>4, <1>8, <2>1 DEF Live, TablesOK
    <2>. QED
      BY <1>4, <1>8, <2>2, <2>3, MadeKnown
  <1>11. OnlyRun(r)
    BY <1>0, <1>4 DEF Merge, Goto, Reloaded, OnlyRun, RunsOK, Phases
  <1>12. /\ made'[r] = <<>> /\ seen'[r] = cases /\ open'[r] = open[r]
         /\ todo'[r] = Tail(todo[r]) /\ pc'[r] = "refresh" /\ target'[r] = k
    BY <1>0, <1>4 DEF Merge, Goto, Reloaded, RunsOK
  <1>13. /\ base[target'[r]].links # <<>> /\ target'[r] \in Nat /\ target'[r] \in 1..open[r]
         /\ todo'[r] \in Seq(ClusterRows)
         /\ \A j \in 1..Len(incidents) : j # target'[r] => base[j] = incidents[j]
    BY <1>3, <1>4, <1>7, <1>12
  <1>. QED
    BY <1>2, <1>4, <1>10, <1>11, <1>12, <1>13, CommitStep

-----------------------------------------------------------------------------
(* The theorems.                                                           *)

LEMMA RunStep == ASSUME CorrelationInv, NEW r \in Runners, Run(r) PROVE CorrelationInv'
  BY StartStep, MergeStep, RefreshStep, StoreStep, CreateStep, FinishStep, BoostStep, FailStep
     DEF Run

LEMMA RestStep == ASSUME CorrelationInv, UNCHANGED vars PROVE CorrelationInv'
  <1>1. TablesOK /\ ColumnsStay /\ UNCHANGED <<incoming, cases, incidents, pc, local, overlapped, torn>>
    BY DEF CorrelationInv, vars, local
  <1>2. CasesMove
    BY <1>1, CasesRest
  <1>3. \A c \in CaseIds : cases[c] # NoCase => cases'[c] # NoCase
    BY <1>1
  <1>. QED
    BY <1>1, <1>2, <1>3, SameIncidents, EnvironmentStep

LEMMA NextStep == CorrelationInv /\ [Next]_vars => CorrelationInv'
  <1>. SUFFICES ASSUME CorrelationInv, [Next]_vars PROVE CorrelationInv'
    OBVIOUS
  <1>1. ASSUME NEW c \in CaseIds, Arrive(c) \/ Decide(c) \/ Delete(c) PROVE CorrelationInv'
    BY <1>1, ArriveStep, DecideStep, DeleteStep
  <1>2. ASSUME NEW r \in Runners, Run(r) \/ Fault(r) PROVE CorrelationInv'
    BY <1>2, RunStep, FaultStep
  <1>. QED
    BY <1>1, <1>2, RestStep DEF Next

LEMMA CorrelationInvariant == Spec => []CorrelationInv
  BY InitOK, NextStep, PTL DEF Spec

(* Whatever runs, decisions and deletions interleave, every row is of its  *)
(* type, scores stay from 0 to 100 however often they are raised, and a    *)
(* run merges into an incident that it found open.  About                  *)
(* correlate_incidents.                                                    *)
THEOREM CorrelationTypeCorrect == Spec => []TypeOK
  <1>1. CorrelationInv => TypeOK
    <2>. SUFFICES ASSUME CorrelationInv PROVE TypeOK
      OBVIOUS
    <2>0. TablesOK /\ RunsOK
      BY DEF CorrelationInv
    <2>1. ASSUME NEW c \in CaseIds, cases[c] # NoCase PROVE cases[c].score \in 0..100
      <3>1. cases[c] \in CaseRow
        BY <2>0, <2>1 DEF TablesOK, Rows
      <3>. QED
        BY <3>1 DEF CaseRow
    <2>2. ASSUME NEW k \in DOMAIN incidents
          PROVE  /\ incidents[k].score \in 0..100 /\ incidents[k].severity \in 0..3
                 /\ incidents[k].count \in Nat /\ incidents[k].links \in Seq(CaseIds)
      <3>1. k \in 1..Len(incidents) /\ incidents[k] \in IncidentRows
        BY <2>0, SeqFacts DEF TablesOK
      <3>. QED
        BY <3>1 DEF IncidentRows
    <2>3. pc \in [Runners -> {"idle", "cluster", "refresh", "store", "boost"}]
      BY <2>0 DEF RunsOK, Phases
    <2>4. open \in [Runners -> 0..Len(incidents)]
      <3>1. Len(incidents) \in Nat
        BY <2>0, SeqFacts DEF TablesOK
      <3>2. \A r \in Runners : open[r] \in 0..Len(incidents)
        BY <2>0, <3>1 DEF RunsOK, RunOK
      <3>. QED
        BY <2>0, <3>2 DEF RunsOK
    <2>5. \A r \in Runners : pc[r] \in {"refresh", "store"} => target[r] \in 1..open[r]
      BY <2>0 DEF RunsOK, RunOK
    <2>. QED
      BY <2>1, <2>2, <2>3, <2>4, <2>5 DEF TypeOK
  <1>. QED
    BY <1>1, CorrelationInvariant, PTL

(* While runs do not overlap, none is cut short, no linked case is deleted *)
(* and no deleted one linked, an incident counts its links and, if it has  *)
(* several stages, is at least as severe as each linked case.  About the   *)
(* two commits of a merge in correlate_incidents: the second one makes     *)
(* true what the first one broke.                                          *)
THEOREM IncidentsFollow == Spec => []IncidentsFollowLinks
  <1>1. CorrelationInv => IncidentsFollowLinks
    <2>. SUFFICES ASSUME CorrelationInv, NEW k \in DOMAIN incidents, Settled(k)
                  PROVE  /\ incidents[k].count = Len(LinkedList(incidents[k]))
                         /\ Cardinality(incidents[k].stages) >= 2 =>
                              \A c \in Linked(incidents[k]) :
                                 incidents[k].severity >= cases[c].severity
      BY DEF IncidentsFollowLinks
    <2>0. TablesOK /\ ColumnsStay /\ Follows
      BY DEF CorrelationInv
    <2>1. k \in 1..Len(incidents)
      BY <2>0, SeqFacts DEF TablesOK
    <2>2. Says(incidents[k], cases, incoming)
      BY <2>0, <2>1 DEF Follows, Settled
    <2>3. \A c \in ToSet(incidents[k].links) : cases[c] # NoCase
      BY <2>0, <2>1 DEF TablesOK, Live, Settled
    <2>4. LinkedList(incidents[k]) = incidents[k].links
      BY <2>0, <2>1, LinkedListIs DEF Settled
    <2>. QED
      BY <2>2, <2>3, <2>4 DEF Says, Linked
  <1>. QED
    BY <1>1, CorrelationInvariant, PTL

-----------------------------------------------------------------------------
(* What is linked.  Each case that a run may still link exists, or was     *)
(* deleted while the run was active.                                       *)

Backed(c) == cases[c] # NoCase \/ c \in raced
Holds(r) == {c \in CaseIds : \/ seen[r][c] # NoCase
                             \/ \E m \in 1..Len(made[r]) : c \in Linked(made[r][m])}
HoldsBacked == \A r \in Runners : Active(r) => \A c \in Holds(r) : Backed(c)

(* Steps that add no link, and take away no case that stays linked.        *)
LEMMA LinksWithin ==
    ASSUME CorrelationInv, LinksHaveCases, raced \subseteq raced',
           \A k \in DOMAIN incidents' :
              /\ k \in 1..Len(incidents)
              /\ \A c \in Linked(incidents'[k]) :
                    /\ c \in Linked(incidents[k])
                    /\ c \in CaseIds /\ cases[c] # NoCase => cases'[c] # NoCase
    PROVE  LinksHaveCases'
  <1>. SUFFICES ASSUME NEW k \in DOMAIN incidents', NEW c \in Linked(incidents'[k])
                PROVE  cases'[c] # NoCase \/ (~ForeignKeys /\ c \in raced')
    BY DEF LinksHaveCases, Linked
  <1>1. /\ k \in 1..Len(incidents) /\ c \in Linked(incidents[k])
        /\ c \in CaseIds /\ cases[c] # NoCase => cases'[c] # NoCase
    OBVIOUS
  <1>2. TablesOK /\ k \in DOMAIN incidents /\ c \in CaseIds
    BY <1>1, LinkedKnown, SeqFacts DEF CorrelationInv, TablesOK, Linked
  <1>. QED
    BY <1>1, <1>2 DEF LinksHaveCases

(* What a run holds is backed as long as it gains nothing that is not.     *)
LEMMA HoldsStay ==
    ASSUME HoldsBacked, NEW r \in Runners, raced \subseteq raced',
           \A q \in Runners \ {r} : pc'[q] = pc[q] /\ seen'[q] = seen[q] /\ made'[q] = made[q],
           \A c \in CaseIds : cases[c] # NoCase => cases'[c] # NoCase,
           Active(r)' => \A c \in Holds(r)' : Backed(c)'
    PROVE  HoldsBacked'
  <1>1. \A c \in CaseIds : Backed(c) => Backed(c)'
    BY DEF Backed
  <1>2. ASSUME NEW q \in Runners \ {r}, Active(q)', NEW c \in Holds(q)' PROVE Backed(c)'
    <2>1. Active(q) /\ c \in Holds(q) /\ c \in CaseIds
      BY <1>2 DEF Active, Holds, Linked
    <2>. QED
      BY <1>1, <2>1 DEF HoldsBacked
  <1>. QED
    BY <1>2 DEF HoldsBacked

(* A commit links what the run holds; a database that enforces foreign     *)
(* keys made sure that it exists.                                          *)
LEMMA LinksCommitted ==
    ASSUME CorrelationInv, LinksHaveCases, HoldsBacked, NEW r \in Runners, Active(r),
           UNCHANGED <<cases, raced>>,
           NEW base \in Seq(IncidentRows), Len(base) = Len(incidents),
           incidents' = base \o made[r],
           \A k \in 1..Len(incidents) : \A c \in Linked(base[k]) :
              \/ c \in Linked(incidents[k])
              \/ c \in Holds(r) /\ (ForeignKeys => cases[c] # NoCase),
           ForeignKeys => Live(made[r])
    PROVE  LinksHaveCases'
  <1>. DEFINE more == made[r]
              n == Len(incidents)
  <1>1. more \in Seq(IncidentRows) /\ incidents \in Seq(IncidentRows)
    BY DEF CorrelationInv, RunsOK, RunOK, TablesOK
  <1>2. Len(more) \in Nat /\ n \in Nat /\ DOMAIN incidents = 1..n
    BY <1>1, SeqFacts
  <1>. HIDE DEF more, n
  <1>3. /\ base \o more \in Seq(IncidentRows) /\ Len(base \o more) = Len(base) + Len(more)
        /\ \A j \in 1..(Len(base) + Len(more)) :
              (base \o more)[j] = IF j <= Len(base) THEN base[j] ELSE more[j - Len(base)]
    BY <1>1, ConcatProperties
  <1>4. incidents' = base \o more /\ Len(base) = n
    BY DEF more, n
  <1>5. DOMAIN incidents' = 1..(n + Len(more))
    BY <1>3, <1>4, SeqFacts
  <1>. SUFFICES ASSUME NEW k \in DOMAIN incidents', NEW c \in Linked(incidents'[k])
                PROVE  cases[c] # NoCase \/ (~ForeignKeys /\ c \in raced)
    BY DEF LinksHaveCases, Linked
  <1>6. CASE k \in 1..n
    <2>1. c \in Linked(base[k])
      BY <1>2, <1>3, <1>4, <1>6 DEF Linked
    <2>2. CASE c \in Linked(incidents[k])
      BY <1>2, <1>6, <2>2 DEF LinksHaveCases
    <2>3. CASE c \in Holds(r) /\ (ForeignKeys => cases[c] # NoCase)
      BY <2>3 DEF HoldsBacked, Backed
    <2>. QED
      BY <1>6, <2>1, <2>2, <2>3 DEF n
  <1>7. CASE k \notin 1..n
    <2>1. k - n \in 1..Len(more) /\ incidents'[k] = more[k - n]
      BY <1>2, <1>3, <1>4, <1>5, <1>7
    <2>2. c \in CaseIds
      <3>1. more[k - n] \in IncidentRows
        BY <1>1, <2>1, SeqFacts
      <3>2. more[k - n].links \in Seq(CaseIds)
        BY <3>1 DEF IncidentRows
      <3>. QED
        BY <2>1, <3>2, SeqFacts DEF Linked, ToSet
    <2>3. c \in Holds(r)
      BY <2>1, <2>2 DEF Holds, more
    <2>4. ForeignKeys => cases[c] # NoCase
      BY <2>1 DEF Live, Linked, more
    <2>. QED
      BY <2>3, <2>4 DEF HoldsBacked, Backed
  <1>. QED
    BY <1>6, <1>7

LEMMA SameLinks ==
    ASSUME CorrelationInv, LinksHaveCases, UNCHANGED <<incidents, raced>>,
           \A c \in CaseIds : cases[c] # NoCase => cases'[c] # NoCase
    PROVE  LinksHaveCases'
  <1>1. DOMAIN incidents = 1..Len(incidents)
    BY SeqFacts DEF CorrelationInv, TablesOK
  <1>2. ASSUME NEW k \in 1..Len(incidents), NEW c \in Linked(incidents[k]) PROVE c \in CaseIds
    BY <1>2, LinkedKnown DEF CorrelationInv, Linked
  <1>. QED
    BY <1>1, <1>2, LinksWithin

(* Intake, decisions and deletions. *)
LEMMA LinksThere ==
    ASSUME CorrelationInv, LinksHaveCases, HoldsBacked, NEW c \in CaseIds,
           Arrive(c) \/ Decide(c) \/ Delete(c)
    PROVE  LinksHaveCases' /\ HoldsBacked'
  <1>0. cases \in Rows /\ incoming \in Rows
    BY DEF CorrelationInv, TablesOK
  <1>1. ASSUME Arrive(c) \/ Decide(c)
        PROVE  /\ UNCHANGED <<incidents, raced, pc, seen, made>>
               /\ \A d \in CaseIds : cases[d] # NoCase => cases'[d] # NoCase
    <2>1. CASE Arrive(c)
      BY <1>0, <2>1 DEF Arrive, local, Rows
    <2>2. CASE Decide(c)
      <3>. DEFINE row == [cases[c] EXCEPT !.dismissed = ~cases[c].dismissed]
      <3>1. cases[c] \in CaseRow
        BY <1>0, <2>2 DEF Rows, Decide
      <3>2. row \in CaseRow
        BY <3>1 DEF CaseRow
      <3>3. cases' = [cases EXCEPT ![c] = row]
        BY <2>2 DEF Decide
      <3>. HIDE DEF row
      <3>4. \A d \in CaseIds : cases[d] # NoCase => cases'[d] # NoCase
        BY <1>0, <3>2, <3>3, CorrelationAssumption DEF Rows
      <3>. QED
        BY <2>2, <3>4 DEF Decide, local
    <2>. QED
      BY <1>1, <2>1, <2>2
  <1>2. CASE Arrive(c) \/ Decide(c)
    <2>1. LinksHaveCases'
      BY <1>1, <1>2, SameLinks
    <2>2. HoldsBacked'
      BY <1>1, <1>2 DEF HoldsBacked, Holds, Linked, Active, Backed
    <2>. QED
      BY <2>1, <2>2
  <1>3. CASE Delete(c)
    <2>1. /\ \A d \in CaseIds : d # c => cases'[d] = cases[d]
          /\ raced' = IF Idle THEN raced ELSE raced \cup {c}
          /\ UNCHANGED <<pc, seen, made>>
      BY <1>0, <1>3 DEF Delete, Gone, local, Rows
    <2>2. DOMAIN incidents = 1..Len(incidents)
      BY SeqFacts DEF CorrelationInv, TablesOK
    <2>3. incidents' = [k \in 1..Len(incidents) |->
                          [incidents[k] EXCEPT !.links = Where(incidents[k].links, CaseIds \ {c})]]
      BY <1>3, <2>2 DEF Delete
    <2>4. ASSUME NEW k \in 1..Len(incidents), NEW d \in Linked(incidents'[k])
          PROVE  d \in Linked(incidents[k]) /\ d \in CaseIds /\ d # c
      <3>. DEFINE links == Where(incidents[k].links, CaseIds \ {c})
      <3>1. incidents[k] \in IncidentRows /\ incidents[k].links \in Seq(CaseIds)
        BY LinkedKnown DEF CorrelationInv
      <3>2. ToSet(links) = ToSet(incidents[k].links) \cap (CaseIds \ {c})
        BY <3>1, WhereList
      <3>3. incidents'[k] = [incidents[k] EXCEPT !.links = links]
        BY <2>3
      <3>. HIDE DEF links
      <3>4. incidents'[k].links = links
        BY <3>1, <3>3 DEF IncidentRows
      <3>. QED
        BY <2>4, <3>2, <3>4 DEF Linked
    <2>5. LinksHaveCases'
      <3>1. \A k \in DOMAIN incidents' : k \in 1..Len(incidents)
        BY <2>3
      <3>. QED
        BY <2>1, <2>4, <3>1, LinksWithin
    <2>6. ASSUME NEW q \in Runners, Active(q)', NEW d \in Holds(q)' PROVE Backed(d)'
      <3>1. Active(q) /\ d \in Holds(q) /\ d \in CaseIds
        BY <2>1, <2>6 DEF Active, Holds, Linked
      <3>2. raced' = raced \cup {c}
        BY <2>1, <3>1 DEF Idle
      <3>. QED
        BY <2>1, <3>1, <3>2 DEF HoldsBacked, Backed
    <2>. QED
      BY <2>5, <2>6 DEF HoldsBacked
  <1>. QED
    BY <1>2, <1>3

(* The steps of a run. *)
LEMMA HoldsReloaded ==
    ASSUME NEW r \in Runners, made'[r] = <<>>, seen'[r] = cases'
    PROVE  \A c \in Holds(r)' : Backed(c)'
  <1>1. Len(<<>>) = 0
    BY EmptySeq
  <1>. QED
    BY <1>1 DEF Holds, Backed

LEMMA LinksOfRun ==
    ASSUME CorrelationInv, LinksHaveCases, HoldsBacked, NEW r \in Runners,
           Run(r) \/ Fault(r)
    PROVE  LinksHaveCases' /\ HoldsBacked'
  <1>0. RunsOK /\ RunOK(r) /\ TablesOK
    BY DEF CorrelationInv, RunsOK
  <1>1. CASE Start(r)
    <2>1. /\ UNCHANGED <<cases, incidents, raced, made>> /\ pc[r] = "idle" /\ seen'[r] = cases
          /\ \A q \in Runners \ {r} : pc'[q] = pc[q] /\ seen'[q] = seen[q]
      BY <1>0, <1>1 DEF Start, tables, Goto, Reloaded, RunsOK
    <2>2. made'[r] = <<>>
      BY <1>0, <2>1 DEF RunOK
    <2>. QED
      BY <2>1, <2>2, SameLinks, HoldsReloaded, HoldsStay
  <1>2. CASE Refresh(r)
    <2>1. /\ UNCHANGED <<cases, incidents, raced, made, seen>> /\ pc[r] = "refresh"
          /\ \A q \in Runners \ {r} : pc'[q] = pc[q]
      BY <1>0, <1>2 DEF Refresh, tables, Goto, RunsOK
    <2>2. \A c \in Holds(r)' : Backed(c)'
      BY <2>1 DEF HoldsBacked, Holds, Linked, Backed, Active
    <2>. QED
      BY <2>1, <2>2, SameLinks, HoldsStay
  <1>3. CASE Store(r)
    <2>. DEFINE t == target[r]
                row == Updated(incidents[t], fresh[r].old, fresh[r].new)
    <2>1. /\ UNCHANGED <<cases, raced, made>> /\ pc[r] = "store" /\ seen'[r] = cases
          /\ \A q \in Runners \ {r} : pc'[q] = pc[q] /\ seen'[q] = seen[q]
          /\ incidents' = [incidents EXCEPT ![t] = row]
      BY <1>0, <1>3 DEF Store, Goto, Reloaded, RunsOK
    <2>2. row.links = incidents[t].links
      BY DEF Updated
    <2>. HIDE DEF row
    <2>3. DOMAIN incidents = 1..Len(incidents)
      BY <1>0, SeqFacts DEF TablesOK
    <2>4. ASSUME NEW k \in DOMAIN incidents'
          PROVE  k \in 1..Len(incidents) /\ Linked(incidents'[k]) = Linked(incidents[k])
      BY <2>1, <2>2, <2>3 DEF Linked
    <2>5. ASSUME NEW k \in DOMAIN incidents', NEW c \in Linked(incidents'[k])
          PROVE  c \in Linked(incidents[k]) /\ c \in CaseIds
      BY <1>0, <2>4, <2>5, LinkedKnown DEF Linked
    <2>6. LinksHaveCases'
      BY <2>1, <2>4, <2>5, LinksWithin
    <2>7. made'[r] = <<>>
      BY <1>0, <2>1 DEF RunOK
    <2>. QED
      BY <2>1, <2>6, <2>7, HoldsReloaded, HoldsStay
  <1>4. CASE Create(r)
    <2>1. UNCHANGED <<cases, incidents, raced, pc, seen>> /\ pc[r] = "cluster"
      BY <1>4 DEF Create, tables
    <2>2. CreatedBy(r)
      BY <1>4, CreatedRows
    <2>3. \A c \in ToSet(Cases(r)) : c \in CaseIds /\ seen[r][c] # NoCase
      BY <1>4, TakenCluster, ListRows DEF ListOf, Create
    <2>4. ASSUME NEW c \in Holds(r)' PROVE c \in Holds(r)
      <3>1. c \in CaseIds
        BY <2>4 DEF Holds
      <3>2. CASE seen[r][c] # NoCase
        BY <3>1, <3>2 DEF Holds
      <3>3. ASSUME NEW m \in 1..Len(made'[r]), c \in Linked(made'[r][m]) PROVE c \in Holds(r)
        <4>1. CASE m \in 1..Len(made[r]) /\ made'[r][m] = made[r][m]
          BY <3>1, <3>3, <4>1 DEF Holds
        <4>2. CASE MadeOf(made'[r][m], seen[r], Cases(r))
          BY <2>3, <3>1, <3>3, <4>2 DEF Holds, MadeOf, Linked
        <4>. QED
          BY <2>2, <4>1, <4>2 DEF CreatedBy
      <3>. QED
        BY <2>1, <2>4, <3>2, <3>3 DEF Holds, Linked
    <2>5. \A c \in Holds(r)' : Backed(c)'
      BY <2>1, <2>4 DEF HoldsBacked, Backed, Active
    <2>6. \A q \in Runners \ {r} : made'[q] = made[q]
      BY <2>2 DEF CreatedBy
    <2>. QED
      BY <2>1, <2>5, <2>6, SameLinks, HoldsStay
  <1>5. CASE Finish(r)
    <2>1. /\ UNCHANGED <<cases, raced>> /\ pc[r] = "cluster" /\ seen'[r] = cases /\ made'[r] = <<>>
          /\ \A q \in Runners \ {r} : pc'[q] = pc[q] /\ seen'[q] = seen[q] /\ made'[q] = made[q]
          /\ incidents' = incidents \o made[r] /\ (ForeignKeys => ~Dangles(made[r]))
      BY <1>0, <1>5 DEF Finish, Goto, Reloaded, RunsOK, CanCommit
    <2>2. ForeignKeys => Live(made[r])
      BY <1>0, <2>1, CommittedLive DEF RunOK
    <2>3. LinksHaveCases'
      BY <1>0, <2>1, <2>2, LinksCommitted DEF Active, TablesOK
    <2>. QED
      BY <2>1, <2>3, HoldsReloaded, HoldsStay
  <1>6. CASE Merge(r)
    <2>1. /\ UNCHANGED <<cases, raced>> /\ pc[r] = "cluster" /\ seen'[r] = cases /\ made'[r] = <<>>
          /\ \A q \in Runners \ {r} : pc'[q] = pc[q] /\ seen'[q] = seen[q] /\ made'[q] = made[q]
      BY <1>0, <1>6 DEF Merge, Goto, Reloaded, RunsOK
    <2>2. PICK k, base : MergedInto(r, k, base)
      BY <1>6, MergedTable
    <2>3. /\ k \in 1..Len(incidents) /\ base \in Seq(IncidentRows) /\ Len(base) = Len(incidents)
          /\ \A j \in 1..Len(incidents) : j # k => base[j] = incidents[j]
          /\ ToSet(base[k].links) \subseteq ToSet(incidents[k].links) \cup ToSet(Cases(r))
          /\ incidents' = base \o made[r] /\ (ForeignKeys => ~Dangles(<<base[k]>> \o made[r]))
      BY <2>2 DEF MergedInto, CanCommit
    <2>4. \A c \in ToSet(Cases(r)) : c \in Holds(r)
      <3>1. \A c \in ToSet(Cases(r)) : c \in CaseIds /\ seen[r][c] # NoCase
        BY <1>6, TakenCluster, ListRows DEF ListOf, Merge
      <3>. QED
        BY <3>1 DEF Holds
    <2>5. /\ ForeignKeys => Live(made[r])
          /\ ForeignKeys => \A c \in Linked(base[k]) : cases[c] # NoCase
      <3>. DEFINE row == base[k]
      <3>1. row \in IncidentRows /\ made[r] \in Seq(IncidentRows)
        BY <1>0, <2>3, SeqFacts DEF RunOK
      <3>. HIDE DEF row
      <3>2. ForeignKeys => ~Dangles(<<row>> \o made[r])
        BY <2>3 DEF row
      <3>. QED
        BY <3>1, <3>2, LinkedFirst DEF row
    <2>6. LinksHaveCases'
      <3>1. ASSUME NEW j \in 1..Len(incidents), NEW c \in Linked(base[j])
            PROVE  \/ c \in Linked(incidents[j])
                   \/ c \in Holds(r) /\ (ForeignKeys => cases[c] # NoCase)
        <4>1. CASE j # k
          BY <2>3, <4>1, <3>1
        <4>2. CASE j = k
          BY <2>3, <2>4, <2>5, <3>1, <4>2 DEF Linked
        <4>. QED
          BY <4>1, <4>2
      <3>. QED
        BY <2>1, <2>3, <2>5, <3>1, LinksCommitted DEF Active
    <2>. QED
      BY <2>1, <2>6, HoldsReloaded, HoldsStay
  <1>7. ASSUME Boost(r) \/ Fail(r) \/ Fault(r)
        PROVE  /\ UNCHANGED <<incidents, raced>> /\ Stop(r)
               /\ \A c \in CaseIds : cases[c] # NoCase => cases'[c] # NoCase
    <2>1. CASE Fail(r) \/ Fault(r)
      BY <2>1 DEF Fail, Fault, tables
    <2>2. CASE Boost(r)
      <3>1. UNCHANGED <<incidents, raced>> /\ Stop(r)
        BY <2>2 DEF Boost
      <3>. QED
        BY <2>2, <3>1, BoostMoves
    <2>. QED
      BY <1>7, <2>1, <2>2
  <1>8. CASE Boost(r) \/ Fail(r) \/ Fault(r)
    <2>1. OnlyRun(r) /\ pc'[r] = "idle"
      BY <1>0, <1>7, <1>8, StopMoves
    <2>2. LinksHaveCases'
      BY <1>7, <1>8, SameLinks
    <2>. QED
      BY <1>7, <1>8, <2>1, <2>2, HoldsStay DEF OnlyRun, Active
  <1>. QED
    BY <1>1, <1>2, <1>3, <1>4, <1>5, <1>6, <1>8 DEF Run

(* Whatever runs, arrivals, decisions and deletions interleave: with       *)
(* foreign keys every link is to a case that exists, and without them a    *)
(* link that dangles is to a case deleted while a run was active.  About   *)
(* _cascade_delete_cases, which takes the links with the case, and the     *)
(* commits of correlate_incidents, which link rows read before.            *)
THEOREM LinksHaveCasesHolds == Spec => []LinksHaveCases
  <1>1. Init => LinksHaveCases /\ HoldsBacked
    <2>. SUFFICES ASSUME Init PROVE LinksHaveCases /\ HoldsBacked
      OBVIOUS
    <2>1. DOMAIN <<>> = {}
      OBVIOUS
    <2>. QED
      BY <2>1 DEF Init, LinksHaveCases, HoldsBacked, Active
  <1>2. CorrelationInv /\ LinksHaveCases /\ HoldsBacked /\ [Next]_vars
           => LinksHaveCases' /\ HoldsBacked'
    <2>. SUFFICES ASSUME CorrelationInv, LinksHaveCases, HoldsBacked, [Next]_vars
                  PROVE  LinksHaveCases' /\ HoldsBacked'
      OBVIOUS
    <2>1. CASE UNCHANGED vars
      BY <2>1 DEF vars, LinksHaveCases, HoldsBacked, Holds, Linked, Active, Backed
    <2>2. CASE Next
      BY <2>2, LinksThere, LinksOfRun DEF Next
    <2>. QED
      BY <2>1, <2>2
  <1>. QED
    BY <1>1, <1>2, CorrelationInvariant, PTL DEF Spec

(* An incident that a step appends is one that some run had added.         *)
LEMMA AppendedWereMade ==
    ASSUME CorrelationInv, Next, NEW k \in (Len(incidents) + 1)..Len(incidents')
    PROVE  \E q \in Runners : /\ pc[q] = "cluster"
                              /\ k - Len(incidents) \in 1..Len(made[q])
                              /\ incidents'[k] = made[q][k - Len(incidents)]
  <1>0. incidents \in Seq(IncidentRows) /\ Len(incidents) \in Nat /\ Len(incidents') # Len(incidents)
    <2>1. incidents \in Seq(IncidentRows)
      BY DEF CorrelationInv, TablesOK
    <2>2. Len(incidents) \in Nat
      BY <2>1, SeqFacts
    <2>. QED
      BY <2>1, <2>2
  <1>1. ASSUME NEW q \in Runners, NEW base \in Seq(IncidentRows), Len(base) = Len(incidents),
               incidents' = base \o made[q], pc[q] = "cluster"
        PROVE  \E p \in Runners : /\ pc[p] = "cluster"
                                  /\ k - Len(incidents) \in 1..Len(made[p])
                                  /\ incidents'[k] = made[p][k - Len(incidents)]
    <2>. DEFINE more == made[q]
                n == Len(incidents)
    <2>1. more \in Seq(IncidentRows)
      BY DEF CorrelationInv, RunsOK, RunOK
    <2>2. Len(more) \in Nat /\ n \in Nat
      BY <1>0, <2>1, SeqFacts
    <2>. HIDE DEF more
    <2>3. /\ Len(base \o more) = Len(base) + Len(more)
          /\ \A j \in 1..(Len(base) + Len(more)) :
                (base \o more)[j] = IF j <= Len(base) THEN base[j] ELSE more[j - Len(base)]
      BY <2>1, ConcatProperties
    <2>4. incidents' = base \o more /\ Len(base) = n
      BY <1>1 DEF more
    <2>. HIDE DEF n
    <2>5. k \in (n + 1)..(n + Len(more))
      BY <2>3, <2>4 DEF n
    <2>6. k - n \in 1..Len(more) /\ incidents'[k] = more[k - n]
      BY <2>2, <2>3, <2>4, <2>5
    <2>. QED
      BY <1>1, <2>6 DEF more, n
  <1>2. ASSUME NEW c \in CaseIds, Arrive(c) \/ Decide(c) \/ Delete(c) PROVE FALSE
    <2>1. Len(incidents') = Len(incidents)
      <3>1. CASE Arrive(c) \/ Decide(c)
        BY <3>1 DEF Arrive, Decide
      <3>2. CASE Delete(c)
        <4>1. DOMAIN incidents = 1..Len(incidents)
          BY <1>0, SeqFacts
        <4>2. DOMAIN incidents' = 1..Len(incidents)
          BY <3>2, <4>1 DEF Delete
        <4>3. incidents' \in Seq(IncidentRows)
          BY <3>2, DeleteStep DEF CorrelationInv, TablesOK
        <4>. QED
          BY <1>0, <4>2, <4>3, SeqFacts, LenProperties
      <3>. QED
        BY <1>2, <3>1, <3>2
    <2>. QED
      BY <1>0, <2>1
  <1>3. ASSUME NEW q \in Runners, Start(q) \/ Refresh(q) \/ Create(q) \/ Boost(q) \/ Fail(q) \/ Fault(q)
        PROVE  FALSE
    <2>1. incidents' = incidents
      BY <1>3 DEF Start, Refresh, Create, Boost, Fail, Fault, tables
    <2>. QED
      BY <1>0, <2>1
  <1>4. ASSUME NEW q \in Runners, Store(q) PROVE FALSE
    <2>1. Len(incidents') = Len(incidents)
      <3>1. \E row : incidents' = [incidents EXCEPT ![target[q]] = row]
        BY <1>4 DEF Store
      <3>2. DOMAIN incidents' = 1..Len(incidents)
        BY <1>0, <3>1, SeqFacts
      <3>3. incidents' \in Seq(IncidentRows)
        BY <1>4, StoreStep DEF CorrelationInv, TablesOK
      <3>. QED
        BY <1>0, <3>2, <3>3, SeqFacts, LenProperties
    <2>. QED
      BY <1>0, <2>1
  <1>5. ASSUME NEW q \in Runners, Finish(q)
        PROVE  incidents' = incidents \o made[q] /\ pc[q] = "cluster"
    BY <1>5 DEF Finish
  <1>6. ASSUME NEW q \in Runners, Merge(q)
        PROVE  \E base \in Seq(IncidentRows) : /\ Len(base) = Len(incidents)
                                              /\ incidents' = base \o made[q]
                                              /\ pc[q] = "cluster"
    <2>1. PICK j, base : MergedInto(q, j, base)
      BY <1>6, MergedTable
    <2>2. pc[q] = "cluster"
      BY <1>6 DEF Merge
    <2>. QED
      BY <2>1, <2>2 DEF MergedInto
  <1>. QED
    BY <1>0, <1>1, <1>2, <1>3, <1>4, <1>5, <1>6 DEF Next, Run

(* While runs do not overlap, no user of an incident that is committed is  *)
(* in an incident its run found open.  About the choice between merging    *)
(* and creating in correlate_incidents: the choice reads the rows as the   *)
(* session holds them, the property the tables at the commit.              *)
THEOREM NewUsersNewIncidents == Spec => NewIncidentsAreOfNewUsers
  <1>. DEFINE New == \A r \in Runners : \A k \in (Len(incidents) + 1)..Len(incidents') :
                        /\ made[r] # <<>>
                        /\ ~overlapped
                        => \A i \in 1..open[r] : UsersOf(incidents[i]) \cap UsersOf(incidents'[k]) = {}
  <1>1. CorrelationInv /\ [Next]_vars => [New]_vars
    <2>. SUFFICES ASSUME CorrelationInv, Next, NEW r \in Runners,
                         NEW k \in (Len(incidents) + 1)..Len(incidents'),
                         made[r] # <<>>, ~overlapped, NEW i \in 1..open[r]
                  PROVE  UsersOf(incidents[i]) \cap UsersOf(incidents'[k]) = {}
      OBVIOUS
    <2>1. PICK q \in Runners : /\ pc[q] = "cluster"
                               /\ k - Len(incidents) \in 1..Len(made[q])
                               /\ incidents'[k] = made[q][k - Len(incidents)]
      BY AppendedWereMade
    <2>2. q = r
      <3>1. pc[r] = "cluster"
        BY DEF CorrelationInv, RunsOK, RunOK
      <3>. QED
        BY <2>1, <3>1 DEF CorrelationInv, OneRun, Active
    <2>3. UsersIn(incidents'[k], cases) \cap UsersIn(incidents[i], cases) = {}
      BY <2>1, <2>2 DEF CorrelationInv, NewOK
    <2>. QED
      BY <2>3, UsersAreThose
  <1>. QED
    BY <1>1, CorrelationInvariant, PTL DEF Spec, NewIncidentsAreOfNewUsers

-----------------------------------------------------------------------------
(* The clusters of the stored cases.                                       *)

(* One case is before another: it is another one, and not later.           *)
InTime(a, b) == a # b /\ cases[a].time <= cases[b].time
Timed == {p \in CaseIds \X CaseIds : InTime(p[1], p[2])}

(* A list of cases in the order of their times, none of them twice.        *)
InOrder(list) == \A i, j \in 1..Len(list) : i < j => <<list[i], list[j]>> \in Timed

LEMMA OrderIsTimed ==
    ASSUME TablesOK, NEW order \in Orders(cases, Stored)
    PROVE  ListOf(cases, order) /\ InOrder(order) /\ ToSet(order) = Stored
  <1>. DEFINE n == Cardinality(Stored)
  <1>1. ListOf(cases, order)
    BY OrderOfCases DEF Stored
  <1>2. IsFiniteSet(Stored) /\ n \in Nat
    BY CorrelationAssumption, FS_Subset, FS_CardinalityType DEF Stored
  <1>3. /\ order \in [1..n -> Stored]
        /\ \A i, j \in 1..n : i # j => order[i] # order[j]
        /\ \A i, j \in DOMAIN order : i < j => cases[order[i]].time <= cases[order[j]].time
    BY DEF Orders, SetToSeqs
  <1>. HIDE DEF n
  <1>4. Len(order) = n /\ DOMAIN order = 1..n
    <2>1. order \in Seq(Stored)
      BY <1>2, <1>3
    <2>. QED
      BY <1>2, <1>3, <2>1, LenProperties
  <1>5. InOrder(order)
    <2>. SUFFICES ASSUME NEW i \in 1..n, NEW j \in 1..n, i < j
                  PROVE  <<order[i], order[j]>> \in Timed
      BY <1>4 DEF InOrder
    <2>1. order[i] \in CaseIds /\ order[j] \in CaseIds
      BY <1>3 DEF Stored
    <2>2. order[i] # order[j]
      BY <1>2, <1>3
    <2>3. cases[order[i]].time <= cases[order[j]].time
      BY <1>3, <1>4
    <2>. QED
      BY <2>1, <2>2, <2>3 DEF Timed, InTime
  <1>6. order \in Surjection(1..n, Stored)
    <2>1. order \in Injection(1..n, Stored)
      BY <1>3 DEF Injection, IsInjective
    <2>2. IsFiniteSet(1..n) /\ Cardinality(1..n) = n
      BY <1>2, FS_Interval
    <2>. QED
      BY <1>2, <2>1, <2>2, FS_Injection DEF n
  <1>7. ToSet(order) = Stored
    BY <1>3, <1>4, <1>6 DEF ToSet, Surjection
  <1>. QED
    BY <1>1, <1>5, <1>7

(* A selection keeps the order.                                            *)
LEMMA WhereInOrder ==
    ASSUME NEW list \in Seq(CaseIds), NEW those, InOrder(list)
    PROVE  InOrder(Where(list, those))
  <1>1. PICK w : Selects(w, list, those) /\ Where(list, those) = w[Len(list)]
    BY WhereSelects
  <1>. DEFINE n == Len(list)
              From(k) == {list[i] : i \in 1..k}
              Good == {k \in 0..n : /\ w[k] \in Seq(CaseIds) /\ ToSet(w[k]) \subseteq From(k)
                                    /\ InOrder(w[k])}
  <1>2. n \in Nat /\ \A k \in 1..n : list[k] \in CaseIds
    BY ElementOfSeq, LenProperties
  <1>3. 0 \in Good
    <2>1. w[0] = <<>>
      BY <1>1 DEF Selects
    <2>2. w[0] \in Seq(CaseIds) /\ Len(w[0]) = 0 /\ ToSet(w[0]) = {}
      BY <2>1, EmptySeq DEF ToSet
    <2>3. InOrder(w[0])
      BY <2>2 DEF InOrder
    <2>4. 0 \in 0..n
      BY <1>2
    <2>. HIDE DEF n
    <2>. QED
      BY <2>2, <2>3, <2>4
  <1>4. ASSUME NEW k \in 1..n, k - 1 \in Good PROVE k \in Good
    <2>. DEFINE v == w[k - 1]
                e == list[k]
    <2>1. w[k] = IF e \in those THEN Append(v, e) ELSE v
      BY <1>1 DEF Selects
    <2>2. v \in Seq(CaseIds) /\ ToSet(v) \subseteq From(k - 1) /\ InOrder(v) /\ e \in CaseIds
      BY <1>2, <1>4
    <2>3. From(k) = From(k - 1) \cup {e} /\ k \in 0..n
      <3>1. 1..k = 1..(k - 1) \cup {k}
        BY <1>2
      <3>. QED
        BY <1>2, <3>1
    <2>4. Append(v, e) \in Seq(CaseIds) /\ ToSet(Append(v, e)) = ToSet(v) \cup {e}
      BY <2>2, AppendOfSet
    <2>5. InOrder(Append(v, e))
      <3>1. /\ Len(v) \in Nat /\ Len(Append(v, e)) = Len(v) + 1
            /\ \A i \in 1..Len(v) : Append(v, e)[i] = v[i]
            /\ Append(v, e)[Len(v) + 1] = e
        BY <2>2, AppendProperties, LenProperties
      <3>2. ASSUME NEW i \in 1..Len(v) PROVE <<v[i], e>> \in Timed
        <4>1. v[i] \in From(k - 1)
          BY <2>2, LenProperties DEF ToSet
        <4>2. PICK m \in 1..(k - 1) : v[i] = list[m]
          BY <4>1
        <4>3. m \in 1..n /\ k \in 1..n /\ m < k
          BY <1>2
        <4>4. <<list[m], list[k]>> \in Timed
          BY ONLY InOrder(list), <4>3 DEF InOrder
        <4>. QED
          BY ONLY <4>2, <4>4
      <3>. SUFFICES ASSUME NEW i \in 1..(Len(v) + 1), NEW j \in 1..(Len(v) + 1), i < j
                    PROVE  <<Append(v, e)[i], Append(v, e)[j]>> \in Timed
        BY <3>1 DEF InOrder
      <3>3. i \in 1..Len(v) /\ (j \in 1..Len(v) \/ j = Len(v) + 1)
        <4>1. Len(v) \in Nat
          BY <3>1
        <4>. HIDE DEF v
        <4>. QED
          BY <4>1
      <3>4. CASE j \in 1..Len(v)
        <4>1. <<v[i], v[j]>> \in Timed
          BY <2>2, <3>3, <3>4 DEF InOrder
        <4>. QED
          BY <3>1, <3>3, <3>4, <4>1
      <3>5. CASE j = Len(v) + 1
        <4>1. Append(v, e)[i] = v[i] /\ Append(v, e)[j] = e
          BY <3>1, <3>3, <3>5
        <4>. QED
          BY <3>2, <3>3, <4>1
      <3>. QED
        BY <3>3, <3>4, <3>5
    <2>. HIDE DEF n, v, e, From
    <2>. QED
      BY <2>1, <2>2, <2>3, <2>4, <2>5 DEF v
  <1>5. n \in Good
    <2>1. \A k \in 0..n : k \in Good
      <3>. HIDE DEF n, Good
      <3>. QED
        BY <1>2, <1>3, <1>4, UpTo
    <2>2. n \in 0..n
      BY <1>2
    <2>. HIDE DEF n, Good
    <2>. QED
      BY <2>1, <2>2
  <1>. QED
    BY <1>1, <1>5

(* A case that needs no rescue and is on no spray address.                 *)
Firm(c, order) == ~Weak(c) /\ ~OnSpray(c, order)

(* What a cluster is known by, its members have; what is known of a case   *)
(* that has is at most what the case has.                                  *)
Anchored(list, has) ==
    /\ \A e \in has.users : \E j \in 1..Len(list) : e \in EntitiesOf(cases[list[j]]).users
    /\ \A e \in has.ips : \E j \in 1..Len(list) : e \in EntitiesOf(cases[list[j]]).ips
    /\ \A e \in has.devices : \E j \in 1..Len(list) : e \in EntitiesOf(cases[list[j]]).devices
HasOf(c, has) ==
    /\ has \in EntitySets
    /\ has.users \subseteq EntitiesOf(cases[c]).users
    /\ has.ips \subseteq EntitiesOf(cases[c]).ips
    /\ has.devices \subseteq EntitiesOf(cases[c]).devices
Chained(list) == \A k \in 2..Len(list) : \E j \in 1..(k - 1) : Related(list[j], list[k])

AllFirm(list, order) == \A c \in ToSet(list) : Firm(c, order)
Near(list) == \A a, b \in ToSet(list) : cases[a].time - cases[b].time <= Window
Formed(x, order) ==
    /\ x \in ClusterRows /\ ListOf(cases, x.cases)
    /\ Anchored(x.cases, x.has) /\ Chained(x.cases)
    /\ AllFirm(x.cases, order) => Near(x.cases)

LEMMA ClusterFields ==
    ASSUME NEW x, x \in ClusterRows
    PROVE  /\ x.cases \in Seq(CaseIds) /\ x.cases # <<>> /\ x.has \in EntitySets
           /\ Len(x.cases) \in Nat /\ Len(x.cases) # 0 /\ DOMAIN x.cases = 1..Len(x.cases)
  <1>1. x.cases \in Seq(CaseIds) /\ x.cases # <<>> /\ x.has \in EntitySets
    BY DEF ClusterRows, Lists
  <1>. QED
    BY <1>1, SeqFacts, EmptySeq

LEMMA TimesOfRows ==
    ASSUME cases \in Rows, NEW c \in CaseIds, cases[c] # NoCase
    PROVE  cases[c] \in CaseRow /\ cases[c].time \in Nat
  BY DEF Rows, CaseRow

(* A case joins a cluster a member of which it is related to.              *)
LEMMA JoinedAnchored ==
    ASSUME NEW list \in Seq(CaseIds), NEW c \in CaseIds, NEW old \in EntitySets,
           NEW own, HasOf(c, own), NEW has, Anchored(list, old),
           has.users \subseteq old.users \cup own.users,
           has.ips \subseteq old.ips \cup own.ips,
           has.devices \subseteq old.devices \cup own.devices
    PROVE  Anchored(Append(list, c), has)
  <1>. DEFINE more == Append(list, c)
  <1>1. /\ Len(list) \in Nat /\ Len(more) = Len(list) + 1
        /\ \A i \in 1..Len(list) : more[i] = list[i]
        /\ more[Len(list) + 1] = c
    BY AppendProperties, LenProperties
  <1>. HIDE DEF more
  <1>2. \A i \in 1..Len(list) : i \in 1..Len(more)
    BY <1>1
  <1>3. Len(list) + 1 \in 1..Len(more)
    BY <1>1
  <1>4. ASSUME NEW e \in has.users
        PROVE  \E j \in 1..Len(more) : e \in EntitiesOf(cases[more[j]]).users
    <2>1. CASE e \in old.users
      <3>1. PICK j \in 1..Len(list) : e \in EntitiesOf(cases[list[j]]).users
        BY <2>1 DEF Anchored
      <3>. QED
        BY <1>1, <1>2, <3>1
    <2>2. CASE e \in own.users
      BY <1>1, <1>3, <2>2 DEF HasOf
    <2>. QED
      BY <2>1, <2>2
  <1>5. ASSUME NEW e \in has.ips
        PROVE  \E j \in 1..Len(more) : e \in EntitiesOf(cases[more[j]]).ips
    <2>1. CASE e \in old.ips
      <3>1. PICK j \in 1..Len(list) : e \in EntitiesOf(cases[list[j]]).ips
        BY <2>1 DEF Anchored
      <3>. QED
        BY <1>1, <1>2, <3>1
    <2>2. CASE e \in own.ips
      BY <1>1, <1>3, <2>2 DEF HasOf
    <2>. QED
      BY <2>1, <2>2
  <1>6. ASSUME NEW e \in has.devices
        PROVE  \E j \in 1..Len(more) : e \in EntitiesOf(cases[more[j]]).devices
    <2>1. CASE e \in old.devices
      <3>1. PICK j \in 1..Len(list) : e \in EntitiesOf(cases[list[j]]).devices
        BY <2>1 DEF Anchored
      <3>. QED
        BY <1>1, <1>2, <3>1
    <2>2. CASE e \in own.devices
      BY <1>1, <1>3, <2>2 DEF HasOf
    <2>. QED
      BY <2>1, <2>2
  <1>. QED
    BY <1>4, <1>5, <1>6 DEF Anchored, more

LEMMA JoinedChained ==
    ASSUME NEW list \in Seq(CaseIds), NEW c \in CaseIds, Chained(list),
           NEW m \in 1..Len(list), Related(list[m], c)
    PROVE  Chained(Append(list, c))
  <1>. DEFINE more == Append(list, c)
  <1>1. /\ Len(list) \in Nat /\ Len(more) = Len(list) + 1
        /\ \A i \in 1..Len(list) : more[i] = list[i]
        /\ more[Len(list) + 1] = c
    BY AppendProperties, LenProperties
  <1>. HIDE DEF more
  <1>. SUFFICES ASSUME NEW k \in 2..(Len(list) + 1)
                PROVE  \E j \in 1..(k - 1) : Related(more[j], more[k])
    BY <1>1 DEF Chained, more
  <1>2. CASE k \in 2..Len(list)
    <2>1. PICK j \in 1..(k - 1) : Related(list[j], list[k])
      BY <1>2 DEF Chained
    <2>2. j \in 1..Len(list) /\ k \in 1..Len(list)
      BY <1>1, <1>2
    <2>. QED
      BY <1>1, <2>1, <2>2
  <1>3. CASE k = Len(list) + 1
    BY <1>1, <1>3
  <1>. QED
    BY <1>1, <1>2, <1>3

(* A case that is firm joins only near ones.                               *)
NearTo(list, c) ==
    \A a \in ToSet(list) : /\ cases[a].time <= cases[c].time
                           /\ cases[c].time - cases[a].time <= Window

LEMMA JoinedFormed ==
    ASSUME cases \in Rows, NEW order, NEW x, Formed(x, order),
           NEW c \in CaseIds, cases[c] # NoCase, NEW own, HasOf(c, own),
           NEW has \in EntitySets,
           has.users \subseteq x.has.users \cup own.users,
           has.ips \subseteq x.has.ips \cup own.ips,
           has.devices \subseteq x.has.devices \cup own.devices,
           NEW m \in 1..Len(x.cases), Related(x.cases[m], c),
           Firm(c, order) /\ AllFirm(x.cases, order) => NearTo(x.cases, c)
    PROVE  Formed([cases |-> Append(x.cases, c), has |-> has], order)
  <1>. DEFINE list == x.cases
              more == Append(x.cases, c)
  <1>1. list \in Seq(CaseIds) /\ x.has \in EntitySets
    BY ClusterFields DEF Formed
  <1>2. more \in Seq(CaseIds) /\ ToSet(more) = ToSet(list) \cup {c}
    BY <1>1, AppendOfSet
  <1>3. more # <<>>
    BY <1>1, AppendProperties, EmptySeq
  <1>4. ListOf(cases, more)
    BY <1>2 DEF Formed, ListOf
  <1>5. Anchored(more, has) /\ Chained(more)
    BY <1>1, JoinedAnchored, JoinedChained DEF Formed
  <1>6. ASSUME AllFirm(more, order) PROVE Near(more)
    <2>1. Firm(c, order) /\ AllFirm(list, order)
      BY <1>2, <1>6 DEF AllFirm
    <2>2. Near(list) /\ NearTo(list, c)
      BY <2>1 DEF Formed
    <2>3. \A a \in ToSet(more) : cases[a].time \in Nat
      <3>1. \A a \in ToSet(more) : a \in CaseIds /\ cases[a] # NoCase
        BY <1>4, ListRows DEF ListOf
      <3>. QED
        BY <3>1, TimesOfRows
    <2>4. ASSUME NEW a \in ToSet(more), NEW b \in ToSet(more)
          PROVE  cases[a].time - cases[b].time <= Window
      <3>1. cases[a].time \in Nat /\ cases[b].time \in Nat /\ Window \in Nat
        BY <2>3, CorrelationAssumption
      <3>2. CASE a \in ToSet(list) /\ b \in ToSet(list)
        BY <2>2, <3>2 DEF Near
      <3>3. CASE a = c /\ b \in ToSet(list)
        BY <2>2, <3>3 DEF NearTo
      <3>4. CASE a \in ToSet(list) /\ b = c
        <4>1. cases[a].time <= cases[b].time
          BY <2>2, <3>4 DEF NearTo
        <4>. QED
          BY <3>1, <4>1
      <3>5. CASE a = c /\ b = c
        BY <3>1, <3>5
      <3>. QED
        BY <1>2, <3>2, <3>3, <3>4, <3>5
    <2>. QED
      BY <2>4 DEF Near
  <1>. HIDE DEF more, list
  <1>7. [cases |-> more, has |-> has] \in ClusterRows
    BY <1>2, <1>3 DEF ClusterRows, Lists
  <1>. QED
    BY <1>4, <1>5, <1>6, <1>7 DEF Formed, more

(* A case alone.                                                           *)
LEMMA AloneFormed ==
    ASSUME cases \in Rows, NEW order, NEW c \in CaseIds, cases[c] # NoCase,
           NEW has, HasOf(c, has)
    PROVE  Formed([cases |-> <<c>>, has |-> has], order)
  <1>. DEFINE list == <<c>>
  <1>1. list \in Seq(CaseIds) /\ Len(list) = 1 /\ list[1] = c /\ list # <<>>
    OBVIOUS
  <1>2. ToSet(list) = {c}
    BY <1>1 DEF ToSet
  <1>. HIDE DEF list
  <1>3. ListOf(cases, list)
    BY <1>1, <1>2 DEF ListOf
  <1>4. 1 \in 1..Len(list)
    BY <1>1
  <1>5. Anchored(list, has)
    BY <1>1, <1>4 DEF Anchored, HasOf
  <1>6. Chained(list)
    BY <1>1 DEF Chained
  <1>7. Near(list)
    <2>1. cases[c].time \in Nat /\ Window \in Nat
      BY TimesOfRows, CorrelationAssumption
    <2>. QED
      BY <1>2, <2>1 DEF Near
  <1>8. [cases |-> list, has |-> has] \in ClusterRows
    BY <1>1 DEF ClusterRows, Lists, HasOf
  <1>. QED
    BY <1>3, <1>5, <1>6, <1>7, <1>8 DEF Formed, list

(* The cases of a spray address.                                           *)
LEMMA SprayFormed ==
    ASSUME NEW order, ListOf(cases, order), NEW x, x \in SprayRows(cases, order)
    PROVE  Formed(x, order) /\ \A c \in ToSet(x.cases) : ~Firm(c, order)
  <1>1. PICK ip \in Addresses \ Private :
           /\ IsSpray(cases, WithIp(cases, order, ip)) /\ WithIp(cases, order, ip) # <<>>
           /\ x = Cluster(cases, WithIp(cases, order, ip))
    BY DEF SprayRows, OfSpray
  <1>. DEFINE list == WithIp(cases, order, ip)
  <1>2. x.cases = list /\ x \in ClusterRows
    BY <1>1 DEF Cluster, SprayRows
  <1>3. ListOf(cases, list)
    BY WithIpList
  <1>4. \A c \in ToSet(list) : ip \in ToSet(cases[c].ips)
    <2>1. order \in Seq(CaseIds)
      BY DEF ListOf
    <2>. QED
      BY <2>1, WhereList DEF WithIp
  <1>5. \A c \in ToSet(list) : ~Firm(c, order)
    BY <1>1, <1>4 DEF Firm, OnSpray
  <1>. HIDE DEF list
  <1>6. DOMAIN list = 1..Len(list) /\ Len(list) \in Nat /\ Len(list) # 0
    BY <1>1, <1>3, SeqFacts, EmptySeq DEF ListOf, list
  <1>7. \A k \in 1..Len(list) : list[k] \in ToSet(list)
    BY <1>6 DEF ToSet
  <1>8. \A c \in ToSet(list) : \E k \in 1..Len(list) : c = list[k]
    BY <1>6 DEF ToSet
  <1>9. Anchored(list, x.has)
    <2>. DEFINE of == {EntitiesOf(cases[c]) : c \in ToSet(list)}
    <2>1. /\ x.has.users = UNION {e.users : e \in of} /\ x.has.ips = UNION {e.ips : e \in of}
          /\ x.has.devices = UNION {e.devices : e \in of}
      BY <1>1 DEF Cluster, list
    <2>2. \A e \in of : \E k \in 1..Len(list) : e = EntitiesOf(cases[list[k]])
      BY <1>8
    <2>. HIDE DEF of
    <2>. QED
      BY <2>1, <2>2 DEF Anchored
  <1>10. Chained(list)
    <2>. SUFFICES ASSUME NEW k \in 2..Len(list)
                  PROVE  \E j \in 1..(k - 1) : Related(list[j], list[k])
      BY DEF Chained
    <2>1. 1 \in 1..(k - 1) /\ 1 \in 1..Len(list) /\ k \in 1..Len(list)
      BY <1>6
    <2>2. ip \in ToSet(cases[list[1]].ips) /\ ip \in ToSet(cases[list[k]].ips)
      BY <1>4, <1>7, <2>1
    <2>3. Related(list[1], list[k])
      BY <2>2 DEF Related
    <2>. QED
      BY <2>1, <2>3
  <1>11. ~AllFirm(list, order)
    <2>1. list[1] \in ToSet(list)
      BY <1>6, <1>7
    <2>. QED
      BY <1>5, <2>1 DEF AllFirm
  <1>. QED
    BY <1>2, <1>3, <1>5, <1>9, <1>10, <1>11 DEF Formed

-----------------------------------------------------------------------------
(* Where a case is in a list of clusters.                                  *)
Spots(clusters, c) ==
    UNION {{i} \X {k \in DOMAIN clusters[i].cases : clusters[i].cases[k] = c} :
              i \in DOMAIN clusters}
IsSpot(clusters, c, p) ==
    \E i \in 1..Len(clusters) : \E k \in 1..Len(clusters[i].cases) :
        p = <<i, k>> /\ clusters[i].cases[k] = c
AllFormed(clusters, order) ==
    clusters \in Seq(ClusterRows) /\ \A i \in 1..Len(clusters) : Formed(clusters[i], order)

(* One case is put somewhere, all others stay.                             *)
Gains(new, old, c) ==
    /\ \E p : Spots(new, c) = Spots(old, c) \cup {p}
    /\ \A d \in CaseIds \ {c} : Spots(new, d) = Spots(old, d)

LEMMA SpotsAre ==
    ASSUME NEW clusters \in Seq(ClusterRows), NEW c, NEW p
    PROVE  p \in Spots(clusters, c) <=> IsSpot(clusters, c, p)
  <1>1. DOMAIN clusters = 1..Len(clusters)
        /\ \A i \in 1..Len(clusters) : DOMAIN clusters[i].cases = 1..Len(clusters[i].cases)
    BY SeqFacts, ClusterFields
  <1>2. ASSUME p \in Spots(clusters, c) PROVE IsSpot(clusters, c, p)
    <2>1. PICK i \in DOMAIN clusters :
             p \in {i} \X {k \in DOMAIN clusters[i].cases : clusters[i].cases[k] = c}
      BY <1>2 DEF Spots
    <2>2. PICK k \in DOMAIN clusters[i].cases : p = <<i, k>> /\ clusters[i].cases[k] = c
      BY <2>1
    <2>. QED
      BY <1>1, <2>1, <2>2 DEF IsSpot
  <1>3. ASSUME IsSpot(clusters, c, p) PROVE p \in Spots(clusters, c)
    <2>0. PICK i \in 1..Len(clusters) : \E k \in 1..Len(clusters[i].cases) :
             p = <<i, k>> /\ clusters[i].cases[k] = c
      BY <1>3 DEF IsSpot
    <2>1. PICK k \in 1..Len(clusters[i].cases) : p = <<i, k>> /\ clusters[i].cases[k] = c
      BY <2>0
    <2>2. i \in DOMAIN clusters
          /\ p \in {i} \X {m \in DOMAIN clusters[i].cases : clusters[i].cases[m] = c}
      BY <1>1, <2>1
    <2>. QED
      BY <2>2 DEF Spots
  <1>. QED
    BY <1>2, <1>3

LEMMA GrownCluster ==
    ASSUME NEW old \in Seq(ClusterRows), NEW i \in 1..Len(old), NEW c \in CaseIds,
           NEW row \in ClusterRows, row.cases = Append(old[i].cases, c)
    PROVE  Gains([old EXCEPT ![i] = row], old, c)
  <1>. DEFINE new == [old EXCEPT ![i] = row]
              n == Len(old[i].cases)
  <1>1. /\ new \in Seq(ClusterRows) /\ Len(new) = Len(old) /\ new[i] = row
        /\ \A m \in 1..Len(old) : m # i => new[m] = old[m]
    BY ExceptSeq
  <1>2. old[i].cases \in Seq(CaseIds) /\ n \in Nat
    BY SeqFacts, ClusterFields
  <1>3. /\ Len(row.cases) = n + 1 /\ row.cases[n + 1] = c
        /\ \A k \in 1..n : row.cases[k] = old[i].cases[k]
    BY <1>2, AppendProperties
  <1>. HIDE DEF new
  <1>4. ASSUME NEW d, NEW p, IsSpot(old, d, p) PROVE IsSpot(new, d, p)
    <2>0. PICK m \in 1..Len(old) : \E k \in 1..Len(old[m].cases) :
             p = <<m, k>> /\ old[m].cases[k] = d
      BY <1>4 DEF IsSpot
    <2>1. PICK k \in 1..Len(old[m].cases) : p = <<m, k>> /\ old[m].cases[k] = d
      BY <2>0
    <2>2. CASE m = i
      <3>1. k \in 1..n /\ old[i].cases[k] = d
        BY <2>1, <2>2
      <3>2. k \in 1..Len(row.cases) /\ row.cases[k] = d
        <4>. HIDE DEF n
        <4>. QED
          BY <1>2, <1>3, <3>1
      <3>. QED
        BY <1>1, <2>1, <2>2, <3>2 DEF IsSpot
    <2>3. CASE m # i
      BY <1>1, <2>1, <2>3 DEF IsSpot
    <2>. QED
      BY <2>2, <2>3
  <1>5. ASSUME NEW d, NEW p, IsSpot(new, d, p)
        PROVE  IsSpot(old, d, p) \/ (d = c /\ p = <<i, n + 1>>)
    <2>0. PICK m \in 1..Len(new) : \E k \in 1..Len(new[m].cases) :
             p = <<m, k>> /\ new[m].cases[k] = d
      BY <1>5 DEF IsSpot
    <2>1. PICK k \in 1..Len(new[m].cases) : p = <<m, k>> /\ new[m].cases[k] = d
      BY <2>0
    <2>2. CASE m = i /\ k \in 1..n
      <3>1. old[i].cases[k] = d
        BY <1>1, <1>3, <2>1, <2>2
      <3>. QED
        BY <2>1, <2>2, <3>1 DEF IsSpot
    <2>3. CASE m = i /\ k = n + 1
      BY <1>1, <1>3, <2>1, <2>3
    <2>4. CASE m # i
      BY <1>1, <2>1, <2>4 DEF IsSpot
    <2>5. m = i => k \in 1..n \/ k = n + 1
      BY <1>1, <1>2, <1>3, <2>1
    <2>. QED
      BY <2>2, <2>3, <2>4, <2>5
  <1>6. IsSpot(new, c, <<i, n + 1>>)
    <2>1. i \in 1..Len(new) /\ n + 1 \in 1..Len(new[i].cases) /\ new[i].cases[n + 1] = c
      BY <1>1, <1>2, <1>3
    <2>. HIDE DEF n
    <2>. QED
      BY <2>1 DEF IsSpot
  <1>. HIDE DEF n
  <1>7. Spots(new, c) = Spots(old, c) \cup {<<i, n + 1>>}
    BY <1>1, <1>4, <1>5, <1>6, SpotsAre
  <1>8. ASSUME NEW d \in CaseIds \ {c} PROVE Spots(new, d) = Spots(old, d)
    <2>1. d # c
      OBVIOUS
    <2>2. ASSUME NEW p PROVE p \in Spots(new, d) <=> p \in Spots(old, d)
      <3>1. p \in Spots(new, d) <=> IsSpot(new, d, p)
        BY <1>1, SpotsAre
      <3>2. p \in Spots(old, d) <=> IsSpot(old, d, p)
        BY SpotsAre
      <3>. QED
        BY <1>4, <1>5, <2>1, <3>1, <3>2
    <2>. QED
      BY <2>2
  <1>. QED
    BY <1>7, <1>8 DEF Gains, new

LEMMA StartedCluster ==
    ASSUME NEW old \in Seq(ClusterRows), NEW c \in CaseIds,
           NEW row \in ClusterRows, row.cases = <<c>>
    PROVE  Gains(Append(old, row), old, c)
  <1>. DEFINE new == Append(old, row)
              n == Len(old)
  <1>1. /\ n \in Nat /\ new \in Seq(ClusterRows) /\ Len(new) = n + 1 /\ new[n + 1] = row
        /\ \A m \in 1..n : new[m] = old[m]
    BY AppendProperties, LenProperties
  <1>2. Len(row.cases) = 1 /\ row.cases[1] = c
    OBVIOUS
  <1>. HIDE DEF new
  <1>4. ASSUME NEW d, NEW p, IsSpot(old, d, p) PROVE IsSpot(new, d, p)
    <2>0. PICK m \in 1..n : \E k \in 1..Len(old[m].cases) :
             p = <<m, k>> /\ old[m].cases[k] = d
      BY <1>4 DEF IsSpot
    <2>1. PICK k \in 1..Len(old[m].cases) : p = <<m, k>> /\ old[m].cases[k] = d
      BY <2>0
    <2>2. m \in 1..Len(new) /\ new[m] = old[m]
      BY <1>1
    <2>. QED
      BY <2>1, <2>2 DEF IsSpot
  <1>5. ASSUME NEW d, NEW p, IsSpot(new, d, p)
        PROVE  IsSpot(old, d, p) \/ (d = c /\ p = <<n + 1, 1>>)
    <2>0. PICK m \in 1..Len(new) : \E k \in 1..Len(new[m].cases) :
             p = <<m, k>> /\ new[m].cases[k] = d
      BY <1>5 DEF IsSpot
    <2>1. PICK k \in 1..Len(new[m].cases) : p = <<m, k>> /\ new[m].cases[k] = d
      BY <2>0
    <2>2. CASE m \in 1..n
      BY <1>1, <2>1, <2>2 DEF IsSpot
    <2>3. CASE m = n + 1
      <3>1. k \in 1..1 /\ row.cases[k] = d
        BY <1>1, <1>2, <2>1, <2>3
      <3>2. k = 1
        BY <3>1
      <3>. QED
        BY <1>2, <2>1, <2>3, <3>1, <3>2
    <2>. QED
      BY <1>1, <2>2, <2>3
  <1>6. IsSpot(new, c, <<n + 1, 1>>)
    <2>1. n + 1 \in 1..Len(new)
      <3>. HIDE DEF n
      <3>. QED
        BY <1>1
    <2>2. new[n + 1] = row /\ 1 \in 1..Len(row.cases)
      BY <1>1, <1>2
    <2>. HIDE DEF n
    <2>. QED
      BY <1>2, <2>1, <2>2 DEF IsSpot
  <1>. HIDE DEF n
  <1>7. Spots(new, c) = Spots(old, c) \cup {<<n + 1, 1>>}
    BY <1>1, <1>4, <1>5, <1>6, SpotsAre
  <1>8. ASSUME NEW d \in CaseIds \ {c} PROVE Spots(new, d) = Spots(old, d)
    <2>1. d # c
      OBVIOUS
    <2>2. ASSUME NEW p PROVE p \in Spots(new, d) <=> p \in Spots(old, d)
      <3>1. p \in Spots(new, d) <=> IsSpot(new, d, p)
        BY <1>1, SpotsAre
      <3>2. p \in Spots(old, d) <=> IsSpot(old, d, p)
        BY SpotsAre
      <3>. QED
        BY <1>4, <1>5, <2>1, <3>1, <3>2
    <2>. QED
      BY <2>2
  <1>. QED
    BY <1>7, <1>8 DEF Gains, new

(* Changing one of the clusters, or adding one, keeps the rest formed.     *)
LEMMA OneChanged ==
    ASSUME NEW order, NEW old, AllFormed(old, order), NEW i \in 1..Len(old),
           NEW row, Formed(row, order)
    PROVE  AllFormed([old EXCEPT ![i] = row], order)
  <1>1. old \in Seq(ClusterRows) /\ row \in ClusterRows
    BY DEF AllFormed, Formed
  <1>. DEFINE new == [old EXCEPT ![i] = row]
  <1>2. /\ new \in Seq(ClusterRows) /\ Len(new) = Len(old)
        /\ \A m \in 1..Len(old) : new[m] = IF m = i THEN row ELSE old[m]
    BY <1>1, ExceptSeq
  <1>. HIDE DEF new
  <1>. QED
    BY <1>2 DEF AllFormed, new

LEMMA OneAdded ==
    ASSUME NEW order, NEW old, AllFormed(old, order), NEW row, Formed(row, order)
    PROVE  AllFormed(Append(old, row), order)
  <1>1. old \in Seq(ClusterRows) /\ row \in ClusterRows
    BY DEF AllFormed, Formed
  <1>. DEFINE new == Append(old, row)
  <1>2. /\ new \in Seq(ClusterRows) /\ Len(old) \in Nat /\ Len(new) = Len(old) + 1
        /\ \A m \in 1..Len(old) : new[m] = old[m]
        /\ new[Len(old) + 1] = row
    BY <1>1, AppendProperties, LenProperties
  <1>. HIDE DEF new
  <1>3. ASSUME NEW m \in 1..Len(new) PROVE Formed(new[m], order)
    <2>1. m \in 1..Len(old) \/ m = Len(old) + 1
      BY <1>2
    <2>. QED
      BY <1>2, <2>1 DEF AllFormed
  <1>. QED
    BY <1>2, <1>3 DEF AllFormed, new

-----------------------------------------------------------------------------
(* The pass puts every case where it belongs.                              *)

(* A case that has an entity of a cluster is related to a member of it.    *)
LEMMA SharedEntity ==
    ASSUME NEW x, x \in ClusterRows, Anchored(x.cases, x.has), NEW c, NEW own, HasOf(c, own),
           \/ own.users \cap x.has.users # {}
           \/ own.devices \cap x.has.devices # {}
           \/ (own.ips \cap x.has.ips) \ Reserved # {}
    PROVE  \E m \in 1..Len(x.cases) : Related(x.cases[m], c)
  <1>1. CASE own.users \cap x.has.users # {}
    <2>1. PICK e \in own.users : e \in x.has.users
      BY <1>1
    <2>2. PICK m \in 1..Len(x.cases) : e \in EntitiesOf(cases[x.cases[m]]).users
      BY <2>1 DEF Anchored
    <2>3. e \in EntitiesOf(cases[c]).users
      BY <2>1 DEF HasOf
    <2>. QED
      BY <2>2, <2>3 DEF Related
  <1>2. CASE own.devices \cap x.has.devices # {}
    <2>1. PICK e \in own.devices : e \in x.has.devices
      BY <1>2
    <2>2. PICK m \in 1..Len(x.cases) : e \in EntitiesOf(cases[x.cases[m]]).devices
      BY <2>1 DEF Anchored
    <2>3. e \in EntitiesOf(cases[c]).devices
      BY <2>1 DEF HasOf
    <2>. QED
      BY <2>2, <2>3 DEF Related
  <1>3. CASE (own.ips \cap x.has.ips) \ Reserved # {}
    <2>1. PICK e \in own.ips : e \in x.has.ips /\ e \notin Reserved
      BY <1>3
    <2>2. PICK m \in 1..Len(x.cases) : e \in EntitiesOf(cases[x.cases[m]]).ips
      BY <2>1 DEF Anchored
    <2>3. e \in EntitiesOf(cases[c]).ips
      BY <2>1 DEF HasOf
    <2>4. e \in ToSet(cases[x.cases[m]].ips) /\ e \in ToSet(cases[c].ips)
      BY <2>2, <2>3 DEF EntitiesOf
    <2>. QED
      BY <2>1, <2>4 DEF Related
  <1>. QED
    BY <1>1, <1>2, <1>3

(* A link of the threshold's strength rests on something shared.           *)
LEMMA StrongLink ==
    ASSUME NEW a, NEW b, LinkStrength(a, b) >= LinkThreshold
    PROVE  \/ a.users \cap b.users # {}
           \/ a.devices \cap b.devices # {}
           \/ (a.ips \cap b.ips) \ Reserved # {}
  <1>. SUFFICES ASSUME a.users \cap b.users = {}, a.devices \cap b.devices = {},
                       (a.ips \cap b.ips) \ Reserved = {}
                PROVE  FALSE
    OBVIOUS
  <1>1. Cardinality((a.ips \cap b.ips) \ Reserved) = 0
    BY FS_EmptySet
  <1>2. LinkStrength(a, b) = 0
    BY <1>1 DEF LinkStrength
  <1>. QED
    BY <1>2 DEF LinkThreshold

LEMMA EarliestIs ==
    ASSUME NEW list, ListOf(cases, list), NEW c \in ToSet(list)
    PROVE  Earliest(cases, list) \in Nat /\ Earliest(cases, list) <= cases[c].time
  <1>. DEFINE T == {cases[d].time : d \in ToSet(list)}
  <1>1. T \in SUBSET Nat /\ cases[c].time \in T
    BY ListRows DEF CaseRow
  <1>. HIDE DEF T
  <1>2. PICK n \in T : \A m \in T : n <= m
    BY <1>1, LeastOfNats
  <1>3. Min(T) \in T /\ \A m \in T : Min(T) <= m
    BY <1>2 DEF Min
  <1>4. Earliest(cases, list) = Min(T)
    BY DEF Earliest, T
  <1>. QED
    BY <1>1, <1>3, <1>4

(* What a firm case finds was placed before it and is not later.           *)
NoneLater(clusters, c, order) ==
    Firm(c, order) => \A i \in 1..Len(clusters) : \A a \in ToSet(clusters[i].cases) :
        Firm(a, order) => cases[a].time <= cases[c].time

Placed(new, old, c, order) == AllFormed(new, order) /\ Gains(new, old, c)

LEMMA LinkStep ==
    ASSUME cases \in Rows, NEW order, NEW kept, AllFormed(kept, order),
           NEW c \in CaseIds, cases[c] # NoCase, NEW own, HasOf(c, own),
           NoneLater(kept, c, order)
    PROVE  Placed(Link(cases, kept, c, own), kept, c, order)
  <1>. DEFINE T == LinkInto(cases, kept, c, own)
  <1>1. kept \in Seq(ClusterRows)
    BY DEF AllFormed
  <1>2. CASE T = {}
    <2>. DEFINE row == [cases |-> <<c>>, has |-> own]
    <2>1. Formed(row, order)
      BY AloneFormed
    <2>2. row \in ClusterRows /\ row.cases = <<c>>
      BY <2>1 DEF Formed
    <2>. HIDE DEF row
    <2>3. Placed(Append(kept, row), kept, c, order)
      BY <1>1, <2>1, <2>2, OneAdded, StartedCluster DEF Placed
    <2>. QED
      BY <1>2, <2>3 DEF Link, row
  <1>3. CASE T # {}
    <2>. DEFINE i == Min(T)
                x == kept[i]
                has == [users   |-> kept[i].has.users \cup own.users,
                        ips     |-> kept[i].has.ips,
                        devices |-> kept[i].has.devices]
                row == [cases |-> Append(kept[i].cases, c), has |-> has]
    <2>0. DOMAIN kept = 1..Len(kept) /\ Len(kept) \in Nat
      BY <1>1, SeqFacts
    <2>1. T \in SUBSET Nat /\ T \subseteq 1..Len(kept)
      BY <2>0 DEF LinkInto
    <2>2. i \in T /\ i \in 1..Len(kept)
      <3>. HIDE DEF T
      <3>. QED
        BY <1>3, <2>1, FirstOfThem
    <2>3. /\ cases[c].time - Earliest(cases, x.cases) <= Window
          /\ LinkStrength(own, x.has) >= LinkThreshold
      <3>. HIDE DEF i
      <3>. QED
        BY <2>2 DEF LinkInto
    <2>. HIDE DEF T, i
    <2>4. Formed(x, order) /\ x \in ClusterRows
      BY <2>2 DEF AllFormed, Formed
    <2>5. PICK m \in 1..Len(x.cases) : Related(x.cases[m], c)
      <3>. HIDE DEF x
      <3>1. Anchored(x.cases, x.has)
        BY <2>4 DEF Formed
      <3>. QED
        BY <2>3, <2>4, <3>1, StrongLink, SharedEntity
    <2>6. ASSUME Firm(c, order), AllFirm(x.cases, order) PROVE NearTo(x.cases, c)
      <3>1. ASSUME NEW a \in ToSet(x.cases)
            PROVE  /\ cases[a].time <= cases[c].time
                   /\ cases[c].time - cases[a].time <= Window
        <4>1. Firm(a, order)
          BY <2>6 DEF AllFirm
        <4>2. cases[a].time <= cases[c].time
          BY <2>2, <2>6, <4>1 DEF NoneLater
        <4>3. Earliest(cases, x.cases) \in Nat /\ Earliest(cases, x.cases) <= cases[a].time
          <5>. HIDE DEF x
          <5>. QED
            BY <2>4, EarliestIs DEF Formed
        <4>4. cases[a].time \in Nat /\ cases[c].time \in Nat
          <5>1. a \in CaseIds /\ cases[a] # NoCase
            <6>. HIDE DEF x
            <6>. QED
              BY <2>4, ListRows DEF Formed, ListOf
          <5>. QED
            BY <5>1, TimesOfRows
        <4>5. Window \in Nat
          BY CorrelationAssumption
        <4>. HIDE DEF x
        <4>. QED
          BY <2>3, <4>2, <4>3, <4>4, <4>5
      <3>. QED
        BY <3>1 DEF NearTo
    <2>7. own \in EntitySets /\ x.has \in EntitySets
      <3>. HIDE DEF x
      <3>. QED
        BY <2>4, ClusterFields DEF HasOf
    <2>8. /\ has \in EntitySets /\ has.users \subseteq x.has.users \cup own.users
          /\ has.ips \subseteq x.has.ips \cup own.ips
          /\ has.devices \subseteq x.has.devices \cup own.devices
      BY <2>7 DEF EntitySets
    <2>9. Formed(row, order)
      <3>. HIDE DEF x, has
      <3>1. Formed([cases |-> Append(x.cases, c), has |-> has], order)
        BY <2>4, <2>5, <2>6, <2>8, JoinedFormed
      <3>. QED
        BY <3>1 DEF x
    <2>10. row \in ClusterRows /\ row.cases = Append(kept[i].cases, c)
      BY <2>9 DEF Formed
    <2>. HIDE DEF row
    <2>11. Placed([kept EXCEPT ![i] = row], kept, c, order)
      BY <1>1, <2>2, <2>9, <2>10, OneChanged, GrownCluster DEF Placed
    <2>. QED
      BY <1>3, <2>11 DEF Link, T, i, row
  <1>. QED
    BY <1>2, <1>3

(* A case that is rescued was too weak to be firm.                         *)
LEMMA RescueStep ==
    ASSUME cases \in Rows, NEW order, NEW old, AllFormed(old, order),
           NEW c \in CaseIds, cases[c] # NoCase, NEW own, HasOf(c, own), Weak(c)
    PROVE  LET new == Rescue(cases, old, c, own)
           IN  new = old \/ Placed(new, old, c, order)
  <1>. DEFINE T == RescueInto(cases, old, c, own)
  <1>1. old \in Seq(ClusterRows)
    BY DEF AllFormed
  <1>2. CASE T = {}
    BY <1>2 DEF Rescue
  <1>3. CASE T # {}
    <2>. DEFINE i == Min(T)
                x == old[i]
                has == Joined(old[i].has, own)
                row == [cases |-> Append(old[i].cases, c), has |-> has]
    <2>0. DOMAIN old = 1..Len(old) /\ Len(old) \in Nat
      BY <1>1, SeqFacts
    <2>1. T \in SUBSET Nat /\ T \subseteq 1..Len(old)
      BY <2>0 DEF RescueInto
    <2>2. i \in T /\ i \in 1..Len(old)
      <3>. HIDE DEF T
      <3>. QED
        BY <1>3, <2>1, FirstOfThem
    <2>3. own.users \cap x.has.users # {} \/ own.devices \cap x.has.devices # {}
      <3>. HIDE DEF i
      <3>. QED
        BY <2>2 DEF RescueInto
    <2>. HIDE DEF T, i
    <2>4. Formed(x, order) /\ x \in ClusterRows
      BY <2>2 DEF AllFormed, Formed
    <2>5. PICK m \in 1..Len(x.cases) : Related(x.cases[m], c)
      <3>. HIDE DEF x
      <3>1. Anchored(x.cases, x.has)
        BY <2>4 DEF Formed
      <3>. QED
        BY <2>3, <2>4, <3>1, SharedEntity
    <2>6. ~Firm(c, order)
      BY DEF Firm
    <2>7. own \in EntitySets /\ x.has \in EntitySets
      <3>. HIDE DEF x
      <3>. QED
        BY <2>4, ClusterFields DEF HasOf
    <2>8. /\ has \in EntitySets /\ has.users \subseteq x.has.users \cup own.users
          /\ has.ips \subseteq x.has.ips \cup own.ips
          /\ has.devices \subseteq x.has.devices \cup own.devices
      BY <2>7 DEF EntitySets, Joined
    <2>9. Formed(row, order)
      <3>. HIDE DEF x, has
      <3>1. Formed([cases |-> Append(x.cases, c), has |-> has], order)
        BY <2>4, <2>5, <2>6, <2>8, JoinedFormed
      <3>. QED
        BY <3>1 DEF x
    <2>10. row \in ClusterRows /\ row.cases = Append(old[i].cases, c)
      BY <2>9 DEF Formed
    <2>. HIDE DEF row
    <2>11. Placed([old EXCEPT ![i] = row], old, c, order)
      BY <1>1, <2>2, <2>9, <2>10, OneChanged, GrownCluster DEF Placed
    <2>. QED
      BY <1>3, <2>11 DEF Rescue, T, i, row
  <1>. QED
    BY <1>2, <1>3

(* Of the firm cases, those placed so far are in one cluster, once, unless *)
(* they are left out on purpose; the others are in none.                   *)
Due(c) == ~cases[c].response /\ ~cases[c].dismissed
OnceEach(clusters, before, order) ==
    \A d \in CaseIds : Firm(d, order) /\ cases[d] # NoCase =>
        IF d \in before /\ Due(d) THEN \E p : Spots(clusters, d) = {p}
        ELSE Spots(clusters, d) = {}
InPass(clusters, before, order) ==
    AllFormed(clusters, order) /\ OnceEach(clusters, before, order)

LEMMA MembersBefore ==
    ASSUME NEW order, NEW clusters, NEW before, InPass(clusters, before, order),
           NEW i \in 1..Len(clusters), NEW a \in ToSet(clusters[i].cases), Firm(a, order)
    PROVE  a \in before
  <1>1. clusters \in Seq(ClusterRows) /\ clusters[i] \in ClusterRows
        /\ ListOf(cases, clusters[i].cases)
    BY DEF InPass, AllFormed, Formed
  <1>2. a \in CaseIds /\ cases[a] # NoCase
    BY <1>1, ListRows DEF ListOf
  <1>3. PICK k \in 1..Len(clusters[i].cases) : clusters[i].cases[k] = a
    BY <1>1, ClusterFields DEF ToSet
  <1>4. IsSpot(clusters, a, <<i, k>>)
    BY <1>3 DEF IsSpot
  <1>5. Spots(clusters, a) # {}
    BY <1>1, <1>4, SpotsAre
  <1>. QED
    BY <1>2, <1>5 DEF InPass, OnceEach

LEMMA PlaceStep ==
    ASSUME cases \in Rows, NEW order, NEW egress, NEW old, NEW before,
           InPass(old, before, order), NEW c \in CaseIds, c \notin before, cases[c] # NoCase,
           \A a \in before : cases[a].time <= cases[c].time
    PROVE  InPass(Place(cases, egress, old, c), before \cup {c}, order)
  <1>. DEFINE own  == EntitiesOf(cases[c])
              has  == [users |-> own.users, ips |-> own.ips \ egress, devices |-> own.devices]
              weak == cases[c].score < Threshold(cases[c])
              kept == IF weak THEN Rescue(cases, old, c, has) ELSE old
              new  == Place(cases, egress, old, c)
  <1>1. HasOf(c, has)
    <2>1. own \in EntitySets
      BY TimesOfRows, EntitiesType
    <2>2. has \in EntitySets /\ has.users \subseteq own.users /\ has.ips \subseteq own.ips
          /\ has.devices \subseteq own.devices
      <3>. HIDE DEF own
      <3>. QED
        BY <2>1 DEF EntitySets
    <2>. HIDE DEF has
    <2>. QED
      BY <2>2 DEF HasOf
  <1>2. new = IF \/ weak /\ kept = old
                 \/ cases[c].response
                 \/ cases[c].dismissed
              THEN kept ELSE Link(cases, kept, c, has)
    BY DEF Place
  <1>3. weak <=> Weak(c)
    BY DEF Weak
  <1>4. kept = IF weak THEN Rescue(cases, old, c, has) ELSE old
    OBVIOUS
  <1>5. AllFormed(old, order) /\ OnceEach(old, before, order)
    BY DEF InPass
  <1>. HIDE DEF own, has, weak, kept, new
  <1>6. CASE weak
    <2>1. ~Firm(c, order)
      BY <1>3, <1>6 DEF Firm
    <2>2. kept = old \/ Placed(kept, old, c, order)
      BY <1>1, <1>3, <1>4, <1>5, <1>6, RescueStep
    <2>3. AllFormed(kept, order) /\ \A d \in CaseIds \ {c} : Spots(kept, d) = Spots(old, d)
      BY <1>5, <2>2 DEF Placed, Gains
    <2>4. NoneLater(kept, c, order)
      BY <2>1 DEF NoneLater
    <2>5. Placed(Link(cases, kept, c, has), kept, c, order)
      BY <1>1, <2>3, <2>4, LinkStep
    <2>6. AllFormed(new, order) /\ \A d \in CaseIds \ {c} : Spots(new, d) = Spots(old, d)
      BY <1>2, <2>3, <2>5 DEF Placed, Gains
    <2>7. OnceEach(new, before \cup {c}, order)
      <3>1. ASSUME NEW d \in CaseIds, Firm(d, order), cases[d] # NoCase
            PROVE  IF d \in before \cup {c} /\ Due(d) THEN \E p : Spots(new, d) = {p}
                   ELSE Spots(new, d) = {}
        <4>1. d # c /\ (d \in before \cup {c} <=> d \in before)
          BY <2>1, <3>1
        <4>2. Spots(new, d) = Spots(old, d)
          BY <2>6, <4>1
        <4>. QED
          BY <1>5, <3>1, <4>1, <4>2 DEF OnceEach
      <3>. QED
        BY <3>1 DEF OnceEach
    <2>. QED
      BY <2>6, <2>7 DEF InPass, new
  <1>7. CASE ~weak
    <2>1. kept = old
      BY <1>4, <1>7
    <2>2. NoneLater(old, c, order)
      BY MembersBefore DEF NoneLater
    <2>3. Placed(Link(cases, old, c, has), old, c, order)
      BY <1>1, <1>5, <2>2, LinkStep
    <2>4. IF Due(c) THEN Placed(new, old, c, order) ELSE new = old
      BY <1>2, <1>7, <2>1, <2>3 DEF Due
    <2>5. AllFormed(new, order) /\ \A d \in CaseIds \ {c} : Spots(new, d) = Spots(old, d)
      BY <1>5, <2>4 DEF Placed, Gains
    <2>6. OnceEach(new, before \cup {c}, order)
      <3>1. ASSUME NEW d \in CaseIds, Firm(d, order), cases[d] # NoCase
            PROVE  IF d \in before \cup {c} /\ Due(d) THEN \E p : Spots(new, d) = {p}
                   ELSE Spots(new, d) = {}
        <4>1. CASE d = c
          <5>1. Spots(old, c) = {}
            BY <1>5, <3>1, <4>1 DEF OnceEach
          <5>2. CASE Due(c)
            <6>1. PICK p : Spots(new, c) = Spots(old, c) \cup {p}
              BY <2>4, <5>2 DEF Placed, Gains
            <6>2. Spots(new, c) = {p}
              BY <5>1, <6>1
            <6>. QED
              BY <4>1, <5>2, <6>2
          <5>3. CASE ~Due(c)
            BY <2>4, <4>1, <5>1, <5>3
          <5>. QED
            BY <5>2, <5>3
        <4>2. CASE d # c
          <5>1. d \in before \cup {c} <=> d \in before
            BY <4>2
          <5>2. Spots(new, d) = Spots(old, d)
            BY <2>5, <4>2
          <5>. QED
            BY <1>5, <3>1, <5>1, <5>2 DEF OnceEach
        <4>. QED
          BY <4>1, <4>2
      <3>. QED
        BY <3>1 DEF OnceEach
    <2>. QED
      BY <2>5, <2>6 DEF InPass, new
  <1>. QED
    BY <1>6, <1>7

(* The clusters of the sprays hold no firm case.                           *)
LEMMA PassStarts ==
    ASSUME NEW order, ListOf(cases, order)
    PROVE  InPass(SprayClusters(cases, order), {}, order)
  <1>. DEFINE sprays == SprayClusters(cases, order)
  <1>1. sprays \in Seq(SprayRows(cases, order))
    BY SprayClustersType
  <1>2. SprayRows(cases, order) \subseteq ClusterRows
    BY DEF SprayRows
  <1>. HIDE DEF sprays
  <1>3. sprays \in Seq(ClusterRows)
    BY <1>1, <1>2, SeqOfMore
  <1>4. ASSUME NEW i \in 1..Len(sprays)
        PROVE  Formed(sprays[i], order) /\ \A c \in ToSet(sprays[i].cases) : ~Firm(c, order)
    <2>1. sprays[i] \in SprayRows(cases, order)
      BY <1>1, SeqFacts
    <2>. QED
      BY <2>1, SprayFormed
  <1>5. ASSUME NEW d, Firm(d, order), NEW p, p \in Spots(sprays, d) PROVE FALSE
    <2>1. IsSpot(sprays, d, p)
      BY <1>3, <1>5, SpotsAre
    <2>2. PICK i \in 1..Len(sprays) : \E k \in 1..Len(sprays[i].cases) : sprays[i].cases[k] = d
      BY <2>1 DEF IsSpot
    <2>3. sprays[i] \in ClusterRows
      BY <1>3, SeqFacts
    <2>4. d \in ToSet(sprays[i].cases)
      BY <2>2, <2>3, ClusterFields DEF ToSet
    <2>. QED
      BY <1>4, <1>5, <2>4
  <1>6. OnceEach(sprays, {}, order)
    BY <1>5 DEF OnceEach
  <1>. QED
    BY <1>3, <1>4, <1>6 DEF InPass, AllFormed, sprays

LEMMA WholePass ==
    ASSUME NEW order, ListOf(cases, order), InOrder(order)
    PROVE  InPass(ClusterCases(cases, order), ToSet(Rest(cases, order)), order)
  <1>. DEFINE rest == Rest(cases, order)
              n == Len(rest)
              Till(k) == {rest[j] : j \in 1..k}
  <1>1. rest \in Seq(CaseIds) /\ InOrder(rest) /\ ToSet(rest) \subseteq ToSet(order)
    BY WhereList, WhereInOrder DEF ListOf, Rest
  <1>2. ListOf(cases, rest) /\ cases \in Rows
    BY <1>1 DEF ListOf
  <1>3. PICK w : Passes(w, cases, order, rest) /\ ClusterCases(cases, order) = w[n]
    BY ClusterCasesSteps
  <1>. HIDE DEF rest
  <1>4. n \in Nat /\ \A k \in 1..n : rest[k] \in CaseIds /\ cases[rest[k]] # NoCase
    <2>1. n \in Nat /\ \A k \in 1..n : rest[k] \in CaseIds /\ rest[k] \in ToSet(rest)
      BY <1>1, SeqFacts DEF ToSet
    <2>. QED
      BY <1>2, <2>1 DEF ListOf
  <1>. DEFINE Good == {k \in 0..n : InPass(w[k], Till(k), order)}
  <1>5. 0 \in Good
    <2>1. Till(0) = {} /\ 0 \in 0..n
      BY <1>4
    <2>2. InPass(w[0], {}, order)
      BY <1>3, PassStarts DEF Passes
    <2>. HIDE DEF Till, n
    <2>. QED
      BY <2>1, <2>2
  <1>6. ASSUME NEW k \in 1..n, k - 1 \in Good PROVE k \in Good
    <2>. DEFINE c == rest[k]
    <2>1. w[k] = Place(cases, SharedEgress(cases, order), w[k - 1], c)
      BY <1>3 DEF Passes
    <2>2. c \in CaseIds /\ cases[c] # NoCase
      BY <1>4
    <2>3. ASSUME NEW a \in Till(k - 1) PROVE a # c /\ cases[a].time <= cases[c].time
      <3>1. PICK j \in 1..(k - 1) : a = rest[j]
        OBVIOUS
      <3>2. j \in 1..n /\ j < k
        BY <1>4
      <3>3. <<rest[j], rest[k]>> \in Timed
        BY <1>1, <3>2 DEF InOrder
      <3>. QED
        BY <3>1, <3>3 DEF Timed, InTime
    <2>4. InPass(w[k - 1], Till(k - 1), order)
      BY <1>6
    <2>5. Till(k) = Till(k - 1) \cup {c} /\ k \in 0..n
      <3>1. 1..k = 1..(k - 1) \cup {k}
        BY <1>4
      <3>. QED
        BY <1>4, <3>1
    <2>. HIDE DEF c, Till, n
    <2>6. InPass(w[k], Till(k - 1) \cup {c}, order)
      BY <1>2, <2>1, <2>2, <2>3, <2>4, PlaceStep
    <2>. QED
      BY <2>5, <2>6
  <1>7. n \in Good
    <2>1. \A k \in 0..n : k \in Good
      <3>. HIDE DEF n, Good
      <3>. QED
        BY <1>4, <1>5, <1>6, UpTo
    <2>2. n \in 0..n
      BY <1>4
    <2>. HIDE DEF n, Good
    <2>. QED
      BY <2>1, <2>2
  <1>8. Till(n) = ToSet(rest)
    BY <1>1, SeqFacts DEF ToSet
  <1>9. InPass(w[n], Till(n), order)
    BY <1>7
  <1>. HIDE DEF Till, n
  <1>. QED
    BY <1>3, <1>8, <1>9 DEF rest

LEMMA FirmInRest ==
    ASSUME NEW order, ListOf(cases, order), NEW c \in ToSet(order), Firm(c, order)
    PROVE  c \in ToSet(Rest(cases, order))
  <1>. DEFINE sprays == SprayClusters(cases, order)
  <1>1. InPass(sprays, {}, order)
    BY PassStarts
  <1>2. sprays \in Seq(ClusterRows)
    BY <1>1 DEF InPass, AllFormed
  <1>3. c \notin SprayedCases(cases, order)
    <2>1. ASSUME NEW i \in DOMAIN sprays, c \in ToSet(sprays[i].cases) PROVE FALSE
      <3>. HIDE DEF sprays
      <3>1. i \in 1..Len(sprays)
        BY <1>2, SeqFacts
      <3>2. c \in {}
        BY <1>1, <2>1, <3>1, MembersBefore
      <3>. QED
        BY <3>2
    <2>. QED
      BY <2>1 DEF SprayedCases
  <1>4. order \in Seq(CaseIds) /\ c \in CaseIds
    BY ListRows DEF ListOf
  <1>. QED
    BY <1>3, <1>4, WhereList DEF Rest

(* Cases near each other span no more than the window.                     *)
LEMMA SpanOfNear ==
    ASSUME NEW list, ListOf(cases, list), list # <<>>, Near(list)
    PROVE  Span(cases, list) <= Window
  <1>. DEFINE T == {cases[d].time : d \in ToSet(list)}
  <1>1. \A d \in ToSet(list) : cases[d].time \in Nat
    BY ListRows DEF CaseRow
  <1>2. PICK b \in ToSet(list) : TRUE
    <2>1. Len(list) \in Nat /\ Len(list) # 0 /\ DOMAIN list = 1..Len(list)
      BY ListRows, EmptySeq DEF ListOf
    <2>2. list[1] \in ToSet(list)
      BY <2>1 DEF ToSet
    <2>. QED
      BY <2>2
  <1>. DEFINE top == cases[b].time + Window
  <1>3. Window \in Nat /\ top \in Nat
    BY <1>1, CorrelationAssumption
  <1>4. T \in SUBSET (0..top) /\ T # {}
    <2>1. \A d \in ToSet(list) : cases[d].time \in 0..top
      BY <1>1, <1>2, <1>3 DEF Near
    <2>. HIDE DEF top
    <2>. QED
      BY <1>2, <2>1
  <1>5. Max(T) \in T /\ Min(T) \in T
    <2>. HIDE DEF T, top
    <2>1. T \in SUBSET Nat
      BY <1>3, <1>4
    <2>. QED
      BY <1>3, <1>4, <2>1, LargestOf, FirstOfThem
  <1>6. PICK c \in ToSet(list), d \in ToSet(list) :
           Max(T) = cases[c].time /\ Min(T) = cases[d].time
    BY <1>5
  <1>7. Highest(cases, list, "time") = Max(T) /\ Earliest(cases, list) = Min(T)
    BY DEF Highest, Earliest
  <1>. QED
    BY <1>6, <1>7 DEF Span, Near

LEMMA ClustersOfOrder ==
    ASSUME TablesOK, NEW order \in Orders(cases, Stored), NEW clusters,
           clusters = ClusterCases(cases, order)
    PROVE  /\ \A c \in Stored : Firm(c, order) =>
                 Occurrences(clusters, c) = IF cases[c].response \/ cases[c].dismissed THEN 0 ELSE 1
           /\ \A i \in DOMAIN clusters :
                 /\ Chained(clusters[i].cases)
                 /\ AllFirm(clusters[i].cases, order) => Span(cases, clusters[i].cases) <= Window
  <1>1. ListOf(cases, order) /\ InOrder(order) /\ ToSet(order) = Stored
    BY OrderIsTimed
  <1>2. InPass(clusters, ToSet(Rest(cases, order)), order)
    BY <1>1, WholePass
  <1>3. clusters \in Seq(ClusterRows) /\ \A i \in 1..Len(clusters) : Formed(clusters[i], order)
    BY <1>2 DEF InPass, AllFormed
  <1>4. ASSUME NEW c \in Stored, Firm(c, order)
        PROVE  Occurrences(clusters, c) = IF cases[c].response \/ cases[c].dismissed THEN 0 ELSE 1
    <2>1. c \in CaseIds /\ cases[c] # NoCase /\ c \in ToSet(Rest(cases, order))
      BY <1>1, <1>4, FirmInRest DEF Stored
    <2>2. Occurrences(clusters, c) = Cardinality(Spots(clusters, c))
      BY DEF Occurrences, Spots
    <2>3. CASE Due(c)
      <3>1. PICK p : Spots(clusters, c) = {p}
        BY <1>2, <1>4, <2>1, <2>3 DEF InPass, OnceEach
      <3>2. Cardinality({p}) = 1
        BY FS_Singleton
      <3>. QED
        BY <2>2, <2>3, <3>1, <3>2 DEF Due
    <2>4. CASE ~Due(c)
      <3>1. Spots(clusters, c) = {}
        BY <1>2, <1>4, <2>1, <2>4 DEF InPass, OnceEach
      <3>. QED
        BY <2>2, <2>4, <3>1, FS_EmptySet DEF Due
    <2>. QED
      BY <2>3, <2>4
  <1>5. ASSUME NEW i \in DOMAIN clusters
        PROVE  /\ Chained(clusters[i].cases)
               /\ AllFirm(clusters[i].cases, order) => Span(cases, clusters[i].cases) <= Window
    <2>1. Formed(clusters[i], order)
      BY <1>3, SeqFacts
    <2>2. clusters[i].cases # <<>> /\ ListOf(cases, clusters[i].cases)
      BY <2>1, ClusterFields DEF Formed
    <2>. QED
      BY <2>1, <2>2, SpanOfNear DEF Formed
  <1>. QED
    BY <1>4, <1>5

(* However many cases there are, whatever they have in common, and in      *)
(* whatever order those of one time are read: cluster_cases puts every     *)
(* case that needs no rescue and is on no spray address into one cluster,  *)
(* once (or leaves it out on purpose), ties every other member to one      *)
(* before it, and keeps a cluster without rescues and sprays within the    *)
(* window.  About the three passes of services/correlation/clustering.py.  *)
THEOREM ClustersAreSound == Spec => []ClustersSound
  <1>1. CorrelationInv => ClustersSound
    <2>. SUFFICES ASSUME CorrelationInv PROVE ClustersSound
      OBVIOUS
    <2>1. TablesOK
      BY DEF CorrelationInv
    <2>2. ASSUME NEW order \in Orders(cases, Stored), NEW clusters,
                 clusters = ClusterCases(cases, order)
          PROVE  /\ \A c \in Stored : ~Weak(c) /\ ~OnSpray(c, order) =>
                       Occurrences(clusters, c) =
                           IF cases[c].response \/ cases[c].dismissed THEN 0 ELSE 1
                 /\ \A i \in DOMAIN clusters :
                       /\ \A k \in 2..Len(clusters[i].cases) : \E j \in 1..(k - 1) :
                             Related(clusters[i].cases[j], clusters[i].cases[k])
                       /\ (\A c \in ToSet(clusters[i].cases) : ~Weak(c) /\ ~OnSpray(c, order))
                             => Span(cases, clusters[i].cases) <= Window
      BY <2>1, <2>2, ClustersOfOrder DEF Firm, AllFirm, Chained
    <2>. QED
      BY <2>2 DEF ClustersSound
  <1>. QED
    BY <1>1, CorrelationInvariant, PTL
=============================================================================
