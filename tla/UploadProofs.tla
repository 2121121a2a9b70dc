---------------------------- MODULE UploadProofs ----------------------------
(***************************************************************************)
(* Theorems about uploads, for any files, limits, rules and users: the     *)
(* types, what uploading again stores, what the grouping passes keep of    *)
(* the alerts, and that closing cases as noise never hides a severe one.   *)
(*                                                                         *)
(* In this order: lists and folds; the four passes, each of which keeps    *)
(* GroupsOK (every group has alerts and says the truth of them) and lets   *)
(* every alert be somewhere; the invariant WorkInv of the upload at work;  *)
(* the invariant CasesInv of what is stored, which ties the identities of  *)
(* a case to its rows; and the theorems.                                   *)
(***************************************************************************)
EXTENDS Upload, SequenceTheorems, FiniteSetTheorems, WellFoundedInduction, TLAPS

-----------------------------------------------------------------------------
(* Folds over a list.                                                      *)

LEMMA LeastOfNats ==
    ASSUME NEW T \in SUBSET Nat, T # {}
    PROVE  \E n \in T : \A m \in T : n <= m
  <1>. DEFINE R == OpToRel(<, Nat)
  <1>1. IsWellFoundedOn(R, Nat)
    BY NatLessThanWellFounded
  <1>2. \A a, b \in Nat : a < b => <<a, b>> \in R
    BY DEF OpToRel
  <1>. HIDE DEF R
  <1>3. PICK x \in T : \A y \in T : ~ (<<y, x>> \in R)
    BY <1>1, WFMin
  <1>4. ASSUME NEW y \in T PROVE x <= y
    <2>1. ~(y < x)
      BY <1>2, <1>3
    <2>. QED
      BY <2>1
  <1>. QED
    BY <1>4

LEMMA UpTo ==
    ASSUME NEW n \in Nat, NEW S, 0 \in S, \A k \in 1..n : k - 1 \in S => k \in S
    PROVE  \A k \in 0..n : k \in S
  <1>. DEFINE Out == {k \in 0..n : k \notin S}
  <1>. SUFFICES ASSUME Out # {} PROVE FALSE
    OBVIOUS
  <1>1. PICK m \in Out : \A k \in Out : m <= k
    <2>1. Out \in SUBSET Nat
      OBVIOUS
    <2>. QED
      BY <2>1, LeastOfNats
  <1>2. m \in 1..n /\ m \notin S /\ m - 1 \in 0..n
    BY <1>1
  <1>3. m - 1 \in S
    BY <1>1, <1>2
  <1>. QED
    BY <1>2, <1>3

(* A recursive function on the numbers up to n exists, within any set that *)
(* its steps do not leave.                                                 *)
Follow(f, base, step, n) ==
    f = [k \in 0..n |-> IF k = 0 THEN base ELSE step[<<f[k - 1], k>>]]

LEMMA FoldExists ==
    ASSUME NEW X, NEW base \in X, NEW n \in Nat, NEW step \in [X \X (1..n) -> X]
    PROVE  \E f \in [0..n -> X] : Follow(f, base, step, n)
  <1>. DEFINE Good == {m \in 0..n : \E f \in [0..m -> X] : Follow(f, base, step, m)}
  <1>1. 0 \in Good
    <2>. DEFINE f == [k \in 0..0 |-> base]
    <2>1. f \in [0..0 -> X] /\ Follow(f, base, step, 0)
      BY DEF Follow
    <2>. HIDE DEF f
    <2>. QED
      BY <2>1
  <1>2. ASSUME NEW m \in 1..n, m - 1 \in Good PROVE m \in Good
    <2>1. PICK f \in [0..(m - 1) -> X] : Follow(f, base, step, m - 1)
      BY <1>2
    <2>. DEFINE last == step[<<f[m - 1], m>>]
                g == [k \in 0..m |-> IF k = m THEN last ELSE f[k]]
    <2>2. last \in X
      <3>1. f[m - 1] \in X
        OBVIOUS
      <3>. QED
        BY <3>1
    <2>3. g \in [0..m -> X]
      <3>. HIDE DEF last
      <3>. QED
        BY <2>2
    <2>4. ASSUME NEW k \in 0..m
          PROVE  g[k] = IF k = 0 THEN base ELSE step[<<g[k - 1], k>>]
      <3>1. CASE k = m
        <4>1. k # 0 /\ g[k - 1] = f[m - 1]
          BY <3>1
        <4>. QED
          BY <3>1, <4>1
      <3>2. CASE k \in 0..(m - 1)
        <4>1. f[k] = IF k = 0 THEN base ELSE step[<<f[k - 1], k>>]
          BY <2>1, <3>2 DEF Follow
        <4>2. g[k] = f[k] /\ (k # 0 => g[k - 1] = f[k - 1])
          BY <3>2
        <4>. HIDE DEF g
        <4>. QED
          BY <4>1, <4>2
      <3>. QED
        BY <3>1, <3>2
    <2>5. Follow(g, base, step, m)
      <3>. HIDE DEF g
      <3>. QED
        BY <2>3, <2>4 DEF Follow
    <2>. HIDE DEF g
    <2>. QED
      BY <2>3, <2>5
  <1>3. n \in Good
    <2>. HIDE DEF Good
    <2>1. \A m \in 0..n : m \in Good
      BY <1>1, <1>2, UpTo
    <2>. QED
      BY <2>1
  <1>. QED
    BY <1>3

(* The steps of such a function, one by one.                               *)
Taken(f, X, base, step, n) ==
    /\ f \in [0..n -> X]
    /\ f[0] = base
    /\ \A k \in 1..n : f[k - 1] \in X /\ f[k] = step[<<f[k - 1], k>>]

LEMMA FoldSteps ==
    ASSUME NEW X, NEW base \in X, NEW n \in Nat, NEW step \in [X \X (1..n) -> X]
    PROVE  \E f : Taken(f, X, base, step, n)
  <1>1. PICK f \in [0..n -> X] : Follow(f, base, step, n)
    BY FoldExists
  <1>2. \A k \in 0..n : f[k] = IF k = 0 THEN base ELSE step[<<f[k - 1], k>>]
    BY <1>1 DEF Follow
  <1>3. 0 \in 0..n /\ \A k \in 1..n : k \in 0..n /\ k # 0 /\ k - 1 \in 0..n
    OBVIOUS
  <1>. QED
    BY <1>2, <1>3 DEF Taken

-----------------------------------------------------------------------------
(* The elements of a list that are in a set.                               *)

LEMMA AppendOfSet ==
    ASSUME NEW S, NEW list \in Seq(S), NEW e \in S
    PROVE  /\ Append(list, e) \in Seq(S)
           /\ ToSet(Append(list, e)) = ToSet(list) \cup {e}
  <1>1. Append(list, e) \in Seq(S) /\ Len(list) \in Nat
    BY AppendProperties
  <1>2. DOMAIN Append(list, e) = 1..(Len(list) + 1) /\ DOMAIN list = 1..Len(list)
    BY AppendProperties, LenProperties
  <1>3. /\ \A k \in 1..Len(list) : Append(list, e)[k] = list[k]
        /\ Append(list, e)[Len(list) + 1] = e
    BY AppendProperties
  <1>4. 1..(Len(list) + 1) = 1..Len(list) \cup {Len(list) + 1}
    BY <1>1
  <1>. QED
    BY <1>1, <1>2, <1>3, <1>4 DEF ToSet

(* w[n] are those among the first n elements.                              *)
Selects(w, list, those) ==
    /\ w[0] = <<>>
    /\ \A k \in 1..Len(list) :
          w[k] = IF list[k] \in those THEN Append(w[k - 1], list[k]) ELSE w[k - 1]

LEMMA WhereSelects ==
    ASSUME NEW S, NEW list \in Seq(S), NEW those
    PROVE  \E w : Selects(w, list, those) /\ Where(list, those) = w[Len(list)]
  <1>. DEFINE n == Len(list)
              none == <<>>
              X == Seq(S)
              Op(kept, e) == IF e \in those THEN Append(kept, e) ELSE kept
              step == [p \in X \X (1..n) |-> Op(p[1], list[p[2]])]
              Is(f) == f = [k \in 0..n |-> IF k = 0 THEN <<>>
                               ELSE IF list[k] \in those THEN Append(f[k - 1], list[k])
                                    ELSE f[k - 1]]
  <1>1. n \in Nat /\ \A k \in 1..n : list[k] \in S
    BY ElementOfSeq
  <1>2. step \in [X \X (1..n) -> X] /\ none \in X
    BY <1>1, AppendProperties, EmptySeq
  <1>3. PICK f : Taken(f, X, none, step, n)
    <2>. HIDE DEF n, step, none, X
    <2>. QED
      BY <1>1, <1>2, FoldSteps
  <1>4. /\ f \in [0..n -> X]
        /\ \A k \in 0..n : f[k] = IF k = 0 THEN none ELSE Op(f[k - 1], list[k])
    <2>1. \A k \in 1..n : f[k] = Op(f[k - 1], list[k])
      BY <1>3 DEF Taken
    <2>. HIDE DEF n, step, Op, X
    <2>. QED
      BY <1>1, <1>3, <2>1 DEF Taken
  <1>5. Is(f)
    <2>. HIDE DEF n, step, X
    <2>. QED
      BY <1>4
  <1>6. PICK w : Is(w) /\ Where(list, those) = w[n]
    BY <1>5 DEF Where, Folded
  <1>7. \A k \in 0..n : w[k] = IF k = 0 THEN <<>> ELSE Op(w[k - 1], list[k])
    <2>. HIDE DEF n
    <2>. QED
      BY <1>6
  <1>8. Selects(w, list, those)
    <2>. HIDE DEF Is
    <2>. QED
      BY <1>1, <1>7 DEF Selects
  <1>. QED
    BY <1>6, <1>8

LEMMA WhereList ==
    ASSUME NEW S, NEW list \in Seq(S), NEW those
    PROVE  /\ Where(list, those) \in Seq(S)
           /\ ToSet(Where(list, those)) = ToSet(list) \cap those
  <1>1. PICK w : Selects(w, list, those) /\ Where(list, those) = w[Len(list)]
    BY WhereSelects
  <1>. DEFINE n == Len(list)
              Good == {k \in 0..n : /\ w[k] \in Seq(S)
                                    /\ ToSet(w[k]) = {list[i] : i \in 1..k} \cap those}
  <1>2. n \in Nat /\ ToSet(list) = {list[i] : i \in 1..n} /\ \A k \in 1..n : list[k] \in S
    BY ElementOfSeq, LenProperties DEF ToSet
  <1>3. 0 \in Good
    <2>1. ToSet(<<>>) = {} /\ <<>> \in Seq(S)
      BY EmptySeq DEF ToSet
    <2>2. 0 \in 0..n /\ {list[i] : i \in 1..0} = {}
      BY <1>2
    <2>. HIDE DEF n
    <2>. QED
      BY <1>1, <2>1, <2>2 DEF Selects
  <1>4. ASSUME NEW k \in 1..n, k - 1 \in Good PROVE k \in Good
    <2>1. w[k] = IF list[k] \in those THEN Append(w[k - 1], list[k]) ELSE w[k - 1]
      BY <1>1 DEF Selects
    <2>2. /\ w[k - 1] \in Seq(S) /\ list[k] \in S /\ k \in 0..n
          /\ ToSet(w[k - 1]) = {list[i] : i \in 1..(k - 1)} \cap those
      BY <1>2, <1>4
    <2>3. {list[i] : i \in 1..k} = {list[i] : i \in 1..(k - 1)} \cup {list[k]}
      <3>1. 1..k = 1..(k - 1) \cup {k}
        BY <1>2
      <3>. QED
        BY <3>1
    <2>4. /\ Append(w[k - 1], list[k]) \in Seq(S)
          /\ ToSet(Append(w[k - 1], list[k])) = ToSet(w[k - 1]) \cup {list[k]}
      BY <2>2, AppendOfSet
    <2>. HIDE DEF n
    <2>. QED
      BY <2>1, <2>2, <2>3, <2>4
  <1>5. n \in Good
    <2>1. \A k \in 0..n : k \in Good
      <3>. HIDE DEF n, Good
      <3>. QED
        BY <1>2, <1>3, <1>4, UpTo
    <2>2. n \in 0..n
      BY <1>2
    <2>. HIDE DEF n, Good
    <2>. QED
      BY <2>1, <2>2
  <1>. QED
    BY <1>1, <1>2, <1>5

LEMMA FiniteList ==
    ASSUME NEW S, NEW list \in Seq(S)
    PROVE  IsFiniteSet(ToSet(list))
  <1>1. Len(list) \in Nat /\ DOMAIN list = 1..Len(list)
    BY LenProperties
  <1>2. list \in Surjection(1..Len(list), ToSet(list))
    <2>1. list \in [1..Len(list) -> ToSet(list)]
      BY <1>1 DEF ToSet
    <2>. QED
      BY <1>1, <2>1 DEF ToSet, Surjection
  <1>3. IsFiniteSet(1..Len(list))
    BY <1>1, FS_Interval
  <1>. QED
    BY <1>2, <1>3, FS_Surjection

(* The largest of some numbers below a bound.                              *)
LEMMA LargestOf ==
    ASSUME NEW n \in Nat, NEW T \in SUBSET (0..n), T # {}
    PROVE  Max(T) \in T /\ \A x \in T : Max(T) >= x
  <1>. DEFINE Gaps == {k \in 0..n : n - k \in T}
  <1>1. Gaps \in SUBSET Nat /\ Gaps # {}
    <2>1. PICK x \in T : TRUE
      OBVIOUS
    <2>2. n - x \in Gaps
      <3>1. x \in 0..n /\ n - (n - x) = x
        OBVIOUS
      <3>. QED
        BY <3>1
    <2>3. Gaps \in SUBSET Nat
      OBVIOUS
    <2>. HIDE DEF Gaps
    <2>. QED
      BY <2>2, <2>3
  <1>2. PICK k \in Gaps : \A j \in Gaps : k <= j
    BY <1>1, LeastOfNats
  <1>3. n - k \in T /\ k \in 0..n
    BY <1>2
  <1>4. ASSUME NEW x \in T PROVE n - k >= x
    <2>1. x \in 0..n /\ n - x \in 0..n /\ n - (n - x) = x
      OBVIOUS
    <2>2. n - x \in Gaps
      BY <2>1
    <2>3. k <= n - x
      BY <1>2, <2>2
    <2>. QED
      BY <1>3, <2>1, <2>3
  <1>5. \E m \in T : \A x \in T : m >= x
    BY <1>3, <1>4
  <1>. QED
    BY <1>5 DEF Max

-----------------------------------------------------------------------------
(* Selections by position and by key.                                      *)

LEMMA InSet ==
    ASSUME NEW S, NEW list \in Seq(S), NEW x
    PROVE  x \in ToSet(list) <=> \E k \in 1..Len(list) : list[k] = x
  BY LenProperties DEF ToSet

(* The chosen numbers are those of 1..n that are places.                   *)
Chooses(chosen, n, places) ==
    /\ chosen \in Seq(1..n)
    /\ \A i : i \in 1..n /\ i \in places <=> \E k \in 1..Len(chosen) : chosen[k] = i

LEMMA PlacesOf ==
    ASSUME NEW n \in Nat, NEW places
    PROVE  Chooses(Where([i \in 1..n |-> i], places), n, places)
  <1>. DEFINE all == [i \in 1..n |-> i]
              chosen == Where(all, places)
  <1>1. all \in Seq(1..n) /\ ToSet(all) = 1..n
    <2>1. all \in [1..n -> 1..n]
      OBVIOUS
    <2>2. all \in Seq(1..n)
      <3>. HIDE DEF all
      <3>. QED
        BY <2>1
    <2>. QED
      BY <2>2 DEF ToSet
  <1>2. chosen \in Seq(1..n) /\ ToSet(chosen) = ToSet(all) \cap places
    <2>. HIDE DEF all
    <2>. QED
      BY <1>1, WhereList
  <1>. HIDE DEF chosen, all
  <1>3. \A i : i \in ToSet(chosen) <=> \E k \in 1..Len(chosen) : chosen[k] = i
    BY <1>2, InSet
  <1>4. chosen \in Seq(1..n) /\ \A i : i \in 1..n /\ i \in places <=> \E k \in 1..Len(chosen) : chosen[k] = i
    BY <1>1, <1>2, <1>3
  <1>. QED
    BY <1>4 DEF Chooses, chosen, all

(* The elements of some are those of list at these places.                 *)
Picks(some, list, places) ==
    /\ \A k \in 1..Len(some) : \E i \in 1..Len(list) : i \in places /\ some[k] = list[i]
    /\ \A i \in 1..Len(list) : i \in places => \E k \in 1..Len(some) : some[k] = list[i]

LEMMA AtList ==
    ASSUME NEW S, NEW list \in Seq(S), NEW places
    PROVE  At(list, places) \in Seq(S) /\ Picks(At(list, places), list, places)
  <1>. DEFINE n == Len(list)
              chosen == Where([i \in 1..n |-> i], places)
              some == [k \in 1..Len(chosen) |-> list[chosen[k]]]
  <1>1. n \in Nat /\ \A i \in 1..n : list[i] \in S
    BY ElementOfSeq
  <1>2. /\ chosen \in Seq(1..n)
        /\ \A i : i \in 1..n /\ i \in places <=> \E k \in 1..Len(chosen) : chosen[k] = i
    <2>1. Chooses(chosen, n, places)
      BY <1>1, PlacesOf
    <2>. HIDE DEF n, chosen
    <2>. QED
      BY <2>1 DEF Chooses
  <1>3. At(list, places) = some
    BY DEF At
  <1>. HIDE DEF chosen, n
  <1>4. Len(chosen) \in Nat /\ \A k \in 1..Len(chosen) : chosen[k] \in 1..n
    BY <1>2, ElementOfSeq
  <1>5. some \in Seq(S) /\ Len(some) = Len(chosen)
    <2>1. some \in [1..Len(chosen) -> S]
      BY <1>1, <1>4
    <2>. HIDE DEF some
    <2>2. some \in Seq(S)
      BY <1>4, <2>1
    <2>. QED
      BY <1>4, <2>1, <2>2, LenProperties
  <1>6. Picks(some, list, places)
    <2>1. \A k \in 1..Len(some) : some[k] = list[chosen[k]]
      BY <1>5
    <2>. HIDE DEF some
    <2>2. \A k \in 1..Len(some) : chosen[k] \in 1..n /\ chosen[k] \in places
      BY <1>2, <1>4, <1>5
    <2>3. ASSUME NEW k \in 1..Len(some) PROVE \E i \in 1..n : i \in places /\ some[k] = list[i]
      BY <2>1, <2>2
    <2>4. ASSUME NEW i \in 1..n, i \in places PROVE \E k \in 1..Len(some) : some[k] = list[i]
      <3>1. PICK k \in 1..Len(chosen) : chosen[k] = i
        BY <1>2, <2>4
      <3>. QED
        BY <1>5, <2>1, <3>1
    <2>. QED
      BY <2>3, <2>4 DEF Picks, n
  <1>. QED
    BY <1>3, <1>5, <1>6

Like(list, keys, n) == {m \in 1..Len(list) : keys[m] = keys[n]}

(* Each list is the class of some element, and each class is one of them.  *)
Classes(lists, list, keys) ==
    /\ lists \in Seq(ToSet(lists))
    /\ \A g \in 1..Len(lists) : \E n \in 1..Len(list) : lists[g] = At(list, Like(list, keys, n))
    /\ \A n \in 1..Len(list) : \E g \in 1..Len(lists) : lists[g] = At(list, Like(list, keys, n))

LEMMA ByKeyClasses ==
    ASSUME NEW S, NEW list \in Seq(S), NEW keys
    PROVE  Classes(ByKey(list, keys), list, keys)
  <1>. DEFINE n == Len(list)
              first == {i \in 1..n : \A m \in Like(list, keys, i) : i <= m}
              firsts == Where([i \in 1..n |-> i], first)
              lists == [g \in 1..Len(firsts) |-> At(list, Like(list, keys, firsts[g]))]
  <1>1. ByKey(list, keys) = lists
    BY DEF ByKey, Like
  <1>2. n \in Nat
    BY LenProperties
  <1>3. /\ firsts \in Seq(1..n)
        /\ \A i : i \in 1..n /\ i \in first <=> \E k \in 1..Len(firsts) : firsts[k] = i
    <2>. HIDE DEF n, first
    <2>1. Chooses(firsts, n, first)
      BY <1>2, PlacesOf
    <2>. HIDE DEF firsts
    <2>. QED
      BY <2>1 DEF Chooses
  <1>4. ASSUME NEW i \in 1..n PROVE \E f \in first : Like(list, keys, f) = Like(list, keys, i)
    <2>1. Like(list, keys, i) \in SUBSET Nat /\ Like(list, keys, i) # {}
      BY DEF Like
    <2>2. PICK f \in Like(list, keys, i) : \A m \in Like(list, keys, i) : f <= m
      BY <2>1, LeastOfNats
    <2>3. Like(list, keys, f) = Like(list, keys, i) /\ f \in 1..n
      BY <2>2 DEF Like
    <2>. QED
      BY <2>2, <2>3
  <1>. HIDE DEF firsts
  <1>5. Len(firsts) \in Nat /\ \A g \in 1..Len(firsts) : firsts[g] \in 1..n
    BY <1>3, ElementOfSeq
  <1>6. lists \in Seq(ToSet(lists)) /\ Len(lists) = Len(firsts)
    <2>1. lists \in [1..Len(firsts) -> ToSet(lists)]
      BY DEF ToSet
    <2>. HIDE DEF lists
    <2>2. lists \in Seq(ToSet(lists))
      BY <1>5, <2>1
    <2>. QED
      BY <1>5, <2>1, <2>2, LenProperties
  <1>7. \A g \in 1..Len(lists) : lists[g] = At(list, Like(list, keys, firsts[g]))
    BY <1>6
  <1>. HIDE DEF lists
  <1>8. \A g \in 1..Len(lists) : \E i \in 1..n : lists[g] = At(list, Like(list, keys, i))
    BY <1>5, <1>6, <1>7
  <1>9. ASSUME NEW i \in 1..n
        PROVE  \E g \in 1..Len(lists) : lists[g] = At(list, Like(list, keys, i))
    <2>1. PICK f \in first : Like(list, keys, f) = Like(list, keys, i)
      BY <1>4
    <2>2. PICK g \in 1..Len(firsts) : firsts[g] = f
      BY <1>3
    <2>. QED
      BY <1>6, <1>7, <2>1, <2>2
  <1>. QED
    BY <1>1, <1>6, <1>8, <1>9 DEF Classes

(* What is known of the elements of a class.                               *)
LEMMA ClassOf ==
    ASSUME NEW S, NEW list \in Seq(S), NEW keys, NEW n \in 1..Len(list)
    PROVE  LET class == At(list, Like(list, keys, n))
           IN  /\ class \in Seq(S) /\ class # <<>>
               /\ list[n] \in ToSet(class) /\ ToSet(class) \subseteq ToSet(list)
               /\ \A x \in ToSet(class) : \E m \in 1..Len(list) : x = list[m] /\ keys[m] = keys[n]
  <1>. DEFINE places == Like(list, keys, n)
              class == At(list, places)
  <1>1. class \in Seq(S) /\ Picks(class, list, places)
    BY AtList
  <1>2. n \in places /\ \A m \in places : m \in 1..Len(list) /\ keys[m] = keys[n]
    BY DEF Like
  <1>. HIDE DEF places, class
  <1>3. \A x : x \in ToSet(class) <=> \E k \in 1..Len(class) : class[k] = x
    BY <1>1, InSet
  <1>4. \A x : x \in ToSet(list) <=> \E k \in 1..Len(list) : list[k] = x
    BY InSet
  <1>5. list[n] \in ToSet(class)
    BY <1>1, <1>2, <1>3 DEF Picks
  <1>6. class # <<>>
    BY <1>5 DEF ToSet
  <1>7. \A x \in ToSet(class) : \E m \in 1..Len(list) : x = list[m] /\ keys[m] = keys[n]
    <2>1. TAKE x \in ToSet(class)
    <2>2. PICK k \in 1..Len(class) : class[k] = x
      BY <1>3
    <2>3. PICK m \in 1..Len(list) : m \in places /\ class[k] = list[m]
      BY <1>1 DEF Picks
    <2>. QED
      BY <1>2, <2>2, <2>3
  <1>. QED
    BY <1>1, <1>4, <1>5, <1>6, <1>7 DEF class, places

-----------------------------------------------------------------------------
(* Alerts and duplicates.                                                  *)

IsAlert(a) ==
    /\ RowFields \cup {"score", "row"} \subseteq DOMAIN a
    /\ IsFiniteSet(a.public) /\ a.sev \in Nat /\ a.score \in Nat

LEMMA FirstOf ==
    ASSUME NEW n \in Nat, NEW T \in SUBSET (1..n), T # {}
    PROVE  Min(T) \in T
  <1>1. T \in SUBSET Nat
    OBVIOUS
  <1>2. \E x \in T : \A y \in T : x <= y
    BY <1>1, LeastOfNats
  <1>. QED
    BY <1>2 DEF Min

(* The numbers on a list have a largest one.                               *)
LEMMA LargestIndexed ==
    ASSUME NEW n \in Nat, n # 0, NEW f \in [1..n -> Nat]
    PROVE  \E i \in 1..n : \A k \in 1..n : f[k] <= f[i]
  <1>. DEFINE Good == {m \in 0..n : m = 0 \/ \E i \in 1..m : \A k \in 1..m : f[k] <= f[i]}
  <1>1. 0 \in Good
    OBVIOUS
  <1>2. ASSUME NEW m \in 1..n, m - 1 \in Good PROVE m \in Good
    <2>1. CASE m = 1
      <3>1. \A k \in 1..m : k = 1
        BY <2>1
      <3>2. 1 \in 1..m /\ f[1] <= f[1]
        BY <2>1
      <3>. QED
        BY <2>1, <3>1, <3>2
    <2>2. CASE m # 1
      <3>1. PICK i \in 1..(m - 1) : \A k \in 1..(m - 1) : f[k] <= f[i]
        BY <1>2, <2>2
      <3>2. i \in 1..m /\ m \in 1..m /\ f[i] \in Nat /\ f[m] \in Nat
        OBVIOUS
      <3>3. \A k \in 1..m : k = m \/ k \in 1..(m - 1)
        OBVIOUS
      <3>4. CASE f[m] <= f[i]
        <4>1. \A k \in 1..m : f[k] <= f[i]
          BY <3>1, <3>3, <3>4
        <4>. QED
          BY <3>2, <4>1
      <3>5. CASE f[i] <= f[m]
        <4>1. \A k \in 1..m : f[k] <= f[m]
          <5>1. TAKE k \in 1..m
          <5>2. CASE k = m
            BY <3>2, <5>2
          <5>3. CASE k \in 1..(m - 1)
            <6>1. f[k] <= f[i] /\ f[k] \in Nat
              BY <3>1, <5>3
            <6>. QED
              BY <3>2, <3>5, <6>1
          <5>. QED
            BY <3>3, <5>2, <5>3
        <4>. QED
          BY <3>2, <4>1
      <3>. QED
        BY <3>2, <3>4, <3>5
    <2>. QED
      BY <2>1, <2>2
  <1>3. n \in Good
    <2>. HIDE DEF Good
    <2>1. \A m \in 0..n : m \in Good
      BY <1>1, <1>2, UpTo
    <2>. QED
      BY <2>1
  <1>. QED
    BY <1>3

(* The maximum of the scores, or of the severities, of a group.            *)
LEMMA MaxIndexed ==
    ASSUME NEW n \in Nat, n # 0, NEW f \in [1..n -> Nat]
    PROVE  LET top == Max({f[i] : i \in 1..n})
           IN  /\ top \in Nat /\ \A i \in 1..n : f[i] <= top
               /\ \E i \in 1..n : f[i] = top
  <1>. DEFINE T == {f[i] : i \in 1..n}
  <1>1. PICK i \in 1..n : \A k \in 1..n : f[k] <= f[i]
    BY LargestIndexed
  <1>2. f[i] \in T /\ \A y \in T : f[i] >= y
    BY <1>1
  <1>3. Max(T) \in T /\ \A y \in T : Max(T) >= y
    <2>. HIDE DEF T
    <2>. QED
      BY <1>2 DEF Max
  <1>4. PICK j \in 1..n : Max(T) = f[j]
    BY <1>3
  <1>5. \A k \in 1..n : f[k] \in T
    OBVIOUS
  <1>. HIDE DEF T
  <1>6. Max(T) \in Nat /\ \A k \in 1..n : f[k] <= Max(T)
    BY <1>3, <1>4, <1>5
  <1>. QED
    BY <1>4, <1>6 DEF T

LEMMA ListDomain ==
    ASSUME NEW S, NEW list \in Seq(S)
    PROVE  /\ DOMAIN list = 1..Len(list) /\ Len(list) \in Nat
           /\ \A k \in 1..Len(list) : list[k] \in S /\ list[k] \in ToSet(list)
           /\ ToSet(list) \subseteq S
           /\ list # <<>> <=> Len(list) # 0
           /\ list # <<>> => 1 \in 1..Len(list)
  <1>1. DOMAIN list = 1..Len(list) /\ Len(list) \in Nat /\ \A k \in 1..Len(list) : list[k] \in S
    BY LenProperties, ElementOfSeq
  <1>2. list # <<>> <=> Len(list) # 0
    BY EmptySeq
  <1>. QED
    BY <1>1, <1>2 DEF ToSet

LEMMA BestOf ==
    ASSUME NEW S, \A a \in S : IsAlert(a), NEW alerts \in Seq(S), alerts # <<>>
    PROVE  /\ Best(alerts) \in ToSet(alerts)
           /\ \A a \in ToSet(alerts) : a.score <= Best(alerts).score
  <1>. DEFINE n == Len(alerts)
              f == [i \in 1..n |-> alerts[i].score]
              top == Max({alerts[k].score : k \in 1..n})
              tops == {i \in 1..n : alerts[i].score = top}
  <1>1. DOMAIN alerts = 1..n /\ n \in Nat /\ n # 0 /\ \A k \in 1..n : alerts[k] \in S
    BY ListDomain
  <1>2. f \in [1..n -> Nat]
    BY <1>1 DEF IsAlert
  <1>3. {alerts[k].score : k \in 1..n} = {f[i] : i \in 1..n}
    OBVIOUS
  <1>4. \A i \in 1..n : f[i] = alerts[i].score
    OBVIOUS
  <1>5. (\A i \in 1..n : f[i] <= top) /\ \E i \in 1..n : f[i] = top
    <2>. HIDE DEF f, n
    <2>. QED
      BY <1>1, <1>2, <1>3, MaxIndexed
  <1>6. tops # {} /\ tops \in SUBSET (1..n)
    BY <1>4, <1>5
  <1>7. Best(alerts) = alerts[Min(tops)]
    BY <1>1 DEF Best
  <1>8. Min(tops) \in tops
    <2>. HIDE DEF tops, n
    <2>. QED
      BY <1>1, <1>6, FirstOf
  <1>9. Min(tops) \in 1..n /\ alerts[Min(tops)].score = top
    BY <1>8
  <1>10. \A a \in ToSet(alerts) : a.score <= top
    <2>. HIDE DEF f, top
    <2>. QED
      BY <1>1, <1>4, <1>5 DEF ToSet
  <1>. HIDE DEF top, tops, f
  <1>. QED
    BY <1>1, <1>7, <1>9, <1>10, ListDomain

(* Every alert is kept, or one with its fingerprint that scores no less.   *)
Spares(kept, alerts) ==
    /\ kept # <<>> /\ ToSet(kept) \subseteq ToSet(alerts)
    /\ \A a \in ToSet(alerts) : \E b \in ToSet(kept) :
           Fingerprint(a) = Fingerprint(b) /\ a.score <= b.score

LEMMA DedupSpares ==
    ASSUME NEW S, \A a \in S : IsAlert(a), NEW alerts \in Seq(S), alerts # <<>>
    PROVE  Dedup(alerts) \in Seq(S) /\ Spares(Dedup(alerts), alerts)
  <1>. DEFINE keys == [i \in DOMAIN alerts |-> Fingerprint(alerts[i])]
              same == Equal(alerts)
              kept == [n \in DOMAIN same |-> Best(same[n])]
  <1>1. /\ DOMAIN alerts = 1..Len(alerts) /\ Len(alerts) \in Nat /\ 1 \in 1..Len(alerts)
        /\ ToSet(alerts) \subseteq S
    BY ListDomain
  <1>2. same = ByKey(alerts, keys) /\ Dedup(alerts) = kept
    BY DEF Equal, Dedup
  <1>3. Classes(same, alerts, keys)
    BY <1>2, ByKeyClasses
  <1>4. \A i \in 1..Len(alerts) : keys[i] = Fingerprint(alerts[i])
    BY <1>1
  <1>. HIDE DEF same, keys
  <1>5. same \in Seq(ToSet(same))
    BY <1>3 DEF Classes
  <1>6. DOMAIN same = 1..Len(same) /\ Len(same) \in Nat
    BY <1>5, ListDomain
  <1>7. ASSUME NEW g \in 1..Len(same)
        PROVE  \E n \in 1..Len(alerts) :
                   /\ same[g] = At(alerts, Like(alerts, keys, n))
                   /\ Best(same[g]) \in ToSet(same[g]) /\ ToSet(same[g]) \subseteq ToSet(alerts)
                   /\ \A a \in ToSet(same[g]) : a.score <= Best(same[g]).score
    <2>1. PICK n \in 1..Len(alerts) : same[g] = At(alerts, Like(alerts, keys, n))
      BY <1>3 DEF Classes
    <2>2. same[g] \in Seq(S) /\ same[g] # <<>> /\ ToSet(same[g]) \subseteq ToSet(alerts)
      BY <2>1, ClassOf
    <2>. QED
      BY <2>1, <2>2, BestOf
  <1>8. kept \in Seq(S) /\ Len(kept) = Len(same) /\ \A g \in 1..Len(same) : kept[g] = Best(same[g])
    <2>1. kept \in [1..Len(same) -> S]
      BY <1>1, <1>6, <1>7
    <2>2. \A g \in 1..Len(same) : kept[g] = Best(same[g])
      BY <1>6
    <2>. HIDE DEF kept
    <2>3. kept \in Seq(S)
      BY <1>6, <2>1
    <2>. QED
      BY <1>6, <2>1, <2>2, <2>3, LenProperties
  <1>. HIDE DEF kept
  <1>9. \A x : x \in ToSet(kept) <=> \E g \in 1..Len(same) : kept[g] = x
    BY <1>8, InSet
  <1>10. ToSet(kept) \subseteq ToSet(alerts)
    BY <1>7, <1>8, <1>9
  <1>11. ASSUME NEW a \in ToSet(alerts)
         PROVE  \E b \in ToSet(kept) : Fingerprint(a) = Fingerprint(b) /\ a.score <= b.score
    <2>1. PICK n \in 1..Len(alerts) : alerts[n] = a
      BY InSet
    <2>2. PICK g \in 1..Len(same) : same[g] = At(alerts, Like(alerts, keys, n))
      BY <1>3 DEF Classes
    <2>3. /\ a \in ToSet(same[g])
          /\ \A x \in ToSet(same[g]) : \E m \in 1..Len(alerts) : x = alerts[m] /\ keys[m] = keys[n]
      BY <2>1, <2>2, ClassOf
    <2>4. Best(same[g]) \in ToSet(same[g]) /\ a.score <= Best(same[g]).score
      BY <1>7, <2>3
    <2>5. Fingerprint(Best(same[g])) = Fingerprint(a)
      BY <1>4, <2>1, <2>3, <2>4
    <2>6. Best(same[g]) \in ToSet(kept)
      BY <1>8, <1>9
    <2>. QED
      BY <2>4, <2>5, <2>6
  <1>12. kept # <<>>
    <2>1. alerts[1] \in ToSet(alerts)
      BY <1>1, InSet
    <2>2. PICK b \in ToSet(kept) : TRUE
      BY <1>11, <2>1
    <2>. QED
      BY <2>2 DEF ToSet
  <1>. QED
    BY <1>2, <1>8, <1>10, <1>11, <1>12 DEF Spares

-----------------------------------------------------------------------------
(* Groups.                                                                 *)

GroupFields == {"anchor", "alerts", "type", "sev", "score", "from"}

(* The score is that of an alert, and none scores more or is more severe.  *)
Says(g) ==
    /\ \E a \in ToSet(g.alerts) : g.score = a.score
    /\ \A a \in ToSet(g.alerts) : a.score <= g.score /\ a.sev <= g.sev

GroupOK(g, S) ==
    /\ GroupFields \subseteq DOMAIN g
    /\ g.alerts \in Seq(S) /\ g.alerts # <<>>
    /\ Says(g)

GroupsOK(gs, S) ==
    /\ gs \in Seq(ToSet(gs))
    /\ \A n \in 1..Len(gs) : GroupOK(gs[n], S)

LEMMA GroupMore ==
    ASSUME NEW S, NEW T, S \subseteq T, NEW g, GroupOK(g, S)
    PROVE  GroupOK(g, T)
  <1>1. Len(g.alerts) \in Nat /\ g.alerts \in [1..Len(g.alerts) -> T]
    <2>1. g.alerts \in Seq(S)
      BY DEF GroupOK
    <2>2. /\ DOMAIN g.alerts = 1..Len(g.alerts) /\ Len(g.alerts) \in Nat
          /\ g.alerts \in [1..Len(g.alerts) -> S]
      BY <2>1, LenProperties
    <2>. QED
      BY <2>2
  <1>2. g.alerts \in Seq(T)
    BY <1>1
  <1>. QED
    BY <1>2 DEF GroupOK

LEMMA DescribedOK ==
    ASSUME NEW S, \A a \in S : IsAlert(a), NEW g, GroupFields \subseteq DOMAIN g,
           g.alerts \in Seq(S), g.alerts # <<>>
    PROVE  GroupOK(Described(g), S) /\ Described(g).alerts = g.alerts
  <1>. DEFINE list == g.alerts
              n == Len(list)
              sevs == [i \in 1..n |-> list[i].sev]
              scores == [i \in 1..n |-> list[i].score]
              sev == Max({list[i].sev : i \in 1..n})
              score == Max({list[i].score : i \in 1..n})
              type == PrimaryType(list)
              from == IF TimesOf(list) = {} THEN g.from ELSE Min(TimesOf(list))
              h == [g EXCEPT !.type = type, !.sev = sev, !.score = score, !.from = from]
  <1>1. DOMAIN list = 1..n /\ n \in Nat /\ n # 0 /\ \A k \in 1..n : list[k] \in S
    BY ListDomain
  <1>2. sevs \in [1..n -> Nat] /\ scores \in [1..n -> Nat]
    BY <1>1 DEF IsAlert
  <1>3. /\ {list[i].sev : i \in 1..n} = {sevs[i] : i \in 1..n}
        /\ {list[i].score : i \in 1..n} = {scores[i] : i \in 1..n}
        /\ \A i \in 1..n : sevs[i] = list[i].sev /\ scores[i] = list[i].score
    OBVIOUS
  <1>4. Described(g) = h
    BY <1>1 DEF Described
  <1>. HIDE DEF type, from
  <1>5. \A i \in 1..n : list[i].sev <= sev
    <2>. HIDE DEF sevs, list, n
    <2>. QED
      BY <1>1, <1>2, <1>3, MaxIndexed
  <1>6. (\A i \in 1..n : list[i].score <= score) /\ \E i \in 1..n : list[i].score = score
    <2>1. (\A i \in 1..n : scores[i] <= score) /\ \E i \in 1..n : scores[i] = score
      <3>. DEFINE top == Max({scores[i] : i \in 1..n})
      <3>1. top = score
        BY <1>3
      <3>2. (\A i \in 1..n : scores[i] <= top) /\ \E i \in 1..n : scores[i] = top
        <4>. HIDE DEF scores, list, n
        <4>. QED
          BY <1>1, <1>2, MaxIndexed
      <3>. HIDE DEF top, scores, score, list, n
      <3>. QED
        BY <3>1, <3>2
    <2>. HIDE DEF scores, score, list, n
    <2>. QED
      BY <1>3, <2>1
  <1>. HIDE DEF sev, score, sevs, scores
  <1>7. GroupFields \subseteq DOMAIN h /\ h.alerts = list /\ h.sev = sev /\ h.score = score
    BY DEF GroupFields
  <1>. HIDE DEF h
  <1>8. Says(h)
    <2>. HIDE DEF n
    <2>1. \A a : a \in ToSet(list) <=> \E k \in 1..n : list[k] = a
      BY InSet DEF n
    <2>. HIDE DEF list
    <2>. QED
      BY <1>5, <1>6, <1>7, <2>1 DEF Says
  <1>. QED
    BY <1>4, <1>7, <1>8 DEF GroupOK

LEMMA NewGroupOK ==
    ASSUME NEW S, \A a \in S : IsAlert(a), NEW anchor, NEW alerts \in Seq(S), alerts # <<>>
    PROVE  GroupOK(NewGroup(anchor, alerts), S) /\ NewGroup(anchor, alerts).alerts = alerts
  <1>. DEFINE g == [anchor |-> anchor, alerts |-> alerts, type |-> None,
                    sev |-> 0, score |-> 0, from |-> None]
  <1>1. GroupFields \subseteq DOMAIN g /\ g.alerts = alerts
    BY DEF GroupFields
  <1>2. NewGroup(anchor, alerts) = Described(g)
    BY DEF NewGroup
  <1>. HIDE DEF g
  <1>. QED
    BY <1>1, <1>2, DescribedOK

(* A list of groups made one by one.                                       *)
LEMMA MadeGroups ==
    ASSUME NEW S, NEW n \in Nat, NEW gs, gs = [k \in 1..n |-> gs[k]],
           \A k \in 1..n : GroupOK(gs[k], S)
    PROVE  GroupsOK(gs, S) /\ Len(gs) = n
  <1>1. DOMAIN gs = 1..n
    OBVIOUS
  <1>2. gs \in [1..n -> ToSet(gs)]
    BY <1>1 DEF ToSet
  <1>3. gs \in Seq(ToSet(gs))
    BY <1>2
  <1>4. Len(gs) = n
    BY <1>1, <1>3, LenProperties
  <1>. QED
    BY <1>3, <1>4 DEF GroupsOK

(* The alert is in one of the groups.                                      *)
Somewhere(a, gs) == \E n \in 1..Len(gs) : a \in ToSet(gs[n].alerts)

LEMMA KeyGroupsOK ==
    ASSUME NEW S, \A a \in S : IsAlert(a), NEW alerts \in Seq(S)
    PROVE  /\ GroupsOK(KeyGroups(alerts), S)
           /\ \A a \in ToSet(alerts) \ Sprayed(alerts) : Somewhere(a, KeyGroups(alerts))
  <1>. DEFINE rest == Rest(alerts)
              keys == Keys(rest)
              found == ByKey(rest, keys)
              gs == [n \in DOMAIN found |-> NewGroup(PreAnchor(found[n][1]), found[n])]
  <1>1. rest \in Seq(S) /\ ToSet(rest) = ToSet(alerts) \ Sprayed(alerts)
    BY WhereList DEF Rest
  <1>2. KeyGroups(alerts) = gs
    BY DEF KeyGroups
  <1>. HIDE DEF rest, keys
  <1>3. Classes(found, rest, keys)
    BY <1>1, ByKeyClasses
  <1>. HIDE DEF found
  <1>4. DOMAIN found = 1..Len(found) /\ Len(found) \in Nat
    <2>1. found \in Seq(ToSet(found))
      BY <1>3 DEF Classes
    <2>. QED
      BY <2>1, ListDomain
  <1>5. \A n \in 1..Len(found) : found[n] \in Seq(S) /\ found[n] # <<>>
    <2>1. TAKE n \in 1..Len(found)
    <2>2. PICK i \in 1..Len(rest) : found[n] = At(rest, Like(rest, keys, i))
      BY <1>3 DEF Classes
    <2>. QED
      BY <1>1, <2>2, ClassOf
  <1>6. \A n \in 1..Len(found) : GroupOK(gs[n], S) /\ gs[n].alerts = found[n]
    BY <1>4, <1>5, NewGroupOK
  <1>7. GroupsOK(gs, S) /\ Len(gs) = Len(found)
    <2>1. gs = [n \in 1..Len(found) |-> gs[n]]
      BY <1>4
    <2>. HIDE DEF gs
    <2>. QED
      BY <1>4, <1>6, <2>1, MadeGroups
  <1>. HIDE DEF gs
  <1>8. ASSUME NEW a \in ToSet(rest) PROVE Somewhere(a, gs)
    <2>1. PICK i \in 1..Len(rest) : rest[i] = a
      BY <1>1, InSet
    <2>2. PICK n \in 1..Len(found) : found[n] = At(rest, Like(rest, keys, i))
      BY <1>3 DEF Classes
    <2>3. a \in ToSet(found[n])
      BY <1>1, <2>1, <2>2, ClassOf
    <2>. QED
      BY <1>6, <1>7, <2>3 DEF Somewhere
  <1>. QED
    BY <1>1, <1>2, <1>7, <1>8

LEMMA SprayingFinite ==
    ASSUME NEW S, \A a \in S : IsAlert(a), NEW alerts \in Seq(S)
    PROVE  IsFiniteSet(Spraying(alerts))
  <1>. DEFINE n == Len(alerts)
              publics == {alerts[i].public : i \in 1..n}
  <1>1. DOMAIN alerts = 1..n /\ n \in Nat /\ \A k \in 1..n : alerts[k] \in S
    BY ListDomain
  <1>2. \A P \in publics : IsFiniteSet(P)
    BY <1>1 DEF IsAlert
  <1>3. IsFiniteSet(publics)
    <2>. DEFINE f == [i \in 1..n |-> alerts[i].public]
    <2>1. f \in Surjection(1..n, publics)
      BY DEF Surjection
    <2>2. IsFiniteSet(1..n)
      BY <1>1, FS_Interval
    <2>. HIDE DEF f, publics, n
    <2>. QED
      BY <2>1, <2>2, FS_Surjection
  <1>4. IsFiniteSet(UNION publics)
    <2>. HIDE DEF publics
    <2>. QED
      BY <1>2, <1>3, FS_UNION
  <1>5. Spraying(alerts) \subseteq UNION publics
    BY <1>1 DEF Spraying, Addresses
  <1>. QED
    BY <1>4, <1>5, FS_Subset

(* A set as a list, each element once.                                     *)
LEMMA SetToSeqOK ==
    ASSUME NEW E, IsFiniteSet(E)
    PROVE  SetToSeq(E) \in Seq(E) /\ ToSet(SetToSeq(E)) = E
  <1>. DEFINE n == Cardinality(E)
  <1>1. n \in Nat /\ ExistsBijection(1..n, E)
    BY FS_CardinalityType
  <1>2. PICK f \in Bijection(1..n, E) : TRUE
    BY <1>1 DEF ExistsBijection
  <1>3. f \in [1..n -> E] /\ IsInjective(f)
    BY <1>2 DEF Bijection, Injection, IsInjective
  <1>4. SetToSeq(E) \in [1..n -> E] /\ IsInjective(SetToSeq(E))
    BY <1>3 DEF SetToSeq
  <1>5. SetToSeq(E) \in Injection(1..n, E)
    BY <1>4 DEF Injection, IsInjective
  <1>6. IsFiniteSet(1..n) /\ Cardinality(1..n) = n
    BY <1>1, FS_Interval
  <1>7. SetToSeq(E) \in Surjection(1..n, E)
    <2>. HIDE DEF n
    <2>. QED
      BY <1>5, <1>6, FS_Injection DEF n
  <1>8. ToSet(SetToSeq(E)) = E
    BY <1>4, <1>7 DEF Surjection, ToSet
  <1>9. SetToSeq(E) \in Seq(E)
    <2>. HIDE DEF n
    <2>. QED
      BY <1>1, <1>4
  <1>. QED
    BY <1>8, <1>9

RetypedOf(S) == {Retyped(a) : a \in S}

LEMMA RetypedAlert ==
    ASSUME NEW a, IsAlert(a)
    PROVE  /\ IsAlert(Retyped(a))
           /\ Retyped(a).user = a.user /\ Retyped(a).src = a.src
           /\ Retyped(a).score = a.score /\ Retyped(a).row = a.row
           /\ Retyped(a).sev = a.sev /\ Retyped(a).type = Spray
  BY DEF IsAlert, Retyped, RowFields

LEMMA SprayGroupsOK ==
    ASSUME NEW S, \A a \in S : IsAlert(a), NEW alerts \in Seq(S)
    PROVE  /\ GroupsOK(SprayGroups(alerts), RetypedOf(S))
           /\ \A a \in ToSet(alerts) \cap Sprayed(alerts) :
                  Somewhere(Retyped(a), SprayGroups(alerts))
  <1>. DEFINE Having(ip) == {a \in ToSet(alerts) : ip \in a.public}
              From(ip) == Where(alerts, Having(ip))
              Those(ip) == [i \in DOMAIN From(ip) |-> Retyped(From(ip)[i])]
              ips == SetToSeq(Spraying(alerts))
              R == RetypedOf(S)
              gs == [n \in DOMAIN ips |-> NewGroup(ips[n], Those(ips[n]))]
  <1>1. SprayGroups(alerts) = gs
    BY DEF SprayGroups
  <1>2. \A ip : From(ip) \in Seq(S) /\ ToSet(From(ip)) = Having(ip)
    <2>1. TAKE ip
    <2>2. From(ip) \in Seq(S) /\ ToSet(From(ip)) = ToSet(alerts) \cap Having(ip)
      <3>. HIDE DEF Having
      <3>. QED
        BY WhereList
    <2>. QED
      BY <2>2
  <1>. HIDE DEF From
  <1>3. \A a \in R : IsAlert(a)
    BY RetypedAlert DEF RetypedOf
  <1>4. ASSUME NEW ip
        PROVE  /\ Those(ip) \in Seq(R)
               /\ \A a \in Having(ip) : Retyped(a) \in ToSet(Those(ip))
               /\ Having(ip) # {} => Those(ip) # <<>>
    <2>. DEFINE list == From(ip)
                those == Those(ip)
    <2>1. DOMAIN list = 1..Len(list) /\ Len(list) \in Nat /\ \A k \in 1..Len(list) : list[k] \in S
      BY <1>2, ListDomain
    <2>2. /\ those \in [1..Len(list) -> R]
          /\ \A k \in 1..Len(list) : those[k] = Retyped(list[k])
      BY <2>1 DEF RetypedOf
    <2>3. \A a \in Having(ip) : \E k \in 1..Len(list) : list[k] = a
      <3>. HIDE DEF Having
      <3>. QED
        BY <1>2, InSet
    <2>. HIDE DEF those, list, R, Having
    <2>4. those \in Seq(R) /\ Len(those) = Len(list)
      <3>1. those \in Seq(R)
        BY <2>1, <2>2
      <3>. QED
        BY <2>1, <2>2, <3>1, LenProperties
    <2>5. \A a \in Having(ip) : Retyped(a) \in ToSet(those)
      <3>1. TAKE a \in Having(ip)
      <3>2. PICK k \in 1..Len(list) : list[k] = a
        BY <2>3
      <3>3. those[k] = Retyped(a) /\ k \in 1..Len(those)
        BY <2>2, <2>4, <3>2
      <3>. QED
        BY <2>4, <3>3, InSet
    <2>6. Having(ip) # {} => those # <<>>
      BY <2>5 DEF ToSet
    <2>. QED
      BY <2>4, <2>5, <2>6 DEF those
  <1>5. ips \in Seq(Spraying(alerts)) /\ ToSet(ips) = Spraying(alerts)
    <2>. HIDE DEF Those
    <2>. QED
      BY SprayingFinite, SetToSeqOK
  <1>6. \A ip \in Spraying(alerts) : Having(ip) # {}
    <2>1. TAKE ip \in Spraying(alerts)
    <2>2. PICK i \in DOMAIN alerts : ip \in alerts[i].public
      BY DEF Spraying, Addresses
    <2>3. alerts[i] \in ToSet(alerts)
      BY <2>2 DEF ToSet
    <2>. QED
      BY <2>2, <2>3
  <1>. HIDE DEF Those, ips
  <1>7. DOMAIN ips = 1..Len(ips) /\ Len(ips) \in Nat /\ \A n \in 1..Len(ips) : ips[n] \in Spraying(alerts)
    BY <1>5, ListDomain
  <1>8. \A n \in 1..Len(ips) : GroupOK(gs[n], R) /\ gs[n].alerts = Those(ips[n])
    <2>. HIDE DEF R, Having
    <2>1. \A n \in 1..Len(ips) : Those(ips[n]) \in Seq(R) /\ Those(ips[n]) # <<>>
      BY <1>4, <1>6, <1>7
    <2>2. \A n \in 1..Len(ips) : gs[n] = NewGroup(ips[n], Those(ips[n]))
      BY <1>7
    <2>. HIDE DEF gs
    <2>. QED
      BY <1>3, <2>1, <2>2, NewGroupOK
  <1>9. GroupsOK(gs, R) /\ Len(gs) = Len(ips)
    <2>1. gs = [n \in 1..Len(ips) |-> gs[n]]
      BY <1>7
    <2>. HIDE DEF gs, R
    <2>. QED
      BY <1>7, <1>8, <2>1, MadeGroups
  <1>. HIDE DEF gs
  <1>10. ASSUME NEW a \in ToSet(alerts), a \in Sprayed(alerts)
         PROVE  Somewhere(Retyped(a), gs)
    <2>1. PICK ip \in Spraying(alerts) : ip \in a.public
      BY <1>10 DEF Sprayed
    <2>2. PICK n \in 1..Len(ips) : ips[n] = ip
      BY <1>5, InSet
    <2>3. a \in Having(ip)
      BY <2>1
    <2>. HIDE DEF R, Having
    <2>4. Retyped(a) \in ToSet(Those(ips[n]))
      BY <1>4, <2>2, <2>3
    <2>. QED
      BY <1>8, <1>9, <2>4 DEF Somewhere
  <1>. QED
    BY <1>1, <1>9, <1>10

-----------------------------------------------------------------------------
(* Merging.                                                                *)

(* All alerts of some groups, one group after another.                     *)
LEMMA MergedAlertsOK ==
    ASSUME NEW T, NEW gs, gs \in Seq(ToSet(gs)),
           \A n \in 1..Len(gs) : gs[n].alerts \in Seq(T)
    PROVE  /\ MergedAlerts(gs) \in Seq(T)
           /\ \A n \in 1..Len(gs) : ToSet(gs[n].alerts) \subseteq ToSet(MergedAlerts(gs))
  <1>. DEFINE n == Len(gs)
              base == <<>>
              X == Seq(T)
              Op(all, g) == all \o g.alerts
              step == [p \in X \X (1..n) |-> Op(p[1], gs[p[2]])]
              Is(f) == f = [k \in 0..n |-> IF k = 0 THEN <<>> ELSE f[k - 1] \o gs[k].alerts]
  <1>1. n \in Nat /\ base \in X /\ \A k \in 1..n, x \in X : Op(x, gs[k]) \in X
    BY LenProperties, ConcatProperties, EmptySeq
  <1>2. step \in [X \X (1..n) -> X]
    <2>. HIDE DEF n, Op, X
    <2>. QED
      BY <1>1
  <1>3. PICK f : Taken(f, X, base, step, n)
    <2>. HIDE DEF n, step, base, X
    <2>. QED
      BY <1>1, <1>2, FoldSteps
  <1>4. /\ f \in [0..n -> X]
        /\ \A k \in 0..n : f[k] = IF k = 0 THEN base ELSE Op(f[k - 1], gs[k])
    <2>1. \A k \in 1..n : f[k] = Op(f[k - 1], gs[k])
      <3>. HIDE DEF n, Op, X
      <3>. QED
        BY <1>3 DEF Taken
    <2>. HIDE DEF n, step, Op, X
    <2>. QED
      BY <1>1, <1>3, <2>1 DEF Taken
  <1>5. Is(f)
    <2>. HIDE DEF n, step, X
    <2>. QED
      BY <1>4
  <1>6. PICK w : Is(w) /\ MergedAlerts(gs) = w[n]
    BY <1>5 DEF MergedAlerts, Folded
  <1>7. \A k \in 0..n : w[k] = IF k = 0 THEN base ELSE Op(w[k - 1], gs[k])
    <2>. HIDE DEF n
    <2>. QED
      BY <1>6
  <1>. DEFINE Good == {k \in 0..n : /\ w[k] \in X
                                    /\ \A i \in 1..k : ToSet(gs[i].alerts) \subseteq ToSet(w[k])}
  <1>8. 0 \in Good
    <2>1. 0 \in 0..n /\ w[0] = base
      BY <1>1, <1>7
    <2>2. \A i \in 1..0 : FALSE
      OBVIOUS
    <2>. HIDE DEF n, base, X
    <2>. QED
      BY <1>1, <2>1, <2>2
  <1>9. ASSUME NEW k \in 1..n, k - 1 \in Good PROVE k \in Good
    <2>. DEFINE more == gs[k].alerts
    <2>1. w[k] = w[k - 1] \o more /\ w[k - 1] \in X /\ more \in X /\ k \in 0..n
      <3>1. k \in 0..n /\ k # 0 /\ w[k - 1] \in X /\ more \in X
        BY <1>1, <1>9
      <3>. HIDE DEF n, X
      <3>. QED
        BY <1>7, <3>1
    <2>2. /\ w[k] \in X /\ ToSet(w[k - 1]) \subseteq ToSet(w[k]) /\ ToSet(more) \subseteq ToSet(w[k])
      <3>. DEFINE u == w[k - 1]
                  v == w[k]
      <3>1. u \in Seq(T) /\ more \in Seq(T) /\ v = u \o more
        BY <2>1
      <3>. HIDE DEF u, v, more
      <3>2. /\ v \in Seq(T) /\ Len(u) \in Nat /\ Len(more) \in Nat /\ Len(v) = Len(u) + Len(more)
            /\ \A i \in 1..Len(u) : v[i] = u[i]
            /\ \A i \in 1..Len(more) : v[Len(u) + i] = more[i]
        BY <3>1, ConcatProperties, LenProperties
      <3>3. ToSet(u) \subseteq ToSet(v)
        <4>1. \A i \in 1..Len(u) : i \in 1..Len(v)
          BY <3>2
        <4>2. ASSUME NEW x \in ToSet(u) PROVE x \in ToSet(v)
          <5>1. PICK i \in 1..Len(u) : u[i] = x
            BY <3>1, InSet
          <5>2. i \in 1..Len(v) /\ v[i] = x
            BY <3>2, <4>1, <5>1
          <5>. QED
            BY <3>2, <5>2, InSet
        <4>. QED
          BY <4>2
      <3>4. ToSet(more) \subseteq ToSet(v)
        <4>1. \A i \in 1..Len(more) : Len(u) + i \in 1..Len(v)
          BY <3>2
        <4>2. ASSUME NEW x \in ToSet(more) PROVE x \in ToSet(v)
          <5>1. PICK i \in 1..Len(more) : more[i] = x
            BY <3>1, InSet
          <5>2. Len(u) + i \in 1..Len(v) /\ v[Len(u) + i] = x
            BY <3>2, <4>1, <5>1
          <5>. QED
            BY <3>2, <5>2, InSet
        <4>. QED
          BY <4>2
      <3>. QED
        BY <3>2, <3>3, <3>4 DEF u, v
    <2>3. \A i \in 1..k : i = k \/ i \in 1..(k - 1)
      OBVIOUS
    <2>4. \A i \in 1..(k - 1) : ToSet(gs[i].alerts) \subseteq ToSet(w[k - 1])
      BY <1>9
    <2>. HIDE DEF n, X
    <2>. QED
      BY <2>1, <2>2, <2>3, <2>4
  <1>10. n \in Good
    <2>1. \A k \in 0..n : k \in Good
      <3>. HIDE DEF n, Good
      <3>. QED
        BY <1>1, <1>8, <1>9, UpTo
    <2>2. n \in 0..n
      BY <1>1
    <2>. HIDE DEF n, Good
    <2>. QED
      BY <2>1, <2>2
  <1>. QED
    BY <1>6, <1>10

LEMMA OneOfOK ==
    ASSUME NEW T, \A a \in T : IsAlert(a), NEW gs, GroupsOK(gs, T), gs # <<>>
    PROVE  /\ GroupOK(OneOf(gs), T)
           /\ \A n \in 1..Len(gs) : ToSet(gs[n].alerts) \subseteq ToSet(OneOf(gs).alerts)
  <1>. gs \in Seq(ToSet(gs)) /\ \A n \in 1..Len(gs) : GroupOK(gs[n], T)
    BY DEF GroupsOK
  <1>1. DOMAIN gs = 1..Len(gs) /\ Len(gs) \in Nat /\ 1 \in 1..Len(gs)
    BY ListDomain
  <1>2. CASE Len(gs) = 1
    <2>1. \A n \in 1..Len(gs) : n = 1
      BY <1>2
    <2>2. OneOf(gs) = gs[1]
      BY <1>2 DEF OneOf
    <2>. QED
      BY <1>1, <2>1, <2>2
  <1>3. CASE Len(gs) # 1
    <2>. DEFINE all == MergedAlerts(gs)
                g == [gs[1] EXCEPT !.alerts = all]
    <2>1. \A n \in 1..Len(gs) : gs[n].alerts \in Seq(T)
      BY DEF GroupOK
    <2>2. all \in Seq(T) /\ \A n \in 1..Len(gs) : ToSet(gs[n].alerts) \subseteq ToSet(all)
      BY <2>1, MergedAlertsOK
    <2>3. OneOf(gs) = Described(g)
      BY <1>3 DEF OneOf
    <2>4. gs[1].alerts \in Seq(T) /\ gs[1].alerts # <<>> /\ GroupFields \subseteq DOMAIN gs[1]
      BY <1>1 DEF GroupOK
    <2>. HIDE DEF all
    <2>5. GroupFields \subseteq DOMAIN g /\ g.alerts = all
      BY <2>4 DEF GroupFields
    <2>6. all # <<>>
      <3>1. gs[1].alerts[1] \in ToSet(gs[1].alerts)
        BY <2>4, ListDomain
      <3>2. gs[1].alerts[1] \in ToSet(all)
        BY <1>1, <2>2, <3>1
      <3>. QED
        BY <3>2 DEF ToSet
    <2>. HIDE DEF g
    <2>7. GroupOK(Described(g), T) /\ Described(g).alerts = g.alerts
      BY <2>2, <2>5, <2>6, DescribedOK
    <2>. QED
      BY <2>2, <2>3, <2>5, <2>7
  <1>. QED
    BY <1>2, <1>3

LEMMA MergedOK ==
    ASSUME NEW T, \A a \in T : IsAlert(a), NEW gs, GroupsOK(gs, T)
    PROVE  /\ GroupsOK(Merged(gs), T)
           /\ \A a : Somewhere(a, gs) => Somewhere(a, Merged(gs))
  <1>. DEFINE keys == [n \in DOMAIN gs |->
                           IF UserOf(gs[n]) = None THEN <<n>> ELSE MergeKey(gs[n])]
              like == ByKey(gs, keys)
              merged == [n \in DOMAIN like |-> OneOf(like[n])]
              G == ToSet(gs)
  <1>1. Merged(gs) = merged
    BY DEF Merged
  <1>2. gs \in Seq(G) /\ \A n \in 1..Len(gs) : GroupOK(gs[n], T)
    BY DEF GroupsOK
  <1>. HIDE DEF keys
  <1>3. Classes(like, gs, keys)
    <2>. HIDE DEF G
    <2>. QED
      BY <1>2, ByKeyClasses
  <1>. HIDE DEF like
  <1>4. DOMAIN like = 1..Len(like) /\ Len(like) \in Nat
    <2>1. like \in Seq(ToSet(like))
      BY <1>3 DEF Classes
    <2>. QED
      BY <2>1, ListDomain
  <1>5. ASSUME NEW n \in 1..Len(like)
        PROVE  /\ like[n] \in Seq(ToSet(like[n])) /\ like[n] # <<>>
               /\ \A m \in 1..Len(like[n]) : GroupOK(like[n][m], T)
    <2>. DEFINE class == like[n]
    <2>1. PICK i \in 1..Len(gs) : class = At(gs, Like(gs, keys, i))
      BY <1>3 DEF Classes
    <2>2. class \in Seq(G) /\ class # <<>>
      <3>. HIDE DEF G, class
      <3>. QED
        BY <1>2, <2>1, ClassOf
    <2>. HIDE DEF class
    <2>3. /\ DOMAIN class = 1..Len(class) /\ Len(class) \in Nat
          /\ \A m \in 1..Len(class) : class[m] \in G
      <3>. HIDE DEF G
      <3>. QED
        BY <2>2, ListDomain
    <2>4. class \in Seq(ToSet(class))
      <3>1. class = [m \in 1..Len(class) |-> class[m]]
        BY <2>2, <2>3
      <3>2. class \in [1..Len(class) -> ToSet(class)]
        BY <2>3, <3>1 DEF ToSet
      <3>. QED
        BY <2>3, <3>2
    <2>5. \A g \in G : GroupOK(g, T)
      <3>1. TAKE g \in G
      <3>2. PICK k \in 1..Len(gs) : gs[k] = g
        BY <1>2, InSet
      <3>. QED
        BY <1>2, <3>2
    <2>. QED
      BY <2>2, <2>3, <2>4, <2>5 DEF class
  <1>6. \A n \in 1..Len(like) :
            /\ merged[n] = OneOf(like[n])
            /\ GroupOK(merged[n], T)
            /\ \A m \in 1..Len(like[n]) : ToSet(like[n][m].alerts) \subseteq ToSet(merged[n].alerts)
    <2>1. TAKE n \in 1..Len(like)
    <2>2. merged[n] = OneOf(like[n])
      BY <1>4
    <2>. DEFINE class == like[n]
    <2>3. GroupsOK(class, T) /\ class # <<>>
      BY <1>5 DEF GroupsOK
    <2>. HIDE DEF merged, class
    <2>4. /\ GroupOK(OneOf(class), T)
          /\ \A m \in 1..Len(class) : ToSet(class[m].alerts) \subseteq ToSet(OneOf(class).alerts)
      BY <2>3, OneOfOK
    <2>5. merged[n] = OneOf(class)
      BY <2>2 DEF class
    <2>. QED
      BY <2>4, <2>5 DEF class
  <1>7. GroupsOK(merged, T) /\ Len(merged) = Len(like)
    <2>1. merged = [n \in 1..Len(like) |-> merged[n]]
      BY <1>4
    <2>. HIDE DEF merged
    <2>. QED
      BY <1>4, <1>6, <2>1, MadeGroups
  <1>. HIDE DEF merged
  <1>8. ASSUME NEW a, Somewhere(a, gs) PROVE Somewhere(a, merged)
    <2>1. PICK i \in 1..Len(gs) : a \in ToSet(gs[i].alerts)
      BY <1>8 DEF Somewhere
    <2>2. PICK n \in 1..Len(like) : like[n] = At(gs, Like(gs, keys, i))
      BY <1>3 DEF Classes
    <2>3. gs[i] \in ToSet(like[n])
      <3>. HIDE DEF G
      <3>. QED
        BY <1>2, <2>2, ClassOf
    <2>4. PICK m \in 1..Len(like[n]) : like[n][m] = gs[i]
      BY <1>5, <2>3, InSet
    <2>5. a \in ToSet(merged[n].alerts)
      BY <1>6, <2>1, <2>4
    <2>. QED
      BY <1>7, <2>5 DEF Somewhere
  <1>. QED
    BY <1>1, <1>7, <1>8

-----------------------------------------------------------------------------
(* The four passes.                                                        *)

LEMMA ConcatGroups ==
    ASSUME NEW T, NEW gs, NEW hs, GroupsOK(gs, T), GroupsOK(hs, T)
    PROVE  /\ GroupsOK(gs \o hs, T)
           /\ \A a : Somewhere(a, gs) \/ Somewhere(a, hs) => Somewhere(a, gs \o hs)
  <1>. DEFINE G == ToSet(gs) \cup ToSet(hs)
              all == gs \o hs
  <1>1. gs \in Seq(G) /\ hs \in Seq(G)
    <2>1. /\ gs \in Seq(ToSet(gs)) /\ hs \in Seq(ToSet(hs))
      BY DEF GroupsOK
    <2>2. /\ gs \in [1..Len(gs) -> ToSet(gs)] /\ Len(gs) \in Nat
          /\ hs \in [1..Len(hs) -> ToSet(hs)] /\ Len(hs) \in Nat
      BY <2>1, LenProperties
    <2>3. gs \in [1..Len(gs) -> G] /\ hs \in [1..Len(hs) -> G]
      BY <2>2
    <2>. HIDE DEF G
    <2>. QED
      BY <2>2, <2>3
  <1>. HIDE DEF G
  <1>2. /\ all \in Seq(G) /\ Len(gs) \in Nat /\ Len(hs) \in Nat
        /\ Len(all) = Len(gs) + Len(hs)
        /\ \A i \in 1..Len(gs) : all[i] = gs[i]
        /\ \A i \in 1..Len(hs) : all[Len(gs) + i] = hs[i]
    BY <1>1, ConcatProperties, LenProperties
  <1>. HIDE DEF all
  <1>3. \A i \in 1..Len(all) : i \in 1..Len(gs) \/ \E j \in 1..Len(hs) : i = Len(gs) + j
    <2>1. TAKE i \in 1..Len(all)
    <2>2. CASE i <= Len(gs)
      BY <1>2, <2>2
    <2>3. CASE i > Len(gs)
      <3>1. i - Len(gs) \in 1..Len(hs) /\ i = Len(gs) + (i - Len(gs))
        BY <1>2, <2>3
      <3>. QED
        BY <3>1
    <2>. QED
      BY <1>2, <2>2, <2>3
  <1>4. /\ \A i \in 1..Len(gs) : GroupOK(gs[i], T)
        /\ \A i \in 1..Len(hs) : GroupOK(hs[i], T)
    BY DEF GroupsOK
  <1>5. \A i \in 1..Len(all) : GroupOK(all[i], T)
    BY <1>2, <1>3, <1>4
  <1>6. all = [i \in 1..Len(all) |-> all[i]] /\ Len(all) \in Nat
    BY <1>2, LenProperties
  <1>7. GroupsOK(all, T)
    BY <1>5, <1>6, MadeGroups
  <1>8. ASSUME NEW a, Somewhere(a, gs) PROVE Somewhere(a, all)
    <2>1. PICK i \in 1..Len(gs) : a \in ToSet(gs[i].alerts)
      BY <1>8 DEF Somewhere
    <2>2. i \in 1..Len(all) /\ all[i] = gs[i]
      BY <1>2
    <2>. QED
      BY <2>1, <2>2 DEF Somewhere
  <1>9. ASSUME NEW a, Somewhere(a, hs) PROVE Somewhere(a, all)
    <2>1. PICK i \in 1..Len(hs) : a \in ToSet(hs[i].alerts)
      BY <1>9 DEF Somewhere
    <2>2. Len(gs) + i \in 1..Len(all) /\ all[Len(gs) + i] = hs[i]
      BY <1>2
    <2>. QED
      BY <2>1, <2>2 DEF Somewhere
  <1>. QED
    BY <1>7, <1>8, <1>9 DEF all

(* Dropping duplicates keeps true what the group says of its alerts.       *)
LEMMA DedupGroup ==
    ASSUME NEW T, \A a \in T : IsAlert(a), NEW g, GroupOK(g, T)
    PROVE  LET h == [g EXCEPT !.alerts = Dedup(g.alerts)]
           IN  GroupOK(h, T) /\ Spares(h.alerts, g.alerts)
  <1>. DEFINE kept == Dedup(g.alerts)
              h == [g EXCEPT !.alerts = kept]
  <1>1. kept \in Seq(T) /\ Spares(kept, g.alerts)
    BY DedupSpares DEF GroupOK
  <1>. HIDE DEF kept
  <1>2. GroupFields \subseteq DOMAIN h /\ h.alerts = kept /\ h.score = g.score /\ h.sev = g.sev
    BY DEF GroupOK, GroupFields
  <1>. HIDE DEF h
  <1>3. ToSet(g.alerts) \subseteq T
    BY ListDomain DEF GroupOK
  <1>4. PICK a \in ToSet(g.alerts) : g.score = a.score
    BY DEF GroupOK, Says
  <1>5. PICK b \in ToSet(kept) : a.score <= b.score
    BY <1>1, <1>4 DEF Spares
  <1>6. b \in ToSet(g.alerts) /\ b.score <= g.score
    BY <1>1, <1>5 DEF Spares, GroupOK, Says
  <1>7. a.score \in Nat /\ b.score \in Nat
    BY <1>3, <1>4, <1>6 DEF IsAlert
  <1>8. g.score = b.score
    BY <1>4, <1>5, <1>6, <1>7
  <1>9. \A x \in ToSet(kept) : x.score <= g.score /\ x.sev <= g.sev
    BY <1>1 DEF Spares, GroupOK, Says
  <1>10. Says(h)
    BY <1>2, <1>5, <1>8, <1>9 DEF Says
  <1>11. GroupOK(h, T)
    BY <1>1, <1>2, <1>10 DEF GroupOK, Spares
  <1>. QED
    BY <1>1, <1>2, <1>11 DEF h, kept

(* The alert, or its like in a spray, is among these; it may be another    *)
(* that scores no less.                                                    *)
StandsFor(b, a) ==
    /\ a.user = b.user /\ a.src = b.src /\ a.score <= b.score
    /\ a.type = b.type \/ b.type = Spray

LEMMA DedupGroups ==
    ASSUME NEW T, \A a \in T : IsAlert(a), NEW found, GroupsOK(found, T)
    PROVE  LET single == [n \in DOMAIN found |-> [found[n] EXCEPT !.alerts = Dedup(found[n].alerts)]]
           IN  /\ GroupsOK(single, T)
               /\ \A a : Somewhere(a, found) => \E b : /\ Somewhere(b, single)
                                                       /\ Fingerprint(a) = Fingerprint(b)
                                                       /\ a.score <= b.score
  <1>. DEFINE Of(g) == [g EXCEPT !.alerts = Dedup(g.alerts)]
              single == [n \in DOMAIN found |-> Of(found[n])]
  <1>1. DOMAIN found = 1..Len(found) /\ Len(found) \in Nat
    BY ListDomain DEF GroupsOK
  <1>2. \A n \in 1..Len(found) : /\ GroupOK(Of(found[n]), T)
                                 /\ Spares(Of(found[n]).alerts, found[n].alerts)
    <2>1. TAKE n \in 1..Len(found)
    <2>. DEFINE g == found[n]
    <2>2. GroupOK(g, T)
      BY DEF GroupsOK
    <2>. HIDE DEF g
    <2>3. GroupOK(Of(g), T) /\ Spares(Of(g).alerts, g.alerts)
      BY <2>2, DedupGroup
    <2>. QED
      BY <2>3 DEF g
  <1>. HIDE DEF Of
  <1>3. \A n \in 1..Len(found) : single[n] = Of(found[n])
    BY <1>1
  <1>4. GroupsOK(single, T) /\ Len(single) = Len(found)
    <2>1. single = [n \in 1..Len(found) |-> single[n]]
      BY <1>1
    <2>. HIDE DEF single
    <2>2. \A n \in 1..Len(found) : GroupOK(single[n], T)
      BY <1>2, <1>3
    <2>. QED
      BY ONLY <1>1, <2>1, <2>2, MadeGroups
  <1>. HIDE DEF single
  <1>5. ASSUME NEW a, Somewhere(a, found)
        PROVE  \E b : Somewhere(b, single) /\ Fingerprint(a) = Fingerprint(b) /\ a.score <= b.score
    <2>1. PICK n \in 1..Len(found) : a \in ToSet(found[n].alerts)
      BY <1>5 DEF Somewhere
    <2>2. PICK b \in ToSet(Of(found[n]).alerts) : Fingerprint(a) = Fingerprint(b) /\ a.score <= b.score
      BY <1>2, <2>1 DEF Spares
    <2>3. Somewhere(b, single)
      BY <1>3, <1>4, <2>2 DEF Somewhere
    <2>. QED
      BY <2>2, <2>3
  <1>. QED
    BY <1>4, <1>5 DEF single, Of

LEMMA GroupsSound ==
    ASSUME NEW S, \A a \in S : IsAlert(a), NEW alerts \in Seq(S)
    PROVE  /\ GroupsOK(Groups(alerts), S \cup RetypedOf(S))
           /\ \A a \in ToSet(alerts) : \E b : Somewhere(b, Groups(alerts)) /\ StandsFor(b, a)
  <1>. DEFINE R == RetypedOf(S)
              T == S \cup R
              byKey == KeyGroups(alerts)
              sprays == SprayGroups(alerts)
              found == byKey \o sprays
              single == [n \in DOMAIN found |-> [found[n] EXCEPT !.alerts = Dedup(found[n].alerts)]]
  <1>1. \A a \in T : IsAlert(a)
    BY RetypedAlert DEF RetypedOf
  <1>2. Groups(alerts) = Merged(single)
    BY DEF Groups
  <1>3. /\ GroupsOK(byKey, S) /\ GroupsOK(sprays, R)
        /\ \A a \in ToSet(alerts) \ Sprayed(alerts) : Somewhere(a, byKey)
        /\ \A a \in ToSet(alerts) \cap Sprayed(alerts) : Somewhere(Retyped(a), sprays)
    BY KeyGroupsOK, SprayGroupsOK
  <1>. HIDE DEF byKey, sprays, R
  <1>4. GroupsOK(byKey, T) /\ GroupsOK(sprays, T)
    <2>1. S \subseteq T /\ R \subseteq T
      OBVIOUS
    <2>. HIDE DEF T
    <2>. QED
      BY <1>3, <2>1, GroupMore DEF GroupsOK
  <1>. HIDE DEF T
  <1>5. /\ GroupsOK(found, T)
        /\ \A a : Somewhere(a, byKey) \/ Somewhere(a, sprays) => Somewhere(a, found)
    BY <1>4, ConcatGroups
  <1>. HIDE DEF found
  <1>6. /\ GroupsOK(single, T)
        /\ \A a : Somewhere(a, found) => \E b : /\ Somewhere(b, single)
                                                /\ Fingerprint(a) = Fingerprint(b)
                                                /\ a.score <= b.score
    BY <1>1, <1>5, DedupGroups
  <1>. HIDE DEF single
  <1>7. GroupsOK(Merged(single), T) /\ \A a : Somewhere(a, single) => Somewhere(a, Merged(single))
    BY <1>1, <1>6, MergedOK
  <1>8. ASSUME NEW a \in ToSet(alerts)
        PROVE  \E b : Somewhere(b, Groups(alerts)) /\ StandsFor(b, a)
    <2>1. IsAlert(a)
      BY ListDomain
    <2>2. /\ Retyped(a).user = a.user /\ Retyped(a).src = a.src
          /\ Retyped(a).score = a.score /\ Retyped(a).type = Spray
      BY <2>1, RetypedAlert
    <2>3. PICK c : /\ Somewhere(c, found)
                   /\ c.user = a.user /\ c.src = a.src /\ c.score = a.score
                   /\ c.type = a.type \/ c.type = Spray
      <3>1. CASE a \in Sprayed(alerts)
        BY <1>3, <1>5, <2>2, <3>1
      <3>2. CASE a \notin Sprayed(alerts)
        BY <1>3, <1>5, <3>2
      <3>. QED
        BY <3>1, <3>2
    <2>4. PICK b : Somewhere(b, single) /\ Fingerprint(c) = Fingerprint(b) /\ c.score <= b.score
      BY <1>6, <2>3
    <2>5. b.user = c.user /\ b.type = c.type /\ b.src = c.src
      BY <2>4 DEF Fingerprint
    <2>6. StandsFor(b, a)
      BY <2>3, <2>4, <2>5 DEF StandsFor
    <2>. QED
      BY <1>2, <1>7, <2>4, <2>6
  <1>. QED
    BY <1>2, <1>7, <1>8 DEF T, R

-----------------------------------------------------------------------------
(* An upload at work: it reports each row once, its alerts and groups are  *)
(* whole, and the groups account for the alerts.                           *)

IsList(list) == list \in Seq(ToSet(list))

GroupsFit ==
    /\ \E T : GroupsOK(groups, T) /\ \A a \in T : IsAlert(a)
    /\ \A a \in ToSet(enriched) : \E b : Somewhere(b, groups) /\ StandsFor(b, a)

RowsFit ==
    /\ IsList(file) /\ Len(file) <= MaxRows /\ \A r \in ToSet(file) : IsRow(r)
    /\ IsList(enriched) /\ \A a \in ToSet(enriched) : IsAlert(a)
    /\ IsList(results) /\ Len(results) <= MaxRows /\ \A r \in ToSet(results) : r.is \in Outcomes

WorkInv ==
    /\ RowsFit
    /\ pc \in {"idle", "rows", "rule", "groups", "noise"}
    /\ pc = "idle" => at = 1 /\ results = <<>>
    /\ pc \in {"rows", "rule"} => at \in 1..Len(file) + 1 /\ Len(results) = at - 1
    /\ pc = "rule" => at <= Len(file)
    /\ pc \in {"groups", "noise"} => mode = "grouped" /\ GroupsFit /\ at \in 1..Len(groups) + 1
    /\ pc = "noise" => at <= Len(groups)
    /\ pc \in {"rule", "noise"} => mine \in CaseIds
    /\ hits \in [Rules -> Nat] /\ uploads \in 0..MaxUploads /\ acts \in 0..MaxActs

LEMMA EmptyList == IsList(<<>>) /\ Len(<<>>) = 0 /\ ToSet(<<>>) = {}
  <1>1. ToSet(<<>>) = {}
    BY DEF ToSet
  <1>. QED
    BY <1>1, EmptySeq DEF IsList

LEMMA AppendList ==
    ASSUME NEW list, IsList(list), NEW e
    PROVE  /\ IsList(Append(list, e)) /\ Len(Append(list, e)) = Len(list) + 1
           /\ ToSet(Append(list, e)) = ToSet(list) \cup {e} /\ Len(list) \in Nat
  <1>. DEFINE S == ToSet(list) \cup {e}
              more == Append(list, e)
  <1>1. list \in Seq(S)
    <2>1. Len(list) \in Nat /\ list \in [1..Len(list) -> ToSet(list)]
      BY LenProperties DEF IsList
    <2>2. list \in [1..Len(list) -> S]
      BY <2>1
    <2>. HIDE DEF S
    <2>. QED
      BY <2>1, <2>2
  <1>2. e \in S
    OBVIOUS
  <1>. HIDE DEF S
  <1>3. more \in Seq(S) /\ ToSet(more) = ToSet(list) \cup {e} /\ Len(more) = Len(list) + 1 /\ Len(list) \in Nat
    BY <1>1, <1>2, AppendOfSet, AppendProperties, LenProperties
  <1>. QED
    BY <1>3 DEF IsList, S

LEMMA MadeList ==
    ASSUME NEW n \in Nat, NEW list, list = [i \in 1..n |-> list[i]]
    PROVE  /\ IsList(list) /\ Len(list) = n
           /\ \A x : x \in ToSet(list) <=> \E i \in 1..n : list[i] = x
  <1>1. DOMAIN list = 1..n
    OBVIOUS
  <1>2. list \in [1..n -> ToSet(list)]
    BY <1>1 DEF ToSet
  <1>3. list \in Seq(ToSet(list))
    BY <1>2
  <1>4. Len(list) = n
    BY <1>1, <1>3, LenProperties
  <1>. QED
    BY <1>1, <1>3, <1>4 DEF IsList, ToSet

(* The rows an upload starts with.                                         *)
LEMMA RowsOfFile ==
    ASSUME NEW r \in Requests
    PROVE  LET rows == Resolved(Truncated(Parsed(r.content)))
           IN  IsList(rows) /\ Len(rows) <= MaxRows /\ \A x \in ToSet(rows) : IsRow(x)
  <1>. DEFINE all == Parsed(r.content)
              some == Truncated(all)
              rows == Resolved(some)
              n == Min({Len(all), MaxRows})
  <1>1. ParserOf(r.content) \in Parsers
    BY DEF ParserOf, Parsers
  <1>2. AreRows(all)
    BY <1>1, UploadAssumption DEF Parsed
  <1>. HIDE DEF all
  <1>3. Len(all) \in Nat /\ MaxRows \in Nat
    BY <1>2, UploadAssumption DEF AreRows
  <1>4. n \in Nat /\ n <= Len(all) /\ n <= MaxRows
    <2>1. \E m \in {Len(all), MaxRows} : \A k \in {Len(all), MaxRows} : m <= k
      BY <1>3
    <2>. QED
      BY <1>3, <2>1 DEF Min
  <1>5. some = SubSeq(all, 1, n)
    BY DEF Truncated
  <1>. HIDE DEF n
  <1>6. some = [i \in 1..n |-> all[i]]
    <2>1. all \in Seq(ToSet(all))
      BY <1>2, MadeList DEF AreRows, IsList
    <2>. HIDE DEF some
    <2>. QED
      BY <1>3, <1>4, <1>5, <2>1
  <1>7. \A i \in 1..n : IsRow(all[i])
    BY <1>2, <1>3, <1>4 DEF AreRows
  <1>. HIDE DEF some
  <1>8. rows = [i \in 1..n |-> rows[i]]
    BY <1>6 DEF Resolved
  <1>9. \A i \in 1..n : IsRow(rows[i])
    <2>1. TAKE i \in 1..n
    <2>. DEFINE x == all[i]
                u == IF x.upn # None \/ x.user # None THEN x.upn
                     ELSE Or(OwnerOf(some, "device", x.device), OwnerOf(some, "ip", x.ip))
    <2>2. rows[i] = [x EXCEPT !.upn = u]
      BY <1>6 DEF Resolved
    <2>. HIDE DEF u
    <2>. QED
      BY <1>7, <2>2 DEF IsRow, RowFields
  <1>. HIDE DEF rows
  <1>10. IsList(rows) /\ Len(rows) = n /\ \A x \in ToSet(rows) : IsRow(x)
    BY <1>4, <1>8, <1>9, MadeList
  <1>. QED
    BY <1>4, <1>10 DEF rows, some, all

LEMMA EnrichedOK ==
    ASSUME NEW r, IsRow(r), NEW s \in r.scores
    PROVE  IsAlert(Enriched(r, s))
  <1>. DEFINE e == Enriched(r, s)
  <1>1. DOMAIN e = DOMAIN r \cup {"score", "row"} /\ e.score = s
    BY DEF Enriched
  <1>2. e.public = r.public /\ e.sev = r.sev
    BY DEF Enriched, IsRow, RowFields
  <1>. HIDE DEF e
  <1>3. RowFields \cup {"score", "row"} \subseteq DOMAIN e
    BY <1>1 DEF IsRow
  <1>4. IsFiniteSet(e.public) /\ e.sev \in Nat /\ e.score \in Nat
    BY <1>1, <1>2 DEF IsRow
  <1>. QED
    BY <1>3, <1>4 DEF IsAlert, e

LEMMA RowAt ==
    ASSUME RowsFit, at \in 1..Len(file)
    PROVE  IsRow(file[at]) /\ Len(file) \in Nat
  BY ListDomain DEF RowsFit, IsList

(* A row is reported.                                                      *)
LEMMA ReportStep ==
    ASSUME WorkInv, pc \in {"rows", "rule"}, at <= Len(file), NEW r, r.is \in Outcomes, Report(r)
    PROVE  /\ IsList(results') /\ Len(results') <= MaxRows /\ Len(results') = at
           /\ \A x \in ToSet(results') : x.is \in Outcomes
           /\ at + 1 \in 1..Len(file) + 1
  <1>1. IsList(results) /\ results' = Append(results, r) /\ \A x \in ToSet(results) : x.is \in Outcomes
    BY DEF WorkInv, RowsFit, Report
  <1>2. /\ IsList(results') /\ Len(results') = Len(results) + 1 /\ Len(results) \in Nat
        /\ ToSet(results') = ToSet(results) \cup {r}
    BY <1>1, AppendList
  <1>3. Len(results) = at - 1 /\ at \in 1..Len(file) + 1 /\ Len(file) <= MaxRows
    BY DEF WorkInv, RowsFit
  <1>4. Len(file) \in Nat /\ MaxRows \in Nat
    BY LenProperties, UploadAssumption DEF WorkInv, RowsFit, IsList
  <1>. QED
    BY <1>1, <1>2, <1>3, <1>4

(* An alert is added.                                                      *)
LEMMA EnrichedStep ==
    ASSUME WorkInv, at \in 1..Len(file), NEW s \in file[at].scores,
           enriched' = Append(enriched, Enriched(file[at], s))
    PROVE  IsList(enriched') /\ \A a \in ToSet(enriched') : IsAlert(a)
  <1>1. IsRow(file[at])
    BY RowAt DEF WorkInv
  <1>2. IsAlert(Enriched(file[at], s))
    BY <1>1, EnrichedOK
  <1>3. IsList(enriched) /\ \A a \in ToSet(enriched) : IsAlert(a)
    BY DEF WorkInv, RowsFit
  <1>. QED
    BY <1>2, <1>3, AppendList

-----------------------------------------------------------------------------
(* The steps of an upload.                                                 *)

LEMMA WorkStays ==
    ASSUME WorkInv, UNCHANGED <<hits, file, mode, pc, at, enriched, groups, results, mine, uploads>>,
           acts' \in 0..MaxActs
    PROVE  WorkInv'
  BY DEF WorkInv, RowsFit, GroupsFit, IsList, IsRow, IsAlert, RowFields, Somewhere, StandsFor

LEMMA EndStep == ASSUME WorkInv, End PROVE WorkInv'
  <1>1. /\ pc' = "idle" /\ at' = 1 /\ results' = <<>> /\ file' = <<>> /\ enriched' = <<>>
        /\ hits' = hits /\ uploads' = uploads /\ acts' = acts
    BY DEF End, dbVars
  <1>2. MaxRows \in Nat
    BY UploadAssumption
  <1>3. RowsFit'
    BY <1>1, <1>2, EmptyList DEF RowsFit
  <1>. QED
    BY <1>1, <1>3 DEF WorkInv

LEMMA StartStep == ASSUME WorkInv, NEW r \in Requests, Start(r) PROVE WorkInv'
  <1>. DEFINE rows == Resolved(Truncated(Parsed(r.content)))
  <1>1. /\ pc = "idle" /\ pc' = "rows" /\ file' = rows /\ uploads' = uploads + 1 /\ uploads < MaxUploads
        /\ UNCHANGED <<hits, at, enriched, results, acts>>
    BY DEF Start, dbVars
  <1>2. IsList(rows) /\ Len(rows) <= MaxRows /\ \A x \in ToSet(rows) : IsRow(x)
    BY RowsOfFile
  <1>. HIDE DEF rows
  <1>3. RowsFit'
    BY <1>1, <1>2 DEF WorkInv, RowsFit
  <1>4. at' = 1 /\ Len(results') = 0 /\ at' \in 1..Len(file') + 1
    <2>1. Len(rows) \in Nat
      BY <1>2, LenProperties DEF IsList
    <2>. QED
      BY <1>1, <2>1, EmptyList DEF WorkInv
  <1>5. uploads' \in 0..MaxUploads
    BY <1>1, UploadAssumption DEF WorkInv
  <1>. QED
    BY <1>1, <1>3, <1>4, <1>5 DEF WorkInv

(* A row is done: it is reported, and perhaps enriched.                    *)
LEMMA RowDone ==
    ASSUME WorkInv, pc \in {"rows", "rule"}, at <= Len(file), NEW r, r.is \in Outcomes, Report(r),
           at' = at + 1, pc' = "rows", hits' \in [Rules -> Nat],
           UNCHANGED <<file, uploads, acts>>,
           IsList(enriched'), \A a \in ToSet(enriched') : IsAlert(a)
    PROVE  WorkInv'
  <1>1. /\ IsList(results') /\ Len(results') <= MaxRows /\ Len(results') = at
        /\ \A x \in ToSet(results') : x.is \in Outcomes
        /\ at + 1 \in 1..Len(file) + 1
    BY ReportStep
  <1>2. RowsFit'
    BY <1>1 DEF WorkInv, RowsFit
  <1>3. at \in Nat /\ (at + 1) - 1 = at
    <2>1. at \in 1..Len(file) + 1
      BY DEF WorkInv
    <2>. QED
      BY <2>1
  <1>4. uploads' \in 0..MaxUploads /\ acts' \in 0..MaxActs
    BY DEF WorkInv
  <1>. QED
    BY <1>1, <1>2, <1>3, <1>4 DEF WorkInv

LEMMA RowStepWork == ASSUME WorkInv, Row PROVE WorkInv'
  <1>1. pc = "rows" /\ at <= Len(file) /\ at \in 1..Len(file) /\ Len(file) \in Nat
    <2>1. pc = "rows" /\ at <= Len(file)
      BY DEF Row, SkipRow, FailRow, EnrichRow, StoreRow, Usable, AtRow
    <2>2. Len(file) \in Nat
      BY LenProperties DEF WorkInv, RowsFit, IsList
    <2>. QED
      BY <2>1, <2>2 DEF WorkInv
  <1>2. IsList(enriched) /\ (\A a \in ToSet(enriched) : IsAlert(a)) /\ hits \in [Rules -> Nat]
    BY DEF WorkInv, RowsFit
  <1>3. CASE SkipRow
    <2>. DEFINE r == [is |-> "skipped", case |-> NoCase]
    <2>1. r.is \in Outcomes
      BY DEF Outcomes
    <2>2. Report(r) /\ at' = at + 1 /\ UNCHANGED <<hits, file, uploads, acts, pc, enriched>>
      BY <1>3 DEF SkipRow, dbVars, request
    <2>. HIDE DEF r
    <2>. QED
      BY <1>1, <1>2, <2>1, <2>2, RowDone
  <1>4. CASE FailRow
    <2>. DEFINE r == [is |-> "failed", case |-> NoCase]
    <2>1. r.is \in Outcomes
      BY DEF Outcomes
    <2>2. Report(r) /\ at' = at + 1 /\ UNCHANGED <<hits, file, uploads, acts, pc, enriched>>
      BY <1>4 DEF FailRow, dbVars, request
    <2>. HIDE DEF r
    <2>. QED
      BY <1>1, <1>2, <2>1, <2>2, RowDone
  <1>5. CASE EnrichRow
    <2>. DEFINE r == [is |-> "enriched", case |-> NoCase]
    <2>1. r.is \in Outcomes
      BY DEF Outcomes
    <2>2. Report(r) /\ at' = at + 1 /\ UNCHANGED <<hits, file, uploads, acts, pc>>
      BY <1>5 DEF EnrichRow, dbVars, request
    <2>3. PICK s \in file[at].scores : enriched' = Append(enriched, Enriched(file[at], s))
      BY <1>5 DEF EnrichRow
    <2>4. IsList(enriched') /\ \A a \in ToSet(enriched') : IsAlert(a)
      BY <1>1, <2>3, EnrichedStep
    <2>. HIDE DEF r
    <2>. QED
      BY <1>1, <1>2, <2>1, <2>2, <2>4, RowDone
  <1>6. CASE StoreRow
    <2>1. PICK s \in file[at].scores : enriched' = Append(enriched, Enriched(file[at], s))
      BY <1>6 DEF StoreRow
    <2>2. IsList(enriched') /\ \A a \in ToSet(enriched') : IsAlert(a)
      BY <1>1, <2>1, EnrichedStep
    <2>3. CASE mode = "single"
      <3>1. pc' = "rule" /\ UNCHANGED <<results, at, hits, file, uploads, acts>>
        BY <1>6, <2>3 DEF StoreRow, request
      <3>2. mine' \in CaseIds
        BY <1>6 DEF StoreRow, Put, BySource, Live
      <3>3. RowsFit'
        BY <2>2, <3>1 DEF WorkInv, RowsFit
      <3>. QED
        BY <1>1, <3>1, <3>2, <3>3 DEF WorkInv
    <2>4. CASE mode # "single"
      <3>. DEFINE r == [is |-> "enriched", case |-> mine']
      <3>1. Report(r) /\ at' = at + 1 /\ UNCHANGED <<pc, hits, file, uploads, acts>>
        BY <1>6, <2>4 DEF StoreRow, request
      <3>2. r.is \in Outcomes
        BY DEF Outcomes
      <3>. HIDE DEF r
      <3>. QED
        BY <1>1, <1>2, <2>2, <3>1, <3>2, RowDone
    <2>. QED
      BY <2>3, <2>4
  <1>. QED
    BY <1>3, <1>4, <1>5, <1>6 DEF Row

LEMMA HitCounted ==
    ASSUME hits \in [Rules -> Nat], NEW r \in Rules
    PROVE  [hits EXCEPT ![r] = @ + 1] \in [Rules -> Nat]
  OBVIOUS

LEMMA RuleStepWork == ASSUME WorkInv, Rule PROVE WorkInv'
  <1>1. pc = "rule" /\ at <= Len(file) /\ hits \in [Rules -> Nat]
    BY DEF Rule, ApplyRule, NoRule, RuleFails, WorkInv
  <1>2. IsList(enriched) /\ \A a \in ToSet(enriched) : IsAlert(a)
    BY DEF WorkInv, RowsFit
  <1>3. /\ pc' = "rows" /\ at' = at + 1 /\ UNCHANGED <<file, uploads, acts, enriched>>
    BY DEF Rule, ApplyRule, NoRule, RuleFails, request
  <1>4. hits' \in [Rules -> Nat]
    <2>1. \A a : \A r \in Matching(a) : r \in Rules
      BY DEF Matching
    <2>. QED
      BY <1>1, <2>1, HitCounted DEF Rule, ApplyRule, NoRule, RuleFails, dbVars
  <1>5. PICK r : r.is \in Outcomes /\ Report(r)
    <2>. DEFINE good == [is |-> "enriched", case |-> mine]
                bad == [is |-> "failed", case |-> NoCase]
    <2>1. good.is \in Outcomes /\ bad.is \in Outcomes
      BY DEF Outcomes
    <2>2. Report(good) \/ Report(bad)
      BY DEF Rule, ApplyRule, NoRule, RuleFails
    <2>. HIDE DEF good, bad
    <2>. QED
      BY <2>1, <2>2
  <1>. QED
    BY <1>1, <1>2, <1>3, <1>4, <1>5, RowDone

LEMMA GroupStepWork == ASSUME WorkInv, GroupAlerts PROVE WorkInv'
  <1>1. /\ mode = "grouped" /\ groups' = Groups(enriched) /\ pc' = "groups" /\ at' = 1
        /\ UNCHANGED <<hits, file, mode, enriched, results, uploads, acts>>
    BY DEF GroupAlerts, dbVars, request
  <1>. DEFINE S == ToSet(enriched)
              T == S \cup RetypedOf(S)
  <1>2. (\A a \in S : IsAlert(a)) /\ enriched \in Seq(S)
    BY DEF WorkInv, RowsFit, IsList
  <1>3. \A a \in T : IsAlert(a)
    BY <1>2, RetypedAlert DEF RetypedOf
  <1>. HIDE DEF T
  <1>4. /\ GroupsOK(Groups(enriched), T)
        /\ \A a \in S : \E b : Somewhere(b, Groups(enriched)) /\ StandsFor(b, a)
    <2>. HIDE DEF S
    <2>. QED
      BY <1>2, GroupsSound DEF S, T
  <1>. HIDE DEF S
  <1>5. GroupsFit'
    BY <1>1, <1>3, <1>4 DEF GroupsFit, S
  <1>6. Len(groups') \in Nat
    <2>1. Groups(enriched) \in Seq(ToSet(Groups(enriched)))
      BY <1>4 DEF GroupsOK
    <2>. QED
      BY <1>1, <2>1, LenProperties
  <1>7. RowsFit'
    BY <1>1 DEF WorkInv, RowsFit
  <1>. QED
    BY <1>1, <1>5, <1>6, <1>7 DEF WorkInv

LEMMA LaterStepWork ==
    ASSUME WorkInv, StoreGroup \/ CloseNoise \/ KeepGroup
    PROVE  WorkInv'
  <1>1. /\ RowsFit /\ GroupsFit /\ mode = "grouped" /\ at \in 1..Len(groups) + 1
        /\ hits \in [Rules -> Nat] /\ uploads \in 0..MaxUploads /\ acts \in 0..MaxActs
    BY DEF WorkInv, StoreGroup, CloseNoise, KeepGroup
  <1>2. UNCHANGED <<hits, file, mode, uploads, acts, enriched, groups, results>>
    BY DEF StoreGroup, CloseNoise, KeepGroup, dbVars, request
  <1>3. RowsFit' /\ GroupsFit'
    BY <1>1, <1>2 DEF RowsFit, GroupsFit
  <1>4. Len(groups) \in Nat
    BY <1>1, ListDomain DEF GroupsFit, GroupsOK
  <1>5. CASE StoreGroup
    <2>1. pc' = "noise" /\ at' = at /\ at <= Len(groups)
      BY <1>5 DEF StoreGroup
    <2>2. mine' \in CaseIds
      BY <1>5 DEF StoreGroup, Put, BySource, InWindow, Live
    <2>. QED
      BY <1>1, <1>2, <1>3, <2>1, <2>2 DEF WorkInv
  <1>6. CASE CloseNoise \/ KeepGroup
    <2>1. pc = "noise" /\ pc' = "groups" /\ at' = at + 1
      BY <1>6 DEF CloseNoise, KeepGroup
    <2>2. at' \in 1..Len(groups') + 1
      BY <1>1, <1>2, <1>4, <2>1 DEF WorkInv
    <2>. QED
      BY <1>1, <1>2, <1>3, <2>1, <2>2 DEF WorkInv
  <1>. QED
    BY <1>5, <1>6

LEMMA OthersStepWork ==
    ASSUME WorkInv, NEW c \in CaseIds, Delete(c) \/ \E s \in {"benign", "threat"} : Decide(c, s)
    PROVE  WorkInv'
  <1>1. /\ acts' = acts + 1 /\ acts < MaxActs
        /\ UNCHANGED <<hits, file, mode, pc, at, enriched, groups, results, mine, uploads>>
    BY DEF Delete, Decide, Act
  <1>2. acts' \in 0..MaxActs
    BY <1>1, UploadAssumption DEF WorkInv
  <1>. QED
    BY <1>1, <1>2, WorkStays

LEMMA WorkStep == WorkInv /\ [Next]_vars => WorkInv'
  <1> SUFFICES ASSUME WorkInv, [Next]_vars PROVE WorkInv'
    OBVIOUS
  <1>1. CASE UNCHANGED vars
    <2>1. acts' \in 0..MaxActs
      BY <1>1 DEF WorkInv, vars
    <2>. QED
      BY <1>1, <2>1, WorkStays DEF vars
  <1>2. CASE GroupFails \/ Finish \/ Crash
    BY <1>2, EndStep DEF GroupFails, Finish, Crash
  <1>. QED
    BY <1>1, <1>2, StartStep, RowStepWork, RuleStepWork, GroupStepWork, LaterStepWork, OthersStepWork
    DEF Next

LEMMA WorkInit == Init => WorkInv
  <1>1. MaxRows \in Nat /\ 0 \in 0..MaxUploads /\ 0 \in 0..MaxActs
    BY UploadAssumption
  <1>2. Init => RowsFit
    BY <1>1, EmptyList DEF Init, RowsFit
  <1>. QED
    BY <1>1, <1>2 DEF Init, WorkInv

-----------------------------------------------------------------------------
(* The cases.                                                              *)

CaseFields == {"sources", "rows", "status", "by", "sev"}

Untimed(x) == \E r \in x.rows : r[1][r[2]].at = None

SameRows(x, y) ==
    {Len(k) : k \in x.sources} = {Len(k) : k \in y.sources} /\ x.rows = y.rows

(* The identity of a row: its position, or file, position and time.        *)
OfBatch(x) == \E f, i : x.rows = {<<f, i>>} /\ x.sources = {<<i>>}

TiedToFile(sources, rows) ==
    /\ sources # {} /\ rows # {}
    /\ \A k \in sources : \E f, i, t : /\ k = <<f, i, t>> /\ <<f, i>> \in rows
                                       /\ f[i].at # None => t = f[i].at
    /\ \A r \in rows : \E f, i : /\ r = <<f, i>>
                                 /\ f[i].at # None => <<f, i, f[i].at>> \in sources

OfFile(x) == TiedToFile(x.sources, x.rows)

CaseOK(x) ==
    /\ CaseFields \subseteq DOMAIN x
    /\ x.status \in {"open", "benign", "threat"}
    /\ x.by \in {"nobody", "analyst", "rule", "noise"}
    /\ OfBatch(x) \/ OfFile(x)

CasesInv ==
    /\ DOMAIN cases = CaseIds
    /\ \A c \in Live : CaseOK(cases[c])
    /\ ReuploadDeduplicates

LEMMA Lengths ==
    ASSUME NEW x
    PROVE  /\ OfBatch(x) => {Len(k) : k \in x.sources} = {1}
           /\ OfFile(x) => {Len(k) : k \in x.sources} = {3}
  <1>1. ASSUME OfBatch(x) PROVE {Len(k) : k \in x.sources} = {1}
    <2>1. PICK i : x.sources = {<<i>>}
      BY <1>1 DEF OfBatch
    <2>2. Len(<<i>>) = 1
      OBVIOUS
    <2>. QED
      BY <2>1, <2>2
  <1>2. ASSUME OfFile(x) PROVE {Len(k) : k \in x.sources} = {3}
    <2>1. \A k \in x.sources : Len(k) = 3
      <3>1. TAKE k \in x.sources
      <3>2. PICK f, i, t : /\ k = <<f, i, t>> /\ <<f, i>> \in x.rows
                           /\ f[i].at # None => t = f[i].at
        BY <1>2 DEF OfFile, TiedToFile
      <3>3. Len(<<f, i, t>>) = 3
        OBVIOUS
      <3>. QED
        BY <3>2, <3>3
    <2>2. x.sources # {}
      BY <1>2 DEF OfFile, TiedToFile
    <2>. QED
      BY <2>1, <2>2
  <1>. QED
    BY <1>1, <1>2

(* Cases of the same timed rows share all their identities.                *)
LEMMA SameIdentities ==
    ASSUME NEW x, NEW y, OfBatch(x) \/ OfFile(x), OfBatch(y) \/ OfFile(y), SameRows(x, y), ~Untimed(x),
           NEW k \in x.sources
    PROVE  k \in y.sources
  <1>1. CASE OfBatch(x)
    <2>1. OfBatch(y)
      BY <1>1, Lengths DEF SameRows
    <2>2. PICK f, i : x.rows = {<<f, i>>} /\ x.sources = {<<i>>}
      BY <1>1 DEF OfBatch
    <2>3. PICK g, j : y.rows = {<<g, j>>} /\ y.sources = {<<j>>}
      BY <2>1 DEF OfBatch
    <2>4. <<f, i>> = <<g, j>>
      BY <2>2, <2>3 DEF SameRows
    <2>. QED
      BY <2>2, <2>3, <2>4
  <1>2. CASE OfFile(x)
    <2>1. OfFile(y)
      BY <1>2, Lengths DEF SameRows
    <2>2. PICK f, i, t : /\ k = <<f, i, t>> /\ <<f, i>> \in x.rows
                         /\ f[i].at # None => t = f[i].at
      BY <1>2 DEF OfFile, TiedToFile
    <2>3. f[i].at # None
      <3>1. <<f, i>>[1] = f /\ <<f, i>>[2] = i
        OBVIOUS
      <3>. QED
        BY <2>2, <3>1 DEF Untimed
    <2>4. <<f, i>> \in y.rows
      BY <2>2 DEF SameRows
    <2>5. PICK g, j : <<f, i>> = <<g, j>> /\ (g[j].at # None => <<g, j, g[j].at>> \in y.sources)
      BY <2>1, <2>4 DEF OfFile, TiedToFile
    <2>6. f = g /\ i = j
      BY <2>5
    <2>. QED
      BY <2>2, <2>3, <2>5, <2>6
  <1>. QED
    BY <1>1, <1>2

LEMMA CasesStay == ASSUME CasesInv, UNCHANGED cases PROVE CasesInv'
  BY DEF CasesInv, Live, ReuploadDeduplicates, SameRoute

(* One row is written; it says the same of its rows as no other timed one. *)
LEMMA CaseWritten ==
    ASSUME CasesInv, NEW c \in CaseIds, NEW row, cases' = [cases EXCEPT ![c] = row],
           row \notin {NoCase, Gone} =>
               /\ CaseOK(row)
               /\ \A d \in Live : d # c /\ SameRows(row, cases[d]) => Untimed(row)
    PROVE  CasesInv'
  <1>1. /\ DOMAIN cases' = CaseIds /\ cases'[c] = row
        /\ \A d \in CaseIds : d # c => cases'[d] = cases[d]
    BY DEF CasesInv
  <1>2. \A d \in Live' : d # c => d \in Live /\ cases'[d] = cases[d]
    BY <1>1 DEF Live
  <1>3. c \in Live' => row \notin {NoCase, Gone}
    BY <1>1 DEF Live
  <1>4. \A d \in Live' : CaseOK(cases'[d])
    BY <1>1, <1>2, <1>3 DEF CasesInv
  <1>5. \A d, e \in Live : d # e /\ SameRows(cases[d], cases[e]) => Untimed(cases[d])
    BY DEF CasesInv, ReuploadDeduplicates, SameRows, SameRoute, Untimed
  <1>6. ASSUME NEW d \in Live', NEW e \in Live', d # e, SameRows(cases'[d], cases'[e])
        PROVE  Untimed(cases'[d])
    <2>1. CASE d = c
      <3>1. e \in Live /\ cases'[e] = cases[e] /\ cases'[d] = row
        BY <1>1, <1>2, <1>6, <2>1
      <3>. QED
        BY <1>3, <1>6, <2>1, <3>1
    <2>2. CASE e = c
      <3>1. d \in Live /\ cases'[d] = cases[d] /\ cases'[e] = row
        BY <1>1, <1>2, <1>6, <2>2
      <3>2. SameRows(row, cases[d])
        BY <1>6, <3>1 DEF SameRows
      <3>3. Untimed(row)
        BY <1>3, <1>6, <2>2, <3>1, <3>2
      <3>. QED
        BY <3>1, <3>2, <3>3 DEF SameRows, Untimed
    <2>3. CASE d # c /\ e # c
      BY <1>2, <1>5, <1>6, <2>3
    <2>. QED
      BY <2>1, <2>2, <2>3
  <1>7. ReuploadDeduplicates'
    BY <1>6 DEF ReuploadDeduplicates, SameRows, SameRoute, Untimed
  <1>. QED
    BY <1>1, <1>4, <1>7 DEF CasesInv

(* Columns are overwritten that say nothing of the rows.                   *)
LEMMA CaseDecided ==
    ASSUME CasesInv, NEW c \in Live, NEW status \in {"open", "benign", "threat"},
           NEW who \in {"nobody", "analyst", "rule", "noise"}, NEW row,
           row = [[cases[c] EXCEPT !.status = status] EXCEPT !.by = who],
           cases' = [cases EXCEPT ![c] = row]
    PROVE  CasesInv'
  <1>1. CaseOK(cases[c]) /\ c \in CaseIds
    BY DEF CasesInv, Live
  <1>2. /\ CaseFields \subseteq DOMAIN row
        /\ row.status = status /\ row.by = who
        /\ row.sources = cases[c].sources /\ row.rows = cases[c].rows
    BY <1>1 DEF CaseOK, CaseFields
  <1>3. CaseOK(row)
    <2>1. OfBatch(cases[c]) => OfBatch(row)
      BY <1>2 DEF OfBatch
    <2>2. OfFile(cases[c]) => OfFile(row)
      BY <1>2 DEF OfFile
    <2>. QED
      BY <1>1, <1>2, <2>1, <2>2 DEF CaseOK
  <1>4. \A d \in Live : d # c /\ SameRows(row, cases[d]) => Untimed(row)
    BY <1>2 DEF CasesInv, ReuploadDeduplicates, SameRows, SameRoute, Untimed
  <1>. QED
    BY <1>1, <1>3, <1>4, CaseWritten

(* A case is only new when no live one has an identity of its own.         *)
LEMMA CasePut ==
    ASSUME CasesInv, NEW existing, NEW new, NEW k \in new.sources, Put(existing, new),
           existing = {} => BySource(k) = {}, CaseOK(new)
    PROVE  CasesInv'
  <1>1. CASE UNCHANGED cases
    BY <1>1, CasesStay
  <1>2. CASE ~UNCHANGED cases
    <2>1. existing = {} /\ \E c \in CaseIds : cases' = [cases EXCEPT ![c] = new]
      BY <1>2 DEF Put
    <2>2. PICK c \in CaseIds : cases' = [cases EXCEPT ![c] = new]
      BY <2>1
    <2>3. \A d \in Live : k \notin cases[d].sources
      BY <2>1 DEF BySource
    <2>4. \A d \in Live : SameRows(new, cases[d]) => Untimed(new)
      <3>1. TAKE d \in Live
      <3>. DEFINE old == cases[d]
      <3>2. OfBatch(old) \/ OfFile(old)
        BY DEF CasesInv, CaseOK
      <3>3. OfBatch(new) \/ OfFile(new)
        BY DEF CaseOK
      <3>4. k \notin old.sources
        BY <2>3
      <3>. HIDE DEF old
      <3>. QED
        BY <3>2, <3>3, <3>4, SameIdentities DEF old
    <2>. QED
      BY <2>2, <2>4, CaseWritten
  <1>. QED
    BY <1>1, <1>2

(* The cases that are stored.                                              *)
LEMMA NewCaseOK ==
    ASSUME NEW s
    PROVE  CaseOK(NewCase(file[at], s)) /\ SourceId(at) \in NewCase(file[at], s).sources
  <1>. DEFINE new == NewCase(file[at], s)
  <1>1. /\ new.sources = {SourceId(at)} /\ new.rows = {<<file, at>>}
        /\ new.status = "open" /\ new.by = "nobody" /\ CaseFields \subseteq DOMAIN new
    BY DEF NewCase, CaseFields
  <1>. HIDE DEF new
  <1>2. CASE mode = "batch"
    <2>1. new.sources = {<<at>>}
      BY <1>1, <1>2 DEF SourceId
    <2>2. OfBatch(new)
      BY <1>1, <2>1 DEF OfBatch
    <2>. QED
      BY <1>1, <2>2 DEF CaseOK, new
  <1>3. CASE mode # "batch"
    <2>. DEFINE t == EventTime(file[at])
    <2>1. SourceId(at) = <<file, at, t>> /\ (file[at].at # None => t = file[at].at)
      BY <1>3 DEF SourceId, EventTime
    <2>. HIDE DEF t
    <2>2. OfFile(new)
      BY <1>1, <2>1 DEF OfFile, TiedToFile
    <2>. QED
      BY <1>1, <2>2 DEF CaseOK, new
  <1>. QED
    BY <1>2, <1>3

LEMMA GroupCaseOK ==
    ASSUME NEW g, NEW T, GroupOK(g, T), mode = "grouped", NEW rich
    PROVE  /\ CaseOK(GroupCase(g, rich))
           /\ SourceId(g.alerts[1].row) \in GroupCase(g, rich).sources
  <1>. DEFINE new == GroupCase(g, rich)
              D == DOMAIN g.alerts
              n(i) == g.alerts[i].row
  <1>1. /\ new.sources = {SourceId(n(i)) : i \in D} /\ new.rows = {<<file, n(i)>> : i \in D}
        /\ new.status = "open" /\ new.by = "nobody" /\ CaseFields \subseteq DOMAIN new
    BY DEF GroupCase, CaseFields
  <1>2. 1 \in D
    BY ListDomain DEF GroupOK
  <1>. HIDE DEF new, D, n
  <1>3. \A i \in D : /\ SourceId(n(i)) = <<file, n(i), EventTime(file[n(i)])>>
                     /\ file[n(i)].at # None => EventTime(file[n(i)]) = file[n(i)].at
    BY DEF SourceId, EventTime
  <1>4. \A k \in new.sources : \E f, i, t : /\ k = <<f, i, t>> /\ <<f, i>> \in new.rows
                                            /\ f[i].at # None => t = f[i].at
    <2>1. TAKE k \in new.sources
    <2>2. PICK i \in D : k = SourceId(n(i))
      BY <1>1
    <2>3. /\ k = <<file, n(i), EventTime(file[n(i)])>> /\ <<file, n(i)>> \in new.rows
          /\ file[n(i)].at # None => EventTime(file[n(i)]) = file[n(i)].at
      BY <1>1, <1>3, <2>2
    <2>. QED
      BY <2>3
  <1>5. \A r \in new.rows : \E f, i : /\ r = <<f, i>>
                                      /\ f[i].at # None => <<f, i, f[i].at>> \in new.sources
    <2>1. TAKE r \in new.rows
    <2>2. PICK i \in D : r = <<file, n(i)>>
      BY <1>1
    <2>3. file[n(i)].at # None => <<file, n(i), file[n(i)].at>> \in new.sources
      BY <1>1, <1>3
    <2>. QED
      BY <2>2, <2>3
  <1>6. new.sources # {} /\ new.rows # {} /\ SourceId(n(1)) \in new.sources
    BY <1>1, <1>2
  <1>7. OfFile(new)
    BY <1>4, <1>5, <1>6 DEF OfFile, TiedToFile
  <1>. QED
    BY <1>1, <1>6, <1>7 DEF CaseOK, new, n

LEMMA StoreRowCases == ASSUME CasesInv, StoreRow PROVE CasesInv'
  <1>. DEFINE k == SourceId(at)
  <1>1. PICK s : Put(BySource(k), NewCase(file[at], s))
    BY DEF StoreRow
  <1>. DEFINE new == NewCase(file[at], s)
              existing == BySource(k)
  <1>2. k \in new.sources /\ CaseOK(new)
    BY NewCaseOK
  <1>3. existing = {} => BySource(k) = {}
    OBVIOUS
  <1>4. Put(existing, new)
    BY <1>1
  <1>. HIDE DEF k, new, existing
  <1>. QED
    BY <1>2, <1>3, <1>4, CasePut

LEMMA StoreGroupCases == ASSUME CasesInv, WorkInv, StoreGroup PROVE CasesInv'
  <1>. DEFINE g == groups[at]
              k == SourceId(g.alerts[1].row)
              same == BySource(k)
  <1>1. mode = "grouped" /\ GroupsFit /\ at \in 1..Len(groups)
    BY ListDomain DEF WorkInv, StoreGroup, GroupsFit, GroupsOK
  <1>2. PICK T : GroupOK(g, T)
    BY <1>1 DEF GroupsFit, GroupsOK
  <1>3. PICK rich : Put(IF same # {} THEN same
                        ELSE InWindow(g.type, Best(g.alerts).upn, GroupCase(g, rich).at),
                        GroupCase(g, rich))
    BY DEF StoreGroup
  <1>. DEFINE new == GroupCase(g, rich)
              existing == IF same # {} THEN same ELSE InWindow(g.type, Best(g.alerts).upn, new.at)
  <1>4. k \in new.sources /\ CaseOK(new)
    <2>. HIDE DEF g
    <2>. QED
      BY <1>1, <1>2, GroupCaseOK
  <1>5. existing = {} => BySource(k) = {}
    OBVIOUS
  <1>6. Put(existing, new)
    BY <1>3
  <1>. HIDE DEF k, new, existing
  <1>. QED
    BY <1>4, <1>5, <1>6, CasePut

LEMMA CloseCases ==
    ASSUME CasesInv, NEW c, NEW who \in {"rule", "noise"}, Close(c, who)
    PROVE  CasesInv'
  <1>. DEFINE row == [[cases[c] EXCEPT !.status = "benign"] EXCEPT !.by = who]
  <1>1. c \in Live /\ c \in CaseIds /\ DOMAIN cases = CaseIds
    BY DEF Close, CasesInv, Live
  <1>2. cases' = [cases EXCEPT ![c] = row]
    BY <1>1 DEF Close
  <1>. QED
    BY <1>1, <1>2, CaseDecided

LEMMA OthersCases ==
    ASSUME CasesInv, NEW c \in CaseIds, Delete(c) \/ \E s \in {"benign", "threat"} : Decide(c, s)
    PROVE  CasesInv'
  <1>1. CASE Delete(c)
    <2>1. cases' = [cases EXCEPT ![c] = Gone]
      BY <1>1 DEF Delete, Act
    <2>. QED
      BY <2>1, CaseWritten
  <1>2. ASSUME NEW s \in {"benign", "threat"}, Decide(c, s) PROVE CasesInv'
    <2>. DEFINE row == [[cases[c] EXCEPT !.status = s] EXCEPT !.by = "analyst"]
    <2>1. c \in Live /\ cases' = [cases EXCEPT ![c] = row]
      BY <1>2 DEF Decide, Act
    <2>. QED
      BY <2>1, CaseDecided
  <1>. QED
    BY <1>1, <1>2

LEMMA CasesStep == CasesInv /\ WorkInv /\ [Next]_vars => CasesInv'
  <1> SUFFICES ASSUME CasesInv, WorkInv, [Next]_vars PROVE CasesInv'
    OBVIOUS
  <1>1. CASE ApplyRule
    BY <1>1, CloseCases, CasesStay DEF ApplyRule
  <1>2. CASE CloseNoise
    BY <1>2, CloseCases DEF CloseNoise
  <1>3. CASE SkipRow \/ FailRow \/ EnrichRow \/ NoRule \/ RuleFails \/ GroupAlerts \/ KeepGroup
               \/ GroupFails \/ Finish \/ Crash
    BY <1>3, CasesStay DEF SkipRow, FailRow, EnrichRow, NoRule, RuleFails, GroupAlerts, KeepGroup,
                           GroupFails, Finish, Crash, End, dbVars
  <1>4. ASSUME NEW r \in Requests, Start(r) PROVE CasesInv'
    BY <1>4, CasesStay DEF Start, dbVars
  <1>5. CASE UNCHANGED vars
    BY <1>5, CasesStay DEF vars
  <1>. QED
    BY <1>1, <1>2, <1>3, <1>4, <1>5, StoreRowCases, StoreGroupCases, OthersCases DEF Next, Row, Rule

LEMMA UploadsSound == Spec => [](WorkInv /\ CasesInv)
  <1>1. Init => CasesInv
    BY DEF Init, CasesInv, ReuploadDeduplicates, Live
  <1>. QED
    BY <1>1, WorkInit, WorkStep, CasesStep, PTL DEF Spec

-----------------------------------------------------------------------------
(* Whatever a file holds and whoever else acts, an upload is at one of its *)
(* rows or groups, reports no more rows than are processed, stores into    *)
(* cases that stand for some row, and counts hits of the rules there are.  *)
THEOREM UploadTypes == Spec => []TypeOK
  <1>1. WorkInv /\ CasesInv => TypeOK
    <2> SUFFICES ASSUME WorkInv, CasesInv PROVE TypeOK
      OBVIOUS
    <2>1. \A c \in Live : /\ cases[c].status \in {"open", "benign", "threat"}
                          /\ cases[c].by \in {"nobody", "analyst", "rule", "noise"}
                          /\ cases[c].rows # {}
      <3>1. TAKE c \in Live
      <3>2. CaseOK(cases[c])
        BY DEF CasesInv
      <3>3. OfBatch(cases[c]) \/ OfFile(cases[c]) => cases[c].rows # {}
        BY DEF OfBatch, OfFile, TiedToFile
      <3>. QED
        BY <3>2, <3>3 DEF CaseOK
    <2>2. \A i \in DOMAIN results : results[i].is \in Outcomes
      BY ListDomain DEF WorkInv, RowsFit, IsList
    <2>. QED
      BY <2>1, <2>2 DEF TypeOK, WorkInv, RowsFit
  <1>. QED
    BY <1>1, UploadsSound, PTL

(* Uploading a file again stores nothing twice: two cases of one route     *)
(* that stand for the same rows share every identity that carries a time,  *)
(* and both ways of storing look the first of them up among all cases.     *)
(* Only rows without a time can be stored again.                           *)
THEOREM ReuploadDeduplicatesHolds == Spec => []ReuploadDeduplicates
  BY UploadsSound, PTL DEF CasesInv

(* The four passes lose no alert: each enriched alert, or a duplicate of   *)
(* it that scores no less, is in a group, be it retyped as spraying.       *)
THEOREM GroupsCoverAlertsHolds == Spec => []GroupsCoverAlerts
  <1>1. WorkInv => GroupsCoverAlerts
    <2> SUFFICES ASSUME WorkInv, Grouped, NEW i \in DOMAIN enriched
                 PROVE  \E g \in DOMAIN groups : \E k \in DOMAIN groups[g].alerts :
                            LET a == enriched[i]  b == groups[g].alerts[k]
                            IN  /\ a.user = b.user /\ a.src = b.src
                                /\ a.score <= b.score
                                /\ a.row = b.row \/ a.type = b.type \/ b.type = Spray
      BY DEF GroupsCoverAlerts
    <2>1. GroupsFit /\ enriched[i] \in ToSet(enriched)
      BY DEF WorkInv, Grouped, ToSet
    <2>2. PICK b : Somewhere(b, groups) /\ StandsFor(b, enriched[i])
      BY <2>1 DEF GroupsFit
    <2>3. PICK g \in 1..Len(groups) : b \in ToSet(groups[g].alerts)
      BY <2>2 DEF Somewhere
    <2>4. PICK k \in DOMAIN groups[g].alerts : groups[g].alerts[k] = b
      BY <2>3 DEF ToSet
    <2>5. DOMAIN groups = 1..Len(groups)
      BY <2>1, ListDomain DEF GroupsFit, GroupsOK
    <2>. QED
      BY <2>2, <2>3, <2>4, <2>5 DEF StandsFor
  <1>. QED
    BY <1>1, UploadsSound, PTL

(* A group keeps saying the truth of its alerts when duplicates are taken  *)
(* out of it: its score is the best of theirs, none is more severe.        *)
THEOREM GroupsDescribedHolds == Spec => []GroupsDescribed
  <1>1. WorkInv => GroupsDescribed
    <2> SUFFICES ASSUME WorkInv, Grouped, NEW g \in DOMAIN groups
                 PROVE  LET members == {groups[g].alerts[k] : k \in DOMAIN groups[g].alerts}
                        IN  /\ groups[g].score = Max({a.score : a \in members})
                            /\ \A a \in members : a.sev <= groups[g].sev
      BY DEF GroupsDescribed
    <2>. DEFINE x == groups[g]
                members == {x.alerts[k] : k \in DOMAIN x.alerts}
                scores == {a.score : a \in members}
    <2>1. GroupsFit
      BY DEF WorkInv, Grouped
    <2>2. PICK T : GroupsOK(groups, T) /\ \A a \in T : IsAlert(a)
      BY <2>1 DEF GroupsFit
    <2>3. GroupOK(x, T)
      BY <2>2, ListDomain DEF GroupsOK
    <2>. HIDE DEF x
    <2>4. members = ToSet(x.alerts) /\ members \subseteq T
      BY <2>3, ListDomain DEF GroupOK, ToSet
    <2>5. /\ \E a \in members : x.score = a.score
          /\ \A a \in members : a.score <= x.score /\ a.sev <= x.sev
      BY <2>3, <2>4 DEF GroupOK, Says
    <2>. HIDE DEF members
    <2>6. x.score \in scores /\ \A s \in scores : s <= x.score
      BY <2>5
    <2>7. scores \subseteq Nat
      BY <2>2, <2>4 DEF IsAlert
    <2>. HIDE DEF scores
    <2>8. Max(scores) = x.score
      <3>1. Max(scores) \in scores /\ \A s \in scores : s <= Max(scores)
        BY <2>6 DEF Max
      <3>2. Max(scores) <= x.score /\ x.score <= Max(scores)
        BY <2>6, <3>1
      <3>3. Max(scores) \in Nat /\ x.score \in Nat
        BY <2>6, <2>7, <3>1
      <3>. QED
        BY <3>2, <3>3
    <2>. QED
      BY <2>5, <2>8 DEF x, members, scores
  <1>. QED
    BY <1>1, UploadsSound, PTL

-----------------------------------------------------------------------------
(* Noise.                                                                  *)

ShapeOf(case) == {"status", "by", "sev"} \subseteq DOMAIN case

(* What is inductive: live cases are rows with the columns a close writes  *)
(* or must not.                                                            *)
NoiseInv ==
    /\ DOMAIN cases = CaseIds
    /\ \A c \in Live : ShapeOf(cases[c])
    /\ NoiseNeverHidesSevere

(* A step that writes one row keeps the rest as it is.                     *)
LEMMA RowStep ==
    ASSUME NoiseInv, NEW c \in CaseIds, NEW row,
           cases' = [cases EXCEPT ![c] = row],
           row \notin {NoCase, Gone} => ShapeOf(row) /\ (row.by = "noise" => row.sev \notin Severe)
    PROVE  NoiseInv'
  <1>1. /\ DOMAIN cases' = CaseIds /\ cases'[c] = row
        /\ \A d \in CaseIds : d # c => cases'[d] = cases[d]
    BY DEF NoiseInv
  <1>2. \A d \in Live' : d # c => d \in Live /\ cases'[d] = cases[d]
    BY <1>1 DEF Live
  <1>3. \A d \in Live' : ShapeOf(cases'[d]) /\ (cases'[d].by = "noise" => cases'[d].sev \notin Severe)
    BY <1>1, <1>2 DEF NoiseInv, NoiseNeverHidesSevere, Live
  <1>. QED
    BY <1>1, <1>3 DEF NoiseInv, NoiseNeverHidesSevere

LEMMA QuietStep ==
    ASSUME NoiseInv, UNCHANGED cases
    PROVE  NoiseInv'
  BY DEF NoiseInv, NoiseNeverHidesSevere, Live

(* A new case is open and nobody's.                                        *)
LEMMA PutStep ==
    ASSUME NoiseInv, NEW existing, NEW new, ShapeOf(new), new.by = "nobody", Put(existing, new)
    PROVE  NoiseInv'
  BY RowStep, QuietStep DEF Put

LEMMA CloseStep ==
    ASSUME NoiseInv, NEW c, NEW who, Close(c, who),
           who = "noise" => cases[c].sev \notin Severe
    PROVE  NoiseInv'
  <1>. DEFINE row == [[cases[c] EXCEPT !.status = "benign"] EXCEPT !.by = who]
  <1>1. c \in CaseIds /\ ShapeOf(cases[c]) /\ DOMAIN cases = CaseIds
    BY DEF Close, Live, NoiseInv
  <1>2. cases' = [cases EXCEPT ![c] = row]
    BY <1>1 DEF Close
  <1>3. ShapeOf(row) /\ row.by = who /\ row.sev = cases[c].sev
    BY <1>1 DEF ShapeOf
  <1>. HIDE DEF row
  <1>. QED
    BY <1>1, <1>2, <1>3, RowStep

LEMMA NoiseStep == NoiseInv /\ [Next]_vars => NoiseInv'
  <1> SUFFICES ASSUME NoiseInv, [Next]_vars PROVE NoiseInv'
    OBVIOUS
  <1>1. CASE StoreRow
    <2>1. PICK s : Put(BySource(SourceId(at)), NewCase(file[at], s))
      BY <1>1 DEF StoreRow
    <2>2. ShapeOf(NewCase(file[at], s)) /\ NewCase(file[at], s).by = "nobody"
      BY DEF NewCase, ShapeOf
    <2>. QED
      BY <2>1, <2>2, PutStep
  <1>2. CASE StoreGroup
    <2>1. PICK existing, rich : Put(existing, GroupCase(groups[at], rich))
      BY <1>2 DEF StoreGroup
    <2>2. ShapeOf(GroupCase(groups[at], rich)) /\ GroupCase(groups[at], rich).by = "nobody"
      BY DEF GroupCase, ShapeOf
    <2>. QED
      BY <2>1, <2>2, PutStep
  <1>3. CASE ApplyRule
    BY <1>3, CloseStep, QuietStep DEF ApplyRule
  <1>4. CASE CloseNoise
    BY <1>4, CloseStep DEF CloseNoise, IsNoise
  <1>5. ASSUME NEW c \in CaseIds, Delete(c) PROVE NoiseInv'
    BY <1>5, RowStep DEF Delete, Act
  <1>6. ASSUME NEW c \in CaseIds, NEW s, Decide(c, s) PROVE NoiseInv'
    <2>. DEFINE row == [cases[c] EXCEPT !.status = s, !.by = "analyst"]
    <2>1. c \in Live /\ ShapeOf(cases[c]) /\ cases' = [cases EXCEPT ![c] = row]
      BY <1>6 DEF Decide, Act, NoiseInv
    <2>2. ShapeOf(row) /\ row.by = "analyst"
      BY <2>1 DEF ShapeOf
    <2>. HIDE DEF row
    <2>. QED
      BY <2>1, <2>2, RowStep
  <1>7. CASE SkipRow \/ FailRow \/ EnrichRow \/ NoRule \/ RuleFails \/ GroupAlerts \/ KeepGroup
               \/ GroupFails \/ Finish \/ Crash
    BY <1>7, QuietStep DEF SkipRow, FailRow, EnrichRow, NoRule, RuleFails, GroupAlerts, KeepGroup,
                           GroupFails, Finish, Crash, End, dbVars
  <1>8. ASSUME NEW r \in Requests, Start(r) PROVE NoiseInv'
    BY <1>8, QuietStep DEF Start, dbVars
  <1>9. CASE UNCHANGED vars
    BY <1>9, QuietStep DEF vars
  <1>. QED
    BY <1>1, <1>2, <1>3, <1>4, <1>5, <1>6, <1>7, <1>8, <1>9 DEF Next, Row, Rule

(* A case shown as critical or high was never closed as noise, whichever   *)
(* group was answered with it and whatever analysts, rules and other       *)
(* uploads did to it (process_upload: "NEVER auto-close critical/high").   *)
THEOREM NoiseNeverHidesSevereHolds == Spec => []NoiseNeverHidesSevere
  <1>1. Init => NoiseInv
    BY DEF Init, NoiseInv, NoiseNeverHidesSevere, Live
  <1>2. Spec => []NoiseInv
    BY <1>1, NoiseStep, PTL DEF Spec
  <1>. QED
    BY <1>2, PTL DEF NoiseInv
=============================================================================
