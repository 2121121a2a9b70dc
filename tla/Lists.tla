------------------------------- MODULE Lists -------------------------------
(***************************************************************************)
(* Folds over a list and selections from one, as recursive functions, so   *)
(* that they can be reasoned about.                                        *)
(***************************************************************************)
EXTENDS Integers, Sequences

(* A fold from the left.                                                   *)
Folded(Step(_, _), base, list) ==
    LET f[k \in 0..Len(list)] == IF k = 0 THEN base ELSE Step(f[k - 1], list[k])
    IN  f[Len(list)]

(* The elements that are in a set, in their order.                         *)
Where(list, those) ==
    Folded(LAMBDA kept, e : IF e \in those THEN Append(kept, e) ELSE kept, <<>>, list)

(* The elements at the positions that are in a set, in their order.        *)
At(list, places) ==
    LET chosen == Where([i \in 1..Len(list) |-> i], places)
    IN  [k \in 1..Len(chosen) |-> list[chosen[k]]]

(* The elements with equal keys together, as lists in the order in which   *)
(* their keys appear first.                                                *)
ByKey(list, keys) ==
    LET like(n) == {m \in 1..Len(list) : keys[m] = keys[n]}
        firsts  == Where([i \in 1..Len(list) |-> i],
                         {n \in 1..Len(list) : \A m \in like(n) : n <= m})
    IN  [g \in 1..Len(firsts) |-> At(list, like(firsts[g]))]
=============================================================================
