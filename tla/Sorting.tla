------------------------------ MODULE Sorting ------------------------------
(***************************************************************************)
(* Orders of elements, as the code makes them.                             *)
(*                                                                         *)
(* The exchange sort is written out twice in the code, for the validators  *)
(* of the consensus engine and for the nodes of the DHT.  What it sorts by *)
(* is a parameter here: before, the pairs of which the first has to come   *)
(* before the second.                                                      *)
(***************************************************************************)
EXTENDS Integers, FiniteSets, SequencesExt

\* Mutant: every element is compared with its neighbour only.
ExchangeSortOnePass(s, before) ==
    FoldLeft(LAMBDA t, i : IF <<t[i + 1], t[i]>> \in before
                           THEN [t EXCEPT ![i] = t[i + 1], ![i + 1] = t[i]] ELSE t,
             s, [i \in 1 .. Len(s) - 1 |-> i])

\* The inner step: place i gets the element of j if that comes before its own.
Exchanged(t, i, j, before) ==
    IF <<t[j], t[i]>> \in before THEN [t EXCEPT ![i] = t[j], ![j] = t[i]] ELSE t

\* The inner loop, over the places behind i, and the outer one.
Placed(s, i, before) ==
    FoldLeft(LAMBDA t, k : Exchanged(t, i, k, before), s, [k \in 1 .. Len(s) - i |-> i + k])

ExchangeSort(s, before) ==
    FoldLeft(LAMBDA t, i : Placed(t, i, before), s, [i \in 1 .. Len(s) - 1 |-> i])

\* The members of a set of numbers in ascending order.
Ascending(S) ==
    CHOOSE s \in [1 .. Cardinality(S) -> S] : \A i, j \in DOMAIN s : i < j => s[i] < s[j]

=============================================================================
