------------------------------ MODULE Filtering ------------------------------
(***************************************************************************)
(* What JavaScript's filter makes of an array: the elements that pass a    *)
(* test, in their order.  It is SelectSeq of the Sequences module, stated  *)
(* by the places of the elements and without recursion, so that theorems   *)
(* can be proved of what is filtered.                                      *)
(***************************************************************************)
EXTENDS Naturals, FiniteSets

\* The members of a finite set of numbers, in ascending order.
Ascending(S) ==
    CHOOSE f \in [1..Cardinality(S) -> S] : \A i, j \in DOMAIN f : i < j => f[i] < f[j]

Filter(s, Passes(_)) ==
    LET places == Ascending({i \in DOMAIN s : Passes(s[i])}) IN
    [k \in DOMAIN places |-> s[places[k]]]
=============================================================================
