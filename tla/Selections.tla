----------------------------- MODULE Selections -----------------------------
(***************************************************************************)
(* Lists that the stores of the user interface filter and sort.  The       *)
(* library's SelectSeq and SetToSortSeq have the same values, but are      *)
(* recursive, and out of reach of the proofs.                              *)
(***************************************************************************)
EXTENDS Naturals, Sequences, FiniteSets

Ascending(s) == \A j, k \in DOMAIN s : j < k => s[j] < s[k]

\* The members of a finite set of numbers, the least one first.
InOrder(S) == CHOOSE s \in [1 .. Cardinality(S) -> S] : Ascending(s)

\* filter: what is not gone keeps its order.
Without(seq, gone) ==
  LET kept == InOrder({n \in DOMAIN seq : seq[n] \notin gone})
  IN  [k \in DOMAIN kept |-> seq[kept[k]]]

=============================================================================
