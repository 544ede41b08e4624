------------------------------ MODULE FirstFit ------------------------------
(***************************************************************************)
(* Every table of the kernel is an array searched from index 0 for the     *)
(* first entry that will do: procs[], kernelTaskQueue[], waitq[],          *)
(* blockCache[], selectorMap[].  Two operators describe such a search.     *)
(***************************************************************************)
EXTENDS Integers, FiniteSets

\* The index at which a search for an entry of S stops.
Lowest(S) == CHOOSE x \in S : \A y \in S : x <= y

\* How many entries of S the search passes before it reaches x.
Rank(S, x) == Cardinality({y \in S : y < x})

=============================================================================
