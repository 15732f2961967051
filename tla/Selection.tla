----------------------------- MODULE Selection -----------------------------
(* What a loop over a list keeps of it, and the order a list is put in. *)
EXTENDS Integers, Sequences, FiniteSets, SequencesExt

\* What s holds at the places K, in its order.
Among(s, K) ==
  LET kept[n \in 0..Len(s)] == IF n = 0 THEN <<>>
                               ELSE IF n \in K THEN Append(kept[n - 1], s[n]) ELSE kept[n - 1]
  IN  kept[Len(s)]

\* sort.Ints: the numbers of a finite set in their order.
Ascending(S) == [k \in 1..Cardinality(S) |-> CHOOSE n \in S : Cardinality({m \in S : m < n}) = k - 1]
=============================================================================
