------------------------------- MODULE Order -------------------------------
(* Sequences in the order of numbers.                                      *)
EXTENDS Naturals, Sequences, FiniteSets

(* The k-th number of a finite set.                                        *)
Nth(S, k) == CHOOSE n \in S : Cardinality({m \in S : m < n}) = k - 1

(* What is left of a sequence, in its order, without some values.          *)
Without(s, values) ==
  LET places == {k \in DOMAIN s : \A j \in DOMAIN values : values[j] # s[k]}
  IN [k \in 1..Cardinality(places) |-> s[Nth(places, k)]]
=============================================================================
