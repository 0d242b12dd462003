------------------------------- MODULE Places -------------------------------
(***************************************************************************)
(* Array.prototype.filter and sort, as the readers of pages and the shelf  *)
(* of series use them: a list of some places of another, in an order of    *)
(* the places.  SequencesExt and Sequences define theirs by recursion,     *)
(* which no proof can unfold; here the k-th of the places is the one with  *)
(* k places up to it.                                                      *)
(***************************************************************************)
EXTENDS Integers, Sequences, FiniteSets

\* R orders D: <<j, i>> \in R says that j comes no later than i.
Orders(R, D) ==
  /\ \A i \in D : <<i, i>> \in R
  /\ \A i, j \in D : <<i, j>> \in R \/ <<j, i>> \in R
  /\ \A i, j \in D : <<i, j>> \in R /\ <<j, i>> \in R => i = j
  /\ \A i, j, k \in D : <<i, j>> \in R /\ <<j, k>> \in R => <<i, k>> \in R

Rank(i, D, R) == Cardinality({j \in D : <<j, i>> \in R})

\* What s has at the places D, in the order R.
Ranked(s, D, R) == [k \in 1..Cardinality(D) |-> s[CHOOSE i \in D : Rank(i, D, R) = k]]

\* filter: what s has at the places D, in the order of s.
Ascending(D) == {p \in D \X D : p[1] <= p[2]}
Kept(s, D) == Ranked(s, D, Ascending(D))
=============================================================================
