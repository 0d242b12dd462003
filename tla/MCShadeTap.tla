----------------------------- MODULE MCShadeTap -----------------------------
(***************************************************************************)
(* ShadeTap on small instances: two page instances, one or two taps, and   *)
(* MaxTasks messages and handlers of the slot under way at once.           *)
(***************************************************************************)
EXTENDS ShadeTap, TLC

CONSTANT MaxTasks

\* Page instances are interchangeable: no action tells them apart.
Symmetry == Permutations(Pages)

FewTasks ==
  Cardinality(asked) + Cardinality(taking) + Cardinality(replies)
    + Cardinality(acks) + Cardinality(clearing) + Cardinality(putting) <= MaxTasks
=============================================================================
