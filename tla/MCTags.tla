------------------------------- MODULE MCTags ------------------------------
(* TLC instance of Tags: see the .cfg files for the bounds. *)
EXTENDS Tags, TLC

CONSTANTS m1, m2

\* An empty repository.
Untagged == [n \in Names |-> NoManifest]

\* Every tag points to one manifest.
AllTagged == [n \in Names |-> m1]

\* Request slots are interchangeable.
Symmetry == Permutations(Handlers)
=============================================================================
