------------------------------ MODULE MCAccess -----------------------------
(* Instances of Access: who owns what, and symmetry. *)
EXTENDS Access, TLC

CONSTANTS u1, n1

OneOwner == [p \in Pats |-> u1]
OneNamespace == [r \in Repos |-> n1]

PullPermissions == {<<u1, r, "pull">> : r \in Repos}

Symmetry == Permutations(Requests) \cup Permutations(Repos)
=============================================================================
