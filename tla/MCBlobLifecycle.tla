-------------------------- MODULE MCBlobLifecycle --------------------------
(* TLC instance of BlobLifecycle: see the .cfg files for the bounds. *)
EXTENDS BlobLifecycle, TLC

CONSTANTS d1, d2, m1, m2, k1

\* A manifest with one layer.
OneLayer == m1 :> <<d1>>

\* Two manifests that share a layer.
SharedLayer == (m1 :> <<d1, d2>>) @@ (m2 :> <<d1>>)

\* One object that the bucket never gives up.
FirstKey == {k1}

\* Handler slots, repositories and object keys are interchangeable.
Symmetry == Permutations(Handlers) \cup Permutations(Keys) \cup Permutations(Repos)
=============================================================================
