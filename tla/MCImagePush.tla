---------------------------- MODULE MCImagePush ----------------------------
(* Instance of ImagePush: an image, which docker can save, an index of it, *)
(* and two archives: one of the image alone, one of the index and the      *)
(* image, which share a child.  An older manifest has the last tag.        *)
EXTENDS ImagePush, TLC

CONSTANTS image, index, both, single, old, layer

Child(m) == [rel |-> "manifest", of |-> m]

Graph ==
    image :> <<[rel |-> "blob", of |-> layer], [rel |-> "subject", of |-> single]>> @@ index :> <<Child(image)>>
    @@ both :> <<Child(index), Child(image)>> @@ single :> <<Child(image)>> @@ old :> <<>>

OldTag == 1 :> NoManifest @@ 2 :> old

Symmetry == Permutations(Clients)
=============================================================================
