----------------------------- MODULE BlobGrace -----------------------------
(***************************************************************************)
(* BlobLifecycle with a history of what has been in use within the grace   *)
(* period.  clean_unreferenced_blobs counts the period from created_at,    *)
(* which commit_blob leaves as it is when a blob is uploaded again and     *)
(* which the deletion of a manifest does not touch.                        *)
(***************************************************************************)
EXTENDS MCBlobLifecycle

VARIABLE recent   \* digests uploaded or referenced within the grace period

graceVars == <<vars, recent>>

\* What a step uploads or has referenced before or after it.
InUse(d) ==
    \/ \E r \in Handlers : /\ h[r].pc \in {"lookup", "insert"} /\ h[r].d = d
                           /\ h'[r].pc \in {"dedup", "idle"} /\ faults' = faults
    \/ Referenced(d) \/ Referenced(d)'

Tracked == Next /\ recent' = recent \cup {d \in Digests : InUse(d)}

\* The grace period passes since d was last in use.
Forget(d) ==
    /\ d \in recent /\ blobs[d].old /\ ~Referenced(d)
    /\ recent' = recent \ {d}
    /\ UNCHANGED vars

GraceSpec ==
    /\ Init /\ recent = {}
    /\ [][Tracked \/ \E d \in Digests : Forget(d)]_graceVars

\* A blob is removed only when it has been neither uploaded nor referenced
\* for the whole grace period.
RemovedOnlyAfterGrace ==
    [][\A d \in Digests : blobs[d].status = "committed" /\ blobs'[d].status = "tombstoned" /\ Claimed' =>
          d \notin recent]_graceVars

=============================================================================
