--------------------------- MODULE ChunkedUpload ---------------------------
(***************************************************************************)
(* What an upload session of jcrd promises whoever holds its location:     *)
(* bytes are only ever added at the end, a session is concluded once, and  *)
(* it is committed only if the bytes it took are the file in its order.    *)
(* UploadSession implements it with its rows, locks and multipart upload,  *)
(* and each session that PushClient talks to is one.                       *)
(***************************************************************************)
EXTENDS Integers

VARIABLES
    status,   \* of the session, as GET and the answers to PATCH and PUT show it
    offset,   \* bytes accepted so far, which the Range header acknowledges
    intact    \* these are the first bytes of the file, in order

vars == <<status, offset, intact>>

Init == status = "absent" /\ offset = 0 /\ intact = TRUE

\* POST
Open == status = "absent" /\ status' = "uploading" /\ UNCHANGED <<offset, intact>>

\* A chunk is added: what is out of order stays out of order.
Take == offset' > offset /\ intact' \in BOOLEAN /\ (intact' => intact)

\* PATCH
Patch == status = "uploading" /\ Take /\ UNCHANGED status

\* PUT, seen either when it gives the session up to finalization or, with
\* its answer, when it is over.
Put ==
    /\ status = "uploading"
    /\ Take \/ UNCHANGED <<offset, intact>>
    /\ status' \in {"finalizing", "failed"} \/ (status' = "committed" /\ intact')

\* A PUT that the collector has taken for dead may still commit.
Commit ==
    /\ status \in {"finalizing", "failed"} /\ intact
    /\ status' = "committed"
    /\ UNCHANGED <<offset, intact>>

\* The digest differs, or the session has expired.
Fail ==
    /\ status \in {"uploading", "finalizing"}
    /\ status' = "failed"
    /\ UNCHANGED <<offset, intact>>

\* DELETE
Cancel == status = "uploading" /\ status' = "cancelled" /\ UNCHANGED <<offset, intact>>

Next == Open \/ Patch \/ Put \/ Commit \/ Fail \/ Cancel

Spec == Init /\ [][Next]_vars

=============================================================================
