------------------------------ MODULE TagStore ------------------------------
(***************************************************************************)
(* What a repository of jcrd promises about its manifests and tags: every  *)
(* request is one step.  A push makes its manifest available and points    *)
(* its tag to it, a deletion removes a manifest with all of its tags, and  *)
(* the history of a tag grows by what the tag becomes.                     *)
(***************************************************************************)
EXTENDS Sequences

CONSTANTS
    Names, Manifests, NoManifest,
    Initial   \* what each tag points to at the start

VARIABLES
    live,     \* manifests that can be pulled by digest
    tag,      \* the manifest each tag points to
    history   \* what each tag has pointed to, NoManifest after a deletion

vars == <<live, tag, history>>

Init ==
    /\ live = {Initial[n] : n \in Names} \ {NoManifest}
    /\ tag = Initial
    /\ history = [n \in Names |-> IF Initial[n] = NoManifest THEN << >> ELSE <<Initial[n]>>]

\* PUT of a manifest by its digest
Push(m) == live' = live \cup {m} /\ UNCHANGED <<tag, history>>

\* PUT of a manifest by a tag.  Putting it again adds to the history only if
\* two such requests meet.
PushTag(m, n) ==
    /\ live' = live \cup {m}
    /\ tag' = [tag EXCEPT ![n] = m]
    /\ \/ history' = [history EXCEPT ![n] = Append(@, m)]
       \/ tag[n] = m /\ UNCHANGED history

\* DELETE of a manifest
Delete(m) ==
    /\ m \in live
    /\ live' = live \ {m}
    /\ tag' = [n \in Names |-> IF tag[n] = m THEN NoManifest ELSE tag[n]]
    /\ history' = [n \in Names |-> IF tag[n] = m THEN Append(history[n], NoManifest)
                                   ELSE history[n]]

Next == \E m \in Manifests : Push(m) \/ Delete(m) \/ (\E n \in Names : PushTag(m, n))

Spec == Init /\ [][Next]_vars

=============================================================================
