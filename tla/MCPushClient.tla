---------------------------- MODULE MCPushClient ---------------------------
(* TLC instance of PushClient: see the .cfg files for the bounds. *)
EXTENDS PushClient, TLC

\* Two chunks of 2 and a rest of 1; every blob alike.
WithRest == [b \in Blobs |-> 5]

\* One blob of whole chunks, whose PUT is empty, and others with a rest.
Uneven == [b \in Blobs |-> IF b = CHOOSE c \in Blobs : TRUE THEN 4 ELSE 3]

\* One chunk and a rest.
OneChunk == [b \in Blobs |-> 3]

\* Processes are interchangeable.
Symmetry == Permutations(Procs)
============================================================================
