-------------------------- MODULE MCUploadSession --------------------------
(* TLC instance of UploadSession: see the .cfg files for the bounds. *)
EXTENDS UploadSession, TLC

Body(f, s, ranged) == [chunk |-> [from |-> f, size |-> s], ranged |-> ranged]

\* An upload in two chunks: in order, repeated or swapped; one chunk without
\* a Content-Range; the empty completion.
TwoChunks == {Body(0, 1, TRUE), Body(1, 1, TRUE), Body(1, 1, FALSE), Body(0, 0, FALSE)}

\* Chunks of different sizes, with and without a Content-Range.
MixedSizes == {Body(0, 2, TRUE), Body(2, 1, TRUE), Body(0, 1, TRUE), Body(2, 1, FALSE),
               Body(1, 2, FALSE), Body(0, 0, FALSE), Body(3, 0, TRUE)}

\* A one-byte upload, and completions with or without it.
OneChunk == {Body(0, 1, TRUE), Body(0, 0, FALSE)}

\* Request slots are interchangeable.
RequestSymmetry == Permutations(Requests)
=============================================================================
