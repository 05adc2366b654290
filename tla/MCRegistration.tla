--------------------------- MODULE MCRegistration --------------------------
(* Instance of Registration: symmetry. *)
EXTENDS Registration, TLC

CONSTANT e1

Symmetry == Permutations(Requests) \cup Permutations(Accounts) \cup Permutations(Names)
            \cup Permutations(Emails \ {e1})
=============================================================================
