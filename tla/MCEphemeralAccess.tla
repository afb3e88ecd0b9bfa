------------------------- MODULE MCEphemeralAccess -------------------------
(* Instances of EphemeralAccess for TLC. *)
EXTENDS EphemeralAccess, TLC

Symmetric == Permutations(Clients) \cup Permutations(Tokens) \cup Permutations(Files)
=============================================================================
