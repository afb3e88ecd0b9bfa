--------------------------- MODULE MCSecretStore ---------------------------
(* Small instances of SecretStore. *)
EXTENDS SecretStore, TLC
CONSTANTS c1, c2, c3

Writes == {"Put", "Rotate", "Rollback", "Delete"}

\* Every client writes.
AllWrite == [c \in Clients |-> Writes]

\* Two clients write, the third reads.
TwoWriters == [c \in Clients |-> IF c = c3 THEN {"Read"} ELSE Writes]

Symmetric == Permutations({c1, c2})
=============================================================================
