-------------------------- MODULE MCVaultLifecycle --------------------------
(* Instances of VaultLifecycle for TLC. *)
EXTENDS VaultLifecycle, TLC

CONSTANTS c1, c2, c3

\* Anyone may send anything.
IssueAll == [c \in Clients |-> Commands]

\* One client also re-baselines and may hang up; the other does neither.
IssueTwo == [c \in Clients |-> IF c = c1 THEN Commands ELSE Commands \ {"Rebaseline"}]

Symmetric == Permutations(Clients)
=============================================================================
