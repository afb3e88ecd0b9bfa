------------------------------ MODULE MCReveal ------------------------------
EXTENDS Reveal, TLC

CONSTANTS r1, r2

MCPolicies == {NoRow, DefaultsFor("relaxed"), DefaultsFor("paranoid")}
MCPrograms == {NoProgram, <<"m">>}
SymmetricRequests == Permutations(Requests)
=============================================================================
