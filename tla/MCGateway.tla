----------------------------- MODULE MCGateway -----------------------------
(* Gateway on a small instance: one call of any tool or command, and one of   *)
(* those that change what the first depends on.                               *)
EXTENDS Gateway, TLC

CONSTANTS c1, c2, s1
MCToolsOf == (c1 :> DOMAIN Tools)
               @@ (c2 :> {"vault_bind", "vault_seal"})
MCRaws == {<<"A", "b", "_", "c", "_">>, <<"_">>}
=============================================================================
