------------------------------ MODULE MCAgentDb ------------------------------
(* Two entries of one table and one of another.                             *)
EXTENDS AgentDb, TLC

CONSTANTS e1, e2, e3, lport, chassis

TableOf21 == (e1 :> lport) @@ (e2 :> lport) @@ (e3 :> chassis)
=============================================================================
