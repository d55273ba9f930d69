------------------------------ MODULE MCZmqRpc ------------------------------
(* Two handlers of one process, one with a call and one with a bulk send,   *)
(* and a handler of another process, on two VMs.                            *)
EXTENDS ZmqRpc, TLC

CONSTANTS c1, c2, c3, p1, p2, v1, v2

ProcOf112 == (c1 :> p1) @@ (c2 :> p1) @@ (c3 :> p2)

To121 == (c1 :> {v1}) @@ (c2 :> {v1, v2}) @@ (c3 :> {v1})
=============================================================================
