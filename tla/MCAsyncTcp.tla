----------------------------- MODULE MCAsyncTcp -----------------------------
(* A call and a bulk send to one VM.                                       *)
EXTENDS AsyncTcp, TLC

CONSTANTS c1, c3, v1

To13 == (c1 :> {v1}) @@ (c3 :> {v1})
=============================================================================
