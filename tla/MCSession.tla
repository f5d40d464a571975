----------------------------- MODULE MCSession -----------------------------
(* Session on small instances; the bounds are in the cfg files.            *)
EXTENDS Session
=============================================================================
