----------------------------- MODULE MCSession -----------------------------
(* A bounded instance of SessionLifecycle for TLC: three connections, two children. *)
EXTENDS SessionLifecycle
=============================================================================
