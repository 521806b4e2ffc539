-------------------------- MODULE MCExtensionTrust --------------------------
(* A small instance of ExtensionTrust for TLC. *)
EXTENDS ExtensionTrust

CONSTANTS x1, x2, r1, r2, p1, p2, c1, c2
=============================================================================
