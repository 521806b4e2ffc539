---------------------------- MODULE MCEventStream ----------------------------
(* A small instance of EventStream for TLC: one more event than the ring holds,
   and a channel of one, so that eviction and lag happen. *)
EXTENDS EventStream

CONSTANTS e1, e2, c1

MCEmitters == {e1, e2}
MCConns == {c1}
=============================================================================
