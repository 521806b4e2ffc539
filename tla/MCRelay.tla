------------------------------ MODULE MCRelay ------------------------------
(* A small instance of Relay for TLC: one device, two clients, two tokens of
   one session, and another session they may ask for by mistake. *)
EXTENDS Relay

MCBoundTo == [t \in Tokens |-> "s1"]
=============================================================================
