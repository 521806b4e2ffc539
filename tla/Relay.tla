-------------------------------- MODULE Relay --------------------------------
(****************************************************************************)
(* The relay (apps/relay-service) between one bridge that dials out and the *)
(* browsers that attach to its sessions, and the bridge's tunnel supervisor *)
(* (tunnel.rs).  The registry has one entry per device and forgets by the   *)
(* device's id alone; each registry or token operation is atomic, the loops *)
(* that make them are not.  A broken connection is noticed by either end in *)
(* its own time, so the bridge may dial again before the relay has dropped  *)
(* its last dial.                                                           *)
(*                                                                          *)
(* Frames are opaque and only routed; a frame changes the registry where a  *)
(* sender turns out to be dead.  Dial and admin tokens are taken as valid.  *)
(****************************************************************************)
EXTENDS Naturals

CONSTANTS
  Clients,    \* client connections, each used once
  Tokens,     \* teleport tokens an operator may mint
  Sessions,
  BoundTo,    \* the session a token names
  MaxDials,   \* bound: dials of the bridge
  MayExpire   \* bound: the tokens whose TTL may pass

Dials == 1..MaxDials

VARIABLES
  tunnel,     \* run_tunnel_supervisor: its last dial, and whether it believes in it
  dial,       \* bridge_dial_loop of each dial
  conn,       \* the connection of each dial
  entry,      \* DeviceRegistry: the dial registered, 0 for none, and its clients
  client,     \* client_attach_loop of each client
  mute,       \* clients whose writer task has ended
  active,     \* TokenStore.active
  expired,    \* tokens past their TTL
  claimed,    \* TokenStore.claimed
  admin,      \* revoke_handler
  lost        \* history: clients told relay.bridge_gone, or removed by another party

tokens == <<active, expired, claimed>>
bridge == <<tunnel, dial, conn>>
relayVars == <<bridge, entry, client, mute, tokens, admin, lost>>

\* TokenStore.revoked holds the device.
revoked == admin # "idle"

NoEntry == [dial |-> 0, clients |-> {}]
Unattached == [pc |-> "idle", tok |-> "none", sess |-> "none"]

RelayInit ==
  /\ tunnel = [dial |-> 0, up |-> FALSE]
  /\ dial = [d \in Dials |-> "idle"] /\ conn = [d \in Dials |-> "none"]
  /\ entry = NoEntry
  /\ client = [c \in Clients |-> Unattached] /\ mute = {}
  /\ active = {} /\ expired = {} /\ claimed = {}
  /\ admin = "idle"
  /\ lost = {}

-----------------------------------------------------------------------------
(* The bridge's side: run_tunnel_supervisor.                                *)

\* After the backoff, whose length is not modelled.
TunnelDials(d) ==
  /\ ~tunnel.up /\ d = tunnel.dial + 1
  /\ tunnel' = [dial |-> d, up |-> TRUE]
  /\ dial' = [dial EXCEPT ![d] = "open"] /\ conn' = [conn EXCEPT ![d] = "up"]
  /\ UNCHANGED <<entry, client, tokens, mute, admin, lost>>

\* A close or an error both ends get to see; a connection that dies unseen stays
\* up here, as it does for the code.
ConnectionFails(d) ==
  /\ conn[d] = "up"
  /\ conn' = [conn EXCEPT ![d] = "down"]
  /\ UNCHANGED <<tunnel, dial, entry, client, tokens, mute, admin, lost>>

\* run_tunnel_once returns.
TunnelNotices ==
  /\ tunnel.up /\ conn[tunnel.dial] = "down"
  /\ tunnel' = [tunnel EXCEPT !.up = FALSE]
  /\ UNCHANGED <<dial, conn, entry, client, tokens, mute, admin, lost>>

-----------------------------------------------------------------------------
(* bridge_dial_loop.                                                        *)

DialAt(d, from, to) == dial[d] = from /\ dial' = [dial EXCEPT ![d] = to]

DialRefused(d) ==
  /\ DialAt(d, "open", "done") /\ revoked
  /\ conn' = [conn EXCEPT ![d] = "down"]
  /\ UNCHANGED <<tunnel, entry, client, tokens, mute, admin, lost>>

DialAllowed(d) ==
  /\ DialAt(d, "open", "register") /\ ~revoked
  /\ UNCHANGED <<tunnel, conn, entry, client, tokens, mute, admin, lost>>

\* register_bridge replaces whatever entry there is, with its clients.
RegisterBridge(d) ==
  /\ DialAt(d, "register", "loop")
  /\ entry' = [dial |-> d, clients |-> {}]
  /\ lost' = lost \cup entry.clients
  /\ UNCHANGED <<tunnel, conn, client, tokens, mute, admin>>

LoopEnds(d) ==
  /\ DialAt(d, "loop", "tell") /\ conn[d] = "down"
  /\ UNCHANGED <<tunnel, conn, entry, client, tokens, mute, admin, lost>>

\* Mutant: only the clients of its own registration.
ClientsOf_own(d) == IF entry.dial = d THEN entry.clients ELSE {}

\* all_client_txs_for_device.
ClientsOf(d) == entry.clients

TellClients(d) ==
  /\ DialAt(d, "tell", "leave")
  /\ lost' = lost \cup (ClientsOf(d) \ mute)
  /\ UNCHANGED <<tunnel, conn, entry, client, tokens, mute, admin>>

\* unregister_bridge, whoever is registered.
Leave(d) ==
  /\ DialAt(d, "leave", "done")
  /\ entry' = NoEntry
  /\ UNCHANGED <<tunnel, conn, client, tokens, mute, admin, lost>>

-----------------------------------------------------------------------------
(* client_attach_loop.                                                      *)

\* On to the next step, or an error to the browser and the end.
Step(c, from, to) == client[c].pc = from /\ client' = [client EXCEPT ![c].pc = to]
Refuse(c, from) ==
  client[c].pc = from /\ client' = [client EXCEPT ![c] = [Unattached EXCEPT !.pc = "refused"]]
Pass(c, from, to, ok) ==
  client[c].pc = from /\ IF ok THEN Step(c, from, to) ELSE Refuse(c, from)

\* A browser presents a token that was minted, for the session of its choice.
Opens(c, t, s) ==
  /\ client[c] = Unattached
  /\ t \in active \cup claimed \/ \E k \in Clients : client[k].tok = t
  /\ client' = [client EXCEPT ![c] = [pc |-> "check", tok |-> t, sess |-> s]]
  /\ UNCHANGED <<bridge, entry, tokens, mute, admin, lost>>

CheckRevoked(c) ==
  /\ Pass(c, "check", "claim", ~revoked)
  /\ UNCHANGED <<bridge, entry, tokens, mute, admin, lost>>

\* Mutant: the token is looked up and stays.
ActiveAfter_kept(t) == active

ActiveAfter(t) == active \ {t}

\* claim_by_opaque takes the token out of the store.
TakeToken(c) ==
  LET t == client[c].tok IN
  /\ Pass(c, "claim", "verify", t \in active)
  /\ active' = ActiveAfter(t)
  /\ UNCHANGED <<bridge, entry, expired, claimed, mute, admin, lost>>

VerifyToken(c) ==
  LET t == client[c].tok IN
  /\ Pass(c, "verify", "mark", t \notin expired \cup claimed /\ ~revoked)
  /\ UNCHANGED <<bridge, entry, tokens, mute, admin, lost>>

\* The nonce is noted, then the binding is compared with the query.
MarkClaimed(c) ==
  LET t == client[c].tok IN
  /\ Pass(c, "mark", "attach", BoundTo[t] = client[c].sess)
  /\ claimed' = claimed \cup {t}
  /\ UNCHANGED <<bridge, entry, active, expired, mute, admin, lost>>

\* One that attaches after an ending dial has listed the clients is removed
\* with the entry.
AttachClient(c) ==
  /\ Step(c, "attach", IF entry = NoEntry THEN "done" ELSE "loop")
  /\ IF entry = NoEntry THEN UNCHANGED <<entry, lost>>
     ELSE /\ entry' = [entry EXCEPT !.clients = @ \cup {c}]
          /\ lost' = IF \E d \in Dials : dial[d] = "leave" THEN lost \cup {c} ELSE lost
  /\ UNCHANGED <<bridge, tokens, mute, admin>>

\* The client's connection closes or fails.
ClientEnds(c) ==
  /\ Step(c, "loop", "detach")
  /\ UNCHANGED <<bridge, entry, tokens, mute, admin, lost>>

\* detach_clients_for: every client of the session.
DetachClients(c) ==
  LET gone == {k \in entry.clients : client[k].sess = client[c].sess} IN
  /\ Step(c, "detach", "done")
  /\ entry' = [entry EXCEPT !.clients = @ \ gone]
  /\ lost' = lost \cup gone
  /\ UNCHANGED <<bridge, tokens, mute, admin>>

\* A send to the browser fails and the writer, a task of its own, breaks; the loop
\* reads on until the browser's stream ends.
WriterEnds(c) ==
  /\ client[c].pc \in {"loop", "detach"} /\ c \notin mute
  /\ mute' = mute \cup {c}
  /\ UNCHANGED <<bridge, entry, client, tokens, admin, lost>>

\* A frame of the bridge for a session: forward_to_clients drops the senders whose
\* writer has ended.
Forward(d, s) ==
  LET gone == {k \in entry.clients \cap mute : client[k].sess = s} IN
  /\ dial[d] = "loop" /\ gone # {}
  /\ entry' = [entry EXCEPT !.clients = @ \ gone]
  /\ UNCHANGED <<bridge, client, mute, tokens, admin, lost>>

-----------------------------------------------------------------------------
(* /admin/pair and /admin/revoke.                                           *)

Mint(t) ==
  /\ t \notin active \cup claimed \cup expired
  /\ \A c \in Clients : client[c].tok # t
  /\ active' = active \cup {t}
  /\ UNCHANGED <<bridge, entry, client, expired, claimed, mute, admin, lost>>

Expire(t) ==
  /\ t \in (active \cap MayExpire) \ expired
  /\ expired' = expired \cup {t}
  /\ UNCHANGED <<bridge, entry, client, active, claimed, mute, admin, lost>>

RevokeDevice ==
  /\ admin = "idle" /\ admin' = "unregister"
  /\ UNCHANGED <<bridge, entry, client, tokens, mute, lost>>

RevokeUnregister ==
  /\ admin = "unregister" /\ admin' = "done"
  /\ entry' = NoEntry /\ lost' = lost \cup entry.clients
  /\ UNCHANGED <<bridge, client, tokens, mute>>

-----------------------------------------------------------------------------
DialSteps(d) ==
  DialRefused(d) \/ DialAllowed(d) \/ RegisterBridge(d) \/ LoopEnds(d) \/ TellClients(d) \/ Leave(d)

ClientSteps(c) ==
  \/ CheckRevoked(c) \/ TakeToken(c) \/ VerifyToken(c) \/ MarkClaimed(c)
  \/ AttachClient(c) \/ DetachClients(c)

RelayNext ==
  \/ \E d \in Dials :
       TunnelDials(d) \/ ConnectionFails(d) \/ DialSteps(d) \/ \E s \in Sessions : Forward(d, s)
  \/ TunnelNotices
  \/ \E c \in Clients :
       ClientSteps(c) \/ ClientEnds(c) \/ WriterEnds(c) \/ \E t \in Tokens, s \in Sessions : Opens(c, t, s)
  \/ \E t \in Tokens : Mint(t) \/ Expire(t)
  \/ RevokeDevice \/ RevokeUnregister

RelaySpec == RelayInit /\ [][RelayNext]_relayVars

-----------------------------------------------------------------------------
(* Properties.                                                              *)

\* A teleport token lets one client in, however many present it at once
\* (TokenStore::claim_by_opaque and claim).
Admitted(c) == client[c].pc \in {"attach", "loop", "detach", "done"}
TokenOnce == \A b, c \in Clients : Admitted(b) /\ Admitted(c) /\ client[b].tok = client[c].tok => b = c

\* A client in its loop without a sender in the registry was told that the
\* bridge is gone (the signal at the end of bridge_dial_loop), whichever dial
\* removed the entry, unless its sender was removed by a new dial, by a
\* client of its session that left, by a revocation, or with an entry whose
\* clients had been listed before it came; or unless its own writer has ended:
\* its reader waits on, and nothing the relay sends can reach its browser.
ToldOfLoss ==
  \A c \in Clients : client[c].pc = "loop" /\ c \notin entry.clients => c \in lost \cup mute
=============================================================================
