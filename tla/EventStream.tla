----------------------------- MODULE EventStream -----------------------------
(****************************************************************************)
(* How one session's events reach the WebSocket connections of its clients. *)
(*                                                                          *)
(* Emitters are the tasks that call emit_to (stdout pump, watchdog, prompt  *)
(* tasks, approval timers, command handlers).  emit_to pushes under the     *)
(* ring's write lock, drops the guard, and only then sends on the broadcast *)
(* channel.  A connection has a forwarder task reading the broadcast        *)
(* channel, a main loop that runs handle_replay under the ring's read lock, *)
(* and an outgoing task that drains the bounded `out` channel both of them  *)
(* write to.                                                                *)
(*                                                                          *)
(* A frame is a natural number: an event frame is the event's sequence      *)
(* number, and 0 is the replay.out_of_range frame.                          *)
(****************************************************************************)
EXTENDS EventRing, FiniteSets

CONSTANTS
  Emitters,   \* tasks that emit events on this session
  Conns,      \* WebSocket connections
  RingCap,    \* EventRing capacity (5000 in the code)
  BcastCap,   \* broadcast channel capacity (512)
  OutCap,     \* outgoing mpsc channel capacity (512)
  MaxSeq      \* bound: events emitted in one behaviour

ASSUME CapAssumption ==
  /\ RingCap \in Nat \ {0}
  /\ BcastCap \in Nat \ {0}
  /\ OutCap \in Nat \ {0}
  /\ MaxSeq \in Nat

ASSUME ActorAssumption ==
  /\ Emitters \cap Conns = {}
  /\ IsFiniteSet(Emitters)

VARIABLES
  ring,      \* the EventRing
  lockQ,     \* FIFO of tasks queued for the ring's RwLock
  readers,   \* connections holding the read guard
  em,        \* em[e]: what emitter e is doing, and the seq it was given
  sent,      \* everything sent on the broadcast channel, in sending order
  fw,        \* fw[c]: the forwarder task of connection c
  rp,        \* rp[c]: the replay handler in c's main loop
  out,       \* out[c]: the outgoing channel
  open,      \* open[c]: the receiving half of out[c] still exists
  sock,      \* sock[c]: the socket is up
  stuck,     \* connections that are up and whose peer takes no frame any more
  seen,      \* seen[c]: sequence numbers the client has read
  told,      \* told[c]: the client has read an out-of-range notice
  base       \* base[c]: cursor of c's last replay read made while subscribed

vars == <<ring, lockQ, readers, em, sent, fw, rp, out, open, sock, stuck, seen, told, base>>

Notice == 0

NoBase == -1

Idle == [pc |-> "idle", seq |-> 0]

Init ==
  /\ ring = NewRing
  /\ lockQ = << >>
  /\ readers = {}
  /\ em = [e \in Emitters |-> Idle]
  /\ sent = << >>
  /\ fw = [c \in Conns |-> [pc |-> "none", pos |-> 0, frame |-> 0]]
  /\ rp = [c \in Conns |-> [pc |-> "idle", last |-> 0, todo |-> << >>]]
  /\ out = [c \in Conns |-> << >>]
  /\ open = [c \in Conns |-> TRUE]
  /\ sock = [c \in Conns |-> TRUE]
  /\ stuck = {}
  /\ seen = [c \in Conns |-> {}]
  /\ told = [c \in Conns |-> FALSE]
  /\ base = [c \in Conns |-> NoBase]

-----------------------------------------------------------------------------
\* emit_to, first half: the task queues for the write lock.
EmitBegin(e) ==
  /\ em[e].pc = "idle"
  /\ Cardinality({d \in Emitters : em[d].pc = "wait"}) + ring.next <= MaxSeq
  /\ em' = [em EXCEPT ![e] = [pc |-> "wait", seq |-> 0]]
  /\ lockQ' = Append(lockQ, e)
  /\ UNCHANGED <<ring, readers, sent, fw, rp, out, open, sock, stuck, seen, told, base>>

\* Mutant: stamps the event with the latest number instead of the one pushed.
EmitPush_stale_seq(e) ==
  /\ em[e].pc = "wait"
  /\ lockQ # << >> /\ Head(lockQ) = e
  /\ readers = {}
  /\ lockQ' = Tail(lockQ)
  /\ ring' = Push(ring, RingCap)
  /\ em' = [em EXCEPT ![e] = [pc |-> "send", seq |-> ring.next - 1]]
  /\ UNCHANGED <<readers, sent, fw, rp, out, open, sock, stuck, seen, told, base>>

\* It gets the write lock, pushes, and drops the guard without awaiting.
EmitPush(e) ==
  /\ em[e].pc = "wait"
  /\ lockQ # << >> /\ Head(lockQ) = e
  /\ readers = {}
  /\ lockQ' = Tail(lockQ)
  /\ ring' = Push(ring, RingCap)
  /\ em' = [em EXCEPT ![e] = [pc |-> "send", seq |-> ring.next]]
  /\ UNCHANGED <<readers, sent, fw, rp, out, open, sock, stuck, seen, told, base>>

\* emit_to, second half, outside the lock: send on the broadcast channel.
EmitSend(e) ==
  /\ em[e].pc = "send"
  /\ sent' = Append(sent, em[e].seq)
  /\ em' = [em EXCEPT ![e] = Idle]
  /\ UNCHANGED <<ring, lockQ, readers, fw, rp, out, open, sock, stuck, seen, told, base>>

-----------------------------------------------------------------------------
\* The first command that names the session subscribes the connection: the
\* new receiver starts at the channel's tail.
Subscribe(c) ==
  /\ sock[c] /\ rp[c].pc = "idle"
  /\ fw[c].pc = "none"
  /\ fw' = [fw EXCEPT ![c] = [pc |-> "recv", pos |-> Len(sent), frame |-> 0]]
  /\ UNCHANGED <<ring, lockQ, readers, em, sent, rp, out, open, sock, stuck, seen, told, base>>

Lagged(c) == Len(sent) - fw[c].pos > BcastCap

\* Mutant: a lagged receiver moves on without telling the client.
ForwarderRecv_silent_lag(c) ==
  /\ fw[c].pc = "recv"
  /\ fw[c].pos < Len(sent)
  /\ fw' = [fw EXCEPT ![c] =
              IF Lagged(c)
              THEN [pc |-> "recv", pos |-> Len(sent) - BcastCap, frame |-> 0]
              ELSE [pc |-> "send", pos |-> @.pos + 1, frame |-> sent[@.pos + 1]]]
  /\ UNCHANGED <<ring, lockQ, readers, em, sent, rp, out, open, sock, stuck, seen, told, base>>

\* rx.recv(): the next broadcast event, or Lagged, which moves the receiver to
\* the oldest event the channel still holds.
ForwarderRecv(c) ==
  /\ fw[c].pc = "recv"
  /\ fw[c].pos < Len(sent)
  /\ fw' = [fw EXCEPT ![c] =
              IF Lagged(c)
              THEN [pc |-> "send", pos |-> Len(sent) - BcastCap, frame |-> Notice]
              ELSE [pc |-> "send", pos |-> @.pos + 1, frame |-> sent[@.pos + 1]]]
  /\ UNCHANGED <<ring, lockQ, readers, em, sent, rp, out, open, sock, stuck, seen, told, base>>

\* out_tx.send: waits for room; on a closed channel the task returns after an
\* event and goes on after a notice.
ForwarderSend(c) ==
  /\ fw[c].pc = "send"
  /\ open[c] => Len(out[c]) < OutCap
  /\ out' = [out EXCEPT ![c] = IF open[c] THEN Append(@, fw[c].frame) ELSE @]
  /\ fw' = [fw EXCEPT ![c] =
              [pc |-> IF open[c] \/ @.frame = Notice THEN "recv" ELSE "done",
               pos |-> @.pos, frame |-> @.frame]]
  /\ UNCHANGED <<ring, lockQ, readers, em, sent, rp, open, sock, stuck, seen, told, base>>

-----------------------------------------------------------------------------
\* A replay.request with cursor k: the handler queues for the read lock.
ReplayRequest(c, k) ==
  /\ sock[c] /\ rp[c].pc = "idle"
  /\ rp' = [rp EXCEPT ![c] = [pc |-> "wait", last |-> k, todo |-> << >>]]
  /\ lockQ' = Append(lockQ, c)
  /\ UNCHANGED <<ring, readers, em, sent, fw, out, open, sock, stuck, seen, told, base>>

\* It gets the read lock and takes what the ring has after the cursor.  With
\* nothing to send the guard drops at once; otherwise it is kept while the
\* frames are sent.
ReplayRead(c) ==
  /\ rp[c].pc = "wait"
  /\ lockQ # << >> /\ Head(lockQ) = c
  /\ lockQ' = Tail(lockQ)
  /\ LET r == ReplayAfter(ring, rp[c].last)
         todo == IF r.kind = "OutOfRange" THEN <<Notice>> ELSE r.evs
     IN  /\ readers' = IF todo = << >> THEN readers ELSE readers \cup {c}
         /\ rp' = [rp EXCEPT ![c] = [pc |-> IF todo = << >> THEN "idle" ELSE "send",
                                     last |-> @.last, todo |-> todo]]
  /\ base' = [base EXCEPT ![c] = IF fw[c].pc = "none" THEN @ ELSE rp[c].last]
  /\ UNCHANGED <<ring, em, sent, fw, out, open, sock, stuck, seen, told>>

\* Mutant: waits for room in a channel nobody drains any more.
ReplaySend_waits_when_closed(c) ==
  /\ rp[c].pc = "send"
  /\ open[c] /\ Len(out[c]) < OutCap
  /\ out' = [out EXCEPT ![c] = Append(@, Head(rp[c].todo))]
  /\ rp' = [rp EXCEPT ![c] = [pc |-> IF Len(@.todo) = 1 THEN "idle" ELSE "send",
                              last |-> @.last, todo |-> Tail(@.todo)]]
  /\ readers' = IF Len(rp[c].todo) = 1 THEN readers \ {c} ELSE readers
  /\ UNCHANGED <<ring, lockQ, em, sent, fw, open, sock, stuck, seen, told, base>>

\* One out_tx.send of the replay loop, still under the read lock; errors of a
\* closed channel are ignored.  The guard drops after the last frame.
ReplaySend(c) ==
  /\ rp[c].pc = "send"
  /\ open[c] => Len(out[c]) < OutCap
  /\ out' = [out EXCEPT ![c] = IF open[c] THEN Append(@, Head(rp[c].todo)) ELSE @]
  /\ rp' = [rp EXCEPT ![c] = [pc |-> IF Len(@.todo) = 1 THEN "idle" ELSE "send",
                              last |-> @.last, todo |-> Tail(@.todo)]]
  /\ readers' = IF Len(rp[c].todo) = 1 THEN readers \ {c} ELSE readers
  /\ UNCHANGED <<ring, lockQ, em, sent, fw, open, sock, stuck, seen, told, base>>

-----------------------------------------------------------------------------
\* The outgoing task writes one frame to the socket.
OutgoingWrite(c) ==
  /\ open[c] /\ sock[c] /\ c \notin stuck /\ out[c] # << >>
  /\ out' = [out EXCEPT ![c] = Tail(@)]
  /\ seen' = [seen EXCEPT ![c] = @ \cup ({Head(out[c])} \ {Notice})]
  /\ told' = [told EXCEPT ![c] = @ \/ Head(out[c]) = Notice]
  /\ UNCHANGED <<ring, lockQ, readers, em, sent, fw, rp, open, sock, stuck, base>>

\* The write fails on a dead socket: the task returns and drops its receiver.
OutgoingFail(c) ==
  /\ open[c] /\ ~sock[c] /\ out[c] # << >>
  /\ out' = [out EXCEPT ![c] = << >>]
  /\ open' = [open EXCEPT ![c] = FALSE]
  /\ UNCHANGED <<ring, lockQ, readers, em, sent, fw, rp, sock, stuck, seen, told, base>>

\* The peer goes away (Close frame or transport error).
SocketDies(c) ==
  /\ sock[c]
  /\ sock' = [sock EXCEPT ![c] = FALSE]
  /\ stuck' = stuck \ {c}
  /\ UNCHANGED <<ring, lockQ, readers, em, sent, fw, rp, out, open, seen, told, base>>

\* A peer that stays connected may never take the next frame.
PeerStalls(c) ==
  /\ sock[c] /\ out[c] # << >>
  /\ stuck' = stuck \cup {c}
  /\ UNCHANGED <<ring, lockQ, readers, em, sent, fw, rp, out, open, sock, seen, told, base>>

\* The main loop, between two messages, sees the end of the socket and aborts
\* the outgoing task.
MainLoopExit(c) ==
  /\ ~sock[c] /\ open[c] /\ rp[c].pc = "idle"
  /\ open' = [open EXCEPT ![c] = FALSE]
  /\ out' = [out EXCEPT ![c] = << >>]
  /\ UNCHANGED <<ring, lockQ, readers, em, sent, fw, rp, sock, stuck, seen, told, base>>

Next ==
  \/ \E e \in Emitters : EmitBegin(e) \/ EmitPush(e) \/ EmitSend(e)
  \/ \E c \in Conns :
       \/ Subscribe(c) \/ ForwarderRecv(c) \/ ForwarderSend(c)
       \/ \E k \in 0..MaxSeq : ReplayRequest(c, k)
       \/ ReplayRead(c) \/ ReplaySend(c)
       \/ OutgoingWrite(c) \/ OutgoingFail(c)
       \/ SocketDies(c) \/ PeerStalls(c) \/ MainLoopExit(c)

Spec == Init /\ [][Next]_vars

\* Tasks that can run do run (tokio polls every ready task), and a socket takes
\* the frame when the peer reads, and fails when it is gone.  Nothing makes a
\* peer read, or go: a write has no time limit.  Senders waiting for room
\* in an mpsc channel are served in FIFO order, so none of them starves: that
\* is strong fairness of the two sends.
Fairness ==
  /\ \A e \in Emitters : WF_vars(EmitPush(e)) /\ WF_vars(EmitSend(e))
  /\ \A c \in Conns :
       /\ WF_vars(ForwarderRecv(c)) /\ SF_vars(ForwarderSend(c))
       /\ WF_vars(ReplayRead(c)) /\ SF_vars(ReplaySend(c))
       /\ WF_vars(OutgoingWrite(c)) /\ WF_vars(OutgoingFail(c))
       /\ WF_vars(MainLoopExit(c))

FairSpec == Spec /\ Fairness

-----------------------------------------------------------------------------
Actors == Emitters \cup Conns

Seqno == Nat \ {0}

TypeOK ==
  /\ ring \in [buf : Seq(Seqno), next : Seqno]
  /\ lockQ \in Seq(Actors)
  /\ readers \subseteq Conns
  /\ em \in [Emitters -> [pc : {"idle", "wait", "send"}, seq : Nat]]
  /\ sent \in Seq(Seqno)
  /\ fw \in [Conns -> [pc : {"none", "recv", "send", "done"}, pos : Nat, frame : Nat]]
  /\ rp \in [Conns -> [pc : {"idle", "wait", "send"}, last : Nat, todo : Seq(Nat)]]
  /\ out \in [Conns -> Seq(Nat)]
  /\ open \in [Conns -> BOOLEAN]
  /\ sock \in [Conns -> BOOLEAN]
  /\ stuck \subseteq Conns
  /\ seen \in [Conns -> SUBSET Seqno]
  /\ told \in [Conns -> BOOLEAN]
  /\ base \in [Conns -> Nat \cup {NoBase}]
  /\ \A e \in Emitters : em[e].pc = "send" => em[e].seq \in Seqno
  /\ \A c \in Conns : fw[c].pos <= Len(sent)
  /\ \A c \in Conns : rp[c].pc = "send" => rp[c].todo # << >>

\* The ring retains exactly the last RingCap events, without a hole: what
\* EventRing::push and its eviction must maintain for replay_after to be able
\* to tell "out of range" from the two end points alone.
RingWindow == Window(ring, RingCap)

InFlight == {em[e].seq : e \in {d \in Emitters : em[d].pc = "send"}}

\* Every number the ring has given out is on the broadcast channel or still in
\* the hands of the one emitter that got it, never both and never twice:
\* although emit_to sends after unlocking, the live stream is a permutation of
\* the ring's history up to the events in flight.
LiveAccounted ==
  /\ 1..(ring.next - 1) = InFlight \cup {sent[i] : i \in 1..Len(sent)}
  /\ \A i, j \in 1..Len(sent) : sent[i] = sent[j] => i = j
  /\ \A i \in 1..Len(sent) : sent[i] \notin InFlight
  /\ \A d, e \in Emitters :
       em[d].pc = "send" /\ em[e].pc = "send" /\ em[d].seq = em[e].seq => d = e

\* What connection c still has to deliver, or has already delivered.
Covered(c) ==
  seen[c] \cup {out[c][i] : i \in 1..Len(out[c])}
          \cup {rp[c].todo[i] : i \in 1..Len(rp[c].todo)}
          \cup (IF fw[c].pc = "send" THEN {fw[c].frame} ELSE {})
          \cup {sent[i] : i \in (fw[c].pos + 1)..Len(sent)}

\* A client that subscribes (any command) and then replays from cursor k on
\* the same connection misses no event after k, whatever the emitters, the
\* forwarder, the lag and the eviction do meanwhile, unless it is told
\* replay.out_of_range: each event is read, queued for it, in its replay, at
\* its forwarder, ahead of its forwarder on the channel, or not yet sent.
NoSilentGap ==
  \A c \in Conns :
    open[c] /\ base[c] # NoBase /\ ~told[c] /\ Notice \notin Covered(c) =>
      \A s \in 1..(ring.next - 1) : s > base[c] => s \in Covered(c) \cup InFlight

\* Only a peer that has stopped reading holds up a session: an emitter that asks
\* for the ring's lock gets it and finishes, however many clients replay and
\* whatever dies, or there is a replay under the read guard (ws/handler.rs
\* handle_replay) whose peer is connected and takes nothing.
EmitterProgress ==
  \A e \in Emitters :
    em[e].pc = "wait" ~>
      \/ em[e].pc = "idle"
      \/ readers \cap stuck # {}
=============================================================================
