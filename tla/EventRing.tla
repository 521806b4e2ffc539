------------------------------ MODULE EventRing ------------------------------
(****************************************************************************)
(* The bounded per-session replay buffer of bridge-core                     *)
(* (packages/bridge-core/src/event_ring.rs).  An event is identified by the *)
(* sequence number the ring gives it, so the buffer is a sequence of        *)
(* numbers; what an event says plays no part in buffering and replay.       *)
(****************************************************************************)
EXTENDS Integers, Sequences

NewRing == [buf |-> << >>, next |-> 1]

\* Mutant: evicts one event too late.
Push_late_eviction(r, cap) ==
  [buf  |-> Append(IF Len(r.buf) > cap THEN Tail(r.buf) ELSE r.buf, r.next),
   next |-> r.next + 1]

\* A full ring forgets its oldest event to make room for the new one.
Push(r, cap) ==
  [buf  |-> Append(IF Len(r.buf) = cap THEN Tail(r.buf) ELSE r.buf, r.next),
   next |-> r.next + 1]

Oldest(r) == r.buf[1]

Latest(r) == r.buf[Len(r.buf)]

\* Position of the first retained event after the cursor k.
FirstAfter(r, k) ==
  CHOOSE i \in 1..Len(r.buf) :
    r.buf[i] > k /\ \A j \in 1..(i - 1) : r.buf[j] <= k

\* `.filter(|(s, _)| *s > last_event_id)` on a buffer whose numbers increase
\* keeps a suffix.
EventsAfter(r, k) == SubSeq(r.buf, FirstAfter(r, k), Len(r.buf))

\* Replay from cursor k: a stream, an out-of-range notice, or nothing.
ReplayAfter(r, k) ==
  IF r.buf = << >> \/ k >= Latest(r)
  THEN [kind |-> "UpToDate", evs |-> << >>]
  ELSE IF k + 1 < Oldest(r)
  THEN [kind |-> "OutOfRange", evs |-> << >>]
  ELSE [kind |-> "Stream", evs |-> EventsAfter(r, k)]

\* r holds the last cap numbers given out, or all of them, in order.
Window(r, cap) ==
  /\ Len(r.buf) = IF r.next - 1 < cap THEN r.next - 1 ELSE cap
  /\ \A i \in 1..Len(r.buf) : r.buf[i] = r.next - 1 - Len(r.buf) + i

=============================================================================
