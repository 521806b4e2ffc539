-------------------------- MODULE Transport_proofs --------------------------
(****************************************************************************)
(* Proofs about how events and frames reach a client: EventStream, for all  *)
(* numbers of emitters and connections and all capacities (a connection     *)
(* that keeps its socket has seen every event), then Relay (one client per  *)
(* token, and no client that loses its bridge without anybody noticing),    *)
(* for any number of clients, tokens and dials.  The two share nothing but  *)
(* this file.                                                               *)
(****************************************************************************)
EXTENDS EventStream, Relay, TLAPS, SequenceTheorems

Ring == [buf : Seq(Seqno), next : Seqno]

\* EventRing::new starts with an empty window.
LEMMA NewRingWindow ==
  ASSUME NEW cap \in Nat \ {0}
  PROVE  NewRing \in Ring /\ Window(NewRing, cap)
BY DEF NewRing, Ring, Seqno, Window

\* EventRing::push keeps the window contiguous and at most cap long.
LEMMA PushWindow ==
  ASSUME NEW cap \in Nat \ {0}, NEW r \in Ring, Window(r, cap)
  PROVE  Push(r, cap) \in Ring /\ Window(Push(r, cap), cap)
<1> DEFINE n == Len(r.buf)
           kept == IF n = cap THEN Tail(r.buf) ELSE r.buf
           q == Push(r, cap)
<1>1. r.buf \in Seq(Seqno) /\ r.next \in Seqno /\ n \in Nat
  BY DEF Ring
<1>2. n = (IF r.next - 1 < cap THEN r.next - 1 ELSE cap)
      /\ \A i \in 1..n : r.buf[i] = r.next - 1 - n + i
  BY DEF Window
<1>3. kept \in Seq(Seqno)
  BY <1>1
<1>4. Len(kept) = IF n = cap THEN n - 1 ELSE n
  BY <1>1
<1>5. \A i \in 1..Len(kept) : kept[i] = r.next - 1 - Len(kept) + i
  <2>1. CASE n = cap
    <3>1. \A i \in 1..(n - 1) : Tail(r.buf)[i] = r.buf[i + 1]
      BY <1>1, <2>1
    <3>2. kept = Tail(r.buf) /\ Len(kept) = n - 1
      BY <2>1, <1>4
    <3>3. \A i \in 1..(n - 1) : r.buf[i + 1] = r.next - 1 - (n - 1) + i
      <4> TAKE i \in 1..(n - 1)
      <4>1. i + 1 \in 1..n
        BY <1>1
      <4>2. r.buf[i + 1] = r.next - 1 - n + (i + 1)
        BY <4>1, <1>2
      <4>3. r.next \in Int /\ n \in Int /\ i \in Int
        BY <1>1 DEF Seqno
      <4> HIDE DEF n
      <4> QED BY <4>2, <4>3
    <3> QED BY <3>1, <3>2, <3>3
  <2>2. CASE n # cap
    BY <2>2, <1>1, <1>2 DEF Seqno
  <2> QED BY <2>1, <2>2
<1>6. q.buf = Append(kept, r.next) /\ q.next = r.next + 1
  BY DEF Push
<1>7. q \in Ring
  BY <1>1, <1>3, <1>6 DEF Push, Ring, Seqno
<1>8. Len(q.buf) = Len(kept) + 1
  BY <1>1, <1>3, <1>6
<1>9. ASSUME NEW i \in 1..Len(q.buf)
      PROVE  q.buf[i] = q.next - 1 - Len(q.buf) + i
  <2>1. CASE i = Len(kept) + 1
    <3>1. q.buf[i] = r.next
      BY <2>1, <1>1, <1>3, <1>6
    <3>2. r.next \in Int /\ Len(kept) \in Int
      BY <1>1, <1>3 DEF Seqno
    <3>3. q.next - 1 - Len(q.buf) + i = r.next
      <4> HIDE DEF kept, q
      <4> QED BY <3>2, <2>1, <1>6, <1>8
    <3> QED BY <3>1, <3>3
  <2>2. CASE i \in 1..Len(kept)
    <3>1. q.buf[i] = kept[i]
      BY <2>2, <1>1, <1>3, <1>6
    <3>2. kept[i] = r.next - 1 - Len(kept) + i
      BY <2>2, <1>5
    <3>3. r.next \in Int /\ Len(kept) \in Int /\ i \in Int
      BY <1>1, <1>3 DEF Seqno
    <3>4. q.next - 1 - Len(q.buf) + i = r.next - 1 - Len(kept) + i
      <4> HIDE DEF kept
      <4> QED BY <3>3, <1>6, <1>8
    <3> QED BY <3>1, <3>2, <3>4
  <2> QED BY <2>1, <2>2, <1>3, <1>8
<1>10. Len(q.buf) = IF q.next - 1 < cap THEN q.next - 1 ELSE cap
  BY <1>1, <1>2, <1>4, <1>6, <1>8 DEF Seqno
<1>11. Window(q, cap)
  BY <1>9, <1>10 DEF Window
<1> QED BY <1>7, <1>11

\* The suffix of a contiguous buffer after a cursor inside its range.
LEMMA SuffixAfter ==
  ASSUME NEW b \in Seq(Seqno), NEW o \in Nat, NEW k \in Nat,
         \A i \in 1..Len(b) : b[i] = o + i,
         o <= k, k < o + Len(b)
  PROVE  LET w == CHOOSE i \in 1..Len(b) :
                    b[i] > k /\ \A j \in 1..(i - 1) : b[j] <= k
             t == SubSeq(b, w, Len(b))
         IN  /\ t \in Seq(Seqno)
             /\ Len(t) = o + Len(b) - k
             /\ \A j \in 1..Len(t) : t[j] = k + j
<1> DEFINE P(i) == b[i] > k /\ \A j \in 1..(i - 1) : b[j] <= k
           w == CHOOSE i \in 1..Len(b) : P(i)
           v == k - o + 1
           t == SubSeq(b, v, Len(b))
<1>0. Len(b) \in Nat /\ \A i \in 1..Len(b) : b[i] \in Seqno
  OBVIOUS
<1>1. v \in 1..Len(b)
  BY <1>0
<1>2. b[v] = k + 1
  BY <1>1, <1>0
<1>3. P(v)
  BY <1>0, <1>1, <1>2
<1>4. ASSUME NEW i \in 1..Len(b), P(i) PROVE i = v
  <2>1. b[i] = o + i
    OBVIOUS
  <2>2. i >= v
    BY <2>1, <1>4
  <2>3. ~(v \in 1..(i - 1))
    BY <1>4, <1>2
  <2> QED BY <2>2, <2>3, <1>1, <1>0
<1>5. w = v
  BY <1>1, <1>3, <1>4
<1>6. \A i \in v..Len(b) : b[i] \in Seqno
  BY <1>0, <1>1
<1>7. v \in Int /\ Len(b) \in Int
  BY <1>0, <1>1
<1> HIDE DEF v
<1>8. /\ t \in Seq(Seqno)
      /\ Len(t) = IF v <= Len(b) THEN Len(b) - v + 1 ELSE 0
      /\ \A i \in 1..(Len(b) - v + 1) : t[i] = b[v + i - 1]
  BY <1>6, <1>7, SubSeqProperties
<1>9. Len(t) = Len(b) - v + 1
  BY <1>8, <1>1, <1>0
<1>10. ASSUME NEW j \in 1..Len(t) PROVE t[j] = k + j
  <2>1. t[j] = b[v + j - 1] /\ v + j - 1 \in 1..Len(b)
    BY <1>8, <1>9, <1>1, <1>0
  <2>2. b[v + j - 1] = o + (v + j - 1)
    BY <2>1
  <2> QED BY <2>1, <2>2, <1>1 DEF v
<1>11. Len(t) = o + Len(b) - k
  BY <1>9, <1>0 DEF v
<1>12. (CHOOSE i \in 1..Len(b) : b[i] > k /\ \A j \in 1..(i - 1) : b[j] <= k) = v
  BY <1>5
<1> HIDE DEF w
<1> QED BY <1>12, <1>8, <1>10, <1>11

\* replay_after on a contiguous ring: a stream is exactly the events after the
\* cursor up to the newest one, and "up to date" means there are none.
LEMMA ReplayAfterExact ==
  ASSUME NEW cap \in Nat \ {0}, NEW r \in Ring, Window(r, cap), NEW k \in Nat
  PROVE  LET a == ReplayAfter(r, k) IN
         /\ a.kind \in {"UpToDate", "OutOfRange", "Stream"}
         /\ a.evs \in Seq(Seqno)
         /\ a.kind = "UpToDate" => a.evs = << >> /\ k >= r.next - 1
         /\ a.kind = "OutOfRange" => a.evs = << >>
         /\ a.kind = "Stream" => /\ k < r.next - 1
                                 /\ Len(a.evs) = r.next - 1 - k
                                 /\ \A j \in 1..Len(a.evs) : a.evs[j] = k + j
<1> DEFINE n == Len(r.buf)
           o == r.next - 1 - n
<1>1. r.buf \in Seq(Seqno) /\ r.next \in Nat \ {0} /\ n \in Nat
  BY DEF Ring, Seqno
<1>2. n = (IF r.next - 1 < cap THEN r.next - 1 ELSE cap)
      /\ \A i \in 1..n : r.buf[i] = o + i
  BY DEF Window
<1>3. o \in Nat
  BY <1>1, <1>2
<1>4. CASE r.buf = << >> \/ k >= Latest(r)
  <2>1. CASE r.buf = << >>
    <3>1. n = 0
      BY <2>1
    <3>2. k >= r.next - 1
      BY <3>1, <1>1, <1>2
    <3> QED BY <1>4, <3>2 DEF ReplayAfter
  <2>2. CASE r.buf # << >>
    <3>1. n \in 1..n
      BY <2>2, <1>1
    <3>2. Latest(r) = o + n
      BY <3>1, <1>2 DEF Latest
    <3>3. k >= r.next - 1
      BY <3>2, <2>2, <1>4, <1>1
    <3> QED BY <1>4, <3>3 DEF ReplayAfter
  <2> QED BY <2>1, <2>2
<1>5. CASE ~(r.buf = << >> \/ k >= Latest(r)) /\ k + 1 < Oldest(r)
  BY <1>5 DEF ReplayAfter
<1>6. CASE ~(r.buf = << >> \/ k >= Latest(r)) /\ ~(k + 1 < Oldest(r))
  <2>1. n > 0
    BY <1>1, <1>6
  <2>2. Latest(r) = o + n /\ Oldest(r) = o + 1
    <3>1. 1 \in 1..n /\ n \in 1..n
      BY <2>1, <1>1
    <3>2. r.buf[1] = o + 1 /\ r.buf[n] = o + n
      BY <3>1, <1>2
    <3> QED BY <3>2 DEF Latest, Oldest
  <2>3. o <= k /\ k < o + n
    BY <2>2, <1>6, <1>1, <1>3
  <2>4. /\ EventsAfter(r, k) \in Seq(Seqno)
        /\ Len(EventsAfter(r, k)) = o + n - k
        /\ \A j \in 1..Len(EventsAfter(r, k)) : EventsAfter(r, k)[j] = k + j
    <3> HIDE DEF o
    <3> QED BY <2>3, <1>1, <1>2, <1>3, SuffixAfter DEF EventsAfter, FirstAfter
  <2>5. ReplayAfter(r, k) = [kind |-> "Stream", evs |-> EventsAfter(r, k)]
    BY <1>6 DEF ReplayAfter
  <2> QED BY <2>3, <2>4, <2>5, <1>1
<1> QED BY <1>4, <1>5, <1>6

-----------------------------------------------------------------------------
\* The inductive invariant of the first two theorems: replay_after only
\* returns well-typed frames from a contiguous ring.
RingInv == TypeOK /\ RingWindow

\* The invariant holds before the first event.
LEMMA InitRingInv == Init => RingInv
<1> SUFFICES ASSUME Init PROVE RingInv
  OBVIOUS
<1> USE DEF Init
<1>1. ring \in Ring /\ Window(ring, RingCap)
  BY NewRingWindow, CapAssumption
<1>2. TypeOK
  BY <1>1 DEF TypeOK, Ring, Seqno, Idle, NoBase
<1> QED BY <1>1, <1>2 DEF RingInv, RingWindow

\* Every step of emitters, forwarders, replays and sockets preserves it.
LEMMA NextRingInv == RingInv /\ [Next]_vars => RingInv'
<1> SUFFICES ASSUME RingInv, [Next]_vars PROVE RingInv'
  OBVIOUS
<1>0. TypeOK /\ Window(ring, RingCap) /\ ring \in Ring
  BY DEF RingInv, RingWindow, TypeOK, Ring
<1>1. ASSUME NEW e \in Emitters, EmitBegin(e) PROVE RingInv'
  <2> USE <1>1 DEF EmitBegin
  <2>1. TypeOK'
    BY <1>0 DEF TypeOK, Actors
  <2> QED BY <2>1, <1>0 DEF RingInv, RingWindow
<1>2. ASSUME NEW e \in Emitters, EmitPush(e) PROVE RingInv'
  <2> USE <1>2 DEF EmitPush
  <2>1. ring' \in Ring /\ Window(ring', RingCap)
    BY <1>0, PushWindow, CapAssumption
  <2>2. lockQ' \in Seq(Actors)
    BY <1>0 DEF TypeOK
  <2>3. em' \in [Emitters -> [pc : {"idle", "wait", "send"}, seq : Nat]]
        /\ \A d \in Emitters : em'[d].pc = "send" => em'[d].seq \in Seqno
    BY <1>0 DEF TypeOK, Ring, Seqno
  <2>4. TypeOK'
    BY <1>0, <2>1, <2>2, <2>3 DEF TypeOK, Ring
  <2> QED BY <2>1, <2>4 DEF RingInv, RingWindow
<1>3. ASSUME NEW e \in Emitters, EmitSend(e) PROVE RingInv'
  <2> USE <1>3 DEF EmitSend
  <2>1. sent' \in Seq(Seqno) /\ Len(sent') = Len(sent) + 1
    BY <1>0 DEF TypeOK
  <2>2. TypeOK'
    BY <1>0, <2>1 DEF TypeOK, Idle
  <2> QED BY <2>2, <1>0 DEF RingInv, RingWindow
<1>4. ASSUME NEW c \in Conns, Subscribe(c) PROVE RingInv'
  <2> USE <1>4 DEF Subscribe
  <2>1. TypeOK'
    BY <1>0 DEF TypeOK
  <2> QED BY <2>1, <1>0 DEF RingInv, RingWindow
<1>5. ASSUME NEW c \in Conns, ForwarderRecv(c) PROVE RingInv'
  <2> USE <1>5 DEF ForwarderRecv
  <2>1. Len(sent) \in Nat /\ fw[c].pos \in Nat /\ fw[c].pos + 1 \in 1..Len(sent)
    BY <1>0 DEF TypeOK
  <2>2. sent[fw[c].pos + 1] \in Nat
    BY <1>0, <2>1 DEF TypeOK, Seqno
  <2>3. Lagged(c) => Len(sent) - BcastCap \in Nat /\ Len(sent) - BcastCap <= Len(sent)
    BY <2>1, CapAssumption DEF Lagged
  <2>4. fw' \in [Conns -> [pc : {"none", "recv", "send", "done"}, pos : Nat, frame : Nat]]
    BY <1>0, <2>1, <2>2, <2>3 DEF TypeOK, Notice
  <2>5. \A d \in Conns : fw'[d].pos <= Len(sent)
    BY <1>0, <2>1, <2>3 DEF TypeOK
  <2>6. TypeOK'
    BY <1>0, <2>4, <2>5 DEF TypeOK
  <2> QED BY <2>6, <1>0 DEF RingInv, RingWindow
<1>6. ASSUME NEW c \in Conns, ForwarderSend(c) PROVE RingInv'
  <2> USE <1>6 DEF ForwarderSend
  <2>1. out' \in [Conns -> Seq(Nat)]
    BY <1>0 DEF TypeOK
  <2>2. fw' \in [Conns -> [pc : {"none", "recv", "send", "done"}, pos : Nat, frame : Nat]]
        /\ \A d \in Conns : fw'[d].pos = fw[d].pos
    BY <1>0 DEF TypeOK
  <2>3. \A d \in Conns : fw'[d].pos <= Len(sent')
    BY <1>0, <2>2 DEF TypeOK
  <2> HIDE DEF ForwarderSend
  <2>4. UNCHANGED <<ring, lockQ, readers, em, sent, rp, open, sock, stuck, seen, told, base>>
    BY DEF ForwarderSend
  <2>5. TypeOK'
    BY <1>0, <2>1, <2>2, <2>3, <2>4 DEF TypeOK
  <2> QED BY <2>5, <2>4, <1>0 DEF RingInv, RingWindow
<1>7. ASSUME NEW c \in Conns, NEW k \in 0..MaxSeq, ReplayRequest(c, k) PROVE RingInv'
  <2> USE <1>7 DEF ReplayRequest
  <2>1. lockQ' \in Seq(Actors)
    BY <1>0 DEF TypeOK, Actors
  <2>2. k \in Nat
    BY CapAssumption
  <2>3. rp' \in [Conns -> [pc : {"idle", "wait", "send"}, last : Nat, todo : Seq(Nat)]]
    BY <1>0, <2>2 DEF TypeOK
  <2>4. \A d \in Conns : rp'[d].pc = "send" => rp'[d].todo # << >>
    BY <1>0 DEF TypeOK
  <2>5. UNCHANGED <<ring, readers, em, sent, fw, out, open, sock, stuck, seen, told, base>>
    OBVIOUS
  <2> HIDE <1>7 DEF ReplayRequest
  <2>6. TypeOK'
    BY <1>0, <2>1, <2>3, <2>4, <2>5 DEF TypeOK
  <2> QED BY <2>6, <2>5, <1>0 DEF RingInv, RingWindow
<1>8. ASSUME NEW c \in Conns, ReplayRead(c) PROVE RingInv'
  <2> USE <1>8
  <2> DEFINE r == ReplayAfter(ring, rp[c].last)
             todo == IF r.kind = "OutOfRange" THEN <<Notice>> ELSE r.evs
  <2>1. todo \in Seq(Nat)
    <3>1. rp[c].last \in Nat
      BY <1>0 DEF TypeOK
    <3>2. r.evs \in Seq(Seqno)
      BY <1>0, <3>1, ReplayAfterExact, CapAssumption
    <3>3. r.evs \in Seq(Nat)
      BY <3>2 DEF Seqno
    <3> QED BY <3>3 DEF Notice
  <2>2. /\ readers' = IF todo = << >> THEN readers ELSE readers \cup {c}
        /\ rp' = [rp EXCEPT ![c] = [pc |-> IF todo = << >> THEN "idle" ELSE "send",
                                    last |-> rp[c].last, todo |-> todo]]
    BY DEF ReplayRead
  <2> HIDE DEF todo
  <2>3. lockQ' \in Seq(Actors)
    BY <1>0 DEF TypeOK, ReplayRead
  <2>4. base' \in [Conns -> Nat \cup {NoBase}]
    BY <1>0 DEF TypeOK, ReplayRead
  <2>6. rp' \in [Conns -> [pc : {"idle", "wait", "send"}, last : Nat, todo : Seq(Nat)]]
        /\ \A d \in Conns : rp'[d].pc = "send" => rp'[d].todo # << >>
    <3>1. rp \in [Conns -> [pc : {"idle", "wait", "send"}, last : Nat, todo : Seq(Nat)]]
          /\ \A d \in Conns : rp[d].pc = "send" => rp[d].todo # << >>
      BY <1>0 DEF TypeOK
    <3> DEFINE n == [pc |-> IF todo = << >> THEN "idle" ELSE "send",
                     last |-> rp[c].last, todo |-> todo]
    <3>2. n \in [pc : {"idle", "wait", "send"}, last : Nat, todo : Seq(Nat)]
          /\ (n.pc = "send" => n.todo # << >>)
      BY <3>1, <2>1
    <3>3. rp' = [rp EXCEPT ![c] = n]
      BY <2>2
    <3> HIDE DEF n
    <3> QED BY <3>1, <3>2, <3>3
  <2>7. TypeOK'
    BY <1>0, <2>2, <2>3, <2>4, <2>6 DEF TypeOK, ReplayRead
  <2> QED BY <2>7, <1>0 DEF RingInv, RingWindow, ReplayRead
<1>9. ASSUME NEW c \in Conns, ReplaySend(c) PROVE RingInv'
  <2> USE <1>9 DEF ReplaySend
  <2>1. rp[c].todo \in Seq(Nat) /\ rp[c].todo # << >>
    BY <1>0 DEF TypeOK
  <2>2. Head(rp[c].todo) \in Nat /\ Tail(rp[c].todo) \in Seq(Nat)
        /\ Len(Tail(rp[c].todo)) = Len(rp[c].todo) - 1
    BY <2>1
  <2>3. out' \in [Conns -> Seq(Nat)]
    <3>1. out \in [Conns -> Seq(Nat)]
      BY <1>0 DEF TypeOK
    <3>2. Append(out[c], Head(rp[c].todo)) \in Seq(Nat)
      BY <3>1, <2>2
    <3>3. \E x \in Seq(Nat) : out' = [out EXCEPT ![c] = x]
      <4>1. CASE open[c]
        BY <4>1, <3>1, <3>2
      <4>2. CASE ~open[c]
        BY <4>2, <3>1
      <4> QED BY <4>1, <4>2
    <3> QED BY <3>1, <3>3
  <2>4. rp' = [rp EXCEPT ![c] = [pc |-> IF Len(rp[c].todo) = 1 THEN "idle" ELSE "send",
                                 last |-> rp[c].last, todo |-> Tail(rp[c].todo)]]
    OBVIOUS
  <2>5. Len(rp[c].todo) # 1 => Tail(rp[c].todo) # << >>
    <3> HIDE <1>9 DEF ReplaySend
    <3>1. Len(rp[c].todo) \in Nat \ {0}
      BY <2>1
    <3>2. Tail(rp[c].todo) = << >> => Len(Tail(rp[c].todo)) = 0
      BY EmptySeq
    <3> QED BY <3>1, <3>2, <2>2
  <2> DEFINE x == [pc |-> IF Len(rp[c].todo) = 1 THEN "idle" ELSE "send",
                   last |-> rp[c].last, todo |-> Tail(rp[c].todo)]
             RP == [pc : {"idle", "wait", "send"}, last : Nat, todo : Seq(Nat)]
  <2>6. rp' \in [Conns -> RP] /\ \A d \in Conns : rp'[d].pc = "send" => rp'[d].todo # << >>
    <3> HIDE <1>9 DEF ReplaySend
    <3>1. rp \in [Conns -> RP] /\ \A d \in Conns : rp[d].pc = "send" => rp[d].todo # << >>
      BY <1>0 DEF TypeOK
    <3>2. x \in RP
      <4>1. rp[c].last \in Nat
        BY <3>1
      <4> QED BY <4>1, <2>2
    <3>3. x.pc = "send" => x.todo # << >>
      BY <2>5
    <3>4. rp' = [rp EXCEPT ![c] = x]
      BY <2>4
    <3> HIDE DEF x, RP
    <3>5. rp' \in [Conns -> RP]
      BY <3>1, <3>2, <3>4
    <3>6. ASSUME NEW d \in Conns PROVE rp'[d].pc = "send" => rp'[d].todo # << >>
      <4>1. CASE d = c
        BY <4>1, <3>1, <3>3, <3>4
      <4>2. CASE d # c
        BY <4>2, <3>1, <3>4
      <4> QED BY <4>1, <4>2
    <3> QED BY <3>5, <3>6
  <2> HIDE <1>9 DEF ReplaySend
  <2>8. UNCHANGED <<ring, lockQ, em, sent, fw, open, sock, stuck, seen, told, base>>
        /\ readers' \in {readers, readers \ {c}}
    BY <1>9 DEF ReplaySend
  <2>7. TypeOK'
    BY <1>0, <2>3, <2>6, <2>8 DEF TypeOK
  <2> QED BY <2>7, <2>8, <1>0 DEF RingInv, RingWindow
<1>10. ASSUME NEW c \in Conns, OutgoingWrite(c) PROVE RingInv'
  <2> USE <1>10 DEF OutgoingWrite
  <2>1. Head(out[c]) \in Nat /\ Tail(out[c]) \in Seq(Nat)
    BY <1>0 DEF TypeOK
  <2>2. out' \in [Conns -> Seq(Nat)]
    BY <1>0, <2>1 DEF TypeOK
  <2>3. seen' \in [Conns -> SUBSET Seqno]
    <3>1. {Head(out[c])} \ {Notice} \in SUBSET Seqno
      BY <2>1 DEF Notice, Seqno
    <3> HIDE DEF Seqno
    <3> QED BY <3>1, <1>0 DEF TypeOK
  <2>4. told' \in [Conns -> BOOLEAN]
    BY <1>0 DEF TypeOK
  <2>5. TypeOK'
    BY <1>0, <2>2, <2>3, <2>4 DEF TypeOK
  <2> QED BY <2>5, <1>0 DEF RingInv, RingWindow
<1>14. ASSUME NEW c \in Conns, OutgoingFail(c) PROVE RingInv'
  <2> USE <1>14 DEF OutgoingFail
  <2>1. TypeOK'
    BY <1>0 DEF TypeOK
  <2> QED BY <2>1, <1>0 DEF RingInv, RingWindow
<1>11. ASSUME NEW c \in Conns, SocketDies(c) PROVE RingInv'
  <2> USE <1>11 DEF SocketDies
  <2>1. TypeOK'
    BY <1>0 DEF TypeOK
  <2> QED BY <2>1, <1>0 DEF RingInv, RingWindow
<1>12. ASSUME NEW c \in Conns, MainLoopExit(c) PROVE RingInv'
  <2> USE <1>12 DEF MainLoopExit
  <2>1. TypeOK'
    BY <1>0 DEF TypeOK
  <2> QED BY <2>1, <1>0 DEF RingInv, RingWindow
<1>15. ASSUME NEW c \in Conns, PeerStalls(c) PROVE RingInv'
  BY <1>15, <1>0 DEF PeerStalls, RingInv, RingWindow, TypeOK
<1>13. CASE UNCHANGED vars
  BY <1>13, <1>0 DEF vars, RingInv, RingWindow, TypeOK
<1> QED
  BY <1>1, <1>2, <1>3, <1>4, <1>5, <1>6, <1>7, <1>8, <1>9, <1>10, <1>11, <1>12, <1>13,
     <1>14, <1>15
  DEF Next

\* Every reachable state is well typed, whatever the numbers of emitters and
\* connections and the capacities.
THEOREM TypeCorrect == Spec => []TypeOK
<1>1. RingInv => TypeOK
  BY DEF RingInv
<1> QED BY InitRingInv, NextRingInv, <1>1, PTL DEF Spec

\* The ring of a session is always the contiguous window of its last RingCap
\* events (EventRing::push), for every capacity.
THEOREM RingAlwaysWindow == Spec => []RingWindow
<1>1. RingInv => RingWindow
  BY DEF RingInv
<1> QED BY InitRingInv, NextRingInv, <1>1, PTL DEF Spec

-----------------------------------------------------------------------------
(* No event gets lost between the ring and a client: every number the ring  *)
(* gave out is in flight or on the channel, and a client that has           *)
(* subscribed and replayed is owed nothing that is not on its way to it.    *)

\* The numbers on the broadcast channel, as a set.
Channel == {sent[i] : i \in 1..Len(sent)}

\* A number that is in flight or on the channel has been given out by the ring.
LEMMA GivenOut ==
  ASSUME RingInv, LiveAccounted
  PROVE  /\ ring.next \in Nat /\ ring.next >= 1
         /\ \A n \in InFlight \cup Channel : n \in Nat /\ n < ring.next
         /\ ring.next \notin InFlight \cup Channel
<1>1. ring.next \in Nat /\ ring.next >= 1
  BY DEF RingInv, TypeOK, Seqno
<1>2. InFlight \cup Channel = 1..(ring.next - 1)
  BY DEF LiveAccounted, Channel
<1>. QED BY <1>1, <1>2

\* EmitPush hands the next number to the one emitter it belongs to.
LEMMA PushAccounts ==
  ASSUME RingInv, LiveAccounted, NEW e \in Emitters, EmitPush(e)
  PROVE  LiveAccounted'
<1>1. /\ em \in [Emitters -> [pc : {"idle", "wait", "send"}, seq : Nat]]
      /\ em' = [em EXCEPT ![e] = [pc |-> "send", seq |-> ring.next]]
      /\ em[e].pc = "wait"
      /\ ring'.next = ring.next + 1 /\ sent' = sent
  BY DEF RingInv, TypeOK, EmitPush, Push
<1>2. em'[e].pc = "send" /\ em'[e].seq = ring.next
  BY <1>1
<1>3. \A d \in Emitters : d # e => em'[d] = em[d]
  BY <1>1
<1>4. InFlight' = InFlight \cup {ring.next}
  BY <1>1, <1>2, <1>3, Zenon DEF InFlight
<1>5. \A d \in Emitters : em[d].pc = "send" => em[d].seq # ring.next
  BY GivenOut DEF InFlight
<1>6. 1..(ring'.next - 1) = 1..(ring.next - 1) \cup {ring.next}
  BY <1>1, GivenOut
<1>7. 1..(ring'.next - 1) = InFlight' \cup {sent'[i] : i \in 1..Len(sent')}
  BY <1>1, <1>4, <1>6 DEF LiveAccounted
<1>8. \A i \in 1..Len(sent') : sent'[i] \notin InFlight'
  BY <1>1, <1>4, GivenOut DEF LiveAccounted, Channel
<1>9. \A d, f \in Emitters :
        em'[d].pc = "send" /\ em'[f].pc = "send" /\ em'[d].seq = em'[f].seq => d = f
  BY <1>2, <1>3, <1>5 DEF LiveAccounted
<1>. QED BY <1>1, <1>7, <1>8, <1>9 DEF LiveAccounted

\* EmitSend moves that number from the emitter's hands to the channel.
LEMMA SendAccounts ==
  ASSUME RingInv, LiveAccounted, NEW e \in Emitters, EmitSend(e)
  PROVE  LiveAccounted'
<1> DEFINE n == em[e].seq
<1>1. /\ em \in [Emitters -> [pc : {"idle", "wait", "send"}, seq : Nat]]
      /\ sent \in Seq(Nat)
      /\ em[e].pc = "send" /\ ring' = ring
      /\ em' = [em EXCEPT ![e] = Idle] /\ sent' = Append(sent, n)
  BY DEF RingInv, TypeOK, EmitSend, Seqno
<1>2. em'[e].pc = "idle" /\ \A d \in Emitters : d # e => em'[d] = em[d]
  BY <1>1 DEF Idle
<1>3. /\ Len(sent) \in Nat /\ Len(sent') = Len(sent) + 1
      /\ sent'[Len(sent) + 1] = n
      /\ \A i \in 1..Len(sent) : sent'[i] = sent[i]
  <2>1. n \in Nat BY <1>1
  <2>. HIDE DEF n
  <2>. QED BY <1>1, <2>1
<1>. HIDE DEF n
<1>4. InFlight' = InFlight \ {n} /\ n \in InFlight
  <2>1. \A d \in Emitters : d # e /\ em[d].pc = "send" => em[d].seq # n
    BY <1>1 DEF LiveAccounted, n
  <2>2. \A m : m \in InFlight' <=> \E d \in Emitters : d # e /\ em[d].pc = "send" /\ em[d].seq = m
    BY <1>2, Zenon DEF InFlight
  <2>3. \A m : m \in InFlight <=> \E d \in Emitters : em[d].pc = "send" /\ em[d].seq = m
    BY DEF InFlight
  <2>. QED BY <1>1, <2>1, <2>2, <2>3 DEF n
<1>5. Channel' = Channel \cup {n}
  BY <1>3 DEF Channel
<1>6. n \notin Channel
  BY <1>4 DEF LiveAccounted, Channel
<1>7. 1..(ring'.next - 1) = InFlight' \cup Channel'
  <2>1. 1..(ring.next - 1) = InFlight \cup Channel
    BY DEF LiveAccounted, Channel
  <2>2. ring' = ring
    BY <1>1
  <2>. QED BY <2>1, <2>2, <1>4, <1>5
<1>8. \A i, j \in 1..Len(sent') : sent'[i] = sent'[j] => i = j
  <2>1. \A i \in 1..Len(sent) : sent'[i] # n
    BY <1>3, <1>6 DEF Channel
  <2>2. \A i \in 1..Len(sent') : i \in 1..Len(sent) \/ i = Len(sent) + 1
    BY <1>3
  <2>. QED BY <1>3, <2>1, <2>2 DEF LiveAccounted
<1>9. \A i \in 1..Len(sent') : sent'[i] \notin InFlight'
  <2>1. \A m \in Channel : m \notin InFlight
    BY DEF LiveAccounted, Channel
  <2>2. \A m \in Channel' : m \notin InFlight'
    BY <1>4, <1>5, <2>1
  <2>. QED BY <2>2 DEF Channel
<1>10. \A d, f \in Emitters :
         em'[d].pc = "send" /\ em'[f].pc = "send" /\ em'[d].seq = em'[f].seq => d = f
  BY <1>2 DEF LiveAccounted
<1>. QED BY <1>7, <1>8, <1>9, <1>10 DEF LiveAccounted, Channel

\* No other step touches the ring, the channel, or an emitter that has a number.
LEMMA OthersAccount ==
  ASSUME RingInv, LiveAccounted, UNCHANGED <<ring, sent>>,
         \A e \in Emitters :
           \/ em'[e] = em[e]
           \/ em[e].pc # "send" /\ em'[e].pc # "send"
  PROVE  LiveAccounted'
<1>1. InFlight' = InFlight
  <2>1. \A m : m \in InFlight' <=> \E d \in Emitters : em'[d].pc = "send" /\ em'[d].seq = m
    BY Zenon DEF InFlight
  <2>2. \A m : m \in InFlight <=> \E d \in Emitters : em[d].pc = "send" /\ em[d].seq = m
    BY DEF InFlight
  <2>. QED BY <2>1, <2>2
<1>2. \A d, f \in Emitters :
        em'[d].pc = "send" /\ em'[f].pc = "send" /\ em'[d].seq = em'[f].seq => d = f
  BY DEF LiveAccounted
<1>. QED BY <1>1, <1>2 DEF LiveAccounted

LEMMA NextAccounts == RingInv /\ LiveAccounted /\ [Next]_vars => LiveAccounted'
<1>. SUFFICES ASSUME RingInv, LiveAccounted, [Next]_vars PROVE LiveAccounted'
  OBVIOUS
<1>0. CASE UNCHANGED vars BY <1>0, OthersAccount DEF vars
<1>1. ASSUME NEW e \in Emitters, EmitBegin(e) PROVE LiveAccounted'
  <2>1. em \in [Emitters -> [pc : {"idle", "wait", "send"}, seq : Nat]]
    BY DEF RingInv, TypeOK
  <2>2. em'[e].pc = "wait" /\ em[e].pc = "idle"
        /\ \A d \in Emitters : d # e => em'[d] = em[d]
    BY <1>1, <2>1 DEF EmitBegin
  <2>. QED BY <1>1, <2>2, OthersAccount DEF EmitBegin
<1>2. ASSUME NEW e \in Emitters, EmitPush(e) PROVE LiveAccounted'
  BY <1>2, PushAccounts
<1>3. ASSUME NEW e \in Emitters, EmitSend(e) PROVE LiveAccounted'
  BY <1>3, SendAccounts
<1>4. ASSUME UNCHANGED <<ring, sent, em>> PROVE LiveAccounted'
  BY <1>4, OthersAccount
<1>5. ASSUME NEW c \in Conns,
              \/ Subscribe(c) \/ ForwarderRecv(c) \/ ForwarderSend(c)
              \/ \E k \in 0..MaxSeq : ReplayRequest(c, k)
              \/ ReplayRead(c) \/ ReplaySend(c)
              \/ OutgoingWrite(c) \/ OutgoingFail(c)
              \/ SocketDies(c) \/ PeerStalls(c) \/ MainLoopExit(c)
      PROVE  LiveAccounted'
  BY <1>4, <1>5 DEF Subscribe, ForwarderRecv, ForwarderSend, ReplayRequest, ReplayRead,
     ReplaySend, OutgoingWrite, OutgoingFail, SocketDies, PeerStalls, MainLoopExit
<1>. QED BY <1>0, <1>1, <1>2, <1>3, <1>5 DEF Next

\* Every number the ring has given out is on the broadcast channel or in the hands
\* of the one emitter that got it, although emit_to sends after it has unlocked.
THEOREM LiveLosesNothing == Spec => []LiveAccounted
<1>1. Init => RingInv /\ LiveAccounted
  <2>1. Init => LiveAccounted
    BY DEF Init, NewRing, Idle, LiveAccounted, InFlight
  <2>. QED BY <2>1, InitRingInv
<1>2. RingInv /\ LiveAccounted /\ [Next]_vars => (RingInv /\ LiveAccounted)'
  BY NextRingInv, NextAccounts
<1>. QED BY <1>1, <1>2, PTL DEF Spec

-------------------------------------------------------------------------------
\* The parts of Covered: what waits in the socket's queue, in the replay, at the
\* forwarder, and ahead of the forwarder on the channel.
Queue(c) == {out[c][i] : i \in 1..Len(out[c])}

Left(c) == {rp[c].todo[i] : i \in 1..Len(rp[c].todo)}

Frame(c) == IF fw[c].pc = "send" THEN {fw[c].frame} ELSE {}

Ahead(c) == {sent[i] : i \in (fw[c].pos + 1)..Len(sent)}

\* A connection without a forwarder has no base to be owed anything from, and a
\* replay that does not send has nothing left.
NoForwarder == \A c \in Conns : fw[c].pc = "none" => base[c] = NoBase

NothingLeft == \A c \in Conns : rp[c].pc # "send" => rp[c].todo = << >>

Owed(c) ==
  open[c] /\ base[c] # NoBase /\ ~told[c] /\ Notice \notin Covered(c) =>
    \A s \in 1..(ring.next - 1) : s > base[c] => s \in Covered(c) \cup InFlight

DeliveryInv ==
  RingInv /\ LiveAccounted /\ NoForwarder /\ NothingLeft /\ \A c \in Conns : Owed(c)

LEMMA CoveredParts ==
  ASSUME NEW c \in Conns
  PROVE  Covered(c) = seen[c] \cup Queue(c) \cup Left(c) \cup Frame(c) \cup Ahead(c)
BY DEF Covered, Queue, Left, Frame, Ahead

\* What a queue holds after something is appended, and before its head is taken.
LEMMA AppendRange ==
  ASSUME NEW S, NEW q \in Seq(S), NEW x \in S, NEW a, a = Append(q, x)
  PROVE  {a[i] : i \in 1..Len(a)} = {q[i] : i \in 1..Len(q)} \cup {x}
<1>1. /\ Len(q) \in Nat /\ Len(a) = Len(q) + 1 /\ a[Len(q) + 1] = x
      /\ \A i \in 1..Len(q) : a[i] = q[i]
  OBVIOUS
<1>2. 1..Len(a) = 1..Len(q) \cup {Len(q) + 1}
  BY <1>1
<1>. QED BY <1>1, <1>2

LEMMA TailRange ==
  ASSUME NEW S, NEW q \in Seq(S), q # << >>, NEW t, t = Tail(q)
  PROVE  {q[i] : i \in 1..Len(q)} = {Head(q)} \cup {t[i] : i \in 1..Len(t)}
<1>1. /\ Len(q) \in Nat /\ Len(q) >= 1 /\ Len(t) = Len(q) - 1
      /\ \A i \in 1..Len(t) : t[i] = q[i + 1]
  OBVIOUS
<1>2. Head(q) = q[1]
  OBVIOUS
<1>3. \A i \in 1..Len(t) : i + 1 \in 1..Len(q)
  BY <1>1
<1>4. \A i \in 1..Len(q) : i = 1 \/ (i - 1 \in 1..Len(t) /\ q[i] = t[i - 1])
  <2> TAKE i \in 1..Len(q)
  <2>1. CASE i # 1
    <3>1. i - 1 \in 1..Len(t) /\ (i - 1) + 1 = i
      BY <2>1, <1>1
    <3>. QED BY <3>1, <1>1
  <2>. QED BY <2>1
<1>. QED BY <1>1, <1>2, <1>3, <1>4

\* A step that takes nothing away from what is on its way to a connection keeps
\* the debt covered; so does one that closes the connection or tells of the gap.
LEMMA OwedKeeps ==
  ASSUME NEW c \in Conns, Owed(c), UNCHANGED <<ring, em>>, base'[c] = base[c],
         open'[c] => open[c], ~told'[c] => ~told[c],
         open'[c] /\ ~told'[c] /\ Notice \notin Covered(c)' => Covered(c) \subseteq Covered(c)'
  PROVE  Owed(c)'
<1>1. InFlight' = InFlight
  BY DEF InFlight
<1>. QED BY <1>1 DEF Owed

\* The step of another connection is none of its business.
LEMMA OtherConnection ==
  ASSUME NEW c \in Conns, Owed(c), UNCHANGED <<ring, em, sent>>,
         fw'[c] = fw[c], rp'[c] = rp[c], out'[c] = out[c], open'[c] = open[c],
         seen'[c] = seen[c], told'[c] = told[c], base'[c] = base[c]
  PROVE  Owed(c)'
<1>1. Covered(c)' = Covered(c)
  BY DEF Covered
<1>. QED BY <1>1, OwedKeeps

\* Types of one connection's parts.
LEMMA ConnTypes ==
  ASSUME RingInv, NEW c \in Conns
  PROVE  /\ out[c] \in Seq(Nat) /\ rp[c].todo \in Seq(Nat) /\ sent \in Seq(Nat)
         /\ fw[c].pos \in Nat /\ fw[c].pos <= Len(sent) /\ Len(sent) \in Nat
         /\ fw[c].frame \in Nat /\ rp[c].last \in Nat
         /\ rp[c].pc = "send" => rp[c].todo # << >>
         /\ out \in [Conns -> Seq(Nat)] /\ BcastCap \in Nat \ {0}
         /\ DOMAIN fw = Conns /\ DOMAIN rp = Conns
<1>1. sent \in Seq(Nat)
  BY DEF RingInv, TypeOK, Seqno
<1>. QED BY <1>1, CapAssumption DEF RingInv, TypeOK

\* An event that gets its number is in flight, and owed to everyone.
LEMMA PushOwes ==
  ASSUME DeliveryInv, NEW e \in Emitters, EmitPush(e), NEW c \in Conns
  PROVE  Owed(c)'
<1>1. /\ em' = [em EXCEPT ![e] = [pc |-> "send", seq |-> ring.next]]
      /\ em[e].pc = "wait" /\ DOMAIN em = Emitters
      /\ ring'.next = ring.next + 1 /\ ring.next \in Nat
  BY GivenOut DEF DeliveryInv, RingInv, TypeOK, EmitPush, Push
<1>2. ring.next \in InFlight'
  BY <1>1 DEF InFlight
<1>3. InFlight \subseteq InFlight'
  BY <1>1 DEF InFlight
<1>4. Covered(c)' = Covered(c)
  BY DEF EmitPush, Covered
<1>5. UNCHANGED <<open, base, told>>
  BY DEF EmitPush
<1>6. \A s \in 1..(ring'.next - 1) : s \in 1..(ring.next - 1) \/ s = ring.next
  BY <1>1
<1>7. Owed(c)
  BY DEF DeliveryInv
<1>. QED BY <1>2, <1>3, <1>4, <1>5, <1>6, <1>7 DEF Owed

\* A send moves it from the emitter to the channel, ahead of every forwarder.
LEMMA SendOwes ==
  ASSUME DeliveryInv, NEW e \in Emitters, EmitSend(e), NEW c \in Conns
  PROVE  Owed(c)'
<1> DEFINE n == em[e].seq
<1>1. /\ em' = [em EXCEPT ![e] = Idle] /\ DOMAIN em = Emitters /\ n \in Nat
      /\ sent' = Append(sent, n) /\ ring' = ring
      /\ UNCHANGED <<open, base, told, fw, rp, out, seen>>
  BY DEF DeliveryInv, RingInv, TypeOK, EmitSend
<1>2. InFlight \subseteq InFlight' \cup {n}
  BY <1>1 DEF InFlight
<1>3. /\ Len(sent) \in Nat /\ Len(sent') = Len(sent) + 1
      /\ sent'[Len(sent) + 1] = n
      /\ \A i \in 1..Len(sent) : sent'[i] = sent[i]
      /\ fw[c].pos \in Nat /\ fw[c].pos <= Len(sent)
  <2>. HIDE DEF n
  <2>1. sent \in Seq(Nat) /\ fw[c].pos \in Nat /\ fw[c].pos <= Len(sent)
    BY ConnTypes DEF DeliveryInv
  <2>. QED BY <1>1, <2>1
<1>. HIDE DEF n
<1>4. /\ \A i \in (fw[c].pos + 1)..Len(sent) : i \in 1..Len(sent) /\ i \in (fw[c].pos + 1)..Len(sent')
      /\ Len(sent) + 1 \in (fw[c].pos + 1)..Len(sent')
  BY <1>3
<1>5. Ahead(c) \cup {n} \subseteq Ahead(c)'
  BY <1>1, <1>3, <1>4 DEF Ahead
<1>6. Covered(c) \cup {n} \subseteq Covered(c)'
  <2>1. Queue(c)' = Queue(c) /\ Left(c)' = Left(c) /\ Frame(c)' = Frame(c) /\ seen'[c] = seen[c]
    BY <1>1 DEF Queue, Left, Frame
  <2>2. Covered(c)' = seen'[c] \cup Queue(c)' \cup Left(c)' \cup Frame(c)' \cup Ahead(c)'
    BY DEF Covered, Queue, Left, Frame, Ahead
  <2>. QED BY <2>1, <2>2, <1>5, CoveredParts
<1>7. Owed(c)
  BY DEF DeliveryInv
<1>. QED BY <1>1, <1>2, <1>6, <1>7 DEF Owed

\* The forwarder takes the next frame from the channel, or lags and holds a notice.
LEMMA RecvOwes ==
  ASSUME DeliveryInv, NEW c \in Conns, ForwarderRecv(c)
  PROVE  Owed(c)'
<1>1. /\ UNCHANGED <<ring, em, sent, rp, out, open, seen, told, base>>
      /\ fw[c].pc = "recv" /\ fw[c].pos < Len(sent)
  BY DEF ForwarderRecv
<1>2. CASE Lagged(c)
  <2>1. fw'[c].pc = "send" /\ fw'[c].frame = Notice
    BY <1>2, ConnTypes DEF DeliveryInv, ForwarderRecv
  <2>2. Notice \in Covered(c)'
    BY <2>1 DEF Covered
  <2>. QED BY <2>2 DEF Owed
<1>3. CASE ~Lagged(c)
  <2>1. /\ fw'[c].pc = "send" /\ fw'[c].frame = sent[fw[c].pos + 1]
        /\ fw'[c].pos = fw[c].pos + 1
    BY <1>3, ConnTypes DEF DeliveryInv, ForwarderRecv
  <2>2. \A i \in (fw[c].pos + 1)..Len(sent) :
          i = fw[c].pos + 1 \/ i \in (fw'[c].pos + 1)..Len(sent)
    BY <2>1, <1>1, ConnTypes DEF DeliveryInv
  <2>3. Ahead(c) \subseteq Frame(c)' \cup Ahead(c)'
    BY <1>1, <2>1, <2>2 DEF Ahead, Frame
  <2>4. Frame(c) = {} /\ Queue(c)' = Queue(c) /\ Left(c)' = Left(c) /\ seen'[c] = seen[c]
    BY <1>1 DEF Frame, Queue, Left
  <2>5. Covered(c)' = seen'[c] \cup Queue(c)' \cup Left(c)' \cup Frame(c)' \cup Ahead(c)'
    BY DEF Covered, Queue, Left, Frame, Ahead
  <2>6. Covered(c) \subseteq Covered(c)'
    BY <2>3, <2>4, <2>5, CoveredParts
  <2>7. Owed(c)
    BY DEF DeliveryInv
  <2>. QED BY <1>1, <2>6, <2>7, OwedKeeps
<1>. QED BY <1>2, <1>3

\* It puts the frame into the socket's queue.
LEMMA ForwardOwes ==
  ASSUME DeliveryInv, NEW c \in Conns, ForwarderSend(c)
  PROVE  Owed(c)'
<1>1. /\ UNCHANGED <<ring, em, sent, rp, open, seen, told, base>>
      /\ fw[c].pc = "send" /\ fw'[c].pos = fw[c].pos
  BY ConnTypes DEF DeliveryInv, ForwarderSend
<1>2. CASE open[c]
  <2>1. out'[c] = Append(out[c], fw[c].frame)
    BY <1>2, ConnTypes DEF DeliveryInv, ForwarderSend
  <2>2. Queue(c)' = Queue(c) \cup {fw[c].frame}
    <3>1. out[c] \in Seq(Nat) /\ fw[c].frame \in Nat
      BY ConnTypes DEF DeliveryInv
    <3>2. {out'[c][i] : i \in 1..Len(out'[c])} = {out[c][i] : i \in 1..Len(out[c])} \cup {fw[c].frame}
      BY <2>1, <3>1, AppendRange
    <3>. QED BY <3>2 DEF Queue
  <2>3. Frame(c) = {fw[c].frame} /\ Ahead(c)' = Ahead(c) /\ Left(c)' = Left(c)
    BY <1>1 DEF Frame, Ahead, Left
  <2>4. Covered(c)' = seen'[c] \cup Queue(c)' \cup Left(c)' \cup Frame(c)' \cup Ahead(c)'
    BY DEF Covered, Queue, Left, Frame, Ahead
  <2>5. Covered(c) \subseteq Covered(c)'
    BY <1>1, <2>2, <2>3, <2>4, CoveredParts
  <2>6. Owed(c)
    BY DEF DeliveryInv
  <2>. QED BY <1>1, <2>5, <2>6, OwedKeeps
<1>3. CASE ~open[c]
  BY <1>1, <1>3 DEF Owed
<1>. QED BY <1>2, <1>3

\* A replay reads the ring: all after its cursor is left to send, or a notice, or
\* there is nothing after it.
LEMMA ReadOwes ==
  ASSUME DeliveryInv, NEW c \in Conns, ReplayRead(c)
  PROVE  Owed(c)'
<1> DEFINE k == rp[c].last
           r == ReplayAfter(ring, k)
           todo == IF r.kind = "OutOfRange" THEN <<Notice>> ELSE r.evs
<1>1. /\ UNCHANGED <<ring, em, sent, fw, out, open, seen, told>>
      /\ rp[c].pc = "wait" /\ k \in Nat
      /\ rp'[c].todo = todo
      /\ base'[c] = IF fw[c].pc = "none" THEN base[c] ELSE k
  <2>. DOMAIN base = Conns
    BY DEF DeliveryInv, RingInv, TypeOK
  <2>. QED BY ConnTypes DEF DeliveryInv, ReplayRead
<1>2. CASE fw[c].pc = "none"
  BY <1>1, <1>2 DEF DeliveryInv, NoForwarder, Owed
<1>3. CASE fw[c].pc # "none"
  <2>1. /\ r.kind \in {"UpToDate", "OutOfRange", "Stream"}
        /\ r.kind = "UpToDate" => k >= ring.next - 1
        /\ r.kind = "Stream" => /\ Len(r.evs) = ring.next - 1 - k
                                /\ \A j \in 1..Len(r.evs) : r.evs[j] = k + j
    <3>1. ring \in Ring /\ Window(ring, RingCap) /\ RingCap \in Nat \ {0}
      BY CapAssumption DEF DeliveryInv, RingInv, RingWindow, TypeOK, Ring
    <3>. HIDE DEF k
    <3>. QED BY <1>1, <3>1, ReplayAfterExact
  <2>2. Left(c)' = {todo[i] : i \in 1..Len(todo)}
    BY <1>1 DEF Left
  <2>3. Left(c)' \subseteq Covered(c)'
    BY DEF Covered, Left
  <2>4. base'[c] = k /\ ring.next \in Nat /\ ring.next >= 1
    BY <1>1, <1>3, GivenOut DEF DeliveryInv
  <2>. HIDE DEF k, r
  <2>5. CASE r.kind = "OutOfRange"
    <3>1. Notice \in Left(c)'
      BY <2>2, <2>5
    <3>. QED BY <3>1, <2>3 DEF Owed
  <2>6. CASE r.kind = "UpToDate"
    <3>1. \A s \in 1..(ring'.next - 1) : ~(s > base'[c])
      BY <2>1, <2>4, <2>6, <1>1
    <3>. QED BY <3>1 DEF Owed
  <2>7. CASE r.kind = "Stream"
    <3>1. \A s \in 1..(ring.next - 1) : s > k => s - k \in 1..Len(r.evs) /\ k + (s - k) = s
      BY <2>1, <2>4, <2>7, <1>1
    <3>2. \A s \in 1..(ring.next - 1) : s > k => s \in Left(c)'
      BY <3>1, <2>1, <2>2, <2>7
    <3>. QED BY <3>2, <2>3, <2>4, <1>1 DEF Owed
  <2>. QED BY <2>1, <2>5, <2>6, <2>7
<1>. QED BY <1>2, <1>3

\* It queues one frame after the other.
LEMMA ReplayOwes ==
  ASSUME DeliveryInv, NEW c \in Conns, ReplaySend(c)
  PROVE  Owed(c)'
<1>1. /\ UNCHANGED <<ring, em, sent, fw, open, seen, told, base>>
      /\ rp[c].todo \in Seq(Nat) /\ rp[c].todo # << >>
      /\ rp'[c].todo = Tail(rp[c].todo)
  BY ConnTypes DEF DeliveryInv, ReplaySend
<1>2. CASE open[c]
  <2>1. out'[c] = Append(out[c], Head(rp[c].todo)) /\ out[c] \in Seq(Nat)
        /\ Head(rp[c].todo) \in Nat
    BY <1>1, <1>2, ConnTypes DEF DeliveryInv, ReplaySend
  <2>2. Queue(c)' = Queue(c) \cup {Head(rp[c].todo)}
    BY <2>1, AppendRange DEF Queue
  <2>3. Left(c) = {Head(rp[c].todo)} \cup Left(c)'
    <3>1. \A q \in Seq(Nat) : q # << >> => \A t : t = Tail(q) =>
            {q[i] : i \in 1..Len(q)} = {Head(q)} \cup {t[i] : i \in 1..Len(t)}
      BY TailRange
    <3>2. Left(c)' = {rp'[c].todo[i] : i \in 1..Len(rp'[c].todo)}
      BY DEF Left
    <3>. QED BY <1>1, <3>1, <3>2 DEF Left
  <2>4. Frame(c)' = Frame(c) /\ Ahead(c)' = Ahead(c)
    BY <1>1 DEF Frame, Ahead
  <2>5. Covered(c)' = seen'[c] \cup Queue(c)' \cup Left(c)' \cup Frame(c)' \cup Ahead(c)'
    BY DEF Covered, Queue, Left, Frame, Ahead
  <2>6. Covered(c) \subseteq Covered(c)'
    BY <1>1, <2>2, <2>3, <2>4, <2>5, CoveredParts
  <2>7. Owed(c)
    BY DEF DeliveryInv
  <2>. QED BY <1>1, <2>6, <2>7, OwedKeeps
<1>3. CASE ~open[c]
  BY <1>1, <1>3 DEF Owed
<1>. QED BY <1>2, <1>3

\* The outgoing task writes a frame: the client has read an event, or is told.
LEMMA WriteOwes ==
  ASSUME DeliveryInv, NEW c \in Conns, OutgoingWrite(c)
  PROVE  Owed(c)'
<1> DEFINE h == Head(out[c])
<1>1. /\ UNCHANGED <<ring, em, sent, fw, rp, open, base>>
      /\ out[c] \in Seq(Nat) /\ out[c] # << >>
      /\ out'[c] = Tail(out[c])
      /\ seen'[c] = seen[c] \cup ({h} \ {Notice})
      /\ told'[c] = (told[c] \/ h = Notice)
  <2>. seen \in [Conns -> SUBSET Seqno] /\ told \in [Conns -> BOOLEAN]
    BY DEF DeliveryInv, RingInv, TypeOK
  <2>. QED BY ConnTypes DEF DeliveryInv, OutgoingWrite
<1>2. Queue(c) = {h} \cup Queue(c)'
  <2>. HIDE DEF h
  <2>1. \A t : t = Tail(out[c]) =>
          {out[c][i] : i \in 1..Len(out[c])} = {h} \cup {t[i] : i \in 1..Len(t)}
    BY <1>1, TailRange DEF h
  <2>2. Queue(c)' = {out'[c][i] : i \in 1..Len(out'[c])}
    BY DEF Queue
  <2>. QED BY <1>1, <2>1, <2>2 DEF Queue
<1>. HIDE DEF h
<1>3. Frame(c)' = Frame(c) /\ Ahead(c)' = Ahead(c) /\ Left(c)' = Left(c)
  BY <1>1 DEF Frame, Ahead, Left
<1>4. Covered(c)' = seen'[c] \cup Queue(c)' \cup Left(c)' \cup Frame(c)' \cup Ahead(c)'
  BY DEF Covered, Queue, Left, Frame, Ahead
<1>5. ~told'[c] => Covered(c) \subseteq Covered(c)'
  BY <1>1, <1>2, <1>3, <1>4, CoveredParts
<1>6. Owed(c)
  BY DEF DeliveryInv
<1>. QED BY <1>1, <1>5, <1>6, OwedKeeps

\* A step of one connection does not touch what another one has coming.
LEMMA ConnOwes ==
  ASSUME DeliveryInv, NEW c \in Conns,
         \/ Subscribe(c) \/ ForwarderRecv(c) \/ ForwarderSend(c)
         \/ \E k \in 0..MaxSeq : ReplayRequest(c, k)
         \/ ReplayRead(c) \/ ReplaySend(c)
         \/ OutgoingWrite(c) \/ OutgoingFail(c)
         \/ SocketDies(c) \/ PeerStalls(c) \/ MainLoopExit(c)
  PROVE  \A d \in Conns : Owed(d)'
<1>0. \A d \in Conns : Owed(d)
  BY DEF DeliveryInv
<1>1. ASSUME NEW d \in Conns, d # c PROVE Owed(d)'
  <2>1. /\ DOMAIN open = Conns /\ DOMAIN seen = Conns /\ DOMAIN told = Conns
        /\ DOMAIN base = Conns /\ DOMAIN fw = Conns /\ DOMAIN rp = Conns /\ DOMAIN out = Conns
    BY DEF DeliveryInv, RingInv, TypeOK
  <2>2. /\ UNCHANGED <<ring, em, sent>>
        /\ fw'[d] = fw[d] /\ rp'[d] = rp[d] /\ out'[d] = out[d] /\ open'[d] = open[d]
        /\ seen'[d] = seen[d] /\ told'[d] = told[d] /\ base'[d] = base[d]
    BY <1>1, <2>1, SMTT(60) DEF Subscribe, ForwarderRecv, ForwarderSend, ReplayRequest, ReplayRead,
       ReplaySend, OutgoingWrite, OutgoingFail, SocketDies, PeerStalls, MainLoopExit
  <2>. QED BY <1>0, <2>2, OtherConnection
<1>2. ASSUME Subscribe(c) PROVE Owed(c)'
  BY <1>2 DEF DeliveryInv, NoForwarder, Subscribe, Owed
<1>3. ASSUME NEW k \in 0..MaxSeq, ReplayRequest(c, k) PROVE Owed(c)'
  <2>1. rp[c].todo = << >> /\ rp'[c].todo = << >>
        /\ UNCHANGED <<ring, em, sent, fw, out, open, seen, told, base>>
    BY <1>3, ConnTypes DEF DeliveryInv, NothingLeft, ReplayRequest
  <2>2. Covered(c)' = Covered(c)
    BY <2>1 DEF Covered
  <2>. QED BY <1>0, <2>1, <2>2, OwedKeeps
<1>4. ASSUME OutgoingFail(c) \/ MainLoopExit(c) PROVE Owed(c)'
  <2>1. ~open'[c]
    BY <1>4 DEF DeliveryInv, RingInv, TypeOK, OutgoingFail, MainLoopExit
  <2>. QED BY <2>1 DEF Owed
<1>5. ASSUME SocketDies(c) \/ PeerStalls(c) PROVE Owed(c)'
  BY <1>0, <1>5, OtherConnection DEF SocketDies, PeerStalls
<1>6. Owed(c)'
  BY <1>2, <1>3, <1>4, <1>5, RecvOwes, ForwardOwes, ReadOwes, ReplayOwes, WriteOwes
<1>. QED BY <1>1, <1>6

\* The two facts about connections that have no forwarder or replay.
LEMMA SparePartsKeep ==
  ASSUME DeliveryInv, [Next]_vars
  PROVE  NoForwarder' /\ NothingLeft'
<1>0. /\ DOMAIN fw = Conns /\ DOMAIN rp = Conns /\ DOMAIN base = Conns
      /\ \A c \in Conns : rp[c].todo \in Seq(Nat)
      /\ NoForwarder /\ NothingLeft
  BY ConnTypes DEF DeliveryInv, RingInv, TypeOK
<1>1. CASE UNCHANGED <<fw, rp, base>>
  BY <1>0, <1>1 DEF NoForwarder, NothingLeft
<1>2. ASSUME NEW c \in Conns, Subscribe(c) \/ ForwarderRecv(c) \/ ForwarderSend(c)
      PROVE  NoForwarder' /\ NothingLeft'
  <2>1. UNCHANGED <<rp, base>> /\ fw'[c].pc # "none" /\ \A d \in Conns : d # c => fw'[d] = fw[d]
    BY <1>0, <1>2 DEF Subscribe, ForwarderRecv, ForwarderSend
  <2>. QED BY <1>0, <2>1 DEF NoForwarder, NothingLeft
<1>3. ASSUME NEW c \in Conns, NEW k \in 0..MaxSeq, ReplayRequest(c, k)
      PROVE  NoForwarder' /\ NothingLeft'
  BY <1>0, <1>3 DEF ReplayRequest, NoForwarder, NothingLeft
<1>4. ASSUME NEW c \in Conns, ReplayRead(c)
      PROVE  NoForwarder' /\ NothingLeft'
  BY <1>0, <1>4 DEF ReplayRead, NoForwarder, NothingLeft
<1>5. ASSUME NEW c \in Conns, ReplaySend(c)
      PROVE  NoForwarder' /\ NothingLeft'
  <2>1. UNCHANGED <<fw, base>> /\ \A d \in Conns : d # c => rp'[d] = rp[d]
    BY <1>0, <1>5 DEF ReplaySend
  <2>2. rp'[c].pc # "send" => Len(rp[c].todo) = 1 /\ rp'[c].todo = Tail(rp[c].todo)
    BY <1>0, <1>5 DEF ReplaySend
  <2>3. rp'[c].pc # "send" => rp'[c].todo = << >>
    <3>1. ASSUME NEW q \in Seq(Nat), Len(q) = 1 PROVE Tail(q) = << >>
      <4>1. Tail(q) \in Seq(Nat) /\ Len(Tail(q)) = 0
        <5>. q # << >> BY <3>1, EmptySeq
        <5>. QED BY <3>1, HeadTailProperties
      <4>. QED BY <4>1, EmptySeq
    <3>. QED BY <1>0, <2>2, <3>1
  <2>. QED BY <1>0, <2>1, <2>3 DEF NoForwarder, NothingLeft
<1>6. ASSUME NEW e \in Emitters, EmitBegin(e) \/ EmitPush(e) \/ EmitSend(e)
      PROVE  UNCHANGED <<fw, rp, base>>
  BY <1>6 DEF EmitBegin, EmitPush, EmitSend
<1>7. ASSUME NEW c \in Conns,
             OutgoingWrite(c) \/ OutgoingFail(c) \/ SocketDies(c) \/ PeerStalls(c) \/ MainLoopExit(c)
      PROVE  UNCHANGED <<fw, rp, base>>
  BY <1>7 DEF OutgoingWrite, OutgoingFail, SocketDies, PeerStalls, MainLoopExit
<1>8. CASE UNCHANGED vars
  BY <1>8, <1>1 DEF vars
<1>. QED BY <1>1, <1>2, <1>3, <1>4, <1>5, <1>6, <1>7, <1>8 DEF Next

LEMMA NextDelivers == DeliveryInv /\ [Next]_vars => DeliveryInv'
<1>. SUFFICES ASSUME DeliveryInv, [Next]_vars PROVE DeliveryInv'
  OBVIOUS
<1>1. RingInv' /\ LiveAccounted' /\ NoForwarder' /\ NothingLeft'
  BY NextRingInv, NextAccounts, SparePartsKeep DEF DeliveryInv
<1>2. \A c \in Conns : Owed(c)
  BY DEF DeliveryInv
<1>3. ASSUME NEW e \in Emitters, EmitBegin(e), NEW c \in Conns PROVE Owed(c)'
  <2>1. UNCHANGED <<ring, sent, fw, rp, out, open, seen, told, base>>
        /\ em[e].pc = "idle" /\ em' = [em EXCEPT ![e] = [pc |-> "wait", seq |-> 0]]
    BY <1>3 DEF EmitBegin
  <2>2. InFlight \subseteq InFlight'
    <3>1. \A d \in Emitters : em[d].pc = "send" => em'[d] = em[d]
      BY <2>1 DEF DeliveryInv, RingInv, TypeOK
    <3>. QED BY <3>1 DEF InFlight
  <2>3. Covered(c)' = Covered(c)
    BY <2>1 DEF Covered
  <2>. QED BY <1>2, <2>1, <2>2, <2>3 DEF Owed
<1>4. ASSUME UNCHANGED vars PROVE \A c \in Conns : Owed(c)'
  BY <1>2, <1>4, OtherConnection DEF vars
<1>5. \A c \in Conns : Owed(c)'
  BY <1>3, <1>4, PushOwes, SendOwes, ConnOwes DEF Next
<1>. QED BY <1>1, <1>5 DEF DeliveryInv

\* A client that subscribed and replayed from a cursor has read, will get, or is
\* told that it cannot get every later event, whatever emitters, lag and eviction do.
THEOREM NothingMissedSilently == Spec => []NoSilentGap
<1>1. Init => DeliveryInv
  <2>1. Init => NoForwarder /\ NothingLeft /\ \A c \in Conns : Owed(c)
    BY DEF Init, NoForwarder, NothingLeft, Owed
  <2>2. Init => LiveAccounted
    BY DEF Init, NewRing, Idle, LiveAccounted, InFlight
  <2>. QED BY <2>1, <2>2, InitRingInv DEF DeliveryInv
<1>2. DeliveryInv => NoSilentGap
  BY DEF DeliveryInv, Owed, NoSilentGap
<1>. QED BY <1>1, <1>2, NextDelivers, PTL DEF Spec

-----------------------------------------------------------------------------
(* The relay.                                                               *)

DialPoints == {"idle", "open", "register", "loop", "tell", "leave", "done"}
Points == {"idle", "check", "claim", "verify", "mark", "attach", "loop", "detach", "done", "refused"}

RelayTypes ==
  /\ dial \in [Dials -> DialPoints]
  /\ entry \in [dial : Nat, clients : SUBSET Clients]
  /\ client \in [Clients -> [pc : Points, tok : Tokens \cup {"none"}, sess : Sessions \cup {"none"}]]
  /\ active \subseteq Tokens
  /\ lost \subseteq Clients /\ mute \subseteq Clients

\* Past claim_by_opaque a client is the only one with its token, and the token
\* is not in the store: TokenOnce alone does not say who may still claim.
Holds(c) == client[c].pc \in {"verify", "mark", "attach", "loop", "detach", "done"}
SoleHolder ==
  /\ \A c \in Clients : Holds(c) => client[c].tok \notin active
  /\ \A b, c \in Clients : Holds(b) /\ Holds(c) /\ client[b].tok = client[c].tok => b = c

\* Between telling the clients and removing the entry, the clients in it are all
\* told or mute: ToldOfLoss alone does not survive the removal.
ToldBeforeLeaving == (\E d \in Dials : dial[d] = "leave") => entry.clients \subseteq lost \cup mute

RelayInv == RelayTypes /\ SoleHolder /\ ToldBeforeLeaving /\ ToldOfLoss

-----------------------------------------------------------------------------
\* Nothing has happened at the start, so the invariant holds.
LEMMA RelayInitInv == RelayInit => RelayInv
BY DEF RelayInit, RelayInv, RelayTypes, SoleHolder, Holds, ToldBeforeLeaving, ToldOfLoss,
       Unattached, NoEntry,
       DialPoints, Points, Dials

\* Whatever touches neither entry, clients, writers, the store of tokens nor lost, and
\* lets no dial begin to leave, keeps the invariant.
LEMMA Aside ==
  ASSUME RelayInv, dial' \in [Dials -> DialPoints], UNCHANGED <<entry, client, mute, active, lost>>,
         \A d \in Dials : dial'[d] = "leave" => dial[d] = "leave"
  PROVE  RelayInv'
BY DEF RelayInv, RelayTypes, SoleHolder, Holds, ToldBeforeLeaving, ToldOfLoss

\* The steps of the tunnel and of a dial's loop keep the invariant.
LEMMA DialKeeps ==
  ASSUME RelayInv, NEW d \in Dials,
         \/ TunnelDials(d) \/ ConnectionFails(d) \/ DialSteps(d)
         \/ \E s \in Sessions : Forward(d, s)
  PROVE  RelayInv'
<1>0. RelayInv /\ dial \in [Dials -> DialPoints] BY DEF RelayInv, RelayTypes
<1>1. CASE TunnelDials(d)
  <2>1. dial' \in [Dials -> DialPoints] BY <1>0, <1>1 DEF TunnelDials, DialPoints
  <2>2. \A e \in Dials : dial'[e] = "leave" => dial[e] = "leave" BY <1>0, <1>1 DEF TunnelDials
  <2>. QED BY <1>1, <2>1, <2>2, Aside DEF TunnelDials, tokens
<1>2. CASE ConnectionFails(d) BY <1>0, <1>2, Aside DEF ConnectionFails, tokens
<1>3. CASE DialRefused(d)
  <2>1. dial' \in [Dials -> DialPoints] BY <1>0, <1>3 DEF DialRefused, DialAt, DialPoints
  <2>2. \A e \in Dials : dial'[e] = "leave" => dial[e] = "leave"
    BY <1>0, <1>3 DEF DialRefused, DialAt
  <2>. QED BY <1>3, <2>1, <2>2, Aside DEF DialRefused, tokens
<1>4. CASE DialAllowed(d)
  <2>1. dial' \in [Dials -> DialPoints] BY <1>0, <1>4 DEF DialAllowed, DialAt, DialPoints
  <2>2. \A e \in Dials : dial'[e] = "leave" => dial[e] = "leave"
    BY <1>0, <1>4 DEF DialAllowed, DialAt
  <2>. QED BY <1>4, <2>1, <2>2, Aside DEF DialAllowed, tokens
<1>5. CASE LoopEnds(d)
  <2>1. dial' \in [Dials -> DialPoints] BY <1>0, <1>5 DEF LoopEnds, DialAt, DialPoints
  <2>2. \A e \in Dials : dial'[e] = "leave" => dial[e] = "leave"
    BY <1>0, <1>5 DEF LoopEnds, DialAt
  <2>. QED BY <1>5, <2>1, <2>2, Aside DEF LoopEnds, tokens
<1>6. CASE RegisterBridge(d)
  <2>1. dial' \in [Dials -> DialPoints] BY <1>0, <1>6 DEF RegisterBridge, DialAt, DialPoints
  <2>2. RelayTypes' BY <2>1, <1>0, <1>6 DEF RegisterBridge, tokens, RelayInv, RelayTypes, Dials
  <2>3. SoleHolder' BY <1>0, <1>6 DEF RegisterBridge, tokens, RelayInv, SoleHolder, Holds
  <2>4. ToldBeforeLeaving' BY <1>6 DEF RegisterBridge, ToldBeforeLeaving
  <2>5. ToldOfLoss' BY <1>0, <1>6 DEF RegisterBridge, RelayInv, ToldOfLoss
  <2>. QED BY <2>2, <2>3, <2>4, <2>5 DEF RelayInv
<1>7. CASE TellClients(d)
  <2>1. dial' \in [Dials -> DialPoints] BY <1>0, <1>7 DEF TellClients, DialAt, DialPoints
  <2>2. RelayTypes' BY <2>1, <1>0, <1>7 DEF TellClients, ClientsOf, tokens, RelayInv, RelayTypes
  <2>3. SoleHolder' BY <1>0, <1>7 DEF TellClients, tokens, RelayInv, SoleHolder, Holds
  <2>4. ToldBeforeLeaving' BY <1>7 DEF TellClients, ClientsOf, ToldBeforeLeaving
  <2>5. ToldOfLoss' BY <1>0, <1>7 DEF TellClients, RelayInv, ToldOfLoss
  <2>. QED BY <2>2, <2>3, <2>4, <2>5 DEF RelayInv
<1>8. CASE Leave(d)
  <2>1. dial' \in [Dials -> DialPoints] BY <1>0, <1>8 DEF Leave, DialAt, DialPoints
  <2>2. RelayTypes' BY <2>1, <1>0, <1>8 DEF Leave, NoEntry, tokens, RelayInv, RelayTypes
  <2>3. SoleHolder' BY <1>0, <1>8 DEF Leave, tokens, RelayInv, SoleHolder, Holds
  <2>4. ToldBeforeLeaving' BY <1>8 DEF Leave, NoEntry, ToldBeforeLeaving
  <2>5. entry.clients \subseteq lost \cup mute BY <1>0, <1>8 DEF Leave, DialAt, RelayInv, ToldBeforeLeaving
  <2>6. ToldOfLoss' BY <2>5, <1>0, <1>8 DEF Leave, RelayInv, ToldOfLoss
  <2>. QED BY <2>2, <2>3, <2>4, <2>6 DEF RelayInv
<1>9. CASE \E s \in Sessions : Forward(d, s)
  <2>1. PICK gone \in SUBSET (entry.clients \cap mute) :
          entry' = [entry EXCEPT !.clients = @ \ gone]
    BY <1>9 DEF Forward
  <2>2. UNCHANGED <<dial, client, mute, active, lost>> BY <1>9 DEF Forward, bridge, tokens
  <2>3. RelayTypes' BY <1>0, <2>1, <2>2 DEF RelayInv, RelayTypes
  <2>4. SoleHolder' BY <1>0, <2>2 DEF RelayInv, SoleHolder, Holds
  <2>5. entry'.clients = entry.clients \ gone BY <1>0, <2>1 DEF RelayInv, RelayTypes
  <2>6. ToldBeforeLeaving' BY <1>0, <2>2, <2>5 DEF RelayInv, ToldBeforeLeaving
  <2>7. ToldOfLoss' BY <1>0, <2>2, <2>5 DEF RelayInv, ToldOfLoss
  <2>. QED BY <2>3, <2>4, <2>6, <2>7 DEF RelayInv
<1>. QED BY <1>1, <1>2, <1>3, <1>4, <1>5, <1>6, <1>7, <1>8, <1>9 DEF DialSteps

\* A client that goes on, or is refused, before it attaches or from its loop,
\* and takes no token from the store, keeps the invariant.
LEMMA Moves ==
  ASSUME RelayInv, NEW c \in Clients,
         client' \in [Clients -> [pc : Points, tok : Tokens \cup {"none"}, sess : Sessions \cup {"none"}]],
         \A k \in Clients : k # c => client'[k] = client[k],
         Holds(c)' => Holds(c) /\ client'[c].tok = client[c].tok,
         client'[c].pc # "loop",
         UNCHANGED <<dial, entry, mute, active, lost>>
  PROVE  RelayInv'
<1>1. RelayTypes' BY DEF RelayInv, RelayTypes
<1>2. \A k \in Clients : Holds(k)' => Holds(k) /\ client'[k].tok = client[k].tok BY DEF Holds
<1>3. SoleHolder' BY <1>2 DEF RelayInv, SoleHolder
<1>4. ToldBeforeLeaving' BY DEF RelayInv, ToldBeforeLeaving
<1>5. ToldOfLoss' BY DEF RelayInv, ToldOfLoss
<1>. QED BY <1>1, <1>3, <1>4, <1>5 DEF RelayInv

\* What a check leaves of its client: the same one a step further, or a refused one.
LEMMA PassResult ==
  ASSUME RelayTypes, NEW c \in Clients, NEW from, NEW to \in Points, NEW ok, Pass(c, from, to, ok)
  PROVE  /\ client[c].pc = from
         /\ client' \in [Clients -> [pc : Points, tok : Tokens \cup {"none"}, sess : Sessions \cup {"none"}]]
         /\ \A k \in Clients : k # c => client'[k] = client[k]
         /\ \/ client'[c].pc = to /\ client'[c].tok = client[c].tok /\ ok
            \/ client'[c].pc = "refused"
<1>1. client[c].pc = from BY DEF Pass
<1>2. CASE ok
  <2>1. client' = [client EXCEPT ![c].pc = to] BY <1>2 DEF Pass, Step
  <2>. QED BY <1>1, <1>2, <2>1 DEF RelayTypes
<1>3. CASE ~ok
  <2>1. client' = [client EXCEPT ![c] = [Unattached EXCEPT !.pc = "refused"]] BY <1>3 DEF Pass, Refuse
  <2>. QED BY <1>1, <2>1 DEF RelayTypes, Unattached, Points
<1>. QED BY <1>2, <1>3

\* The steps of a client up to its admission keep the invariant.
LEMMA ClaimKeeps ==
  ASSUME RelayInv, NEW c \in Clients,
         \/ \E t \in Tokens, s \in Sessions : Opens(c, t, s)
         \/ CheckRevoked(c) \/ TakeToken(c) \/ VerifyToken(c) \/ MarkClaimed(c)
  PROVE  RelayInv'
<1>0. RelayTypes BY DEF RelayInv
<1>1. CASE \E t \in Tokens, s \in Sessions : Opens(c, t, s)
  <2>1. PICK t \in Tokens, s \in Sessions : Opens(c, t, s) BY <1>1
  <2>2. client' = [client EXCEPT ![c] = [pc |-> "check", tok |-> t, sess |-> s]]
    BY <2>1 DEF Opens
  <2>3. /\ client' \in [Clients -> [pc : Points, tok : Tokens \cup {"none"}, sess : Sessions \cup {"none"}]]
        /\ \A k \in Clients : k # c => client'[k] = client[k]
        /\ client'[c].pc = "check"
    BY <1>0, <2>2 DEF RelayTypes, Points
  <2>. QED BY <2>1, <2>3, Moves DEF Opens, bridge, tokens, Holds
<1>2. CASE CheckRevoked(c)
  <2>1. Pass(c, "check", "claim", ~revoked) BY <1>2 DEF CheckRevoked
  <2>. QED BY <1>0, <1>2, <2>1, PassResult, Moves DEF CheckRevoked, bridge, tokens, Holds, Points
<1>3. CASE TakeToken(c)
  <2>1. /\ Pass(c, "claim", "verify", client[c].tok \in active)
        /\ active' = active \ {client[c].tok}
        /\ UNCHANGED <<dial, entry, mute, lost>>
    BY <1>3 DEF TakeToken, ActiveAfter, bridge
  <2>2. /\ client[c].pc = "claim"
        /\ client' \in [Clients -> [pc : Points, tok : Tokens \cup {"none"}, sess : Sessions \cup {"none"}]]
        /\ \A k \in Clients : k # c => client'[k] = client[k]
        /\ \/ client'[c].pc = "verify" /\ client'[c].tok = client[c].tok /\ client[c].tok \in active
           \/ client'[c].pc = "refused"
    BY <1>0, <2>1, PassResult DEF Points
  <2>3. RelayTypes' BY <1>0, <2>1, <2>2 DEF RelayTypes
  <2>4. \A k \in Clients : k # c => (Holds(k)' <=> Holds(k)) BY <2>2 DEF Holds
  <2>5. SoleHolder'
    <3>1. CASE client'[c].pc = "refused"
      BY <3>1, <2>1, <2>2, <2>4 DEF RelayInv, SoleHolder, Holds
    <3>2. CASE client'[c].tok = client[c].tok /\ client[c].tok \in active
      <4>1. \A k \in Clients : k # c /\ Holds(k) => client[k].tok # client[c].tok
        BY <3>2 DEF RelayInv, SoleHolder
      <4>. QED BY <3>2, <4>1, <2>1, <2>2, <2>4 DEF RelayInv, SoleHolder
    <3>. QED BY <3>1, <3>2, <2>2
  <2>6. ToldBeforeLeaving' BY <2>1 DEF RelayInv, ToldBeforeLeaving
  <2>7. ToldOfLoss' BY <2>1, <2>2 DEF RelayInv, ToldOfLoss
  <2>. QED BY <2>3, <2>5, <2>6, <2>7 DEF RelayInv
<1>4. CASE VerifyToken(c)
  <2>1. Pass(c, "verify", "mark", client[c].tok \notin expired \cup claimed /\ ~revoked)
    BY <1>4 DEF VerifyToken
  <2>. QED BY <1>0, <1>4, <2>1, PassResult, Moves DEF VerifyToken, bridge, tokens, Holds, Points
<1>5. CASE MarkClaimed(c)
  <2>1. Pass(c, "mark", "attach", BoundTo[client[c].tok] = client[c].sess)
    BY <1>5 DEF MarkClaimed
  <2>2. /\ client[c].pc = "mark"
        /\ client' \in [Clients -> [pc : Points, tok : Tokens \cup {"none"}, sess : Sessions \cup {"none"}]]
        /\ \A k \in Clients : k # c => client'[k] = client[k]
        /\ \/ client'[c].pc = "attach" /\ client'[c].tok = client[c].tok
           \/ client'[c].pc = "refused"
    BY <1>0, <2>1, PassResult DEF Points
  <2>3. UNCHANGED <<dial, entry, mute, active, lost>> BY <1>5 DEF MarkClaimed, bridge
  <2>4. Holds(c)' => Holds(c) /\ client'[c].tok = client[c].tok BY <2>2 DEF Holds
  <2>. QED BY <2>2, <2>3, <2>4, Moves
<1>. QED BY <1>1, <1>2, <1>3, <1>4, <1>5

\* The steps of an admitted client keep the invariant.
LEMMA AttachedKeeps ==
  ASSUME RelayInv, NEW c \in Clients,
         AttachClient(c) \/ ClientEnds(c) \/ DetachClients(c) \/ WriterEnds(c)
  PROVE  RelayInv'
<1>0. RelayTypes BY DEF RelayInv
<1>1. CASE AttachClient(c)
  <2>1. /\ client[c].pc = "attach"
        /\ client' = [client EXCEPT ![c].pc = IF entry = NoEntry THEN "done" ELSE "loop"]
        /\ UNCHANGED <<dial, mute, active>>
    BY <1>1 DEF AttachClient, Step, bridge, tokens
  <2>2. /\ client' \in [Clients -> [pc : Points, tok : Tokens \cup {"none"}, sess : Sessions \cup {"none"}]]
        /\ \A k \in Clients : k # c => client'[k] = client[k]
        /\ client'[c].tok = client[c].tok
        /\ client'[c].pc = IF entry = NoEntry THEN "done" ELSE "loop"
    BY <1>0, <2>1 DEF RelayTypes, Points
  <2>3. CASE entry = NoEntry
    BY <1>1, <2>1, <2>2, <2>3, Moves DEF AttachClient, Holds
  <2>4. CASE entry # NoEntry
    <3>1. /\ entry' = [entry EXCEPT !.clients = @ \cup {c}]
          /\ lost' = IF \E d \in Dials : dial[d] = "leave" THEN lost \cup {c} ELSE lost
      BY <1>1, <2>4 DEF AttachClient
    <3>2. RelayTypes' BY <1>0, <2>1, <2>2, <3>1 DEF RelayTypes
    <3>3. SoleHolder' BY <2>1, <2>2 DEF RelayInv, SoleHolder, Holds
    <3>4. ToldBeforeLeaving' BY <1>0, <2>1, <3>1 DEF RelayInv, RelayTypes, ToldBeforeLeaving
    <3>5. ToldOfLoss' BY <1>0, <2>1, <2>2, <3>1 DEF RelayInv, RelayTypes, ToldOfLoss
    <3>. QED BY <3>2, <3>3, <3>4, <3>5 DEF RelayInv
  <2>. QED BY <2>3, <2>4
<1>2. CASE ClientEnds(c)
  <2>1. client[c].pc = "loop" /\ client' = [client EXCEPT ![c].pc = "detach"]
    BY <1>2 DEF ClientEnds, Step
  <2>2. /\ client' \in [Clients -> [pc : Points, tok : Tokens \cup {"none"}, sess : Sessions \cup {"none"}]]
        /\ \A k \in Clients : k # c => client'[k] = client[k]
        /\ client'[c].tok = client[c].tok /\ client'[c].pc = "detach"
    BY <1>0, <2>1 DEF RelayTypes, Points
  <2>. QED BY <1>2, <2>1, <2>2, Moves DEF ClientEnds, Holds, bridge, tokens
<1>3. CASE DetachClients(c)
  <2>1. PICK gone \in SUBSET entry.clients :
          /\ entry' = [entry EXCEPT !.clients = @ \ gone]
          /\ lost' = lost \cup gone
    BY <1>3 DEF DetachClients
  <2>2. /\ client[c].pc = "detach" /\ client' = [client EXCEPT ![c].pc = "done"]
        /\ UNCHANGED <<dial, mute, active>>
    BY <1>3 DEF DetachClients, Step, bridge, tokens
  <2>3. /\ client' \in [Clients -> [pc : Points, tok : Tokens \cup {"none"}, sess : Sessions \cup {"none"}]]
        /\ \A k \in Clients : k # c => client'[k] = client[k]
        /\ client'[c].tok = client[c].tok /\ client'[c].pc = "done"
    BY <1>0, <2>2 DEF RelayTypes, Points
  <2>4. RelayTypes' BY <1>0, <2>1, <2>2, <2>3 DEF RelayTypes
  <2>5. SoleHolder' BY <2>2, <2>3 DEF RelayInv, SoleHolder, Holds
  <2>6. ToldBeforeLeaving' BY <1>0, <2>1, <2>2 DEF RelayInv, RelayTypes, ToldBeforeLeaving
  <2>7. ToldOfLoss' BY <1>0, <2>1, <2>2, <2>3 DEF RelayInv, RelayTypes, ToldOfLoss
  <2>. QED BY <2>4, <2>5, <2>6, <2>7 DEF RelayInv
<1>4. CASE WriterEnds(c)
  <2>1. mute' = mute \cup {c} /\ UNCHANGED <<dial, entry, client, active, lost>>
    BY <1>4 DEF WriterEnds, bridge, tokens
  <2>2. RelayTypes' BY <1>0, <2>1 DEF RelayTypes
  <2>3. SoleHolder' BY <2>1 DEF RelayInv, SoleHolder, Holds
  <2>4. ToldBeforeLeaving' BY <2>1 DEF RelayInv, ToldBeforeLeaving
  <2>5. ToldOfLoss' BY <2>1 DEF RelayInv, ToldOfLoss
  <2>. QED BY <2>2, <2>3, <2>4, <2>5 DEF RelayInv
<1>. QED BY <1>1, <1>2, <1>3, <1>4

\* The steps of the operator and of the tunnel's supervisor keep the invariant.
LEMMA AdminKeeps ==
  ASSUME RelayInv,
         \/ TunnelNotices \/ RevokeDevice \/ RevokeUnregister
         \/ \E t \in Tokens : Mint(t) \/ Expire(t)
  PROVE  RelayInv'
<1>0. RelayTypes BY DEF RelayInv
<1>1. CASE TunnelNotices BY <1>0, <1>1, Aside DEF TunnelNotices, tokens, RelayTypes
<1>2. CASE RevokeDevice BY <1>0, <1>2, Aside DEF RevokeDevice, bridge, tokens, RelayTypes
<1>3. CASE RevokeUnregister
  <2>1. /\ entry' = [dial |-> 0, clients |-> {}] /\ lost' = lost \cup entry.clients
        /\ UNCHANGED <<dial, client, mute, active>>
    BY <1>3 DEF RevokeUnregister, NoEntry, bridge, tokens
  <2>2. RelayTypes' BY <1>0, <2>1 DEF RelayTypes
  <2>3. SoleHolder' BY <2>1 DEF RelayInv, SoleHolder, Holds
  <2>4. ToldBeforeLeaving' BY <2>1 DEF ToldBeforeLeaving
  <2>5. ToldOfLoss' BY <2>1 DEF RelayInv, ToldOfLoss
  <2>. QED BY <2>2, <2>3, <2>4, <2>5 DEF RelayInv
<1>4. ASSUME NEW t \in Tokens, Mint(t) PROVE RelayInv'
  <2>1. /\ \A c \in Clients : client[c].tok # t
        /\ active' = active \cup {t}
        /\ UNCHANGED <<dial, entry, client, mute, lost>>
    BY <1>4 DEF Mint, bridge
  <2>2. RelayTypes' BY <1>0, <2>1 DEF RelayTypes
  <2>3. SoleHolder' BY <2>1 DEF RelayInv, SoleHolder, Holds
  <2>4. ToldBeforeLeaving' /\ ToldOfLoss' BY <2>1 DEF RelayInv, ToldBeforeLeaving, ToldOfLoss
  <2>. QED BY <2>2, <2>3, <2>4 DEF RelayInv
<1>5. ASSUME NEW t \in Tokens, Expire(t) PROVE RelayInv'
  BY <1>0, <1>5, Aside DEF Expire, bridge, RelayTypes
<1>. QED BY <1>1, <1>2, <1>3, <1>4, <1>5

\* Every step of the relay and the bridge keeps the invariant.
LEMMA RelayNextInv == RelayInv /\ [RelayNext]_relayVars => RelayInv'
<1>. SUFFICES ASSUME RelayInv, [RelayNext]_relayVars PROVE RelayInv'
  OBVIOUS
<1>1. CASE UNCHANGED relayVars BY <1>1, Aside DEF relayVars, bridge, tokens, RelayInv, RelayTypes
<1>2. CASE \E d \in Dials : \/ TunnelDials(d) \/ ConnectionFails(d) \/ DialSteps(d)
                            \/ \E s \in Sessions : Forward(d, s)
  BY <1>2, DialKeeps
<1>3. ASSUME NEW c \in Clients,
             \/ ClientSteps(c) \/ ClientEnds(c) \/ WriterEnds(c)
             \/ \E t \in Tokens, s \in Sessions : Opens(c, t, s)
      PROVE  RelayInv'
  BY <1>3, ClaimKeeps, AttachedKeeps DEF ClientSteps
<1>4. CASE \/ TunnelNotices \/ RevokeDevice \/ RevokeUnregister
           \/ \E t \in Tokens : Mint(t) \/ Expire(t)
  BY <1>4, AdminKeeps
<1>. QED BY <1>1, <1>2, <1>3, <1>4 DEF RelayNext

\* The inductive invariant holds in every state.
THEOREM RelayInvHolds == RelaySpec => []RelayInv
BY RelayInitInv, RelayNextInv, PTL DEF RelaySpec

\* A teleport token lets one client in, whoever presents it when, and however
\* often the device is dialled or revoked (TokenStore::claim_by_opaque).
THEOREM OneClientPerToken == RelaySpec => []TokenOnce
<1>1. RelayInv => TokenOnce BY DEF RelayInv, SoleHolder, Holds, TokenOnce, Admitted
<1>. QED BY <1>1, RelayInvHolds, PTL

\* A client in its loop that has no sender in the registry was told, or removed by
\* another party, whichever of several dials of the bridge ends when
\* (bridge_dial_loop); or its own writer has ended and nothing could be told to it.
THEOREM LossIsTold == RelaySpec => []ToldOfLoss
<1>1. RelayInv => ToldOfLoss BY DEF RelayInv
<1>. QED BY <1>1, RelayInvHolds, PTL
=============================================================================
