----------------------- MODULE AssessmentIndex_proofs -----------------------
(***************************************************************************)
(* Proofs about the file store and its index, for any sessions, tasks and  *)
(* bounds, with torn, failed and unacknowledged writes, crashes, forget    *)
(* and the index's commands.  The store implements SessionHistory, where a *)
(* log may break; numbers are not used twice by sinks that could read the  *)
(* log; every acknowledged event missing from a log that can be read was   *)
(* paid for by a torn write; and the index shows nothing the log never     *)
(* held.                                                                   *)
(*                                                                         *)
(* None of the last three is inductive.  A number is fresh because the     *)
(* sink it was taken from counts behind everything an earlier process      *)
(* wrote (Behind), which holds of numbers whose line has not come yet      *)
(* (Ahead).  Losses are bounded by tears because a torn end is a tear that *)
(* has been paid and not used yet (Paid).  A row is backed because whoever *)
(* mirrors has its line behind it, in a process that may die between the   *)
(* two (MirrorsSeen).                                                      *)
(***************************************************************************)
EXTENDS AssessmentIndex, SequenceTheorems, FiniteSetTheorems, WellFoundedInduction, TLAPS

\* What a reader sees of a log: its ids.
IdsOf(q) == [i \in DOMAIN q |-> q[i].id]

LogOf == [s \in Sessions |-> IF CanLoad(s) THEN IdsOf(file[s]) ELSE << >>]

SettledOf == [s \in Sessions |-> CanLoad(s) => tail[s] # "whole"]

\* Sequences keep their type when the elements' set grows.
LEMMA WiderSeq ==
  ASSUME NEW S, NEW T, S \subseteq T, NEW q \in Seq(S)
  PROVE  q \in Seq(T)
OBVIOUS

LEMMA IdsTypes ==
  ASSUME NEW S, NEW q \in Seq(S)
  PROVE  /\ IdsOf(q) \in Seq({l.id : l \in S}) /\ Len(IdsOf(q)) = Len(q)
         /\ \A i \in 1..Len(q) : IdsOf(q)[i] = q[i].id
<1>1. DOMAIN q = 1..Len(q) /\ Len(q) \in Nat /\ \A i \in 1..Len(q) : q[i] \in S
  BY LenProperties, ElementOfSeq
<1>2. IdsOf(q) = [i \in 1..Len(q) |-> q[i].id]
  BY <1>1 DEF IdsOf
<1>3. \A i \in 1..Len(q) : q[i].id \in {l.id : l \in S}
  BY <1>1
<1>. QED BY <1>1, <1>2, <1>3

LEMMA IdsAppend ==
  ASSUME NEW S, NEW q \in Seq(S), NEW l \in S
  PROVE  IdsOf(Append(q, l)) = Append(IdsOf(q), l.id)
<1> DEFINE T == {m.id : m \in S}
           a == IdsOf(Append(q, l))
           b == Append(IdsOf(q), l.id)
<1>1. Append(q, l) \in Seq(S) /\ Len(Append(q, l)) = Len(q) + 1 /\ Len(q) \in Nat
      /\ Append(q, l)[Len(q) + 1] = l /\ \A i \in 1..Len(q) : Append(q, l)[i] = q[i]
  OBVIOUS
<1>2. a \in Seq(T) /\ Len(a) = Len(q) + 1 /\ \A i \in 1..(Len(q) + 1) : a[i] = Append(q, l)[i].id
  BY <1>1, IdsTypes
<1>3. IdsOf(q) \in Seq(T) /\ Len(IdsOf(q)) = Len(q) /\ l.id \in T
      /\ \A i \in 1..Len(q) : IdsOf(q)[i] = q[i].id
  BY IdsTypes
<1>. HIDE DEF T
<1>4. b \in Seq(T) /\ Len(b) = Len(q) + 1 /\ b[Len(q) + 1] = l.id
      /\ \A i \in 1..Len(q) : b[i] = IdsOf(q)[i]
  BY <1>1, <1>3
<1>. HIDE DEF a, b
<1>5. \A i \in 1..(Len(q) + 1) : a[i] = b[i]
  BY <1>1, <1>2, <1>3, <1>4
<1>6. a = b
  BY <1>2, <1>4, <1>5, SeqEqual
<1>. QED BY <1>6 DEF a, b

LEMMA IdsFront ==
  ASSUME NEW S, NEW q \in Seq(S), q # << >>
  PROVE  /\ Front(q) \in Seq(S)
         /\ IdsOf(Front(q)) = SubSeq(IdsOf(q), 1, Len(IdsOf(q)) - 1)
         /\ IdsOf(q) # << >>
<1> DEFINE T == {m.id : m \in S}
           n == Len(q) - 1
           a == IdsOf(Front(q))
           b == SubSeq(IdsOf(q), 1, n)
<1>1. n \in Nat /\ Len(q) \in Nat /\ n + 1 = Len(q) /\ \A i \in 1..n : i \in 1..Len(q) /\ q[i] \in S
  BY EmptySeq, ElementOfSeq
<1>2. Front(q) \in Seq(S) /\ Len(Front(q)) = n /\ \A i \in 1..n : Front(q)[i] = q[i]
  <2>1. Front(q) = SubSeq(q, 1, n)
    BY DEF Front
  <2>. HIDE DEF n
  <2>. QED BY <1>1, <2>1
<1>3. IdsOf(q) \in Seq(T) /\ Len(IdsOf(q)) = Len(q)
      /\ \A i \in 1..Len(q) : IdsOf(q)[i] = q[i].id
  BY IdsTypes
<1>4. a \in Seq(T) /\ Len(a) = n /\ \A i \in 1..n : a[i] = Front(q)[i].id
  BY <1>2, IdsTypes
<1>. HIDE DEF T, n
<1>5. b \in Seq(T) /\ Len(b) = n /\ \A i \in 1..n : b[i] = IdsOf(q)[i]
  BY <1>1, <1>3
<1>. HIDE DEF a, b
<1>6. \A i \in 1..n : a[i] = b[i]
  BY <1>1, <1>2, <1>3, <1>4, <1>5
<1>7. a = b
  BY <1>4, <1>5, <1>6, SeqEqual
<1>8. IdsOf(q) # << >>
  BY <1>1, <1>3, EmptySeq
<1>. QED BY <1>2, <1>3, <1>7, <1>8 DEF a, b, n

LEMMA IdsEmpty == IdsOf(<< >>) = << >>
<1>1. << >> \in Seq({}) /\ Len(<< >>) = 0
  BY EmptySeq
<1>2. IdsOf(<< >>) \in Seq({l.id : l \in {}}) /\ Len(IdsOf(<< >>)) = 0
  BY <1>1, IdsTypes
<1>. QED BY <1>2, EmptySeq

-------------------------------------------------------------------------------
\* A log is a sequence, only a log that has a line ends in a whole one, and who is
\* about to append has an id.
LogInv ==
  /\ \E S : file \in [Sessions -> Seq(S)]
  /\ tail \in [Sessions -> {"clean", "part", "whole"}]
  /\ \A s \in Sessions : tail[s] = "whole" => file[s] # << >>
  /\ DOMAIN rec = Recorders
  /\ \A r \in Recorders : "pc" \in DOMAIN rec[r] /\ "id" \in DOMAIN rec[r]
  /\ \A r \in Recorders : rec[r].pc = "append" => rec[r].id \in Ids
  /\ "events" \in DOMAIN count /\ count.events \in Nat

\* The part of it about recorders, after a step.
RecKept ==
  /\ DOMAIN rec' = Recorders
  /\ \A r \in Recorders : "pc" \in DOMAIN rec'[r] /\ "id" \in DOMAIN rec'[r]
  /\ \A r \in Recorders : rec'[r].pc = "append" => rec'[r].id \in Ids
  /\ "events" \in DOMAIN count' /\ count'.events \in Nat

Shown == <<LogOf, SettledOf, broken>>

\* What a write leaves of the log is one step of the history, or none.
LEMMA WriteShows ==
  ASSUME LogInv, NEW s \in Sessions, NEW line, line.id \in Ids,
         NEW how \in {"none", "part", "split", "whole", "line"}, Write(s, line, how)
  PROVE  /\ History!Next \/ UNCHANGED Shown
         /\ \E S : file' \in [Sessions -> Seq(S)]
         /\ tail' \in [Sessions -> {"clean", "part", "whole"}]
         /\ \A d \in Sessions : tail'[d] = "whole" => file'[d] # << >>
<1>1. PICK S0 : file \in [Sessions -> Seq(S0)]
  BY DEF LogInv
<1> DEFINE S == S0 \cup {line}
<1>2. file \in [Sessions -> Seq(S)] /\ line \in S
  BY <1>1, WiderSeq
<1>. HIDE DEF S
<1>3. tail \in [Sessions -> {"clean", "part", "whole"}]
      /\ \A d \in Sessions : tail[d] = "whole" => file[d] # << >>
  BY DEF LogInv
<1>4. ASSUME UNCHANGED file, tail'[s] # "whole" <=> tail[s] # "whole",
             tail' \in [Sessions -> {"clean", "part", "whole"}],
             \A d \in Sessions : d # s => tail'[d] = tail[d]
      PROVE  /\ UNCHANGED broken => UNCHANGED Shown
             /\ file' \in [Sessions -> Seq(S)]
             /\ tail' \in [Sessions -> {"clean", "part", "whole"}]
             /\ \A d \in Sessions : tail'[d] = "whole" => file'[d] # << >>
  <2>1. UNCHANGED broken => LogOf' = LogOf /\ SettledOf' = SettledOf
    BY <1>4 DEF LogOf, SettledOf, CanLoad
  <2>. QED BY <1>2, <1>3, <1>4, <2>1 DEF Shown
<1>5. ASSUME tail[s] = "clean", file' = [file EXCEPT ![s] = Append(file[s], line)],
             NEW t \in {"clean", "whole"}, tail' = [tail EXCEPT ![s] = t]
      PROVE  /\ UNCHANGED broken /\ CanLoad(s) => History!Next
             /\ file' \in [Sessions -> Seq(S)]
             /\ tail' \in [Sessions -> {"clean", "part", "whole"}]
             /\ \A d \in Sessions : tail'[d] = "whole" => file'[d] # << >>
  <2>1. Append(file[s], line) \in Seq(S) /\ Append(file[s], line) # << >>
    <3>1. Append(file[s], line) \in Seq(S) /\ Len(Append(file[s], line)) = Len(file[s]) + 1
          /\ Len(file[s]) \in Nat
      BY <1>2
    <3>. QED BY <3>1, EmptySeq
  <2>2. ASSUME UNCHANGED broken, CanLoad(s) PROVE History!Next
    <3>1. LogOf' = [LogOf EXCEPT ![s] = Append(LogOf[s], line.id)]
      <4>1. IdsOf(file'[s]) = Append(LogOf[s], line.id)
        BY <1>2, <1>5, <2>2, IdsAppend DEF LogOf
      <4>. QED BY <1>2, <1>5, <2>2, <4>1 DEF LogOf, CanLoad
    <3>2. SettledOf[s] = TRUE /\ s \notin broken
      BY <1>5, <2>2 DEF SettledOf, CanLoad
    <3>3. SettledOf' \in {SettledOf, [SettledOf EXCEPT ![s] = FALSE]}
      <4>1. CASE t = "clean"
        BY <1>3, <1>5, <2>2, <4>1 DEF SettledOf, CanLoad
      <4>2. CASE t = "whole"
        BY <1>3, <1>5, <2>2, <4>2 DEF SettledOf, CanLoad
      <4>. QED BY <4>1, <4>2
    <3>4. History!Extend(s, line.id)
      BY <2>2, <3>1, <3>2, <3>3 DEF History!Extend, LogOf, SettledOf, IdsOf
    <3>. QED BY <3>4 DEF History!Next
  <2>. QED BY <1>2, <1>3, <1>5, <2>1, <2>2
<1>6. ASSUME tail[s] = "whole", file' = [file EXCEPT ![s] = Front(file[s])],
             NEW t \in {"clean", "part"}, tail' = [tail EXCEPT ![s] = t]
      PROVE  /\ UNCHANGED broken /\ CanLoad(s) => History!Next
             /\ file' \in [Sessions -> Seq(S)]
             /\ tail' \in [Sessions -> {"clean", "part", "whole"}]
             /\ \A d \in Sessions : tail'[d] = "whole" => file'[d] # << >>
  <2>1. /\ Front(file[s]) \in Seq(S) /\ IdsOf(file[s]) # << >>
        /\ IdsOf(Front(file[s])) = SubSeq(IdsOf(file[s]), 1, Len(IdsOf(file[s])) - 1)
    BY <1>2, <1>3, <1>6, IdsFront
  <2>2. ASSUME UNCHANGED broken, CanLoad(s) PROVE History!Next
    <3>1. LogOf' = [LogOf EXCEPT ![s] = SubSeq(LogOf[s], 1, Len(LogOf[s]) - 1)] /\ LogOf[s] # << >>
      BY <1>2, <1>6, <2>1, <2>2 DEF LogOf, CanLoad
    <3>2. SettledOf' = [SettledOf EXCEPT ![s] = TRUE] /\ ~SettledOf[s]
      BY <1>3, <1>6, <2>2 DEF SettledOf, CanLoad
    <3>3. History!Lose(s)
      BY <2>2, <3>1, <3>2 DEF History!Lose, LogOf, SettledOf, IdsOf
    <3>. QED BY <3>3 DEF History!Next
  <2>. QED BY <1>2, <1>3, <1>6, <2>1, <2>2
\* What the write leaves of the files, ...
<1>8. /\ file' \in [Sessions -> Seq(S)]
      /\ tail' \in [Sessions -> {"clean", "part", "whole"}]
      /\ \A d \in Sessions : tail'[d] = "whole" => file'[d] # << >>
      /\ UNCHANGED broken /\ CanLoad(s) => History!Next \/ UNCHANGED Shown
      /\ \A d \in Sessions : d # s => file'[d] = file[d] /\ tail'[d] = tail[d]
  <2>1. CASE tail[s] = "clean" /\ how # "none"
    <3>1. CASE how \in {"part", "split"}
      BY <1>2, <1>3, <1>4, <2>1, <3>1 DEF Write
    <3>2. CASE how \in {"whole", "line"}
      BY <1>2, <1>3, <1>5, <2>1, <3>2 DEF Write
    <3>. QED BY <2>1, <3>1, <3>2
  <2>2. CASE tail[s] = "part" /\ how # "none"
    BY <1>2, <1>3, <1>4, <2>2 DEF Write
  <2>3. CASE tail[s] = "whole" /\ how # "none"
    BY <1>2, <1>3, <1>6, <2>3 DEF Write
  <2>4. CASE how = "none"
    <3>1. UNCHANGED <<file, tail, broken>> BY <2>4 DEF Write
    <3>. QED BY <1>3, <1>4, <3>1
  <2>. QED BY <1>3, <2>1, <2>2, <2>3, <2>4
\* ... and of what a reader gets.
<1>9. CASE ~CanLoad(s)
  <2>1. broken' = broken
    BY <1>9 DEF Write, CanLoad
  <2>2. LogOf' = LogOf /\ SettledOf' = SettledOf
    BY <1>8, <1>9, <2>1 DEF LogOf, SettledOf, CanLoad
  <2>. QED BY <1>8, <2>1, <2>2 DEF Shown
<1>10. CASE CanLoad(s) /\ how = "split"
  <2>1. broken' = broken \cup {s}
    BY <1>10 DEF Write
  <2>2. LogOf' = [LogOf EXCEPT ![s] = << >>] /\ SettledOf' = [SettledOf EXCEPT ![s] = TRUE]
    BY <1>8, <2>1 DEF LogOf, SettledOf, CanLoad
  <2>3. History!Break(s)
    BY <2>1, <2>2 DEF History!Break, LogOf, SettledOf, IdsOf
  <2>. QED BY <1>8, <2>3 DEF History!Next
<1>11. CASE CanLoad(s) /\ how # "split"
  <2>1. UNCHANGED broken
    BY <1>11 DEF Write
  <2>. QED BY <1>8, <1>11, <2>1
<1>. QED BY <1>9, <1>10, <1>11

\* A step that leaves the files alone shows nothing, and keeps the invariant as long
\* as nobody starts to append without an id.
LEMMA FilesAlone ==
  ASSUME LogInv, UNCHANGED <<file, tail, broken>>, RecKept
  PROVE  LogInv' /\ UNCHANGED Shown
<1>1. LogOf' = LogOf /\ SettledOf' = SettledOf
  BY DEF LogOf, SettledOf, CanLoad
<1>. QED BY <1>1 DEF LogInv, RecKept, Shown

\* A finished recorder is not appending.
LEMMA DoneKeeps ==
  ASSUME LogInv, NEW r \in Recorders, Done(r), UNCHANGED count
  PROVE  RecKept
BY DEF LogInv, RecKept, Done, Idle

\* Who appends does so to a log there is.
Placed == \A r \in Recorders : rec[r].pc = "append" => SessionOf(r) \in Sessions

\* Writing a line of a recorder that may append.
LEMMA RecorderWrites ==
  ASSUME LogInv, NEW r \in Recorders, NEW how \in {"none", "part", "split", "whole", "line"},
         how # "none" => rec[r].pc = "append", Placed,
         Write(SessionOf(r), Line(r), how), RecKept
  PROVE  LogInv' /\ (History!Next \/ UNCHANGED Shown)
<1> DEFINE s == SessionOf(r)
           l == Line(r)
<1>1. CASE how = "none"
  BY <1>1, FilesAlone DEF Write
<1>2. CASE how # "none"
  <2>1. l.id \in Ids /\ s \in Sessions
    BY <1>2 DEF LogInv, Line, Placed
  <2>. HIDE DEF s, l
  <2>2. Write(s, l, how)
    BY DEF s, l
  <2>3. /\ History!Next \/ UNCHANGED Shown
        /\ \E S : file' \in [Sessions -> Seq(S)]
        /\ tail' \in [Sessions -> {"clean", "part", "whole"}]
        /\ \A d \in Sessions : tail'[d] = "whole" => file'[d] # << >>
    BY <1>2, <2>1, <2>2, WriteShows
  <2>. QED BY <2>3 DEF LogInv, RecKept
<1>. QED BY <1>1, <1>2

\* remove_dir_all forgets the log at once.
LEMMA ForgetShows ==
  ASSUME LogInv, NEW s \in Sessions, RecKept,
         file' = [file EXCEPT ![s] = << >>], tail' = [tail EXCEPT ![s] = "clean"],
         broken' = broken \ {s}
  PROVE  LogInv' /\ History!Next
<1>1. PICK S : file \in [Sessions -> Seq(S)]
  BY DEF LogInv
<1>2. tail \in [Sessions -> {"clean", "part", "whole"}]
  BY DEF LogInv
<1>3. file' \in [Sessions -> Seq(S)]
  BY <1>1, EmptySeq
<1>4. LogOf' = [LogOf EXCEPT ![s] = << >>]
  BY <1>1, IdsEmpty DEF LogOf, CanLoad
<1>5. SettledOf' = [SettledOf EXCEPT ![s] = TRUE]
  BY <1>2 DEF SettledOf, CanLoad
<1>6. History!Forget(s)
  BY <1>4, <1>5 DEF History!Forget, LogOf, SettledOf, IdsOf
<1>7. \A d \in Sessions : tail'[d] = "whole" => file'[d] # << >>
  BY <1>1, <1>2 DEF LogInv
<1>. QED BY <1>2, <1>3, <1>6, <1>7 DEF LogInv, RecKept, History!Next

LEMMA LogShows ==
  ASSUME LogInv, Placed, LogNext
  PROVE  LogInv' /\ (History!Next \/ UNCHANGED Shown)
<1>0. /\ "events" \in DOMAIN count /\ count.events \in Nat /\ DOMAIN rec = Recorders
      /\ \A r \in Recorders : "pc" \in DOMAIN rec[r] /\ "id" \in DOMAIN rec[r]
      /\ \A r \in Recorders : rec[r].pc = "append" => rec[r].id \in Ids
  BY DEF LogInv
<1>1. ASSUME NEW s \in Sessions, Forget(s)
      PROVE  LogInv' /\ (History!Next \/ UNCHANGED Shown)
  <2>1. RecKept
    BY <1>0, <1>1 DEF Forget, Fault, Tick, RecKept
  <2>. QED BY <1>1, <2>1, ForgetShows DEF Forget
<1>2. ASSUME NEW s \in Sessions, ForgetFails(s)
      PROVE  LogInv' /\ (History!Next \/ UNCHANGED Shown)
  <2>1. RecKept
    BY <1>0, <1>2 DEF ForgetFails, Fault, Tick, RecKept
  <2>. QED BY <1>2, <2>1, ForgetShows, FilesAlone DEF ForgetFails
<1>3. ASSUME \/ \E s \in Sessions, k \in Sinks : OpenSink(s, k)
             \/ OpenSinkFails
             \/ \E k \in Sinks : NumberSink(k) \/ NumberSinkFails(k) \/ MarkStatus(k)
      PROVE  LogInv' /\ (History!Next \/ UNCHANGED Shown)
  <2>1. RecKept /\ UNCHANGED <<file, tail, broken>>
    BY <1>0, <1>3 DEF OpenSink, OpenSinkFails, NumberSink, NumberSinkFails, MarkStatus, Fail, Fault, Tick, store,
       RecKept
  <2>. QED BY <2>1, FilesAlone
<1>4. ASSUME NEW r \in Recorders, NEW k \in Sinks, NEW kind, Record(r, k, kind)
      PROVE  LogInv' /\ (History!Next \/ UNCHANGED Shown)
  <2>1. count'.events = count.events + 1 /\ "events" \in DOMAIN count' /\ count.events < MaxEvents
    BY <1>0, <1>4 DEF Record, Tick
  <2>2. count'.events \in Ids
    BY <1>0, <2>1, LogAssumption DEF Ids
  <2>3. /\ rec' = [rec EXCEPT ![r] = [pc |-> "append", sink |-> k, said |-> TRUE, id |-> count'.events,
                                      seq |-> sink[k].next, kind |-> kind]]
        /\ UNCHANGED <<file, tail, broken>>
    BY <1>4 DEF Record, store
  <2>4. RecKept
    BY <1>0, <2>1, <2>2, <2>3 DEF RecKept
  <2>. QED BY <2>3, <2>4, FilesAlone
<1>5. ASSUME NEW r \in Recorders, AppendOk(r)
      PROVE  LogInv' /\ (History!Next \/ UNCHANGED Shown)
  <2>1. UNCHANGED count /\ (Done(r) \/ rec' = [rec EXCEPT ![r].pc = "mirror"])
    BY <1>5 DEF AppendOk
  <2>2. Done(r) => RecKept
    <3>. HIDE <1>5
    <3>. QED BY <2>1, DoneKeeps
  <2>3. rec' = [rec EXCEPT ![r].pc = "mirror"] => RecKept
    <3>. HIDE <1>5
    <3>. QED BY <1>0, <2>1 DEF RecKept
  <2>. QED BY <1>5, <2>1, <2>2, <2>3, RecorderWrites DEF AppendOk
<1>6. ASSUME NEW r \in Recorders, NEW how \in {"none", "part", "split", "whole", "line"}, AppendFails(r, how)
      PROVE  LogInv' /\ (History!Next \/ UNCHANGED Shown)
  <2>1. RecKept
    BY <1>0, <1>6 DEF AppendFails, Done, Idle, RecKept
  <2>. QED BY <1>6, <2>1, RecorderWrites DEF AppendFails
<1>7. ASSUME NEW r \in Recorders, NEW how \in {"none", "part", "split", "whole", "line"}, Crash(r, how)
      PROVE  LogInv' /\ (History!Next \/ UNCHANGED Shown)
  <2>1. RecKept
    BY <1>0, <1>7 DEF Crash, Idle, RecKept
  <2>. QED BY <1>7, <2>1, RecorderWrites DEF Crash
<1>. QED BY <1>1, <1>2, <1>3, <1>4, <1>5, <1>6, <1>7 DEF LogNext

\* The index's steps leave the files alone.
LEMMA IndexShows ==
  ASSUME LogInv, Placed, [IndexNext]_<<vars, ivars>>
  PROVE  LogInv' /\ (History!Next \/ UNCHANGED Shown)
<1>0. /\ "events" \in DOMAIN count /\ count.events \in Nat /\ DOMAIN rec = Recorders
      /\ \A r \in Recorders : "pc" \in DOMAIN rec[r] /\ "id" \in DOMAIN rec[r]
      /\ \A r \in Recorders : rec[r].pc = "append" => rec[r].id \in Ids
      /\ Tasks \subseteq Recorders
  BY DEF LogInv, Recorders
<1>1. ASSUME NEW r \in Tasks,
             \/ MirrorStarted(r) \/ MirrorRead(r) \/ PutProgress(r) \/ PutTerminal(r)
             \/ PutSweep(r) \/ PutParent(r) \/ PutFinding(r) \/ MirrorFails(r)
      PROVE  RecKept /\ UNCHANGED <<file, tail, broken>>
  <2>1. UNCHANGED <<file, tail, broken>>
    BY <1>1 DEF MirrorStarted, MirrorRead, PutProgress, PutTerminal, PutSweep, PutParent,
       PutFinding, MirrorFails, store
  <2>2. CASE MirrorRead(r) \/ PutParent(r)
    BY <1>0, <2>1, <2>2 DEF MirrorRead, PutParent, RecKept
  <2>3. CASE MirrorStarted(r) \/ PutProgress(r) \/ PutTerminal(r) \/ PutSweep(r) \/ PutFinding(r)
    <3>1. Done(r) /\ UNCHANGED count
      BY <2>3 DEF MirrorStarted, PutProgress, PutTerminal, PutSweep, PutFinding
    <3>2. RecKept
      BY <1>0, <3>1, DoneKeeps
    <3>. QED BY <2>1, <3>2
  <2>4. CASE MirrorFails(r)
    BY <1>0, <2>1, <2>4 DEF MirrorFails, Fail, Fault, Tick, Done, Idle, RecKept
  <2>. QED BY <1>1, <2>1, <2>2, <2>3, <2>4
<1>2. ASSUME RebuildList \/ RebuildReplace \/ RebuildFails \/ \E s \in Sessions : RebuildLoad(s)
      PROVE  RecKept /\ UNCHANGED <<file, tail, broken>>
  BY <1>0, <1>2 DEF RebuildList, RebuildReplace, RebuildFails, RebuildLoad, Fault, Tick, store,
     vars, RecKept
<1>3. ASSUME UNCHANGED <<vars, ivars>>
      PROVE  RecKept /\ UNCHANGED <<file, tail, broken>>
  BY <1>0, <1>3 DEF vars, RecKept
<1>. QED BY <1>1, <1>2, <1>3, LogShows, FilesAlone DEF IndexNext

-------------------------------------------------------------------------------
(* What the log's numbers, losses and index rest on: who records what through   *)
(* which sink, and that every line of a file has been seen.                     *)

Records ==
  [pc : {"idle", "append", "mirror", "put", "child", "ended"}, sink : Nat, said : BOOLEAN,
   id : Nat, seq : Nat, kind : (UNION Range(Kinds)) \cup {"other", "none"}]

SinkStates ==
  [pc : {"free", "numbering", "open"}, session : Sessions \cup {NoSink.session}, next : Nat,
   blind : BOOLEAN]

RecTypes == rec \in [Recorders -> Records]
CountTypes == count \in [{"events", "sinks", "faults", "tears", "crashes"} -> Nat]

Appending(r) == rec[r].pc = "append"

\* Who appends took his number from an open sink.
OnOpenSink ==
  \A r \in Recorders : Appending(r) =>
    /\ rec[r].sink \in Sinks /\ sink[rec[r].sink].pc = "open"
    /\ rec[r].seq < sink[rec[r].sink].next

SinkSession == \A k \in Sinks : sink[k].pc # "free" => sink[k].session \in Sessions

StoreInv ==
  /\ RecTypes /\ CountTypes /\ OnOpenSink /\ SinkSession
  /\ sink \in [Sinks -> SinkStates]
  /\ file \in [Sessions -> Seq(ever)]
  /\ tail \in [Sessions -> {"clean", "part", "whole"}]
  /\ acked \in [Sessions -> SUBSET Nat]
  /\ \A s \in Sessions : tail[s] = "whole" => file[s] # << >>

\* The kinds of step: nobody starts to append and the files stay, ...
Plain ==
  /\ UNCHANGED <<file, tail, sink, ever, acked>>
  /\ RecTypes' /\ CountTypes'
  /\ \A r \in Recorders : rec'[r].pc = "append" => rec'[r] = rec[r]
  /\ count'.events = count.events /\ count'.crashes = count.crashes /\ count'.tears = count.tears

\* ... a log goes, ...
Wipe(s) ==
  /\ file' = [file EXCEPT ![s] = << >>]
  /\ tail' = [tail EXCEPT ![s] = "clean"]
  /\ acked' = [acked EXCEPT ![s] = {}]
  /\ UNCHANGED <<sink, rec, ever>>
  /\ CountTypes'
  /\ count'.events = count.events /\ count'.crashes = count.crashes /\ count'.tears = count.tears

\* ... or one of the steps of a sink or a recorder is taken.
StoreStep ==
  \/ Plain
  \/ \E s \in Sessions : Wipe(s)
  \/ \E s \in Sessions, k \in Sinks : OpenSink(s, k)
  \/ \E k \in Sinks : NumberSink(k) \/ NumberSinkFails(k)
  \/ \E r \in Recorders, k \in Sinks, kind \in (UNION Range(Kinds)) \cup {"other"} : Record(r, k, kind)
  \/ \E r \in Recorders : AppendOk(r)
  \/ \E r \in Recorders, how \in {"none", "part", "split", "whole", "line"} : AppendFails(r, how) \/ Crash(r, how)

LEMMA DoneRec ==
  ASSUME RecTypes, NEW r \in Recorders, Done(r)
  PROVE  /\ RecTypes'
         /\ \A q \in Recorders : rec'[q].pc = "append" => rec'[q] = rec[q] /\ q # r
<1> DEFINE d == [Idle EXCEPT !.said = TRUE, !.sink = rec[r].sink,
                   !.pc = IF rec[r].kind \in {"completed", "failed"} THEN "ended" ELSE "idle"]
<1>1. rec[r] \in Records BY DEF RecTypes
<1>2. d \in Records /\ d.pc # "append"
  BY <1>1 DEF Records, Idle
<1>3. rec' = [rec EXCEPT ![r] = d] BY DEF Done
<1>. HIDE DEF d
<1>. QED BY <1>2, <1>3 DEF RecTypes

LEMMA MoveRec ==
  ASSUME RecTypes, NEW r \in Recorders, NEW pc \in {"mirror", "put", "child"},
         rec' = [rec EXCEPT ![r].pc = pc]
  PROVE  /\ RecTypes'
         /\ rec'[r].kind = rec[r].kind /\ rec'[r].pc = pc
         /\ \A q \in Recorders : q # r => rec'[q] = rec[q]
         /\ \A q \in Recorders : rec'[q].pc = "append" => rec'[q] = rec[q] /\ q # r
<1>1. rec[r] \in Records BY DEF RecTypes
<1>2. [rec[r] EXCEPT !.pc = pc] \in Records BY <1>1 DEF Records
<1>. QED BY <1>2 DEF RecTypes, Records

LEMMA TickCount ==
  ASSUME CountTypes, NEW what \in {"events", "sinks", "faults", "tears", "crashes"}, Tick(what)
  PROVE  /\ CountTypes' /\ count'[what] = count[what] + 1
         /\ \A other \in {"events", "sinks", "faults", "tears", "crashes"} :
               other # what => count'[other] = count[other]
BY DEF CountTypes, Tick

LEMMA FaultPlain ==
  ASSUME StoreInv, Fault
  PROVE  /\ CountTypes' /\ count'.events = count.events
         /\ count'.crashes = count.crashes /\ count'.tears = count.tears
BY TickCount DEF StoreInv, Fault

LEMMA StepKinds ==
  ASSUME StoreInv, [IndexNext]_<<vars, ivars>>
  PROVE  StoreStep
<1>0. RecTypes /\ CountTypes /\ Tasks \subseteq Recorders BY DEF StoreInv, Recorders
<1>1. ASSUME NEW s \in Sessions, Forget(s) \/ ForgetFails(s) PROVE StoreStep
  <2>1. CASE UNCHANGED <<file, tail, acked>>
    BY <1>0, <1>1, <2>1, FaultPlain DEF Forget, ForgetFails, StoreStep, Plain, RecTypes
  <2>2. CASE Forget(s) \/ ~UNCHANGED <<file, tail, acked>>
    <3>1. Wipe(s) BY <1>1, <2>2, FaultPlain DEF Forget, ForgetFails, Wipe
    <3>. QED BY <3>1 DEF StoreStep
  <2>. QED BY <2>1, <2>2
<1>2. CASE OpenSinkFails \/ \E k \in Sinks : MarkStatus(k)
  <2>1. Fault /\ UNCHANGED <<store, sink, rec, acked>>
    BY <1>2 DEF OpenSinkFails, MarkStatus, Fail
  <2>. QED BY <1>0, <2>1, FaultPlain DEF StoreStep, Plain, RecTypes, store
<1>3. CASE LogNext BY <1>1, <1>2, <1>3 DEF LogNext, StoreStep
<1>4. ASSUME NEW r \in Tasks, UNCHANGED <<file, tail, sink, ever, acked>>,
             Done(r) \/ \E pc \in {"put", "child"} : rec' = [rec EXCEPT ![r].pc = pc],
             UNCHANGED count \/ Fault
      PROVE  StoreStep
  <2>1. RecTypes' /\ \A q \in Recorders : rec'[q].pc = "append" => rec'[q] = rec[q]
    BY <1>0, <1>4, DoneRec, MoveRec
  <2>2. CountTypes' /\ count'.events = count.events
        /\ count'.crashes = count.crashes /\ count'.tears = count.tears
    <3>1. CASE UNCHANGED count BY <1>0, <3>1 DEF CountTypes
    <3>. QED BY <1>4, <3>1, FaultPlain
  <2>. QED BY <1>4, <2>1, <2>2 DEF StoreStep, Plain
<1>5. ASSUME NEW r \in Tasks,
             \/ MirrorStarted(r) \/ MirrorRead(r) \/ PutProgress(r) \/ PutTerminal(r)
             \/ PutSweep(r) \/ PutParent(r) \/ PutFinding(r) \/ MirrorFails(r)
      PROVE  StoreStep
  <2>1. UNCHANGED <<file, tail, sink, ever, acked>>
    BY <1>5 DEF MirrorStarted, MirrorRead, PutProgress, PutTerminal, PutSweep, PutParent,
       PutFinding, MirrorFails, store
  <2>2. Done(r) \/ \E pc \in {"put", "child"} : rec' = [rec EXCEPT ![r].pc = pc]
    BY <1>5 DEF MirrorStarted, MirrorRead, PutProgress, PutTerminal, PutSweep, PutParent,
       PutFinding, MirrorFails
  <2>3. UNCHANGED count \/ Fault
    BY <1>5 DEF MirrorStarted, MirrorRead, PutProgress, PutTerminal, PutSweep, PutParent,
       PutFinding, MirrorFails, Fail
  <2>. QED BY <1>4, <2>1, <2>2, <2>3
<1>6. CASE RebuildList \/ RebuildFails
  <2>1. (Fault \/ UNCHANGED count) /\ UNCHANGED <<store, sink, rec, acked>>
    BY <1>6 DEF RebuildList, RebuildFails, Fail
  <2>. QED BY <1>0, <2>1, FaultPlain DEF StoreStep, Plain, RecTypes, CountTypes, store
<1>7. CASE UNCHANGED vars
  BY <1>0, <1>7 DEF vars, StoreStep, Plain, RecTypes, CountTypes
<1>8. CASE IndexNext
  BY <1>3, <1>5, <1>6, <1>7, <1>8 DEF IndexNext, RebuildReplace, RebuildLoad
<1>. QED BY <1>7, <1>8

-------------------------------------------------------------------------------
\* A line that can be read now could be read before or is the one being written, and
\* comes at the end.
Grows(s, line) ==
  \A d \in Sessions : \A i \in DOMAIN file'[d] :
    \/ i \in DOMAIN file[d] /\ file'[d][i] = file[d][i]
    \/ d = s /\ i = Len(file[d]) + 1 /\ file'[d][i] = line

\* What a write leaves: the line in a clean file, nothing of it where it is joined to
\* a torn one, and less than there was where that one was only missing its newline.
WriteLeaves(s, line, how) ==
  \/ how = "none" /\ UNCHANGED <<file, tail>>
  \/ /\ tail[s] = "clean" /\ how \in {"whole", "line"}
     /\ file' = [file EXCEPT ![s] = Append(file[s], line)]
     /\ tail' = [tail EXCEPT ![s] = IF how = "line" THEN "clean" ELSE "whole"]
  \/ /\ how # "none" /\ tail[s] = "clean" => how \in {"part", "split"}
     /\ tail[s] \in {"clean", "part"} /\ UNCHANGED file
     /\ tail' = [tail EXCEPT ![s] = IF how = "line" THEN "clean" ELSE "part"]
  \/ /\ how # "none" /\ tail[s] = "whole"
     /\ file' = [file EXCEPT ![s] = Front(file[s])]
     /\ tail' = [tail EXCEPT ![s] = IF how = "line" THEN "clean" ELSE "part"]

LEMMA WriteCases ==
  ASSUME StoreInv, NEW s \in Sessions, NEW line,
         NEW how \in {"none", "part", "split", "whole", "line"}, Write(s, line, how)
  PROVE  WriteLeaves(s, line, how)
<1>1. tail[s] \in {"clean", "part", "whole"} /\ [file EXCEPT ![s] = file[s]] = file
  BY DEF StoreInv
<1>2. CASE how = "none" BY <1>2 DEF Write, WriteLeaves
<1>3. CASE how \in {"part", "split"} BY <1>1, <1>3 DEF Write, WriteLeaves
<1>4. CASE how = "whole" BY <1>1, <1>4 DEF Write, WriteLeaves
<1>5. CASE how = "line" BY <1>1, <1>5 DEF Write, WriteLeaves
<1>. QED BY <1>2, <1>3, <1>4, <1>5

LEMMA WriteGrows ==
  ASSUME StoreInv, NEW s \in Sessions, NEW line,
         NEW how \in {"none", "part", "split", "whole", "line"}, Write(s, line, how)
  PROVE  /\ Grows(s, line)
         /\ file' \in [Sessions -> Seq(ever \cup {line})]
         /\ tail' \in [Sessions -> {"clean", "part", "whole"}]
         /\ \A d \in Sessions : tail'[d] = "whole" => file'[d] # << >>
<1> DEFINE S == ever \cup {line}
<1>1. file \in [Sessions -> Seq(S)] /\ line \in S BY WiderSeq DEF StoreInv
<1>. HIDE DEF S
<1>2. /\ tail \in [Sessions -> {"clean", "part", "whole"}]
      /\ \A d \in Sessions : tail[d] = "whole" => file[d] # << >>
  BY DEF StoreInv
<1>3. WriteLeaves(s, line, how) BY WriteCases
<1>4. CASE UNCHANGED file
           /\ (tail' = tail \/ tail' = [tail EXCEPT ![s] = IF how = "line" THEN "clean" ELSE "part"])
  <2>1. Grows(s, line) BY <1>4 DEF Grows
  <2>. QED BY <1>1, <1>2, <1>4, <2>1 DEF S
<1>5. CASE file' = [file EXCEPT ![s] = Append(file[s], line)] /\ tail[s] = "clean"
           /\ tail' = [tail EXCEPT ![s] = IF how = "line" THEN "clean" ELSE "whole"]
  <2>1. /\ Append(file[s], line) \in Seq(S) /\ Len(Append(file[s], line)) = Len(file[s]) + 1
        /\ Append(file[s], line)[Len(file[s]) + 1] = line /\ Len(file[s]) \in Nat
        /\ \A i \in 1..Len(file[s]) : Append(file[s], line)[i] = file[s][i]
    BY <1>1
  <2>2. Append(file[s], line) # << >> BY <2>1, EmptySeq
  <2>3. \A i \in DOMAIN Append(file[s], line) :
          i \in DOMAIN file[s] \/ i = Len(file[s]) + 1
    BY <1>1, <2>1
  <2>4. DOMAIN file[s] = 1..Len(file[s]) BY <1>1
  <2>5. Grows(s, line)
    BY <1>1, <1>5, <2>1, <2>3, <2>4 DEF Grows
  <2>. QED BY <1>1, <1>2, <1>5, <2>1, <2>2, <2>5 DEF S
<1>6. CASE file' = [file EXCEPT ![s] = Front(file[s])] /\ tail[s] = "whole"
           /\ tail' = [tail EXCEPT ![s] = IF how = "line" THEN "clean" ELSE "part"]
  <2>1. file[s] \in Seq(S) /\ file[s] # << >> BY <1>1, <1>2, <1>6
  <2>2. PICK n \in Nat : n + 1 = Len(file[s])
    <3>1. Len(file[s]) \in Nat \ {0} BY <2>1, EmptySeq
    <3>2. Len(file[s]) - 1 \in Nat /\ (Len(file[s]) - 1) + 1 = Len(file[s]) BY <3>1
    <3>. QED BY <3>2
  <2>3. Front(file[s]) = SubSeq(file[s], 1, n) BY <2>2 DEF Front
  <2>4. /\ Front(file[s]) \in Seq(S) /\ DOMAIN Front(file[s]) = 1..n
        /\ \A i \in 1..n : i \in 1..Len(file[s]) /\ Front(file[s])[i] = file[s][i]
    BY <2>1, <2>2, <2>3
  <2>5. DOMAIN file[s] = 1..Len(file[s]) BY <1>1
  <2>6. Grows(s, line) BY <1>1, <1>6, <2>4, <2>5 DEF Grows
  <2>. QED BY <1>1, <1>2, <1>6, <2>4, <2>6 DEF S
<1>. QED BY <1>3, <1>4, <1>5, <1>6 DEF WriteLeaves

\* The line of who appends, and the session it goes to.
LEMMA LineTypes ==
  ASSUME StoreInv, NEW r \in Recorders, Appending(r)
  PROVE  /\ SessionOf(r) \in Sessions /\ rec[r].sink \in Sinks
         /\ Line(r).seq = rec[r].seq /\ Line(r).seq \in Nat /\ Line(r).id = rec[r].id
         /\ Line(r).life = count.crashes /\ count.crashes \in Nat
         /\ Line(r).sink = rec[r].sink /\ Line(r).by = r /\ Line(r).kind = rec[r].kind
         /\ rec[r].id \in Nat /\ sink[rec[r].sink].pc = "open"
         /\ Line(r).blind = sink[rec[r].sink].blind
BY DEF StoreInv, OnOpenSink, SinkSession, SessionOf, Line, RecTypes, Records, CountTypes, Appending

\* Every line that can be read is noted: the history of what could ever be read.
LEMMA SeenStays ==
  ASSUME NEW S, file' \in [Sessions -> Seq(S)],
         ever' = ever \cup UNION {Range(file'[s]) : s \in Sessions}
  PROVE  file' \in [Sessions -> Seq(ever')]
<1>1. ASSUME NEW s \in Sessions PROVE file'[s] \in Seq(ever')
  <2>1. file'[s] \in Seq(S) OBVIOUS
  <2>2. PICK n \in Nat : file'[s] \in [1..n -> S] BY <2>1, SeqDef
  <2>3. \A i \in 1..n : file'[s][i] \in Range(file'[s]) BY <2>2 DEF Range
  <2>4. Range(file'[s]) \subseteq ever' OBVIOUS
  <2>5. file'[s] \in [1..n -> ever'] BY <2>2, <2>3, <2>4
  <2>. QED BY <2>5, SeqDef
<1>. QED BY <1>1

\* A failure counts, and more where it tore a line or ended the process.
LEMMA FaultCounts ==
  ASSUME CountTypes, NEW how
  PROVE  /\ count' = [count EXCEPT !.faults = @ + 1,
                                  !.tears = IF how \in {"part", "split", "whole"} THEN @ + 1 ELSE @]
             => /\ CountTypes' /\ count'.crashes = count.crashes /\ count'.events = count.events
                /\ count'.tears = IF how \in {"part", "split", "whole"} THEN count.tears + 1 ELSE count.tears
         /\ count' = [count EXCEPT !.faults = @ + 1, !.crashes = @ + 1,
                                  !.tears = IF how \in {"part", "split", "whole"} THEN @ + 1 ELSE @]
             => /\ CountTypes' /\ count'.crashes = count.crashes + 1 /\ count'.events = count.events
                /\ count'.tears = IF how \in {"part", "split", "whole"} THEN count.tears + 1 ELSE count.tears
<1> DEFINE t == IF how \in {"part", "split", "whole"} THEN count.tears + 1 ELSE count.tears
           D == {"events", "sinks", "faults", "tears", "crashes"}
<1>1. t \in Nat /\ \A x \in D : count[x] \in Nat BY DEF CountTypes
<1>. HIDE DEF t
<1>2. ASSUME count' = [count EXCEPT !.faults = @ + 1, !.tears = t]
      PROVE  /\ CountTypes' /\ count'.crashes = count.crashes /\ count'.events = count.events
             /\ count'.tears = t
  <2>1. count' = [x \in D |-> IF x = "tears" THEN t ELSE IF x = "faults" THEN count["faults"] + 1
                              ELSE count[x]]
    BY <1>2 DEF CountTypes
  <2>2. \A x \in D : count'[x] \in Nat BY <1>1, <2>1
  <2>. QED BY <2>1, <2>2 DEF CountTypes
<1>3. ASSUME count' = [count EXCEPT !.faults = @ + 1, !.crashes = @ + 1, !.tears = t]
      PROVE  /\ CountTypes' /\ count'.crashes = count.crashes + 1 /\ count'.events = count.events
             /\ count'.tears = t
  <2>1. count' = [x \in D |-> IF x = "tears" THEN t ELSE IF x = "crashes" THEN count["crashes"] + 1
                              ELSE IF x = "faults" THEN count["faults"] + 1 ELSE count[x]]
    BY <1>3 DEF CountTypes
  <2>2. \A x \in D : count'[x] \in Nat BY <1>1, <2>1
  <2>. QED BY <2>1, <2>2 DEF CountTypes
<1>. QED BY <1>2, <1>3 DEF t

\* What appending and a crash do to the store.
LEMMA AppendKeeps ==
  ASSUME StoreInv, NEW r \in Recorders,
         AppendOk(r) \/ \E how \in {"none", "part", "split", "whole", "line"} : AppendFails(r, how)
  PROVE  /\ StoreInv' /\ Appending(r) /\ UNCHANGED sink
         /\ Grows(SessionOf(r), Line(r))
         /\ ever' \subseteq ever \cup {Line(r)}
         /\ \A q \in Recorders : rec'[q].pc = "append" => rec'[q] = rec[q] /\ q # r
         /\ count'.crashes = count.crashes /\ count'.events = count.events
<1>1. Appending(r) /\ UNCHANGED sink BY DEF AppendOk, AppendFails, Appending
<1>2. SessionOf(r) \in Sessions /\ rec[r].id \in Nat BY <1>1, LineTypes
<1> DEFINE s == SessionOf(r)
           l == Line(r)
<1>3. RecTypes /\ CountTypes BY DEF StoreInv
<1>4. /\ RecTypes'
      /\ \A q \in Recorders : rec'[q].pc = "append" => rec'[q] = rec[q] /\ q # r
  <2>1. Done(r) \/ rec' = [rec EXCEPT ![r].pc = "mirror"] BY DEF AppendOk, AppendFails
  <2>. QED BY <1>3, <2>1, DoneRec, MoveRec
<1>5. CountTypes' /\ count'.crashes = count.crashes /\ count'.events = count.events
  <2>1. CASE AppendOk(r) BY <1>3, <2>1 DEF AppendOk, CountTypes
  <2>2. ASSUME NEW how, AppendFails(r, how)
        PROVE  CountTypes' /\ count'.crashes = count.crashes /\ count'.events = count.events
    BY <1>3, <2>2, FaultCounts DEF AppendFails
  <2>. QED BY <2>1, <2>2
<1>6. PICK how \in {"none", "part", "split", "whole", "line"} : Write(s, l, how)
  BY DEF AppendOk, AppendFails
<1>. HIDE DEF s, l
<1>7. /\ Grows(s, l) /\ file' \in [Sessions -> Seq(ever \cup {l})]
      /\ tail' \in [Sessions -> {"clean", "part", "whole"}]
      /\ \A d \in Sessions : tail'[d] = "whole" => file'[d] # << >>
  BY <1>2, <1>6, WriteGrows DEF s
<1>8. file' \in [Sessions -> Seq(ever')] /\ ever' \subseteq ever \cup {l}
  <2>1. CASE ever' = ever \cup {l} BY <1>7, <2>1
  <2>2. CASE ever' = ever \cup UNION {Range(file'[d]) : d \in Sessions}
    <3>1. file' \in [Sessions -> Seq(ever')] BY <1>7, <2>2, SeenStays
    <3>2. \A d \in Sessions : Range(file'[d]) \subseteq ever \cup {l}
      <4>. SUFFICES ASSUME NEW d \in Sessions PROVE Range(file'[d]) \subseteq ever \cup {l}
        OBVIOUS
      <4>1. file'[d] \in Seq(ever \cup {l}) BY <1>7
      <4>. QED BY <4>1, LenProperties DEF Range
    <3>. QED BY <2>2, <3>1, <3>2
  <2>3. ever' = ever \cup {l} \/ ever' = ever \cup UNION {Range(file'[d]) : d \in Sessions}
    BY DEF AppendOk, AppendFails, l
  <2>. QED BY <2>1, <2>2, <2>3
<1>9. acked' \in [Sessions -> SUBSET Nat]
  <2>1. acked' = acked \/ acked' = [acked EXCEPT ![s] = @ \cup {rec[r].id}]
    BY DEF AppendOk, AppendFails, s
  <2>2. acked \in [Sessions -> SUBSET Nat] BY DEF StoreInv
  <2>3. acked[s] \cup {rec[r].id} \in SUBSET Nat BY <1>2, <2>2 DEF s
  <2>. QED BY <2>1, <2>2, <2>3
<1>10. OnOpenSink' BY <1>1, <1>4 DEF StoreInv, OnOpenSink, Appending
<1>. QED BY <1>1, <1>4, <1>5, <1>7, <1>8, <1>9, <1>10 DEF StoreInv, SinkSession, s, l

LEMMA CrashKeeps ==
  ASSUME StoreInv, NEW r \in Recorders, NEW how \in {"none", "part", "split", "whole", "line"}, Crash(r, how)
  PROVE  /\ StoreInv' /\ count'.crashes = count.crashes + 1
         /\ count'.events = count.events
         /\ \A q \in Recorders : rec'[q].pc # "append"
         /\ \A k \in Sinks : sink'[k].pc = "free"
         /\ \/ how = "none" /\ UNCHANGED file /\ ever' = ever
            \/ Appending(r) /\ Grows(SessionOf(r), Line(r)) /\ ever' \subseteq ever \cup {Line(r)}
<1> DEFINE s == SessionOf(r)
           l == Line(r)
<1>0. RecTypes /\ CountTypes BY DEF StoreInv
<1>1. RecTypes' /\ \A q \in Recorders : rec'[q].pc # "append"
  <2>1. Idle \in Records /\ [Idle EXCEPT !.pc = "ended"] \in Records
        /\ Idle.pc # "append" /\ [Idle EXCEPT !.pc = "ended"].pc # "append"
    BY DEF Idle, Records
  <2>. QED BY <2>1 DEF Crash, RecTypes
<1>2. CountTypes' /\ count'.crashes = count.crashes + 1 /\ count'.events = count.events
  BY <1>0, FaultCounts DEF Crash
<1>3. sink' \in [Sinks -> SinkStates] /\ \A k \in Sinks : sink'[k].pc = "free"
  BY DEF Crash, NoSink, SinkStates
<1>4. ever' = ever \cup UNION {Range(file'[d]) : d \in Sessions} /\ Write(s, l, how)
      /\ UNCHANGED acked
  BY DEF Crash
<1>5. CASE how = "none"
  <2>1. UNCHANGED <<file, tail>> BY <1>4, <1>5 DEF Write
  <2>2. file' \in [Sessions -> Seq(ever)] BY <2>1 DEF StoreInv
  <2>3. file' \in [Sessions -> Seq(ever')] BY <1>4, <2>2, SeenStays
  <2>4. \A d \in Sessions : Range(file'[d]) \subseteq ever
    <3>. SUFFICES ASSUME NEW d \in Sessions PROVE Range(file'[d]) \subseteq ever
      OBVIOUS
    <3>1. file'[d] \in Seq(ever) BY <2>2
    <3>. QED BY <3>1, LenProperties DEF Range
  <2>5. ever' = ever BY <1>4, <2>4
  <2>6. OnOpenSink' /\ SinkSession' BY <1>1, <1>3 DEF OnOpenSink, SinkSession, Appending
  <2>7. StoreInv'
    BY <1>1, <1>2, <1>3, <1>4, <2>1, <2>3, <2>6 DEF StoreInv
  <2>. QED BY <1>1, <1>2, <1>3, <1>5, <2>1, <2>5, <2>7
<1>6. CASE how # "none"
  <2>1. Appending(r) BY <1>6 DEF Crash, Appending
  <2>2. s \in Sessions BY <2>1, LineTypes
  <2>. HIDE DEF s, l
  <2>3. /\ Grows(s, l) /\ file' \in [Sessions -> Seq(ever \cup {l})]
        /\ tail' \in [Sessions -> {"clean", "part", "whole"}]
        /\ \A d \in Sessions : tail'[d] = "whole" => file'[d] # << >>
    BY <1>4, <2>2, WriteGrows
  <2>4. file' \in [Sessions -> Seq(ever')] BY <1>4, <2>3, SeenStays
  <2>5. \A d \in Sessions : Range(file'[d]) \subseteq ever \cup {l}
    <3>. SUFFICES ASSUME NEW d \in Sessions PROVE Range(file'[d]) \subseteq ever \cup {l}
      OBVIOUS
    <3>1. file'[d] \in Seq(ever \cup {l}) BY <2>3
    <3>. QED BY <3>1, LenProperties DEF Range
  <2>6. ever' \subseteq ever \cup {l} BY <1>4, <2>5
  <2>7. OnOpenSink' /\ SinkSession' BY <1>1, <1>3 DEF OnOpenSink, SinkSession, Appending
  <2>8. StoreInv'
    BY <1>1, <1>2, <1>3, <1>4, <2>3, <2>4, <2>7 DEF StoreInv
  <2>. QED BY <1>1, <1>2, <1>3, <2>1, <2>3, <2>6, <2>8 DEF s, l
<1>. QED BY <1>5, <1>6

\* A non-empty log of numbers has a largest one, and the next sink starts behind it.
LEMMA FirstSeqAbove ==
  ASSUME NEW s \in Sessions, NEW S, file[s] \in Seq(S), \A l \in S : l.seq \in Nat
  PROVE  FirstSeq(s) \in Nat /\ \A i \in DOMAIN file[s] : file[s][i].seq < FirstSeq(s)
<1> DEFINE n == Len(file[s])
           q(i) == file[s][i].seq
           Tops(m) == {j \in 1..n : \A i \in 1..m : q(i) <= q(j)}
           Bad == {m \in Nat : m \in 1..n /\ Tops(m) = {}}
<1>1. n \in Nat /\ DOMAIN file[s] = 1..n /\ \A i \in 1..n : q(i) \in Nat
  BY LenProperties, ElementOfSeq
<1>2. LoadEvents(s, 0) = file[s] BY DEF LoadEvents
<1>3. CASE file[s] = << >>
  <2>1. FirstSeq(s) = 0 BY <1>2, <1>3 DEF FirstSeq
  <2>2. DOMAIN file[s] = {}
    <3>1. n = 0 BY <1>3, EmptySeq
    <3>. QED BY <1>1, <3>1
  <2>. QED BY <2>1, <2>2
<1>4. CASE file[s] # << >>
  <2>1. n \in 1..n
    <3>1. n \in Nat \ {0} BY <1>4, EmptySeq
    <3>. QED BY <3>1
  <2>2. Bad = {}
    <3>. SUFFICES ASSUME Bad # {} PROVE FALSE
      OBVIOUS
    <3>1. Bad \subseteq Nat OBVIOUS
    <3>. HIDE DEF Bad
    <3>2. PICK m \in Bad : \A y \in Bad : ~(<<y, m>> \in OpToRel(<, Nat))
      BY <3>1, NatLessThanWellFounded, WFMin
    <3>3. \A y \in Bad : ~(y < m) BY <3>1, <3>2 DEF OpToRel
    <3>4. m \in 1..n /\ Tops(m) = {} BY <3>2 DEF Bad
    <3>. HIDE DEF q
    <3>5. m # 1
      <4>1. ASSUME m = 1 PROVE 1 \in Tops(m) BY <1>1, <3>4, <4>1 DEF q
      <4>. QED BY <3>4, <4>1
    <3>6. m - 1 \in 1..n /\ m - 1 < m /\ m - 1 \in Nat BY <1>1, <3>4, <3>5
    <3>7. m - 1 \notin Bad BY <3>3, <3>6
    <3>8. PICK j \in 1..n : \A i \in 1..(m - 1) : q(i) <= q(j)
      BY <3>6, <3>7 DEF Bad
    <3>9. CASE q(m) <= q(j)
      <4>1. \A i \in 1..m : q(i) <= q(j)
        <5>1. \A i \in 1..m : i = m \/ i \in 1..(m - 1) BY <1>1, <3>4
        <5>. QED BY <3>8, <3>9, <5>1
      <4>. QED BY <3>4, <4>1
    <3>10. CASE ~(q(m) <= q(j))
      <4>1. \A i \in 1..m : q(i) <= q(m)
        <5>1. \A i \in 1..m : (i = m \/ i \in 1..(m - 1)) /\ i \in 1..n BY <1>1, <3>4
        <5>2. \A i \in 1..n : q(i) \in Nat BY <1>1 DEF q
        <5>. QED BY <3>4, <3>8, <3>10, <5>1, <5>2
      <4>. QED BY <3>4, <4>1
    <3>. QED BY <3>9, <3>10
  <2>3. PICK j \in 1..n : \A i \in 1..n : q(i) <= q(j) BY <1>1, <2>1, <2>2
  <2> DEFINE Seqs == {file[s][i].seq : i \in DOMAIN file[s]}
  <2>4. \E x \in Seqs : \A y \in Seqs : x >= y
    <3>1. q(j) \in Seqs /\ \A y \in Seqs : \E i \in 1..n : y = q(i) BY <1>1
    <3>2. \A y \in Seqs : q(j) >= y BY <1>1, <2>3, <3>1
    <3>. QED BY <3>1, <3>2
  <2>5. Seqs \subseteq Nat BY <1>1
  <2>6. FirstSeq(s) = Max(Seqs) + 1 BY <1>2, <1>4 DEF FirstSeq
  <2>7. \A i \in DOMAIN file[s] : file[s][i].seq \in Seqs OBVIOUS
  <2>. HIDE DEF Seqs
  <2>8. Max(Seqs) \in Seqs /\ \A y \in Seqs : Max(Seqs) >= y BY <2>4 DEF Max
  <2>9. PICK top \in Nat : top = Max(Seqs) BY <2>5, <2>8
  <2>10. \A y \in Seqs : y < top + 1 /\ top + 1 \in Nat BY <2>5, <2>8, <2>9
  <2>11. FirstSeq(s) = top + 1 BY <2>6, <2>9
  <2>. QED BY <2>7, <2>9, <2>10, <2>11
<1>. QED BY <1>3, <1>4

-------------------------------------------------------------------------------
(* Numbers.                                                                     *)

\* What was seen came from this process through an open sink, or from an earlier one.
EverTrue ==
  \A l \in ever :
    /\ l.seq \in Nat /\ l.life \in Nat /\ l.life <= count.crashes
    /\ l.life = count.crashes => l.sink \in Sinks /\ sink[l.sink].pc = "open"

\* Two who append through one sink have different numbers.
Distinct ==
  \A q, r \in Recorders :
    q # r /\ Appending(q) /\ Appending(r) /\ rec[q].sink = rec[r].sink => rec[q].seq # rec[r].seq

\* The lines a sink must not repeat: its own and, if it could read the log when it
\* opened, an earlier process's.
Before(l, k) == IF l.life = count.crashes THEN l.sink = k ELSE ~sink[k].blind

\* An open sink counts behind them, ...
Behind ==
  \A k \in Sinks : sink[k].pc = "open" =>
    \A i \in DOMAIN file[sink[k].session] :
      Before(file[sink[k].session][i], k) => file[sink[k].session][i].seq < sink[k].next

\* ... and a number that was taken from it is none of theirs.
Ahead ==
  \A r \in Recorders : Appending(r) =>
    \A i \in DOMAIN file[SessionOf(r)] :
      Before(file[SessionOf(r)][i], rec[r].sink) => file[SessionOf(r)][i].seq # rec[r].seq

NumInv == StoreInv /\ EverTrue /\ Distinct /\ Behind /\ Ahead /\ NumbersAreFresh

\* The lines of a file were seen.
LEMMA LineSeen ==
  ASSUME StoreInv, NEW s \in Sessions, NEW i \in DOMAIN file[s]
  PROVE  file[s][i] \in ever
<1>1. file[s] \in Seq(ever) BY DEF StoreInv
<1>. QED BY <1>1, LenProperties

LEMMA SinkTyped ==
  ASSUME StoreInv, NEW k \in Sinks
  PROVE  sink[k] \in SinkStates /\ DOMAIN sink = Sinks
BY DEF StoreInv

\* Numbers that were taken stay good while no line comes and the sinks stay open.
LEMMA AheadKept ==
  ASSUME StoreInv, Ahead, count'.crashes = count.crashes,
         \A d \in Sessions : \A i \in DOMAIN file'[d] : i \in DOMAIN file[d] /\ file'[d][i] = file[d][i],
         \A r \in Recorders : Appending(r)' => Appending(r) /\ rec'[r] = rec[r],
         \A k \in Sinks : sink[k].pc = "open" => sink'[k] = sink[k]
  PROVE  Ahead'
<1>. SUFFICES ASSUME NEW r \in Recorders, Appending(r)', NEW i \in DOMAIN file'[SessionOf(r)'],
                     Before(file[SessionOf(r)][i], rec[r].sink)'
              PROVE  (file[SessionOf(r)][i].seq # rec[r].seq)'
  BY DEF Ahead
<1>1. Appending(r) /\ rec'[r] = rec[r] OBVIOUS
<1>2. SessionOf(r) \in Sessions /\ rec[r].sink \in Sinks /\ sink[rec[r].sink].pc = "open"
  BY <1>1, LineTypes
<1>3. SessionOf(r)' = SessionOf(r) BY <1>1, <1>2 DEF SessionOf
<1>4. i \in DOMAIN file[SessionOf(r)] /\ file'[SessionOf(r)][i] = file[SessionOf(r)][i]
  BY <1>2, <1>3
<1>5. Before(file[SessionOf(r)][i], rec[r].sink) BY <1>1, <1>2, <1>3, <1>4 DEF Before
<1>. QED BY <1>1, <1>3, <1>4, <1>5 DEF Ahead

LEMMA PlainNum ==
  ASSUME NumInv, Plain
  PROVE  NumInv'
<1>1. StoreInv' BY DEF NumInv, StoreInv, Plain, OnOpenSink, SinkSession, Appending
<1>2. \A r \in Recorders : Appending(r)' => Appending(r) /\ rec'[r] = rec[r] BY DEF Plain, Appending
<1>3. EverTrue' BY DEF NumInv, EverTrue, Plain
<1>4. Distinct' BY <1>2 DEF NumInv, Distinct, Plain
<1>5. Behind' BY DEF NumInv, Behind, Plain, Before
<1>6. Ahead'
  <2>1. UNCHANGED <<file, sink>> /\ count'.crashes = count.crashes BY DEF Plain
  <2>. QED BY <1>2, <2>1, AheadKept DEF NumInv
<1>7. NumbersAreFresh' BY DEF NumInv, NumbersAreFresh, Plain
<1>. QED BY <1>1, <1>3, <1>4, <1>5, <1>6, <1>7 DEF NumInv

LEMMA WipeNum ==
  ASSUME NumInv, NEW s \in Sessions, Wipe(s)
  PROVE  NumInv'
<1>0. StoreInv BY DEF NumInv
<1>1. file' \in [Sessions -> Seq(ever)] /\ \A d \in Sessions : d # s => file'[d] = file[d]
      /\ tail' \in [Sessions -> {"clean", "part", "whole"}] /\ acked' \in [Sessions -> SUBSET Nat]
  BY <1>0, EmptySeq DEF StoreInv, Wipe
<1>2. file'[s] = << >> /\ tail'[s] = "clean" /\ \A d \in Sessions : d # s => tail'[d] = tail[d]
  BY <1>0 DEF StoreInv, Wipe
<1>3. DOMAIN << >> = {}
  <2>1. << >> \in Seq({}) /\ Len(<< >>) = 0 BY EmptySeq
  <2>2. DOMAIN << >> = 1..0 BY <2>1, LenProperties
  <2>. QED BY <2>2
<1>4. \A d \in Sessions : \A i \in DOMAIN file'[d] : i \in DOMAIN file[d] /\ file'[d][i] = file[d][i]
  BY <1>1, <1>2, <1>3
<1>5. StoreInv'
  BY <1>0, <1>1, <1>2
     DEF StoreInv, Wipe, RecTypes, OnOpenSink, SinkSession, Appending
<1>6. UNCHANGED <<sink, rec, ever>> /\ count'.crashes = count.crashes BY DEF Wipe
<1>7. EverTrue' /\ Distinct' BY <1>6 DEF NumInv, EverTrue, Distinct, Appending
<1>8. Behind'
  <2>. SUFFICES ASSUME NEW k \in Sinks, sink[k].pc = "open", NEW i \in DOMAIN file'[sink[k].session],
                       Before(file'[sink[k].session][i], k)
                PROVE  file'[sink[k].session][i].seq < sink[k].next
    BY <1>6 DEF Behind, Before
  <2>1. sink[k].session \in Sessions BY <1>0 DEF StoreInv, SinkSession
  <2>2. i \in DOMAIN file[sink[k].session]
        /\ file'[sink[k].session][i] = file[sink[k].session][i]
    BY <1>4, <2>1
  <2>. QED BY <2>2 DEF NumInv, Behind
<1>9. Ahead' BY <1>0, <1>4, <1>6, AheadKept DEF NumInv, Appending
<1>10. NumbersAreFresh' BY <1>4 DEF NumInv, NumbersAreFresh
<1>. QED BY <1>5, <1>7, <1>8, <1>9, <1>10 DEF NumInv

\* A new sink does not count yet, and is none that anything was written through.
LEMMA OpenNum ==
  ASSUME NumInv, NEW s \in Sessions, NEW k \in Sinks, OpenSink(s, k)
  PROVE  NumInv'
<1>0. StoreInv BY DEF NumInv
<1>1. /\ sink[k].pc = "free" /\ UNCHANGED <<file, tail, ever, rec, acked>>
      /\ sink' = [sink EXCEPT ![k] = [pc |-> "numbering", session |-> s, next |-> 0, blind |-> FALSE]]
      /\ Tick("sinks")
  BY DEF OpenSink
<1>2. CountTypes' /\ count'.crashes = count.crashes BY <1>0, <1>1, TickCount DEF StoreInv
<1>3. [pc |-> "numbering", session |-> s, next |-> 0, blind |-> FALSE] \in SinkStates BY DEF SinkStates
<1>4. sink' \in [Sinks -> SinkStates] /\ sink'[k].pc = "numbering" /\ sink'[k].session = s
      /\ \A j \in Sinks : j # k => sink'[j] = sink[j]
  BY <1>0, <1>1, <1>3 DEF StoreInv
<1>5. \A j \in Sinks : sink[j].pc = "open" => sink'[j] = sink[j] BY <1>1, <1>4
<1>6. \A j \in Sinks : sink'[j].pc = "open" => sink'[j] = sink[j] BY <1>4
<1>7. StoreInv'
  BY <1>0, <1>1, <1>2, <1>4, <1>5 DEF StoreInv, RecTypes, OnOpenSink, SinkSession, Appending
<1>8. EverTrue' BY <1>1, <1>2, <1>5 DEF NumInv, EverTrue
<1>9. Distinct' /\ NumbersAreFresh' BY <1>1 DEF NumInv, Distinct, NumbersAreFresh, Appending
<1>10. Behind' BY <1>1, <1>2, <1>6 DEF NumInv, Behind, Before
<1>11. Ahead' BY <1>0, <1>1, <1>2, <1>5, AheadKept DEF NumInv, Appending
<1>. QED BY <1>7, <1>8, <1>9, <1>10, <1>11 DEF NumInv

\* It counts from behind everything that can be read.
LEMMA NumberNum ==
  ASSUME NumInv, NEW k \in Sinks, NumberSink(k)
  PROVE  NumInv'
<1>0. StoreInv BY DEF NumInv
<1> DEFINE s == sink[k].session
           n == FirstSeq(s)
<1>1. /\ sink[k].pc = "numbering" /\ UNCHANGED <<file, tail, ever, rec, acked, count>>
      /\ sink' = [sink EXCEPT ![k].pc = "open", ![k].next = n]
  BY DEF NumberSink, store
<1>2. s \in Sessions /\ file[s] \in Seq(ever) BY <1>0, <1>1 DEF StoreInv, SinkSession
<1>3. n \in Nat /\ \A i \in DOMAIN file[s] : file[s][i].seq < n
  BY <1>2, FirstSeqAbove DEF NumInv, EverTrue
<1>. HIDE DEF n
<1>4. /\ sink' \in [Sinks -> SinkStates]
      /\ sink'[k].pc = "open" /\ sink'[k].session = s /\ sink'[k].next = n
      /\ \A j \in Sinks : j # k => sink'[j] = sink[j]
  <2>1. sink[k] \in SinkStates BY <1>0, SinkTyped
  <2> DEFINE new == [sink[k] EXCEPT !.pc = "open", !.next = n]
  <2>2. new \in SinkStates /\ new.pc = "open" /\ new.next = n /\ new.session = s
    BY <1>3, <2>1 DEF SinkStates
  <2>3. sink' = [sink EXCEPT ![k] = new] BY <1>0, <1>1 DEF StoreInv
  <2>. HIDE DEF new
  <2>. QED BY <1>0, <2>2, <2>3 DEF StoreInv
<1>5. \A j \in Sinks : sink[j].pc = "open" => sink'[j] = sink[j] BY <1>1, <1>4
<1>6. StoreInv'
  BY <1>0, <1>1, <1>2, <1>4, <1>5
     DEF StoreInv, RecTypes, CountTypes, OnOpenSink, SinkSession, Appending
<1>7. EverTrue' BY <1>1, <1>5 DEF NumInv, EverTrue
<1>8. Distinct' /\ NumbersAreFresh' BY <1>1 DEF NumInv, Distinct, NumbersAreFresh, Appending
<1>9. Behind' BY <1>1, <1>3, <1>4 DEF NumInv, Behind, Before
<1>10. Ahead' BY <1>0, <1>1, <1>5, AheadKept DEF NumInv, Appending
<1>. QED BY <1>6, <1>7, <1>8, <1>9, <1>10 DEF NumInv

\* One that cannot read the log counts from 0: nothing was written through it, and it
\* owes earlier processes nothing.
LEMMA NumberFailsNum ==
  ASSUME NumInv, NEW k \in Sinks, NumberSinkFails(k)
  PROVE  NumInv'
<1>0. StoreInv BY DEF NumInv
<1>1. /\ sink[k].pc = "numbering" /\ UNCHANGED <<file, tail, ever, rec, acked>>
      /\ sink' = [sink EXCEPT ![k].pc = "open", ![k].next = 0, ![k].blind = TRUE]
      /\ Fault \/ UNCHANGED count
  BY DEF NumberSinkFails, store
<1>2. CountTypes' /\ count'.crashes = count.crashes
  <2>1. CASE UNCHANGED count BY <1>0, <2>1 DEF StoreInv, CountTypes
  <2>. QED BY <1>0, <1>1, <2>1, FaultPlain
<1>3. /\ sink' \in [Sinks -> SinkStates]
      /\ sink'[k].pc = "open" /\ sink'[k].session = sink[k].session /\ sink'[k].blind
      /\ \A j \in Sinks : j # k => sink'[j] = sink[j]
  <2> DEFINE new == [sink[k] EXCEPT !.pc = "open", !.next = 0, !.blind = TRUE]
  <2>1. new \in SinkStates /\ new.pc = "open" /\ new.blind /\ new.session = sink[k].session
    BY <1>0, SinkTyped DEF SinkStates
  <2>2. sink' = [sink EXCEPT ![k] = new] BY <1>0, <1>1 DEF StoreInv
  <2>. HIDE DEF new
  <2>. QED BY <1>0, <2>1, <2>2 DEF StoreInv
<1>4. \A j \in Sinks : sink[j].pc = "open" => sink'[j] = sink[j] BY <1>1, <1>3
<1>5. StoreInv'
  BY <1>0, <1>1, <1>2, <1>3, <1>4
     DEF StoreInv, RecTypes, OnOpenSink, SinkSession, Appending
<1>6. EverTrue' BY <1>1, <1>2, <1>4 DEF NumInv, EverTrue
<1>7. Distinct' /\ NumbersAreFresh' BY <1>1 DEF NumInv, Distinct, NumbersAreFresh, Appending
<1>8. Behind'
  <2>. SUFFICES ASSUME NEW j \in Sinks, sink'[j].pc = "open", NEW i \in DOMAIN file[sink'[j].session],
                       Before(file[sink[j].session][i], j)'
                PROVE  file[sink'[j].session][i].seq < sink'[j].next
    BY <1>1 DEF Behind
  <2>1. CASE j = k
    <3>1. sink[k].session \in Sessions BY <1>0, <1>1 DEF StoreInv, SinkSession
    <3>2. file[sink[k].session][i] \in ever BY <1>0, <1>3, <2>1, <3>1, LineSeen
    <3>3. file[sink[k].session][i].life = count.crashes => file[sink[k].session][i].sink # k
      BY <1>1, <3>2 DEF NumInv, EverTrue
    <3>. QED BY <1>1, <1>2, <1>3, <2>1, <3>3 DEF Before
  <2>2. CASE j # k
    BY <1>1, <1>2, <1>3, <2>2 DEF NumInv, Behind, Before
  <2>. QED BY <2>1, <2>2
<1>9. Ahead' BY <1>0, <1>1, <1>2, <1>4, AheadKept DEF NumInv, Appending
<1>. QED BY <1>5, <1>6, <1>7, <1>8, <1>9 DEF NumInv

\* Who records takes a number nobody else has.
LEMMA RecordNum ==
  ASSUME NumInv, NEW r \in Recorders, NEW k \in Sinks, NEW kind \in (UNION Range(Kinds)) \cup {"other"},
         Record(r, k, kind)
  PROVE  NumInv'
<1>0. StoreInv BY DEF NumInv
<1> DEFINE n == sink[k].next
           new == [pc |-> "append", sink |-> k, said |-> TRUE, id |-> count'.events, seq |-> n, kind |-> kind]
<1>1. /\ rec[r].pc = "idle" /\ sink[k].pc = "open" /\ UNCHANGED <<file, tail, ever, acked>>
      /\ rec' = [rec EXCEPT ![r] = new] /\ sink' = [sink EXCEPT ![k].next = n + 1]
      /\ Tick("events")
  BY DEF Record, store
<1>2. CountTypes' /\ count'.crashes = count.crashes BY <1>0, <1>1, TickCount DEF StoreInv
<1>3. n \in Nat /\ k \in Nat /\ count'.events \in Nat
  BY <1>0, <1>2, SinkTyped DEF SinkStates, Sinks, CountTypes
<1>4. new \in Records /\ new.pc = "append" /\ new.sink = k /\ new.seq = n BY <1>3 DEF Records
<1>. HIDE DEF new, n
<1>5. rec' \in [Recorders -> Records] /\ rec'[r] = new /\ \A q \in Recorders : q # r => rec'[q] = rec[q]
  BY <1>0, <1>1, <1>4 DEF StoreInv, RecTypes
<1>6. /\ sink' \in [Sinks -> SinkStates] /\ sink'[k].next = n + 1
      /\ \A j \in Sinks : sink'[j].pc = sink[j].pc /\ sink'[j].session = sink[j].session
      /\ \A j \in Sinks : j # k => sink'[j] = sink[j]
  <2>1. sink[k] \in SinkStates /\ n + 1 \in Nat BY <1>0, <1>3, SinkTyped
  <2> DEFINE next == [sink[k] EXCEPT !.next = n + 1]
  <2>2. next \in SinkStates /\ next.pc = sink[k].pc /\ next.session = sink[k].session /\ next.next = n + 1
    BY <2>1 DEF SinkStates
  <2>3. sink' = [sink EXCEPT ![k] = next] BY <1>0, <1>1 DEF StoreInv
  <2>. HIDE DEF next
  <2>. QED BY <1>0, <2>2, <2>3 DEF StoreInv
<1>7. \A q \in Recorders : Appending(q)' /\ q # r => Appending(q) /\ rec'[q] = rec[q]
  BY <1>5 DEF Appending
<1>8. \A q \in Recorders : Appending(q) =>
        rec[q].sink \in Sinks /\ sink[rec[q].sink].pc = "open" /\ rec[q].seq \in Nat
        /\ rec[q].seq < sink[rec[q].sink].next
  BY <1>0 DEF StoreInv, OnOpenSink, RecTypes, Records
<1>9. OnOpenSink'
  <2>. SUFFICES ASSUME NEW q \in Recorders, Appending(q)'
                PROVE  (rec[q].sink \in Sinks /\ sink[rec[q].sink].pc = "open"
                        /\ rec[q].seq < sink[rec[q].sink].next)'
    BY DEF OnOpenSink
  <2>1. CASE q = r BY <1>1, <1>3, <1>4, <1>5, <1>6, <2>1
  <2>2. CASE q # r /\ rec[q].sink = k
    <3>1. Appending(q) /\ rec'[q] = rec[q] BY <1>7, <2>2
    <3>2. rec[q].seq \in Nat /\ rec[q].seq < n BY <1>8, <2>2, <3>1 DEF n
    <3>. QED BY <1>1, <1>3, <1>6, <2>2, <3>1, <3>2
  <2>3. CASE q # r /\ rec[q].sink # k
    BY <1>6, <1>7, <1>8, <2>3
  <2>. QED BY <2>1, <2>2, <2>3
<1>10. StoreInv'
  BY <1>0, <1>1, <1>2, <1>5, <1>6, <1>9 DEF StoreInv, RecTypes, SinkSession
<1>11. EverTrue' BY <1>1, <1>2, <1>6 DEF NumInv, EverTrue
<1>12. Distinct'
  <2>. SUFFICES ASSUME NEW q \in Recorders, NEW p \in Recorders, q # p, Appending(q)', Appending(p)',
                       rec'[q].sink = rec'[p].sink
                PROVE  rec'[q].seq # rec'[p].seq
    BY DEF Distinct
  <2>1. \A u \in Recorders : u # r /\ Appending(u)' /\ rec'[u].sink = k
          => rec'[u].seq < n /\ rec'[u].seq \in Nat
    BY <1>7, <1>8 DEF n
  <2>2. CASE q = r \/ p = r BY <1>3, <1>4, <1>5, <2>1, <2>2
  <2>3. CASE q # r /\ p # r BY <1>7, <2>3 DEF NumInv, Distinct
  <2>. QED BY <2>2, <2>3
<1>13. Behind'
  <2>. SUFFICES ASSUME NEW j \in Sinks, sink'[j].pc = "open", NEW i \in DOMAIN file'[sink'[j].session],
                       Before(file[sink[j].session][i], j)'
                PROVE  (file[sink[j].session][i].seq < sink[j].next)'
    BY DEF Behind
  <2>0. file' = file /\ sink'[j].session = sink[j].session /\ Before(file[sink[j].session][i], j)
    BY <1>1, <1>2, <1>6 DEF Before
  <2>1. file[sink[j].session][i].seq < sink[j].next BY <1>6, <2>0 DEF NumInv, Behind
  <2>2. file[sink[j].session][i].seq \in Nat
    BY <1>0, <1>6, <2>0, LineSeen DEF NumInv, EverTrue, StoreInv, SinkSession
  <2>. QED BY <1>3, <1>6, <2>0, <2>1, <2>2 DEF n
<1>14. Ahead'
  <2>. SUFFICES ASSUME NEW q \in Recorders, Appending(q)', NEW i \in DOMAIN file[SessionOf(q)'],
                       Before(file[SessionOf(q)'][i], rec'[q].sink)
                PROVE  file[SessionOf(q)'][i].seq # rec'[q].seq
    BY <1>1, <1>2 DEF Ahead, Before
  <2>1. CASE q = r
    <3>1. SessionOf(q)' = sink[k].session BY <1>4, <1>5, <1>6, <2>1 DEF SessionOf
    <3>2. file[sink[k].session][i].seq < n BY <1>1, <1>4, <1>5, <2>1, <3>1 DEF NumInv, Behind, n
    <3>3. file[sink[k].session][i].seq \in Nat
      BY <1>0, <1>1, <3>1, LineSeen DEF NumInv, EverTrue, StoreInv, SinkSession
    <3>. QED BY <1>3, <1>4, <1>5, <2>1, <3>1, <3>2, <3>3
  <2>2. CASE q # r
    <3>1. Appending(q) /\ rec'[q] = rec[q] BY <1>7, <2>2
    <3>2. SessionOf(q)' = SessionOf(q) BY <1>6, <1>8, <3>1 DEF SessionOf
    <3>. QED BY <3>1, <3>2 DEF NumInv, Ahead
  <2>. QED BY <2>1, <2>2
<1>15. NumbersAreFresh' BY <1>1 DEF NumInv, NumbersAreFresh
<1>. QED BY <1>10, <1>11, <1>12, <1>13, <1>14, <1>15 DEF NumInv

\* A line comes that has a number of its own, if any does.
LEMMA GrowsFresh ==
  ASSUME NumInv, NEW r \in Recorders, Appending(r), Grows(SessionOf(r), Line(r))
  PROVE  NumbersAreFresh'
<1> DEFINE s == SessionOf(r)
           l == Line(r)
<1>1. /\ s \in Sessions /\ l.seq = rec[r].seq /\ l.life = count.crashes /\ l.sink = rec[r].sink
      /\ l.blind = sink[rec[r].sink].blind /\ count.crashes \in Nat
  BY LineTypes DEF NumInv
<1>2. ASSUME NEW i \in DOMAIN file[s], file[s][i].seq = l.seq
      PROVE  Apart(file[s][i], l) /\ Apart(l, file[s][i])
  <2>1. file[s][i] \in ever
    BY <1>1, LineSeen DEF NumInv
  <2>2. file[s][i].life \in Nat /\ file[s][i].life <= count.crashes
    BY <2>1 DEF NumInv, EverTrue
  <2>3. ~Before(file[s][i], rec[r].sink)
    BY <1>1, <1>2 DEF NumInv, Ahead
  <2>. HIDE DEF s, l
  <2>4. file[s][i].life = count.crashes \/ file[s][i].life < count.crashes
    BY <1>1, <2>2
  <2>. QED BY <1>1, <2>3, <2>4 DEF Before, Apart
<1>. HIDE DEF s, l
<1>. SUFFICES ASSUME NEW d \in Sessions, NEW i \in DOMAIN file'[d], NEW j \in DOMAIN file'[d],
                     i # j, file'[d][i].seq = file'[d][j].seq
              PROVE  Apart(file'[d][i], file'[d][j])
  BY DEF NumbersAreFresh, Apart
<1>3. \/ i \in DOMAIN file[d] /\ file'[d][i] = file[d][i]
      \/ d = s /\ i = Len(file[d]) + 1 /\ file'[d][i] = l
  BY DEF Grows, s, l
<1>4. \/ j \in DOMAIN file[d] /\ file'[d][j] = file[d][j]
      \/ d = s /\ j = Len(file[d]) + 1 /\ file'[d][j] = l
  BY DEF Grows, s, l
<1>5. CASE i \in DOMAIN file[d] /\ file'[d][i] = file[d][i]
           /\ j \in DOMAIN file[d] /\ file'[d][j] = file[d][j]
  BY <1>5 DEF NumInv, NumbersAreFresh
<1>. QED BY <1>2, <1>3, <1>4, <1>5

\* What is seen anew is the line.
LEMMA GrowsEver ==
  ASSUME NumInv, NEW r \in Recorders, Appending(r), ever' \subseteq ever \cup {Line(r)}, UNCHANGED sink,
         count'.crashes = count.crashes
  PROVE  EverTrue'
<1>1. /\ Line(r).seq \in Nat /\ Line(r).life = count.crashes /\ count.crashes \in Nat
      /\ Line(r).sink \in Sinks /\ sink[Line(r).sink].pc = "open"
  BY LineTypes DEF NumInv
<1>. QED BY <1>1 DEF NumInv, EverTrue

LEMMA AppendNum ==
  ASSUME NumInv, NEW r \in Recorders,
         AppendOk(r) \/ \E how \in {"none", "part", "split", "whole", "line"} : AppendFails(r, how)
  PROVE  NumInv'
<1>0. StoreInv BY DEF NumInv
<1> DEFINE s == SessionOf(r)
           l == Line(r)
<1>1. /\ StoreInv' /\ Appending(r) /\ UNCHANGED sink
      /\ Grows(s, l) /\ ever' \subseteq ever \cup {l}
      /\ \A q \in Recorders : rec'[q].pc = "append" => rec'[q] = rec[q] /\ q # r
      /\ count'.crashes = count.crashes
  BY <1>0, AppendKeeps
<1>2. \A q \in Recorders : Appending(q)' => Appending(q) /\ rec'[q] = rec[q] /\ q # r
  BY <1>1 DEF Appending
<1>3. EverTrue' BY <1>1, GrowsEver
<1>4. NumbersAreFresh' BY <1>1, GrowsFresh
<1>5. Distinct' BY <1>2 DEF NumInv, Distinct
<1>6. /\ s \in Sessions /\ rec[r].sink \in Sinks /\ l.seq = rec[r].seq /\ l.seq \in Nat
      /\ l.life = count.crashes /\ l.sink = rec[r].sink /\ rec[r].seq < sink[rec[r].sink].next
  BY <1>0, <1>1, LineTypes DEF StoreInv, OnOpenSink
<1>. HIDE DEF s, l
<1>7. Behind'
  <2>. SUFFICES ASSUME NEW k \in Sinks, sink[k].pc = "open", NEW i \in DOMAIN file'[sink[k].session],
                       Before(file'[sink[k].session][i], k)
                PROVE  file'[sink[k].session][i].seq < sink[k].next
    BY <1>1 DEF Behind, Before
  <2>1. sink[k].session \in Sessions BY <1>0 DEF StoreInv, SinkSession
  <2> DEFINE d == sink[k].session
  <2>2. \/ i \in DOMAIN file[d] /\ file'[d][i] = file[d][i]
        \/ d = s /\ i = Len(file[d]) + 1 /\ file'[d][i] = l
    BY <1>1, <2>1 DEF Grows
  <2>3. CASE i \in DOMAIN file[d] /\ file'[d][i] = file[d][i] BY <2>3 DEF NumInv, Behind
  <2>4. CASE d = s /\ file'[d][i] = l BY <1>6, <2>4 DEF Before
  <2>. QED BY <2>2, <2>3, <2>4
<1>8. Ahead'
  <2>. SUFFICES ASSUME NEW q \in Recorders, Appending(q)', NEW i \in DOMAIN file'[SessionOf(q)'],
                       Before(file'[SessionOf(q)'][i], rec'[q].sink)
                PROVE  file'[SessionOf(q)'][i].seq # rec'[q].seq
    BY <1>1 DEF Ahead, Before
  <2>1. Appending(q) /\ rec'[q] = rec[q] /\ q # r BY <1>2
  <2>2. SessionOf(q) \in Sessions /\ SessionOf(q)' = SessionOf(q)
    BY <1>0, <1>1, <2>1, LineTypes DEF SessionOf
  <2> DEFINE d == SessionOf(q)
  <2>3. \/ i \in DOMAIN file[d] /\ file'[d][i] = file[d][i]
        \/ d = s /\ i = Len(file[d]) + 1 /\ file'[d][i] = l
    BY <1>1, <2>2 DEF Grows
  <2>4. CASE i \in DOMAIN file[d] /\ file'[d][i] = file[d][i]
    BY <2>1, <2>2, <2>4 DEF NumInv, Ahead
  <2>5. CASE d = s /\ file'[d][i] = l
    <3>1. rec[q].sink = rec[r].sink BY <1>6, <2>1, <2>2, <2>5 DEF Before
    <3>2. rec[q].seq # rec[r].seq BY <1>1, <2>1, <3>1 DEF NumInv, Distinct
    <3>. QED BY <1>6, <2>1, <2>2, <2>5, <3>2
  <2>. QED BY <2>3, <2>4, <2>5
<1>. QED BY <1>1, <1>3, <1>4, <1>5, <1>7, <1>8 DEF NumInv

LEMMA CrashNum ==
  ASSUME NumInv, NEW r \in Recorders, NEW how \in {"none", "part", "split", "whole", "line"}, Crash(r, how)
  PROVE  NumInv'
<1>0. StoreInv BY DEF NumInv
<1>1. /\ StoreInv' /\ count'.crashes = count.crashes + 1
      /\ \A q \in Recorders : rec'[q].pc # "append"
      /\ \A k \in Sinks : sink'[k].pc = "free"
      /\ \/ how = "none" /\ UNCHANGED file /\ ever' = ever
         \/ Appending(r) /\ Grows(SessionOf(r), Line(r)) /\ ever' \subseteq ever \cup {Line(r)}
  BY <1>0, CrashKeeps
<1>2. NumbersAreFresh'
  <2>1. CASE UNCHANGED file BY <2>1 DEF NumInv, NumbersAreFresh
  <2>. QED BY <1>1, <2>1, GrowsFresh
<1>3. count.crashes \in Nat BY <1>0 DEF StoreInv, CountTypes
<1>4. \A l \in ever : l.seq \in Nat /\ l.life \in Nat /\ l.life <= count.crashes
  BY DEF NumInv, EverTrue
<1>5. \A l \in ever' : l.seq \in Nat /\ l.life \in Nat /\ l.life <= count.crashes
  <2>1. CASE ever' = ever BY <1>4, <2>1
  <2>2. CASE Appending(r) /\ ever' \subseteq ever \cup {Line(r)}
    <3>1. Line(r).seq \in Nat /\ Line(r).life = count.crashes BY <1>0, <2>2, LineTypes
    <3>. QED BY <1>3, <1>4, <2>2, <3>1
  <2>. QED BY <1>1, <2>1, <2>2
<1>6. EverTrue' BY <1>1, <1>3, <1>5 DEF EverTrue
<1>7. Distinct' /\ Ahead' BY <1>1 DEF Distinct, Ahead, Appending
<1>8. Behind' BY <1>1 DEF Behind
<1>. QED BY <1>1, <1>2, <1>6, <1>7, <1>8 DEF NumInv

LEMMA InitStore ==
  ASSUME IndexInit
  PROVE  StoreInv /\ ever = {} /\ (\A r \in Recorders : ~Appending(r))
         /\ (\A k \in Sinks : sink[k].pc = "free") /\ (\A s \in Sessions : DOMAIN file[s] = {})
<1>1. /\ file = [s \in Sessions |-> << >>] /\ tail = [s \in Sessions |-> "clean"]
      /\ sink = [k \in Sinks |-> NoSink] /\ rec = [r \in Recorders |-> Idle] /\ ever = {}
      /\ acked = [s \in Sessions |-> {}]
      /\ count = [events |-> 0, sinks |-> 0, faults |-> 0, tears |-> 0, crashes |-> 0]
  BY DEF IndexInit, Init
<1>2. Idle \in Records /\ Idle.pc = "idle" BY DEF Idle, Records
<1>3. NoSink \in SinkStates /\ NoSink.pc = "free" BY DEF NoSink, SinkStates
<1>4. << >> \in Seq(ever) /\ DOMAIN << >> = {}
  <2>1. << >> \in Seq(ever) /\ Len(<< >>) = 0 BY EmptySeq
  <2>2. DOMAIN << >> = 1..0 BY <2>1, LenProperties
  <2>. QED BY <2>1, <2>2
<1>5. CountTypes
  <2>1. \A x \in {"events", "sinks", "faults", "tears", "crashes"} : count[x] = 0 BY <1>1
  <2>2. DOMAIN count = {"events", "sinks", "faults", "tears", "crashes"} BY <1>1
  <2>3. count = [x \in {"events", "sinks", "faults", "tears", "crashes"} |-> 0] BY <1>1
  <2>. QED BY <2>3 DEF CountTypes
<1>6. RecTypes /\ (\A r \in Recorders : ~Appending(r)) BY <1>1, <1>2 DEF RecTypes, Appending
<1>7. /\ sink \in [Sinks -> SinkStates] /\ (\A k \in Sinks : sink[k].pc = "free")
      /\ SinkSession /\ OnOpenSink
  BY <1>1, <1>3, <1>6 DEF SinkSession, OnOpenSink
<1>. QED BY <1>1, <1>4, <1>5, <1>6, <1>7 DEF StoreInv

LEMMA NextNum ==
  ASSUME NumInv, [IndexNext]_<<vars, ivars>>
  PROVE  NumInv'
<1>1. StoreStep BY StepKinds DEF NumInv
<1>. QED BY <1>1, PlainNum, WipeNum, OpenNum, NumberNum, NumberFailsNum, RecordNum, AppendNum, CrashNum DEF StoreStep

-------------------------------------------------------------------------------
(* Losses.                                                                      *)

Lost == UNION {acked[s] \ Stored(s) : s \in Sessions}

Torn == {s \in Sessions : tail[s] # "clean"}

\* Ids are given once, and acknowledged once.
IdsOnce ==
  /\ \A s \in Sessions : acked[s] \subseteq 1..count.events
  /\ \A r \in Recorders : Appending(r) =>
       /\ rec[r].id \in 1..count.events
       /\ \A s \in Sessions : rec[r].id \notin acked[s]
       /\ \A q \in Recorders : Appending(q) /\ q # r => rec[q].id # rec[r].id

\* A line whose newline is missing was not acknowledged.
WholeUnacked ==
  \A s \in Sessions : tail[s] = "whole" => file[s][Len(file[s])].id \notin acked[s]

\* What was lost was paid for by a torn write each, and who is torn now has paid in
\* advance.
Paid == IsFiniteSet(Torn) /\ Cardinality(Lost) + Cardinality(Torn) <= count.tears

LossInv == StoreInv /\ IdsOnce /\ WholeUnacked /\ Paid

\* The account balances if a loss takes a torn end away, and a torn end a write.
LEMMA Balance ==
  ASSUME NEW L, NEW M, NEW T, NEW U, IsFiniteSet(L), IsFiniteSet(T), NEW t \in Nat, NEW u \in Nat,
         Cardinality(L) + Cardinality(T) <= t,
         \/ M \subseteq L /\ U \subseteq T /\ t <= u
         \/ \E x, y : M \subseteq L \cup {x} /\ y \in T /\ U \subseteq T \ {y} /\ t <= u
         \/ \E y : M \subseteq L /\ U \subseteq T \cup {y} /\ u = t + 1
  PROVE  IsFiniteSet(U) /\ Cardinality(M) + Cardinality(U) <= u
<1>1. Cardinality(L) \in Nat /\ Cardinality(T) \in Nat BY FS_CardinalityType
<1>2. CASE M \subseteq L /\ U \subseteq T /\ t <= u
  <2>1. IsFiniteSet(M) /\ IsFiniteSet(U)
        /\ Cardinality(M) <= Cardinality(L) /\ Cardinality(U) <= Cardinality(T)
    BY <1>2, FS_Subset
  <2>2. Cardinality(M) \in Nat /\ Cardinality(U) \in Nat BY <2>1, FS_CardinalityType
  <2>. QED BY <1>1, <1>2, <2>1, <2>2
<1>3. ASSUME NEW x, NEW y, M \subseteq L \cup {x}, y \in T, U \subseteq T \ {y}, t <= u
      PROVE  IsFiniteSet(U) /\ Cardinality(M) + Cardinality(U) <= u
  <2>1. IsFiniteSet(L \cup {x}) /\ Cardinality(L \cup {x}) <= Cardinality(L) + 1
    <3>1. IsFiniteSet(L \cup {x})
          /\ Cardinality(L \cup {x}) = IF x \in L THEN Cardinality(L) ELSE Cardinality(L) + 1
      BY FS_AddElement
    <3>. QED BY <1>1, <3>1
  <2>2. IsFiniteSet(T \ {y}) /\ Cardinality(T \ {y}) = Cardinality(T) - 1
    BY <1>1, <1>3, FS_RemoveElement
  <2>3. /\ IsFiniteSet(M) /\ Cardinality(M) <= Cardinality(L \cup {x})
        /\ IsFiniteSet(U) /\ Cardinality(U) <= Cardinality(T \ {y})
    BY <1>3, <2>1, <2>2, FS_Subset
  <2>4. /\ Cardinality(M) \in Nat /\ Cardinality(U) \in Nat /\ Cardinality(L \cup {x}) \in Nat
        /\ Cardinality(T \ {y}) \in Nat
    BY <2>1, <2>2, <2>3, FS_CardinalityType
  <2>. QED BY <1>1, <1>3, <2>1, <2>2, <2>3, <2>4
<1>4. ASSUME NEW y, M \subseteq L, U \subseteq T \cup {y}, u = t + 1
      PROVE  IsFiniteSet(U) /\ Cardinality(M) + Cardinality(U) <= u
  <2>1. IsFiniteSet(T \cup {y}) /\ Cardinality(T \cup {y}) <= Cardinality(T) + 1
    BY <1>1, FS_AddElement
  <2>2. /\ IsFiniteSet(M) /\ Cardinality(M) <= Cardinality(L)
        /\ IsFiniteSet(U) /\ Cardinality(U) <= Cardinality(T \cup {y})
    BY <1>4, <2>1, FS_Subset
  <2>3. /\ Cardinality(M) \in Nat /\ Cardinality(U) \in Nat /\ Cardinality(T \cup {y}) \in Nat
    BY <2>1, <2>2, FS_CardinalityType
  <2>. QED BY <1>1, <1>4, <2>1, <2>2, <2>3
<1>. QED BY <1>2, <1>3, <1>4

LEMMA LostFinite ==
  ASSUME LossInv
  PROVE  IsFiniteSet(Lost) /\ Cardinality(Lost) \in Nat
<1>1. count.events \in Nat BY DEF LossInv, StoreInv, CountTypes
<1>2. Lost \subseteq 1..count.events BY DEF LossInv, IdsOnce, Lost
<1>3. IsFiniteSet(1..count.events) BY <1>1, FS_Interval
<1>. QED BY <1>2, <1>3, FS_Subset, FS_CardinalityType

\* The three ways the account may move.
Balanced ==
  \/ Lost' \subseteq Lost /\ Torn' \subseteq Torn /\ count.tears <= count'.tears
  \/ \E x, y : Lost' \subseteq Lost \cup {x} /\ y \in Torn /\ Torn' \subseteq Torn \ {y}
               /\ count.tears <= count'.tears
  \/ \E y : Lost' \subseteq Lost /\ Torn' \subseteq Torn \cup {y} /\ count'.tears = count.tears + 1

LEMMA PaidKept ==
  ASSUME LossInv, StoreInv', Balanced
  PROVE  Paid'
<1>1. count.tears \in Nat /\ count'.tears \in Nat BY DEF LossInv, StoreInv, CountTypes
<1>2. IsFiniteSet(Lost) /\ IsFiniteSet(Torn) /\ Cardinality(Lost) + Cardinality(Torn) <= count.tears
  BY LostFinite DEF LossInv, Paid
<1> DEFINE M == Lost'
           U == Torn'
           u == count'.tears
<1>3. \/ M \subseteq Lost /\ U \subseteq Torn /\ count.tears <= u
      \/ \E x, y : M \subseteq Lost \cup {x} /\ y \in Torn /\ U \subseteq Torn \ {y} /\ count.tears <= u
      \/ \E y : M \subseteq Lost /\ U \subseteq Torn \cup {y} /\ u = count.tears + 1
  BY DEF Balanced
<1>4. u \in Nat BY <1>1
<1>. HIDE DEF M, U, u
<1>5. IsFiniteSet(U) /\ Cardinality(M) + Cardinality(U) <= u
  BY <1>1, <1>2, <1>3, <1>4, Balance
<1>. QED BY <1>5 DEF Paid, M, U, u

\* A log that is left alone, and one that is forgotten.
LEMMA FilesKeep ==
  ASSUME StoreInv, UNCHANGED <<file, tail, acked>>, WholeUnacked
  PROVE  WholeUnacked' /\ Lost' = Lost /\ Torn' = Torn
BY DEF WholeUnacked, Lost, Torn, Stored

\* What a write does to the account.  Where it is the line of an acknowledged event that
\* is joined to a torn end, that event is lost, and the end is clean.
LEMMA WriteLoss ==
  ASSUME StoreInv, WholeUnacked, NEW s \in Sessions, NEW line,
         NEW how \in {"none", "part", "split", "whole", "line"}, Write(s, line, how),
         \/ acked' = acked
         \/ how = "line" /\ acked' = [acked EXCEPT ![s] = @ \cup {line.id}],
         how = "whole" => line.id \notin acked[s]
  PROVE  /\ WholeUnacked'
         /\ how = "none" => Lost' \subseteq Lost /\ Torn' \subseteq Torn
         /\ how \in {"part", "split", "whole"} => Lost' \subseteq Lost /\ Torn' \subseteq Torn \cup {s}
         /\ how = "line" => \/ Lost' \subseteq Lost /\ Torn' \subseteq Torn
                            \/ /\ Lost' \subseteq Lost \cup {line.id}
                               /\ s \in Torn /\ Torn' \subseteq Torn \ {s}
<1>1. file \in [Sessions -> Seq(ever)] /\ tail \in [Sessions -> {"clean", "part", "whole"}]
      /\ acked \in [Sessions -> SUBSET Nat]
  BY DEF StoreInv
<1>2. WriteLeaves(s, line, how) BY WriteCases
<1>3. \A d \in Sessions : d # s => file'[d] = file[d] /\ tail'[d] = tail[d] /\ acked'[d] = acked[d]
  BY <1>1, <1>2 DEF WriteLeaves
<1>4. acked'[s] \subseteq acked[s] \cup {line.id} /\ (how # "line" => acked'[s] = acked[s]) BY <1>1
<1>5. \A d \in Sessions : d # s => Stored(d)' = Stored(d) BY <1>3 DEF Stored
\* It is enough to look at the session that is written.
<1>6. ASSUME NEW X, (acked[s] \ Stored(s))' \subseteq (acked[s] \ Stored(s)) \cup X
      PROVE  Lost' \subseteq Lost \cup X
  <2>. SUFFICES ASSUME NEW e \in Lost', e \notin X PROVE e \in Lost
    OBVIOUS
  <2>1. PICK d \in Sessions : e \in (acked[d] \ Stored(d))' BY DEF Lost
  <2>2. e \in acked[d] \ Stored(d) BY <1>3, <1>5, <1>6, <2>1
  <2>. QED BY <2>2 DEF Lost
<1>7. ASSUME \A i \in DOMAIN file[s] : file[s][i].id \in acked'[s] => file[s][i].id \in Stored(s)'
      PROVE  /\ Lost' \subseteq Lost \cup {line.id}
             /\ how # "line" \/ line.id \in Stored(s)' => Lost' \subseteq Lost
  <2>1. \A e \in acked'[s] : e \in Stored(s) => e \in Stored(s)' BY <1>7 DEF Stored
  <2>2. (acked[s] \ Stored(s))' \subseteq (acked[s] \ Stored(s)) \cup {line.id} BY <1>4, <2>1
  <2>3. how # "line" \/ line.id \in Stored(s)'
          => (acked[s] \ Stored(s))' \subseteq (acked[s] \ Stored(s)) \cup {}
    BY <1>4, <2>1
  <2>4. Lost' \subseteq Lost \cup {line.id} BY <1>6, <2>2
  <2>5. how # "line" \/ line.id \in Stored(s)' => Lost' \subseteq Lost \cup {} BY <1>6, <2>3
  <2>. QED BY <2>4, <2>5
<1>8. /\ tail'[s] = "clean" => Torn' \subseteq Torn \ {s}
      /\ Torn' \subseteq Torn \cup {s}
      /\ tail[s] # "clean" => s \in Torn /\ Torn' \subseteq Torn
  BY <1>3 DEF Torn
<1>9. ASSUME tail'[s] # "whole" PROVE WholeUnacked' BY <1>3, <1>9 DEF WholeUnacked
<1>10. CASE how = "none"
  <2>1. UNCHANGED <<file, tail, acked>> BY <1>10 DEF Write
  <2>. QED BY <1>10, <2>1, FilesKeep
<1>11. CASE tail[s] = "clean" /\ how \in {"whole", "line"}
  <2>1. /\ file'[s] = Append(file[s], line) /\ tail'[s] = IF how = "line" THEN "clean" ELSE "whole"
    BY <1>1, <1>2, <1>11 DEF WriteLeaves
  <2>2. /\ Len(file[s]) \in Nat /\ DOMAIN file[s] = 1..Len(file[s])
        /\ DOMAIN file'[s] = 1..(Len(file[s]) + 1) /\ Len(file'[s]) = Len(file[s]) + 1
        /\ file'[s][Len(file[s]) + 1] = line
        /\ \A i \in 1..Len(file[s]) : file'[s][i] = file[s][i]
    <3>1. file[s] \in Seq(ever \cup {line}) /\ line \in ever \cup {line} BY <1>1, WiderSeq
    <3>. QED BY <2>1, <3>1
  <2>3. \A i \in DOMAIN file[s] : i \in DOMAIN file'[s] /\ file'[s][i] = file[s][i] BY <2>2
  <2>4. \A i \in DOMAIN file[s] : file[s][i].id \in Stored(s)' BY <2>3 DEF Stored
  <2>5. line.id \in Stored(s)'
    <3>1. Len(file[s]) + 1 \in DOMAIN file'[s] BY <2>2
    <3>. QED BY <2>2, <3>1 DEF Stored
  <2>6. Lost' \subseteq Lost BY <1>7, <2>4, <2>5
  <2>7. WholeUnacked'
    <3>1. tail'[s] = "whole" => file'[s][Len(file'[s])].id \notin acked'[s]
      BY <1>4, <1>11, <2>1, <2>2
    <3>. QED BY <1>3, <3>1 DEF WholeUnacked
  <2>. QED BY <1>8, <1>11, <2>1, <2>6, <2>7
<1>12. CASE how # "none" /\ ~(tail[s] = "clean" /\ how \in {"whole", "line"})
  <2>1. tail'[s] = IF how = "line" THEN "clean" ELSE "part"
    BY <1>1, <1>2, <1>12 DEF WriteLeaves
  <2>2. how = "line" => tail[s] # "clean" BY <1>12
  <2>3. \A i \in DOMAIN file[s] : file[s][i].id \in acked'[s] =>
          \/ file[s][i].id \in Stored(s)'
          \/ how = "line" /\ file[s][i].id = line.id
    <3>1. CASE UNCHANGED file BY <3>1 DEF Stored
    <3>2. CASE tail[s] = "whole" /\ file'[s] = Front(file[s])
      <4>1. file[s] \in Seq(ever) /\ file[s] # << >> BY <1>1, <3>2 DEF StoreInv
      <4>2. PICK n \in Nat : n + 1 = Len(file[s])
        <5>1. Len(file[s]) \in Nat \ {0} BY <4>1, EmptySeq
        <5>2. Len(file[s]) - 1 \in Nat /\ (Len(file[s]) - 1) + 1 = Len(file[s]) BY <5>1
        <5>. QED BY <5>2
      <4>3. file'[s] = SubSeq(file[s], 1, n) BY <3>2, <4>2 DEF Front
      <4>4. DOMAIN file'[s] = 1..n /\ DOMAIN file[s] = 1..(n + 1) /\ \A i \in 1..n : file'[s][i] = file[s][i]
        BY <4>1, <4>2, <4>3
      <4>5. file[s][n + 1].id \notin acked[s] BY <3>2, <4>2 DEF WholeUnacked
      <4>6. \A i \in 1..(n + 1) : i \in 1..n \/ i = n + 1 OBVIOUS
      <4>. QED BY <1>4, <4>4, <4>5, <4>6 DEF Stored
    <3>. QED BY <1>1, <1>2, <1>12, <3>1, <3>2 DEF WriteLeaves
  <2>4. /\ Lost' \subseteq Lost \cup {line.id} /\ (how # "line" => Lost' \subseteq Lost)
    <3>1. (acked[s] \ Stored(s))' \subseteq (acked[s] \ Stored(s)) \cup {line.id}
      BY <1>4, <2>3 DEF Stored
    <3>2. Lost' \subseteq Lost \cup {line.id} BY <1>6, <3>1
    <3>3. how # "line" => (acked[s] \ Stored(s))' \subseteq (acked[s] \ Stored(s)) \cup {}
      BY <1>4, <2>3 DEF Stored
    <3>4. how # "line" => Lost' \subseteq Lost \cup {} BY <1>6, <3>3
    <3>. QED BY <3>2, <3>4
  <2>5. WholeUnacked' BY <1>9, <2>1
  <2>. QED BY <1>8, <1>12, <2>1, <2>2, <2>4, <2>5
<1>. QED BY <1>10, <1>11, <1>12

\* A step that leaves the files and who appends alone.
LEMMA QuietLoss ==
  ASSUME LossInv, StoreInv', UNCHANGED <<file, tail, acked>>,
         count'.events = count.events, count.tears <= count'.tears,
         \A r \in Recorders : Appending(r)' => Appending(r) /\ rec'[r] = rec[r]
  PROVE  LossInv'
<1>1. WholeUnacked' /\ Lost' = Lost /\ Torn' = Torn BY FilesKeep DEF LossInv
<1>2. Balanced BY <1>1 DEF Balanced
<1>3. Paid' BY <1>2, PaidKept
<1>4. IdsOnce' BY DEF LossInv, IdsOnce
<1>. QED BY <1>1, <1>3, <1>4 DEF LossInv

LEMMA TearsSame == ASSUME StoreInv PROVE count.tears \in Nat /\ count.tears <= count.tears
BY DEF StoreInv, CountTypes

LEMMA WipeLoss ==
  ASSUME LossInv, StoreInv', NEW s \in Sessions, Wipe(s)
  PROVE  LossInv'
<1>0. StoreInv BY DEF LossInv
<1>1. /\ file \in [Sessions -> Seq(ever)] /\ tail \in [Sessions -> {"clean", "part", "whole"}]
      /\ acked \in [Sessions -> SUBSET Nat]
  BY <1>0 DEF StoreInv
<1>2. /\ acked'[s] = {} /\ tail'[s] = "clean"
      /\ \A d \in Sessions : d # s => file'[d] = file[d] /\ tail'[d] = tail[d] /\ acked'[d] = acked[d]
  BY <1>1 DEF Wipe
<1>3. \A d \in Sessions : d # s => Stored(d)' = Stored(d) BY <1>2 DEF Stored
<1>4. Lost' \subseteq Lost
  <2>. SUFFICES ASSUME NEW e \in Lost' PROVE e \in Lost
    OBVIOUS
  <2>1. PICK d \in Sessions : e \in (acked[d] \ Stored(d))' BY DEF Lost
  <2>2. d # s BY <1>2, <2>1
  <2>3. e \in acked[d] \ Stored(d) BY <1>2, <1>3, <2>1, <2>2
  <2>. QED BY <2>3 DEF Lost
<1>5. Torn' \subseteq Torn BY <1>2 DEF Torn
<1>6. Balanced BY <1>0, <1>4, <1>5, TearsSame DEF Balanced, Wipe
<1>7. Paid' BY <1>6, PaidKept
<1>8. \A d \in Sessions : acked'[d] \subseteq acked[d] BY <1>2
<1>9. UNCHANGED rec /\ count'.events = count.events BY DEF Wipe
<1>10. IdsOnce' BY <1>8, <1>9 DEF LossInv, IdsOnce, Appending
<1>11. WholeUnacked' BY <1>2 DEF LossInv, WholeUnacked
<1>. QED BY <1>7, <1>10, <1>11 DEF LossInv

\* An id nobody had.
LEMMA RecordLoss ==
  ASSUME LossInv, StoreInv', NEW r \in Recorders, NEW k \in Sinks, NEW kind, Record(r, k, kind)
  PROVE  LossInv'
<1>0. StoreInv BY DEF LossInv
<1>1. /\ UNCHANGED <<file, tail, acked>> /\ Tick("events")
      /\ rec' = [rec EXCEPT ![r] = [pc |-> "append", sink |-> k, said |-> TRUE, id |-> count'.events,
                                    seq |-> sink[k].next, kind |-> kind]]
  BY DEF Record, store
<1>2. count'.events = count.events + 1 /\ count'.tears = count.tears BY <1>0, <1>1, TickCount DEF StoreInv
<1>3. count.events \in Nat BY <1>0 DEF StoreInv, CountTypes
<1>4. rec'[r].id = count.events + 1 /\ \A q \in Recorders : q # r => rec'[q] = rec[q]
  BY <1>0, <1>1, <1>2 DEF StoreInv, RecTypes
<1>5. WholeUnacked' /\ Lost' = Lost /\ Torn' = Torn BY <1>0, <1>1, FilesKeep DEF LossInv
<1>6. Balanced BY <1>0, <1>2, <1>5, TearsSame DEF Balanced
<1>7. Paid' BY <1>6, PaidKept
<1>8. /\ 1..count.events \subseteq 1..count'.events /\ count.events + 1 \in 1..count'.events
      /\ count.events + 1 \notin 1..count.events
  BY <1>2, <1>3
<1>9. IdsOnce'
  <2>1. \A s \in Sessions : acked'[s] \subseteq 1..count'.events BY <1>1, <1>8 DEF LossInv, IdsOnce
  <2>2. \A q \in Recorders : q # r /\ Appending(q)' =>
          Appending(q) /\ rec[q].id \in 1..count.events /\ rec'[q] = rec[q]
    BY <1>4 DEF LossInv, IdsOnce, Appending
  <2>3. \A q \in Recorders : Appending(q)' => rec'[q].id \in 1..count'.events
    BY <1>4, <1>8, <2>2
  <2>4. \A q \in Recorders : Appending(q)' => \A s \in Sessions : rec'[q].id \notin acked'[s]
    BY <1>1, <1>4, <1>8, <2>2 DEF LossInv, IdsOnce
  <2>5. \A q, p \in Recorders : Appending(q)' /\ Appending(p)' /\ p # q => rec'[p].id # rec'[q].id
    BY <1>4, <1>8, <2>2 DEF LossInv, IdsOnce
  <2>. QED BY <2>1, <2>3, <2>4, <2>5 DEF IdsOnce
<1>. QED BY <1>5, <1>7, <1>9 DEF LossInv

LEMMA AppendLoss ==
  ASSUME LossInv, StoreInv', NEW r \in Recorders,
         AppendOk(r) \/ \E how \in {"none", "part", "split", "whole", "line"} : AppendFails(r, how)
  PROVE  LossInv'
<1>0. StoreInv BY DEF LossInv
<1> DEFINE s == SessionOf(r)
           l == Line(r)
<1>1. /\ Appending(r) /\ count'.events = count.events
      /\ \A q \in Recorders : Appending(q)' => Appending(q) /\ rec'[q] = rec[q] /\ q # r
  BY <1>0, AppendKeeps DEF Appending
<1>2. s \in Sessions /\ l.id = rec[r].id BY <1>0, <1>1, LineTypes
<1>3. l.id \notin acked[s] /\ l.id \in 1..count.events BY <1>1, <1>2 DEF LossInv, IdsOnce
<1>4. PICK how \in {"none", "part", "split", "whole", "line"} :
        /\ Write(s, l, how)
        /\ \/ acked' = acked
              /\ count'.tears = IF how \in {"part", "split", "whole"} THEN count.tears + 1 ELSE count.tears
           \/ how = "line" /\ acked' = [acked EXCEPT ![s] = @ \cup {l.id}] /\ count'.tears = count.tears
  <2>1. CASE AppendOk(r) BY <1>2, <2>1 DEF AppendOk
  <2>2. ASSUME NEW how \in {"none", "part", "split", "whole", "line"}, AppendFails(r, how)
        PROVE  /\ Write(s, l, how) /\ acked' = acked
               /\ count'.tears = IF how \in {"part", "split", "whole"} THEN count.tears + 1 ELSE count.tears
    <3>1. /\ Write(s, l, how) /\ acked' = acked
          /\ count' = [count EXCEPT !.faults = @ + 1,
                                    !.tears = IF how \in {"part", "split", "whole"} THEN @ + 1 ELSE @]
      BY <2>2 DEF AppendFails
    <3>. QED BY <1>0, <3>1, FaultCounts DEF StoreInv
  <2>. QED BY <2>1, <2>2
<1>. HIDE DEF s, l
<1>5. /\ WholeUnacked'
      /\ how = "none" => Lost' \subseteq Lost /\ Torn' \subseteq Torn
      /\ how \in {"part", "split", "whole"} => Lost' \subseteq Lost /\ Torn' \subseteq Torn \cup {s}
      /\ how = "line" => \/ Lost' \subseteq Lost /\ Torn' \subseteq Torn
                         \/ Lost' \subseteq Lost \cup {l.id} /\ s \in Torn /\ Torn' \subseteq Torn \ {s}
  <2>1. WholeUnacked BY DEF LossInv
  <2>2. acked' = acked \/ (how = "line" /\ acked' = [acked EXCEPT ![s] = @ \cup {l.id}]) BY <1>4
  <2>. QED BY <1>0, <1>2, <1>3, <1>4, <2>1, <2>2, WriteLoss
<1>6. Balanced
  <2>1. CASE how \in {"none", "line"}
    <3>1. count.tears <= count'.tears BY <1>0, <1>4, <2>1, TearsSame
    <3>. QED BY <1>5, <2>1, <3>1 DEF Balanced
  <2>2. CASE how \in {"part", "split", "whole"} BY <1>4, <1>5, <2>2 DEF Balanced
  <2>. QED BY <2>1, <2>2
<1>7. Paid' BY <1>6, PaidKept
<1>8. \A d \in Sessions : acked'[d] \subseteq acked[d] \cup {l.id}
  <2>1. acked \in [Sessions -> SUBSET Nat] BY <1>0 DEF StoreInv
  <2>. QED BY <1>4, <2>1
<1>9. IdsOnce'
  <2>1. \A d \in Sessions : acked'[d] \subseteq 1..count'.events BY <1>1, <1>3, <1>8 DEF LossInv, IdsOnce
  <2>2. \A q \in Recorders : Appending(q)' => rec[q].id # l.id BY <1>1, <1>2 DEF LossInv, IdsOnce
  <2>. QED BY <1>1, <1>8, <2>1, <2>2 DEF LossInv, IdsOnce
<1>. QED BY <1>5, <1>7, <1>9 DEF LossInv

LEMMA CrashLoss ==
  ASSUME LossInv, StoreInv', NEW r \in Recorders, NEW how \in {"none", "part", "split", "whole", "line"},
         Crash(r, how)
  PROVE  LossInv'
<1>0. StoreInv BY DEF LossInv
<1> DEFINE s == SessionOf(r)
           l == Line(r)
<1>1. count'.events = count.events /\ \A q \in Recorders : rec'[q].pc # "append" BY <1>0, CrashKeeps
<1>2. /\ Write(s, l, how) /\ acked' = acked /\ (how # "none" => Appending(r))
      /\ count'.tears = IF how \in {"part", "split", "whole"} THEN count.tears + 1 ELSE count.tears
  <2>1. /\ Write(s, l, how) /\ acked' = acked /\ (how # "none" => Appending(r))
        /\ count' = [count EXCEPT !.faults = @ + 1, !.crashes = @ + 1,
                                  !.tears = IF how \in {"part", "split", "whole"} THEN @ + 1 ELSE @]
    BY DEF Crash, Appending
  <2>. QED BY <1>0, <2>1, FaultCounts DEF StoreInv
<1>3. IdsOnce' BY <1>1, <1>2 DEF LossInv, IdsOnce, Appending
<1>4. CASE how = "none"
  <2>1. UNCHANGED <<file, tail, acked>> BY <1>2, <1>4 DEF Write
  <2>2. count.tears <= count'.tears BY <1>0, <1>2, <1>4, TearsSame
  <2>. QED BY <1>1, <2>1, <2>2, QuietLoss DEF Appending
<1>5. CASE how # "none"
  <2>1. s \in Sessions /\ l.id = rec[r].id BY <1>0, <1>2, <1>5, LineTypes
  <2>2. l.id \notin acked[s] BY <1>2, <1>5, <2>1 DEF LossInv, IdsOnce
  <2>. HIDE DEF s, l
  <2>3. /\ WholeUnacked'
        /\ how \in {"part", "split", "whole"} => Lost' \subseteq Lost /\ Torn' \subseteq Torn \cup {s}
        /\ how = "line" => \/ Lost' \subseteq Lost /\ Torn' \subseteq Torn
                           \/ Lost' \subseteq Lost \cup {l.id} /\ s \in Torn /\ Torn' \subseteq Torn \ {s}
    <3>1. WholeUnacked BY DEF LossInv
    <3>. QED BY <1>0, <1>2, <2>1, <2>2, <3>1, WriteLoss
  <2>4. Balanced
    <3>1. CASE how = "line"
      <4>1. count.tears <= count'.tears BY <1>0, <1>2, <3>1, TearsSame
      <4>. QED BY <2>3, <3>1, <4>1 DEF Balanced
    <3>2. CASE how \in {"part", "split", "whole"} BY <1>2, <2>3, <3>2 DEF Balanced
    <3>. QED BY <1>5, <3>1, <3>2
  <2>5. Paid' BY <2>4, PaidKept
  <2>. QED BY <1>3, <2>3, <2>5 DEF LossInv
<1>. QED BY <1>4, <1>5

LEMMA NextLoss ==
  ASSUME LossInv, StoreInv', [IndexNext]_<<vars, ivars>>
  PROVE  LossInv'
<1>0. StoreInv BY DEF LossInv
<1>1. StoreStep BY <1>0, StepKinds
<1>2. CASE Plain
  <2>1. UNCHANGED <<file, tail, acked>> /\ count'.events = count.events /\ count.tears <= count'.tears
        /\ \A r \in Recorders : Appending(r)' => Appending(r) /\ rec'[r] = rec[r]
    BY <1>0, <1>2, TearsSame DEF Plain, Appending
  <2>. QED BY <2>1, QuietLoss
<1>3. ASSUME NEW s \in Sessions, NEW k \in Sinks, OpenSink(s, k) PROVE LossInv'
  <2>1. UNCHANGED <<file, tail, acked, rec>> /\ Tick("sinks") BY <1>3 DEF OpenSink
  <2>2. count'.events = count.events /\ count.tears <= count'.tears
    BY <1>0, <2>1, TickCount, TearsSame DEF StoreInv
  <2>. QED BY <2>1, <2>2, QuietLoss DEF Appending
<1>4. ASSUME NEW k \in Sinks, NumberSink(k) PROVE LossInv'
  <2>1. UNCHANGED <<file, tail, acked, rec, count>> BY <1>4 DEF NumberSink, store
  <2>2. count'.events = count.events /\ count.tears <= count'.tears BY <1>0, <2>1, TearsSame
  <2>. QED BY <2>1, <2>2, QuietLoss DEF Appending
<1>5. ASSUME NEW k \in Sinks, NumberSinkFails(k) PROVE LossInv'
  <2>1. UNCHANGED <<file, tail, acked, rec>> /\ (Fault \/ UNCHANGED count)
    BY <1>5 DEF NumberSinkFails, store
  <2>2. count'.events = count.events /\ count.tears <= count'.tears
    BY <1>0, <2>1, FaultPlain, TearsSame
  <2>. QED BY <2>1, <2>2, QuietLoss DEF Appending
<1>. QED BY <1>1, <1>2, <1>3, <1>4, <1>5, WipeLoss, RecordLoss, AppendLoss, CrashLoss DEF StoreStep

LEMMA NumAlways == IndexSpec => []NumInv
<1>1. IndexInit => NumInv
  <2>. SUFFICES ASSUME IndexInit PROVE NumInv
    OBVIOUS
  <2>. QED BY InitStore DEF NumInv, EverTrue, Distinct, Behind, Ahead, NumbersAreFresh
<1>2. NumInv /\ [IndexNext]_<<vars, ivars>> => NumInv' BY NextNum
<1>. QED BY <1>1, <1>2, PTL DEF IndexSpec

\* The store implements SessionHistory: whatever is torn, fails or crashes, a log
\* grows at its end only and keeps its settled lines until it is forgotten, or
\* until a write stops inside a character and the log reads as an error.
THEOREM HistoryIsKept == IndexSpec => HistoryKept
<1>1. IndexInit => LogInv /\ History!Init
  <2>. SUFFICES ASSUME IndexInit PROVE LogInv /\ History!Init
    OBVIOUS
  <2>1. /\ file = [s \in Sessions |-> << >>] /\ tail = [s \in Sessions |-> "clean"]
        /\ rec = [r \in Recorders |-> Idle] /\ Idle.pc = "idle"
        /\ "pc" \in DOMAIN Idle /\ "id" \in DOMAIN Idle
        /\ "events" \in DOMAIN count /\ count.events = 0 /\ broken = {}
    BY DEF IndexInit, Init, Idle
  <2>2. file \in [Sessions -> Seq({})]
    BY <2>1, EmptySeq
  <2>3. LogInv
    BY <2>1, <2>2 DEF LogInv
  <2>4. LogOf = [s \in Sessions |-> << >>] /\ SettledOf = [s \in Sessions |-> TRUE]
    BY <2>1, IdsEmpty DEF LogOf, SettledOf, CanLoad
  <2>. QED BY <2>1, <2>3, <2>4 DEF History!Init, LogOf, SettledOf, IdsOf
<1>2. LogInv /\ NumInv /\ [IndexNext]_<<vars, ivars>> => LogInv' /\ (History!Next \/ UNCHANGED Shown)
  <2>1. NumInv => Placed
    BY LineTypes DEF NumInv, Placed, Appending
  <2>. QED BY <2>1, IndexShows
<1>3. UNCHANGED Shown <=>
        UNCHANGED <<[s \in Sessions |-> IF CanLoad(s) THEN [i \in DOMAIN file[s] |-> file[s][i].id]
                                        ELSE << >>],
                    [s \in Sessions |-> CanLoad(s) => tail[s] # "whole"], broken>>
  BY DEF Shown, LogOf, SettledOf, IdsOf
<1>. QED BY <1>1, <1>2, <1>3, NumAlways, PTL DEF IndexSpec, HistoryKept, History!Spec

\* Two lines of a session with one number come from two sinks of one process, or the
\* later of them from a sink that could not read the log when it opened, after any
\* crashes, torn lines and reopened sinks (with_health_and_initial_seq).
THEOREM NumbersStayFresh == IndexSpec => []NumbersAreFresh
<1>1. NumInv => NumbersAreFresh BY DEF NumInv
<1>. QED BY <1>1, NumAlways, PTL

\* Every torn write costs the logs that can be read at most one acknowledged event,
\* whatever it is torn by and whoever writes next (append_event).
THEOREM LossesArePaid == IndexSpec => []LossNeedsTear
<1>1. IndexInit => LossInv
  <2>. SUFFICES ASSUME IndexInit PROVE LossInv
    OBVIOUS
  <2>1. /\ tail = [s \in Sessions |-> "clean"] /\ acked = [s \in Sessions |-> {}] /\ count.tears = 0
    BY DEF IndexInit, Init
  <2>2. Lost = {} /\ Torn = {} BY <2>1 DEF Lost, Torn
  <2>3. Paid BY <2>1, <2>2, FS_EmptySet DEF Paid
  <2>4. IdsOnce /\ WholeUnacked BY <2>1, InitStore DEF IdsOnce, WholeUnacked
  <2>. QED BY <2>3, <2>4, InitStore DEF LossInv
<1>2. NumInv' => StoreInv' BY DEF NumInv
<1>3. LossInv /\ StoreInv' /\ [IndexNext]_<<vars, ivars>> => LossInv' BY NextLoss
<1>4. LossInv => LossNeedsTear
  <2>. SUFFICES ASSUME LossInv PROVE LossNeedsTear
    OBVIOUS
  <2>1. Cardinality(Lost) \in Nat /\ Cardinality(Torn) \in Nat /\ count.tears \in Nat
        /\ Cardinality(Lost) + Cardinality(Torn) <= count.tears
    BY LostFinite, FS_CardinalityType, TearsSame DEF LossInv, Paid
  <2> DEFINE Missing == UNION {acked[s] \ Readable(s) : s \in {t \in Sessions : CanLoad(t)}}
  <2>2. Missing \subseteq Lost BY DEF Lost, Readable
  <2>3. Cardinality(Missing) \in Nat /\ Cardinality(Missing) <= Cardinality(Lost)
    BY <2>2, LostFinite, FS_Subset, FS_CardinalityType
  <2>. HIDE DEF Missing
  <2>4. Cardinality(Missing) <= count.tears BY <2>1, <2>3
  <2>. QED BY <2>4 DEF LossNeedsTear, Missing
<1>. QED BY <1>1, <1>2, <1>3, <1>4, NumAlways, PTL DEF IndexSpec

-------------------------------------------------------------------------------
(* The index follows the log.                                                   *)

\* A line that was seen names the task, and says the status.
Backed(r, status) == \E l \in ever : l.by = r /\ (status = "running" \/ l.kind = status)

\* A recorder that mirrors has a line that was seen.
MirrorsSeen ==
  \A r \in Tasks : rec[r].pc \in {"mirror", "put", "child"} => Backed(r, rec[r].kind)

RowsBacked(rows) == DOMAIN rows = Tasks /\ \A r \in Tasks : rows[r] = NoRow \/ Backed(r, rows[r].status)

\* A rebuild loads lines that were seen.
LoadsSeen == "lines" \in DOMAIN rebuild /\ rebuild.lines \subseteq ever

SeenInv == MirrorsSeen /\ RowsBacked(index) /\ RowsBacked(read) /\ LoadsSeen

LEMMA RowFields ==
  ASSUME NEW s, NEW status
  PROVE  Row(s, status).session = s /\ Row(s, status).status = status
BY DEF Row

\* What was seen stays seen.
LEMMA BackedStays ==
  ASSUME ever \subseteq ever', NEW r, NEW status, Backed(r, status)
  PROVE  Backed(r, status)'
BY DEF Backed

LEMMA BackedRuns ==
  ASSUME NEW r, NEW status, Backed(r, status)
  PROVE  Backed(r, "running")
BY DEF Backed

\* What the rows of lines that were seen say.
LEMMA StandingSeen ==
  ASSUME NEW lines \in SUBSET ever, NEW r, Mine(lines, r) # {}
  PROVE  Backed(r, Standing(lines, r))
<1>1. PICK l \in lines : l.by = r BY DEF Mine
<1>2. CASE End(lines, r) = {} BY <1>1, <1>2 DEF Standing, Backed
<1>3. CASE End(lines, r) # {}
  <2>1. Standing(lines, r) \in End(lines, r) BY <1>3 DEF Standing
  <2>2. PICK m \in Mine(lines, r) : m.kind = Standing(lines, r) BY <2>1 DEF End
  <2>. QED BY <2>2 DEF Backed, Mine
<1>. QED BY <1>2, <1>3

LEMMA ReplayedSeen ==
  ASSUME NEW lines \in SUBSET ever, NEW r
  PROVE  Replayed(lines, r) = NoRow \/ Backed(r, Replayed(lines, r).status)
BY StandingSeen, RowFields DEF Replayed

\* A row that is written is backed where its recorder is.
LEMMA PutKeeps ==
  ASSUME RowsBacked(index), NEW r \in Tasks, NEW row, row = NoRow \/ Backed(r, row.status),
         UNCHANGED ever, index' = [index EXCEPT ![r] = row]
  PROVE  RowsBacked(index)'
BY DEF RowsBacked, Backed

LEMMA ReadKeeps ==
  ASSUME RowsBacked(read), NEW r \in Tasks, NEW row, row = NoRow \/ Backed(r, row.status),
         UNCHANGED ever, read' = [read EXCEPT ![r] = row]
  PROVE  RowsBacked(read)'
BY DEF RowsBacked, Backed

LEMMA LogSeen ==
  ASSUME StoreInv, LogNext
  PROVE  /\ ever \subseteq ever'
         /\ \A r \in Recorders : rec'[r].pc \in {"mirror", "put", "child"} =>
              \/ rec[r].pc \in {"mirror", "put", "child"} /\ rec'[r].kind = rec[r].kind
              \/ Line(r) \in ever' /\ Line(r).by = r /\ Line(r).kind = rec'[r].kind
<1>0. RecTypes BY DEF StoreInv
<1>1. CASE UNCHANGED <<ever, rec>> BY <1>1
<1>2. ASSUME NEW r \in Recorders, NEW k \in Sinks, NEW kind, Record(r, k, kind)
      PROVE  /\ ever' = ever
             /\ \A q \in Recorders : rec'[q].pc \in {"mirror", "put", "child"} => rec'[q] = rec[q]
  BY <1>0, <1>2 DEF Record, store, RecTypes
<1>3. ASSUME NEW r \in Recorders, AppendOk(r)
      PROVE  /\ ever \subseteq ever' /\ Line(r) \in ever'
             /\ \A q \in Recorders : q # r => rec'[q] = rec[q]
             /\ rec'[r].pc \in {"mirror", "put", "child"} => rec'[r].kind = rec[r].kind
  <2>1. ever' = ever \cup {Line(r)} BY <1>3 DEF AppendOk
  <2>2. CASE rec' = [rec EXCEPT ![r].pc = "mirror"] BY <1>0, <2>1, <2>2, MoveRec
  <2>3. CASE Done(r)
    <3>1. rec'[r].pc \in {"idle", "ended"} /\ \A q \in Recorders : q # r => rec'[q] = rec[q]
      BY <1>0, <2>3 DEF Done, Idle, RecTypes
    <3>. QED BY <2>1, <3>1
  <2>. QED BY <1>3, <2>2, <2>3 DEF AppendOk
<1>4. ASSUME NEW r \in Recorders, NEW how, AppendFails(r, how)
      PROVE  /\ ever \subseteq ever'
             /\ \A q \in Recorders : rec'[q].pc \in {"mirror", "put", "child"} => rec'[q] = rec[q]
  BY <1>0, <1>4 DEF AppendFails, Done, Idle, RecTypes
<1>5. ASSUME NEW r \in Recorders, NEW how, Crash(r, how)
      PROVE  /\ ever \subseteq ever'
             /\ \A q \in Recorders : rec'[q].pc \notin {"mirror", "put", "child"}
  BY <1>5 DEF Crash, Idle
<1>6. CASE \/ \E s \in Sessions : Forget(s) \/ ForgetFails(s) \/ \E k \in Sinks : OpenSink(s, k)
           \/ OpenSinkFails
           \/ \E k \in Sinks : NumberSink(k) \/ NumberSinkFails(k) \/ MarkStatus(k)
  BY <1>1, <1>6 DEF Forget, ForgetFails, OpenSink, OpenSinkFails, NumberSink, NumberSinkFails, MarkStatus, store
<1>7. \A r : Line(r).by = r /\ Line(r).kind = rec[r].kind BY DEF Line
<1>8. CASE \E r \in Recorders : AppendOk(r) BY <1>3, <1>7, <1>8
<1>. QED BY <1>2, <1>4, <1>5, <1>6, <1>8 DEF LogNext

LEMMA SeenStayed ==
  ASSUME SeenInv, ever \subseteq ever'
  PROVE  /\ UNCHANGED index => RowsBacked(index)'
         /\ UNCHANGED read \/ read' = [r \in Tasks |-> NoRow] => RowsBacked(read)'
         /\ UNCHANGED rebuild \/ rebuild' = NoRebuild => LoadsSeen'
<1>2. \A r, status : Backed(r, status) => Backed(r, status)' BY BackedStays
<1>3. UNCHANGED index => RowsBacked(index)' BY <1>2 DEF SeenInv, RowsBacked
<1>4. UNCHANGED read => RowsBacked(read)' BY <1>2 DEF SeenInv, RowsBacked
<1>5. read' = [r \in Tasks |-> NoRow] => RowsBacked(read)' BY DEF RowsBacked
<1>6. UNCHANGED rebuild \/ rebuild' = NoRebuild => LoadsSeen' BY DEF SeenInv, LoadsSeen, NoRebuild
<1>. QED BY <1>3, <1>4, <1>5, <1>6

LEMMA NextSeen ==
  ASSUME StoreInv, SeenInv, [IndexNext]_<<vars, ivars>>
  PROVE  SeenInv'
<1>0. RecTypes /\ Tasks \subseteq Recorders BY DEF StoreInv, Recorders
<1>1. ASSUME LogNext, UNCHANGED index, UNCHANGED read \/ read' = [r \in Tasks |-> NoRow],
             UNCHANGED rebuild \/ rebuild' = NoRebuild
      PROVE  SeenInv'
  <2>1. MirrorsSeen'
    <3>. SUFFICES ASSUME NEW r \in Tasks, rec'[r].pc \in {"mirror", "put", "child"}
                  PROVE  Backed(r, rec[r].kind)'
      BY DEF MirrorsSeen
    <3>1. ever \subseteq ever' BY <1>1, LogSeen
    <3>2. CASE rec[r].pc \in {"mirror", "put", "child"} /\ rec'[r].kind = rec[r].kind
      <4>1. Backed(r, rec[r].kind) BY <3>2 DEF SeenInv, MirrorsSeen
      <4>. QED BY <3>1, <3>2, <4>1 DEF Backed
    <3>3. CASE Line(r) \in ever' /\ Line(r).by = r /\ Line(r).kind = rec'[r].kind
      <4> DEFINE l == Line(r)
      <4>. HIDE DEF l
      <4>1. l \in ever' /\ l.by = r /\ l.kind = rec'[r].kind BY <3>3 DEF l
      <4>. QED BY <4>1 DEF Backed
    <3>. QED BY <1>0, <1>1, <3>2, <3>3, LogSeen
  <2>2. ever \subseteq ever' BY <1>1, LogSeen
  <2>. QED BY <1>1, <2>1, <2>2, SeenStayed DEF SeenInv
\* The mirror moves its recorder on, or is done with it.
<1>2. ASSUME NEW r \in Tasks, UNCHANGED ever,
             Done(r) \/ (\E pc \in {"put", "child"} : rec' = [rec EXCEPT ![r].pc = pc]
                         /\ rec[r].pc \in {"mirror", "put"})
      PROVE  MirrorsSeen'
  <2>1. \A q \in Tasks : rec'[q].pc \in {"mirror", "put", "child"}
          => rec[q].pc \in {"mirror", "put", "child"} /\ rec'[q].kind = rec[q].kind
    <3>1. CASE Done(r) BY <1>0, <3>1 DEF Done, Idle, RecTypes
    <3>2. ASSUME NEW pc \in {"put", "child"}, rec' = [rec EXCEPT ![r].pc = pc],
                 rec[r].pc \in {"mirror", "put"}
          PROVE  \A q \in Tasks : rec'[q].pc \in {"mirror", "put", "child"}
                   => rec[q].pc \in {"mirror", "put", "child"} /\ rec'[q].kind = rec[q].kind
      BY <1>0, <3>2, MoveRec
    <3>. QED BY <1>2, <3>1, <3>2
  <2>. QED BY <1>2, <2>1 DEF SeenInv, MirrorsSeen, Backed
<1>3. ASSUME NEW r \in Tasks, rec[r].pc \in {"mirror", "put", "child"}
      PROVE  Backed(r, rec[r].kind) /\ Backed(r, "running")
  BY <1>3 DEF SeenInv, MirrorsSeen, Backed
<1>4. \A r \in Tasks : read[r] = NoRow \/ Backed(r, read[r].status) BY DEF SeenInv, RowsBacked
<1>5. \A r \in Tasks : index[r] = NoRow \/ Backed(r, index[r].status) BY DEF SeenInv, RowsBacked
<1>6. ASSUME NEW r \in Tasks, UNCHANGED <<ever, rebuild>>,
             Done(r) \/ (\E pc \in {"put", "child"} : rec' = [rec EXCEPT ![r].pc = pc]
                         /\ rec[r].pc \in {"mirror", "put"}),
             NEW row, UNCHANGED index \/ (index' = [index EXCEPT ![r] = row] /\ Backed(r, row.status)),
             UNCHANGED read \/ (\E old : read' = [read EXCEPT ![r] = old] /\ old \in {NoRow, index[r]})
      PROVE  SeenInv'
  <2>1. /\ MirrorsSeen' /\ (UNCHANGED index => RowsBacked(index)')
        /\ (UNCHANGED read => RowsBacked(read)') /\ LoadsSeen'
    BY <1>2, <1>6, SeenStayed
  <2>2. RowsBacked(index)' BY <1>6, <2>1, PutKeeps DEF SeenInv
  <2>3. RowsBacked(read)' BY <1>5, <1>6, <2>1, ReadKeeps DEF SeenInv
  <2>. QED BY <2>1, <2>2, <2>3 DEF SeenInv
<1>7. ASSUME NEW r \in Tasks, MirrorStarted(r) PROVE SeenInv'
  <2> DEFINE row == Row(Stamp(r), "running")
  <2>1. row.status = "running" BY RowFields
  <2>. HIDE DEF row
  <2>2. index' = [index EXCEPT ![r] = row] /\ UNCHANGED <<ever, rebuild, read>> /\ Done(r)
        /\ rec[r].pc = "mirror"
    BY <1>7 DEF MirrorStarted, store, row
  <2>. QED BY <1>3, <1>6, <2>1, <2>2
<1>8. ASSUME NEW r \in Tasks, MirrorRead(r) PROVE SeenInv'
  <2>1. /\ read' = [read EXCEPT ![r] = index[r]] /\ UNCHANGED <<ever, rebuild, index>>
        /\ rec[r].pc = "mirror" /\ rec' = [rec EXCEPT ![r].pc = "put"]
    BY <1>8 DEF MirrorRead, store
  <2>. QED BY <1>6, <2>1
\* Who puts a row writes what it read, or its own.
<1>9. ASSUME NEW r \in Tasks, PutProgress(r) \/ PutTerminal(r) \/ PutSweep(r) PROVE SeenInv'
  <2>1. PICK row : index' = [index EXCEPT ![r] = row] /\ Backed(r, row.status)
    <3>0. rec[r].pc = "put" BY <1>9 DEF PutProgress, PutTerminal, PutSweep
    <3> DEFINE old == IF read[r] = NoRow THEN Row(Stamp(r), "running") ELSE read[r]
    <3>1. Backed(r, old.status) BY <1>3, <1>4, <3>0, RowFields
    <3>. HIDE DEF old
    <3>2. CASE PutProgress(r)
      <4>1. index' = [index EXCEPT ![r] = old] BY <3>2 DEF PutProgress, old
      <4>. QED BY <3>1, <4>1
    <3>3. CASE PutTerminal(r)
      <4>1. PICK s : index' = [index EXCEPT ![r] = Row(s, rec[r].kind)] BY <3>3 DEF PutTerminal
      <4>2. Backed(r, Row(s, rec[r].kind).status) BY <1>3, <3>0, RowFields
      <4>. QED BY <4>1, <4>2
    <3>4. CASE PutSweep(r)
      <4> DEFINE row == IF rec[r].kind \in Terminal THEN Row(old.session, rec[r].kind) ELSE old
      <4>1. index' = [index EXCEPT ![r] = row] BY <3>4 DEF PutSweep, old
      <4>2. Backed(r, Row(old.session, rec[r].kind).status) BY <1>3, <3>0, RowFields
      <4>3. Backed(r, row.status) BY <3>1, <4>2
      <4>. QED BY <4>1, <4>3
    <3>. QED BY <1>9, <3>2, <3>3, <3>4
  <2>2. read' = [read EXCEPT ![r] = NoRow] /\ UNCHANGED <<ever, rebuild>> /\ Done(r)
    BY <1>9 DEF PutProgress, PutTerminal, PutSweep, store
  <2>. QED BY <1>6, <2>1, <2>2
<1>10. ASSUME NEW r \in Tasks, PutParent(r) PROVE SeenInv'
  <2> DEFINE row == Row(Stamp(r), "running")
  <2>1. row.status = "running" BY RowFields
  <2>. HIDE DEF row
  <2>2. /\ UNCHANGED index \/ index' = [index EXCEPT ![r] = row]
        /\ UNCHANGED <<ever, rebuild, read>> /\ rec[r].pc = "put" /\ rec' = [rec EXCEPT ![r].pc = "child"]
    BY <1>10 DEF PutParent, store, row
  <2>. QED BY <1>3, <1>6, <2>1, <2>2
<1>11. ASSUME NEW r \in Tasks, PutFinding(r) \/ MirrorFails(r) PROVE SeenInv'
  <2>1. read' = [read EXCEPT ![r] = NoRow] /\ UNCHANGED <<ever, rebuild, index>> /\ Done(r)
    BY <1>11 DEF PutFinding, MirrorFails, store
  <2>. QED BY <1>6, <2>1
<1>12. ASSUME UNCHANGED <<ever, rec, read>>
       PROVE  /\ MirrorsSeen' /\ RowsBacked(read)'
              /\ (UNCHANGED index => RowsBacked(index)')
              /\ (UNCHANGED rebuild \/ rebuild' = NoRebuild => LoadsSeen')
  <2>1. MirrorsSeen'
    BY <1>12 DEF SeenInv, MirrorsSeen, Backed
  <2>. QED BY <1>12, <2>1, SeenStayed
<1>13. CASE RebuildList
  <2>1. rebuild' = [pc |-> "load", todo |-> List, lines |-> {}] /\ UNCHANGED <<ever, rec, read, index>>
    BY <1>13 DEF RebuildList, store
  <2>2. LoadsSeen' BY <2>1 DEF LoadsSeen
  <2>. QED BY <1>12, <2>1, <2>2 DEF SeenInv
<1>14. ASSUME NEW s \in Sessions, RebuildLoad(s) PROVE SeenInv'
  <2>1. /\ rebuild' = [rebuild EXCEPT !.todo = @ \ {s}, !.lines = @ \cup LinesOf(s)]
        /\ UNCHANGED <<ever, rec, read, index>>
    BY <1>14 DEF RebuildLoad, vars
  <2>2. LinesOf(s) \subseteq ever BY LineSeen DEF LinesOf
  <2>3. LoadsSeen' BY <2>1, <2>2 DEF SeenInv, LoadsSeen
  <2>. QED BY <1>12, <2>1, <2>3 DEF SeenInv
<1>15. CASE RebuildReplace
  <2>1. /\ index' = [r \in Tasks |-> Replayed(rebuild.lines, r)] /\ rebuild' = NoRebuild
        /\ UNCHANGED <<ever, rec, read>>
    BY <1>15 DEF RebuildReplace, vars
  <2>2. \A r \in Tasks : index'[r] = NoRow \/ Backed(r, index'[r].status)
    BY <2>1, ReplayedSeen DEF SeenInv, LoadsSeen
  <2>3. RowsBacked(index)' BY <2>1, <2>2 DEF RowsBacked, Backed
  <2>. QED BY <1>12, <2>1, <2>3 DEF SeenInv
<1>16. CASE RebuildFails
  <2>1. rebuild' = NoRebuild /\ UNCHANGED <<ever, rec, read, index>> BY <1>16 DEF RebuildFails, store
  <2>. QED BY <1>12, <2>1 DEF SeenInv
<1>17. CASE UNCHANGED <<vars, ivars>> BY <1>12, <1>17 DEF vars, ivars, SeenInv
<1>. QED BY <1>1, <1>7, <1>8, <1>9, <1>10, <1>11, <1>13, <1>14, <1>15, <1>16, <1>17 DEF IndexNext

\* No client is shown a run, or the end of one, that the log never held or
\* acknowledged, through any failure, crash or rebuild (record, S03-F01).
THEOREM IndexFollowsLog == IndexSpec => []ListedWasLogged
<1>1. IndexInit => SeenInv
  <2>. SUFFICES ASSUME IndexInit PROVE SeenInv
    OBVIOUS
  <2>1. /\ rec = [r \in Recorders |-> Idle] /\ Tasks \subseteq Recorders /\ Idle.pc = "idle"
        /\ index = [r \in Tasks |-> NoRow] /\ read = [r \in Tasks |-> NoRow]
        /\ rebuild = NoRebuild
    BY DEF IndexInit, Init, Idle, Recorders
  <2>. QED BY <2>1 DEF SeenInv, MirrorsSeen, RowsBacked, LoadsSeen, NoRebuild
<1>2. NumInv => StoreInv BY DEF NumInv
<1>3. StoreInv /\ SeenInv /\ [IndexNext]_<<vars, ivars>> => SeenInv' BY NextSeen
<1>4. StoreInv /\ SeenInv => ListedWasLogged
  <2>. SUFFICES ASSUME StoreInv, SeenInv, NEW s \in Sessions, NEW r \in DOMAIN ListRuns(s).runs
                PROVE  Backed(r, ListRuns(s).runs[r])
    BY DEF ListedWasLogged, Backed
  <2>1. CASE \E q \in Tasks : index[q].session = s
    <3>1. ListRuns(s) = ListFromIndex(s) BY <2>1 DEF ListRuns
    <3>2. r \in Tasks /\ index[r].session = s /\ ListRuns(s).runs[r] = index[r].status
      BY <3>1 DEF ListFromIndex
    <3>3. index[r] # NoRow BY <3>2, IndexAssumption DEF NoRow
    <3>. QED BY <3>2, <3>3 DEF SeenInv, RowsBacked
  <2>2. CASE ~\E q \in Tasks : index[q].session = s
    <3>1. ListRuns(s) = ListFromLog(s) BY <2>2 DEF ListRuns
    <3>2. Snapshot(LinesOf(s), r) # "none" /\ ListRuns(s).runs[r] = Snapshot(LinesOf(s), r)
      BY <3>1 DEF ListFromLog
    <3>3. LinesOf(s) \subseteq ever BY LineSeen DEF LinesOf
    <3>4. Mine(LinesOf(s), r) # {} /\ Snapshot(LinesOf(s), r) = Standing(LinesOf(s), r)
      BY <3>2 DEF Snapshot, SnapshotRun, SnapshotSweep
    <3>. QED BY <3>2, <3>3, <3>4, StandingSeen
  <2>. QED BY <2>1, <2>2
<1>. QED BY <1>1, <1>2, <1>3, <1>4, NumAlways, PTL DEF IndexSpec
=============================================================================
