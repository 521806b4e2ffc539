--------------------------- MODULE Handoff_proofs ---------------------------
(****************************************************************************)
(* Proofs about handoff packets for any packets, people, connections and    *)
(* executors: nobody gets a packet through alone, an outcome follows a      *)
(* dispatch, and a refused line executor is told to stop.                   *)
(****************************************************************************)
EXTENDS Handoff, FiniteSetTheorems, TLAPS

Statuses ==
  {"none", "draft", "pending_approval", "approved", "rejected", "dispatched",
   "executing", "completed", "failed"}

Signers == People \cup {"nobody"}

Early == {"idle", "approve", "reject", "busy", "spawn"}

Late == {"listen", "mark", "marking", "bind", "binding", "send", "fail", "failing"}

Packet ==
  [status : Statuses, author : Signers, signers : Seq(Signers), need : {0, 1, 2}, pin : Nat,
   strict : BOOLEAN, exec : 0..MaxExec, seen : SUBSET Statuses]

Job == [pc : Early \cup Late, p : Packets \cup {"none"}, who : Signers, e : 0..MaxExec]

Executor ==
  [st : {"none", "up", "exited", "crashed"}, p : Packets \cup {"none"}, open : BOOLEAN,
   prompt : {"no", "sent", "done"}, progress : Nat, said : BOOLEAN]

Task == [pc : {"none", "on", "off", "progress", "complete"}, ev : Outcomes \cup {"none"}]

Types ==
  /\ pkt \in [Packets -> Packet]
  /\ job \in [Conns -> Job]
  /\ ex \in [Execs -> Executor]
  /\ lst \in [Execs -> Task]
  /\ head \in Nat /\ agent \in Agents

\* A command that runs names a packet, and once it has spawned an executor it
\* names that one, which works for the packet.
JobShape ==
  \A c \in Conns :
    /\ job[c].pc # "idle" => job[c].p \in Packets
    /\ job[c].pc \in Early => job[c].e = 0
    /\ job[c].pc \in Late => /\ job[c].e \in Execs
                             /\ ex[job[c].e].p = job[c].p
                             /\ ex[job[c].e].st # "none"

\* Only a spawned executor has a packet, a prompt and a listener.
ExecShape ==
  \A e \in Execs :
    /\ ex[e].st # "none" => ex[e].p \in Packets
    /\ ex[e].prompt # "no" => ex[e].st # "none"
    /\ lst[e].pc # "none" => ex[e].st # "none"
    /\ lst[e].pc = "complete" => lst[e].ev \in Outcomes

Shape == Types /\ JobShape /\ ExecShape

LEMMA InitShape == Init => Shape
BY HandoffAssumption
DEF Init, Shape, Types, JobShape, ExecShape, Packet, Job, Executor, Task, NoPacket, NoJob,
    NoExec, Statuses, Signers, Early, Late, Execs, Outcomes

\* Changing a packet within its type changes nothing else.
LEMMA PktShape ==
  ASSUME Shape, pkt' \in [Packets -> Packet], UNCHANGED <<job, ex, lst, repo>>
  PROVE  Shape'
BY DEF Shape, Types, JobShape, ExecShape, repo

\* Executors stay well formed, and a spawned one stays spawned for its packet.
ExKeeps ==
  /\ ex' \in [Execs -> Executor]
  /\ \A e \in Execs :
       /\ ex[e].st # "none" => ex'[e].st # "none" /\ ex'[e].p = ex[e].p
       /\ ex'[e].st # "none" => ex'[e].p \in Packets
       /\ ex'[e].prompt # "no" => ex'[e].st # "none"

LEMMA SameEx == ASSUME Shape, UNCHANGED ex PROVE ExKeeps
BY DEF Shape, Types, ExecShape, ExKeeps

LEMMA CloseKeeps == ASSUME Shape, NEW e \in Execs, CloseStdin(e) PROVE ExKeeps
BY DEF Shape, Types, ExecShape, ExKeeps, CloseStdin, Executor

\* A command moves on, and the rest stays as it must be.
LEMMA CommandShape ==
  ASSUME Shape, NEW c \in Conns, NEW j \in Job, job' = [job EXCEPT ![c] = j],
         j.pc # "idle" => j.p \in Packets,
         j.pc \in Early => j.e = 0,
         j.pc \in Late => j.e \in Execs /\ ex'[j.e].p = j.p /\ ex'[j.e].st # "none",
         ExKeeps, pkt' \in [Packets -> Packet], UNCHANGED <<lst, repo>>
  PROVE  Shape'
<1>1. job' \in [Conns -> Job] /\ job'[c] = j /\ \A d \in Conns : d # c => job'[d] = job[d]
  BY DEF Shape, Types
<1>2. JobShape'
  <2>1. ASSUME NEW d \in Conns
        PROVE  /\ job'[d].pc # "idle" => job'[d].p \in Packets
               /\ job'[d].pc \in Early => job'[d].e = 0
               /\ job'[d].pc \in Late => /\ job'[d].e \in Execs
                                         /\ ex'[job'[d].e].p = job'[d].p
                                         /\ ex'[job'[d].e].st # "none"
    BY <1>1 DEF Shape, JobShape, ExKeeps
  <2>. QED BY <2>1 DEF JobShape
<1>3. ExecShape'
  BY DEF Shape, ExecShape, ExKeeps
<1>. QED BY <1>1, <1>2, <1>3 DEF Shape, Types, ExKeeps, repo

\* Signing keeps packets well formed, and so does any entry in the history.
LEMMA ApproveTypes ==
  ASSUME Shape, NEW c \in Conns, ApproveUpdate(c)
  PROVE  pkt' \in [Packets -> Packet]
<1> DEFINE p == job[c].p
           signers == Append(pkt[p].signers, job[c].who)
           now == IF pkt[p].status = "pending_approval" /\ Len(signers) >= pkt[p].need
                  THEN Enter(p, "approved") ELSE pkt[p]
<1>1. p \in Packets /\ job[c].who \in Signers /\ pkt[p] \in Packet
  BY DEF Shape, Types, JobShape, Job, ApproveUpdate
<1>2. signers \in Seq(Signers)
  BY <1>1 DEF Packet
<1>3. now \in Packet
  BY <1>1 DEF Enter, Packet, Statuses
<1>4. [now EXCEPT !.signers = signers] \in Packet
  <2>. HIDE DEF now, signers
  <2>. QED BY <1>2, <1>3 DEF Packet
<1>5. pkt' = [pkt EXCEPT ![p] = [now EXCEPT !.signers = signers]]
  BY DEF ApproveUpdate, SetPacket
<1>. HIDE DEF now, signers, p
<1>. QED BY <1>1, <1>4, <1>5 DEF Shape, Types

LEMMA EnterTypes ==
  ASSUME Shape, NEW p \in Packets, NEW s \in Statuses
  PROVE  /\ Enter(p, s) \in Packet
         /\ \A x \in 0..MaxExec : /\ [Enter(p, s) EXCEPT !.exec = x] \in Packet
                                  /\ [pkt[p] EXCEPT !.exec = x] \in Packet
         /\ \A r \in Packet : SetPacket(p, r) => pkt' \in [Packets -> Packet]
<1>1. pkt \in [Packets -> Packet] /\ pkt[p] \in Packet
  BY DEF Shape, Types
<1>2. Enter(p, s) \in Packet
  BY <1>1 DEF Enter, Packet
<1>3. \A r \in Packet, x \in 0..MaxExec : [r EXCEPT !.exec = x] \in Packet
  BY DEF Packet
<1>4. \A r \in Packet : SetPacket(p, r) => pkt' \in [Packets -> Packet]
  BY <1>1 DEF SetPacket
<1>. QED BY <1>1, <1>2, <1>3, <1>4

LEMMA CreateTypes ==
  ASSUME Shape, NEW c \in Conns, NEW p \in Packets, NEW a \in Authors, NEW n \in Needs,
         NEW s \in Policies, Create(c, p, a, n, s)
  PROVE  pkt' \in [Packets -> Packet]
BY HandoffAssumption
DEF Shape, Types, Create, SetPacket, Signatures, Packet, Statuses, Signers

\* What each command step leaves behind.
LEMMA CommandsShape ==
  ASSUME Shape, NEW c \in Conns, CommandStep(c)
  PROVE  Shape'
<1>0. NoJob \in Job /\ job \in [Conns -> Job] /\ pkt \in [Packets -> Packet]
  BY HandoffAssumption DEF NoJob, Job, Early, Signers, Shape, Types
<1> DEFINE Rest == /\ ExKeeps /\ pkt' \in [Packets -> Packet] /\ UNCHANGED <<lst, repo>>
<1>1. ASSUME Done(c), Rest PROVE Shape'
  BY <1>0, <1>1, CommandShape DEF Done, NoJob, Early, Late
<1>2. ASSUME NEW pc \in Late, job[c].pc \in Late, Goto(c, pc), Rest PROVE Shape'
  <2>1. /\ job' = [job EXCEPT ![c] = [job[c] EXCEPT !.pc = pc]]
        /\ [job[c] EXCEPT !.pc = pc] \in Job
    BY <1>0, <1>2 DEF Goto, Job
  <2>2. /\ job[c].p \in Packets /\ job[c].e \in Execs
        /\ ex'[job[c].e].p = job[c].p /\ ex'[job[c].e].st # "none"
    BY <1>2 DEF Shape, JobShape, ExKeeps, Early, Late
  <2>3. pc # "idle" /\ pc \notin Early
    BY <1>2 DEF Early, Late
  <2>. QED BY <1>0, <1>2, <2>1, <2>2, <2>3, CommandShape DEF Job
<1>3. ASSUME ApproveUpdate(c) PROVE Shape'
  BY <1>1, <1>3, ApproveTypes, SameEx DEF ApproveUpdate
<1>4. ASSUME RejectUpdate(c) PROVE Shape'
  <2>1. pkt' \in [Packets -> Packet]
    <3>1. job[c].p \in Packets
      BY <1>4 DEF RejectUpdate, Shape, JobShape
    <3>2. Enter(job[c].p, "rejected") \in Packet
      BY <3>1, EnterTypes, HandoffAssumption DEF Statuses
    <3>. QED BY <1>4, <3>1, <3>2 DEF RejectUpdate, Shape, Types, SetPacket
  <2>. QED BY <1>1, <1>4, <2>1, SameEx DEF RejectUpdate
<1>5. ASSUME BusyRefused(c) PROVE Shape'
  BY <1>0, <1>1, <1>5, SameEx DEF BusyRefused
<1>6. ASSUME NotBusy(c) PROVE Shape'
  <2>1. /\ job' = [job EXCEPT ![c] = [job[c] EXCEPT !.pc = "spawn"]]
        /\ [job[c] EXCEPT !.pc = "spawn"] \in Job
        /\ job[c].p \in Packets /\ job[c].e = 0
    BY <1>0, <1>6 DEF NotBusy, Goto, Job, Early, Shape, JobShape
  <2>. QED BY <1>0, <1>6, <2>1, SameEx, CommandShape DEF NotBusy, Job, Late
<1>7. ASSUME Listen(c) PROVE Shape'
  <2>1. job[c].e \in Execs /\ ex[job[c].e].st # "none" /\ ex[job[c].e].p = job[c].p
        /\ job[c].p \in Packets
    BY <1>7 DEF Listen, Shape, JobShape, Late
  <2>2. lst' \in [Execs -> Task] /\ ExecShape'
    BY <1>7, <2>1 DEF Listen, Shape, Types, Task, ExecShape
  <2>3. job' \in [Conns -> Job] /\ JobShape'
    BY <1>0, <1>7, <2>1 DEF Listen, Goto, Job, Shape, JobShape, Early, Late
  <2>. QED BY <1>7, <2>2, <2>3 DEF Listen, Shape, Types, repo
<1>8. ASSUME MarkCheck(c) \/ BindCheck(c) \/ SendFails(c) \/ FailCheck(c) PROVE Shape'
  <2>1. Rest
    BY <1>0, <1>8, SameEx DEF MarkCheck, BindCheck, SendFails, FailCheck
  <2>2. job[c].pc \in Late /\ \E pc \in Late : Goto(c, pc)
    BY <1>8 DEF MarkCheck, BindCheck, SendFails, FailCheck, Late
  <2>. QED BY <1>2, <2>1, <2>2
<1>9. ASSUME MarkRefused(c) \/ BindRefused(c) \/ FailRefused(c) PROVE Shape'
  <2>1. job[c].e \in Execs
    BY <1>9 DEF MarkRefused, BindRefused, FailRefused, Shape, JobShape, Late
  <2>. QED BY <1>0, <1>1, <1>9, <2>1, CloseKeeps DEF MarkRefused, BindRefused, FailRefused
<1>10. ASSUME MarkUpdate(c) \/ BindUpdate(c) PROVE Shape'
  <2>1. job[c].p \in Packets /\ job[c].e \in 0..MaxExec /\ job[c].pc \in Late
    BY <1>0, <1>10 DEF MarkUpdate, BindUpdate, Shape, JobShape, Late, Job
  <2>2. pkt' \in [Packets -> Packet]
    BY <1>10, <2>1, EnterTypes DEF MarkUpdate, BindUpdate, Statuses
  <2>3. \E pc \in Late : Goto(c, pc)
    BY <1>10 DEF MarkUpdate, BindUpdate, Late
  <2>. QED BY <1>2, <1>10, <2>1, <2>2, <2>3, SameEx DEF MarkUpdate, BindUpdate
<1>11. ASSUME Send(c) PROVE Shape'
  <2>1. job[c].e \in Execs /\ ex[job[c].e].st # "none"
    BY <1>11 DEF Send, Shape, JobShape, Late
  <2>2. ExKeeps
    BY <1>11, <2>1 DEF Send, ExKeeps, Shape, Types, ExecShape, Executor
  <2>. QED BY <1>0, <1>1, <1>11, <2>2 DEF Send
<1>12. ASSUME FailUpdate(c) PROVE Shape'
  <2>1. job[c].p \in Packets /\ job[c].e \in Execs /\ job[c].e \in 0..MaxExec
    BY <1>0, <1>12 DEF FailUpdate, Shape, JobShape, Late, Job
  <2>2. pkt' \in [Packets -> Packet]
    BY <1>12, <2>1, EnterTypes DEF FailUpdate, Statuses
  <2>. QED BY <1>1, <1>12, <2>1, <2>2, CloseKeeps DEF FailUpdate
<1>. QED BY <1>3, <1>4, <1>5, <1>6, <1>7, <1>8, <1>9, <1>10, <1>11, <1>12 DEF CommandStep

LEMMA ExecutorsShape ==
  ASSUME Shape, NEW e \in Execs,
         \/ Progress(e) \/ PromptFails(e) \/ WatchdogTells(e) \/ Listener(e)
         \/ \E o \in Outcomes : Answer(e, o)
         \/ \E st \in {"exited", "crashed"} : ChildEnds(e, st)
  PROVE  Shape'
<1>1. CASE \/ Progress(e) \/ PromptFails(e) \/ WatchdogTells(e)
           \/ \E o \in Outcomes : Answer(e, o)
           \/ \E st \in {"exited", "crashed"} : ChildEnds(e, st)
  <2>1. UNCHANGED <<pkt, job, lst, repo>>
    BY <1>1 DEF Progress, PromptFails, WatchdogTells, Answer, ChildEnds
  <2>2. ExKeeps
    <3>1. /\ ex[e].st # "none" /\ ex[e] \in Executor
          /\ \E x \in Executor : ex' = [ex EXCEPT ![e] = x] /\ x.st # "none" /\ x.p = ex[e].p
      <4>1. ex[e] \in Executor /\ ex[e].progress + 1 \in Nat
        BY DEF Shape, Types, Executor
      <4>2. CASE Progress(e)
        <5>1. ex' = [ex EXCEPT ![e] = [ex[e] EXCEPT !.progress = ex[e].progress + 1]] /\ ex[e].st = "up"
          BY <4>2 DEF Progress
        <5>2. /\ [ex[e] EXCEPT !.progress = ex[e].progress + 1] \in Executor
              /\ [ex[e] EXCEPT !.progress = ex[e].progress + 1].st = ex[e].st
              /\ [ex[e] EXCEPT !.progress = ex[e].progress + 1].p = ex[e].p
          BY <4>1 DEF Executor
        <5>. QED BY <4>1, <5>1, <5>2
      <4>3. CASE PromptFails(e) \/ \E o \in Outcomes : Answer(e, o)
        <5>1. ex' = [ex EXCEPT ![e] = [ex[e] EXCEPT !.prompt = "done"]] /\ ex[e].st # "none"
          BY <4>3 DEF PromptFails, Answer
        <5>2. /\ [ex[e] EXCEPT !.prompt = "done"] \in Executor
              /\ [ex[e] EXCEPT !.prompt = "done"].st = ex[e].st
              /\ [ex[e] EXCEPT !.prompt = "done"].p = ex[e].p
          BY <4>1 DEF Executor
        <5>. QED BY <4>1, <5>1, <5>2
      <4>4. CASE WatchdogTells(e)
        <5>1. ex' = [ex EXCEPT ![e] = [ex[e] EXCEPT !.said = TRUE]] /\ ex[e].st # "none"
          BY <4>4 DEF WatchdogTells
        <5>2. /\ [ex[e] EXCEPT !.said = TRUE] \in Executor
              /\ [ex[e] EXCEPT !.said = TRUE].st = ex[e].st
              /\ [ex[e] EXCEPT !.said = TRUE].p = ex[e].p
          BY <4>1 DEF Executor
        <5>. QED BY <4>1, <5>1, <5>2
      <4>5. ASSUME NEW st \in {"exited", "crashed"}, ChildEnds(e, st)
            PROVE  /\ ex[e].st # "none"
                   /\ \E x \in Executor :
                        ex' = [ex EXCEPT ![e] = x] /\ x.st # "none" /\ x.p = ex[e].p
        <5>1. ex' = [ex EXCEPT ![e] = [ex[e] EXCEPT !.st = st]] /\ ex[e].st # "none"
          BY <4>5 DEF ChildEnds
        <5>2. /\ [ex[e] EXCEPT !.st = st] \in Executor
              /\ [ex[e] EXCEPT !.st = st].st = st
              /\ [ex[e] EXCEPT !.st = st].p = ex[e].p
          BY <4>1 DEF Executor
        <5>. QED BY <4>1, <5>1, <5>2
      <4>. QED BY <1>1, <4>1, <4>2, <4>3, <4>4, <4>5
    <3>. QED BY <3>1 DEF ExKeeps, Shape, Types, ExecShape
  <2>3. JobShape'
    BY <2>1, <2>2 DEF Shape, JobShape, ExKeeps
  <2>4. ExecShape'
    BY <2>1, <2>2 DEF Shape, ExecShape, ExKeeps
  <2>. QED BY <2>1, <2>2, <2>3, <2>4 DEF Shape, Types, ExKeeps, repo
<1>2. CASE Listener(e)
  <2>1. UNCHANGED <<job, ex, repo>>
    BY <1>2 DEF Listener, HearProgress, ProgressUpdate, HearEnd, CompleteUpdate, Take
  <2>2. lst' \in [Execs -> Task] /\ ExecShape'
    BY <1>2, <2>1 DEF Listener, HearProgress, ProgressUpdate, HearEnd, CompleteUpdate, Take,
       Hearing, Shape, Types, Task, ExecShape, Outcomes
  <2>3. lst[e].pc # "none" /\ ex[e].p \in Packets /\ e \in 0..MaxExec
    BY <1>2 DEF Listener, HearProgress, ProgressUpdate, HearEnd, CompleteUpdate, Hearing,
       Shape, ExecShape, Execs
  <2>4. pkt' \in [Packets -> Packet]
    <3>1. CASE HearProgress(e) \/ HearEnd(e)
      BY <3>1 DEF HearProgress, HearEnd, Take, Shape, Types
    <3>2. CASE ProgressUpdate(e)
      <4>1. (IF pkt[ex[e].p].exec = 0 THEN e ELSE pkt[ex[e].p].exec) \in 0..MaxExec
        BY <2>3 DEF Shape, Types, Packet
      <4>. QED BY <3>2, <2>3, <4>1, EnterTypes DEF ProgressUpdate, Statuses
    <3>3. CASE CompleteUpdate(e)
      <4>1. lst[e].ev \in Statuses
        BY <3>3 DEF CompleteUpdate, Shape, ExecShape, Outcomes, Statuses
      <4>. QED BY <3>3, <2>3, <4>1, EnterTypes DEF CompleteUpdate
    <3>. QED BY <1>2, <3>1, <3>2, <3>3 DEF Listener
  <2>5. JobShape'
    BY <2>1 DEF Shape, JobShape
  <2>. QED BY <2>1, <2>2, <2>4, <2>5 DEF Shape, Types, repo
<1>. QED BY <1>1, <1>2

LEMMA NextShape == Shape /\ [Next]_vars => Shape'
<1>. SUFFICES ASSUME Shape, [Next]_vars PROVE Shape'
  OBVIOUS
<1>0. job \in [Conns -> Job] /\ pkt \in [Packets -> Packet]
  BY DEF Shape, Types
<1>1. ASSUME NEW c \in Conns, NEW p \in Packets, NEW a \in Authors, NEW n \in Needs,
             NEW s \in Policies, Create(c, p, a, n, s)
      PROVE  Shape'
  BY <1>1, CreateTypes, PktShape DEF Create
<1>2. ASSUME NEW c \in Conns, NEW p \in Packets, NEW pc \in {"approve", "reject", "busy"},
             NEW who \in Signers, Begin(c, pc, p, who), UNCHANGED <<pkt, ex, q, lst, repo>>
      PROVE  Shape'
  <2> DEFINE j == [NoJob EXCEPT !.pc = pc, !.p = p, !.who = who]
  <2>1. j \in Job /\ j.pc = pc /\ j.p = p /\ j.e = 0
    <3>1. NoJob \in Job /\ NoJob.e = 0
      BY HandoffAssumption DEF NoJob, Job, Early, Signers
    <3>. QED BY <3>1 DEF Job, Early
  <2>2. job' = [job EXCEPT ![c] = j]
    BY <1>2 DEF Begin
  <2>. HIDE DEF j
  <2>. QED BY <1>0, <1>2, <2>1, <2>2, SameEx, CommandShape DEF Early, Late
<1>3. ASSUME NEW c \in Conns, NEW p \in Packets,
             \/ \E a \in People : ApproveCheck(c, p, a)
             \/ RejectCheck(c, p) \/ DispatchCheck(c, p)
      PROVE  Shape'
  <2>1. ASSUME NEW a \in People, ApproveCheck(c, p, a) PROVE Shape'
    BY <2>1, <1>2 DEF ApproveCheck, Signers
  <2>. QED BY <1>3, <1>2, <2>1 DEF RejectCheck, DispatchCheck, Signers
<1>4. ASSUME NEW c \in Conns, SpawnFails(c) PROVE Shape'
  <2>1. NoJob \in Job
    BY HandoffAssumption DEF NoJob, Job, Early, Signers
  <2>. QED BY <1>0, <1>4, <2>1, SameEx, CommandShape DEF SpawnFails, Done, NoJob, Early, Late
<1>5. ASSUME NEW c \in Conns, NEW e \in Execs, Spawn(c, e) PROVE Shape'
  <2>1. job[c].p \in Packets /\ ex[e].st = "none"
    BY <1>5 DEF Spawn, Shape, JobShape
  <2>2. ex' \in [Execs -> Executor] /\ ex'[e].st = "up" /\ ex'[e].p = job[c].p /\ ex'[e].prompt = "no"
        /\ \A d \in Execs : d # e => ex'[d] = ex[d]
    BY <1>5, <2>1 DEF Spawn, Shape, Types, NoExec, Executor
  <2>3. ExKeeps
    BY <2>1, <2>2 DEF ExKeeps, Shape, ExecShape
  <2> DEFINE j == [job[c] EXCEPT !.pc = "listen", !.e = e]
  <2>4. j \in Job /\ j.pc = "listen" /\ j.p = job[c].p /\ j.e = e
    <3>1. job[c] \in Job /\ e \in 0..MaxExec
      BY <1>0, HandoffAssumption DEF Execs
    <3>. QED BY <3>1 DEF Job, Late
  <2>5. job' = [job EXCEPT ![c] = j]
    BY <1>0, <1>5, Zenon DEF Spawn
  <2>. HIDE DEF j
  <2>6. UNCHANGED <<pkt, lst, repo>>
    BY <1>5 DEF Spawn
  <2>7. j.pc # "idle" /\ j.pc \notin Early
    BY <2>4 DEF Early
  <2>. QED BY <1>0, <2>1, <2>2, <2>3, <2>4, <2>5, <2>6, <2>7, CommandShape
<1>6. ASSUME RepoMoves PROVE Shape'
  BY <1>6 DEF RepoMoves, Shape, Types, JobShape, ExecShape
<1>7. CASE UNCHANGED vars
  BY <1>0, <1>7, PktShape DEF vars, repo
<1>8. ASSUME NEW c \in Conns, NEW p \in Packets,
             \/ \E a \in Authors, n \in Needs, s \in Policies : Create(c, p, a, n, s)
             \/ \E a \in People : ApproveCheck(c, p, a)
             \/ RejectCheck(c, p) \/ DispatchCheck(c, p)
      PROVE  Shape'
  BY <1>1, <1>3, <1>8
<1>9. ASSUME NEW c \in Conns,
             CommandStep(c) \/ SpawnFails(c) \/ \E e \in Execs : Spawn(c, e)
      PROVE  Shape'
  BY <1>4, <1>5, <1>9, CommandsShape
<1>. QED BY <1>6, <1>7, <1>8, <1>9, ExecutorsShape DEF Next

-------------------------------------------------------------------------------
(* What a step may do to a packet, a command and an executor.               *)

\* Enter writes the status and the history and leaves the signatures alone.
LEMMA EnterIs ==
  ASSUME Shape, NEW p \in Packets, NEW s \in Statuses, NEW r,
         r = Enter(p, s) \/ \E x \in 0..MaxExec : r = [Enter(p, s) EXCEPT !.exec = x]
  PROVE  /\ r.status = s /\ r.seen = pkt[p].seen \cup {s}
         /\ r.author = pkt[p].author /\ r.signers = pkt[p].signers /\ r.need = pkt[p].need
<1>1. Enter(p, s) \in Packet /\ pkt[p] \in Packet
  BY EnterTypes DEF Shape, Types
<1>2. LET n == Enter(p, s)
      IN  /\ n.status = s /\ n.seen = pkt[p].seen \cup {s}
          /\ n.author = pkt[p].author /\ n.signers = pkt[p].signers /\ n.need = pkt[p].need
  BY <1>1 DEF Enter, Packet
<1>. QED BY <1>1, <1>2 DEF Packet

SameSigners(p) ==
  /\ pkt'[p].author = pkt[p].author /\ pkt'[p].signers = pkt[p].signers

Kept(p) ==
  SameSigners(p) /\ pkt'[p].status = pkt[p].status /\ pkt'[p].seen = pkt[p].seen

Created(p) ==
  /\ pkt[p].status = "none" /\ pkt'[p].status = "pending_approval"
  /\ pkt'[p].signers = <<pkt'[p].author>>
  /\ pkt'[p].seen = {"draft", "pending_approval"}

Signing(p) ==
  \E c \in Conns :
    /\ job[c].pc = "approve" /\ job[c].p = p
    /\ pkt'[p].author = pkt[p].author
    /\ pkt'[p].signers = Append(pkt[p].signers, job[c].who)
    /\ \/ pkt'[p].status = pkt[p].status /\ pkt'[p].seen = pkt[p].seen
       \/ /\ pkt[p].status = "pending_approval"
          /\ Len(pkt'[p].signers) >= pkt[p].need
          /\ pkt'[p].status = "approved" /\ pkt'[p].seen = pkt[p].seen \cup {"approved"}

Entered(p, s) ==
  SameSigners(p) /\ pkt'[p].status = s /\ pkt'[p].seen = pkt[p].seen \cup {s}

At(p, pcs) == \E c \in Conns : job[c].pc \in pcs /\ job[c].p = p

Heard(p) == \E e \in Execs : lst[e].pc = "complete" /\ ex[e].p = p

PacketMoves(p) ==
  \/ Kept(p) \/ Created(p) \/ Signing(p)
  \/ At(p, {"reject"}) /\ Entered(p, "rejected")
  \/ At(p, {"marking"}) /\ Entered(p, "dispatched")
  \/ At(p, {"binding"}) /\ Entered(p, "executing")
  \/ \E s \in Ended : (At(p, {"failing"}) \/ Heard(p)) /\ Entered(p, s)

\* A write to one packet leaves the others as they are.
LEMMA OnePacket ==
  ASSUME Shape, NEW p \in Packets, NEW r \in Packet, SetPacket(p, r)
  PROVE  pkt'[p] = r /\ \A d \in Packets : d # p => pkt'[d] = pkt[d]
BY DEF Shape, Types, SetPacket

LEMMA Moves ==
  ASSUME Shape, [Next]_vars, NEW p \in Packets
  PROVE  PacketMoves(p)
<1>0. \A d \in Packets : pkt[d] \in Packet
  BY DEF Shape, Types
<1>1. CASE UNCHANGED pkt
  BY <1>1 DEF PacketMoves, Kept, SameSigners
<1>2. ASSUME NEW c \in Conns, NEW d \in Packets, NEW a \in Authors, NEW n \in Needs,
             NEW s \in Policies, Create(c, d, a, n, s)
      PROVE  PacketMoves(p)
  <2>1. /\ pkt'[d].status = "pending_approval" /\ pkt[d].status = "none"
        /\ pkt'[d].signers = <<pkt'[d].author>>
        /\ pkt'[d].seen = {"draft", "pending_approval"}
        /\ \A x \in Packets : x # d => pkt'[x] = pkt[x]
    BY <1>2 DEF Create, SetPacket, Signatures, Shape, Types
  <2>. QED BY <2>1 DEF PacketMoves, Kept, SameSigners, Created
<1>3. ASSUME NEW c \in Conns, ApproveUpdate(c) PROVE PacketMoves(p)
  <2> DEFINE d == job[c].p
             signers == Append(pkt[d].signers, job[c].who)
             now == IF pkt[d].status = "pending_approval" /\ Len(signers) >= pkt[d].need
                    THEN Enter(d, "approved") ELSE pkt[d]
             new == [now EXCEPT !.signers = signers]
  <2>1. d \in Packets /\ job[c].who \in Signers /\ job[c].pc = "approve" /\ 0 \in 0..MaxExec
    BY <1>3, HandoffAssumption DEF Shape, Types, JobShape, Job, ApproveUpdate
  <2>2. signers \in Seq(Signers)
    BY <1>0, <2>1 DEF Packet
  <2>3. Enter(d, "approved") \in Packet
    BY <2>1, EnterTypes DEF Statuses
  <2>4. now \in Packet
    BY <1>0, <2>1, <2>3
  <2>5. /\ new \in Packet /\ new.signers = signers /\ new.author = now.author
        /\ new.status = now.status /\ new.seen = now.seen
    <3>. HIDE DEF now, signers
    <3>. QED BY <2>2, <2>4 DEF Packet
  <2>6. pkt'[d] = new /\ \A x \in Packets : x # d => pkt'[x] = pkt[x]
    <3>1. SetPacket(d, new)
      BY <1>3 DEF ApproveUpdate
    <3>. HIDE DEF new, d
    <3>. QED BY <2>1, <2>5, <3>1, OnePacket
  <2>7. /\ Enter(d, "approved").status = "approved"
        /\ Enter(d, "approved").seen = pkt[d].seen \cup {"approved"}
        /\ Enter(d, "approved").author = pkt[d].author
    <3>. HIDE DEF d
    <3>. QED BY <2>1, EnterIs DEF Statuses
  <2>8. \/ now = pkt[d]
        \/ /\ pkt[d].status = "pending_approval" /\ Len(signers) >= pkt[d].need
           /\ now = Enter(d, "approved")
    OBVIOUS
  <2>9. Signing(d)
    <3>. HIDE DEF now, new
    <3>. QED BY <2>1, <2>5, <2>6, <2>7, <2>8 DEF Signing
  <2>. HIDE DEF d, now, new, signers
  <2>. QED BY <2>6, <2>9 DEF PacketMoves, Kept, SameSigners
<1>4. ASSUME NEW d \in Packets, NEW s \in Statuses, NEW x \in 0..MaxExec,
             NEW r \in {Enter(d, s), [Enter(d, s) EXCEPT !.exec = x]},
             SetPacket(d, r), d = p => PacketMoves(p) \/ (Entered(p, s) => PacketMoves(p))
      PROVE  PacketMoves(p)
  <2>1. r \in Packet
    <3>1. Enter(d, s) \in Packet /\ [Enter(d, s) EXCEPT !.exec = x] \in Packet
      BY EnterTypes
    <3>. QED BY <3>1, Zenon
  <2>2. pkt'[d] = r /\ \A y \in Packets : y # d => pkt'[y] = pkt[y]
    BY <1>4, <2>1, OnePacket
  <2>3. Entered(d, s)
    <3>1. /\ r.status = s /\ r.seen = pkt[d].seen \cup {s}
          /\ r.author = pkt[d].author /\ r.signers = pkt[d].signers
      BY <1>4, EnterIs
    <3>. QED BY <2>2, <3>1 DEF Entered, SameSigners
  <2>. QED BY <1>4, <2>2, <2>3 DEF PacketMoves, Kept, SameSigners
<1>5. ASSUME NEW c \in Conns,
             RejectUpdate(c) \/ MarkUpdate(c) \/ BindUpdate(c) \/ FailUpdate(c)
      PROVE  PacketMoves(p)
  <2>1. job[c].p \in Packets /\ job[c].e \in 0..MaxExec
    BY <1>5 DEF Shape, Types, Job, JobShape, RejectUpdate, MarkUpdate, BindUpdate, FailUpdate
  <2>2. "rejected" \in Statuses /\ "dispatched" \in Statuses /\ "executing" \in Statuses
        /\ "failed" \in Statuses /\ "failed" \in Ended
    BY DEF Statuses, Ended
  <2>3. CASE RejectUpdate(c)
    <3>1. At(job[c].p, {"reject"}) /\ SetPacket(job[c].p, Enter(job[c].p, "rejected"))
      BY <2>3 DEF RejectUpdate, At
    <3>2. job[c].p = p => (Entered(p, "rejected") => PacketMoves(p))
      BY <3>1 DEF PacketMoves
    <3>. QED BY <1>4, <2>1, <2>2, <3>1, <3>2
  <2>4. CASE MarkUpdate(c)
    <3>1. At(job[c].p, {"marking"}) /\ SetPacket(job[c].p, Enter(job[c].p, "dispatched"))
      BY <2>4 DEF MarkUpdate, At
    <3>2. job[c].p = p => (Entered(p, "dispatched") => PacketMoves(p))
      BY <3>1 DEF PacketMoves
    <3>. QED BY <1>4, <2>1, <2>2, <3>1, <3>2
  <2>5. CASE BindUpdate(c)
    <3>1. At(job[c].p, {"binding"})
          /\ SetPacket(job[c].p, [Enter(job[c].p, "executing") EXCEPT !.exec = job[c].e])
      BY <2>5 DEF BindUpdate, At
    <3>2. job[c].p = p => (Entered(p, "executing") => PacketMoves(p))
      BY <3>1 DEF PacketMoves
    <3>. QED BY <1>4, <2>1, <2>2, <3>1, <3>2
  <2>6. CASE FailUpdate(c)
    <3>1. At(job[c].p, {"failing"})
          /\ SetPacket(job[c].p, [Enter(job[c].p, "failed") EXCEPT !.exec = job[c].e])
      BY <2>6 DEF FailUpdate, At
    <3>2. job[c].p = p => (Entered(p, "failed") => PacketMoves(p))
      BY <3>1, <2>2 DEF PacketMoves
    <3>. QED BY <1>4, <2>1, <2>2, <3>1, <3>2
  <2>. QED BY <1>5, <2>3, <2>4, <2>5, <2>6
<1>6. ASSUME NEW e \in Execs, ProgressUpdate(e) PROVE PacketMoves(p)
  <2> DEFINE d == ex[e].p
             x == IF pkt[d].exec = 0 THEN e ELSE pkt[d].exec
  <2>1. d \in Packets /\ x \in 0..MaxExec
    BY <1>0, <1>6, HandoffAssumption DEF ProgressUpdate, Shape, ExecShape, Packet, Execs
  <2>2. SetPacket(d, [pkt[d] EXCEPT !.exec = x])
    BY <1>6 DEF ProgressUpdate
  <2>. HIDE DEF d, x
  <2>3. /\ [pkt[d] EXCEPT !.exec = x] \in Packet
        /\ [pkt[d] EXCEPT !.exec = x].status = pkt[d].status
        /\ [pkt[d] EXCEPT !.exec = x].seen = pkt[d].seen
        /\ [pkt[d] EXCEPT !.exec = x].author = pkt[d].author
        /\ [pkt[d] EXCEPT !.exec = x].signers = pkt[d].signers
    BY <1>0, <2>1 DEF Packet
  <2>4. pkt'[d] = [pkt[d] EXCEPT !.exec = x] /\ \A y \in Packets : y # d => pkt'[y] = pkt[y]
    BY <2>1, <2>2, <2>3, OnePacket
  <2>. QED BY <2>3, <2>4 DEF PacketMoves, Kept, SameSigners
<1>7. ASSUME NEW e \in Execs, CompleteUpdate(e) PROVE PacketMoves(p)
  <2>1. ex[e].p \in Packets /\ e \in 0..MaxExec /\ lst[e].ev \in Ended /\ lst[e].ev \in Statuses
    BY <1>7, HandoffAssumption DEF CompleteUpdate, Shape, ExecShape, Execs, Outcomes, Ended, Statuses
  <2>2. Heard(ex[e].p) /\ SetPacket(ex[e].p, [Enter(ex[e].p, lst[e].ev) EXCEPT !.exec = e])
    BY <1>7 DEF CompleteUpdate, Heard
  <2>3. ex[e].p = p => (Entered(p, lst[e].ev) => PacketMoves(p))
    BY <2>1, <2>2 DEF PacketMoves
  <2>. QED BY <1>4, <2>1, <2>2, <2>3
<1>8. ASSUME NEW c \in Conns, CommandStep(c) PROVE PacketMoves(p)
  BY <1>1, <1>3, <1>5, <1>8
  DEF CommandStep, NotBusy, BusyRefused, Listen, MarkCheck, MarkRefused, BindCheck, BindRefused,
      Send, SendFails, FailCheck, FailRefused
<1>9. ASSUME NEW e \in Execs,
             \/ Progress(e) \/ PromptFails(e) \/ WatchdogTells(e) \/ Listener(e)
             \/ \E o \in Outcomes : Answer(e, o)
             \/ \E st \in {"exited", "crashed"} : ChildEnds(e, st)
      PROVE  PacketMoves(p)
  BY <1>1, <1>6, <1>7, <1>9
  DEF Listener, HearProgress, HearEnd, Take, Progress, PromptFails, WatchdogTells, Answer, ChildEnds
<1>10. ASSUME NEW c \in Conns, NEW d \in Packets,
              \/ \E a \in Authors, n \in Needs, s \in Policies : Create(c, d, a, n, s)
              \/ \E a \in People : ApproveCheck(c, d, a)
              \/ RejectCheck(c, d) \/ DispatchCheck(c, d)
       PROVE  PacketMoves(p)
  BY <1>1, <1>2, <1>10 DEF ApproveCheck, RejectCheck, DispatchCheck
<1>11. ASSUME NEW c \in Conns,
              CommandStep(c) \/ SpawnFails(c) \/ \E e \in Execs : Spawn(c, e)
       PROVE  PacketMoves(p)
  BY <1>1, <1>8, <1>11 DEF SpawnFails, Spawn
<1>12. CASE RepoMoves \/ UNCHANGED vars
  BY <1>1, <1>12 DEF RepoMoves, vars
<1>. QED BY <1>9, <1>10, <1>11, <1>12 DEF Next

\* A command begins after a check of its packet, moves on to its next stage, where
\* a write to the packet has its effect, or ends.
Begins(c) ==
  /\ job'[c].p \in Packets /\ pkt' = pkt
  /\ \/ /\ job'[c].pc = "approve"
        /\ pkt[job'[c].p].status = "pending_approval"
        /\ job'[c].who # pkt[job'[c].p].author
     \/ job'[c].pc = "reject" /\ pkt[job'[c].p].status = "pending_approval"
     \/ job'[c].pc = "busy" /\ pkt[job'[c].p].status = "approved"

Before(pc) == \* the stage that leads to pc
  CASE pc = "spawn" -> "busy" [] pc = "listen" -> "spawn" [] pc = "mark" -> "listen"
    [] pc = "marking" -> "mark" [] pc = "bind" -> "marking" [] pc = "binding" -> "bind"
    [] pc = "send" -> "binding" [] pc = "fail" -> "send" [] pc = "failing" -> "fail"
    [] OTHER -> "none"

Continues(c) ==
  /\ job'[c].p = job[c].p
  /\ job[c].pc = Before(job'[c].pc)
  /\ job'[c].pc = "bind" => "dispatched" \in pkt'[job[c].p].seen
  /\ job'[c].pc = "send" => "executing" \in pkt'[job[c].p].seen

CommandMoves(c) ==
  job'[c] = job[c] \/ job'[c].pc = "idle" \/ Begins(c) \/ Continues(c)

LEMMA CommandsMove ==
  ASSUME Shape, [Next]_vars, NEW c \in Conns
  PROVE  CommandMoves(c)
<1>0. job \in [Conns -> Job] /\ 0 \in 0..MaxExec
  BY HandoffAssumption DEF Shape, Types
<1>1. CASE UNCHANGED job
  BY <1>1 DEF CommandMoves
<1>2. ASSUME NEW d \in Conns, Done(d) PROVE CommandMoves(c)
  BY <1>0, <1>2 DEF Done, NoJob, CommandMoves
<1>3. ASSUME NEW d \in Conns, NEW pc, Goto(d, pc), job[d].pc = Before(pc),
             pc = "bind" => "dispatched" \in pkt'[job[d].p].seen,
             pc = "send" => "executing" \in pkt'[job[d].p].seen
      PROVE  CommandMoves(c)
  <2>1. job'[d].pc = pc /\ job'[d].p = job[d].p
        /\ \A b \in Conns : b # d => job'[b] = job[b]
    BY <1>0, <1>3 DEF Goto, Job
  <2>. QED BY <1>3, <2>1 DEF CommandMoves, Continues
<1>4. ASSUME NEW d \in Conns, NEW p \in Packets, NEW pc \in {"approve", "reject", "busy"},
             NEW who \in Signers, Begin(d, pc, p, who), pkt' = pkt,
             pc # "busy" => pkt[p].status = "pending_approval",
             pc = "busy" => pkt[p].status = "approved",
             pc = "approve" => who # pkt[p].author
      PROVE  CommandMoves(c)
  <2>1. job'[d].pc = pc /\ job'[d].p = p /\ job'[d].who = who
        /\ \A b \in Conns : b # d => job'[b] = job[b]
    BY <1>0, <1>4 DEF Begin, NoJob
  <2>. QED BY <1>4, <2>1 DEF CommandMoves, Begins
<1>5. ASSUME NEW d \in Conns, CommandStep(d) PROVE CommandMoves(c)
  <2>1. CASE \/ ApproveUpdate(d) \/ RejectUpdate(d) \/ BusyRefused(d) \/ MarkRefused(d)
             \/ BindRefused(d) \/ FailRefused(d) \/ FailUpdate(d) \/ Send(d)
    BY <1>2, <2>1 DEF ApproveUpdate, RejectUpdate, BusyRefused, MarkRefused, BindRefused,
       FailRefused, FailUpdate, Send
  <2>2. CASE NotBusy(d)
    BY <1>3, <2>2 DEF NotBusy, Before
  <2>3. CASE Listen(d)
    BY <1>3, <2>3 DEF Listen, Before
  <2>4. CASE MarkCheck(d)
    BY <1>3, <2>4 DEF MarkCheck, Before
  <2>5. CASE BindCheck(d)
    BY <1>3, <2>5 DEF BindCheck, Before
  <2>6. CASE SendFails(d)
    BY <1>3, <2>6 DEF SendFails, Before
  <2>7. CASE FailCheck(d)
    BY <1>3, <2>7 DEF FailCheck, Before
  <2>8. CASE MarkUpdate(d)
    <3>1. job[d].p \in Packets /\ "dispatched" \in Statuses
      BY <2>8 DEF MarkUpdate, Shape, JobShape, Statuses
    <3>2. Enter(job[d].p, "dispatched") \in Packet
          /\ "dispatched" \in Enter(job[d].p, "dispatched").seen
      BY <1>0, <3>1, EnterTypes, EnterIs
    <3>3. "dispatched" \in pkt'[job[d].p].seen
      BY <2>8, <3>1, <3>2, OnePacket DEF MarkUpdate
    <3>. QED BY <1>3, <2>8, <3>3 DEF MarkUpdate, Before
  <2>9. CASE BindUpdate(d)
    <3> DEFINE r == [Enter(job[d].p, "executing") EXCEPT !.exec = job[d].e]
    <3>1. job[d].p \in Packets /\ "executing" \in Statuses /\ job[d].e \in 0..MaxExec
      BY <1>0, <2>9 DEF BindUpdate, Shape, JobShape, Statuses, Job
    <3>2. r \in Packet /\ "executing" \in r.seen
      <4>1. \A x \in 0..MaxExec : [Enter(job[d].p, "executing") EXCEPT !.exec = x] \in Packet
        BY <3>1, EnterTypes
      <4>2. r.seen = pkt[job[d].p].seen \cup {"executing"}
        BY <3>1, EnterIs
      <4>. QED BY <3>1, <4>1, <4>2
    <3>3. SetPacket(job[d].p, r)
      BY <2>9 DEF BindUpdate
    <3>. HIDE DEF r
    <3>4. "executing" \in pkt'[job[d].p].seen
      BY <3>1, <3>2, <3>3, OnePacket
    <3>. QED BY <1>3, <2>9, <3>4 DEF BindUpdate, Before
  <2>. QED BY <1>5, <2>1, <2>2, <2>3, <2>4, <2>5, <2>6, <2>7, <2>8, <2>9 DEF CommandStep
<1>6. ASSUME NEW d \in Conns, NEW p \in Packets,
             \/ \E a \in Authors, n \in Needs, s \in Policies : Create(d, p, a, n, s)
             \/ \E a \in People : ApproveCheck(d, p, a)
             \/ RejectCheck(d, p) \/ DispatchCheck(d, p)
      PROVE  CommandMoves(c)
  <2>1. ASSUME NEW a \in People, ApproveCheck(d, p, a) PROVE CommandMoves(c)
    BY <1>4, <2>1 DEF ApproveCheck, Signers
  <2>2. CASE RejectCheck(d, p)
    BY <1>4, <2>2 DEF RejectCheck, Signers
  <2>3. CASE DispatchCheck(d, p)
    BY <1>4, <2>3 DEF DispatchCheck, Signers
  <2>. QED BY <1>1, <1>6, <2>1, <2>2, <2>3 DEF Create
<1>7. ASSUME NEW d \in Conns,
             CommandStep(d) \/ SpawnFails(d) \/ \E e \in Execs : Spawn(d, e)
      PROVE  CommandMoves(c)
  <2>1. ASSUME NEW e \in Execs, Spawn(d, e) PROVE CommandMoves(c)
    <3>1. /\ job[d].pc = "spawn" /\ job'[d].pc = "listen" /\ job'[d].p = job[d].p
          /\ \A b \in Conns : b # d => job'[b] = job[b]
      BY <1>0, <2>1 DEF Spawn, Job
    <3>. QED BY <3>1 DEF CommandMoves, Continues, Before
  <2>. QED BY <1>2, <1>5, <1>7, <2>1 DEF SpawnFails
<1>8. ASSUME NEW e \in Execs,
             \/ Progress(e) \/ PromptFails(e) \/ WatchdogTells(e) \/ Listener(e)
             \/ \E o \in Outcomes : Answer(e, o)
             \/ \E st \in {"exited", "crashed"} : ChildEnds(e, st)
      PROVE  CommandMoves(c)
  BY <1>1, <1>8 DEF Progress, PromptFails, WatchdogTells, Answer, ChildEnds, Listener,
     HearProgress, ProgressUpdate, HearEnd, CompleteUpdate, Take
<1>9. CASE RepoMoves \/ UNCHANGED vars
  BY <1>1, <1>9 DEF RepoMoves, vars
<1>. QED BY <1>6, <1>7, <1>8, <1>9 DEF Next

\* An executor keeps its packet once spawned; its prompt is sent by the command
\* that spawned it, and its listener completes a packet it found active.
ExecutorMoves(e) ==
  /\ ex[e].st # "none" => ex'[e].st # "none" /\ ex'[e].p = ex[e].p
  /\ ex'[e].prompt # "no" /\ ex[e].prompt = "no" =>
       \E c \in Conns : job[c].pc = "send" /\ job[c].e = e
  /\ ex[e].prompt # "no" => ex[e].st # "none"
  /\ ex'[e].prompt # "no" => ex[e].st # "none"
  /\ lst'[e].pc = "complete" =>
       /\ ex[e].st # "none"
       /\ lst[e].pc = "complete" \/ pkt[ex[e].p].status \in Active

LEMMA ExecutorsMove ==
  ASSUME Shape, [Next]_vars, NEW e \in Execs
  PROVE  ExecutorMoves(e)
<1>0. /\ ex \in [Execs -> Executor] /\ lst \in [Execs -> Task]
      /\ \A d \in Execs : ex[d].prompt # "no" => ex[d].st # "none"
      /\ \A d \in Execs : lst[d].pc # "none" => ex[d].st # "none"
  BY DEF Shape, Types, ExecShape
<1>1. CASE UNCHANGED <<ex, lst>>
  BY <1>0, <1>1 DEF ExecutorMoves
<1>2. ASSUME NEW c \in Conns, CommandStep(c) PROVE ExecutorMoves(e)
  <2>1. CASE Listen(c)
    <3>1. job[c].e \in Execs /\ ex[job[c].e].st # "none"
      BY <2>1 DEF Listen, Shape, JobShape, Late
    <3>. QED BY <1>0, <2>1, <3>1 DEF Listen, ExecutorMoves, Task
  <2>2. CASE Send(c)
    <3>1. job[c].e \in Execs /\ ex[job[c].e].st # "none"
      BY <2>2 DEF Send, Shape, JobShape, Late
    <3>. QED BY <1>0, <2>2, <3>1 DEF Send, ExecutorMoves, Executor
  <2>3. CASE MarkRefused(c) \/ BindRefused(c) \/ FailRefused(c) \/ FailUpdate(c)
    BY <1>0, <2>3 DEF MarkRefused, BindRefused, FailRefused, FailUpdate, CloseStdin,
       ExecutorMoves, Executor
  <2>. QED BY <1>1, <1>2, <2>1, <2>2, <2>3 DEF CommandStep, ApproveUpdate, RejectUpdate,
       NotBusy, BusyRefused, MarkCheck, MarkUpdate, BindCheck, BindUpdate, SendFails, FailCheck
<1>3. ASSUME NEW c \in Conns, NEW d \in Execs, Spawn(c, d) PROVE ExecutorMoves(e)
  <2>1. /\ ex[d].st = "none" /\ ex'[d].prompt = "no" /\ lst' = lst
        /\ \A b \in Execs : b # d => ex'[b] = ex[b]
    BY <1>0, <1>3 DEF Spawn, NoExec
  <2>. QED BY <1>0, <2>1 DEF ExecutorMoves
<1>4. ASSUME NEW d \in Execs,
             \/ Progress(d) \/ PromptFails(d) \/ WatchdogTells(d)
             \/ \E o \in Outcomes : Answer(d, o)
             \/ \E st \in {"exited", "crashed"} : ChildEnds(d, st)
      PROVE  ExecutorMoves(e)
  <2>1. lst' = lst
    BY <1>4 DEF Progress, PromptFails, WatchdogTells, Answer, ChildEnds
  <2>2. /\ ex'[d].st # "none" /\ ex[d].st # "none" /\ ex'[d].p = ex[d].p
        /\ ex[d].prompt = "no" => ex'[d].prompt = "no"
        /\ \A b \in Execs : b # d => ex'[b] = ex[b]
    BY <1>0, <1>4 DEF Progress, PromptFails, WatchdogTells, Answer, ChildEnds, Executor
  <2>. QED BY <1>0, <2>1, <2>2 DEF ExecutorMoves
<1>5. ASSUME NEW d \in Execs, Listener(d) PROVE ExecutorMoves(e)
  BY <1>0, <1>5 DEF Listener, HearProgress, ProgressUpdate, HearEnd, CompleteUpdate, Take, Hearing,
     ExecutorMoves, Task
<1>6. ASSUME NEW c \in Conns, NEW p \in Packets,
             \/ \E a \in Authors, n \in Needs, s \in Policies : Create(c, p, a, n, s)
             \/ \E a \in People : ApproveCheck(c, p, a)
             \/ RejectCheck(c, p) \/ DispatchCheck(c, p)
      PROVE  ExecutorMoves(e)
  BY <1>1, <1>6 DEF Create, ApproveCheck, RejectCheck, DispatchCheck
<1>7. ASSUME NEW c \in Conns,
             CommandStep(c) \/ SpawnFails(c) \/ \E d \in Execs : Spawn(c, d)
      PROVE  ExecutorMoves(e)
  BY <1>1, <1>2, <1>3, <1>7 DEF SpawnFails
<1>8. CASE RepoMoves \/ UNCHANGED vars
  BY <1>1, <1>8 DEF RepoMoves, vars
<1>. QED BY <1>4, <1>5, <1>6, <1>7, <1>8 DEF Next

\* Only a command of that packet spawns an executor.
LEMMA SpawnedBy ==
  ASSUME Shape, [Next]_vars, NEW e \in Execs, ex[e].st = "none", ex'[e].st # "none"
  PROVE  \E c \in Conns : job[c].pc = "spawn" /\ ex'[e].p = job[c].p /\ job'[c].e = e
<1>0. ex \in [Execs -> Executor] /\ job \in [Conns -> Job]
  BY DEF Shape, Types
<1>1. ASSUME NEW c \in Conns, CommandStep(c) PROVE ex'[e].st = ex[e].st
  <2>1. CASE UNCHANGED ex
    BY <2>1
  <2>2. CASE Send(c)
    BY <1>0, <2>2 DEF Send, Executor
  <2>3. CASE MarkRefused(c) \/ BindRefused(c) \/ FailRefused(c) \/ FailUpdate(c)
    BY <1>0, <2>3 DEF MarkRefused, BindRefused, FailRefused, FailUpdate, CloseStdin, Executor
  <2>. QED BY <1>1, <2>1, <2>2, <2>3 DEF CommandStep, ApproveUpdate, RejectUpdate,
       NotBusy, BusyRefused, Listen, MarkCheck, MarkUpdate, BindCheck, BindUpdate, SendFails,
       FailCheck
<1>2. ASSUME NEW d \in Execs,
             \/ Progress(d) \/ PromptFails(d) \/ WatchdogTells(d) \/ Listener(d)
             \/ \E o \in Outcomes : Answer(d, o)
             \/ \E st \in {"exited", "crashed"} : ChildEnds(d, st)
      PROVE  ex'[e].st = ex[e].st \/ ex[e].st # "none"
  BY <1>0, <1>2 DEF Progress, PromptFails, WatchdogTells, Answer, ChildEnds, Executor, Listener,
     HearProgress, ProgressUpdate, HearEnd, CompleteUpdate, Take
<1>3. ASSUME NEW c \in Conns, NEW d \in Execs, Spawn(c, d)
      PROVE  e # d => ex'[e] = ex[e]
  BY <1>0, <1>3 DEF Spawn
<1>4. ASSUME NEW c \in Conns, Spawn(c, e)
      PROVE  job[c].pc = "spawn" /\ ex'[e].p = job[c].p /\ job'[c].e = e
  BY <1>0, <1>4 DEF Spawn, NoExec, Job
<1>5. ASSUME NEW c \in Conns, NEW p \in Packets,
             \/ \E a \in Authors, n \in Needs, s \in Policies : Create(c, p, a, n, s)
             \/ \E a \in People : ApproveCheck(c, p, a)
             \/ RejectCheck(c, p) \/ DispatchCheck(c, p)
      PROVE  UNCHANGED ex
  BY <1>5 DEF Create, ApproveCheck, RejectCheck, DispatchCheck
<1>6. ASSUME NEW c \in Conns, SpawnFails(c) PROVE UNCHANGED ex
  BY <1>6 DEF SpawnFails
<1>7. ASSUME RepoMoves \/ UNCHANGED vars PROVE UNCHANGED ex
  BY <1>7 DEF RepoMoves, vars
<1>. QED BY <1>1, <1>2, <1>3, <1>4, <1>5, <1>6, <1>7 DEF Next

-------------------------------------------------------------------------------
(* Nobody gets a packet through alone.                                      *)

\* The author signed first and never again, and a history begins with creation.
SignedByOthers ==
  \A p \in Packets :
    IF pkt[p].status = "none" THEN pkt[p].seen = {}
    ELSE /\ Len(pkt[p].signers) >= 1 /\ pkt[p].signers[1] = pkt[p].author
         /\ \A i \in 2..Len(pkt[p].signers) : pkt[p].signers[i] # pkt[p].author

\* Nobody works on a packet that was not created, and who signs is not its author.
Existing ==
  /\ \A c \in Conns : job[c].pc # "idle" => pkt[job[c].p].status # "none"
  /\ \A c \in Conns : job[c].pc = "approve" => job[c].who # pkt[job[c].p].author
  /\ \A e \in Execs : ex[e].st # "none" => pkt[ex[e].p].status # "none"

ApprovedByTwo == \A p \in Packets : "approved" \in pkt[p].seen => Len(pkt[p].signers) >= 2

JointInv == Shape /\ SignedByOthers /\ Existing /\ ApprovedByTwo

\* A packet that exists stays, and keeps its author.
LEMMA PacketStays ==
  ASSUME JointInv, [Next]_vars, NEW p \in Packets, pkt[p].status # "none"
  PROVE  pkt'[p].status # "none" /\ pkt'[p].author = pkt[p].author
         /\ pkt[p].seen \subseteq pkt'[p].seen
BY Moves DEF JointInv, PacketMoves, Kept, Created, Signing, Entered, SameSigners, Ended

LEMMA NextSigned ==
  ASSUME JointInv, [Next]_vars
  PROVE  SignedByOthers' /\ ApprovedByTwo'
<1>1. ASSUME NEW p \in Packets
      PROVE  /\ IF pkt'[p].status = "none" THEN pkt'[p].seen = {}
                ELSE /\ Len(pkt'[p].signers) >= 1 /\ pkt'[p].signers[1] = pkt'[p].author
                     /\ \A i \in 2..Len(pkt'[p].signers) : pkt'[p].signers[i] # pkt'[p].author
             /\ "approved" \in pkt'[p].seen => Len(pkt'[p].signers) >= 2
  <2>0. /\ PacketMoves(p) /\ pkt[p].signers \in Seq(Signers) /\ Len(pkt[p].signers) \in Nat
        /\ IF pkt[p].status = "none" THEN pkt[p].seen = {}
           ELSE /\ Len(pkt[p].signers) >= 1 /\ pkt[p].signers[1] = pkt[p].author
                /\ \A i \in 2..Len(pkt[p].signers) : pkt[p].signers[i] # pkt[p].author
        /\ "approved" \in pkt[p].seen => Len(pkt[p].signers) >= 2
    <3>1. pkt[p].signers \in Seq(Signers)
      BY DEF JointInv, Shape, Types, Packet
    <3>. QED BY <3>1, Moves DEF JointInv, SignedByOthers, ApprovedByTwo
  <2>1. CASE Kept(p)
    BY <2>0, <2>1 DEF Kept, SameSigners
  <2>2. CASE Created(p)
    BY <2>2 DEF Created
  <2>3. CASE Signing(p)
    <3>1. PICK c \in Conns :
            /\ job[c].pc = "approve" /\ job[c].p = p
            /\ pkt'[p].author = pkt[p].author
            /\ pkt'[p].signers = Append(pkt[p].signers, job[c].who)
            /\ \/ pkt'[p].status = pkt[p].status /\ pkt'[p].seen = pkt[p].seen
               \/ /\ pkt'[p].status = "approved"
                  /\ pkt'[p].seen = pkt[p].seen \cup {"approved"}
      BY <2>3 DEF Signing
    <3>2. pkt[p].status # "none" /\ job[c].who # pkt[p].author /\ job[c].who \in Signers
      BY <3>1 DEF JointInv, Existing, Shape, Types, Job
    <3> DEFINE t == pkt'[p].signers
               n == Len(pkt[p].signers)
    <3>3. Len(t) = n + 1 /\ t[n + 1] = job[c].who /\ \A i \in 1..n : t[i] = pkt[p].signers[i]
      BY <2>0, <3>1, <3>2
    <3>4. n \in Nat /\ n >= 1
      BY <2>0, <3>2
    <3>. HIDE DEF t
    <3>5. t[1] = pkt[p].author
      BY <2>0, <3>2, <3>3, <3>4
    <3>6. \A i \in 2..Len(t) : t[i] # pkt[p].author
      <4>1. \A i \in 2..Len(t) : i = n + 1 \/ (i \in 2..n /\ i \in 1..n)
        BY <3>3, <3>4
      <4>. QED BY <2>0, <3>2, <3>3, <4>1
    <3>7. pkt'[p].status # "none"
      BY <3>1, <3>2
    <3>. QED BY <3>1, <3>3, <3>4, <3>5, <3>6, <3>7 DEF t
  <2>4. ASSUME NEW s \in {"rejected", "dispatched", "executing"} \cup Ended, Entered(p, s),
               pkt[p].status # "none"
        PROVE  /\ IF pkt'[p].status = "none" THEN pkt'[p].seen = {}
                  ELSE /\ Len(pkt'[p].signers) >= 1 /\ pkt'[p].signers[1] = pkt'[p].author
                       /\ \A i \in 2..Len(pkt'[p].signers) : pkt'[p].signers[i] # pkt'[p].author
               /\ "approved" \in pkt'[p].seen => Len(pkt'[p].signers) >= 2
    BY <2>0, <2>4 DEF Entered, SameSigners, Ended
  <2>5. \A pcs : "idle" \notin pcs /\ At(p, pcs) => pkt[p].status # "none"
    BY DEF At, JointInv, Existing
  <2>6. Heard(p) => pkt[p].status # "none"
    BY DEF Heard, JointInv, Existing, Shape, ExecShape
  <2>. QED BY <2>0, <2>1, <2>2, <2>3, <2>4, <2>5, <2>6 DEF PacketMoves
<1>. QED BY <1>1 DEF SignedByOthers, ApprovedByTwo

LEMMA NextExisting ==
  ASSUME JointInv, [Next]_vars
  PROVE  Existing'
<1>1. ASSUME NEW c \in Conns, job'[c].pc # "idle"
      PROVE  /\ pkt'[job'[c].p].status # "none"
             /\ job'[c].pc = "approve" => job'[c].who # pkt'[job'[c].p].author
  <2>1. CommandMoves(c)
    BY CommandsMove DEF JointInv
  <2>2. CASE Begins(c)
    BY <2>2 DEF Begins
  <2>3. CASE job'[c] = job[c]
    <3>1. job[c].p \in Packets /\ pkt[job[c].p].status # "none"
      BY <1>1, <2>3 DEF JointInv, Existing, Shape, JobShape
    <3>. QED BY <1>1, <2>3, <3>1, PacketStays DEF JointInv, Existing
  <2>4. CASE Continues(c)
    <3>1. job[c].pc # "idle" /\ job'[c].pc # "approve" /\ job'[c].p = job[c].p
      BY <2>4, <1>1 DEF Continues, Before, JointInv, Shape, Types, Job, Early, Late
    <3>2. job[c].p \in Packets /\ pkt[job[c].p].status # "none"
      BY <3>1 DEF JointInv, Existing, Shape, JobShape
    <3>. QED BY <3>1, <3>2, PacketStays
  <2>. QED BY <1>1, <2>1, <2>2, <2>3, <2>4 DEF CommandMoves
<1>2. ASSUME NEW e \in Execs, ex'[e].st # "none" PROVE pkt'[ex'[e].p].status # "none"
  <2>1. CASE ex[e].st # "none"
    <3>1. ex'[e].p = ex[e].p
      BY <2>1, ExecutorsMove DEF JointInv, ExecutorMoves
    <3>2. ex[e].p \in Packets /\ pkt[ex[e].p].status # "none"
      BY <2>1 DEF JointInv, Existing, Shape, ExecShape
    <3>. QED BY <3>1, <3>2, PacketStays
  <2>2. CASE ex[e].st = "none"
    <3>1. PICK c \in Conns : job[c].pc = "spawn" /\ ex'[e].p = job[c].p
      BY <1>2, <2>2, SpawnedBy DEF JointInv
    <3>2. job[c].p \in Packets /\ pkt[job[c].p].status # "none"
      BY <3>1 DEF JointInv, Existing, Shape, JobShape
    <3>. QED BY <3>1, <3>2, PacketStays
  <2>. QED BY <2>1, <2>2
<1>. QED BY <1>1, <1>2 DEF Existing

\* Two different signatures are enough for any packet.
LEMMA TwoSign ==
  ASSUME JointInv, NEW p \in Packets, "approved" \in pkt[p].seen
  PROVE  Cardinality(Signed(p)) >= pkt[p].need /\ \E s \in Signed(p) : s # pkt[p].author
<1> DEFINE g == pkt[p].signers
<1>1. /\ g \in Seq(Signers) /\ Len(g) \in Nat /\ DOMAIN g = 1..Len(g) /\ pkt[p].need \in {0, 1, 2}
  <2>1. pkt[p] \in Packet
    BY DEF JointInv, Shape, Types
  <2>2. g \in Seq(Signers) /\ pkt[p].need \in {0, 1, 2}
    BY <2>1 DEF Packet
  <2>. QED BY <2>2
<1>2. Len(g) >= 2 /\ g[1] = pkt[p].author /\ g[2] # pkt[p].author
  BY <1>1 DEF JointInv, ApprovedByTwo, SignedByOthers
<1>3. g[1] \in Signed(p) /\ g[2] \in Signed(p)
  BY <1>1, <1>2 DEF Signed
<1>4. IsFiniteSet(Signed(p))
  <2>1. g \in [1..Len(g) -> Signed(p)] /\ \A t \in Signed(p) : \E i \in 1..Len(g) : g[i] = t
    BY <1>1 DEF Signed
  <2>2. g \in Surjection(1..Len(g), Signed(p))
    BY <2>1 DEF Surjection
  <2>. QED BY <1>1, <2>2, FS_Interval, FS_Surjection
<1>5. Cardinality({g[1], g[2]}) = 2 /\ IsFiniteSet({g[1], g[2]})
  <2>1. IsFiniteSet({g[1]}) /\ Cardinality({g[1]}) = 1
    BY FS_Singleton
  <2>2. {g[1]} \cup {g[2]} = {g[1], g[2]} /\ g[2] \notin {g[1]}
    BY <1>2
  <2>. HIDE DEF g
  <2>3. IsFiniteSet({g[1]} \cup {g[2]})
        /\ Cardinality({g[1]} \cup {g[2]}) = Cardinality({g[1]}) + 1
    BY <2>1, <2>2, FS_AddElement, Zenon
  <2>. QED BY <2>1, <2>2, <2>3
<1>6. Cardinality(Signed(p)) >= 2
  <2>1. {g[1], g[2]} \in SUBSET Signed(p)
    BY <1>3
  <2>2. Cardinality({g[1], g[2]}) <= Cardinality(Signed(p)) /\ Cardinality(Signed(p)) \in Nat
    BY <1>4, <2>1, FS_Subset, FS_CardinalityType
  <2>. QED BY <1>5, <2>2
<1>7. Cardinality(Signed(p)) \in Nat
  BY <1>4, FS_CardinalityType
<1>. QED BY <1>1, <1>2, <1>3, <1>6, <1>7

LEMMA InitJoint == Init => JointInv
BY InitShape DEF Init, JointInv, SignedByOthers, Existing, ApprovedByTwo, NoPacket, NoJob, NoExec

LEMMA NextJoint == JointInv /\ [Next]_vars => JointInv'
BY NextShape, NextSigned, NextExisting DEF JointInv

\* An approved packet carries the signatures it requires, one of them not its
\* author's, although approve_handoff checks before the update: two approvals of
\* one person that race are both recorded but count once.
THEOREM ApprovedJointly == Spec => []ApprovalIsJoint
<1>1. JointInv => ApprovalIsJoint
  BY TwoSign DEF ApprovalIsJoint
<1>. QED BY InitJoint, NextJoint, <1>1, PTL DEF Spec

-------------------------------------------------------------------------------
(* An outcome follows a dispatch.                                           *)

Approving == {"busy", "spawn", "listen", "mark", "marking"}

Dispatching == {"bind", "binding", "send", "fail", "failing"}

\* What a packet's history says at each stage of its dispatch.
StagesSeen ==
  /\ \A p \in Packets : pkt[p].status # "none" => pkt[p].status \in pkt[p].seen
  /\ \A c \in Conns :
       /\ job[c].pc \in Approving => "approved" \in pkt[job[c].p].seen
       /\ job[c].pc \in Dispatching => "dispatched" \in pkt[job[c].p].seen
       /\ job[c].pc \in {"send", "fail", "failing"} => "executing" \in pkt[job[c].p].seen
  /\ \A e \in Execs : lst[e].pc = "complete" => "dispatched" \in pkt[ex[e].p].seen

StageInv == JointInv /\ StagesSeen /\ OutcomeFollowsDispatch

LEMMA NextHistory ==
  ASSUME StageInv, [Next]_vars, NEW p \in Packets
  PROVE  /\ pkt'[p].status # "none" => pkt'[p].status \in pkt'[p].seen
         /\ pkt'[p].seen \cap (Ended \cup {"executing"}) # {} => "dispatched" \in pkt'[p].seen
         /\ "dispatched" \in pkt'[p].seen => "approved" \in pkt'[p].seen
<1>1. PacketMoves(p)
  BY Moves DEF StageInv, JointInv
<1>2. /\ pkt[p].status # "none" => pkt[p].status \in pkt[p].seen
      /\ pkt[p].seen \cap (Ended \cup {"executing"}) # {} => "dispatched" \in pkt[p].seen
      /\ "dispatched" \in pkt[p].seen => "approved" \in pkt[p].seen
      /\ \A pcs : At(p, pcs) /\ pcs \subseteq Approving => "approved" \in pkt[p].seen
      /\ \A pcs : At(p, pcs) /\ pcs \subseteq Dispatching => "dispatched" \in pkt[p].seen
      /\ Heard(p) => "dispatched" \in pkt[p].seen
  BY DEF StageInv, StagesSeen, OutcomeFollowsDispatch, At, Heard
<1>3. CASE Kept(p) \/ Created(p) \/ Signing(p)
  BY <1>2, <1>3 DEF Kept, Created, Signing, Ended
<1>4. CASE At(p, {"reject"}) /\ Entered(p, "rejected")
  BY <1>2, <1>4 DEF Entered, Ended
<1>5. CASE At(p, {"marking"}) /\ Entered(p, "dispatched")
  BY <1>2, <1>5 DEF Entered, Ended, Approving
<1>6. CASE At(p, {"binding"}) /\ Entered(p, "executing")
  BY <1>2, <1>6 DEF Entered, Ended, Dispatching
<1>7. ASSUME NEW s \in Ended, At(p, {"failing"}) \/ Heard(p), Entered(p, s)
      PROVE  /\ pkt'[p].status # "none" => pkt'[p].status \in pkt'[p].seen
             /\ pkt'[p].seen \cap (Ended \cup {"executing"}) # {} => "dispatched" \in pkt'[p].seen
             /\ "dispatched" \in pkt'[p].seen => "approved" \in pkt'[p].seen
  BY <1>2, <1>7 DEF Entered, Ended, Dispatching
<1>. QED BY <1>1, <1>3, <1>4, <1>5, <1>6, <1>7 DEF PacketMoves

LEMMA NextStages ==
  ASSUME StageInv, [Next]_vars, NEW c \in Conns
  PROVE  /\ job'[c].pc \in Approving => "approved" \in pkt'[job'[c].p].seen
         /\ job'[c].pc \in Dispatching => "dispatched" \in pkt'[job'[c].p].seen
         /\ job'[c].pc \in {"send", "fail", "failing"} => "executing" \in pkt'[job'[c].p].seen
<1>1. CommandMoves(c)
  BY CommandsMove DEF StageInv, JointInv
<1>2. CASE job'[c].pc = "idle"
  BY <1>2 DEF Approving, Dispatching
<1>3. CASE Begins(c)
  BY <1>3 DEF Begins, Approving, Dispatching, StageInv, StagesSeen
<1>4. ASSUME job[c].pc # "idle", job'[c].p = job[c].p
      PROVE  pkt[job[c].p].seen \subseteq pkt'[job'[c].p].seen
  BY <1>4, PacketStays DEF StageInv, JointInv, Existing, Shape, JobShape
<1>5. CASE job'[c] = job[c]
  BY <1>4, <1>5 DEF Approving, Dispatching, StageInv, StagesSeen
<1>6. CASE Continues(c)
  <2>1. pkt[job[c].p].seen \subseteq pkt'[job'[c].p].seen
    <3>1. job[c].pc = Before(job'[c].pc)
      BY <1>6 DEF Continues
    <3>2. job[c].pc # "idle"
      BY <3>1 DEF Before
    <3>. QED BY <1>4, <1>6, <3>2 DEF Continues
  <2>2. /\ job'[c].pc \in Approving => job[c].pc \in Approving
        /\ job'[c].pc \in Dispatching => job'[c].pc = "bind" \/ job[c].pc \in Dispatching
        /\ job'[c].pc \in {"send", "fail", "failing"} =>
             job'[c].pc = "send" \/ job[c].pc \in {"send", "fail", "failing"}
    <3>1. job[c].pc = Before(job'[c].pc) /\ job[c].pc \in Early \cup Late
      BY <1>6 DEF Continues, StageInv, JointInv, Shape, Types, Job
    <3>. QED BY <3>1 DEF Before, Approving, Dispatching, Early, Late
  <2>. QED BY <1>2, <1>6, <2>1, <2>2 DEF Continues, StageInv, StagesSeen
<1>. QED BY <1>1, <1>2, <1>3, <1>5, <1>6 DEF CommandMoves

LEMMA NextExecutors ==
  ASSUME StageInv, [Next]_vars, NEW e \in Execs
  PROVE  /\ lst'[e].pc = "complete" => "dispatched" \in pkt'[ex'[e].p].seen
         /\ ex'[e].prompt # "no" => "executing" \in pkt'[ex'[e].p].seen
<1>1. ExecutorMoves(e)
  BY ExecutorsMove DEF StageInv, JointInv
<1>2. ex[e].st # "none" => /\ ex[e].p \in Packets /\ ex'[e].p = ex[e].p
                           /\ pkt[ex[e].p].seen \subseteq pkt'[ex'[e].p].seen
  BY <1>1, PacketStays DEF ExecutorMoves, StageInv, JointInv, Existing, Shape, ExecShape
<1>3. ASSUME ex[e].st # "none", pkt[ex[e].p].status \in Active
      PROVE  "dispatched" \in pkt[ex[e].p].seen
  <2>1. ex[e].p \in Packets
    BY <1>2, <1>3
  <2>2. pkt[ex[e].p].status \in pkt[ex[e].p].seen
    BY <1>3, <2>1 DEF StageInv, StagesSeen, Active
  <2>. QED BY <1>3, <2>1, <2>2 DEF Active, StageInv, OutcomeFollowsDispatch
<1>4. ASSUME lst'[e].pc = "complete" PROVE "dispatched" \in pkt'[ex'[e].p].seen
  BY <1>1, <1>2, <1>3, <1>4 DEF ExecutorMoves, StageInv, StagesSeen
<1>5. ASSUME ex'[e].prompt # "no" PROVE "executing" \in pkt'[ex'[e].p].seen
  <2>1. CASE ex[e].prompt # "no"
    BY <1>1, <1>2, <2>1 DEF ExecutorMoves, StageInv, OutcomeFollowsDispatch
  <2>2. CASE ex[e].prompt = "no"
    <3>1. PICK c \in Conns : job[c].pc = "send" /\ job[c].e = e
      BY <1>1, <1>5, <2>2 DEF ExecutorMoves
    <3>2. "executing" \in pkt[job[c].p].seen /\ ex[e].p = job[c].p /\ ex[e].st # "none"
      BY <3>1 DEF StageInv, StagesSeen, JointInv, Shape, JobShape, Late
    <3>. QED BY <1>2, <3>2
  <2>. QED BY <2>1, <2>2
<1>. QED BY <1>4, <1>5

\* A packet has an outcome, or an executor that was sent its work, only after it
\* was dispatched, and it is dispatched only after it was approved, whatever
\* happens between the check and the update of each operation of HandoffService.
THEOREM DispatchPrecedesOutcome == Spec => []OutcomeFollowsDispatch
<1>1. Init => StageInv
  BY InitJoint DEF Init, StageInv, StagesSeen, OutcomeFollowsDispatch, NoPacket, NoJob, NoExec,
     Approving, Dispatching
<1>2. StageInv /\ [Next]_vars => StageInv'
  <2>. SUFFICES ASSUME StageInv, [Next]_vars PROVE StageInv'
    OBVIOUS
  <2>1. JointInv'
    BY NextJoint DEF StageInv
  <2>2. StagesSeen'
    BY NextHistory, NextStages, NextExecutors DEF StagesSeen
  <2>3. OutcomeFollowsDispatch'
    BY NextHistory, NextExecutors DEF OutcomeFollowsDispatch
  <2>. QED BY <2>1, <2>2, <2>3 DEF StageInv
<1>3. StageInv => OutcomeFollowsDispatch
  BY DEF StageInv
<1>. QED BY <1>1, <1>2, <1>3, PTL DEF Spec

-------------------------------------------------------------------------------
(* A refused executor is told to stop.                                      *)

Held(e) == \E c \in Conns : job[c].e = e

\* An executor leaves its command with its prompt sent or its stdin closed, and
\* neither is ever undone.
Release(e) ==
  /\ agent' = agent
  /\ Held(e) => Held(e)' \/ ex'[e].prompt # "no" \/ ~ex'[e].open
  /\ ex[e].st # "none" =>
       /\ ex'[e].st = "up" => ex[e].st = "up"
       /\ ex[e].prompt # "no" => ex'[e].prompt # "no"
       /\ ~ex[e].open => ~ex'[e].open

LEMMA Releases ==
  ASSUME Shape, [Next]_vars, NEW e \in Execs
  PROVE  Release(e)
<1>0. /\ ex \in [Execs -> Executor] /\ job \in [Conns -> Job]
      /\ \A c \in Conns : job[c].pc \in Early => job[c].e # e
      /\ \A c \in Conns : job[c].pc \in Late => job[c].e \in Execs
  BY HandoffAssumption DEF Shape, Types, JobShape, Execs
<1>1. ASSUME UNCHANGED <<ex, agent>>, \A c \in Conns : job'[c].e = job[c].e \/ job[c].e # e
      PROVE  Release(e)
  BY <1>1 DEF Release, Held
<1>2. ASSUME NEW c \in Conns, CommandStep(c) PROVE Release(e)
  <2>1. CASE ApproveUpdate(c) \/ RejectUpdate(c) \/ BusyRefused(c)
    <3>1. job[c].e # e
      BY <1>0, <2>1 DEF ApproveUpdate, RejectUpdate, BusyRefused, Early
    <3>. QED BY <1>0, <1>1, <2>1, <3>1 DEF ApproveUpdate, RejectUpdate, BusyRefused, Done, repo
  <2>2. CASE \/ NotBusy(c) \/ Listen(c) \/ MarkCheck(c) \/ MarkUpdate(c) \/ BindCheck(c)
             \/ BindUpdate(c) \/ SendFails(c) \/ FailCheck(c)
    <3>1. \A b \in Conns : job'[b].e = job[b].e
      BY <1>0, <2>2 DEF NotBusy, Listen, MarkCheck, MarkUpdate, BindCheck, BindUpdate, SendFails,
         FailCheck, Goto, Job
    <3>. QED BY <1>1, <2>2, <3>1 DEF NotBusy, Listen, MarkCheck, MarkUpdate, BindCheck,
         BindUpdate, SendFails, FailCheck, repo
  <2>3. CASE Send(c)
    <3>1. /\ job[c].e \in Execs /\ agent' = agent
          /\ ex'[job[c].e].prompt = "sent" /\ ex'[job[c].e].st = ex[job[c].e].st
          /\ ex'[job[c].e].open = ex[job[c].e].open
          /\ \A d \in Execs : d # job[c].e => ex'[d] = ex[d]
          /\ \A b \in Conns : b # c => job'[b] = job[b]
      BY <1>0, <2>3 DEF Send, Done, Executor, Late, repo
    <3>. QED BY <3>1 DEF Release, Held
  <2>4. CASE MarkRefused(c) \/ BindRefused(c) \/ FailRefused(c) \/ FailUpdate(c)
    <3>1. CloseStdin(job[c].e) /\ Done(c) /\ agent' = agent /\ job[c].e \in Execs
      BY <1>0, <2>4 DEF MarkRefused, BindRefused, FailRefused, FailUpdate, Late, repo
    <3>2. /\ ~ex'[job[c].e].open
          /\ \A d \in Execs : /\ ex'[d].st = ex[d].st /\ ex'[d].prompt = ex[d].prompt
                              /\ ~ex[d].open => ~ex'[d].open
          /\ \A b \in Conns : b # c => job'[b] = job[b]
      BY <1>0, <3>1 DEF CloseStdin, Done, Executor
    <3>. QED BY <3>1, <3>2 DEF Release, Held
  <2>. QED BY <1>2, <2>1, <2>2, <2>3, <2>4 DEF CommandStep
<1>3. ASSUME NEW c \in Conns, NEW d \in Execs, Spawn(c, d) PROVE Release(e)
  <2>1. /\ ex[d].st = "none" /\ agent' = agent /\ job[c].e # e
        /\ \A b \in Execs : b # d => ex'[b] = ex[b]
        /\ \A b \in Conns : b # c => job'[b] = job[b]
    BY <1>0, <1>3 DEF Spawn, Early, repo
  <2>. QED BY <2>1 DEF Release, Held
<1>4. ASSUME NEW d \in Execs,
             \/ Progress(d) \/ PromptFails(d) \/ WatchdogTells(d)
             \/ \E o \in Outcomes : Answer(d, o)
             \/ \E st \in {"exited", "crashed"} : ChildEnds(d, st)
      PROVE  Release(e)
  <2>1. job' = job /\ agent' = agent
    BY <1>4 DEF Progress, PromptFails, WatchdogTells, Answer, ChildEnds, repo
  <2>2. /\ ex'[e].st = "up" => ex[e].st = "up"
        /\ ex[e].prompt # "no" => ex'[e].prompt # "no"
        /\ ~ex[e].open => ~ex'[e].open
    BY <1>0, <1>4 DEF Progress, PromptFails, WatchdogTells, Answer, ChildEnds, Executor
  <2>. QED BY <2>1, <2>2 DEF Release, Held
<1>5. ASSUME NEW d \in Execs, Listener(d) PROVE Release(e)
  BY <1>1, <1>5 DEF Listener, HearProgress, ProgressUpdate, HearEnd, CompleteUpdate, Take, repo
<1>6. ASSUME NEW c \in Conns, NEW p \in Packets,
             \/ \E a \in Authors, n \in Needs, s \in Policies : Create(c, p, a, n, s)
             \/ \E a \in People : ApproveCheck(c, p, a)
             \/ RejectCheck(c, p) \/ DispatchCheck(c, p)
      PROVE  Release(e)
  <2>1. UNCHANGED <<ex, agent>> /\ \A b \in Conns : job'[b] = job[b] \/ job[b].pc = "idle"
    BY <1>0, <1>6 DEF Create, ApproveCheck, RejectCheck, DispatchCheck, Begin, repo
  <2>. QED BY <1>0, <1>1, <2>1 DEF Early
<1>7. ASSUME NEW c \in Conns, SpawnFails(c) PROVE Release(e)
  <2>1. job[c].e # e
    BY <1>0, <1>7 DEF SpawnFails, Early
  <2>. QED BY <1>0, <1>1, <1>7, <2>1 DEF SpawnFails, Done, repo
<1>8. ASSUME NEW c \in Conns,
             CommandStep(c) \/ SpawnFails(c) \/ \E d \in Execs : Spawn(c, d)
      PROVE  Release(e)
  BY <1>2, <1>3, <1>7, <1>8
<1>9. CASE RepoMoves \/ UNCHANGED vars
  BY <1>1, <1>9 DEF RepoMoves, vars
<1>. QED BY <1>4, <1>5, <1>6, <1>8, <1>9 DEF Next

\* A line executor whose dispatch was refused after it had been spawned is told
\* to stop: every way out of the dispatch arm sends the prompt or closes stdin.
\* Of an ACP executor, which has no stdin to close, it says nothing.
THEOREM RefusedAreClosed == Spec => []RefusedIsClosed
<1>1. Init => Shape /\ RefusedIsClosed
  BY InitShape DEF Init, RefusedIsClosed, NoExec
<1>2. Shape /\ RefusedIsClosed /\ [Next]_vars => RefusedIsClosed'
  <2>. SUFFICES ASSUME Shape, RefusedIsClosed, [Next]_vars, NEW e \in Execs,
                       ex'[e].st = "up", agent' = "line", ~Held(e)'
                PROVE  ex'[e].prompt # "no" \/ ~ex'[e].open
    BY DEF RefusedIsClosed, Held
  <2>1. Release(e)
    BY Releases
  <2>2. CASE ex[e].st = "none"
    BY <2>2, SpawnedBy DEF Held
  <2>3. CASE ex[e].st # "none"
    BY <2>1, <2>3 DEF Release, Held, RefusedIsClosed
  <2>. QED BY <2>2, <2>3
<1>. QED BY <1>1, <1>2, NextShape, PTL DEF Spec
=============================================================================
