------------------------------- MODULE Handoff -------------------------------
(****************************************************************************)
(* Handoff packets: work an assessor hands to an executor session.          *)
(*                                                                          *)
(* A packet is created, approved or rejected by people, dispatched to a     *)
(* freshly spawned executor session and completed by what that session      *)
(* reports (handoff/mod.rs, handoff/registry.rs, the handoff.* arms of      *)
(* translator/mod.rs).  Packets live in a concurrent map.  Every operation  *)
(* of HandoffService reads a copy of the packet, checks it, and only then   *)
(* calls update(), which locks the entry and writes without checking again; *)
(* commands of different connections and the listener tasks that follow     *)
(* executors run on different threads, so each operation is two steps here. *)
(* dispatch_local also waits for the executor to spawn in between.          *)
(*                                                                          *)
(* All packets name one executor profile and one project: nothing crosses   *)
(* profiles.  A commit stands for what the pin records of the repository.   *)
(* state_history is kept as the set of statuses it mentions, so             *)
(* record_dispatch_rejected, which only appends a note, changes nothing.    *)
(* Checks that fail and only acknowledge an error take no step.             *)
(****************************************************************************)
EXTENDS Naturals, Sequences, FiniteSets

CONSTANTS
  Packets,      \* packet ids
  People,       \* canonical signer ids
  Authors,      \* those of them who create packets
  Policies,     \* values of a pin's `strict`
  Needs,        \* values of required_signers
  Conns,        \* connections that send handoff commands
  Agents,       \* kinds the default agent may have: "acp", "line"
  MaxExec,      \* bound: executor sessions spawned
  MaxHead,      \* bound: commits of the project
  MaxProgress,  \* bound: progress events per executor
  EvCap         \* capacity of an executor's broadcast channel

ASSUME HandoffAssumption ==
  /\ Authors \subseteq People /\ Policies \subseteq BOOLEAN
  /\ Needs \subseteq {1, 2}
  /\ Agents \subseteq {"acp", "line"}
  /\ MaxExec \in Nat \ {0} /\ MaxHead \in Nat /\ MaxProgress \in Nat /\ EvCap \in Nat \ {0}

VARIABLES
  pkt,        \* HandoffRegistry.packets
  job,        \* the handoff command each connection is executing
  ex,         \* executor sessions
  q,          \* events broadcast by each executor, not yet received
  lst,        \* the listener task of each executor
  head,       \* the project's current commit
  agent       \* kind of the default agent, which every executor runs

vars == <<pkt, job, ex, q, lst, head, agent>>
repo == <<head, agent>>                 \* what handoff commands only read

Execs == 1..MaxExec
Active == {"dispatched", "executing"}
Ended == {"completed", "failed"}
Outcomes == {"completed", "failed"}

NoPacket ==
  [status |-> "none", author |-> "nobody", signers |-> << >>, need |-> 0, pin |-> 0,
   strict |-> FALSE, exec |-> 0, seen |-> {}]
NoJob == [pc |-> "idle", p |-> "none", who |-> "nobody", e |-> 0]
NoExec ==
  [st |-> "none", p |-> "none", open |-> FALSE, prompt |-> "no",
   progress |-> 0, said |-> FALSE]

Init ==
  /\ pkt = [p \in Packets |-> NoPacket]
  /\ job = [c \in Conns |-> NoJob]
  /\ ex = [e \in Execs |-> NoExec]
  /\ q = [e \in Execs |-> << >>]
  /\ lst = [e \in Execs |-> [pc |-> "none", ev |-> "none"]]
  /\ head = 0 /\ agent \in Agents

\* registry.update: the state recorded in status is also pushed on the history.
Enter(p, s) == [pkt[p] EXCEPT !.status = s, !.seen = @ \cup {s}]
SetPacket(p, r) == pkt' = [pkt EXCEPT ![p] = r]

Begin(c, pc, p, who) == job' = [job EXCEPT ![c] = [NoJob EXCEPT !.pc = pc, !.p = p, !.who = who]]
Goto(c, pc) == job' = [job EXCEPT ![c].pc = pc]
Done(c) == job' = [job EXCEPT ![c] = NoJob]

-----------------------------------------------------------------------------
(* Creation, approval, rejection.                                           *)

\* Mutant: the author's own signature is not recorded.
Signatures_empty(author) == << >>

\* create_handoff records the author as the first signer.
Signatures(author) == <<author>>

\* handoff.create: the id is fresh and the payload valid; two signatures are
\* required when a task or the target profile asks for two_party, else one.
Create(c, p, author, need, strict) ==
  /\ job[c].pc = "idle"
  /\ pkt[p].status = "none"
  /\ SetPacket(p, [status |-> "pending_approval", author |-> author,
                   signers |-> Signatures(author), need |-> need,
                   pin |-> head, strict |-> strict, exec |-> 0,
                   seen |-> {"draft", "pending_approval"}])
  /\ UNCHANGED <<job, ex, q, lst, repo>>

Signed(p) == {pkt[p].signers[i] : i \in DOMAIN pkt[p].signers}

\* approve_handoff: the checks on the copy.
ApproveCheck(c, p, who) ==
  /\ job[c].pc = "idle"
  /\ who # pkt[p].author
  /\ pkt[p].status = "pending_approval"
  /\ who \notin Signed(p)
  /\ Begin(c, "approve", p, who)
  /\ UNCHANGED <<pkt, ex, q, lst, repo>>

\* approve_handoff: the update.  Only the flip of the status looks again.
ApproveUpdate(c) ==
  LET p == job[c].p
      signers == Append(pkt[p].signers, job[c].who)
      now == IF pkt[p].status = "pending_approval" /\ Len(signers) >= pkt[p].need
             THEN Enter(p, "approved") ELSE pkt[p]
  IN  /\ job[c].pc = "approve"
      /\ SetPacket(p, [now EXCEPT !.signers = signers])
      /\ Done(c)
      /\ UNCHANGED <<ex, q, lst, repo>>

RejectCheck(c, p) ==
  /\ job[c].pc = "idle"
  /\ pkt[p].status = "pending_approval"
  /\ Begin(c, "reject", p, "nobody")
  /\ UNCHANGED <<pkt, ex, q, lst, repo>>

RejectUpdate(c) ==
  /\ job[c].pc = "reject"
  /\ SetPacket(job[c].p, Enter(job[c].p, "rejected"))
  /\ Done(c)
  /\ UNCHANGED <<ex, q, lst, repo>>

-----------------------------------------------------------------------------
(* handoff.dispatch_local.                                                  *)

\* The project is a git repository, so the pin is complete; a pin past its
\* expires_at refuses a dispatch like one that drifted.
PinHolds(p) == pkt[p].strict => pkt[p].pin = head

\* check_dispatch.
DispatchCheck(c, p) ==
  /\ job[c].pc = "idle"
  /\ pkt[p].status = "approved" /\ PinHolds(p)
  /\ Begin(c, "busy", p, "nobody")
  /\ UNCHANGED <<pkt, ex, q, lst, repo>>

\* active_executor_packet: same profile, and the same commit in the pin.
Busy(p) == \E r \in Packets : pkt[r].status \in Active /\ pkt[r].pin = pkt[p].pin

NotBusy(c) ==
  /\ job[c].pc = "busy" /\ ~Busy(job[c].p)
  /\ Goto(c, "spawn")
  /\ UNCHANGED <<pkt, ex, q, lst, repo>>

BusyRefused(c) ==
  /\ job[c].pc = "busy" /\ Busy(job[c].p)
  /\ Done(c)
  /\ UNCHANGED <<pkt, ex, q, lst, repo>>

\* sessions.create_with_agent_and_workflow(..).await
Spawn(c, e) ==
  /\ job[c].pc = "spawn"
  /\ ex[e].st = "none"
  /\ \A d \in Execs : d < e => ex[d].st # "none"
  /\ ex' = [ex EXCEPT ![e] = [NoExec EXCEPT !.st = "up", !.p = job[c].p,
                                            !.open = (agent = "line")]]
  /\ job' = [job EXCEPT ![c].pc = "listen", ![c].e = e]
  /\ UNCHANGED <<pkt, q, lst, repo>>

SpawnFails(c) ==
  /\ job[c].pc = "spawn"
  /\ Done(c)
  /\ UNCHANGED <<pkt, ex, q, lst, repo>>

\* broadcast.subscribe(), then the listener task is spawned: what the executor
\* said before is not heard.
Listen(c) ==
  /\ job[c].pc = "listen"
  /\ lst' = [lst EXCEPT ![job[c].e].pc = "on"]
  /\ Goto(c, "mark")
  /\ UNCHANGED <<pkt, ex, q, repo>>

\* close_stdin: an ACP handle has no stdin of its own and nothing happens.
CloseStdin(e) == ex' = [ex EXCEPT ![e].open = FALSE]

\* mark_dispatched: the check, the update, and the way out when it refuses.
MarkCheck(c) ==
  /\ job[c].pc = "mark" /\ pkt[job[c].p].status = "approved"
  /\ Goto(c, "marking")
  /\ UNCHANGED <<pkt, ex, q, lst, repo>>

\* Mutant: the executor of a refused dispatch is left as it is.
MarkRefused_no_close(c) ==
  /\ job[c].pc = "mark" /\ pkt[job[c].p].status # "approved"
  /\ Done(c)
  /\ UNCHANGED <<pkt, ex, q, lst, repo>>

MarkRefused(c) ==
  /\ job[c].pc = "mark" /\ pkt[job[c].p].status # "approved"
  /\ CloseStdin(job[c].e)
  /\ Done(c)
  /\ UNCHANGED <<pkt, q, lst, repo>>

MarkUpdate(c) ==
  /\ job[c].pc = "marking"
  /\ SetPacket(job[c].p, Enter(job[c].p, "dispatched"))
  /\ Goto(c, "bind")
  /\ UNCHANGED <<ex, q, lst, repo>>

\* bind_executor_session.
BindCheck(c) ==
  /\ job[c].pc = "bind" /\ pkt[job[c].p].status = "dispatched"
  /\ Goto(c, "binding")
  /\ UNCHANGED <<pkt, ex, q, lst, repo>>

BindRefused(c) ==
  /\ job[c].pc = "bind" /\ pkt[job[c].p].status # "dispatched"
  /\ CloseStdin(job[c].e)
  /\ Done(c)
  /\ UNCHANGED <<pkt, q, lst, repo>>

BindUpdate(c) ==
  /\ job[c].pc = "binding"
  /\ SetPacket(job[c].p, [Enter(job[c].p, "executing") EXCEPT !.exec = job[c].e])
  /\ Goto(c, "send")
  /\ UNCHANGED <<ex, q, lst, repo>>

\* send_client_command: an ACP prompt is queued and fails later; a line is
\* written to the child's stdin and fails here when the child is gone.
Send(c) ==
  LET e == job[c].e
  IN  /\ job[c].pc = "send"
      /\ agent = "acp" \/ ex[e].st = "up"
      /\ ex' = [ex EXCEPT ![e].prompt = "sent"]
      /\ Done(c)
      /\ UNCHANGED <<pkt, q, lst, repo>>

SendFails(c) ==
  /\ job[c].pc = "send"
  /\ agent = "line" /\ ex[job[c].e].st # "up"
  /\ Goto(c, "fail")
  /\ UNCHANGED <<pkt, ex, q, lst, repo>>

\* The dispatch arm's own complete_execution("failed"), then close_stdin.
FailCheck(c) ==
  /\ job[c].pc = "fail" /\ pkt[job[c].p].status \in Active
  /\ Goto(c, "failing")
  /\ UNCHANGED <<pkt, ex, q, lst, repo>>

FailRefused(c) ==
  /\ job[c].pc = "fail" /\ pkt[job[c].p].status \notin Active
  /\ CloseStdin(job[c].e)
  /\ Done(c)
  /\ UNCHANGED <<pkt, q, lst, repo>>

FailUpdate(c) ==
  /\ job[c].pc = "failing"
  /\ SetPacket(job[c].p, [Enter(job[c].p, "failed") EXCEPT !.exec = job[c].e])
  /\ CloseStdin(job[c].e)
  /\ Done(c)
  /\ UNCHANGED <<q, lst, repo>>

-----------------------------------------------------------------------------
(* The executor session and its watchdog.                                   *)

\* emit_to the session's broadcast: only a subscribed listener gets it, and a
\* full channel drops its oldest event (the listener sees Lagged and goes on).
Emit(e, ev) ==
  /\ lst[e].pc \notin {"none", "off"}
  /\ q' = [q EXCEPT ![e] = Append(IF Len(@) = EvCap THEN Tail(@) ELSE @, ev)]

EmitTo(e, ev) ==
  \/ Emit(e, ev)
  \/ lst[e].pc \in {"none", "off"} /\ UNCHANGED q

\* handoff.execution_progress
Progress(e) ==
  /\ ex[e].st = "up" /\ ex[e].prompt = "sent" /\ ex[e].progress < MaxProgress
  /\ ex' = [ex EXCEPT ![e].progress = @ + 1]
  /\ EmitTo(e, "progress")
  /\ UNCHANGED <<pkt, job, lst, repo>>

\* transcript.completed, handoff.completed / failed, or a terminal handoff.status
Answer(e, outcome) ==
  /\ ex[e].st = "up" /\ ex[e].prompt = "sent"
  /\ ex' = [ex EXCEPT ![e].prompt = "done"]
  /\ EmitTo(e, outcome)
  /\ UNCHANGED <<pkt, job, lst, repo>>

\* The spawned prompt task of an ACP session finds the agent gone.
PromptFails(e) ==
  /\ agent = "acp" /\ ex[e].st \in {"exited", "crashed"} /\ ex[e].prompt = "sent"
  /\ ex' = [ex EXCEPT ![e].prompt = "done"]
  /\ EmitTo(e, "failed")
  /\ UNCHANGED <<pkt, job, lst, repo>>

ChildEnds(e, st) ==
  /\ ex[e].st = "up"
  /\ ex' = [ex EXCEPT ![e].st = st]
  /\ UNCHANGED <<pkt, job, q, lst, repo>>

\* Mutant: a crash is not announced.
WatchdogTells_silent(e) ==
  /\ ex[e].st = "crashed" /\ ~ex[e].said
  /\ ex' = [ex EXCEPT ![e].said = TRUE]
  /\ UNCHANGED <<pkt, job, q, lst, repo>>

\* The watchdog announces a crash with transcript.error; a clean exit it does not.
WatchdogTells(e) ==
  /\ ex[e].st = "crashed" /\ ~ex[e].said
  /\ ex' = [ex EXCEPT ![e].said = TRUE]
  /\ EmitTo(e, "failed")
  /\ UNCHANGED <<pkt, job, lst, repo>>

-----------------------------------------------------------------------------
(* The listener task: relay_executor_event for every event received.  It    *)
(* also ends when the channel is closed, which is when nothing more comes.  *)

Take(e, pc, ev) ==
  /\ lst' = [lst EXCEPT ![e] = [pc |-> pc, ev |-> ev]]
  /\ q' = [q EXCEPT ![e] = Tail(@)]
  /\ UNCHANGED <<pkt, job, ex, repo>>

Hearing(e) == lst[e].pc = "on" /\ q[e] # << >>

\* record_execution_progress: check and update.
HearProgress(e) ==
  /\ Hearing(e) /\ Head(q[e]) = "progress"
  /\ \/ pkt[ex[e].p].status \in Active /\ Take(e, "progress", "none")
     \/ pkt[ex[e].p].status \notin Active /\ Take(e, "on", "none")

ProgressUpdate(e) ==
  LET p == ex[e].p
  IN  /\ lst[e].pc = "progress"
      /\ SetPacket(p, [pkt[p] EXCEPT !.exec = IF @ = 0 THEN e ELSE @])
      /\ lst' = [lst EXCEPT ![e].pc = "on"]
      /\ UNCHANGED <<job, ex, q, repo>>

\* Mutant: complete_execution without its state check.
HearEnd_any_state(e) ==
  /\ Hearing(e) /\ Head(q[e]) \in Outcomes
  /\ Take(e, "complete", Head(q[e]))

\* complete_execution: the check.  A packet that is not active ignores the
\* event; the listener stops either way.
HearEnd(e) ==
  /\ Hearing(e) /\ Head(q[e]) \in Outcomes
  /\ \/ pkt[ex[e].p].status \in Active /\ Take(e, "complete", Head(q[e]))
     \/ pkt[ex[e].p].status \notin Active /\ Take(e, "off", "none")

CompleteUpdate(e) ==
  LET p == ex[e].p
  IN  /\ lst[e].pc = "complete"
      /\ SetPacket(p, [Enter(p, lst[e].ev) EXCEPT !.exec = e])
      /\ lst' = [lst EXCEPT ![e] = [pc |-> "off", ev |-> "none"]]
      /\ UNCHANGED <<job, ex, q, repo>>

-----------------------------------------------------------------------------
\* Somebody commits to the project, the executor itself included.
RepoMoves ==
  /\ head < MaxHead
  /\ head' = head + 1
  /\ UNCHANGED <<pkt, job, ex, q, lst, agent>>

-----------------------------------------------------------------------------
\* What a connection's task does on its own once a command was accepted.
CommandStep(c) ==
  \/ ApproveUpdate(c) \/ RejectUpdate(c)
  \/ NotBusy(c) \/ BusyRefused(c) \/ Listen(c)
  \/ MarkCheck(c) \/ MarkRefused(c) \/ MarkUpdate(c)
  \/ BindCheck(c) \/ BindRefused(c) \/ BindUpdate(c)
  \/ Send(c) \/ SendFails(c) \/ FailCheck(c) \/ FailRefused(c) \/ FailUpdate(c)

Listener(e) ==
  \/ HearProgress(e) \/ ProgressUpdate(e) \/ HearEnd(e) \/ CompleteUpdate(e)

Next ==
  \/ \E c \in Conns, p \in Packets :
       \/ \E a \in Authors, n \in Needs, s \in Policies : Create(c, p, a, n, s)
       \/ \E a \in People : ApproveCheck(c, p, a)
       \/ RejectCheck(c, p) \/ DispatchCheck(c, p)
  \/ \E c \in Conns :
       \/ CommandStep(c) \/ SpawnFails(c)
       \/ \E e \in Execs : Spawn(c, e)
  \/ \E e \in Execs :
       \/ Progress(e) \/ PromptFails(e) \/ WatchdogTells(e) \/ Listener(e)
       \/ \E o \in Outcomes : Answer(e, o)
       \/ \E st \in {"exited", "crashed"} : ChildEnds(e, st)
  \/ RepoMoves

Spec == Init /\ [][Next]_vars

\* Spawned tasks that can run do run.  Nobody has to send a command and an
\* executor owes nothing: it may neither answer nor end.
FairSpec ==
  /\ Spec
  /\ \A c \in Conns : WF_vars(CommandStep(c))
  /\ \A e \in Execs : WF_vars(Listener(e)) /\ WF_vars(WatchdogTells(e))

-----------------------------------------------------------------------------
(* Properties that hold.                                                    *)

\* Nobody gets a packet through alone: an approved packet carries as many
\* different signatures as it requires, one of them not its author's, although
\* two approvals by one person that race each other are both recorded.  The
\* author's own signature, which create_handoff records, is one of them:
\* docs/handoff-contract.md (two-party) and docs/product-specs/handoff.md (H09)
\* say otherwise: there such a packet is still pending after one approval.
ApprovalIsJoint ==
  \A p \in Packets :
    "approved" \in pkt[p].seen =>
      /\ Cardinality(Signed(p)) >= pkt[p].need
      /\ \E s \in Signed(p) : s # pkt[p].author

\* A packet has an outcome, or an executor that was sent the work, only after
\* it was dispatched, and it is dispatched only after it was approved: an
\* executor that ends while its dispatch is still under way decides nothing.
OutcomeFollowsDispatch ==
  /\ \A p \in Packets :
       /\ pkt[p].seen \cap (Ended \cup {"executing"}) # {} => "dispatched" \in pkt[p].seen
       /\ "dispatched" \in pkt[p].seen => "approved" \in pkt[p].seen
  /\ \A e \in Execs : ex[e].prompt # "no" => "executing" \in pkt[ex[e].p].seen

\* A line executor whose dispatch was refused after it had been spawned is told
\* to stop: no child that reads its stdin waits for work nobody will send.  An
\* ACP executor is not told: close_stdin does nothing to it and it stays up
\* although docs/handoff-contract.md says that it cannot outlive the packet.
RefusedIsClosed ==
  \A e \in Execs :
    (ex[e].st = "up" /\ agent = "line" /\ \A c \in Conns : job[c].e # e)
      => ex[e].prompt # "no" \/ ~ex[e].open

\* "Executor session crashes mid-task -> packet partial/failed with audit"
\* (docs/product-specs/handoff.md H11): the crash of the executor a packet is
\* bound to takes the packet out of `executing` as long as its listener has
\* not stopped, even when the channel overflowed.
CrashEndsPacket ==
  \A p \in Packets, e \in Execs :
    (/\ pkt[p].status = "executing" /\ pkt[p].exec = e
     /\ ex[e].st = "crashed" /\ ~ex[e].said /\ lst[e].pc # "off")
      ~> (pkt[p].status # "executing" \/ pkt[p].exec # e)

-----------------------------------------------------------------------------
(* What a document states and the code does not keep.                       *)

\* docs/handoff-contract.md: "At most **one** `executing` packet per
\* `target.executorProfileId` per project."
OneExecuting ==
  \A p, r \in Packets : pkt[p].status = "executing" /\ pkt[r].status = "executing" => p = r
=============================================================================
