------------------------------ MODULE AcpAgent ------------------------------
(****************************************************************************)
(* The bridge's side of an ACP agent (agent_runtime/acp/client.rs,          *)
(* terminal_handler.rs, fs_handler.rs and the handler tasks that spawn_acp  *)
(* starts in session/handle.rs).                                            *)
(*                                                                          *)
(* Requests of the bridge are registered in `pending`, put into the         *)
(* channel of the writer task and answered by the reader task, by a timeout *)
(* or, when the agent's stdout ends, by the reader's last act.  Requests of *)
(* the agent go from the reader to one task for the file system and one     *)
(* for terminals; each task serves one request at a time, so a wait for a   *)
(* terminal's exit holds up the kill behind it.  Every terminal has a task  *)
(* that owns its process.                                                   *)
(*                                                                          *)
(* The agent is the environment: it may ask and answer anything, exit, or   *)
(* write a line that is not UTF-8.  Permission requests are the subject of  *)
(* Approvals, notifications that of ToolActivity; what a terminal prints    *)
(* and which paths and commands a profile allows are left out: a request    *)
(* may be refused.                                                          *)
(****************************************************************************)
EXTENDS Naturals, Sequences, FiniteSets

CONSTANTS
  Calls,      \* requests of the bridge
  Prompts,    \* those that are session/prompt, which never times out
  Terminals,  \* terminal ids
  MaxReqs,    \* bound: requests of the agent
  Loads,      \* bound: what a behaviour may hold, see AcpAssumption
  MaxOut      \* bound: lines on its stdout the reader has not read

\* Of an agent's request: its id is not a u64, or its timeoutMs has no end.
Forms == {"plain", "odd", "long"}

ASSUME AcpAssumption ==
  \* requests of the bridge and of the agent, and the latter's forms; its
  \* notifications, and whether it is an OpenCode agent (ToolActivity)
  /\ Loads \subseteq [calls : SUBSET Calls, reqs : 0..MaxReqs, forms : SUBSET Forms,
                      frames : Nat, tap : BOOLEAN]
  /\ Prompts \subseteq Calls /\ MaxReqs \in Nat /\ MaxOut \in Nat \ {0}

VARIABLES
  call,      \* the rpc() of each request of the bridge
  pending,   \* AcpClient.pending
  wq,        \* the writer task's channel
  writer,    \* "run" or "stopped"
  asked,     \* requests of the bridge the agent has read
  child,     \* "up" or "down"
  out,       \* lines on the agent's stdout
  reader,    \* "run", "eof" or "broken"
  req,       \* requests of the agent
  fsq, fst,  \* the fs task's channel and the task
  tq, tt,    \* the terminal task's channel and the task
  load,      \* the load of this behaviour
  term       \* TerminalHandlerContext.terminals, and their owner tasks

bridge == <<call, pending>>
wire == <<wq, writer, asked, child, load>>
fs == <<fsq, fst>>
terms == <<tq, tt, term>>
vars == <<bridge, wire, out, reader, req, fs, terms>>

Reqs == 1..MaxReqs
FsOps == {"read", "write"}
Ops == FsOps \cup {"create", "output", "wait", "kill", "release"}

NoCall == [pc |-> "idle", res |-> "none"]
NoReq == [op |-> "none", t |-> "none", form |-> "none", ans |-> "none"]
NoTerm ==
  [proc |-> "none",    \* the process: "none", "running", "killed", "gone"
   owner |-> "none",   \* its owner task: "none", "run", "grace", "done"
   kills |-> 0,        \* kill_rx
   listed |-> FALSE,   \* in the terminals map
   late |-> FALSE]     \* timed_out
Idle == [pc |-> "idle", i |-> 0]

Init ==
  /\ load \in Loads
  /\ call = [c \in Calls |-> NoCall] /\ pending = {}
  /\ wq = << >> /\ writer = "run" /\ asked = {} /\ child = "up"
  /\ out = << >> /\ reader = "run"
  /\ req = [i \in Reqs |-> NoReq]
  /\ fsq = << >> /\ fst = Idle
  /\ tq = << >> /\ tt = Idle
  /\ term = [t \in Terminals |-> NoTerm]

-----------------------------------------------------------------------------
(* Requests of the bridge: AcpClient::rpc.                                  *)

SetCall(c, pc, res) == call' = [call EXCEPT ![c] = [pc |-> pc, res |-> res]]

\* next_id, and the entry in the pending table.
Register(c) ==
  /\ call[c].pc = "idle" /\ c \in load.calls
  /\ pending' = pending \cup {c}
  /\ SetCall(c, "write", "none")
  /\ UNCHANGED <<wire, out, reader, req, fs, terms>>

\* write_line: fails once the writer task has dropped its receiver.
WriteRequest(c) ==
  /\ call[c].pc = "write"
  /\ IF writer = "run"
     THEN /\ wq' = Append(wq, c)
          /\ SetCall(c, IF call[c].res = "none" THEN "wait" ELSE "done", call[c].res)
          /\ UNCHANGED pending
     ELSE pending' = pending \ {c} /\ SetCall(c, "done", "closed") /\ UNCHANGED wq
  /\ UNCHANGED <<writer, asked, child, load, out, reader, req, fs, terms>>

\* Mutant: a request that timed out keeps its entry.
PendingAfterTimeout_kept(c) == pending

PendingAfterTimeout(c) == pending \ {c}

\* REQUEST_TIMEOUT; session/prompt has none.
Timeout(c) ==
  /\ call[c].pc = "wait" /\ c \notin Prompts
  /\ pending' = PendingAfterTimeout(c)
  /\ SetCall(c, "done", "timeout")
  /\ UNCHANGED <<wire, out, reader, req, fs, terms>>

\* An assessment's worker loop leaves the prompt it waits for: cancelled, past
\* its deadline, done, or its channel closed.  Dropping rpc() removes nothing.
Abandon(c) ==
  /\ call[c].pc = "wait" /\ c \in Prompts
  /\ SetCall(c, "dropped", "none")
  /\ UNCHANGED <<pending, wire, out, reader, req, fs, terms>>

-----------------------------------------------------------------------------
(* The writer task and the agent.                                           *)

\* A line reaches the agent's stdin, or the write fails and the task returns:
\* the line is lost and so is what its channel still holds.
Write ==
  /\ writer = "run" /\ wq # << >>
  /\ IF child = "up"
     THEN asked' = asked \cup {Head(wq)} /\ wq' = Tail(wq) /\ UNCHANGED writer
     ELSE writer' = "stopped" /\ wq' = << >> /\ UNCHANGED asked
  /\ UNCHANGED <<bridge, child, load, out, reader, req, fs, terms>>

\* Lines nobody reads any more are left out.
Say(line) ==
  /\ child = "up" /\ reader = "run" /\ Len(out) < MaxOut
  /\ out' = Append(out, line)

\* The agent answers a request it has read, with a result or an error, and
\* perhaps again.
AgentAnswers(c, res) ==
  /\ c \in asked
  /\ Say([kind |-> "answer", id |-> c, res |-> res])
  /\ UNCHANGED <<bridge, wire, reader, req, fs, terms>>

\* The agent asks for something; ids are its own and never repeat.  An id need
\* not be a number, and the timeout of a wait may be as long as the agent likes.
AgentAsks(i, op, t, form) ==
  /\ i <= load.reqs /\ form \in load.forms /\ (form = "long" => op = "wait")
  /\ req[i].op = "none" /\ \A j \in 1..(i - 1) : req[j].op # "none"
  /\ req' = [req EXCEPT ![i].op = op, ![i].t = t, ![i].form = form]
  /\ Say([kind |-> "request", id |-> i, res |-> "none"])
  /\ UNCHANGED <<bridge, wire, reader, fs, terms>>

AgentGarbles ==
  /\ Say([kind |-> "garbage", id |-> 0, res |-> "none"])
  /\ UNCHANGED <<bridge, wire, reader, req, fs, terms>>

AgentExits ==
  /\ child = "up" /\ child' = "down"
  /\ UNCHANGED <<bridge, wq, writer, asked, load, out, reader, req, fs, terms>>

-----------------------------------------------------------------------------
(* The reader task.                                                         *)

\* dispatch_line removes the entry of the id; a late answer finds none.
Answered(c) == {c} \cap pending

\* The sender of an entry is used: rpc() hears of it when it comes to wait.
Told(c, res) == [pc |-> IF call[c].pc = "wait" THEN "done" ELSE call[c].pc, res |-> res]
Resolve(cs, res) ==
  /\ pending' = pending \ cs
  /\ call' = [c \in Calls |-> IF c \in cs THEN Told(c, res) ELSE call[c]]

ReadAnswer ==
  LET line == Head(out) IN
  /\ reader = "run" /\ out # << >> /\ line.kind = "answer"
  /\ Resolve(Answered(line.id), line.res)
  /\ out' = Tail(out)
  /\ UNCHANGED <<wire, reader, req, fs, terms>>

\* An agent's request goes into the channel of the task that serves it; one
\* whose id is not a u64 is ignored.
ReadRequest ==
  LET line == Head(out) IN
  /\ reader = "run" /\ out # << >> /\ line.kind = "request"
  /\ out' = Tail(out)
  /\ CASE req[line.id].form = "odd" -> UNCHANGED <<fsq, tq>>
       [] req[line.id].form # "odd" /\ req[line.id].op \in FsOps ->
            fsq' = Append(fsq, line.id) /\ UNCHANGED tq
       [] OTHER -> tq' = Append(tq, line.id) /\ UNCHANGED fsq
  /\ UNCHANGED <<bridge, wire, reader, req, fst, tt, term>>

\* Mutant: the end of the agent's output is not passed on.
Drained_none == {}

\* Those the reader answers with "agent exited".
Drained == pending

ReadEof ==
  /\ reader = "run" /\ out = << >> /\ child = "down"
  /\ reader' = "eof"
  /\ Resolve(Drained, "exited")
  /\ UNCHANGED <<wire, out, req, fs, terms>>

\* next_line fails on a line that is not UTF-8: the task returns at once.
ReadGarbage ==
  /\ reader = "run" /\ out # << >> /\ Head(out).kind = "garbage"
  /\ reader' = "broken"
  /\ out' = << >>
  /\ UNCHANGED <<bridge, wire, req, fs, terms>>

-----------------------------------------------------------------------------
(* Answers to the agent.  They go through the writer's channel; a writer    *)
(* that has stopped makes respond_result fail, which is ignored.            *)

Reply(i, ans) == req' = [req EXCEPT ![i].ans = ans]

-----------------------------------------------------------------------------
(* The fs task.                                                             *)

FsTake ==
  /\ fst.pc = "idle" /\ fsq # << >>
  /\ fsq' = Tail(fsq)
  /\ fst' = [pc |-> "serve", i |-> Head(fsq)]
  /\ UNCHANGED <<bridge, wire, out, reader, req, terms>>

\* handle_fs_read: the content, or why not.
FsRead(ans) ==
  /\ fst.pc = "serve" /\ req[fst.i].op = "read"
  /\ Reply(fst.i, ans)
  /\ fst' = Idle
  /\ UNCHANGED <<bridge, wire, out, reader, fsq, terms>>

\* handle_fs_write wrote the file: the agent is answered first, the
\* bridge.mutation and review events follow.
FsWritten ==
  /\ fst.pc = "serve" /\ req[fst.i].op = "write"
  /\ Reply(fst.i, "ok")
  /\ fst' = [fst EXCEPT !.pc = "note"]
  /\ UNCHANGED <<bridge, wire, out, reader, fsq, terms>>

FsNote ==
  /\ fst.pc = "note"
  /\ fst' = Idle
  /\ UNCHANGED <<bridge, wire, out, reader, req, fsq, terms>>

\* Refused, oversized or failed: the events come first.
FsFailed ==
  /\ fst.pc = "serve" /\ req[fst.i].op = "write"
  /\ fst' = [fst EXCEPT !.pc = "refuse"]
  /\ UNCHANGED <<bridge, wire, out, reader, req, fsq, terms>>

FsRefuse ==
  /\ fst.pc = "refuse"
  /\ Reply(fst.i, "error")
  /\ fst' = Idle
  /\ UNCHANGED <<bridge, wire, out, reader, fsq, terms>>

-----------------------------------------------------------------------------
(* The terminal task.                                                       *)

TermTake ==
  /\ tt.pc = "idle" /\ tq # << >>
  /\ tq' = Tail(tq)
  /\ tt' = [pc |-> "serve", i |-> Head(tq)]
  /\ UNCHANGED <<bridge, wire, out, reader, req, fs, term>>

Serving(op) == tt.pc = "serve" /\ req[tt.i].op = op
Subject == req[tt.i].t
TermReply(ans) == Reply(tt.i, ans) /\ tt' = Idle

\* handle_terminal_create: the process, its owner task and its entry.
Spawned == [NoTerm EXCEPT !.proc = "running", !.owner = "run", !.listed = TRUE]

\* The id is fresh; the mutation and lifecycle events go before the answer.
TermCreate(t) ==
  /\ Serving("create") /\ term[t].proc = "none"
  /\ term' = [term EXCEPT ![t] = Spawned]
  /\ TermReply("ok")
  /\ UNCHANGED <<bridge, wire, out, reader, fs, tq>>

\* Denied by the profile, or the spawn failed.
TermCreateFails ==
  /\ Serving("create")
  /\ TermReply("error")
  /\ UNCHANGED <<bridge, wire, out, reader, fs, tq, term>>

TermNotFound ==
  /\ tt.pc = "serve" /\ req[tt.i].op # "create" /\ ~term[Subject].listed
  /\ TermReply("error")
  /\ UNCHANGED <<bridge, wire, out, reader, fs, tq, term>>

TermOutput ==
  /\ Serving("output") /\ term[Subject].listed
  /\ TermReply("ok")
  /\ UNCHANGED <<bridge, wire, out, reader, fs, tq, term>>

\* kill_tx.send; a receiver that is gone is taken for a process that is gone.
KillsAfter(t) == IF term[t].owner = "run" THEN term[t].kills + 1 ELSE term[t].kills

TermKill ==
  /\ Serving("kill") /\ term[Subject].listed
  /\ term' = [term EXCEPT ![Subject].kills = KillsAfter(Subject)]
  /\ TermReply("ok")
  /\ UNCHANGED <<bridge, wire, out, reader, fs, tq>>

TermRelease ==
  /\ Serving("release") /\ term[Subject].listed
  /\ term' = [term EXCEPT ![Subject].listed = FALSE]
  /\ TermReply("ok")
  /\ UNCHANGED <<bridge, wire, out, reader, fs, tq>>

\* exit_code is set.
HasExited(t) == term[t].owner \in {"grace", "done"}

\* wait_for_exit: the exit code is there already.
TermWaitFast ==
  /\ Serving("wait") /\ term[Subject].listed /\ HasExited(Subject)
  /\ TermReply("ok")
  /\ UNCHANGED <<bridge, wire, out, reader, fs, tq, term>>

\* It is not: an exit between the look and notified() wakes nobody.
TermWaitLook ==
  /\ Serving("wait") /\ term[Subject].listed /\ ~HasExited(Subject)
  /\ tt' = [tt EXCEPT !.pc = "looked"]
  /\ UNCHANGED <<bridge, wire, out, reader, req, fs, tq, term>>

TermWaitStart ==
  /\ tt.pc = "looked"
  /\ tt' = [tt EXCEPT !.pc = "wait"]
  /\ UNCHANGED <<bridge, wire, out, reader, req, fs, tq, term>>

TermWaitWoken ==
  /\ tt.pc = "woken"
  /\ TermReply("ok")
  /\ UNCHANGED <<bridge, wire, out, reader, fs, tq, term>>

\* Mutant: the task waits for the exit however long it takes.
WaitTimedOut_never == FALSE

\* timeoutMs of the request has passed, which a long one never does.
WaitTimedOut == tt.pc = "wait" /\ req[tt.i].form # "long"

TermWaitTimeout ==
  /\ WaitTimedOut
  /\ TermReply("timeout")
  /\ UNCHANGED <<bridge, wire, out, reader, fs, tq, term>>

-----------------------------------------------------------------------------
(* The owner task of a terminal, and its process.                           *)

ProcessExits(t) ==
  /\ term[t].proc = "running"
  /\ term' = [term EXCEPT ![t].proc = "gone"]
  /\ UNCHANGED <<bridge, wire, out, reader, req, fs, tq, tt>>

ProcessDies(t) ==
  /\ term[t].proc = "killed"
  /\ term' = [term EXCEPT ![t].proc = "gone"]
  /\ UNCHANGED <<bridge, wire, out, reader, req, fs, tq, tt>>

\* child.wait returned: the code is recorded and the waiter, if any, woken.
OwnerReap(t) ==
  /\ term[t].owner = "run" /\ term[t].proc = "gone"
  /\ term' = [term EXCEPT ![t].owner = "grace", ![t].kills = 0]
  /\ tt' = IF tt.pc = "wait" /\ Subject = t THEN [tt EXCEPT !.pc = "woken"] ELSE tt
  /\ UNCHANGED <<bridge, wire, out, reader, req, fs, tq>>

StartKill(r) == IF r.proc = "running" THEN "killed" ELSE r.proc

OwnerKill(t) ==
  /\ term[t].owner = "run" /\ term[t].kills > 0
  /\ term' = [term EXCEPT ![t].kills = @ - 1, ![t].proc = StartKill(term[t])]
  /\ UNCHANGED <<bridge, wire, out, reader, req, fs, tq, tt>>

\* Mutant: a released terminal has no owner left to time it out.
Overdue_listed(t) == term[t].owner = "run" /\ ~term[t].late /\ term[t].listed

\* timeout_ms of the allowlist entry has passed.
Overdue(t) == term[t].owner = "run" /\ ~term[t].late

OwnerTimeout(t) ==
  /\ Overdue(t)
  /\ term' = [term EXCEPT ![t].late = TRUE, ![t].proc = StartKill(term[t])]
  /\ UNCHANGED <<bridge, wire, out, reader, req, fs, tq, tt>>

\* TERMINAL_GC_GRACE_MS later.
OwnerCollect(t) ==
  /\ term[t].owner = "grace"
  /\ term' = [term EXCEPT ![t].owner = "done", ![t].listed = FALSE]
  /\ UNCHANGED <<bridge, wire, out, reader, req, fs, tq, tt>>

-----------------------------------------------------------------------------
Agent ==
  \/ \E c \in Calls, res \in {"ok", "error"} : AgentAnswers(c, res)
  \/ \E i \in Reqs, t \in Terminals, op \in Ops, form \in Forms : AgentAsks(i, op, t, form)
  \/ AgentGarbles \/ AgentExits

ReaderStep == ReadAnswer \/ ReadRequest \/ ReadEof \/ ReadGarbage
FsTask == FsTake \/ FsRead("ok") \/ FsRead("error") \/ FsWritten \/ FsNote \/ FsFailed \/ FsRefuse
TermTask ==
  \/ TermTake \/ (\E t \in Terminals : TermCreate(t)) \/ TermCreateFails \/ TermNotFound
  \/ TermOutput \/ TermKill \/ TermRelease
  \/ TermWaitFast \/ TermWaitLook \/ TermWaitStart \/ TermWaitWoken
OwnerTask(t) == OwnerReap(t) \/ OwnerKill(t) \/ OwnerCollect(t)

Next ==
  \/ \E c \in Calls : Register(c) \/ WriteRequest(c) \/ Timeout(c) \/ Abandon(c)
  \/ Write \/ Agent \/ ReaderStep \/ FsTask \/ TermTask \/ TermWaitTimeout
  \/ \E t \in Terminals :
       ProcessExits(t) \/ ProcessDies(t) \/ OwnerTask(t) \/ OwnerTimeout(t)

\* The runtime runs its tasks, timers fire, and the kernel ends a killed
\* process.  Nothing is asked of the agent, nor of a process by itself, and no
\* worker has to abandon its prompt.
Fairness ==
  /\ \A c \in Calls : WF_vars(WriteRequest(c)) /\ WF_vars(Timeout(c))
  /\ WF_vars(Write) /\ WF_vars(ReaderStep)
  /\ WF_vars(FsTask) /\ WF_vars(TermTask) /\ WF_vars(TermWaitTimeout)
  /\ \A t \in Terminals :
       WF_vars(OwnerTask(t)) /\ WF_vars(OwnerTimeout(t)) /\ WF_vars(ProcessDies(t))

FairSpec == Init /\ [][Next]_vars /\ Fairness

-----------------------------------------------------------------------------
(* Properties.                                                              *)

\* Every request of the bridge ends: one with a timeout always, a prompt when
\* its agent exits while the reader still reads and the prompt is registered (or
\* its worker gave it up first).
CallsEnd ==
  \A c \in Calls :
    /\ c \notin Prompts => (call[c].pc = "wait" ~> call[c].pc = "done")
    /\ (call[c].pc = "wait" /\ c \in pending /\ reader = "run" /\ child = "down")
         ~> (call[c].pc \in {"done", "dropped"} \/ reader = "broken")

\* The exit came between the look and the wait of a request with a long timeout.
MissedExit == tt.pc = "wait" /\ HasExited(Subject) /\ req[tt.i].form = "long"

\* Whatever the agent asks is answered once a handler's channel has it, even
\* behind a wait for a process that does not end: the timeouts of the waits and of
\* the terminals see to it.  Two exceptions: a request whose id is not a u64 gets
\* into no channel, and a terminal request may stand behind a wait that missed its
\* exit and whose timeoutMs the agent made endless.
RequestsAnswered ==
  \A i \in Reqs :
    /\ (\E k \in DOMAIN fsq : fsq[k] = i) ~> req[i].ans # "none"
    /\ (\E k \in DOMAIN tq : tq[k] = i) ~> req[i].ans # "none" \/ MissedExit

\* A terminal that was started ends, even when the agent has released it and can
\* no longer name it, or its kill waits behind somebody's wait (the owner task).
TerminalsEnd ==
  \A t \in Terminals :
    term[t].proc = "running" ~> HasExited(t)

\* The pending table holds the requests that still wait for an answer: no answer,
\* late or repeated, finds a request it does not belong to, and none waits without
\* an entry.  What else it holds are prompts whose worker gave them up: their
\* entries stay until the agent answers or exits (rpc, dispatch_line).
PendingIsWaiting ==
  /\ \A c \in pending :
       /\ call[c].res = "none"
       /\ call[c].pc \in {"write", "wait"} \/ (c \in Prompts /\ call[c].pc = "dropped")
  /\ \A c \in Calls : call[c].pc = "wait" => c \in pending
=============================================================================
