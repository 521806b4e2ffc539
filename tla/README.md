# vac-web: TLA+ verification project

vac-web runs coding agents on a developer's machine and lets people watch, steer
and approve them from a browser. This directory holds TLA+ models of its bridge
and its relay, TLC runs that check them on small instances, and TLAPS proofs
of the results that hold for every size. `PROJECT.json` maps every definition to
the source lines it stands for. Paths below are relative to the repository root.

Run a check with `tlc -config MCHandoff.cfg MCHandoff`, a proof with
`tlapm Approvals_proofs.tla`.

## 1. The system

Three programs and the packages they share.

- **Local bridge** (`apps/local-bridge`, Rust, tokio). One process per machine.
  It spawns agent processes, keeps a session for each, translates WebSocket
  commands into agent requests and agent output into numbered events, asks
  people for permission, moves work between agents and persists sessions. Its
  tasks run on several threads; a connection handles one command at a time,
  commands of different connections run at the same time.
- **Relay service** (`apps/relay-service`). Joins browsers to a bridge that has
  dialled out to it.
- **Web cockpit** (`apps/web`, TypeScript). Reduces the events into views and
  sends commands; it reconnects with the number of the last event it saw.
- **Packages**: `bridge-core` (event ring, session states, limits, audit),
  `profile-core` (what a capability profile permits), protocol types.

### Inventory

| Part | State it keeps | Operations | Talks to | What is hard | What makes it correct |
|---|---|---|---|---|---|
| Event ring and live stream (`event_ring.rs`, `emit_to`, `ws/handler.rs`) | bounded ring, next number, broadcast channel, one outgoing channel per connection | push, replay_after, subscribe, forward, replay.request | every task that emits; connections | two sources (ring, live) read without a common lock; lag; eviction; a lock held across an await | a client that replays misses nothing unless told; only a peer that stops reading can hold up emitters |
| Permission approvals (`session/handle.rs`) | pending map, timers, correlation maps | pump, auto-cancel, approve, reject, look-up | ACP client, connections, event stream | several deciders and a timer race; agent may go away | one decision, told truly to both sides, never a persistent grant, no request forgotten |
| Session registry and lifecycle (`session/registry.rs`, `handle.rs`, `session_state.rs`) | id to handle, id to owner, handle state, child, watchdog, meta row | create, resume, reactivate, close, subscribe, watchdog, reaper | agent process, persistence, connections | ids outlive handles; five tasks act on one session; crashes between writes | the end of a child is noticed, cleaned up and, unless the store refuses, recorded; the owner is who spawned it |
| Handoff packets (`handoff/`) | map of packets with signatures, pin, status, executor | create, approve, reject, dispatch, bind, progress, complete | session registry, git, executor events | check and update are separate; the executor is spawned between check and mark | joint approval, order of states, a crashed executor ends its packet |
| Extension trust (`extensions/`) | trust config file, promotion request file | update_trust, request_promotion, approve_promotion | file system, several bridges | two files, two locks, failures between the two saves | a revoked extension returns only with a second profile's consent; no write undoes another |
| Workflow and assessment runs (`translator/assessment.rs`) | active runs and sweeps, cancel flags | run, sweep, cancel | worker sessions, event stream | cancel against answer, deadline and end of pass; a wake-up nobody waits for | every run ends; a sweep reports what its children did |
| Session persistence (`session/persistence/`) | event log, meta row per session | append, load, mark_status, forget | session handle | torn last line, a tear inside a character, forget of a live session, two sinks | what was acknowledged is read back while the log can be read; numbering continues |
| Assessment store and queries (`storage/`, `assessment_query.rs`) | rows of runs and sweeps, findings | mirror, rebuild, list_runs | persistence, translator | read and write of a row under two locks; rebuild against mirror | the index lists only what the log has |
| Gates and release (`gate.rs`, `release.rs`) | sign-offs, overrides with expiry, targets, notes | sign, override, evaluate, deploy, publish, reload | event log | expiry between check and use; state and event are two steps | no release past a closed gate; the log follows the state |
| ACP client (`agent_runtime/acp/client.rs`) | pending requests by id, writer, reader | rpc, notify, reader loop | agent process, session handle | answer against timeout against end of agent | who waits has an entry, and ends once |
| ACP terminals, file access (`terminal_handler.rs`, `fs_handler.rs`) | terminals, output buffers | create, output, wait, kill, release | processes | exit, kill and timeout race; a wait holds up the kill behind it | every terminal ends, every request is answered |
| Tool activity, mutation events, opencode tap (`tool_activity.rs`, `tap.rs`) | stack of running tasks, bindings of sub-sessions | map a frame, bind, re-parent | ACP client, event stream | two sources in no common order; dropped frames | an activity hangs under a task that runs |
| Command translator (`translator/mod.rs`), profiles | cached profiles | the checks and arms of every command | everything | checks and their use are separate steps | a command reaches only what its caller may name; the resume matrix |
| Agent registry, configuration | agents.toml, config tree, snapshots | add, sync, reload, load, validate | start-up, operator | whole-file read and write without a lock | the file still loads |
| Relay (`apps/relay-service`) and tunnel (`tunnel.rs`) | device table, attached clients, teleport tokens | dial, attach, forward, revoke, claim | bridge, browsers | re-dial before the old loop ends; attach during removal | a token works once; a client is served or told |
| Workflow executor (`workflows/`) | the run of a session, the status of its steps, artifacts | message.submit starts a run; events of the session move it along the edges of a bundled graph | reads and feeds the session's event channel | lost signals, tool events behind the end of the turn, a turn that fails half way | steps are reached along edges, nothing follows the end of a run, a run ends with its turn |
| Resource limits, audit writer (`resource.rs`, `audit.rs`) | counters, bounded channel | acquire, release, record | every session | increment and roll-back at the limit | the limit is never exceeded, drops are counted |
| Authentication and pairing | pairing codes | issue, redeem | translator | code used twice | one principal per code |
| Observability, notifications, counters | little | build payloads | event stream | none | – |
| Web cockpit | cursor, outgoing queue, stores | reconnect, send, reduce | bridge, relay | reconnection against delivery | the cursor covers what was seen |

`PROJECT.json` lists the same parts with their files and, under `hazards`, the
lines where each difficulty bites and the properties that watch it.

## 2. What is modelled

A command of a connection, a task and a timer are the units of concurrency. In
every module a step is the code between two points where the task may lose its
turn: an await, the release of a lock, a return to a channel. A check and the
change it allows are therefore two actions wherever the code lets somebody in
between them.

### EventRing, EventStream: how events reach clients

`EventRing` is the pure part: a ring is `[buf, next]`, `Push` appends the next
number and evicts from the front, `ReplayAfter` is the code's decision between
nothing, a stream and out-of-range.

`EventStream` adds the tasks. `emit_to` is three steps: `EmitBegin` (queue for
the ring's lock), `EmitPush` (push, unlock), `EmitSend` (broadcast, outside the
lock). A connection has a forwarder (`ForwarderRecv`, which on lag jumps to the
oldest retained message and sends replay.out_of_range, and `ForwarderSend`), the
replay handler in its main loop (`ReplayRequest`, `ReplayRead`, `ReplaySend`:
the read guard is held until the last frame has room), and the outgoing task
(`OutgoingWrite`, `OutgoingFail`, `SocketDies`, `MainLoopExit`). `PeerStalls` is a
peer that stays connected and takes no frame any more (`stuck`): its write has no
time limit (`ws/handler.rs:117-123`), so nothing ends it. The tokio lock
is a FIFO queue, `lockQ`; tokio's broadcast and mpsc channels are modelled from
how the code uses them. An event is its number.

### DecisionRegister, Approvals: how a permission request is decided

`DecisionRegister` is what is promised, with no pump, timers or connections: a
request is asked (`Ask`), answered at most once as its menu permits (`Answer`) and
announced as what it was (`Tell`); `Leave` is the end of the agent. `Approvals` is
the code:

`AgentAsks` puts a request on the permission channel, `AgentAsksUnnumbered` is one
whose id is no u64, which the reader ignores; `PumpArm`, `PumpRegister` and
`PumpEmit` are the pump (the timer starts to sleep, then the entry, then the
announcement; the timer may end before the entry is there);
`ResolveChoose`, `ResolveTake` or `ResolveLost`, `ResolveRespond` or
`ResolveUnreachable`, `ResolveRecord`, `ResolveEmit` are `resolve_approval` in
the order of its awaits; `TimerFire`, `TimerMiss`, `TimerEmit` the auto-cancel
task; `AgentExits` and `SessionClose` the environment; `LookupByCall`,
`SweepByCall`, `LookupByHash`, `SweepByHash` are `correlate_approval`, with the
guard dropped between the look at an entry and its removal. `PickOptionId` and
`ResolveOption` are the option pickers; a menu is a sequence of `[id, kind]`,
including menus with missing or colliding ids. `OneDecision` is the refinement: the
question is `info`, the answer what was written to the agent, and what clients were
told the outcomes of the `approval.resolved` events.

### SessionLifecycle: one session id over several children

A native resume builds a new handle under the same id, so the model numbers the
incarnations. A command's position is `op[c].pc`: `Create`/`Resume`, `SpawnFails`,
`BuildSink`, `StampRead`, `StampWrite`, `BecomeReady`, `LoadSucceeds`/`LoadFails`,
`VerifyRead`, `VerifyWrite`, `Insert`; `Reactivate`, `Close` and `Forget` are the
other commands. `ChildEnds`, `StdoutEnds`, `WatchdogCloses`, `WatchdogMarks`,
`ReaperScans`, `ReaperDrops` are the tasks and `BridgeCrash` the restart, which
keeps only the meta row. `Transition` is bridge-core's transition matrix.
`WatchdogMarks` may find the row forgotten or the store failing, of which the code
keeps a warning only (`lost`). Who may name the session is in `CommandDispatch`, who
listens to it in `EventStream`.

### Handoff: packets and their executors

Each operation of `HandoffService` is a check of a copy and an unconditional
update, hence two actions (`ApproveCheck`/`ApproveUpdate` and so on).
`dispatch_local` is `DispatchCheck`, `NotBusy` or `BusyRefused`, `Spawn` or
`SpawnFails`, `Listen`, `MarkCheck`/`MarkRefused`/`MarkUpdate`,
`BindCheck`/`BindRefused`/`BindUpdate`, `Send`/`SendFails`, and on the error
path `FailCheck`/`FailRefused`/`FailUpdate`. The executor reports (`Progress`,
`Answer`, `PromptFails`, `ChildEnds`, `WatchdogTells`) through a bounded channel
that drops the oldest event, and the listener (`HearProgress`, `ProgressUpdate`,
`HearEnd`, `CompleteUpdate`) applies what it hears. `RepoMoves` moves the commit
the pin is compared with. An executor is a line or an ACP agent (`agent`):
close_stdin reaches only the former. Packet text, validation and audit wording are
abstracted away.

### TrustPolicy, ExtensionTrust: two files, two locks

`TrustPolicy` says what the commands promise with no files, locks or copies:
`SetTier`, `File`, `Promote` and `Approve`, each at once. A promotion is two steps
even there, the tier first, because the bridge may die between them.

`ExtensionTrust` is the code. Every writer takes a file's exclusive lock, loads it,
changes the copy and renames it into place; `approve_promotion` takes the request
list's lock, then the trust config's, and commits the config before the list.
Actions per command: `UpdateTrust`, `UpdateLock`, `UpdateRefused`,
`UpdateCommit`, `UpdateSaveFails`; `RequestPromotion` (an unlocked read of the
tier), `RequestLock`, `RequestCommit`, `RequestSaveFails`; `ApprovePromotion`,
`ApproveLock`, `ApproveRefused`, `PromoteLock`, `PromoteCommit`,
`PromoteSaveFails`, `ApproveCommit`, `ApproveSaveFails`; `BridgeCrash` at any
step, which frees the locks. The locks are held across processes, so a connection
of the model may be one of another bridge. `ActsAtOnce` is the refinement, with
the requests whose promotion reached the file for TrustPolicy's `applied`.

### AssessmentRuns: runs, sweeps and cancels

A run has a task and a worker; a sweep starts one run per family and does the
work of its task. `TaskStart`, `TopCancelled`/`TopGoesOn`, `SelectEnter` and the
arms of the select (`WokenByCancel`, `Deadline`, `PromptAnswered`, `AcpPassEnds`,
`LineForwards`, `LineEnds`, ...) are the task; a cancel raises the flag, then
wakes whoever waits at that moment (`CancelRun`, `NotifyRun`, `CancelSweep`,
`CancelChild`). What a worker says is an input; whether an ACP transcript's
envelope is accepted is `Readable`, `EvidenceHolds`, `Accepts` and `Findings`,
the verdict `Verdict` and `SweepVerdict`.

### EventLog, SessionHistory, AssessmentIndex: what is durable

`EventLog` is the file store and its sinks. `Record` takes a number, `AppendOk`,
`AppendFails` and `Crash` write the line under the store's lock in the ways a write
can end: whole, torn, torn inside a character, whole without its newline, whole and
reported as failed; `Write` joins the next line to what is there. A line that is no
JSON is skipped by readers, a line that is no UTF-8 fails the whole read (`broken`,
`CanLoad`). `OpenSink`, `FirstSeq` and `NumberSink` are how a handle continues the
numbering, `NumberSinkFails` how it starts at 0 when the log cannot be read;
`Forget` removes both files. `SessionHistory` is what readers get, a log that grows
at its end and whose settled entries stay, until it is forgotten or breaks
(`Break`); `HistoryKept` is the refinement, the readable lines being the log.
`AssessmentIndex` composes the log with the SQLite index: an acknowledged event is
mirrored by a read and a write under the index's lock but not under one hold of it
(`MirrorRead`, `PutProgress`, `PutTerminal`, ...), a rebuild reads the logs one by
one and replaces every row in one transaction, and `ListRuns` is the choice between
index and log.

### ReleaseGates: what guards a release

`Signoff`, `Override`, `RevokeOverride`, `Evaluate`, `SyncMutationAudit` change a
gate under its mutex and put the event on its way (`Report`), which `Emit` records
later; `DeployCheck`/`DeployApply` and `PublishCheck`/`PublishApply` hold the
release mutex from check to application but the gate mutex only for the check;
`Restart` rebuilds both states from the log, `RestartBlind` when the log cannot be
read. `Tick` lets overrides expire. An override counts for every gate and has no
longest duration, as in the code.

### AcpAgent, ToolActivity: the bridge's side of an agent

`AcpAgent` has the requests of the bridge (`Register`, `WriteRequest`, `Timeout`,
the writer's `Write`, the reader's `ReadAnswer`, `ReadEof`, `ReadGarbage`; `Abandon`
is an assessment worker that drops the future of its prompt, whose entry stays in
the table), the requests of the agent in three forms (plain; with an id that is no
u64, which `ReadRequest` ignores; with an endless timeoutMs), the task for files,
the task for terminals, which serves one request at a time, and the owner of each
terminal (`OwnerReap`, `OwnerKill`, `OwnerTimeout`, `OwnerCollect`). `ToolActivity`
extends it with the notifications: the broadcast channel that drops the oldest, the
pump with its stack of tasks (`Enter`, `Exit`, `ScopeAfter`, `PumpTake`, `PumpEmit`;
`last` records what the frames said, a task that ended in a frame without its
subagent_type being "unnamed") and the tap on OpenCode's server (`TapSession`,
`TapTool`, `DrainEmit`), which hears of sub-sessions in its own time.

### AgentConfig, CommandDispatch, Workspace: commands

Three layers of one state. `AgentConfig` is agents.toml, the registry loaded from it
and the config tree; `registry.add` is a read, an append to the text and
`std::fs::write`, which truncates first (`AddRead` or `AddNoFile`, `AddAppend`,
`AddTruncate`, `AddFill`) and may fail before or after that (`AddFails`,
`AddFillFails`, which leaves one of `Fragments`). `CommandDispatch` is the checks
every command passes (`EnforceTool`, `EnforceProtocol`, `OwnerCheck`),
session.create and session.resume with all their refusals, the owner rows
(`TakesOver` is a native resume by another device) and the reaper. `Workspace` is
the approval of a mutation (`Approve`, `ApplyRead`, `ApplyTruncate`, `ApplyFill`,
`ApplyDelete`), the commands that become a prompt, and project browsing.

### Relay: dials, clients and tokens

`TunnelDials`, `ConnectionFails` and `TunnelNotices` are the bridge's supervisor;
`DialAllowed`, `RegisterBridge`, `LoopEnds`, `TellClients`, `Leave` the relay's loop
of a dial; `CheckRevoked`, `TakeToken`, `VerifyToken`, `MarkClaimed`,
`AttachClient`, `ClientEnds`, `DetachClients` that of a client; `WriterEnds` is the
end of a client's writer task, which its loop does not notice, and `Forward` a frame
of the bridge, which drops the senders of such writers from the table;
`RevokeDevice` and `RevokeUnregister` the admin's command. The device table forgets
by the device's id alone, so an old loop can remove a new dial's entry.

## 3. The runs

| Run | Checks | Result |
|---|---|---|
| `event_stream` | `RingWindow`, `LiveAccounted`, `NoSilentGap`, `EmitterProgress` | hold: sending outside the lock permutes but loses nothing; the guard held across a full channel blocks emitters only while its peer is connected and does not read |
| `approvals` | `DecidedOnce`, `ToldTruth`, `LabelsTrue`, `OneDecision` (refines `DecisionRegister`), `EveryRequestAnswered` | hold |
| `session` | `StampRestored`, `DeadIsReaped`, `EndReachesDisk` | hold, for both transports |
| `handoff` | `ApprovalIsJoint`, `OutcomeFollowsDispatch`, `RefusedIsClosed`, `CrashEndsPacket` | hold |
| `handoff_busy` | `OneExecuting` | violated |
| `extension_trust` | `PromotionIsJoint`, `ActsAtOnce` (refines `TrustPolicy`), `EveryCommandEnds` | hold |
| `assessment_runs` | `SweepTellsTruth`, `CancelStopsFamilies`, `RunsEnd` | hold |
| `event_log` | `LossNeedsTear`, `NumbersAreFresh`, `ListedWasLogged`, `HistoryKept` (refines `SessionHistory`) | hold |
| `release_gates` | `LogFollowsState`, `PassIsSigned`, `ReleaseNeedsEvidence` | hold |
| `acp_agent` | `PendingIsWaiting`, `NestingIsTrue`, `CallsEnd`, `RequestsAnswered`, `TerminalsEnd` | hold |
| `commands` | `BoundToSpawner`, `ResumeMatrix`, `AgentsFileLoads`, `EditOnce` | hold |
| `relay` | `TokenOnce`, `ToldOfLoss` | hold |

Every property of a passing run has a mutant in `PROJECT.json`, a plausible
mistake in one mapped definition that TLC then catches with that property.

The violated property states what a document says; section 5 tells what the run
shows, and what else the models reach.

Many properties carry an exception, because the code is right only up to it; each is
stated with the property:

- `EmitterProgress`: a replay under the read guard whose peer stopped reading.
- `EveryRequestAnswered`: a request whose id is no u64, and a timer that ends between
  its spawn and the insert of the entry it is for.
- `EndReachesDisk`: a bridge crash, and a mark that the store refuses or that finds
  the row forgotten. It says that the end is written, not that it stays: a command
  between its read of the row and its write can put back what it read.
- `ApprovalIsJoint` counts the author, as create_handoff does; `RefusedIsClosed` is
  about line executors.
- `LossNeedsTear`: a torn write costs at most one acknowledged event as long as the
  log can be read; a tear inside a character costs it all.
- `NumbersAreFresh`: two live sinks of a session may number alike, and so may a sink
  that opened without being able to read the log.
- `LogFollowsState`: the events of two commands on one gate may cross on the way to
  the log.
- `ReleaseNeedsEvidence`: an override is evidence for any gate.
- `CallsEnd`, `PendingIsWaiting`: a prompt its worker gave up keeps its entry until
  the agent answers or exits.
- `RequestsAnswered`: a request whose id is no u64 reaches no handler, and a wait that
  missed its exit with an endless timeout holds up those behind it.
- `NestingIsTrue`: a task counts as running until the pump is told of its end in a
  frame that still names it.
- `BoundToSpawner`: another device's native resume, and an insert between the two
  writes of another command.
- `AgentsFileLoads`: two writers inside `std::fs::write` at once, one that fails half
  way, and the operator's own edits; `EditOnce`: two writers at once.
- `ToldOfLoss`: a client that loses its entry to a new dial, a neighbour, a revocation
  or a listing made before it came, and a client whose own writer has ended.

### Bounds

- `event_stream`: two emitters (both orders of sending), one connection
  (connections share only the lock), a ring of 2, a broadcast and an outgoing
  channel of 1, three events: eviction, lag and a full channel all happen while a
  replay runs. The peer may stop reading at any moment.
- `approvals`: two requests, so that a decision can meet a rival, a timer and
  another request's entry. Each behaviour is in one of two halves, chosen at the
  start: in `race` two clients decide over four menus (the usual one, one with
  only a persistent grant, one with a missing and a repeated id, one with unknown
  kinds) and the agent reports nothing; in `labels` one client decides over the
  plain menu while the agent reports four activities (same call, rotated id, no
  id, no hash), one look-up per behaviour. Every step of the bridge is in both. A
  request without a number has the plain menu, as the bridge looks at nothing else.
- `session`: three connections, two incarnations (a resume needs one, a resume race
  needs two), two faults (failed meta writes and marks, a crash), a forget at any
  time, ACP and line agents. One id, since the registry's maps never relate two ids.
- `handoff`: one packet, two people, two connections, two executors, one progress
  event each, a channel of one event (so progress and outcome overflow it), one
  commit after the pin; strict pins and two signatures, the harder case of both
  policies. `handoff_busy`: two packets, no progress and no new commit.
- `extension_trust`: two extensions, two request ids, two profiles, two connections,
  four commands (request, approve, revoke, approve again is the shortest way to
  reuse a request), one failed save or crash, extensions that start revoked.
- `assessment_runs`: one run and one sweep of two families, both transports, two
  passes and two events per run, one client with two cancels (the second finds a task
  the first did not wake), outputs that are without a severity or with an unknown one,
  duplicated, out of the file, below the floor, of another version, or text.
- `event_log`: one session, one run and one sweep, three events, two sinks, two faults: a tear needs one, and what follows a tear needs the other.
  A finding's run row, the end of a run and a rebuild fit into three events.
- `release_gates`: two connections and two principals (the most a gate needs), one
  gate of each kind, one target, four commands, one override that expires after a
  tick, two commits, one fault.
- `acp_agent`: one prompt and one call with a timeout, one terminal, up to three
  requests of the agent (with one request in the plain form, with two also without a
  number, with three also with an endless wait), tasks nested two deep with a cap of
  2 so that a third is refused, a notification channel of 1 so that it lags.
  `MCLoads` divides what the environment does: calls with one request, two requests,
  three requests, four notifications alone, two notifications beside the tap.
- `commands`: two connections and one session id; `MCCases` divides the commands: one
  resume against every row of the store and every policy; create, resume and close by
  two operators; the profile and the registry changing under a command; the
  configuration commands among themselves; three approvals of one edit of a file
  that has its anchor never, once or twice; the prompts.
- `relay`: two dials of one bridge, two clients, two tokens of one session, a second
  session asked for by mistake, one token that may expire, writers that end at any
  time.

The bounds in guards are the `Max...` constants (`MaxSeq`, `MaxActivity`,
`MaxInc`, `MaxFaults`, `MaxExec`, `MaxHead`, `MaxProgress`, `MaxCommands`,
`MaxPasses`, `MaxEvents`, `MaxStarts`, `MaxCancels`, `MaxSinks`, `MaxNow`,
`MaxCommit`, `MaxCmds`, `MaxReqs`, `MaxOut`, `MaxDials`) and the `left` and
`edits` of a case in `MCCases`; `MaxPasses`, `MaxDepth` and the capacities are the
code's own constants made small. Deadlock is not checked: every model stops when a
bound is used up, and the systems may stop too when nobody acts.

### Fairness

- Tasks that are ready run: weak fairness on the steps of emitters, forwarders,
  outgoing tasks, pumps, timers, command tasks, watchdogs, the reaper, listeners,
  assessment tasks, the ACP reader, writer and handler tasks and the owners of
  terminals. tokio polls every woken task and none of these steps waits for anything
  but its own guard. A socket takes a frame when its peer reads and fails when the
  peer is gone; `OutgoingWrite` owes nothing to a peer that does neither.
- Timeouts and deadlines are owed: weak fairness on `Timeout`, `Deadline`,
  `TermWaitTimeout`, `OwnerTimeout`, since tokio's timers fire; a wait with an
  endless timeoutMs never times out. `ProcessDies` is owed because it is what
  SIGKILL does to a process.
- Strong fairness on the two sends into the bounded outgoing channel
  (`ForwarderSend`, `ReplaySend`): they compete for one slot, and tokio hands
  permits out first come first served, so a waiting sender that sees room again and
  again gets it. The ring's RwLock is likewise FIFO, and modelled as a queue.
- flock promises no order. `EveryCommandEnds` needs only weak fairness because
  the commands are finitely many: what it shows is that no circle of waiting
  exists, not that a command cannot be overtaken.
- Nobody is owed anything by agents, people, networks or disks: no fairness on
  asking, answering, reading, exiting, deciding, reconnecting, failing or crashing,
  and no worker is made to abandon its prompt. The
  modules without fairness (`EventLog`, `ReleaseGates`, the commands, `Relay`)
  have safety properties only.

## 4. The proofs

| Theorem | States | Module |
|---|---|---|
| `TypeCorrect` | `Spec => []TypeOK` | `Transport_proofs` |
| `RingAlwaysWindow` | `Spec => []RingWindow` | `Transport_proofs` |
| `LiveLosesNothing` | `Spec => []LiveAccounted` | `Transport_proofs` |
| `NothingMissedSilently` | `Spec => []NoSilentGap` | `Transport_proofs` |
| `ApprovalTypes` | `Spec => []TypeOK` | `Approvals_proofs` |
| `FirstDecisionWins` | `Spec => []DecidedOnce` | `Approvals_proofs` |
| `ToldIsTrue` | `Spec => []ToldTruth` | `Approvals_proofs` |
| `NoPersistentGrant` | `Spec => []NeverPersistent` | `Approvals_proofs` |
| `BadgesAreEarned` | `Spec => []LabelsTrue` | `Approvals_proofs` |
| `DecisionRefinement` | `Spec => OneDecision` | `Approvals_proofs` |
| `ApprovedJointly` | `Spec => []ApprovalIsJoint` | `Handoff_proofs` |
| `DispatchPrecedesOutcome` | `Spec => []OutcomeFollowsDispatch` | `Handoff_proofs` |
| `RefusedAreClosed` | `Spec => []RefusedIsClosed` | `Handoff_proofs` |
| `HistoryIsKept` | `IndexSpec => HistoryKept` | `AssessmentIndex_proofs` |
| `NumbersStayFresh` | `IndexSpec => []NumbersAreFresh` | `AssessmentIndex_proofs` |
| `LossesArePaid` | `IndexSpec => []LossNeedsTear` | `AssessmentIndex_proofs` |
| `IndexFollowsLog` | `IndexSpec => []ListedWasLogged` | `AssessmentIndex_proofs` |
| `RestartSeesState` | `Spec => []LogFollowsState` | `Verdicts_proofs` |
| `PassNeedsSigners` | `Spec => []PassIsSigned` | `Verdicts_proofs` |
| `EvidenceIsNeeded` | `Spec => ReleaseNeedsEvidence` | `Verdicts_proofs` |
| `SummariesAreTrue` | `RunsSpec => []SweepTellsTruth` | `Verdicts_proofs` |
| `CancelledSweepsStop` | `RunsSpec => []CancelStopsFamilies` | `Verdicts_proofs` |
| `StampIsRestored` | `LifeSpec => []StampRestored` | `Agent_proofs` |
| `TableIsExact` | `ActivitySpec => []PendingIsWaiting` | `Agent_proofs` |
| `ActivityNests` | `ActivitySpec => []NestingIsTrue` | `Agent_proofs` |
| `TrustTypes` | `Spec => []TypeOK` | `ExtensionTrust_proofs` |
| `ApprovalsAreApplied` | `Spec => []ApprovedWasApplied` | `ExtensionTrust_proofs` |
| `JointPromotion` | `Spec => PromotionIsJoint` | `ExtensionTrust_proofs` |
| `TrustRefinement` | `Spec => ActsAtOnce` | `ExtensionTrust_proofs` |
| `OneClientPerToken` | `RelaySpec => []TokenOnce` | `Transport_proofs` |
| `LossIsTold` | `RelaySpec => []ToldOfLoss` | `Transport_proofs` |
| `ResumeFollowsMatrix` | `WSpec => []ResumeMatrix` | `Workspace_proofs` |
| `OwnersStayBound` | `WSpec => []BoundToSpawner` | `Workspace_proofs` |
| `AddKeepsFile` | `WSpec => []AgentsFileLoads` | `Workspace_proofs` |
| `EditAppliesOnce` | `WSpec => []EditOnce` | `Workspace_proofs` |

**EventStream.** Invariant `RingInv == TypeOK /\ RingWindow`. The ring is touched
only by `EmitPush`, so the argument is about `Push`: it keeps a contiguous window
(`PushWindow`), and from a window the suffix that starts after a cursor is what
the filter selects (`SuffixAfter`), so `ReplayAfter` streams exactly the events
after the cursor (`ReplayAfterExact`). The type invariant needs the window: a
replay that streams must have something to stream. Assumptions: positive capacities
(`CapAssumption`) and emitters that are no connections (`ActorAssumption`).

`LiveAccounted` is inductive on top of `RingInv`: only `EmitPush` and `EmitSend`
touch numbers, and a number below `ring.next` is never given out again.
`NoSilentGap` needs all of that (`DeliveryInv`). What is on its way to a client is
five places (`CoveredParts`), and each step only moves an event to the next one:
from the emitter to the channel (`SendOwes`), to the forwarder (`RecvOwes`), to the
socket's queue (`ForwardOwes`, `ReplayOwes`), to the client (`WriteOwes`). Where one
is dropped, on lag or out of range, a notice takes its place. `ReadOwes`, where the
debt arises, is `ReplayAfterExact`. Two facts are added: a connection without a
forwarder is owed nothing (`NoForwarder`), or `Subscribe`, which starts at the
channel's tail, would lose events; and an idle replay has nothing left
(`NothingLeft`), or the next request would throw it away.

**Approvals.** `DecidedOnce` (one answer, one resolved event, one decider) is not
inductive: it does not exclude that a registered request is registered again or
an answered one is answered later. `DecisionInv` adds `Ledger` (a request is queued
once and before its timer; everything else about it comes after the timer; between
the timer's spawn and the insert nobody else knows it (`ArmingFresh`); an
answered request has left the map and the respond stage) and `Single` (a request
is held by the map, by one client, by its timer, or is resolved, and only one of
these). Assumptions: `No` is no request, id or request record, menus are sequences
of options, calls are records (`NoAssumption`, `OptionAssumption`,
`CallAssumption`).

`ToldTruth` and `NeverPersistent` follow from `TruthInv` on top of it. A command
carries an option that its intent permits (`Chosen`), after the respond stage the
agent has exactly that one (`Given`), and the acknowledgement and the event say so
(`AckTrue`, `EventTrue`). The steps in between may be interleaved with anything,
but a request is answered once, so what was true of its answer stays true. One more
assumption: the cancelled outcome is not an option id (`OutcomeAssumption`).

`LabelsTrue` needs `LabelInv` on top of both: only an approving command reaches the
record (`RecordsApprove`), each entry of the two correlation maps is a granted
request of exactly that tool call or hash (`MapsTrue`), and so is what a label took
from them (`BadgesTrue`). An entry outlives its command by far; it stays true
because an answer, once given, and the call it was given for never change
(`AnswersStay`, from `DecisionInv`).

`DecisionRefinement` shows that `Approvals` implements `DecisionRegister`. It says
more than the invariants do together: an answer is an option of the request's own
menu, none comes after the announcement, and a request is announced without an
answer only when the agent is gone. (`NeverPersistent`, which its kinds imply, needs
no run of its own.) Two facts join `DecisionInv` and `TruthInv`: a command
carries an id of its menu (`Offered`), and a timer that cancelled without an answer
found no agent (`SilentWhenGone`). `RespondAnswers` and `FireAnswers` map the
two ways to answer to `Answer`, `EmitTells` and `TimerTells` the two announcements to
`Tell`; the take, the record, the lost races and the correlation are stutters.

**Handoff.** Three lemmas describe what any step may do to a packet, a command and
an executor (`Moves`, `CommandsMove`, `ExecutorsMove`); the invariants are argued
from them. `ApprovedJointly`: the author signs first and never again
(`SignedByOthers`), a command that is about to sign is not the author's
(`Existing`), and what was approved has at least two signatures (`ApprovedByTwo`),
so even if all the later ones are one person's, two people signed; that suffices
because `required_signers` is at most 2. It is the code's count, the author's own
signature included; the documents ask for more (section 5).
`DispatchPrecedesOutcome`: what each stage of a dispatch may rely on is a fact of
the packet's history, which only grows (`StagesSeen`); it survives everything that
happens between a check and its update, which facts about the current status do not.
`RefusedAreClosed`: a command lets go of its executor only after it sent the prompt
or closed stdin (`Releases`); that is what `RefusedIsClosed` claims of line
executors. An ACP executor is let go the same way, but the call does nothing to it.
Assumption: the constants' ranges (`HandoffAssumption`).

**ExtensionTrust.** `Inv` says what a lock holder may rely on: whoever is about to
write the config holds its lock and its copy is the file with its own permitted
change (`TrustHeld`); the same for the request list (`ListHeld`, `ListCopy`); an
approval's request is stored and unchanged since it was checked (`Known`); an id
being written is nobody else's (`FreshIds`). `JointPromotion` follows because only
the two commits write the config. A copy loaded before the lock, or a lock released
before the rename, breaks `TrustHeld` at once.

`TrustRefinement` rests on the same `Inv`. Under the mapping (the two files are
themselves, `applied` is the history variable `saved`) four of the concrete steps
are steps of `TrustPolicy` and one lemma shows each: `UpdateCommit` is `SetTier`,
`RequestCommit` is `File`, `PromoteCommit` is `Promote`, `ApproveCommit` is
`Approve`. Each writes a whole file from a copy loaded steps ago; `Inv` says the
copy is still the file plus the command's own change, which is what the abstract
step asks. All other steps leave the files alone and stutter (`OthersStutter`).
Assumption: `No` is none of the ids (`TrustAssumption`).

**History.** `HistoryIsKept` shows that the file store, with its index, implements
`SessionHistory`; what a reader sees is the ids of the readable lines, and a log is
settled unless its last line lacks the newline; a broken log shows nothing and is
settled. Everything that writes a log does so through `Write`, and `WriteShows` says
that a write is `Extend`, `Lose`, `Break` or nothing: a write behind an unterminated
line joins it and neither can be read, which loses the unsettled line and adds none.
The invariant (`LogInv`) is small: a log is a sequence, only a log that has a line
ends in a whole one (else there were nothing to lose), and who is about to append
has an id. The index's steps leave the files alone (`IndexShows`). Assumptions: the
bounds are numbers, sweeps are tasks, and "none" is the id of no session.

The other three need `StoreInv` (what the fields of recorders, sinks and lines range
over) and `StoreStep`, which bounds what any step does to them. `NumbersAreFresh`
compares lines of the file; it becomes inductive with the numbers on their way
there: an open sink counts behind every line of its own and of earlier processes
(`Behind`), a number taken from it is none of theirs (`Ahead`), and two recorders at
one sink took different ones (`Distinct`). A sink that opens counts only what can be
read, and the numbers of unreadable lines are not compared, so `Behind` holds again
after a crash; that the number it starts with is above all of the file's is
`FirstSeqAbove`. A sink that opened blind is behind nothing of earlier processes,
and its lines say so. `LossNeedsTear` is an account: the
lost lines and the torn ends together are at most the tears (`Paid`), counted over
what stands in the files; a log that can be read shows all of that. A tear adds an
end, a loss takes one away (`Balance`), and a torn end's own line was never
acknowledged (`WholeUnacked`), so that a write behind it loses at most one.
`ListedWasLogged` follows what is on its way into the index: a mirror
(`MirrorsSeen`), a row in the index or in a client's copy of it (`RowsBacked`), the
lines a rebuild has loaded (`LoadsSeen`) are all backed by a line the log once held.

**ReleaseGates.** `GatesInv` speaks of three places: what the session shows, what a
restart would read from the log, and what a command has changed and not emitted yet.
In all of them a gate's snapshot is `Honest`: it passes with its signatures or by an
override of whatever duration, and never unasked; that gives `PassIsSigned` and, as
the check reads what the session shows, `ReleaseNeedsEvidence`. `Follows` makes
`LogFollowsState` inductive: on a key where no two commands crossed at most one
event is on its way (`Alone`) and it carries what the session shows, so that the log
shows the same once it is written. Targets are seeded together, and a release is
applied to seeded ones (`SeedTrue`). Assumptions: gates and targets are those of the
code, the bounds numbers (`GatesAssumption`).

**ToolActivity.** `PendingIsWaiting` is a property of `AcpAgent`, proved under what
`ToolActivity` adds. It lacks the moment between the registration and the write: who
is about to write, and has heard nothing, is in the table (`WriteHasEntry`). Nobody
but a prompt that was given up leaves an entry behind. `NestingIsTrue` lacks that
the stack holds a task once: otherwise a task that has ended and was popped is still
on it (`StackTrue`). The parent of a card is the topmost task that is not the card's
own (`Topmost`, by the order of the numbers), so it is on the stack, and not known
to have ended (`ParentOnStack`). Assumption: the limits are positive
(`ActivityAssumption`).

**SessionLifecycle.** `StampRestored` is inductive once the row and the commands'
copies of it are records (`StampInv`): who erases the id goes on to stamp it in the
same command, every later write of a copy carries the id (`MetaWriteKeeps`), a mark
leaves it alone, a forget takes the row with it, and a failed write, a failed mark
or a crash is counted. No assumption is needed.

**AssessmentRuns.** Of a sweep's children only the one it waits for runs (`OneRuns`,
by the order of spawn, adoption and report). The sweep's statistics are what its
children reported up to the current family (`RecordTrue`): who is not completed is in
the failures and in the status, who is completed has its verdict in the set. What the
sweep says at its end follows (`SweepSays`) and stays true, as it says it once
(`SaidTrue`). For the cancel: a flag is up before its command is acknowledged
(`FlagFirst`), and a child that began after that is its sweep's last: the sweep is at
it, or past the place where it would spawn another (`LastChild`); a sweep between
spawn and adoption has none. Assumption: the constants' ranges, runs of their own are
no children (`RunAssumption`).

**Relay.** `RelayInv` adds to the two properties what each lacks. `SoleHolder`: a
client past claim_by_opaque is the only one with its token, and the token is no
longer in the store; without the second half, somebody could still claim it.
`ToldBeforeLeaving`: while a dial is between telling the clients and removing the
entry, whoever is in the entry was told or has no writer left; without it the
removal would lose clients. `Forward` removes only those without a writer. No
assumption is needed.

**Commands.** `NextCases` sorts the steps of `WNext` by what they may do to the
commands: one goes on without registering a session (`Advance`), only c's changes
(`Turn`), and most touch neither configuration nor case (`Aside`). The four
invariants are argued from that, each with what its property lacks.

- `CommandInv`, for the resume matrix: what each stage of session.resume has
  established (`ResumeTrue`). Who is on the way to the agent asked for a native mode
  and read a row whose agent can load sessions (`NativeStages`); who is on the way to
  a replay was allowed one (`Replayable`); a session is registered by nobody else
  (`PutLate`). The policy may not change under a resume: config.reload does not reach
  it, and the proof uses that.
- `OwnerInv`, for ownership: insert, owner and reply are three steps. Nobody is told
  about a session while its claimant has yet to write the owner, and the owner it
  wrote is the one it will tell (`ClaimTrue`); whoever writes into another's claim
  ends it. A native resume by another device ends what the first was told.
- `LoadInv`, for agents.toml: the text in the hand of a command that is alone in the
  write was validated, and what it finds is the file it truncated; a write that fails
  half way is recorded in `spoiled`.
- `EditInv`, for the mutation: in the file, and in each text about to be written, the
  replacement occurs at most once, and only without its anchor (`Once`). Without the
  second half a second approval would add another.

Assumptions: the file the bridge started with loads (`ConfigAssumption`), the case is
of the right shape and "none" is no connection (`CaseAssumption`), and no
replacement is in a file before it is applied (`FileAssumption`).

The theorems hold for every number of actors and every value of the bounds: the
bounds are constants of which only the type is used.

**Only model-checked.** All liveness: it rests on fairness, which the prover does not
handle. Every safety invariant and action property of the passing runs is proved.
Where several components share a module of proofs they share nothing else: the names
of their specifications differ (`RelaySpec`, `LifeSpec`, `RunsSpec`) for that reason.

## 5. Findings

**Two packets can execute for one profile** (`handoff_busy`). The busy check of
`dispatch_local` precedes the spawn, and nothing asks again;
`docs/handoff-contract.md:316` allows one.

Other disagreements between the code and its documents or comments. The first eight
are behaviours of the models, left outside the property that is named; the rest was
read from the code while modelling.

- **One approver is enough for a two-party packet** (`ApprovalIsJoint`):
  create_handoff records the author as the first signer (`handoff/mod.rs:652`), so
  one `handoff.approve` by somebody else approves the packet;
  `docs/handoff-contract.md:252-254` and `docs/product-specs/handoff.md:966` keep it
  pending after one.
- **An ACP executor outlives its refused packet** (`RefusedIsClosed`): close_stdin
  takes a stdin that an ACP handle does not have (`session/handle.rs:1227`);
  `docs/handoff-contract.md:235` says that the executor cannot outlive the packet.
- **One tear can cost a whole history** (`LossNeedsTear`): load_events leaves with
  an error at a line that is no UTF-8 (`file_store.rs:284`); its comment at line 288
  would rather show some history than none. The rebuild of the index then fails for
  every session, and a resumed session's sink numbers from 0
  (`session/handle.rs:1321`).
- **An override stands for two signatures** (`ReleaseNeedsEvidence`):
  `docs/gates.md:196` forbids it for two-party gates, and line 179 asks for a
  longest duration; `gate.rs:154` and `gate.rs:358` ask for neither.
- **A late wait_for_exit can hang** (`RequestsAnswered`): the look at the exit code
  and the registration with the notifier are two steps
  (`terminal_handler.rs:471-478`); the comment above them (467-470) says the look
  prevents just this.
- **An ended task can stay on the stack** (`NestingIsTrue`): a completion frame
  without its rawInput is no task's to the pump (`session/handle.rs:3341`, comment
  at 3334).
- **A second device can take a session over** (`BoundToSpawner`): session.resume
  with a vac id asks for no owner and overwrites it (`translator/mod.rs:1407`); the
  comment at 1404-1406 says the first resumer stays the owner.
- **A failing write breaks agents.toml** (`AgentsFileLoads`): `std::fs::write`
  truncates the file before it fails (`registry_sync.rs:292`); the comment at
  288-289 says the config is never left broken.
- **A resume cursor can skip an event.** `emit_to` sends after it dropped the
  ring's lock (`session/handle.rs:1573`), so two emitters can broadcast 3 before 2;
  a client that disconnects in between resumes from the highest number it saw
  (`apps/web/src/transport/relay.ts:59-63`) and never gets 2.
- **session.close does not end the child.** `docs/architecture.md:178` promises a
  graceful shutdown and a kill; the handler only removes the registry entry.
- **A resumed session can stay silent.** The connection's `subscribed` set still
  holds the id from the previous handle, so the auto-subscription of
  `ws/handler.rs:246` does nothing after a native resume on the same socket.
- **A failed assessment run is not always reported** as
  `docs/assessment-contract.md:95` says.
- **A kind that the profile forbids can be started**: registry.reload between the
  check of session.create and its spawn exchanges the agent (`docs/protocol.md:104`,
  `registry.rs:444`).
- **`native_fallback: fail` is ignored** when the row's agent cannot load sessions
  (`translator/mod.rs:1917-1932`, `config/sessions/resume-policy.yaml:18-20`).
- **A live session without an owner**: a late removal or `set_owner` can leave one, or
  a row without a session, unlike `registry.rs:817-819`.
- **A failed forget is recorded nowhere**, though `persistence/mod.rs:98-99` and
  `translator/mod.rs:2091` say the health shows it.
- **A silent stall at the relay**: the client loop's own sender keeps its writer
  open, so the comment at `route.rs:145-146` does not hold for clients that are
  dropped rather than told.
- **A tap's sub-session can be bound to the wrong task** for good (`tap.rs:22-25`:
  "degraded but never wrong"), unbound frames are skipped although the doc says
  they surface at top level, and a tap keeps reconnecting after close: the drainer
  holds the handle that holds the tap.
- **The workflow task outlives its session.** `workflows/process.rs:22` says it
  lives until the broadcast channel closes; it holds a sender of that channel
  itself (`process.rs:36`), so the channel never closes for it.

Behaviours the models reach that no document forbids, or that are about a loss
nobody claims to prevent:

- Events: a client that stops reading while its TCP connection stays up, during a
  replay, keeps the ring's read guard and so freezes every emitter of the session
  (`ws/handler.rs:117-123`, 333-339); the write has no time limit.
- Sessions: the reaper collects ids, then drops entries, so a handle that a resume
  inserted in between is dropped while alive; a crash between the erasure and the
  restoration of the agent's session id makes the session not natively resumable;
  the meta refresh after session/load (`handle.rs:2949`) writes its snapshot back
  and can overwrite a watchdog's mark, so that the row says active again after the
  child ended; a mark that fails is only logged; a native resume of a live session
  starts a second child (`docs/architecture.md:53` speaks of one), and the crash of
  a child emits transcript.error only (`docs/agent-runtime.md:836` expects more).
- Approvals: a request whose id is no u64 is ignored and never answered; a timer that
  ends before its entry is inserted finds nothing, and the entry waits for a client
  alone; the correlation sweep can remove an entry recorded a moment ago, and
  an activity reported between the answer and its record gets no label; a decision
  whose answer does not reach the agent is not announced.
- Handoffs: a rejection and an approval of one packet can both be acknowledged; a
  person who approves twice at once is listed twice (`ApprovalIsJoint` counts
  people); a line executor that exits cleanly without a report (`handle.rs:790`)
  leaves its packet executing.
- Trust: a request stays pending when the list cannot be saved, and can be approved
  again later, after a new revocation too; a request is applied although the
  extension is no longer revoked; one profile can move an extension from revoked to
  quarantined to allowed (`extensions/handlers.rs:287`; `docs/adr/0004` and
  `docs/extension-trust-model.md:129` disagree on it).
- Assessments: a cancel during an ACP pass takes effect at the next pass, at a
  second cancel or at the deadline; it may be acknowledged while the run completes;
  findings are deduplicated within a pass only; all passes share one deadline; a run
  fails on a rejected envelope, unlike the comment at `assessment_schema.rs:15`.
- Persistence: a torn tail is joined with the next line, which loses an
  acknowledged event; the index then shows a run the log lost. Two live sinks of
  one session number alike. A rebuilt index has its rows under the session
  "unknown", so list_runs of a session answers from later rows alone and still calls
  itself complete (`assessment_query.rs:329-334`); forget leaves index rows.
- Gates: the events of two commands on one gate can enter the log in the opposite
  order, and a restart then shows the older state; an expired override hides its
  sign-offs until the gate is touched; a MutationAuditClean gate that was never
  synced counts as missing; a failed load leaves targets unseeded; a gate may close
  between check and application.
- ACP: the kill of an exited terminal still marks its row superseded;
  `terminal_mutation_request_ids` never shrinks; an assessment worker that drops its
  prompt's future leaves the entry in the pending table; file and terminal requests
  whose id is no u64 are never answered; a late frame without status pushes an ended
  task again; the parent of a card may change between frames; sub-sessions of
  sub-sessions are skipped.
- Commands: a profile is cached for the life of the process where commands are
  checked, and read anew by create and resume; replay_only without a vac id falls
  back to the ring; config.reload does not change the enforced resume policy; two
  additions of different agents can lose one, two reloads can leave the older text,
  and an overlap inside `std::fs::write` can break agents.toml; sync caches
  a body before it is parsed. No record of mutation requests is kept: an edit whose
  replacement contains its anchor is applied as often as it is approved, of two
  racing edits one may be lost, and a client may be told "failed" though its
  edit is there. Several prompts may be on their way to one agent.
- Relay: a client whose writer ended is dropped while its reader waits on, and what
  it sends still reaches the bridge; registering replaces an entry and drops its
  clients silently; the old loop then tells and removes the new entry's clients; a
  client that attaches between listing and removal is never told; a client that
  leaves drops its neighbours in the session; a revocation tells nobody, and a dial
  that was checked before it registers afterwards. The tunnel echoes frames (the
  integration is a TODO, `tunnel.rs:167`).

## 6. Plan

| Module | Composes | Questions | |
|---|---|---|---|
| `EventStream` | `EventRing` | loss, order, waiting | done |
| `Approvals` | implements `DecisionRegister` | one decision, truth, timeouts | done |
| `SessionLifecycle` | transition matrix | end of a child, resume races | done |
| `Handoff` | executor sessions | joint approval, order, crash | done |
| `ExtensionTrust` | implements `TrustPolicy` | locks over two files | done |
| `AssessmentRuns` | – | cancel, deadline, truth of a sweep | done |
| `EventLog`, `AssessmentIndex` | implements `SessionHistory` | torn tail, numbering, index against log | done |
| `ReleaseGates` | – | expiry, sign-offs, log against state | done |
| `AcpAgent`, `ToolActivity` | one agent | every request ends, nesting | done |
| `CommandDispatch`, `Workspace` | `AgentConfig` | ownership, resume matrix, files | done |
| `Relay` | tunnel supervisor | replaced bridges, tokens, clients told | done |
| `WorkflowExecutor` | `ToolActivity` (its events are the signals) | steps along edges, lost and late signals, the end of the task | next |
| `Limits` | – | the limit under concurrent acquire and roll-back, counted drops | after it |
| `Pairing` | – | a code redeemed twice | after it |
| `WebTransport` | `EventStream` | resume cursor against reordering | last |

Theorems next: the safety invariants of each module above, together with the module.

The runs are kept few, one for each component or pair of components that
interact, safety and liveness together, so that all of them are quick to repeat.

## 7. Not modelled

- **Workflow executor, limits and audit, pairing**: planned above. **Web transport**:
  the client of the system; the bridge checks nothing about its cursor.
- **Inside modelled parts**: executor spawn in `SessionLifecycle` (it is `Handoff`'s
  `Spawn`), the loading of extensions by tier (no loader calls it yet), the rules
  inside a profile (a pure decision, here a set of what is allowed), the diff,
  evidence preview, report and index status queries, list_targets and
  append_observation, the capping of terminal output, exit codes and path policy,
  signatures of dial and admin tokens, half-open connections (they stay up until
  noticed), the tap's HTTP stream and its backoff.
- **Payloads, wording, formatting, logging, audit text**: no property is about
  them. Signature checks, git and process spawning are calls that succeed or fail.
- **Stores and views of the cockpit, generated protocol types, mocks and
  performance tools, observability**: display, definitions and test tooling.
- **Out of the prover's reach**: liveness, and what recursive definitions compute
  for every input; the former is left to TLC and the latter avoided.
