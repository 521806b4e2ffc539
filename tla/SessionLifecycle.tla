-------------------------- MODULE SessionLifecycle --------------------------
(***************************************************************************)
(* The life of one session id in the local bridge: the registry that maps  *)
(* the id to a live handle (session/registry.rs), the agent child and the  *)
(* watchdog task each handle owns (session/handle.rs), the persisted meta  *)
(* row, and the connections that create, resume and close the session      *)
(* (translator/mod.rs).  The registry has one entry per id and nothing     *)
(* here crosses ids, so one id is enough.  Who may name the session is     *)
(* CommandDispatch's subject, who listens to it EventStream's.             *)
(*                                                                         *)
(* A session id outlives its handles: every native resume spawns another   *)
(* child and builds another handle under the same id.  Incarnation i is    *)
(* the i-th child spawned for the id.  A connection handles one command at *)
(* a time, but commands of different connections, the watchdogs and the    *)
(* reaper run on different threads and interleave between any two of the   *)
(* steps below.                                                            *)
(***************************************************************************)
EXTENDS Naturals

CONSTANTS
    Conns,          \* WebSocket connections
    MaxInc,         \* bound: children spawned for the id
    MaxFaults,      \* bound: failed meta writes plus bridge crashes
    Natives         \* the transports the agent may have (see native)

ASSUME LifecycleAssumption ==
    /\ MaxInc \in Nat \ {0}
    /\ MaxFaults \in Nat
    /\ Natives \subseteq BOOLEAN

VARIABLES
    native,         \* TRUE: the agent speaks ACP; FALSE: line JSON-RPC
    inc,            \* children spawned so far
    hs,             \* StateHolder of each incarnation's handle
    process,        \* the incarnation's process
    wd,             \* its watchdog task
    sink,           \* TRUE when the handle has a persistence sink
    reg,            \* registry entry: the incarnation, or 0
    reaper,         \* where the reaper is in its tick
    meta,           \* meta.json of the id
    ended,          \* history: incarnations whose end has been written to the row
    op,             \* the command each connection is executing
    faults          \* failed meta writes and bridge crashes so far

lifeVars == <<native, inc, hs, process, wd, sink, reg, reaper, meta, ended, op,
              faults>>
procs == <<native, inc, hs, process, wd, sink>>       \* handles and their tasks

Incs == 1..MaxInc
NoMeta == [there |-> FALSE, status |-> "active", agent |-> FALSE]
NoCommand == [pc |-> "idle", inc |-> 0, resume |-> FALSE, snap |-> NoMeta]

-----------------------------------------------------------------------------
(* bridge-core's transition matrix and StateHolder::transition.            *)

AllowedTransition ==
    {<<"Spawning", "Ready">>, <<"Spawning", "Closing">>, <<"Spawning", "Closed">>,
     <<"Ready", "Active">>, <<"Ready", "Closing">>, <<"Ready", "Idle">>,
     <<"Active", "Idle">>, <<"Active", "Closing">>, <<"Idle", "Active">>,
     <<"Idle", "Closing">>, <<"Closing", "Closed">>}

\* An illegal request leaves the state alone; every caller drops the error.
Transition(from, to) == IF <<from, to>> \in AllowedTransition THEN to ELSE from

LifeInit ==
    /\ native \in Natives
    /\ inc = 0
    /\ hs = [i \in Incs |-> "Spawning"]
    /\ process = [i \in Incs |-> "none"]
    /\ wd = [i \in Incs |-> "none"]
    /\ sink = [i \in Incs |-> FALSE]
    /\ reg = 0
    /\ reaper = "idle"
    /\ meta = NoMeta
    /\ ended = {}
    /\ op = [c \in Conns |-> NoCommand]
    /\ faults = 0

Goto(c, pc) == op' = [op EXCEPT ![c].pc = pc]
Done(c) == op' = [op EXCEPT ![c] = NoCommand]

-----------------------------------------------------------------------------
(* Spawning a handle.                                                      *)

SpawnChild(c, resume) ==
    /\ inc < MaxInc
    /\ inc' = inc + 1
    /\ process' = [process EXCEPT ![inc + 1] = "up"]
    /\ op' = [op EXCEPT ![c] = [pc |-> "init", inc |-> inc + 1, resume |-> resume,
                                snap |-> NoMeta]]
    /\ UNCHANGED <<native, hs, wd, sink, reg, reaper, meta, ended, faults>>

\* session.create: the id is a fresh ULID, so it happens once per id.
Create(c) ==
    /\ op[c].pc = "idle"
    /\ inc = 0
    /\ SpawnChild(c, FALSE)

\* What the native path needs of the meta row.  Agent, profile and project
\* root may refuse it too; a refusal changes nothing here.
Resumable == meta.there /\ meta.agent

\* session.resume in a native mode.  Nothing asks whether the id already has a
\* live handle.
Resume(c) ==
    /\ op[c].pc = "idle"
    /\ Resumable
    /\ SpawnChild(c, TRUE)

\* `initialize` or `session/new` fails: the error path drops the Child, and
\* kill_on_drop ends the process.
SpawnFails(c) ==
    /\ op[c].pc = "init"
    /\ process' = [process EXCEPT ![op[c].inc] = IF @ = "up" THEN "killed" ELSE @]
    /\ Done(c)
    /\ UNCHANGED <<native, inc, hs, wd, sink, reg, reaper, meta, ended, faults>>

AfterSink == IF native THEN "stamp" ELSE "ready"

\* build_persistence_sink: a new row over the old one, with no agent session
\* id yet.  When the write fails the handle runs without a sink.
BuildSink(c) ==
    /\ op[c].pc = "init"
    /\ \/ /\ meta' = [there |-> TRUE, status |-> "active", agent |-> FALSE]
          /\ sink' = [sink EXCEPT ![op[c].inc] = TRUE]
          /\ UNCHANGED faults
       \/ /\ faults < MaxFaults
          /\ faults' = faults + 1
          /\ UNCHANGED <<meta, sink>>
    /\ Goto(c, AfterSink)
    /\ UNCHANGED <<native, inc, hs, process, wd, reg, reaper, ended>>

\* The read half of persist_acp_session_details and of the refresh after
\* session/load.
MetaRead(c, from, to, skip) ==
    /\ op[c].pc = from
    /\ op' = [op EXCEPT ![c].snap = meta, ![c].pc = IF meta.there THEN to ELSE skip]
    /\ UNCHANGED <<procs, reg, reaper, meta, ended, faults>>

\* The write half: the row read before, with the agent's session id in it.
\* Each half takes the store's lock, the pair does not.
MetaWrite(c, from, to) ==
    /\ op[c].pc = from
    /\ \/ meta' = [op[c].snap EXCEPT !.agent = TRUE] /\ UNCHANGED faults
       \/ faults < MaxFaults /\ faults' = faults + 1 /\ UNCHANGED meta
    /\ Goto(c, to)
    /\ UNCHANGED <<procs, reg, reaper, ended>>

\* Mutant: the details are stamped only for a new agent session.
StampRead_only_on_create(c) ==
    IF op[c].resume
    THEN /\ op[c].pc = "stamp"
         /\ Goto(c, "ready")
         /\ UNCHANGED <<procs, reg, reaper, meta, ended, faults>>
    ELSE MetaRead(c, "stamp", "stamping", "ready")

StampRead(c) == MetaRead(c, "stamp", "stamping", "ready")
StampWrite(c) == MetaWrite(c, "stamping", "ready")
VerifyRead(c) == MetaRead(c, "verify", "verifying", "insert")
VerifyWrite(c) == MetaWrite(c, "verifying", "insert")

\* The handle turns Ready, its pumps start, and the watchdog takes the Child.
BecomeReady(c) ==
    LET i == op[c].inc IN
    /\ op[c].pc = "ready"
    /\ hs' = [hs EXCEPT ![i] = Transition(@, "Ready")]
    /\ wd' = [wd EXCEPT ![i] = "waiting"]
    /\ Goto(c, IF op[c].resume THEN "load" ELSE "insert")
    /\ UNCHANGED <<native, inc, process, sink, reg, reaper, meta, ended, faults>>

\* The agent answers the deferred session/load, and session.resumed is emitted.
LoadSucceeds(c) ==
    /\ op[c].pc = "load"
    /\ Goto(c, "verify")
    /\ UNCHANGED <<procs, reg, reaper, meta, ended, faults>>

\* It refuses, or its stdout ends: spawn_acp returns an error and nothing is
\* registered, but the watchdog and the pumps keep the handle and the child.
LoadFails(c) ==
    /\ op[c].pc = "load"
    /\ Done(c)
    /\ UNCHANGED <<procs, reg, reaper, meta, ended, faults>>

\* The DashMap insert replaces whatever entry the id had.
Insert(c) ==
    /\ op[c].pc = "insert"
    /\ reg' = op[c].inc
    /\ Done(c)
    /\ UNCHANGED <<procs, reaper, meta, ended, faults>>

-----------------------------------------------------------------------------
(* session.resume and session.close of a live handle.                      *)

\* session.resume without a native mode: the live handle turns Active.
Reactivate(c) ==
    /\ op[c].pc = "idle"
    /\ reg # 0
    /\ hs' = [hs EXCEPT ![reg] = Transition(@, "Active")]
    /\ UNCHANGED <<native, inc, process, wd, sink, reg, reaper, meta, ended, op, faults>>

\* session.close: SessionRegistry::remove drops the entry.  No signal reaches
\* the child, whose tasks hold the handle.
Close(c) ==
    /\ op[c].pc = "idle"
    /\ reg # 0
    /\ reg' = 0
    /\ UNCHANGED <<procs, reaper, meta, ended, op, faults>>

\* session.history.forget removes the row, live handle or not.
Forget(c) ==
    /\ op[c].pc = "idle"
    /\ meta.there
    /\ meta' = NoMeta
    /\ UNCHANGED <<procs, reg, reaper, ended, op, faults>>

-----------------------------------------------------------------------------
(* Children, watchdogs, the reaper and the bridge process.                 *)

\* The agent ends, with or without success.
ChildEnds(i) ==
    /\ process[i] = "up"
    /\ \E how \in {"exited", "crashed"} : process' = [process EXCEPT ![i] = how]
    /\ UNCHANGED <<native, inc, hs, wd, sink, reg, reaper, meta, ended, op, faults>>

\* The handle's two transitions in a row; nothing tells the state between
\* them from the last one.
ShutDown(i) == hs' = [hs EXCEPT ![i] = Transition(Transition(@, "Closing"), "Closed")]

\* The line pump of a JSON-RPC agent reaches the end of stdout.
StdoutEnds(i) ==
    /\ ~native
    /\ wd[i] # "none"
    /\ hs[i] # "Closed"
    /\ ShutDown(i)
    /\ UNCHANGED <<native, inc, process, wd, sink, reg, reaper, meta, ended, op, faults>>

\* Mutant: the watchdog records the end but leaves the state alone.
WatchdogCloses_not(i) ==
    /\ wd[i] = "waiting"
    /\ process[i] # "up"
    /\ wd' = [wd EXCEPT ![i] = "marking"]
    /\ UNCHANGED <<native, inc, hs, process, sink, reg, reaper, meta, ended, op, faults>>

\* child.wait() returns: the handle goes to Closed.
WatchdogCloses(i) ==
    /\ wd[i] = "waiting"
    /\ process[i] # "up"
    /\ ShutDown(i)
    /\ wd' = [wd EXCEPT ![i] = "marking"]
    /\ UNCHANGED <<native, inc, process, sink, reg, reaper, meta, ended, op, faults>>

EndOf(i) == IF process[i] = "crashed" THEN "failed" ELSE "closed"

\* Mutant: only the handle the registry knows is marked.
WatchdogMarks_if_registered(i) ==
    /\ wd[i] = "marking"
    /\ IF sink[i] /\ meta.there /\ reg = i
       THEN meta' = [meta EXCEPT !.status = EndOf(i)] /\ ended' = ended \cup {i}
       ELSE UNCHANGED <<meta, ended>>
    /\ wd' = [wd EXCEPT ![i] = "done"]
    /\ UNCHANGED <<native, inc, hs, process, sink, reg, reaper, op, faults>>

\* Then the sink, if there is one, marks the row.  mark_status reads and
\* writes under one lock; when the row is gone or the store fails, a warning
\* is all that is left of the end.
WatchdogMarks(i) ==
    /\ wd[i] = "marking"
    /\ \/ /\ ~sink[i]
          /\ wd' = [wd EXCEPT ![i] = "done"]
          /\ UNCHANGED <<meta, ended, faults>>
       \/ /\ sink[i] /\ meta.there
          /\ wd' = [wd EXCEPT ![i] = "done"]
          /\ meta' = [meta EXCEPT !.status = EndOf(i)]
          /\ ended' = ended \cup {i}
          /\ UNCHANGED faults
       \/ /\ sink[i] /\ ~meta.there
          /\ wd' = [wd EXCEPT ![i] = "lost"]
          /\ UNCHANGED <<meta, ended, faults>>
       \/ /\ sink[i] /\ meta.there /\ faults < MaxFaults
          /\ wd' = [wd EXCEPT ![i] = "lost"]
          /\ faults' = faults + 1
          /\ UNCHANGED <<meta, ended>>
    /\ UNCHANGED <<native, inc, hs, process, sink, reg, reaper, op>>

\* A tick finds the entry terminal and remembers its id.
ReaperScans ==
    /\ reaper = "idle"
    /\ reg # 0
    /\ hs[reg] = "Closed"
    /\ reaper' = "drop"
    /\ UNCHANGED <<procs, reg, meta, ended, op, faults>>

\* It removes the entry of that id, whatever the entry is by then.
ReaperDrops ==
    /\ reaper = "drop"
    /\ reg' = 0
    /\ reaper' = "idle"
    /\ UNCHANGED <<procs, meta, ended, op, faults>>

\* The bridge process dies and starts again.  Its children lose their pipes
\* and end; only the meta row is left.
BridgeCrash ==
    /\ faults < MaxFaults
    /\ faults' = faults + 1
    /\ inc > 0
    /\ hs' = [i \in Incs |-> "Spawning"]
    /\ process' = [i \in Incs |-> IF process[i] = "up" THEN "killed" ELSE process[i]]
    /\ wd' = [i \in Incs |-> "none"]
    /\ sink' = [i \in Incs |-> FALSE]
    /\ reg' = 0
    /\ reaper' = "idle"
    /\ op' = [c \in Conns |-> NoCommand]
    /\ UNCHANGED <<native, inc, meta, ended>>

-----------------------------------------------------------------------------
\* What a connection's task does on its own, once a command has arrived and
\* the agent has answered.
CommandStep(c) ==
    \/ BuildSink(c) \/ StampRead(c) \/ StampWrite(c) \/ BecomeReady(c)
    \/ VerifyRead(c) \/ VerifyWrite(c) \/ Insert(c)

Watchdog(i) == WatchdogCloses(i) \/ WatchdogMarks(i)
Reaper == ReaperScans \/ ReaperDrops

LifeNext ==
    \/ \E c \in Conns :
        \/ Create(c) \/ Resume(c) \/ SpawnFails(c) \/ LoadSucceeds(c) \/ LoadFails(c)
        \/ Reactivate(c) \/ Close(c) \/ Forget(c)
        \/ CommandStep(c)
    \/ \E i \in Incs : ChildEnds(i) \/ StdoutEnds(i) \/ Watchdog(i)
    \/ Reaper
    \/ BridgeCrash

LifeSpec == LifeInit /\ [][LifeNext]_lifeVars

\* Spawned tasks that can run do run.  Agents owe nothing: they may never
\* answer and never end.
LifeFairSpec ==
    /\ LifeSpec
    /\ \A c \in Conns : WF_lifeVars(CommandStep(c))
    /\ \A i \in Incs : WF_lifeVars(Watchdog(i))
    /\ WF_lifeVars(Reaper)

-----------------------------------------------------------------------------
(* Properties.                                                             *)

Stamping(c) == op[c].pc \in {"stamp", "stamping"}

\* Every spawn first erases the agent's session id from the meta row and
\* writes it back a moment later.  With the store working and no crash the id
\* is there again whenever no spawn is between the two, however spawns of the
\* same session interleave, so the session can be resumed natively again.
StampRestored ==
    (native /\ faults = 0 /\ meta.there /\ \A c \in Conns : ~Stamping(c)) => meta.agent

\* A registered session whose child is gone leaves the registry: watchdog,
\* state machine and reaper together lose none (registry.rs spawn_reaper).
DeadIsReaped ==
    \A i \in Incs : (reg = i /\ process[i] \in {"exited", "crashed"}) ~> reg # i

\* The end of each child is written to the meta row, also when its session has
\* left the registry by then, closed by the user or reaped after its stdout ended
\* (handle.rs, the watchdog's last step).  Outside it: a bridge crash, which takes
\* the sink away, and a mark that the store refuses or that finds the row
\* forgotten, of which only a warning is left.
EndReachesDisk ==
    \A i \in Incs :
        (sink[i] /\ process[i] \in {"exited", "crashed"} /\ wd[i] \in {"none", "waiting", "marking"})
            ~> (i \in ended \/ wd[i] = "lost" \/ ~sink[i])
=============================================================================
