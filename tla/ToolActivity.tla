---------------------------- MODULE ToolActivity ----------------------------
(****************************************************************************)
(* What the bridge makes of the notifications of an ACP agent: the pump of  *)
(* spawn_acp with map_acp_update and map_tool_activity (session/handle.rs,  *)
(* agent_runtime/acp/tool_activity.rs), and for an OpenCode agent the tap   *)
(* on its HTTP server (agent_runtime/opencode_serve/tap.rs).                *)
(*                                                                          *)
(* The reader of AcpAgent puts notifications into a broadcast channel that  *)
(* drops the oldest when the pump is slow.  The pump keeps the stack of the *)
(* sub-agent tasks it believes running, and shows every event under the     *)
(* task on top.  The tap hears of sub-agent sessions from elsewhere, in its *)
(* own time, and binds each to the task on top when it hears of it.         *)
(*                                                                          *)
(* A notification is a tool call's frame or one of the others; of a tool    *)
(* call its id, status, and what it shows: a task names its subagent_type,  *)
(* an edit has diffs.  Approval labels are the subject of Approvals;        *)
(* redaction, hashes and the shape of ids are left out.                     *)
(****************************************************************************)
EXTENDS AcpAgent

CONSTANTS
  Frames,     \* session/update notifications the agent may send
  Subs,       \* sub-agent sessions of an OpenCode agent
  UpdCap,     \* capacity of the notification channel (256 in the code)
  MaxDepth    \* MAX_SUBAGENT_DEPTH

ASSUME ActivityAssumption == UpdCap \in Nat \ {0} /\ MaxDepth \in Nat \ {0}

VARIABLES
  said,      \* notifications the agent has sent
  upd,       \* the notification channel
  pump,      \* the pump's event lanes still to emit, and the parent they name
  scope,     \* AcpRuntime.task_scope
  tap,       \* run_subscriber_loop: "off", "connecting" or "streaming"
  bind,      \* OpencodeSubagentTap.bindings
  drain,     \* the drainer's lanes still to emit, and their parent
  last,      \* history: what the frames the pump handled say of each task
  refused    \* history: the depth cap has refused a task

activity == <<said, upd, pump, scope, tap, bind, drain, last, refused>>
taps == <<tap, bind, drain>>

Tools == {f.tool : f \in Frames}
Silent == [todo |-> << >>, parent |-> "none"]

ActivityInit ==
  /\ Init
  /\ said = 0 /\ upd = << >> /\ pump = Silent /\ scope = << >>
  /\ tap = IF load.tap THEN "connecting" ELSE "off"
  /\ bind = [s \in Subs |-> "none"] /\ drain = Silent
  /\ last = [t \in Tools |-> "none"] /\ refused = FALSE

-----------------------------------------------------------------------------
(* Frames and lanes.                                                        *)

\* An update without a status is taken for progress, a call for pending.
Status(f) ==
  IF f.status # "none" THEN f.status
  ELSE IF f.disc = "tool_call_update" THEN "in_progress" ELSE "pending"

IsTool(f) == f.disc \in {"tool_call", "tool_call_update"}
IsTask(f) == IsTool(f) /\ f.what = "task"
IsLive(f) == Status(f) \in {"pending", "in_progress"}

\* The events one notification becomes, in order.
Lanes(f) ==
  CASE f.disc = "unknown" -> << >>
    [] f.disc = "message" -> <<"delta">>
    [] f.disc = "thought" -> <<"thought", "delta">>
    [] OTHER ->
         <<"tool", "call">>
         \o (IF f.what = "edit" THEN <<"diff", "review">> ELSE << >>)
         \o (IF f.what = "execute" /\ Status(f) # "pending" THEN <<"terminal", "runtime">> ELSE << >>)

-----------------------------------------------------------------------------
(* The stack of tasks.                                                      *)

Listed(t) == \E i \in DOMAIN scope : scope[i] = t
Full == Len(scope) >= MaxDepth

\* try_push_task_scope.
Enter(t) == IF Listed(t) \/ Full THEN scope ELSE Append(scope, t)

\* Mutant: the task that ended is taken to be the last that began.
Exit_top(t) == IF scope = << >> THEN scope ELSE SubSeq(scope, 1, Len(scope) - 1)

\* exit_task_scope: retain, of a stack that has no task twice.
Exit(t) ==
  IF Listed(t)
  THEN LET i == CHOOSE i \in DOMAIN scope : scope[i] = t
       IN  [j \in 1..(Len(scope) - 1) |-> scope[IF j < i THEN j ELSE j + 1]]
  ELSE scope

ScopeAfter(f) ==
  IF ~IsTask(f) THEN scope ELSE IF IsLive(f) THEN Enter(f.tool) ELSE Exit(f.tool)

\* current_task_parent: the topmost that is another task.
Parent(stack, t) ==
  LET others == {i \in DOMAIN stack : stack[i] # t}
  IN  IF others = {} THEN "none" ELSE stack[CHOOSE i \in others : \A j \in others : j <= i]

\* A task whose end comes without its subagent_type is "unnamed": to the pump it
\* is no task's end.
LastAfter(f) ==
  CASE IsTask(f) -> [last EXCEPT ![f.tool] = IF IsLive(f) THEN "live" ELSE "ended"]
    [] IsTool(f) /\ ~IsTask(f) /\ ~IsLive(f) /\ last[f.tool] = "live" ->
         [last EXCEPT ![f.tool] = "unnamed"]
    [] OTHER -> last

-----------------------------------------------------------------------------
(* The notification channel and the pump.                                   *)

AgentNotifies(f) ==
  /\ said < load.frames
  /\ Say([kind |-> "update", id |-> f, res |-> "none"])
  /\ said' = said + 1
  /\ UNCHANGED <<bridge, wire, reader, req, fs, terms, upd, pump, scope, taps, last, refused>>

\* The oldest notification makes room; the pump logs that it lagged.
ReadUpdate ==
  /\ reader = "run" /\ out # << >> /\ Head(out).kind = "update"
  /\ out' = Tail(out)
  /\ upd' = Append(IF Len(upd) = UpdCap THEN Tail(upd) ELSE upd, Head(out).id)
  /\ UNCHANGED <<bridge, wire, reader, req, fs, terms, said, pump, scope, taps, last, refused>>

\* map_acp_update: the stack first, then the parent the events will name.
PumpTake ==
  LET f == Head(upd) IN
  /\ pump.todo = << >> /\ upd # << >>
  /\ upd' = Tail(upd)
  /\ scope' = ScopeAfter(f)
  /\ pump' = [todo |-> Lanes(f), parent |-> Parent(scope', f.tool)]
  /\ last' = LastAfter(f)
  /\ refused' = (refused \/ (IsTask(f) /\ IsLive(f) /\ Full /\ ~Listed(f.tool)))
  /\ UNCHANGED <<vars, said, taps>>

PumpEmit ==
  /\ pump.todo # << >>
  /\ pump' = IF Len(pump.todo) = 1 THEN Silent ELSE [pump EXCEPT !.todo = Tail(@)]
  /\ UNCHANGED <<vars, said, upd, scope, taps, last, refused>>

-----------------------------------------------------------------------------
(* The tap.                                                                 *)

TapConnects ==
  /\ tap = "connecting" /\ child = "up"
  /\ tap' = "streaming"
  /\ UNCHANGED <<vars, said, upd, pump, scope, bind, drain, last, refused>>

\* The stream ends or fails, or the agent is gone: subscribe again after the
\* backoff.  What the server sent meanwhile is not asked for.
TapDrops ==
  /\ tap = "streaming" /\ tap' = "connecting"
  /\ UNCHANGED <<vars, said, upd, pump, scope, bind, drain, last, refused>>

\* session.updated of a sub-session, the first the tap sees or a repetition.
TapSession(s) ==
  /\ tap = "streaming" /\ child = "up" /\ bind[s] = "none"
  /\ bind' = [bind EXCEPT ![s] = Parent(scope, "none")]
  /\ UNCHANGED <<vars, said, upd, pump, scope, tap, drain, last, refused>>

\* build_activity: a completion has lost the tool's name and input.
SubLanes(what) ==
  <<"tool", "call">> \o (IF what = "edit" THEN <<"diff">> ELSE << >>)
                     \o (IF what = "execute" THEN <<"terminal">> ELSE << >>)

\* A tool call of a sub-session starts or completes; one of a session that is
\* not bound is skipped.  The drainer's channel holds one event here.
TapTool(s, what) ==
  /\ tap = "streaming" /\ child = "up" /\ bind[s] # "none" /\ drain.todo = << >>
  /\ drain' = [todo |-> SubLanes(what), parent |-> bind[s]]
  /\ UNCHANGED <<vars, said, upd, pump, scope, tap, bind, last, refused>>

\* emit_subagent_activity_lanes.
DrainEmit ==
  /\ drain.todo # << >>
  /\ drain' = IF Len(drain.todo) = 1 THEN Silent ELSE [drain EXCEPT !.todo = Tail(@)]
  /\ UNCHANGED <<vars, said, upd, pump, scope, tap, bind, last, refused>>

-----------------------------------------------------------------------------
ActivityNext ==
  \/ \E f \in Frames : AgentNotifies(f)
  \/ ReadUpdate \/ PumpTake \/ PumpEmit
  \/ TapConnects \/ TapDrops \/ DrainEmit
  \/ \E s \in Subs : TapSession(s) \/ \E what \in {"edit", "execute", "done"} : TapTool(s, what)

ActivitySpec ==
  /\ ActivityInit
  /\ [][(Next /\ UNCHANGED activity) \/ ActivityNext]_<<vars, activity>>
  /\ Fairness

-----------------------------------------------------------------------------
(* Properties.                                                              *)

\* What the pump takes for running: that a task ended it learns only from a frame
\* it handles and that still carries the subagent_type.
Running == {"live", "unnamed"}

\* The stack holds exactly the tasks that began and whose end the pump was not
\* told of, whichever of several tasks ends first, save for those refused at the
\* depth cap; no event the pump shows names another parent, and a sub-session is
\* bound only to a task that has begun (map_tool_activity, enter_task_scope,
\* exit_task_scope).  So a task whose last frame was lost in the channel, or came
\* without its subagent_type, stays on the stack and is named as parent.
NestingIsTrue ==
  /\ \A t \in Tools \ {"none"} : Listed(t) => last[t] \in Running
  /\ \A t \in Tools \ {"none"} : last[t] \in Running => Listed(t) \/ refused
  /\ pump.parent # "none" => last[pump.parent] \in Running
  /\ \A s \in Subs : bind[s] # "none" => last[bind[s]] # "none"
=============================================================================
