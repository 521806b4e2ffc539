-------------------------- MODULE CommandDispatch --------------------------
(****************************************************************************)
(* What dispatch_command does with a client's command (translator/mod.rs):  *)
(* the profile and owner checks every command passes, session.create and    *)
(* session.resume with all their refusals, and the commands that ask a      *)
(* session's agent for something.  A connection runs one command at a time; *)
(* the checks of a command and what they allow are separate steps, between  *)
(* which other connections, the reaper and the operator move.               *)
(*                                                                          *)
(* One profile file stands for all of them.  The life of a session after it *)
(* was registered is the subject of SessionLifecycle; here it may die.      *)
(****************************************************************************)
EXTENDS AgentConfig

CONSTANTS
  Sids,       \* session ids
  Claim,      \* the project root its token names, "any" for none
  Profiles,   \* contents the profile file may have
  Cases       \* bound: what a behaviour starts from and may do

VARIABLES
  case,       \* the case of this behaviour, with the commands left
  policy,     \* AppState.resume_policy
  prof,       \* the profile file on disk
  cache,      \* the profile cache of enforce_action
  sess,       \* SessionRegistry.inner
  owner,      \* SessionRegistry.session_owners
  meta,       \* rows of the session store
  reap,       \* the reaper's loop
  claimed,    \* history: the connection whose insert the registration is, unless
              \* another's late owner write or removal has met it
  bound       \* history: who was told that the session is theirs, until it is
              \* removed, another device takes it over, or `claimed` ends

registry == <<sess, owner, reap, claimed, bound>>
fixed == <<case, policy>>
files == <<prof, cache, meta>>
vars == <<cmd, config, fixed, files, registry>>

NoSess == [st |-> "none", kind |-> "none", allowed |-> {}]
NoProf == [there |-> FALSE, parses |-> FALSE, kinds |-> {}, class |-> "none", tool |-> FALSE]
Modes == {"replay_only", "acp_load", "native_or_replay"}
Native == {"acp_load", "native_or_replay"}
Roots == {"r1", "r2"}

\* No connection has the name that stands for none, and a policy is what
\* resume_policy.rs can parse.
ASSUME CaseAssumption ==
  /\ "none" \notin Conns
  /\ \A k \in Cases :
       /\ "who" \in DOMAIN k
       /\ k.policies \subseteq [default : Modes, fallback : {"replay_only", "fail"},
                                drift : {"warn", "fail", "ignore"}]

Init ==
  /\ case \in Cases
  /\ cmd = [c \in Conns |-> NoCmd]
  /\ ConfigInit /\ edits = case.edits
  /\ policy \in case.policies
  /\ prof \in case.profiles /\ cache = NoProf
  /\ sess \in [Sids -> case.sessions]
  /\ owner = [s \in Sids |-> "none"]
  /\ meta \in [Sids -> case.metas]
  /\ reap = [pc |-> "idle", s |-> "none"]
  /\ claimed = [s \in Sids |-> "none"]
  /\ bound = [s \in Sids |-> "none"]

InScope(c, root) == Claim[c] \in {"any", root}
\* The principal of a connection, "anon" for dev:anonymous.
Who(c) == case.who[c]
Device(c) == Who(c) # "anon"

-----------------------------------------------------------------------------
(* The connection's loop.                                                   *)

\* Commands of the catalog by how enforce_action treats them: with a profile
\* tool, protocol-only with a session, and sessionless.
ToolOps == {"browse", "review", "approve"}
ProtoOps == {"mode", "option", "auth", "close", "message", "context", "preview", "validation", "task", "branch",
             "reject", "refine"}
FreeOps == {"create", "resume", "list", "add", "reload", "sync", "config", "validate", "other"}
Ops == ToolOps \cup ProtoOps \cup FreeOps

\* What a payload may name: an agent, a mutation's kind, or a field that is
\* missing or malformed.
Inputs(op) ==
  CASE op = "add" -> Added \cup {"bad"}
    [] op = "create" -> Added \cup Ids(Installed)
    [] op = "approve" -> {"edit", "write", "delete", "no_id", "bad_path", "no_text", "unknown"}
    [] op \in {"context", "review", "reject", "refine", "browse", "mode", "option"} -> {"good", "bad"}
    [] op = "auth" -> {"agent", "terminal", "env_var", "unadvertised", "bad"}
    [] op = "message" -> {"submit", "cancel", "retry"}
    [] op = "preview" -> {"show", "send"}
    [] OTHER -> {Default}

Parsed(op, s, mode, vac, id) ==
  [NoCmd EXCEPT !.op = op, !.pc = "start", !.s = s, !.mode = mode, !.vac = vac, !.id = id]

Start(c, op) ==
  /\ cmd[c] = NoCmd /\ case.left > 0 /\ op \in case.ops
  /\ case' = [case EXCEPT !.left = @ - 1]
  /\ \E s \in Sids \cup {"none"}, mode \in Modes \cup {"none", "typo"}, vac \in BOOLEAN,
        id \in Inputs(op) :
       /\ op \in ToolOps \cup ProtoOps \cup {"resume"} <=> s # "none"
       /\ op # "resume" => mode \in {"none", "typo"} /\ ~vac
       /\ op \notin {"resume", "create"} => mode = "none"
       /\ cmd' = [cmd EXCEPT ![c] = Parsed(op, s, mode, vac, id)]
  /\ UNCHANGED <<config, policy, files, registry>>

\* The ack goes out.  A device that was told its create or resume succeeded
\* takes the session for its own.
Ack(c) ==
  LET k == cmd[c] IN
  /\ k.pc = "done"
  /\ cmd' = [cmd EXCEPT ![c] = NoCmd]
  /\ bound' = IF k.put /\ claimed[k.s] = c /\ Device(c)
              THEN [bound EXCEPT ![k.s] = Who(c)] ELSE bound
  /\ UNCHANGED <<config, fixed, files, sess, owner, reap, claimed>>

Reply(c, ans) == Answer(c, ans) /\ UNCHANGED <<config, fixed, files, registry>>
Proceed(c, pc) == Go(c, pc) /\ UNCHANGED <<config, fixed, files, registry>>

-----------------------------------------------------------------------------
(* enforce_action and the owner check, for commands that name a session.    *)

\* load_profile: the first content that loaded serves for the bridge's life.
Enforced == IF cache.there THEN cache ELSE prof

EnforceTool(c) ==
  LET s == cmd[c].s IN
  /\ cmd[c].op \in ToolOps /\ cmd[c].pc = "start"
  /\ IF sess[s].st = "none" THEN Answer(c, "not_found") /\ UNCHANGED cache
     ELSE IF ~(Enforced.there /\ Enforced.parses) THEN Answer(c, "load_failed") /\ UNCHANGED cache
     ELSE /\ cache' = Enforced
          /\ IF Enforced.tool THEN Go(c, "owner") ELSE Answer(c, "tool_denied")
  /\ UNCHANGED <<config, fixed, prof, meta, registry>>

\* Protocol-only commands bypass the profile.
EnforceProtocol(c) ==
  /\ cmd[c].op \in ProtoOps /\ cmd[c].pc = "start"
  /\ Proceed(c, "owner")

\* A type the catalog lacks or keeps to the frontend, one that is declared and
\* not wired, and one whose payload does not name the tool to enforce.
EnforceRefused(c, ans) ==
  /\ At(c, "other", "start") /\ ans \in {"unknown_command", "not_wired", "tool_missing"}
  /\ Reply(c, ans)

OwnerAuthorized(s, c) == owner[s] \in {"none", Who(c)}

OwnerCheck(c) ==
  /\ cmd[c].pc = "owner" /\ cmd[c].op \in ToolOps \cup ProtoOps
  /\ IF OwnerAuthorized(cmd[c].s, c) THEN Proceed(c, "run") ELSE Reply(c, "forbidden")

\* The handlers look the session up again.
Found(c) == sess[cmd[c].s].st # "none"

\* An ACP session's agent is asked, and what it answers is the answer.
AskAgent(c, op) ==
  /\ At(c, op, "run")
  /\ IF ~Found(c) THEN Reply(c, "not_found")
     ELSE IF sess[cmd[c].s].kind # "acp" THEN Reply(c, "not_acp")
     ELSE IF cmd[c].id = "bad" THEN Reply(c, "invalid_payload")
     ELSE \E ans \in {"ok", "agent_failed"} : Reply(c, ans)

ModeSet(c) == AskAgent(c, "mode")
ConfigOptionSet(c) == AskAgent(c, "option")

\* authenticate_via_acp by the type of the advertised method.  A terminal method
\* runs the agent's own command, for agents that may; env_var needs a new session.
AuthOutcomes(id) ==
  CASE id = "terminal" -> {"ok", "not_allowed", "command_invalid", "command_failed"}
    [] id = "env_var" -> {"recreate_required"}
    [] id = "unadvertised" -> {"not_advertised"}
    [] OTHER -> {"ok", "agent_failed"}

Authenticate(c) ==
  /\ At(c, "auth", "run")
  /\ IF ~Found(c) THEN Reply(c, "not_found")
     ELSE IF cmd[c].id = "bad" THEN Reply(c, "invalid_payload")
     ELSE IF sess[cmd[c].s].kind # "acp" THEN Reply(c, "not_acp")
     ELSE \E ans \in AuthOutcomes(cmd[c].id) : Reply(c, ans)

\* SessionRegistry::remove: the handle, then the owner's row.
Unclaimed(s) ==
  /\ claimed' = [claimed EXCEPT ![s] = "none"]
  /\ bound' = [bound EXCEPT ![s] = "none"]
Unregistered(s) == Unclaimed(s) /\ sess' = [sess EXCEPT ![s] = NoSess]

CloseRemove(c) ==
  LET s == cmd[c].s IN
  /\ At(c, "close", "run")
  /\ IF sess[s].st = "none" THEN Reply(c, "not_found")
     ELSE /\ Unregistered(s) /\ Go(c, "disown")
          /\ UNCHANGED <<config, fixed, files, owner, reap>>

CloseDisown(c) ==
  /\ At(c, "close", "disown")
  /\ owner' = [owner EXCEPT ![cmd[c].s] = "none"]
  /\ Unclaimed(cmd[c].s)
  /\ Answer(c, "closed")
  /\ UNCHANGED <<config, fixed, files, sess, reap>>

-----------------------------------------------------------------------------
(* session.create.                                                          *)

\* The agent by its id in the registry served now.
AgentRefusal(id) ==
  IF ~Registered(id) THEN "not_registered" ELSE IF ~Agent(id).on THEN "disabled" ELSE "none"

EnforceAgentKind(kind) == kind \in prof.kinds

\* The profile, its allowed_agent_kinds, and a workflow that is not bundled.
KindRefusal(c) ==
  IF ~prof.parses THEN "load_failed"
  ELSE IF ~EnforceAgentKind(Agent(cmd[c].id).kind) THEN "kind_not_allowed"
  ELSE IF cmd[c].mode = "typo" THEN "workflow_not_found"
  ELSE "none"

\* All checks run before the first await.
CreateCheck(c) ==
  LET id == cmd[c].id IN
  /\ At(c, "create", "start")
  /\ \E root \in Roots :
       IF ~InScope(c, root) THEN Answer(c, "scope_mismatch")
       ELSE IF ~prof.there THEN Answer(c, "profile_not_found")
       ELSE IF AgentRefusal(id) # "none" THEN Answer(c, AgentRefusal(id))
       ELSE IF KindRefusal(c) # "none" THEN Answer(c, KindRefusal(c))
       ELSE cmd' = [cmd EXCEPT ![c].pc = "spawn",
                      ![c].allowed = prof.kinds,
                      ![c].saw = [NoMeta EXCEPT !.agent = id, !.root = root, !.class = prof.class]]
  /\ UNCHANGED <<config, fixed, files, registry>>

\* create_with_agent_and_workflow takes the registry anew; then the spawn.
CreateSpawn(c) ==
  LET a == Agent(cmd[c].id) IN
  /\ At(c, "create", "spawn")
  /\ IF Registered(cmd[c].id) /\ a.on
     THEN \E s \in Sids :
            /\ sess[s] = NoSess /\ ~meta[s].exists
            /\ cmd' = [cmd EXCEPT ![c].pc = "insert", ![c].s = s, ![c].saw.kind = a.kind]
            /\ meta' = [meta EXCEPT ![s] = [cmd[c].saw EXCEPT !.exists = TRUE, !.kind = a.kind,
                                              !.mcp = a.mcp, !.stamp = TRUE]]
     ELSE Answer(c, "spawn_failed") /\ UNCHANGED meta
  /\ UNCHANGED <<config, fixed, prof, cache, registry>>

CreateFails(c) ==
  /\ At(c, "create", "spawn")
  /\ Reply(c, "spawn_failed")

\* The handle is in the registry, its owner is not.
Insert(c) ==
  LET k == cmd[c] IN
  /\ k.pc = "insert"
  /\ sess' = [sess EXCEPT ![k.s] = [st |-> "live", kind |-> k.saw.kind, allowed |-> k.allowed]]
  /\ claimed' = [claimed EXCEPT ![k.s] = c]
  /\ cmd' = [cmd EXCEPT ![c].pc = "own", ![c].put = TRUE]
  /\ UNCHANGED <<config, fixed, files, owner, reap, bound>>

\* Mutant: a session that was resumed is nobody's.
OwnerAfter_create(c) == IF Device(c) /\ cmd[c].op = "create" THEN Who(c) ELSE owner[cmd[c].s]

OwnerAfter(c) == IF Device(c) THEN Who(c) ELSE owner[cmd[c].s]

\* A native resume asks for no owner: another device's gets the session.
TakesOver(c) == Device(c) /\ bound[cmd[c].s] \notin {"none", Who(c)}

SetOwner(c) ==
  LET s == cmd[c].s IN
  /\ cmd[c].pc = "own"
  /\ owner' = [owner EXCEPT ![s] = OwnerAfter(c)]
  /\ IF claimed[s] = c
     THEN /\ bound' = IF TakesOver(c) THEN [bound EXCEPT ![s] = "none"] ELSE bound
          /\ UNCHANGED claimed
     ELSE Unclaimed(s)
  /\ Answer(c, IF cmd[c].op = "create" THEN "created" ELSE "native")
  /\ UNCHANGED <<config, fixed, files, sess, reap>>

-----------------------------------------------------------------------------
(* session.resume.                                                          *)

\* The policy's default stands in for a mode the client left out.
Requested(k) == IF k.mode # "none" THEN k.mode ELSE IF k.vac THEN policy.default ELSE "none"

ResumeStart(c) ==
  LET m == Requested(cmd[c]) IN
  /\ At(c, "resume", "start")
  /\ IF ~cmd[c].vac /\ ~OwnerAuthorized(cmd[c].s, c) THEN Reply(c, "forbidden")
     ELSE IF m = "typo" THEN Reply(c, "unknown_mode")
     ELSE IF m \in Native /\ ~cmd[c].vac THEN Reply(c, "unknown")
     ELSE IF cmd[c].vac THEN Proceed(c, "meta")
     ELSE Proceed(c, "ring")

\* No vac_session_id: the ring of a session this life still holds.
ResumeRing(c) ==
  /\ At(c, "resume", "ring")
  /\ Reply(c, IF sess[cmd[c].s].st = "none" THEN "not_found" ELSE "ring")

\* Mutant: an agent that cannot load a session is replayed for acp_load too.
LacksCaps_any(k) == FALSE

LacksCaps(k) == Requested(k) = "acp_load" /\ ~meta[k.s].caps

\* The row, its project root, and what it says of the agent.
ResumeMeta(c) ==
  LET k == cmd[c]  m == Requested(k)  row == meta[k.s] IN
  /\ At(c, "resume", "meta")
  /\ IF ~row.exists THEN Answer(c, IF m \in Native THEN "unknown" ELSE "not_found")
     ELSE IF ~InScope(c, row.root) THEN Answer(c, "scope_mismatch")
     ELSE IF LacksCaps(k) THEN Answer(c, "unsupported")
     ELSE cmd' = [cmd EXCEPT ![c].saw = row,
                    ![c].pc = IF m \in Native /\ row.caps THEN "drift" ELSE "replay"]
  /\ UNCHANGED <<config, fixed, files, registry>>

\* load_meta or load_events fails, or there is no persistence.
ResumeUnreadable(c) ==
  /\ cmd[c].op = "resume" /\ cmd[c].pc \in {"meta", "replay"}
  /\ Reply(c, "persistence_failed")

\* build_mcp_drift_event: an agent that is gone is no drift.
ResumeDrift(c) ==
  LET row == cmd[c].saw IN
  /\ At(c, "resume", "drift")
  /\ IF policy.drift = "fail" /\ Registered(row.agent) /\ Agent(row.agent).mcp # row.mcp
     THEN Reply(c, "drift") ELSE Proceed(c, "validate")

\* resume_native: the agent, its kind, the profile file read afresh, its class
\* (a row without one passes), the agent's own session id.
Resumable(row) ==
  /\ Registered(row.agent) /\ Agent(row.agent).kind = row.kind
  /\ prof.there /\ prof.parses /\ EnforceAgentKind(row.kind)
  /\ row.class \in {"none", prof.class}
  /\ row.stamp /\ Agent(row.agent).on

ResumeValidate(c) ==
  /\ At(c, "resume", "validate")
  /\ IF Resumable(cmd[c].saw)
     THEN cmd' = [cmd EXCEPT ![c].pc = "load", ![c].allowed = prof.kinds]
     ELSE Answer(c, "invalid")
  /\ UNCHANGED <<config, fixed, files, registry>>

\* The project's directory is gone.
ResumeRootGone(c) ==
  /\ At(c, "resume", "validate")
  /\ Reply(c, "invalid")

\* The agent is spawned and asked to load the session.
ResumeLoaded(c) ==
  /\ At(c, "resume", "load")
  /\ Proceed(c, "insert")

ResumeRefused(c, ans) ==
  /\ At(c, "resume", "load") /\ ans \in {"rejected", "failed"}
  /\ Reply(c, ans)

\* The agent does not know session/load.
ResumeUnsupported(c) ==
  /\ At(c, "resume", "load")
  /\ IF Requested(cmd[c]) = "native_or_replay" /\ policy.fallback # "fail"
     THEN Proceed(c, "replay") ELSE Reply(c, "unsupported")

\* resume_persistence_replay: the stored events, with progress ticks.
ResumeReplay(c) ==
  /\ At(c, "resume", "replay")
  /\ Reply(c, IF Requested(cmd[c]) = "replay_only" THEN "replay_only" ELSE "replay_only_fallback")

-----------------------------------------------------------------------------
(* Lists are read and sent; nothing changes.                                *)

List(c) ==
  /\ At(c, "list", "start")
  /\ Reply(c, "listed")

-----------------------------------------------------------------------------
(* Around them: sessions die, the reaper drops them, the profile changes.   *)

Dies(s) ==
  /\ sess[s].st = "live" /\ edits > 0
  /\ sess' = [sess EXCEPT ![s].st = "dead"] /\ edits' = edits - 1
  /\ UNCHANGED <<cmd, toml, served, tree, snap, catalog, rcache, spoiled,
                 fixed, files, owner, reap, claimed, bound>>

ReapScan(s) ==
  /\ reap.pc = "idle" /\ sess[s].st = "dead"
  /\ reap' = [pc |-> "drop", s |-> s]
  /\ UNCHANGED <<cmd, config, fixed, files, sess, owner, claimed, bound>>

\* By id: whatever is registered by now.
ReapDrop ==
  /\ reap.pc = "drop"
  /\ IF sess[reap.s].st = "none"
     THEN reap' = [pc |-> "idle", s |-> "none"] /\ UNCHANGED <<sess, claimed, bound>>
     ELSE Unregistered(reap.s) /\ reap' = [reap EXCEPT !.pc = "disown"]
  /\ UNCHANGED <<cmd, config, fixed, files, owner>>

ReapDisown ==
  /\ reap.pc = "disown"
  /\ owner' = [owner EXCEPT ![reap.s] = "none"]
  /\ Unclaimed(reap.s)
  /\ reap' = [pc |-> "idle", s |-> "none"]
  /\ UNCHANGED <<cmd, config, fixed, files, sess>>

ProfileEdited ==
  /\ edits > 0 /\ edits' = edits - 1
  /\ prof' \in Profiles \ {prof}
  /\ UNCHANGED <<cmd, toml, served, tree, snap, catalog, rcache, spoiled,
                 fixed, cache, meta, registry>>

-----------------------------------------------------------------------------
Command(c) ==
  \/ EnforceTool(c) \/ EnforceProtocol(c) \/ OwnerCheck(c)
  \/ \E ans \in {"unknown_command", "not_wired", "tool_missing"} : EnforceRefused(c, ans)
  \/ ModeSet(c) \/ ConfigOptionSet(c) \/ Authenticate(c)
  \/ CloseRemove(c) \/ CloseDisown(c)
  \/ CreateCheck(c) \/ CreateSpawn(c) \/ CreateFails(c) \/ Insert(c) \/ SetOwner(c)
  \/ ResumeStart(c) \/ ResumeRing(c) \/ ResumeMeta(c) \/ ResumeUnreadable(c)
  \/ ResumeDrift(c) \/ ResumeValidate(c) \/ ResumeRootGone(c) \/ ResumeLoaded(c)
  \/ ResumeRefused(c, "rejected") \/ ResumeRefused(c, "failed")
  \/ ResumeUnsupported(c) \/ ResumeReplay(c) \/ List(c)
  \/ ConfigCommand(c) /\ UNCHANGED <<fixed, files, registry>>
  \/ Ack(c)

Next ==
  \/ \E c \in Conns : Command(c) \/ \E op \in Ops : Start(c, op)
  \/ OperatorEdits /\ UNCHANGED <<fixed, files, registry>>
  \/ ProfileEdited
  \/ \E s \in Sids : Dies(s) \/ ReapScan(s)
  \/ ReapDrop \/ ReapDisown

Spec == Init /\ [][Next]_vars

-----------------------------------------------------------------------------
(* Properties.                                                              *)

\* A session a device was told is its own stays its own while it is
\* registered, whatever other connections and the reaper do meanwhile (the
\* owner bindings of session.create, session.resume and session removal).  Two
\* exceptions: another device's native resume of it, which overwrites the owner
\* (TakesOver; the comment at mod.rs:1403-1406 says that the first resumer stays
\* the owner and others are rejected), and an insert of one command that falls between
\* another's two writes.
BoundToSpawner ==
  \A s \in Sids : bound[s] # "none" =>
    /\ owner[s] = bound[s]
    /\ \A c \in Conns : OwnerAuthorized(s, c) => Who(c) = bound[s]

\* The resume matrix of session.resume: a mode is never silently exchanged for
\* another, a native resume starts only from a row that allows it, the agent's
\* refusal falls back to a replay only where mode and policy let it, and a
\* resume that is answered with anything but "native" has registered nothing.
ResumeMatrix ==
  \A c \in Conns : At(c, "resume", "done") =>
    LET k == cmd[c]  m == Requested(k) IN
    /\ k.ans = "unknown_mode" => m = "typo"
    /\ m = "typo" => k.ans \in {"unknown_mode", "forbidden"}
    /\ k.ans = "ring" => ~k.vac /\ m \notin Native
    /\ k.ans = "replay_only" => m = "replay_only"
    /\ k.ans = "replay_only_fallback" =>
         m = "native_or_replay" /\ (k.saw.caps => policy.fallback = "replay_only")
    /\ k.ans \in {"native", "rejected", "failed", "invalid", "drift"} => m \in Native /\ k.saw.caps
    /\ k.put <=> k.ans = "native"
=============================================================================
