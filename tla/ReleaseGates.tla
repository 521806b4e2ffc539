---------------------------- MODULE ReleaseGates ----------------------------
(****************************************************************************)
(* The gates of a session and the releases they guard (gate.rs,             *)
(* release.rs).                                                             *)
(*                                                                          *)
(* Both keep their state in memory under a mutex of their own and put the   *)
(* new value into the session's event log after the mutex is released: the  *)
(* change and its event are two steps, and the events of two connections    *)
(* may enter the log in either order.  A restarted bridge rebuilds both     *)
(* states from the log, the last event of a key winning.  deploy and        *)
(* publish hold the release mutex from their check of the gates until the   *)
(* release is applied, but the gate mutex only for the check.               *)
(*                                                                          *)
(* The log is kept as what a restart would read from it: the last snapshot  *)
(* of each gate, the last commit of each target and the drafts.  Refused    *)
(* commands that leave the state alone take no step, and list_targets only  *)
(* reads.  Summaries, criteria, blockers and reasons say in words what the  *)
(* other fields hold.  How the log loses records is EventLog's subject:     *)
(* here a record is lost as a whole.                                        *)
(****************************************************************************)
EXTENDS Naturals, FiniteSets

CONSTANTS
  Conns,       \* connections that send commands
  Principals,  \* authenticated principals
  Gates,       \* gates the commands of the instance name
  Targets,     \* release targets the commands of the instance name
  Terms,       \* how long an override may be asked for
  Wired,       \* VAC_RELEASE_PROVIDER is dry_run
  MaxNow,      \* bound: clock
  MaxCommit,   \* bound: commits of the project
  MaxCmds,     \* bound: commands
  MaxFaults    \* bound: restarts and lost records

Nobody == "nobody"       \* the caller of a connection without a principal
Callers == Principals \cup {Nobody}

KNOWN_GATES ==
  {"DevComplete", "QAComplete", "ReadyForStaging", "ReadyToDeploy",
   "ReadyToPublish", "ReadyForGrowth", "MutationAuditClean"}
DEFAULT_TARGETS == {"staging", "prod"}

ASSUME GatesAssumption ==
  /\ Gates \subseteq KNOWN_GATES /\ Targets \subseteq DEFAULT_TARGETS
  /\ Terms \subseteq Nat \ {0} /\ Wired \in BOOLEAN
  /\ MaxNow \in Nat /\ MaxCommit \in Nat \ {0} /\ MaxCmds \in Nat /\ MaxFaults \in Nat

VARIABLES
  gate,     \* SessionGateState.gates
  target,   \* SessionReleaseState.targets, with their last_commit
  notes,    \* SessionReleaseState.notes
  log,      \* what load_events would give back of the three
  job,      \* the command each connection is executing
  now,
  cmds, faults,
  crossed   \* history: keys whose log entry may be older than the state

vars == <<gate, target, notes, log, job, now, cmds, faults, crossed>>
release == <<target, notes>>

NoGate == [known |-> FALSE, pass |-> FALSE, signers |-> {}, over |-> FALSE, exp |-> 0]
Absent == [seeded |-> FALSE, last |-> 0]   \* no entry in the targets map
Never == [seeded |-> TRUE, last |-> 0]     \* no last_commit
Commits == 1..MaxCommit                    \* each the parent of the next
NoJob == [pc |-> "idle", kind |-> "none", key |-> "none", val |-> NoGate]

Init ==
  /\ gate = [g \in Gates |-> NoGate]
  /\ target = [t \in Targets |-> Never]
  /\ notes = {}
  /\ log = [gate |-> gate, target |-> target, notes |-> notes]
  /\ job = [c \in Conns |-> NoJob]
  /\ now = 0 /\ cmds = 0 /\ faults = 0
  /\ crossed = {}

-----------------------------------------------------------------------------
(* Gate snapshots.                                                          *)

\* required_signers of a default snapshot, and the max(1) of touch_gate.
RequiredSigners(g) == IF g \in {"ReadyToDeploy", "ReadyToPublish"} THEN 2 ELSE 1

\* Expired at the instant itself.
Expired(s) == s.over /\ s.exp <= now

\* Mutant: an override that ran out still satisfies the gate.
Satisfied_stale(g, s) == s.over \/ Cardinality(s.signers) >= RequiredSigners(g)

Satisfied(g, s) == (s.over /\ ~Expired(s)) \/ Cardinality(s.signers) >= RequiredSigners(g)

WithoutOverride(s) == [s EXCEPT !.over = FALSE, !.exp = 0]

\* touch_gate: MutationAuditClean is left as sync_mutation_audit set it.
Touched(g, s) ==
  IF g = "MutationAuditClean" THEN s
  ELSE [(IF Expired(s) THEN WithoutOverride(s) ELSE s) EXCEPT !.pass = Satisfied(g, s)]

\* default_gate_snapshot.
DefaultGate(g) ==
  [NoGate EXCEPT !.known = TRUE, !.pass = (g = "MutationAuditClean")]

\* ensure_known.
Ensured(g) == IF gate[g].known THEN gate[g] ELSE DefaultGate(g)

\* Mutant: a gate counts once its state says pass, whatever its override does.
EffectivelyPass_state(s) == s.pass

\* gate_is_effectively_pass: an override decides alone.
EffectivelyPass(s) == IF s.over THEN ~Expired(s) ELSE s.pass

-----------------------------------------------------------------------------
(* A command: its change, then its event.                                   *)

Pending(k) == \E d \in Conns : job[d].pc = "emit" /\ job[d].key = k

\* Mutant: the event carries the value the command found, not the one it left.
Report_before(c, kind, k, val) ==
  job' = [job EXCEPT ![c] = [pc |-> "emit", kind |-> kind, key |-> k,
                             val |-> IF kind = "gate" THEN gate[k] ELSE val]]

\* The snapshot is cloned under the mutex and emitted once it is released.
Report(c, kind, k, val) ==
  job' = [job EXCEPT ![c] = [pc |-> "emit", kind |-> kind, key |-> k, val |-> val]]

\* A command on k while another's event for k is on its way: the two events
\* may enter the log in either order.
Cross(k) == crossed' = IF Pending(k) THEN crossed \cup {k} ELSE crossed \ {k}

Accept(c) ==
  /\ job[c].pc = "idle" /\ cmds < MaxCmds
  /\ cmds' = cmds + 1

\* What the four gate commands share: the entry of g becomes s.
SetGate(c, g, s) ==
  /\ Accept(c)
  /\ gate' = [gate EXCEPT ![g] = s]
  /\ Report(c, "gate", g, s)
  /\ Cross(g)
  /\ UNCHANGED <<release, log, now, faults>>

\* gate.evaluate: anyone may ask; only an override that ran out is cleared.
Evaluate(c, g) ==
  LET s == Ensured(g)
  IN  SetGate(c, g, IF Expired(s) THEN Touched(g, WithoutOverride(s)) ELSE s)

\* The signers are a list without repetition.
Signed(s, who) == s.signers \cup {who}

\* require_gate_actor: the principal of the hello handshake, never the payload.
RequireActor(who) == who # Nobody

\* gate.signoff.
Signoff(c, g, who) ==
  /\ RequireActor(who)
  /\ SetGate(c, g, Touched(g, [Ensured(g) EXCEPT !.signers = Signed(Ensured(g), who)]))

\* parse_expiry: an expiry that is given lies in the future.
Expiry(term) == now + term

\* gate.override, with a reason.
Override(c, g, term, who) ==
  /\ RequireActor(who)
  /\ SetGate(c, g, Touched(g, [Ensured(g) EXCEPT !.over = TRUE, !.exp = Expiry(term)]))

\* gate.revoke_override.
RevokeOverride(c, g, who) ==
  /\ RequireActor(who)
  /\ SetGate(c, g, Touched(g, WithoutOverride(Ensured(g))))

\* gate.sync_mutation_audit: clean when the cockpit counts no blocking mutation.
SyncMutationAudit(c, clean, who) ==
  /\ RequireActor(who)
  /\ "MutationAuditClean" \in Gates
  /\ SetGate(c, "MutationAuditClean",
             [Ensured("MutationAuditClean") EXCEPT !.pass = clean])

-----------------------------------------------------------------------------
(* Releases.                                                                *)

RequiredForEnvironment(t) ==
  {"DevComplete", "ReadyToDeploy", "MutationAuditClean"}
    \cup (IF t = "staging" THEN {"ReadyForStaging"} ELSE {})
RequiredForPublish == {"ReadyToPublish"}

\* missing_gate_ids: a gate without an entry is missing.
MissingGates(req) == {g \in req : g \notin Gates \/ ~EffectivelyPass(gate[g])}

\* seed_default_targets.
Seeded == IF \A t \in Targets : target[t] = Absent THEN [t \in Targets |-> Never] ELSE target

ReleaseLocked == \E d \in Conns : job[d].pc = "apply"

\* The commands wait for the release mutex, seed the targets and check the
\* gates under the gate mutex; the release mutex stays locked.
ReleaseCheck(c, kind, t, req) ==
  /\ Wired /\ ~ReleaseLocked
  /\ Accept(c)
  /\ target' = Seeded
  /\ MissingGates(req) = {}
  /\ job' = [job EXCEPT ![c] = [NoJob EXCEPT !.pc = "apply", !.kind = kind, !.key = t]]
  /\ UNCHANGED <<gate, notes, log, now, faults, crossed>>

\* A gate is missing: refused, but the targets stay seeded.
ReleaseDenied(c, req) ==
  /\ Wired /\ ~ReleaseLocked
  /\ Accept(c)
  /\ target' = Seeded
  /\ MissingGates(req) # {}
  /\ UNCHANGED <<gate, notes, log, job, now, faults, crossed>>

\* apply_deploy: a target that is not in the map is left out of it.
ApplyDeploy(entry, commit) == IF entry.seeded THEN [entry EXCEPT !.last = commit] ELSE entry

\* HEAD is read from git, where it may be anything, under the release mutex,
\* which is then unlocked.
ReleaseApply(c, kind, head) ==
  LET t == job[c].key
  IN  /\ job[c].pc = "apply" /\ job[c].kind = kind
      /\ target' = [target EXCEPT ![t] = ApplyDeploy(@, head)]
      /\ Report(c, "target", t, head)
      /\ Cross(t)
      /\ UNCHANGED <<gate, notes, log, now, cmds, faults>>

DeployCheck(c, t) == ReleaseCheck(c, "deploy", t, RequiredForEnvironment(t))
DeployDenied(c, t) == ReleaseDenied(c, RequiredForEnvironment(t))
DeployApply(c, head) == ReleaseApply(c, "deploy", head)
PublishCheck(c, t) == ReleaseCheck(c, "publish", t, RequiredForPublish)
PublishDenied(c) == ReleaseDenied(c, RequiredForPublish)
PublishApply(c, head) == ReleaseApply(c, "publish", head)

\* The range of a draft starts at the target's last commit, else at HEAD^, else
\* at HEAD itself.
Baseline(t, head) ==
  IF Seeded[t].last # 0 THEN Seeded[t].last ELSE IF head = 1 THEN 1 ELSE head - 1

\* release.generate_notes, which also waits for the release mutex.
GenerateNotes(c, t, head) ==
  LET draft == [target |-> t, from |-> Baseline(t, head), to |-> head]
  IN  /\ ~ReleaseLocked
      /\ Accept(c)
      /\ target' = Seeded
      /\ notes' = notes \cup {draft}
      /\ Report(c, "notes", "notes", draft)
      /\ UNCHANGED <<gate, log, now, faults, crossed>>

-----------------------------------------------------------------------------
(* The log, the clock, the project, restarts.                               *)

\* snapshot_from_payload: a gate with a snapshot in the log is known.
GateFromPayload(s) == [s EXCEPT !.known = TRUE]

\* What from_events makes of one more event: the last one of a key wins, and a
\* deploy only touches its target's entry.
RecordedGate(g, s) == [log EXCEPT !.gate[g] = GateFromPayload(s)]
RecordedDeploy(t, commit) == [log EXCEPT !.target[t] = ApplyDeploy(@, commit)]
RecordedDraft(draft) == [log EXCEPT !.notes = @ \cup {draft}]

Recorded(j) ==
  CASE j.kind = "gate" -> RecordedGate(j.key, j.val)
    [] j.kind = "target" -> RecordedDeploy(j.key, j.val)
    [] j.kind = "notes" -> RecordedDraft(j.val)

\* emit_session_event: the sink records the event; the command is done.
Emit(c) ==
  /\ job[c].pc = "emit"
  /\ log' = Recorded(job[c])
  /\ job' = [job EXCEPT ![c] = NoJob]
  /\ UNCHANGED <<gate, release, now, cmds, faults, crossed>>

\* The sink drops the event after an error of the store and says nothing here.
EmitLost(c) ==
  /\ job[c].pc = "emit" /\ faults < MaxFaults
  /\ faults' = faults + 1
  /\ job' = [job EXCEPT ![c] = NoJob]
  /\ crossed' = crossed \cup {job[c].key}
  /\ UNCHANGED <<gate, release, log, now, cmds>>

\* build_session_gate_state and build_session_release_state after a restart.
Restart ==
  /\ faults < MaxFaults
  /\ faults' = faults + 1
  /\ gate' = log.gate /\ target' = log.target /\ notes' = log.notes
  /\ job' = [c \in Conns |-> NoJob]
  /\ crossed' = {}
  /\ UNCHANGED <<log, now, cmds>>

\* The same when load_events fails: both states start empty, and the targets
\* are not even seeded.
RestartBlind ==
  /\ faults < MaxFaults
  /\ faults' = faults + 1
  /\ gate' = [g \in Gates |-> NoGate]
  /\ target' = [t \in Targets |-> Absent] /\ notes' = {}
  /\ job' = [c \in Conns |-> NoJob]
  /\ crossed' = Gates \cup Targets \cup {"notes"}
  /\ UNCHANGED <<log, now, cmds>>

Tick ==
  /\ now < MaxNow /\ now' = now + 1
  /\ UNCHANGED <<gate, release, log, job, cmds, faults, crossed>>

Next ==
  \/ \E c \in Conns :
       \/ \E g \in Gates : Evaluate(c, g)
       \/ \E who \in Callers :
            \/ \E g \in Gates : Signoff(c, g, who) \/ RevokeOverride(c, g, who)
            \/ \E g \in Gates, term \in Terms : Override(c, g, term, who)
            \/ \E clean \in BOOLEAN : SyncMutationAudit(c, clean, who)
       \/ \E t \in Targets : DeployCheck(c, t) \/ DeployDenied(c, t) \/ PublishCheck(c, t)
       \/ PublishDenied(c)
       \/ \E head \in Commits : DeployApply(c, head) \/ PublishApply(c, head)
       \/ \E t \in Targets, head \in Commits : GenerateNotes(c, t, head)
       \/ Emit(c) \/ EmitLost(c)
  \/ Restart \/ RestartBlind \/ Tick

Spec == Init /\ [][Next]_vars

-----------------------------------------------------------------------------
(* Properties.                                                              *)

\* What a gate rests on in the code, without the derived state: distinct
\* principals, an override that has not run out, or for the mutation audit the
\* cockpit's word.  An override stands for any gate and for as long as it was
\* asked for, also for the gates that want two signatures, which is not what the
\* docs/gates.md allows: there an override cannot revive a gate that has not its
\* two sign-offs, and lasts no longer than a limit.
Earned(g) ==
  \/ Cardinality(gate[g].signers \cap Principals) >= RequiredSigners(g)
  \/ gate[g].over /\ now < gate[g].exp
  \/ g = "MutationAuditClean" /\ gate[g].known /\ gate[g].pass

RequiredFor(j) == IF j.kind = "deploy" THEN RequiredForEnvironment(j.key) ELSE RequiredForPublish

\* A release goes ahead only when each gate its target needs is earned at the
\* check, whatever overrides, expiries, restarts and replays came before
\* (missing_gate_ids, gate_is_effectively_pass).
ReleaseNeedsEvidence ==
  [][\A c \in Conns :
       job[c].pc = "idle" /\ job'[c].pc = "apply"
         => \A g \in RequiredFor(job'[c]) : g \in Gates /\ Earned(g)]_vars

\* Once no event is on its way for a key that no two commands crossed on, the
\* log gives a restart what the session shows (gate.changed and
\* release.deploy_progress carry the state as the command left it).
LogFollowsState ==
  /\ \A g \in Gates : gate[g] # log.gate[g] => Pending(g) \/ g \in crossed
  /\ \A t \in Targets : target[t] # log.target[t] => Pending(t) \/ t \in crossed
  /\ notes # log.notes => Pending("notes") \/ "notes" \in crossed

\* The state word a gate shows never promises more than it rests on: passing
\* and no longer overridden, it has its signatures (touch_gate).
PassIsSigned ==
  \A g \in Gates \ {"MutationAuditClean"} :
    gate[g].pass /\ ~gate[g].over => Cardinality(gate[g].signers) >= RequiredSigners(g)
=============================================================================
