--------------------------- MODULE AssessmentRuns ---------------------------
(***************************************************************************)
(* Assessment runs and sweeps (translator/assessment.rs,                   *)
(* translator/assessment_schema.rs, session/assessment_validation.rs).     *)
(*                                                                         *)
(* A run has a worker session of its own and a task that talks to it; a    *)
(* sweep is a task that starts one run per family, one after the other,    *)
(* and does the work of the run's task itself.  Both are registered in a   *)
(* map while they last, and a cancel command finds them there: it raises   *)
(* a flag, then wakes whoever waits at that moment.  A task looks at the   *)
(* flag only at the places the code has, and waits for the wake-up only    *)
(* if the flag was up when it began to wait.                               *)
(*                                                                         *)
(* A worker speaks ACP (the task prompts it once per pass and parses the   *)
(* transcript) or the line protocol (it validates by itself and the task   *)
(* forwards its events).  What the worker's channel carries is an input.   *)
(* The broadcast channel cannot close: the task holds the worker's handle. *)
(***************************************************************************)
EXTENDS Naturals, Sequences, FiniteSetsExt

CONSTANTS
    Solo,           \* ids of runs started by assessment.run
    Sweeps,         \* ids of sweeps
    Clients,        \* connections that cancel
    Kinds,          \* transports of the agents: "acp", "line"
    Families,       \* number of families of a sweep
    MaxPasses,      \* DepthBudget::max_passes
    AcpEvents,      \* what an ACP worker's channel may carry
    LineEvents,     \* what a line worker's channel may carry
    Outputs,        \* transcripts an ACP worker may write
    MaxEvents,      \* bound: events a run's task receives
    MaxStarts,      \* bound: assessment.run and assessment.sweep.run commands
    MaxCancels,     \* bound: cancel commands
    No              \* no run, no sweep

Children == Sweeps \X (1..Families)
Runs == Solo \cup Children

ASSUME RunAssumption ==
    /\ Kinds \subseteq {"acp", "line"}
    /\ Families \in Nat \ {0} /\ MaxPasses \in Nat \ {0}
    /\ AcpEvents \subseteq {"delta", "completed", "error"}
    /\ MaxEvents \in Nat /\ MaxStarts \in Nat /\ MaxCancels \in Nat
    /\ No \notin Runs \cup Sweeps
    /\ Solo \cap Children = {}

VARIABLES
    run,            \* the task of each run
    report,         \* the terminal event of each run: None, completed, failed
    activeRuns,     \* ACTIVE_RUNS
    sweep,          \* the task of each sweep
    child,          \* SweepControl.current_child
    activeSweeps,   \* ACTIVE_SWEEPS
    cancelled,      \* controls whose flag is up
    op,             \* the cancel command each connection executes
    acked,          \* history: sweeps whose cancel was acknowledged
    late,           \* history: children that began after that
    cancels         \* cancel commands so far

runsVars == <<run, report, activeRuns, sweep, child, activeSweeps, cancelled, op, acked, late, cancels>>
sweeps == <<sweep, child, activeSweeps>>
commands == <<cancelled, op, acked, cancels>>

Unreported == [status |-> "none", verdict |-> "none"]
NoRun == [pc |-> "none", kind |-> "line", pass |-> 1, prompt |-> "none", armed |-> FALSE,
          woken |-> FALSE, events |-> 0, found |-> << >>, result |-> "none"]
NoSweep == [pc |-> "none", kind |-> "line", stop |-> FALSE, k |-> 1, done |-> 0,
            status |-> "completed", verdicts |-> {}, failed |-> 0, said |-> Unreported]

RunsInit ==
    /\ run = [r \in Runs |-> NoRun]
    /\ report = [r \in Runs |-> Unreported]
    /\ activeRuns = {} /\ activeSweeps = {}
    /\ sweep = [s \in Sweeps |-> NoSweep]
    /\ child = [s \in Sweeps |-> No]
    /\ cancelled = {}
    /\ op = [c \in Clients |-> [pc |-> "idle", sweep |-> No, run |-> No]]
    /\ acked = {} /\ late = {}
    /\ cancels = 0

-----------------------------------------------------------------------------
(* What a run found                                                        *)

\* RunStats::verdict_and_detail.
Verdict(found) ==
    LET Of(sev) == {i \in DOMAIN found : found[i].sev = sev}
        fails == Of("critical") # {} \/ \E i \in Of("high") : found[i].cat \in {"release", "ops"}
        warns == Of("high") # {} \/ Cardinality(Of("medium")) >= 2
    IN IF fails THEN "fail" ELSE IF warns THEN "warn" ELSE "pass"

\* SweepStats::verdict, of the verdicts of completed children and the number of
\* children that failed or were cancelled.
SweepVerdict(verdicts, failed) ==
    IF "fail" \in verdicts \/ failed > 0 THEN "fail"
    ELSE IF "warn" \in verdicts THEN "warn" ELSE "pass"

Severities == {"info", "low", "medium", "high", "critical"}

\* validate_worker_output and parse_acp_candidate_payload_full: an output is
\* read when it is JSON and, if it claims to be an envelope, a version 1 one
\* whose candidates all have a title and, unless it is missing or in another
\* letter case ("unstated"), a known severity.
Readable(o) ==
    /\ o.json
    /\ \/ o.schema = "absent"
       \/ /\ o.schema = "v1"
          /\ \A i \in DOMAIN o.cands : o.cands[i].titled /\ o.cands[i].sev \in Severities \cup {"unstated"}

\* validate_evidence: an existing file under the project root, and the line or
\* the range of lines it names is in it.
EvidenceHolds(e) ==
    /\ e.kind = "file" /\ e.inside
    /\ 1 <= e.first /\ e.first <= e.last /\ e.last <= e.lines

\* validate_candidate: the fields, the floor under critical findings, the
\* evidence, then the duplicates of this pass.  Confidence is in tenths.
Accepts(c, seen) ==
    /\ c.titled
    /\ c.cat \in {"technical", "product", "ux", "release", "ops"}
    /\ c.sev \in Severities
    /\ c.conf \in 0..10
    /\ c.sev = "critical" => c.conf >= 7
    /\ c.evidence # {} /\ \A e \in c.evidence : EvidenceHolds(e)
    /\ c.id \notin seen

\* process_candidate over the candidates of a pass: the findings announced.
Findings(cands) ==
    LET Accepted(i) ==
          Accepts(cands[i], {cands[j].id : j \in {m \in 1..(i - 1) : Accepts(cands[m], {})}})
        Upto[i \in 0..Len(cands)] ==
          IF i = 0 THEN << >>
          ELSE IF Accepted(i) THEN Append(Upto[i - 1], [cat |-> cands[i].cat, sev |-> cands[i].sev])
               ELSE Upto[i - 1]
    IN Upto[Len(cands)]

-----------------------------------------------------------------------------
(* The task of a run: run_assessment_task                                  *)

Returns(r, result) == run' = [run EXCEPT ![r].pc = "returned", ![r].result = result]
TaskOnly == UNCHANGED <<report, activeRuns, sweeps, commands, late>>

\* The task says started, subscribes to its worker, and for a line worker sends
\* the command, which may fail.
TaskStart(r) ==
    /\ run[r].pc = "begin"
    /\ \/ run' = [run EXCEPT ![r].pc = "top"]
       \/ run[r].kind = "line" /\ Returns(r, "failed")
    /\ late' = IF r \in Children /\ r[1] \in acked THEN late \cup {r} ELSE late
    /\ UNCHANGED <<report, activeRuns, sweeps, commands>>

\* The top of a pass, or of a line worker's loop: the flag is looked at.
TopCancelled(r) ==
    /\ run[r].pc = "top"
    /\ r \in cancelled
    /\ Returns(r, "cancelled")
    /\ TaskOnly

TopGoesOn(r) ==
    /\ run[r].pc = "top"
    /\ r \notin cancelled
    /\ run' = [run EXCEPT ![r].pc = IF run[r].kind = "acp" THEN "select" ELSE "wait",
                          ![r].prompt = "open"]
    /\ TaskOnly

\* Entering the select: the wake-up is waited for only if the flag is up.
SelectEnter(r) ==
    /\ run[r].pc = "select"
    /\ run' = [run EXCEPT ![r].pc = "wait", ![r].armed = (r \in cancelled), ![r].woken = FALSE]
    /\ TaskOnly

\* The wait begins again after a branch that decided nothing.
Again(r, prompt, events) ==
    run' = [run EXCEPT ![r].armed = (r \in cancelled), ![r].woken = FALSE, ![r].prompt = prompt,
                       ![r].events = events]

\* The prompt was answered: the loop goes on to wait for transcript.completed.
PromptAnswered(r) ==
    /\ run[r].pc = "wait" /\ run[r].kind = "acp" /\ run[r].prompt = "open"
    /\ Again(r, "done", run[r].events)
    /\ TaskOnly

PromptFails(r) ==
    /\ run[r].pc = "wait" /\ run[r].kind = "acp" /\ run[r].prompt = "open"
    /\ Returns(r, "failed")
    /\ TaskOnly

\* The answered future is polled again, which panics: the task is gone, the
\* sweep it may belong to as well, and neither map is cleaned up.
PollsAnswered(r) ==
    /\ run[r].pc = "wait" /\ run[r].prompt = "done"
    /\ run' = [run EXCEPT ![r].pc = "panicked"]
    /\ sweep' = IF r \in Children THEN [sweep EXCEPT ![r[1]].pc = "panicked"] ELSE sweep
    /\ UNCHANGED <<report, activeRuns, child, activeSweeps, commands, late>>

Receives(r) == run[r].pc = "wait" /\ run[r].events < MaxEvents

\* An event of an ACP worker; what else it may send, and a lag, is skipped.
AcpDelta(r) ==
    /\ Receives(r) /\ run[r].kind = "acp"
    /\ "delta" \in AcpEvents
    /\ Again(r, run[r].prompt, run[r].events + 1)
    /\ TaskOnly

AcpError(r) ==
    /\ Receives(r) /\ run[r].kind = "acp"
    /\ "error" \in AcpEvents
    /\ Returns(r, "failed")
    /\ TaskOnly

\* transcript.completed, with an output that cannot be read.
AcpRejected(r, o) ==
    /\ Receives(r) /\ run[r].kind = "acp"
    /\ "completed" \in AcpEvents
    /\ ~Readable(o)
    /\ Returns(r, "failed")
    /\ TaskOnly

\* transcript.completed: the candidates are processed with a new tracker, and
\* a pass that found nothing is the last.
AcpPassEnds(r, o) ==
    /\ Receives(r) /\ run[r].kind = "acp"
    /\ "completed" \in AcpEvents
    /\ Readable(o)
    /\ LET new == Findings(o.cands)
           last == new = << >> \/ run[r].pass = MaxPasses
       IN run' = [run EXCEPT ![r].found = @ \o new,
                             ![r].events = @ + 1,
                             ![r].pass = IF last THEN @ ELSE @ + 1,
                             ![r].result = IF last THEN "completed" ELSE @,
                             ![r].pc = IF last THEN "returned" ELSE "top"]
    /\ TaskOnly

\* The second cancel, or one between the look at the flag and the wait.
WokenByCancel(r) ==
    /\ run[r].pc = "wait" /\ run[r].woken
    /\ Returns(r, "cancelled")
    /\ TaskOnly

\* Mutant: only the prompt has a deadline.
Deadline_prompt(r) ==
    /\ run[r].pc = "wait" /\ run[r].kind = "acp"
    /\ Returns(r, "failed")
    /\ TaskOnly

\* One deadline for all the passes of a run.
Deadline(r) ==
    /\ run[r].pc = "wait"
    /\ Returns(r, "failed")
    /\ TaskOnly

\* An event of a line worker that the task forwards, or a lag that loses some.
LineForwards(r, e) ==
    /\ Receives(r) /\ run[r].kind = "line"
    /\ e.type = "finding"
    /\ run' = [run EXCEPT ![r].pc = "top", ![r].events = @ + 1,
                          ![r].found = Append(@, [cat |-> e.cat, sev |-> e.sev])]
    /\ TaskOnly

LineSkips(r) ==
    /\ Receives(r) /\ run[r].kind = "line"
    /\ run' = [run EXCEPT ![r].pc = "top", ![r].events = @ + 1]
    /\ TaskOnly

LineEnds(r, e) ==
    /\ Receives(r) /\ run[r].kind = "line"
    /\ e.type \in {"completed", "failed"}
    /\ Returns(r, e.type)
    /\ TaskOnly

-----------------------------------------------------------------------------
(* assessment.run                                                          *)

\* The terminal event: build_completed_event or build_failed_event.
Terminal(r) ==
    IF run[r].result = "completed"
    THEN [status |-> "completed", verdict |-> Verdict(run[r].found)]
    ELSE [status |-> run[r].result, verdict |-> "none"]

Started == Cardinality({r \in Solo : run[r].pc # "none"})
           + Cardinality({s \in Sweeps : sweep[s].pc # "none"})

\* The session is known and choose_worker_agent picks an agent of this kind.
StartRun(r, kind) ==
    /\ run[r].pc = "none" /\ Started < MaxStarts
    /\ run' = [run EXCEPT ![r].pc = "spawn", ![r].kind = kind]
    /\ TaskOnly

\* start_assessment_run: the control is in the map before the task runs.
WorkerSpawned(r) ==
    /\ run[r].pc = "spawn"
    /\ run' = [run EXCEPT ![r].pc = "begin"]
    /\ activeRuns' = activeRuns \cup {r}
    /\ UNCHANGED <<report, sweeps, commands, late>>

WorkerSpawnFails(r) ==
    /\ run[r].pc = "spawn"
    /\ run' = [run EXCEPT ![r].pc = "refused"]
    /\ TaskOnly

RunReports(r) ==
    /\ run[r].pc = "returned"
    /\ report' = [report EXCEPT ![r] = Terminal(r)]
    /\ run' = [run EXCEPT ![r].pc = "closing"]
    /\ UNCHANGED <<activeRuns, sweeps, commands, late>>

\* The worker's stdin is closed, then the control leaves the map.
RunCloses(r) ==
    /\ run[r].pc = "closing"
    /\ run' = [run EXCEPT ![r] = [NoRun EXCEPT !.pc = "gone"]]
    /\ activeRuns' = activeRuns \ {r}
    /\ UNCHANGED <<report, sweeps, commands, late>>

-----------------------------------------------------------------------------
(* assessment.sweep.run                                                    *)

Child(s) == <<s, sweep[s].k>>
Now(s, pc) == sweep' = [sweep EXCEPT ![s].pc = pc]

StartSweep(s, kind, stop) ==
    /\ sweep[s].pc = "none" /\ Started < MaxStarts
    /\ sweep' = [sweep EXCEPT ![s].pc = "top", ![s].kind = kind, ![s].stop = stop]
    /\ activeSweeps' = activeSweeps \cup {s}
    /\ UNCHANGED <<run, report, activeRuns, child, commands, late>>

SweepCancelled(s) ==
    /\ sweep[s].pc = "top" /\ sweep[s].k <= Families
    /\ s \in cancelled
    /\ sweep' = [sweep EXCEPT ![s].pc = "end", ![s].status = "cancelled"]
    /\ UNCHANGED <<run, report, activeRuns, child, activeSweeps, commands, late>>

\* Mutant: the flag is not looked at between families.
SweepFamily_unseen(s) ==
    /\ sweep[s].pc = "top" /\ sweep[s].k <= Families
    /\ Now(s, "spawn")
    /\ run' = [run EXCEPT ![Child(s)].pc = "spawn", ![Child(s)].kind = sweep[s].kind]
    /\ UNCHANGED <<report, activeRuns, child, activeSweeps, commands, late>>

\* The next family: its worker is being spawned.
SweepFamily(s) ==
    /\ sweep[s].pc = "top" /\ sweep[s].k <= Families
    /\ s \notin cancelled
    /\ Now(s, "spawn")
    /\ run' = [run EXCEPT ![Child(s)].pc = "spawn", ![Child(s)].kind = sweep[s].kind]
    /\ UNCHANGED <<report, activeRuns, child, activeSweeps, commands, late>>

SweepSpawnFails(s) ==
    /\ sweep[s].pc = "spawn"
    /\ sweep' = [sweep EXCEPT ![s].pc = "end", ![s].status = "failed"]
    /\ run' = [run EXCEPT ![Child(s)].pc = "refused"]
    /\ UNCHANGED <<report, activeRuns, child, activeSweeps, commands, late>>

SweepSpawned(s) ==
    /\ sweep[s].pc = "spawn"
    /\ Now(s, "adopt")
    /\ activeRuns' = activeRuns \cup {Child(s)}
    /\ UNCHANGED <<run, report, child, activeSweeps, commands, late>>

\* set_current_child: until here a cancel of the sweep does not reach the run.
SweepAdopts(s) ==
    /\ sweep[s].pc = "adopt"
    /\ Now(s, "child")
    /\ child' = [child EXCEPT ![s] = Child(s)]
    /\ run' = [run EXCEPT ![Child(s)].pc = "begin"]
    /\ UNCHANGED <<report, activeRuns, activeSweeps, commands, late>>

\* Mutant: a failed child leaves the status alone.
Settled_first(s) ==
    LET res == run[Child(s)].result IN
    [sweep[s] EXCEPT !.pc = "close",
       !.status = CASE res = "cancelled" -> "cancelled"
                    [] OTHER -> @,
       !.verdicts = IF res = "completed" THEN @ \cup {Verdict(run[Child(s)].found)} ELSE @,
       !.failed = IF res = "completed" THEN @ ELSE @ + 1]

\* The child's result is recorded: record_completed_child, record_failed_child,
\* and the status of the sweep.
Settled(s) ==
    LET res == run[Child(s)].result IN
    [sweep[s] EXCEPT !.pc = "close",
       !.status = CASE res = "cancelled" -> "cancelled"
                    [] res = "failed" /\ @ = "completed" -> "failed"
                    [] OTHER -> @,
       !.verdicts = IF res = "completed" THEN @ \cup {Verdict(run[Child(s)].found)} ELSE @,
       !.failed = IF res = "completed" THEN @ ELSE @ + 1]

\* The child's task has returned: its terminal event, then the record.
SweepChildReports(s) ==
    /\ sweep[s].pc = "child"
    /\ run[Child(s)].pc = "returned"
    /\ report' = [report EXCEPT ![Child(s)] = Terminal(Child(s))]
    /\ sweep' = [sweep EXCEPT ![s] = Settled(s)]
    /\ run' = [run EXCEPT ![Child(s)].pc = "closing"]
    /\ UNCHANGED <<activeRuns, child, activeSweeps, commands, late>>

\* The child leaves both controls; progress is announced; the sweep stops after
\* a cancelled child, and after a failed one if that is its policy.
SweepChildCloses(s) ==
    /\ sweep[s].pc = "close"
    /\ activeRuns' = activeRuns \ {Child(s)}
    /\ child' = [child EXCEPT ![s] = IF @ = Child(s) THEN No ELSE @]
    /\ run' = [run EXCEPT ![Child(s)] = [NoRun EXCEPT !.pc = "gone"]]
    /\ LET stops == \/ run[Child(s)].result = "cancelled"
                    \/ sweep[s].status = "failed" /\ sweep[s].stop
       IN sweep' = [sweep EXCEPT ![s].done = @ + 1, ![s].k = @ + 1,
                                 ![s].pc = IF stops \/ sweep[s].k = Families THEN "end" ELSE "top"]
    /\ UNCHANGED <<report, activeSweeps, commands, late>>

\* assessment.sweep.completed, or assessment.sweep.failed.
SweepReports(s) ==
    /\ sweep[s].pc = "end"
    /\ sweep' = [sweep EXCEPT ![s].pc = "closing",
                   ![s].said = [status |-> IF sweep[s].status = "completed" /\ sweep[s].done >= Families
                                           THEN "completed" ELSE "failed",
                                verdict |-> SweepVerdict(sweep[s].verdicts, sweep[s].failed)]]
    /\ UNCHANGED <<run, report, activeRuns, child, activeSweeps, commands, late>>

SweepCloses(s) ==
    /\ sweep[s].pc = "closing"
    /\ Now(s, "gone")
    /\ activeSweeps' = activeSweeps \ {s}
    /\ UNCHANGED <<run, report, activeRuns, child, commands, late>>

-----------------------------------------------------------------------------
(* assessment.cancel and assessment.sweep.cancel                           *)

Command(c, pc, s, r) == op' = [op EXCEPT ![c] = [pc |-> pc, sweep |-> s, run |-> r]]

\* RunControl::request_cancel raises the flag ...
CancelRun(c, r) ==
    /\ op[c].pc = "idle" /\ cancels < MaxCancels
    /\ r \in activeRuns
    /\ cancelled' = cancelled \cup {r}
    /\ cancels' = cancels + 1
    /\ Command(c, "notify", No, r)
    /\ UNCHANGED <<run, report, activeRuns, sweeps, acked, late>>

\* ... and notify_waiters wakes a task that waits for it now, and leaves
\* nothing for one that does not.
NotifyRun(c) ==
    /\ op[c].pc = "notify"
    /\ run' = [run EXCEPT ![op[c].run].woken = @ \/ (run[op[c].run].pc = "wait" /\ run[op[c].run].armed)]
    /\ acked' = IF op[c].sweep = No THEN acked ELSE acked \cup {op[c].sweep}
    /\ Command(c, "idle", No, No)
    /\ UNCHANGED <<report, activeRuns, sweeps, cancelled, late, cancels>>

\* SweepControl::request_cancel; nobody waits for its notification.
CancelSweep(c, s) ==
    /\ op[c].pc = "idle" /\ cancels < MaxCancels
    /\ s \in activeSweeps
    /\ cancelled' = cancelled \cup {s}
    /\ cancels' = cancels + 1
    /\ Command(c, "child", s, No)
    /\ UNCHANGED <<run, report, activeRuns, sweeps, acked, late>>

\* The current child, if the sweep has one now, is cancelled too.
CancelChild(c) ==
    /\ op[c].pc = "child"
    /\ child[op[c].sweep] # No
    /\ cancelled' = cancelled \cup {child[op[c].sweep]}
    /\ Command(c, "notify", op[c].sweep, child[op[c].sweep])
    /\ UNCHANGED <<run, report, activeRuns, sweeps, acked, late, cancels>>

CancelNoChild(c) ==
    /\ op[c].pc = "child"
    /\ child[op[c].sweep] = No
    /\ acked' = acked \cup {op[c].sweep}
    /\ Command(c, "idle", No, No)
    /\ UNCHANGED <<run, report, activeRuns, sweeps, cancelled, late, cancels>>

-----------------------------------------------------------------------------
\* What the task of a run does by itself, and what its worker makes it do.
TaskStep(r) ==
    \/ TaskStart(r) \/ TopCancelled(r) \/ TopGoesOn(r) \/ SelectEnter(r)
    \/ WokenByCancel(r) \/ PollsAnswered(r)

WorkerStep(r) ==
    \/ PromptAnswered(r) \/ PromptFails(r)
    \/ AcpDelta(r) \/ AcpError(r)
    \/ \E o \in Outputs : AcpRejected(r, o) \/ AcpPassEnds(r, o)
    \/ LineSkips(r)
    \/ \E e \in LineEvents : LineForwards(r, e) \/ LineEnds(r, e)

SoloStep(r) == WorkerSpawned(r) \/ WorkerSpawnFails(r) \/ RunReports(r) \/ RunCloses(r)

SweepStep(s) ==
    \/ SweepCancelled(s) \/ SweepFamily(s) \/ SweepSpawnFails(s) \/ SweepSpawned(s)
    \/ SweepAdopts(s) \/ SweepChildReports(s) \/ SweepChildCloses(s)
    \/ SweepReports(s) \/ SweepCloses(s)

RunsNext ==
    \/ \E r \in Runs : TaskStep(r) \/ WorkerStep(r) \/ Deadline(r)
    \/ \E r \in Solo : SoloStep(r) \/ \E k \in Kinds : StartRun(r, k)
    \/ \E s \in Sweeps : SweepStep(s) \/ \E k \in Kinds, stop \in BOOLEAN : StartSweep(s, k, stop)
    \/ \E c \in Clients :
        \/ NotifyRun(c) \/ CancelChild(c) \/ CancelNoChild(c)
        \/ \E r \in Runs : CancelRun(c, r)
        \/ \E s \in Sweeps : CancelSweep(c, s)

RunsSpec == RunsInit /\ [][RunsNext]_runsVars

\* Tasks that can run do, spawning a worker ends one way or the other, and the
\* deadline of a waiting task comes.  Workers and people owe nothing.
RunsFairSpec ==
    /\ RunsSpec
    /\ \A r \in Runs : WF_runsVars(TaskStep(r)) /\ WF_runsVars(Deadline(r))
    /\ \A r \in Solo : WF_runsVars(SoloStep(r))
    /\ \A s \in Sweeps : WF_runsVars(SweepStep(s))

-----------------------------------------------------------------------------
\* The summary of a sweep agrees with the children it reported one by one:
\* sweep.completed means that every family's run was reported completed, and
\* a verdict other than fail that none was reported failed, cancelled or
\* judged fail (dispatch_assessment_sweep_run, SweepStats::verdict).
SweepTellsTruth ==
    \A s \in Sweeps : sweep[s].said # Unreported =>
      LET told == {report[<<s, k>>] : k \in 1..Families} IN
      /\ sweep[s].said.status = "completed" =>
           /\ \A t \in told : t.status = "completed"
           /\ child[s] = No
      /\ sweep[s].said.verdict # "fail" =>
           \A t \in told : t.status \in {"none", "completed"} /\ t.verdict # "fail"
      /\ sweep[s].said.verdict = "pass" => \A t \in told : t.verdict \in {"none", "pass"}

\* After a cancel of a sweep was acknowledged at most one more family begins:
\* the one whose worker was being spawned when the flag went up.
CancelStopsFamilies == \A s \in Sweeps : Cardinality({r \in late : r[1] = s}) <= 1

\* Every run that has begun ends and leaves the map of active runs, and so does
\* every sweep: a worker that hangs, a lost event and a cancel nobody waits for
\* are all ended by the deadline.  A panicked task is the exception.
RunsEnd ==
    /\ \A r \in Runs : r \in activeRuns ~> r \notin activeRuns \/ run[r].pc = "panicked"
    /\ \A s \in Sweeps : s \in activeSweeps ~> s \notin activeSweeps \/ sweep[s].pc = "panicked"
=============================================================================
