-------------------------- MODULE AssessmentIndex ---------------------------
(***************************************************************************)
(* The assessment index, a cache in SQLite of what the event log says of   *)
(* runs and sweeps (storage/assessment_index.rs, assessment_writer.rs),    *)
(* and the commands that read and rebuild it (translator/                  *)
(* assessment_query.rs), composed with the event log.                      *)
(*                                                                         *)
(* After an append succeeded its recorder mirrors the event: it reads the  *)
(* row and writes it back, each under the index's lock but not both.  The  *)
(* live mirror stamps the session into events that carry none; a rebuild   *)
(* replays the persisted events, which carry none, without the stamp.      *)
(* Rows of runs and of sweeps live in two tables; their ids never meet, so *)
(* index is one function over both.                                        *)
(***************************************************************************)
EXTENDS EventLog

CONSTANTS
    Sweeps          \* the tasks that are sweeps, the others are runs

\* Session ids are made by the bridge, and none of them is the absence of one.
ASSUME IndexAssumption == Sweeps \subseteq Tasks /\ "none" \notin Sessions

VARIABLES
    index,          \* the row of each run and sweep
    finds,          \* the ids of assessment_findings
    read,           \* the row a recorder has read and is about to write back
    rebuild         \* the rebuild command under way

ivars == <<index, finds, read, rebuild>>

NoRow == [session |-> "none", status |-> "none"]
Row(s, status) == [session |-> s, status |-> status]
NoRebuild == [pc |-> "idle", todo |-> {}, lines |-> {}]

IndexInit ==
    /\ Init
    /\ index = [r \in Tasks |-> NoRow]
    /\ finds = {}
    /\ read = [r \in Tasks |-> NoRow]
    /\ rebuild = NoRebuild

Terminal == {"completed", "failed"}

-----------------------------------------------------------------------------
(* The mirror: record_event on the live index                              *)

\* The sink stamps its session into the event it mirrors.
Stamp(r) == SessionOf(r)

\* write_run_started and write_sweep_started write without looking.
MirrorStarted(r) ==
    /\ rec[r].pc = "mirror" /\ rec[r].kind = "started"
    /\ index' = [index EXCEPT ![r] = Row(Stamp(r), "running")]
    /\ Done(r)
    /\ UNCHANGED <<store, sink, degraded, acked, count, finds, read, rebuild>>

\* The other writers look for the row first.
MirrorRead(r) ==
    /\ rec[r].pc = "mirror" /\ rec[r].kind # "started"
    /\ read' = [read EXCEPT ![r] = index[r]]
    /\ rec' = [rec EXCEPT ![r].pc = "put"]
    /\ UNCHANGED <<store, sink, degraded, acked, count, index, finds, rebuild>>

\* write_run_progress: an existing row keeps its status.
PutProgress(r) ==
    /\ rec[r].pc = "put" /\ rec[r].kind = "progress" /\ r \notin Sweeps
    /\ index' = [index EXCEPT ![r] = IF read[r] = NoRow THEN Row(Stamp(r), "running") ELSE read[r]]
    /\ read' = [read EXCEPT ![r] = NoRow]
    /\ Done(r)
    /\ UNCHANGED <<store, sink, degraded, acked, count, finds, rebuild>>

\* write_run_terminal: an existing row keeps its session.
PutTerminal(r) ==
    /\ rec[r].pc = "put" /\ rec[r].kind \in Terminal /\ r \notin Sweeps
    /\ index' = [index EXCEPT ![r] = Row(IF read[r] = NoRow THEN Stamp(r) ELSE read[r].session, rec[r].kind)]
    /\ read' = [read EXCEPT ![r] = NoRow]
    /\ Done(r)
    /\ UNCHANGED <<store, sink, degraded, acked, count, finds, rebuild>>

\* write_sweep_progress and write_sweep_terminal.
PutSweep(r) ==
    /\ rec[r].pc = "put" /\ r \in Sweeps
    /\ index' = [index EXCEPT ![r] =
           LET row == IF read[r] = NoRow THEN Row(Stamp(r), "running") ELSE read[r]
           IN IF rec[r].kind \in Terminal THEN Row(row.session, rec[r].kind) ELSE row]
    /\ read' = [read EXCEPT ![r] = NoRow]
    /\ Done(r)
    /\ UNCHANGED <<store, sink, degraded, acked, count, finds, rebuild>>

\* write_finding: a missing run gets a row first, then the finding is written.
PutParent(r) ==
    /\ rec[r].pc = "put" /\ rec[r].kind = "finding"
    /\ index' = IF read[r] = NoRow THEN [index EXCEPT ![r] = Row(Stamp(r), "running")] ELSE index
    /\ rec' = [rec EXCEPT ![r].pc = "child"]
    /\ UNCHANGED <<store, sink, degraded, acked, count, finds, read, rebuild>>

\* The foreign key refuses the finding if a rebuild took the run away meanwhile.
PutFinding(r) ==
    /\ rec[r].pc = "child"
    /\ finds' = IF index[r] = NoRow THEN finds ELSE finds \cup {rec[r].id}
    /\ degraded' = (degraded \/ index[r] = NoRow)
    /\ read' = [read EXCEPT ![r] = NoRow]
    /\ Done(r)
    /\ UNCHANGED <<store, sink, acked, count, index, rebuild>>

\* An error of SQLite is recorded in the health, and the log is unaffected.
MirrorFails(r) ==
    /\ rec[r].pc \in {"mirror", "put", "child"}
    /\ Fail
    /\ read' = [read EXCEPT ![r] = NoRow]
    /\ Done(r)
    /\ UNCHANGED <<store, sink, acked, index, finds, rebuild>>

-----------------------------------------------------------------------------
(* Reading the log                                                         *)

\* What load_events returns of a log it can read.
LinesOf(s) == {file[s][i] : i \in DOMAIN file[s]}

Mine(lines, r) == {l \in lines : l.by = r}

\* The events of a run or a sweep come from one task, so its end comes last.
End(lines, r) == {l.kind : l \in {m \in Mine(lines, r) : m.kind \in Terminal}}
Standing(lines, r) == IF End(lines, r) = {} THEN "running" ELSE CHOOSE kind \in End(lines, r) : TRUE

\* build_snapshot: the runs the lines name; findings and evidence alone name none.
SnapshotRun(lines, r) ==
    IF \A l \in Mine(lines, r) : l.kind = "finding" THEN "none" ELSE Standing(lines, r)

SnapshotSweep(lines, w) == IF Mine(lines, w) = {} THEN "none" ELSE Standing(lines, w)

Snapshot(lines, r) == IF r \in Sweeps THEN SnapshotSweep(lines, r) ELSE SnapshotRun(lines, r)

\* rebuild_from_events: what the writers leave of the lines in an empty index,
\* a row for every finding's run included.  Nothing stamps the session.
Replayed(lines, r) == IF Mine(lines, r) = {} THEN NoRow ELSE Row("unknown", Standing(lines, r))

-----------------------------------------------------------------------------
(* assessment.index.rebuild                                                *)

\* load_canonical_assessment_replay lists the sessions, then reads their logs
\* one after the other; none of it is under a lock.
RebuildList ==
    /\ rebuild.pc = "idle" /\ Fault
    /\ rebuild' = [pc |-> "load", todo |-> List, lines |-> {}]
    /\ UNCHANGED <<store, sink, rec, degraded, acked, index, finds, read>>

RebuildLoad(s) ==
    /\ rebuild.pc = "load" /\ s \in rebuild.todo /\ CanLoad(s)
    /\ rebuild' = [rebuild EXCEPT !.todo = @ \ {s}, !.lines = @ \cup LinesOf(s)]
    /\ UNCHANGED <<vars, index, finds, read>>

\* One transaction replaces every row.
RebuildReplace ==
    /\ rebuild.pc = "load" /\ rebuild.todo = {}
    /\ index' = [r \in Tasks |-> Replayed(rebuild.lines, r)]
    /\ finds' = {l.id : l \in {m \in rebuild.lines : m.kind = "finding" /\ m.by \notin Sweeps}}
    /\ rebuild' = NoRebuild
    /\ UNCHANGED <<vars, read>>

\* A failure leaves the rows there were.  One log that cannot be read fails the
\* rebuild of all of them.
RebuildFails ==
    /\ rebuild.pc = "load"
    /\ IF \A s \in rebuild.todo : CanLoad(s) THEN Fault ELSE UNCHANGED count
    /\ rebuild' = NoRebuild
    /\ UNCHANGED <<store, sink, rec, degraded, acked, index, finds, read>>

IndexNext ==
    \/ LogNext /\ UNCHANGED <<index, finds>>
               /\ IF count'.crashes = count.crashes THEN UNCHANGED <<read, rebuild>>
                  ELSE /\ read' = [r \in Tasks |-> NoRow]
                       /\ rebuild' = NoRebuild
    \/ \E r \in Tasks :
         \/ MirrorStarted(r) \/ MirrorRead(r) \/ PutProgress(r) \/ PutTerminal(r)
         \/ PutSweep(r) \/ PutParent(r) \/ PutFinding(r) \/ MirrorFails(r)
    \/ RebuildList \/ RebuildReplace \/ RebuildFails
    \/ \E s \in Sessions : RebuildLoad(s)

IndexSpec == IndexInit /\ [][IndexNext]_<<vars, ivars>>

-----------------------------------------------------------------------------
(* assessment.list_runs and the reports                                    *)

\* try_serve_list_runs_from_index: the rows of the session, if it has any.
ListFromIndex(s) ==
    LET rows == {r \in Tasks : index[r].session = s}
    IN [complete |-> TRUE, runs |-> [r \in rows |-> index[r].status]]

\* Otherwise what the session's log says; assessment.query_failed, with no run,
\* when it cannot be read.
ListFromLog(s) ==
    LET named == {r \in Tasks : CanLoad(s) /\ Snapshot(LinesOf(s), r) # "none"}
    IN [complete |-> FALSE, runs |-> [r \in named |-> Snapshot(LinesOf(s), r)]]

ListRuns(s) == IF \E r \in Tasks : index[r].session = s THEN ListFromIndex(s) ELSE ListFromLog(s)

-----------------------------------------------------------------------------
(* Properties                                                              *)

\* A client is never shown a run, or the end of a run, whose event the session's
\* log neither acknowledged nor ever held: the index follows the log and not the
\* other way round, whatever fails (sink.rs S03-F01).
ListedWasLogged ==
    \A s \in Sessions : \A r \in DOMAIN ListRuns(s).runs :
        LET status == ListRuns(s).runs[r]
        IN \E l \in ever : l.by = r /\ (status = "running" \/ l.kind = status)
=============================================================================
