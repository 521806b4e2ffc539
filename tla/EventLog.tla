------------------------------ MODULE EventLog ------------------------------
(***************************************************************************)
(* The durable history of sessions: the file store that keeps a row of     *)
(* metadata and a log of events per session (persistence/file_store.rs),   *)
(* and the sinks through which the tasks of a session record into it       *)
(* (persistence/sink.rs, session/handle.rs build_persistence_sink).        *)
(*                                                                         *)
(* A recorder takes a sequence number from its sink, then appends a line   *)
(* under the store's lock.  The lock makes the file operations atomic      *)
(* towards each other, not towards a crash or an I/O error: a write may    *)
(* stop in the middle of the line, after the text and before the newline,  *)
(* or fail after everything was written.  The next line is then joined to  *)
(* what is there.  Reads take no lock.  A line that is no JSON is skipped, *)
(* so file holds the lines that are, and tail says how the file ends; but  *)
(* a line that is no UTF-8, because a write stopped inside a character,    *)
(* fails the whole read (broken).  Sequence numbers do not wrap (u64).     *)
(***************************************************************************)
EXTENDS Naturals, Sequences, SequencesExt, FiniteSetsExt

CONSTANTS
    Sessions,       \* vac_session_id
    Tasks,          \* tasks of runs and sweeps, each of which emits the events of one
    Others,         \* tasks that emit other events
    Kinds,          \* what each of Tasks may say; it begins with "started"
    MaxEvents,      \* bound: events recorded
    MaxSinks,       \* bound: sinks opened
    MaxFaults       \* bound: failures, ends of the process, forget and rebuild commands

ASSUME LogAssumption ==
    MaxEvents \in Nat /\ MaxSinks \in Nat /\ MaxFaults \in Nat

Recorders == Tasks \cup Others
Sinks == 1..MaxSinks
Ids == 1..MaxEvents

VARIABLES
    meta,           \* the sessions that have a meta.json (SessionLifecycle models what it says)
    file,           \* events.jsonl of each session: the lines that can be read
    tail,           \* how it ends: "clean", in a "part" of a line, in a "whole" line without newline
    broken,         \* the sessions whose events.jsonl holds a line that is no UTF-8
    sink,           \* the sinks of this process
    rec,            \* what each recorder is doing
    degraded,       \* PersistenceHealth.degraded
    ever,           \* history: the lines that were acknowledged, or could be read at some time
    acked,          \* history: the ids whose append_event returned Ok, since the session was forgotten
    count           \* how often what happened

vars == <<meta, file, tail, broken, sink, rec, degraded, ever, acked, count>>
store == <<meta, file, tail, broken, ever>>

NoSink == [pc |-> "free", session |-> CHOOSE s \in Sessions : TRUE, next |-> 0, blind |-> FALSE]
Idle == [pc |-> "idle", sink |-> 1, said |-> FALSE, id |-> 1, seq |-> 0, kind |-> "none"]

Init ==
    /\ meta = {}
    /\ file = [s \in Sessions |-> << >>]
    /\ tail = [s \in Sessions |-> "clean"]
    /\ broken = {}
    /\ sink = [k \in Sinks |-> NoSink]
    /\ rec = [r \in Recorders |-> Idle]
    /\ degraded = FALSE
    /\ ever = {}
    /\ acked = [s \in Sessions |-> {}]
    /\ count = [events |-> 0, sinks |-> 0, faults |-> 0, tears |-> 0, crashes |-> 0]

Tick(what) == count' = [count EXCEPT ![what] = @ + 1]
Fault == count.faults < MaxFaults /\ Tick("faults")
Fail == degraded' = TRUE /\ Fault

-----------------------------------------------------------------------------
(* The file store                                                          *)

\* Mutant: the file is not opened for appending, and lines go to its start.
Write_atStart(s, line, how) ==
    /\ file' = [file EXCEPT ![s] = IF how = "line" THEN <<line>> \o @ ELSE @]
    /\ UNCHANGED <<tail, broken>>

\* Mutant: an unterminated line is cut off with the line before it.
Write_cut(s, line, how) ==
    /\ file' = [file EXCEPT ![s] = IF tail[s] # "clean" /\ @ # << >> THEN Front(@)
                                   ELSE IF how = "line" THEN Append(@, line) ELSE @]
    /\ tail' = [tail EXCEPT ![s] = IF how = "line" THEN "clean" ELSE IF how = "none" THEN @ ELSE "part"]
    /\ UNCHANGED broken

\* append_event's write to events.jsonl, as far as it got: nothing, a part of
\* the line that may end within a character ("split"), the line without its
\* newline, or all of it.  What is unterminated already and what is written now
\* make one line, which cannot be read.
Write(s, line, how) ==
    LET joined == tail[s] # "clean"
        kept == IF tail[s] = "whole" THEN Front(file[s]) ELSE file[s]
    IN CASE how = "none" -> UNCHANGED <<file, tail, broken>>
         [] how \in {"part", "split"} ->
              /\ file' = [file EXCEPT ![s] = kept]
              /\ tail' = [tail EXCEPT ![s] = "part"]
              /\ broken' = IF how = "split" THEN broken \cup {s} ELSE broken
         [] how \in {"whole", "line"} ->
              /\ file' = [file EXCEPT ![s] = IF joined THEN kept ELSE Append(kept, line)]
              /\ tail' = [tail EXCEPT ![s] = IF how = "line" THEN "clean"
                                             ELSE IF joined THEN "part" ELSE "whole"]
              /\ UNCHANGED broken

\* load_events gives up at a line that is no UTF-8, wherever it is.
CanLoad(s) == s \notin broken

\* Otherwise it returns the lines that can be read, or the last of them.
LoadEvents(s, limit) ==
    LET all == file[s]
    IN IF limit > 0 /\ Len(all) > limit THEN SubSeq(all, Len(all) - limit + 1, Len(all)) ELSE all

\* list: the sessions that have a row.
List == meta

\* save_meta replaces the row by renaming a new file over it.
SaveMeta(s) == meta' = meta \cup {s}

\* session.history.forget: the session's directory is removed.
Forget(s) ==
    /\ Fault
    /\ meta' = meta \ {s}
    /\ file' = [file EXCEPT ![s] = << >>]
    /\ tail' = [tail EXCEPT ![s] = "clean"]
    /\ broken' = broken \ {s}
    /\ acked' = [acked EXCEPT ![s] = {}]
    /\ UNCHANGED <<sink, rec, degraded, ever>>

\* remove_dir_all fails on the way: one of the two files is gone, or none.
\* The command answers persistence.forget_failed and leaves the health alone.
ForgetFails(s) ==
    /\ Fault
    /\ \/ /\ meta' = meta \ {s}
          /\ UNCHANGED <<file, tail, broken, acked>>
       \/ /\ file' = [file EXCEPT ![s] = << >>]
          /\ tail' = [tail EXCEPT ![s] = "clean"]
          /\ broken' = broken \ {s}
          /\ acked' = [acked EXCEPT ![s] = {}]
          /\ UNCHANGED meta
    /\ UNCHANGED <<sink, rec, degraded, ever>>

-----------------------------------------------------------------------------
(* The sinks                                                               *)

\* build_persistence_sink first writes the row of the session, new or resumed;
\* without it the session runs on without a sink.
OpenSink(s, k) ==
    /\ k = count.sinks + 1
    /\ sink[k].pc = "free"
    /\ SaveMeta(s)
    /\ sink' = [sink EXCEPT ![k] = [pc |-> "numbering", session |-> s, next |-> 0, blind |-> FALSE]]
    /\ Tick("sinks")
    /\ UNCHANGED <<file, tail, broken, ever, rec, degraded, acked>>

OpenSinkFails ==
    /\ Fail
    /\ UNCHANGED <<store, sink, rec, acked>>

\* Mutant: the numbers restart at the number of lines.
FirstSeq_count(s) == Len(LoadEvents(s, 0))

\* Then it continues the numbers behind the largest one that can be read.
FirstSeq(s) ==
    LET lines == LoadEvents(s, 0)
    IN IF lines = << >> THEN 0 ELSE Max({lines[i].seq : i \in DOMAIN lines}) + 1

NumberSink(k) ==
    /\ sink[k].pc = "numbering" /\ CanLoad(sink[k].session)
    /\ sink' = [sink EXCEPT ![k].pc = "open", ![k].next = FirstSeq(sink[k].session)]
    /\ UNCHANGED <<store, rec, degraded, acked, count>>

\* When the log cannot be read, for good or this once, the sink opens all the
\* same and numbers from 0; the health says load_events_failed.
NumberSinkFails(k) ==
    /\ sink[k].pc = "numbering"
    /\ sink' = [sink EXCEPT ![k].pc = "open", ![k].next = 0, ![k].blind = TRUE]
    /\ degraded' = TRUE
    /\ IF CanLoad(sink[k].session) THEN Fault ELSE UNCHANGED count
    /\ UNCHANGED <<store, rec, acked>>

\* mark_status, when the agent's process ends or the session is closed, rewrites
\* the row under the lock, and fails when there is none any more.
MarkStatus(k) ==
    /\ sink[k].pc = "open"
    /\ sink[k].session \notin meta
    /\ Fail
    /\ UNCHANGED <<store, sink, rec, acked>>

-----------------------------------------------------------------------------
(* record                                                                  *)

\* A task says what comes next, and takes its number before it has the lock.
\* A handle that was closed still records into its sink.
Record(r, k, kind) ==
    /\ rec[r].pc = "idle" /\ sink[k].pc = "open"
    /\ IF r \in Others THEN kind = "other"
       ELSE /\ kind \in Kinds[r] /\ (kind = "started" <=> ~rec[r].said)
            /\ rec[r].said => k = rec[r].sink
    /\ count.events < MaxEvents /\ Tick("events")
    /\ rec' = [rec EXCEPT ![r] = [pc |-> "append", sink |-> k, said |-> TRUE, id |-> count'.events,
                                  seq |-> sink[k].next, kind |-> kind]]
    /\ sink' = [sink EXCEPT ![k].next = @ + 1]
    /\ UNCHANGED <<store, degraded, acked>>

Line(r) == [id |-> rec[r].id, seq |-> rec[r].seq, kind |-> rec[r].kind, by |-> r,
            life |-> count.crashes, sink |-> rec[r].sink, blind |-> sink[rec[r].sink].blind]
SessionOf(r) == sink[rec[r].sink].session
Done(r) == rec' = [rec EXCEPT ![r] = [Idle EXCEPT !.said = TRUE, !.sink = rec[r].sink,
                       !.pc = IF rec[r].kind \in {"completed", "failed"} THEN "ended" ELSE "idle"]]

\* The line is written and synced; then the index has its turn.
AppendOk(r) ==
    /\ rec[r].pc = "append"
    /\ Write(SessionOf(r), Line(r), "line")
    /\ acked' = [acked EXCEPT ![SessionOf(r)] = @ \cup {rec[r].id}]
    /\ ever' = ever \cup {Line(r)}
    /\ IF r \in Others THEN Done(r) ELSE rec' = [rec EXCEPT ![r].pc = "mirror"]
    /\ UNCHANGED <<meta, sink, degraded, count>>

\* Mutant: the index is written although the log was not.
AppendFails_mirrored(r, how) ==
    /\ rec[r].pc = "append" /\ how = "none"
    /\ count.faults < MaxFaults /\ Tick("faults")
    /\ degraded' = TRUE
    /\ rec' = [rec EXCEPT ![r].pc = "mirror"]
    /\ UNCHANGED <<store, sink, acked>>

\* It could not be written, or not synced, or the lock not be released: the
\* health is degraded, the clients are told, and the index is left alone.
AppendFails(r, how) ==
    /\ rec[r].pc = "append"
    /\ Write(SessionOf(r), Line(r), how)
    /\ ever' = ever \cup UNION {Range(file'[s]) : s \in Sessions}
    /\ degraded' = TRUE
    /\ count.faults < MaxFaults
    /\ count' = [count EXCEPT !.faults = @ + 1, !.tears = IF how \in {"part", "split", "whole"} THEN @ + 1 ELSE @]
    /\ Done(r)
    /\ UNCHANGED <<meta, sink, acked>>

\* The bridge's process ends.  A line being written may be left as it is.
Crash(r, how) ==
    /\ count.faults < MaxFaults
    /\ how # "none" => rec[r].pc = "append"
    /\ Write(SessionOf(r), Line(r), how)
    /\ ever' = ever \cup UNION {Range(file'[s]) : s \in Sessions}
    /\ count' = [count EXCEPT !.faults = @ + 1, !.crashes = @ + 1,
                              !.tears = IF how \in {"part", "split", "whole"} THEN @ + 1 ELSE @]
    /\ sink' = [k \in Sinks |-> NoSink]
    /\ rec' = [q \in Recorders |-> IF q \in Tasks /\ rec[q].said THEN [Idle EXCEPT !.pc = "ended"] ELSE Idle]
    /\ degraded' = FALSE
    /\ UNCHANGED <<meta, acked>>

LogNext ==
    \/ \E s \in Sessions : Forget(s) \/ ForgetFails(s) \/ \E k \in Sinks : OpenSink(s, k)
    \/ OpenSinkFails
    \/ \E k \in Sinks : NumberSink(k) \/ NumberSinkFails(k) \/ MarkStatus(k)
    \/ \E r \in Recorders :
         \/ \E k \in Sinks, kind \in (UNION Range(Kinds)) \cup {"other"} : Record(r, k, kind)
         \/ AppendOk(r)
         \/ \E how \in {"none", "part", "split", "whole", "line"} : AppendFails(r, how) \/ Crash(r, how)

-----------------------------------------------------------------------------
(* Properties                                                              *)

\* The ids of the lines that stand in a session's log, and of those a reader gets.
Stored(s) == {file[s][i].id : i \in DOMAIN file[s]}
Readable(s) == IF CanLoad(s) THEN Stored(s) ELSE {}

\* An event whose append was acknowledged is read back until its session is
\* forgotten, except those that were joined to an unterminated line: as long as
\* a log can be read at all, every torn write costs at most one acknowledged
\* event (file_store.rs append_event).  A write torn inside a character costs
\* the whole log, although load_events means to show "*some* history".
LossNeedsTear ==
    Cardinality(UNION {acked[s] \ Readable(s) : s \in {t \in Sessions : CanLoad(t)}}) <= count.tears

\* Two lines of a session with the same number were written through two sinks of
\* one process, or by two processes of which the later opened its sink without
\* being able to read the log: a sink that opens after a crash continues behind
\* everything that can be read, although numbers were taken for lines that never
\* came (sink.rs with_health_and_initial_seq, S03-F02).
Apart(a, b) ==
    \/ a.life = b.life /\ a.sink # b.sink
    \/ a.life < b.life /\ b.blind
    \/ b.life < a.life /\ a.blind

NumbersAreFresh ==
    \A s \in Sessions : \A i, j \in DOMAIN file[s] :
        i # j /\ file[s][i].seq = file[s][j].seq => Apart(file[s][i], file[s][j])

\* The history a reader gets is the one SessionHistory states: the lines that
\* can be read stay until the session is forgotten or its log breaks.
History == INSTANCE SessionHistory
    WITH Entries <- Ids,
         log <- [s \in Sessions |-> IF CanLoad(s) THEN [i \in DOMAIN file[s] |-> file[s][i].id]
                                     ELSE << >>],
         settled <- [s \in Sessions |-> CanLoad(s) => tail[s] # "whole"]
HistoryKept == History!Spec
=============================================================================
