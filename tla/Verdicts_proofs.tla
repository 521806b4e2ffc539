-------------------------- MODULE Verdicts_proofs ---------------------------
(****************************************************************************)
(* Proofs about what is said of a project: the gates and the releases they  *)
(* guard (ReleaseGates), for any number of connections, principals, gates   *)
(* and targets and any clock; then runs and sweeps of assessments           *)
(* (AssessmentRuns), for any number of sweeps, families, clients, passes    *)
(* and events and whatever workers answer.                                  *)
(*                                                                          *)
(* A gate may be restored from the log and the log is written from a        *)
(* command's snapshot, so what is to hold of a gate must hold of all three  *)
(* (AllHonest).  That the log follows the state needs to know what is on    *)
(* its way: at most one event for a key nobody crossed on, and it carries   *)
(* the state (Follows).                                                     *)
(*                                                                          *)
(* Of a sweep's children only the one it waits for runs (OneRuns), which is *)
(* what both invariants of sweeps rest on: the record of a sweep is what    *)
(* its children reported (RecordTrue), and a late child is its last         *)
(* (LastChild).                                                             *)
(****************************************************************************)
EXTENDS ReleaseGates, AssessmentRuns, FiniteSetTheorems, TLAPS

\* What a command may leave a gate in ...
Snapshots ==
  [known : BOOLEAN, pass : BOOLEAN, signers : SUBSET Principals, over : BOOLEAN, exp : Nat]

\* ... and a target.
Entries == [seeded : BOOLEAN, last : Nat]

\* A snapshot promises no more than it rests on, and none promises unasked.
Honest(g, s) ==
  /\ g # "MutationAuditClean" /\ s.pass /\ ~s.over
       => Cardinality(s.signers) >= RequiredSigners(g)
  /\ s.pass => s.known

\* A command's event carries a snapshot of its gate, a commit of its target, or
\* a draft.
JobTrue(j) ==
  \/ j.pc = "idle"
  \/ j.pc = "apply" /\ j.key \in Targets
  \/ /\ j.pc = "emit"
     /\ \/ j.kind = "gate" /\ j.key \in Gates /\ j.val \in Snapshots
             /\ Honest(j.key, j.val) /\ j.val.known
        \/ j.kind = "target" /\ j.key \in Targets /\ j.val \in Nat
        \/ j.kind = "notes" /\ j.key = "notes"

TypesTrue ==
  /\ gate \in [Gates -> Snapshots] /\ log.gate \in [Gates -> Snapshots]
  /\ target \in [Targets -> Entries] /\ log.target \in [Targets -> Entries]
  /\ DOMAIN log = {"gate", "target", "notes"}
  /\ DOMAIN job = Conns
  /\ now \in Nat

\* What the session shows, what a restart would read and what is on its way.
AllHonest ==
  /\ \A g \in Gates : Honest(g, gate[g]) /\ Honest(g, log.gate[g])
  /\ \A c \in Conns : JobTrue(job[c])

\* The targets are seeded together, and are before a release is applied; the log
\* is always read with them.
SeedTrue ==
  /\ \A t \in Targets : log.target[t].seeded
  /\ \/ \A t \in Targets : target[t].seeded
     \/ /\ \A t \in Targets : target[t] = Absent /\ t \in crossed
        /\ ~ReleaseLocked

Emits(c, k) == job[c].pc = "emit" /\ job[c].key = k

\* No two commands crossed on k: at most one event is on its way.
Alone(k) == \A c, d \in Conns : Emits(c, k) /\ Emits(d, k) => c = d

\* It carries what the session shows, and without it the log does.
GateFollows(g) ==
  g \notin crossed =>
    /\ Alone(g)
    /\ \A c \in Conns : Emits(c, g) => job[c].val = gate[g]
    /\ gate[g] = log.gate[g] \/ Pending(g)

TargetFollows(t) ==
  t \notin crossed =>
    /\ Alone(t)
    /\ \A c \in Conns : Emits(c, t) => job[c].val = target[t].last
    /\ target[t] = log.target[t] \/ Pending(t)

Drafted == {job[c].val : c \in {d \in Conns : Emits(d, "notes")}}

NotesFollow == "notes" \notin crossed => notes = log.notes \cup Drafted

Follows ==
  /\ \A g \in Gates : GateFollows(g)
  /\ \A t \in Targets : TargetFollows(t)
  /\ NotesFollow

GatesInv == TypesTrue /\ AllHonest /\ SeedTrue /\ Follows

-----------------------------------------------------------------------------
\* The keys of gates, targets and drafts are different.
LEMMA KeysApart ==
  /\ \A g \in Gates : g \notin Targets /\ g # "notes"
  /\ \A t \in Targets : t # "notes"
BY GatesAssumption DEF KNOWN_GATES, DEFAULT_TARGETS

\* What is on its way for a key is what was.
JobsKept(k) ==
  \A d \in Conns : /\ Emits(d, k)' <=> Emits(d, k)
                   /\ Emits(d, k) => job'[d].val = job[d].val

LEMMA GateKept ==
  ASSUME NEW g \in Gates, GateFollows(g), gate'[g] = gate[g], log'.gate[g] = log.gate[g],
         g \in crossed => g \in crossed', JobsKept(g)
  PROVE  GateFollows(g)'
BY DEF GateFollows, JobsKept, Alone, Pending, Emits

LEMMA TargetKept ==
  ASSUME NEW t \in Targets, TargetFollows(t), target'[t] = target[t],
         log'.target[t] = log.target[t], t \in crossed => t \in crossed', JobsKept(t)
  PROVE  TargetFollows(t)'
BY DEF TargetFollows, JobsKept, Alone, Pending, Emits

LEMMA DraftsKept == ASSUME JobsKept("notes") PROVE Drafted' = Drafted
BY DEF Drafted, JobsKept

\* A command that takes or leaves a job touches its own key only.
LEMMA OthersKept ==
  ASSUME TypesTrue, NEW c \in Conns, NEW j, job' = [job EXCEPT ![c] = j], NEW k,
         ~Emits(c, k), ~(j.pc = "emit" /\ j.key = k)
  PROVE  JobsKept(k)
BY DEF TypesTrue, JobsKept, Emits

\* The job a command takes, and the others'.
LEMMA JobSet ==
  ASSUME TypesTrue, AllHonest, NEW c \in Conns, NEW j, job' = [job EXCEPT ![c] = j], JobTrue(j)
  PROVE  /\ DOMAIN job' = Conns /\ job'[c] = j
         /\ \A d \in Conns : d # c => job'[d] = job[d]
         /\ \A d \in Conns : JobTrue(job[d])'
BY DEF TypesTrue, AllHonest, JobTrue

-----------------------------------------------------------------------------
(* Gate snapshots.                                                          *)

LEMMA DefaultIsHonest ==
  ASSUME NEW g
  PROVE  /\ NoGate \in Snapshots /\ Honest(g, NoGate)
         /\ DefaultGate(g) \in Snapshots /\ Honest(g, DefaultGate(g)) /\ DefaultGate(g).known
<1>1. NoGate \in Snapshots /\ Honest(g, NoGate) /\ ~NoGate.over
  BY DEF NoGate, Snapshots, Honest
<1> DEFINE b == (g = "MutationAuditClean")
<1>2. DefaultGate(g) = [NoGate EXCEPT !.known = TRUE, !.pass = b] BY DEF DefaultGate
<1>3. b \in BOOLEAN BY Zenon
<1>4. b => g = "MutationAuditClean" BY Zenon
<1>. HIDE DEF b
<1>5. /\ DefaultGate(g) \in Snapshots /\ DefaultGate(g).known
      /\ DefaultGate(g).pass = b /\ ~DefaultGate(g).over
  BY <1>1, <1>2, <1>3 DEF Snapshots
<1>. QED BY <1>1, <1>4, <1>5 DEF Honest

\* ensure_known.
LEMMA EnsuredIsHonest ==
  ASSUME TypesTrue, AllHonest, NEW g \in Gates
  PROVE  Ensured(g) \in Snapshots /\ Honest(g, Ensured(g)) /\ Ensured(g).known
<1>1. gate[g] \in Snapshots /\ Honest(g, gate[g]) BY DEF TypesTrue, AllHonest
<1>2. CASE gate[g].known BY <1>1, <1>2 DEF Ensured
<1>3. CASE ~gate[g].known BY <1>3, DefaultIsHonest DEF Ensured
<1>. QED BY <1>2, <1>3

LEMMA WithoutOverrideFields ==
  ASSUME NEW s \in Snapshots
  PROVE  /\ WithoutOverride(s) \in Snapshots
         /\ WithoutOverride(s).known = s.known /\ WithoutOverride(s).pass = s.pass
         /\ WithoutOverride(s).signers = s.signers /\ ~WithoutOverride(s).over
BY DEF WithoutOverride, Snapshots

\* touch_gate makes any snapshot honest.
LEMMA TouchedIsHonest ==
  ASSUME NEW g, NEW s \in Snapshots, s.known
  PROVE  Touched(g, s) \in Snapshots /\ Honest(g, Touched(g, s)) /\ Touched(g, s).known
<1>1. CASE g = "MutationAuditClean" BY <1>1 DEF Touched, Honest
<1>2. CASE g # "MutationAuditClean"
  <2> DEFINE b == IF Expired(s) THEN WithoutOverride(s) ELSE s
             p == Satisfied(g, s)
  <2>1. Touched(g, s) = [b EXCEPT !.pass = p] BY <1>2 DEF Touched
  <2>2. b \in Snapshots /\ b.known /\ b.signers = s.signers /\ (~Expired(s) => b.over = s.over)
    BY WithoutOverrideFields
  <2>3. p \in BOOLEAN BY DEF Satisfied
  <2>4. p /\ ~b.over => Cardinality(s.signers) >= RequiredSigners(g)
    BY <2>2, Zenon DEF Satisfied
  <2>. HIDE DEF b, p
  <2>5. /\ Touched(g, s) \in Snapshots /\ Touched(g, s).known = b.known
        /\ Touched(g, s).pass = p /\ Touched(g, s).over = b.over
        /\ Touched(g, s).signers = b.signers
    BY <2>1, <2>2, <2>3 DEF Snapshots
  <2>. QED BY <2>2, <2>4, <2>5 DEF Honest
<1>. QED BY <1>1, <1>2

-----------------------------------------------------------------------------
(* The gate commands.                                                       *)

\* What they share: an honest snapshot, and an event that carries it.
LEMMA SetGateKeeps ==
  ASSUME GatesInv, NEW c \in Conns, NEW g \in Gates, NEW s \in Snapshots, Honest(g, s), s.known,
         SetGate(c, g, s)
  PROVE  GatesInv'
<1> DEFINE j == [pc |-> "emit", kind |-> "gate", key |-> g, val |-> s]
<1>1. /\ job[c].pc = "idle" /\ gate' = [gate EXCEPT ![g] = s] /\ job' = [job EXCEPT ![c] = j]
      /\ crossed' = IF Pending(g) THEN crossed \cup {g} ELSE crossed \ {g}
      /\ target' = target /\ notes' = notes /\ log' = log /\ now' = now
  BY DEF SetGate, Accept, Report, Cross, release
<1>2. TypesTrue /\ AllHonest /\ SeedTrue /\ Follows BY DEF GatesInv
<1>3. JobTrue(j) BY DEF JobTrue
<1>4. j.pc = "emit" /\ j.kind = "gate" /\ j.key = g /\ j.val = s OBVIOUS
<1>. HIDE DEF j
<1>5. /\ DOMAIN job' = Conns /\ job'[c] = j
      /\ \A d \in Conns : d # c => job'[d] = job[d]
      /\ \A d \in Conns : JobTrue(job[d])'
  BY <1>1, <1>2, <1>3, JobSet
<1>6. gate'[g] = s /\ \A h \in Gates \ {g} : gate'[h] = gate[h]
  BY <1>1, <1>2 DEF TypesTrue
<1>7. TypesTrue' BY <1>1, <1>2, <1>5 DEF TypesTrue
<1>8. AllHonest' BY <1>1, <1>2, <1>5, <1>6 DEF AllHonest
<1>9. SeedTrue'
  <2>1. \A t \in Targets : t \in crossed => t \in crossed' BY <1>1, KeysApart
  <2>2. ReleaseLocked' => ReleaseLocked BY <1>4, <1>5 DEF ReleaseLocked
  <2>. QED BY <1>1, <1>2, <2>1, <2>2 DEF SeedTrue
<1>10. \A k : k # g => JobsKept(k)
  BY <1>1, <1>2, <1>4, OthersKept DEF Emits
<1>11. ASSUME NEW h \in Gates PROVE GateFollows(h)'
  <2>1. CASE h # g
    BY <1>1, <1>2, <1>6, <1>10, <2>1, GateKept DEF Follows
  <2>2. CASE h = g /\ ~Pending(g)
    <3>1. \A d \in Conns : Emits(d, h)' => d = c
      BY <1>5, <2>2 DEF Emits, Pending
    <3>2. Emits(c, h)' /\ job'[c].val = gate'[h] BY <1>4, <1>5, <1>6, <2>2 DEF Emits
    <3>3. Pending(h)' BY <3>2 DEF Pending, Emits
    <3>. QED BY <3>1, <3>2, <3>3 DEF GateFollows, Alone
  <2>3. CASE h = g /\ Pending(g)
    <3>1. h \in crossed' BY <1>1, <2>3
    <3>. QED BY <3>1 DEF GateFollows
  <2>. QED BY <2>1, <2>2, <2>3
<1>12. ASSUME NEW t \in Targets PROVE TargetFollows(t)'
  <2>1. t # g BY KeysApart
  <2>. QED BY <1>1, <1>2, <1>10, <2>1, TargetKept DEF Follows
<1>13. NotesFollow'
  <2>1. "notes" # g BY KeysApart
  <2>2. Drafted' = Drafted BY <1>10, <2>1, DraftsKept
  <2>. QED BY <1>1, <1>2, <2>1, <2>2 DEF Follows, NotesFollow
<1>. QED BY <1>7, <1>8, <1>9, <1>11, <1>12, <1>13 DEF GatesInv, Follows

\* gate.evaluate, gate.signoff, gate.override, gate.revoke_override and
\* gate.sync_mutation_audit.
LEMMA GateCommandKeeps ==
  ASSUME GatesInv, NEW c \in Conns,
         \/ \E g \in Gates : Evaluate(c, g)
         \/ \E who \in Callers :
              \/ \E g \in Gates : Signoff(c, g, who) \/ RevokeOverride(c, g, who)
              \/ \E g \in Gates, term \in Terms : Override(c, g, term, who)
              \/ \E clean \in BOOLEAN : SyncMutationAudit(c, clean, who)
  PROVE  GatesInv'
<1>0. TypesTrue /\ AllHonest BY DEF GatesInv
<1>1. \A who \in Callers : RequireActor(who) => who \in Principals BY DEF Callers, RequireActor
<1>2. ASSUME NEW g \in Gates, Evaluate(c, g) PROVE GatesInv'
  <2> DEFINE s == Ensured(g)
  <2>1. s \in Snapshots /\ Honest(g, s) /\ s.known BY <1>0, EnsuredIsHonest
  <2>. HIDE DEF s
  <2>2. CASE Expired(s)
    <3>1. SetGate(c, g, Touched(g, WithoutOverride(s))) BY <1>2, <2>2 DEF Evaluate, s
    <3>. QED BY <2>1, <3>1, WithoutOverrideFields, TouchedIsHonest, SetGateKeeps
  <2>3. CASE ~Expired(s)
    <3>1. SetGate(c, g, s) BY <1>2, <2>3 DEF Evaluate, s
    <3>. QED BY <2>1, <3>1, SetGateKeeps
  <2>. QED BY <2>2, <2>3
<1>3. ASSUME NEW who \in Callers, NEW g \in Gates, Signoff(c, g, who) PROVE GatesInv'
  <2> DEFINE e == Ensured(g)
             s == [e EXCEPT !.signers = Signed(e, who)]
  <2>1. e \in Snapshots /\ e.known BY <1>0, EnsuredIsHonest
  <2>2. who \in Principals BY <1>1, <1>3 DEF Signoff
  <2>3. SetGate(c, g, Touched(g, s)) BY <1>3 DEF Signoff
  <2>. HIDE DEF e
  <2>4. Signed(e, who) \subseteq Principals BY <2>1, <2>2 DEF Signed, Snapshots
  <2>5. s \in Snapshots /\ s.known BY <2>1, <2>4 DEF Snapshots
  <2>. HIDE DEF s
  <2>. QED BY <2>3, <2>5, TouchedIsHonest, SetGateKeeps
<1>4. ASSUME NEW who \in Callers, NEW g \in Gates, RevokeOverride(c, g, who) PROVE GatesInv'
  <2>1. Ensured(g) \in Snapshots /\ Ensured(g).known BY <1>0, EnsuredIsHonest
  <2>2. SetGate(c, g, Touched(g, WithoutOverride(Ensured(g)))) BY <1>4 DEF RevokeOverride
  <2>. QED BY <2>1, <2>2, WithoutOverrideFields, TouchedIsHonest, SetGateKeeps
<1>5. ASSUME NEW who \in Callers, NEW g \in Gates, NEW term \in Terms, Override(c, g, term, who)
      PROVE  GatesInv'
  <2> DEFINE e == Ensured(g)
             s == [e EXCEPT !.over = TRUE, !.exp = Expiry(term)]
  <2>1. e \in Snapshots /\ e.known BY <1>0, EnsuredIsHonest
  <2>2. Expiry(term) \in Nat BY <1>0, GatesAssumption DEF Expiry, TypesTrue
  <2>3. SetGate(c, g, Touched(g, s)) BY <1>5 DEF Override
  <2>. HIDE DEF e
  <2>4. s \in Snapshots /\ s.known BY <2>1, <2>2 DEF Snapshots
  <2>. HIDE DEF s
  <2>. QED BY <2>3, <2>4, TouchedIsHonest, SetGateKeeps
<1>6. ASSUME NEW who \in Callers, NEW clean \in BOOLEAN, SyncMutationAudit(c, clean, who)
      PROVE  GatesInv'
  <2> DEFINE g == "MutationAuditClean"
             e == Ensured(g)
             s == [e EXCEPT !.pass = clean]
  <2>1. g \in Gates /\ SetGate(c, g, s) BY <1>6 DEF SyncMutationAudit
  <2>2. e \in Snapshots /\ e.known BY <1>0, <2>1, EnsuredIsHonest
  <2>. HIDE DEF e
  <2>3. s \in Snapshots /\ s.known BY <2>2 DEF Snapshots
  <2>. HIDE DEF s
  <2>4. Honest(g, s) BY <2>3 DEF Honest
  <2>. HIDE DEF g
  <2>. QED BY <2>1, <2>3, <2>4, SetGateKeeps
<1>. QED BY <1>2, <1>3, <1>4, <1>5, <1>6

-----------------------------------------------------------------------------
(* The release commands.                                                    *)

\* seed_default_targets, under the release mutex.
LEMMA SeededIsSeeded ==
  ASSUME TypesTrue, SeedTrue
  PROVE  /\ Seeded \in [Targets -> Entries] /\ \A t \in Targets : Seeded[t].seeded
         /\ \A t \in Targets : Seeded[t] # target[t] => t \in crossed
<1>1. Never \in Entries /\ Never.seeded BY DEF Never, Entries
<1>2. CASE \A t \in Targets : target[t] = Absent
  <2>1. Seeded = [t \in Targets |-> Never] BY <1>2 DEF Seeded
  <2>2. \A t \in Targets : t \in crossed BY <1>2 DEF SeedTrue, Absent
  <2>. QED BY <1>1, <2>1, <2>2
<1>3. CASE ~\A t \in Targets : target[t] = Absent
  <2>1. Seeded = target BY <1>3 DEF Seeded
  <2>. QED BY <1>3, <2>1 DEF TypesTrue, SeedTrue
<1>. QED BY <1>2, <1>3

\* A command that seeds and takes a job without an event, or no job at all.
LEMMA SeedingKeeps ==
  ASSUME GatesInv, target' = Seeded, UNCHANGED <<gate, notes, log, now, crossed>>,
         \/ job' = job
         \/ \E c \in Conns : \E j : /\ job[c].pc = "idle" /\ job' = [job EXCEPT ![c] = j]
                                    /\ j.pc = "apply" /\ j.key \in Targets
  PROVE  GatesInv'
<1>1. TypesTrue /\ AllHonest /\ SeedTrue /\ Follows BY DEF GatesInv
<1>2. /\ Seeded \in [Targets -> Entries] /\ \A t \in Targets : Seeded[t].seeded
      /\ \A t \in Targets : Seeded[t] # target[t] => t \in crossed
  BY <1>1, SeededIsSeeded
<1>3. /\ DOMAIN job' = Conns /\ (\A c \in Conns : JobTrue(job[c])') /\ \A k : JobsKept(k)
  <2>1. CASE job' = job BY <1>1, <2>1 DEF TypesTrue, AllHonest, JobTrue, JobsKept, Emits
  <2>2. ASSUME NEW c \in Conns, NEW j, job[c].pc = "idle", job' = [job EXCEPT ![c] = j],
               j.pc = "apply", j.key \in Targets
        PROVE  /\ DOMAIN job' = Conns /\ (\A d \in Conns : JobTrue(job[d])') /\ \A k : JobsKept(k)
    <3>1. JobTrue(j) BY <2>2 DEF JobTrue
    <3>2. \A k : JobsKept(k) BY <1>1, <2>2, OthersKept DEF Emits
    <3>. QED BY <1>1, <2>2, <3>1, <3>2, JobSet
  <2>. QED BY <2>1, <2>2
<1>4. TypesTrue' BY <1>1, <1>2, <1>3 DEF TypesTrue
<1>5. AllHonest' BY <1>1, <1>3 DEF AllHonest
<1>6. SeedTrue' BY <1>1, <1>2 DEF SeedTrue
<1>7. \A g \in Gates : GateFollows(g)' BY <1>1, <1>3, GateKept DEF Follows
<1>8. ASSUME NEW t \in Targets PROVE TargetFollows(t)'
  <2>1. CASE t \in crossed BY <2>1 DEF TargetFollows
  <2>2. CASE t \notin crossed BY <1>1, <1>2, <1>3, <2>2, TargetKept DEF Follows
  <2>. QED BY <2>1, <2>2
<1>9. NotesFollow' BY <1>1, <1>3, DraftsKept DEF Follows, NotesFollow
<1>. QED BY <1>4, <1>5, <1>6, <1>7, <1>8, <1>9 DEF GatesInv, Follows

LEMMA ReleaseCheckKeeps ==
  ASSUME GatesInv, NEW c \in Conns, NEW t \in Targets, NEW kind, NEW req,
         ReleaseCheck(c, kind, t, req)
  PROVE  GatesInv'
<1> DEFINE j == [NoJob EXCEPT !.pc = "apply", !.kind = kind, !.key = t]
<1>1. j.pc = "apply" /\ j.key = t BY DEF NoJob
<1>2. /\ job[c].pc = "idle" /\ job' = [job EXCEPT ![c] = j] /\ target' = Seeded
      /\ UNCHANGED <<gate, notes, log, now, crossed>>
  BY DEF ReleaseCheck, Accept
<1>. HIDE DEF j
<1>. QED BY <1>1, <1>2, SeedingKeeps

LEMMA ReleaseDeniedKeeps ==
  ASSUME GatesInv, NEW c \in Conns, NEW req, ReleaseDenied(c, req)
  PROVE  GatesInv'
BY SeedingKeeps DEF ReleaseDenied

\* apply_deploy, and the event with the commit.
LEMMA ReleaseApplyKeeps ==
  ASSUME GatesInv, NEW c \in Conns, NEW kind, NEW head \in Commits, ReleaseApply(c, kind, head)
  PROVE  GatesInv'
<1> DEFINE t == job[c].key
           j == [pc |-> "emit", kind |-> "target", key |-> t, val |-> head]
<1>1. /\ job[c].pc = "apply" /\ job' = [job EXCEPT ![c] = j]
      /\ target' = [target EXCEPT ![t] = ApplyDeploy(target[t], head)]
      /\ crossed' = IF Pending(t) THEN crossed \cup {t} ELSE crossed \ {t}
      /\ UNCHANGED <<gate, notes, log, now>>
  BY DEF ReleaseApply, Report, Cross
<1>2. TypesTrue /\ AllHonest /\ SeedTrue /\ Follows BY DEF GatesInv
<1>3. t \in Targets BY <1>1, <1>2 DEF AllHonest, JobTrue
<1>4. head \in Nat BY GatesAssumption DEF Commits
<1>. HIDE DEF t
<1>5. JobTrue(j) BY <1>3, <1>4 DEF JobTrue
<1>6. j.pc = "emit" /\ j.key = t /\ j.val = head OBVIOUS
<1>. HIDE DEF j
<1>7. /\ DOMAIN job' = Conns /\ job'[c] = j
      /\ \A d \in Conns : d # c => job'[d] = job[d]
      /\ \A d \in Conns : JobTrue(job[d])'
  BY <1>1, <1>2, <1>5, JobSet
<1>8. \A u \in Targets : target[u].seeded
  BY <1>1, <1>2 DEF SeedTrue, ReleaseLocked
<1>9. /\ target'[t].last = head /\ target'[t].seeded /\ target'[t] \in Entries
      /\ \A u \in Targets \ {t} : target'[u] = target[u]
  <2>1. target[t] \in Entries /\ target[t].seeded BY <1>2, <1>3, <1>8 DEF TypesTrue
  <2>2. target'[t] = [target[t] EXCEPT !.last = head]
    BY <1>1, <1>2, <1>3, <2>1 DEF TypesTrue, ApplyDeploy
  <2>3. \A u \in Targets \ {t} : target'[u] = target[u] BY <1>1, <1>2 DEF TypesTrue
  <2>. QED BY <1>4, <2>1, <2>2, <2>3 DEF Entries
<1>10. TypesTrue'
  <2>1. target' \in [Targets -> Entries] BY <1>1, <1>2, <1>9 DEF TypesTrue
  <2>. QED BY <1>1, <1>2, <1>7, <2>1 DEF TypesTrue
<1>11. AllHonest' BY <1>1, <1>2, <1>7 DEF AllHonest
<1>12. SeedTrue' BY <1>1, <1>2, <1>8, <1>9 DEF SeedTrue
<1>13. \A k : k # t => JobsKept(k) BY <1>1, <1>2, <1>6, OthersKept DEF Emits
<1>14. ASSUME NEW g \in Gates PROVE GateFollows(g)'
  <2>1. g # t BY <1>3, KeysApart
  <2>. QED BY <1>1, <1>2, <1>13, <2>1, GateKept DEF Follows
<1>15. ASSUME NEW u \in Targets PROVE TargetFollows(u)'
  <2>1. CASE u # t BY <1>1, <1>2, <1>9, <1>13, <2>1, TargetKept DEF Follows
  <2>2. CASE u = t /\ ~Pending(t)
    <3>1. \A d \in Conns : Emits(d, u)' => d = c BY <1>7, <2>2 DEF Emits, Pending
    <3>2. Emits(c, u)' /\ job'[c].val = target'[u].last BY <1>6, <1>7, <1>9, <2>2 DEF Emits
    <3>3. Pending(u)' BY <3>2 DEF Pending, Emits
    <3>. QED BY <3>1, <3>2, <3>3 DEF TargetFollows, Alone
  <2>3. CASE u = t /\ Pending(t)
    <3>1. u \in crossed' BY <1>1, <2>3
    <3>. QED BY <3>1 DEF TargetFollows
  <2>. QED BY <2>1, <2>2, <2>3
<1>16. NotesFollow'
  <2>1. "notes" # t BY <1>3, KeysApart
  <2>2. Drafted' = Drafted BY <1>13, <2>1, DraftsKept
  <2>. QED BY <1>1, <1>2, <2>1, <2>2 DEF Follows, NotesFollow
<1>. QED BY <1>10, <1>11, <1>12, <1>14, <1>15, <1>16 DEF GatesInv, Follows

\* release.generate_notes.
LEMMA GenerateNotesKeeps ==
  ASSUME GatesInv, NEW c \in Conns, NEW t, NEW head, GenerateNotes(c, t, head)
  PROVE  GatesInv'
<1> DEFINE draft == [target |-> t, from |-> Baseline(t, head), to |-> head]
           j == [pc |-> "emit", kind |-> "notes", key |-> "notes", val |-> draft]
<1>1. /\ job[c].pc = "idle" /\ job' = [job EXCEPT ![c] = j]
      /\ target' = Seeded /\ notes' = notes \cup {draft} /\ ~ReleaseLocked
      /\ UNCHANGED <<gate, log, now, crossed>>
  BY DEF GenerateNotes, Accept, Report
<1>. HIDE DEF draft
<1>2. TypesTrue /\ AllHonest /\ SeedTrue /\ Follows BY DEF GatesInv
<1>3. JobTrue(j) /\ j.pc = "emit" /\ j.key = "notes" /\ j.val = draft BY DEF JobTrue
<1>. HIDE DEF j
<1>4. /\ DOMAIN job' = Conns /\ job'[c] = j
      /\ \A d \in Conns : d # c => job'[d] = job[d]
      /\ \A d \in Conns : JobTrue(job[d])'
  BY <1>1, <1>2, <1>3, JobSet
<1>5. /\ Seeded \in [Targets -> Entries] /\ \A u \in Targets : Seeded[u].seeded
      /\ \A u \in Targets : Seeded[u] # target[u] => u \in crossed
  BY <1>2, SeededIsSeeded
<1>6. \A k : k # "notes" => JobsKept(k) BY <1>1, <1>2, <1>3, OthersKept DEF Emits
<1>7. TypesTrue' BY <1>1, <1>2, <1>4, <1>5 DEF TypesTrue
<1>8. AllHonest' BY <1>1, <1>2, <1>4 DEF AllHonest
<1>9. SeedTrue' BY <1>1, <1>2, <1>5 DEF SeedTrue
<1>10. \A g \in Gates : GateFollows(g)' BY <1>1, <1>2, <1>6, GateKept, KeysApart DEF Follows
<1>11. ASSUME NEW u \in Targets PROVE TargetFollows(u)'
  <2>1. CASE u \in crossed BY <1>1, <2>1 DEF TargetFollows
  <2>2. CASE u \notin crossed
    <3>1. target'[u] = target[u] BY <1>1, <1>5, <2>2
    <3>. QED BY <1>1, <1>2, <1>6, <2>2, <3>1, TargetKept, KeysApart DEF Follows
  <2>. QED BY <2>1, <2>2
<1>12. NotesFollow'
  <2>1. Drafted' = Drafted \cup {draft}
    <3>1. \A d \in Conns : d # c => (Emits(d, "notes")' <=> Emits(d, "notes"))
      BY <1>4 DEF Emits
    <3>2. ~Emits(c, "notes") /\ Emits(c, "notes")' BY <1>1, <1>3, <1>4 DEF Emits
    <3>. QED BY <1>3, <1>4, <3>1, <3>2 DEF Drafted
  <2>. QED BY <1>1, <1>2, <2>1 DEF Follows, NotesFollow
<1>. QED BY <1>7, <1>8, <1>9, <1>10, <1>11, <1>12 DEF GatesInv, Follows

-----------------------------------------------------------------------------
(* The log, and what a restart reads from it.                               *)

LEMMA RecordedSnapshot ==
  ASSUME NEW s \in Snapshots, s.known
  PROVE  GateFromPayload(s) = s
BY DEF GateFromPayload, Snapshots

\* emit_session_event: the key has nothing on its way, or was crossed on.
LEMMA EmitKeeps ==
  ASSUME GatesInv, NEW c \in Conns, Emit(c)
  PROVE  GatesInv'
<1> DEFINE k == job[c].key
           v == job[c].val
<1>1. /\ job[c].pc = "emit" /\ log' = Recorded(job[c]) /\ job' = [job EXCEPT ![c] = NoJob]
      /\ UNCHANGED <<gate, target, notes, now, crossed>>
  BY DEF Emit, release
<1>2. TypesTrue /\ AllHonest /\ SeedTrue /\ Follows BY DEF GatesInv
<1>3. \/ job[c].kind = "gate" /\ k \in Gates /\ v \in Snapshots /\ Honest(k, v) /\ v.known
      \/ job[c].kind = "target" /\ k \in Targets /\ v \in Nat
      \/ job[c].kind = "notes" /\ k = "notes"
  BY <1>1, <1>2 DEF AllHonest, JobTrue
<1>4. Emits(c, k) BY <1>1 DEF Emits
<1>5. NoJob.pc = "idle" /\ JobTrue(NoJob) BY DEF NoJob, JobTrue
<1>6. /\ DOMAIN job' = Conns /\ job'[c] = NoJob
      /\ \A d \in Conns : d # c => job'[d] = job[d]
      /\ \A d \in Conns : JobTrue(job[d])'
  BY <1>1, <1>2, <1>5, JobSet
<1>7. \A q : q # k => JobsKept(q) BY <1>1, <1>2, <1>5, OthersKept DEF Emits
<1>8. \A d \in Conns : ReleaseLocked' => ReleaseLocked BY <1>5, <1>6 DEF ReleaseLocked
<1>9. ASSUME NEW g, Alone(g), g = k PROVE \A d \in Conns : ~Emits(d, g)'
  BY <1>4, <1>5, <1>6, <1>9 DEF Alone, Emits
<1>. HIDE DEF k, v
<1>10. CASE job[c].kind = "gate"
  <2>1. k \in Gates /\ v \in Snapshots /\ Honest(k, v) /\ v.known
    BY <1>3, <1>10, KeysApart DEF k
  <2>2. log' = [log EXCEPT !.gate = [log.gate EXCEPT ![k] = v]]
    BY <1>1, <1>10, <2>1, RecordedSnapshot DEF Recorded, RecordedGate, k, v
  <2>3. /\ log'.gate = [log.gate EXCEPT ![k] = v] /\ log'.target = log.target
        /\ log'.notes = log.notes /\ DOMAIN log' = DOMAIN log
    BY <1>2, <2>2 DEF TypesTrue
  <2>4. log'.gate[k] = v /\ \A g \in Gates \ {k} : log'.gate[g] = log.gate[g]
    BY <1>2, <2>1, <2>3 DEF TypesTrue
  <2>5. TypesTrue' BY <1>1, <1>2, <1>6, <2>1, <2>3 DEF TypesTrue
  <2>6. AllHonest' BY <1>1, <1>2, <1>6, <2>1, <2>4 DEF AllHonest
  <2>7. SeedTrue' BY <1>1, <1>2, <1>8, <2>3 DEF SeedTrue, ReleaseLocked
  <2>8. ASSUME NEW g \in Gates PROVE GateFollows(g)'
    <3>1. CASE g # k BY <1>1, <1>2, <1>7, <2>4, <3>1, GateKept DEF Follows
    <3>2. CASE g = k /\ g \in crossed BY <1>1, <3>2 DEF GateFollows
    <3>3. CASE g = k /\ g \notin crossed
      <4>1. Alone(g) /\ v = gate[g] BY <1>2, <1>4, <3>3 DEF Follows, GateFollows, v
      <4>2. \A d \in Conns : ~Emits(d, g)' BY <1>9, <3>3, <4>1
      <4>3. gate'[g] = log'.gate[g] BY <1>1, <2>4, <3>3, <4>1
      <4>. QED BY <4>2, <4>3 DEF GateFollows, Alone
    <3>. QED BY <3>1, <3>2, <3>3
  <2>9. \A t \in Targets : TargetFollows(t)'
    BY <1>1, <1>2, <1>7, <2>1, <2>3, TargetKept, KeysApart DEF Follows
  <2>10. NotesFollow'
    <3>1. Drafted' = Drafted BY <1>7, <2>1, DraftsKept, KeysApart
    <3>. QED BY <1>1, <1>2, <2>3, <3>1 DEF Follows, NotesFollow
  <2>. QED BY <2>5, <2>6, <2>7, <2>8, <2>9, <2>10 DEF GatesInv, Follows
<1>11. CASE job[c].kind = "target"
  <2>1. k \in Targets /\ v \in Nat BY <1>3, <1>11, KeysApart
  <2>2. log.target[k] \in Entries /\ log.target[k].seeded
    BY <1>2, <2>1 DEF TypesTrue, SeedTrue
  <2>3. log' = [log EXCEPT !.target = [log.target EXCEPT ![k] = [log.target[k] EXCEPT !.last = v]]]
    BY <1>1, <1>11, <2>2 DEF Recorded, RecordedDeploy, ApplyDeploy, k, v
  <2>4. /\ log'.target = [log.target EXCEPT ![k] = [log.target[k] EXCEPT !.last = v]]
        /\ log'.gate = log.gate /\ log'.notes = log.notes /\ DOMAIN log' = DOMAIN log
    BY <1>2, <2>3 DEF TypesTrue
  <2>5. /\ log'.target[k].last = v /\ log'.target[k].seeded /\ log'.target[k] \in Entries
        /\ \A t \in Targets \ {k} : log'.target[t] = log.target[t]
    BY <1>2, <2>1, <2>2, <2>4 DEF TypesTrue, Entries
  <2>6. TypesTrue'
    <3>1. log'.target \in [Targets -> Entries] BY <1>2, <2>4, <2>5 DEF TypesTrue
    <3>. QED BY <1>1, <1>2, <1>6, <2>4, <3>1 DEF TypesTrue
  <2>7. AllHonest' BY <1>1, <1>2, <1>6, <2>4 DEF AllHonest
  <2>8. SeedTrue' BY <1>1, <1>2, <1>8, <2>5 DEF SeedTrue, ReleaseLocked
  <2>9. \A g \in Gates : GateFollows(g)'
    BY <1>1, <1>2, <1>7, <2>1, <2>4, GateKept, KeysApart DEF Follows
  <2>10. ASSUME NEW t \in Targets PROVE TargetFollows(t)'
    <3>1. CASE t # k BY <1>1, <1>2, <1>7, <2>5, <3>1, TargetKept DEF Follows
    <3>2. CASE t = k /\ t \in crossed BY <1>1, <3>2 DEF TargetFollows
    <3>3. CASE t = k /\ t \notin crossed
      <4>1. Alone(t) /\ v = target[t].last
        BY <1>2, <1>4, <3>3 DEF Follows, TargetFollows, v
      <4>2. \A d \in Conns : ~Emits(d, t)' BY <1>9, <3>3, <4>1
      <4>3. target'[t] = log'.target[t]
        <5>1. target[t] \in Entries BY <1>2 DEF TypesTrue
        <5>2. target[t].seeded BY <1>2, <3>3 DEF SeedTrue
        <5>. QED BY <1>1, <2>5, <3>3, <4>1, <5>1, <5>2 DEF Entries
      <4>. QED BY <4>2, <4>3 DEF TargetFollows, Alone
    <3>. QED BY <3>1, <3>2, <3>3
  <2>11. NotesFollow'
    <3>1. Drafted' = Drafted BY <1>7, <2>1, DraftsKept, KeysApart
    <3>. QED BY <1>1, <1>2, <2>4, <3>1 DEF Follows, NotesFollow
  <2>. QED BY <2>6, <2>7, <2>8, <2>9, <2>10, <2>11 DEF GatesInv, Follows
<1>12. CASE job[c].kind = "notes"
  <2>1. k = "notes" BY <1>3, <1>12, KeysApart
  <2>2. log' = [log EXCEPT !.notes = log.notes \cup {v}]
    BY <1>1, <1>12 DEF Recorded, RecordedDraft, v
  <2>3. /\ log'.notes = log.notes \cup {v} /\ log'.gate = log.gate /\ log'.target = log.target
        /\ DOMAIN log' = DOMAIN log
    BY <1>2, <2>2 DEF TypesTrue
  <2>4. TypesTrue' BY <1>1, <1>2, <1>6, <2>3 DEF TypesTrue
  <2>5. AllHonest' BY <1>1, <1>2, <1>6, <2>3 DEF AllHonest
  <2>6. SeedTrue' BY <1>1, <1>2, <1>8, <2>3 DEF SeedTrue, ReleaseLocked
  <2>7. \A g \in Gates : GateFollows(g)'
    BY <1>1, <1>2, <1>7, <2>1, <2>3, GateKept, KeysApart DEF Follows
  <2>8. \A t \in Targets : TargetFollows(t)'
    BY <1>1, <1>2, <1>7, <2>1, <2>3, TargetKept, KeysApart DEF Follows
  <2>9. NotesFollow'
    <3>1. Drafted = Drafted' \cup {v}
      <4>1. \A d \in Conns : d # c => (Emits(d, "notes")' <=> Emits(d, "notes"))
        BY <1>6 DEF Emits
      <4>2. Emits(c, "notes") /\ ~Emits(c, "notes")' BY <1>4, <1>5, <1>6, <2>1 DEF Emits
      <4>. QED BY <1>6, <4>1, <4>2 DEF Drafted, v
    <3>. QED BY <1>1, <1>2, <2>3, <3>1 DEF Follows, NotesFollow
  <2>. QED BY <2>4, <2>5, <2>6, <2>7, <2>8, <2>9 DEF GatesInv, Follows
<1>. QED BY <1>3, <1>10, <1>11, <1>12

\* The event is dropped: its key counts as crossed on.
LEMMA EmitLostKeeps ==
  ASSUME GatesInv, NEW c \in Conns, EmitLost(c)
  PROVE  GatesInv'
<1> DEFINE k == job[c].key
<1>1. /\ job[c].pc = "emit" /\ job' = [job EXCEPT ![c] = NoJob]
      /\ crossed' = crossed \cup {k}
      /\ UNCHANGED <<gate, target, notes, log, now>>
  BY DEF EmitLost, release
<1>2. TypesTrue /\ AllHonest /\ SeedTrue /\ Follows BY DEF GatesInv
<1>3. NoJob.pc = "idle" /\ JobTrue(NoJob) BY DEF NoJob, JobTrue
<1>4. /\ DOMAIN job' = Conns /\ job'[c] = NoJob
      /\ \A d \in Conns : d # c => job'[d] = job[d]
      /\ \A d \in Conns : JobTrue(job[d])'
  BY <1>1, <1>2, <1>3, JobSet
<1>5. \A q : q # k => JobsKept(q) BY <1>1, <1>2, <1>3, OthersKept DEF Emits
<1>6. ReleaseLocked' => ReleaseLocked BY <1>3, <1>4 DEF ReleaseLocked
<1>. HIDE DEF k
<1>7. TypesTrue' BY <1>1, <1>2, <1>4 DEF TypesTrue
<1>8. AllHonest' BY <1>1, <1>2, <1>4 DEF AllHonest
<1>9. SeedTrue' BY <1>1, <1>2, <1>6 DEF SeedTrue
<1>10. ASSUME NEW g \in Gates PROVE GateFollows(g)'
  <2>1. CASE g = k BY <1>1, <2>1 DEF GateFollows
  <2>2. CASE g # k BY <1>1, <1>2, <1>5, <2>2, GateKept DEF Follows
  <2>. QED BY <2>1, <2>2
<1>11. ASSUME NEW t \in Targets PROVE TargetFollows(t)'
  <2>1. CASE t = k BY <1>1, <2>1 DEF TargetFollows
  <2>2. CASE t # k BY <1>1, <1>2, <1>5, <2>2, TargetKept DEF Follows
  <2>. QED BY <2>1, <2>2
<1>12. NotesFollow'
  <2>1. CASE k = "notes" BY <1>1, <2>1 DEF NotesFollow
  <2>2. CASE k # "notes"
    <3>1. Drafted' = Drafted BY <1>5, <2>2, DraftsKept
    <3>. QED BY <1>1, <1>2, <3>1 DEF Follows, NotesFollow
  <2>. QED BY <2>1, <2>2
<1>. QED BY <1>7, <1>8, <1>9, <1>10, <1>11, <1>12 DEF GatesInv, Follows

\* A restart that reads the log, and one that cannot.
LEMMA RestartKeeps ==
  ASSUME GatesInv, Restart \/ RestartBlind
  PROVE  GatesInv'
<1>1. TypesTrue /\ AllHonest /\ SeedTrue /\ Follows BY DEF GatesInv
<1>2. job' = [c \in Conns |-> NoJob] /\ log' = log /\ now' = now BY DEF Restart, RestartBlind
<1>3. /\ DOMAIN job' = Conns /\ \A c \in Conns : JobTrue(job[c])' /\ \A k : ~Emits(c, k)'
      /\ ~ReleaseLocked' /\ Drafted' = {}
  BY <1>2 DEF NoJob, JobTrue, Emits, ReleaseLocked, Drafted
<1>4. CASE Restart
  <2>1. gate' = log.gate /\ target' = log.target /\ notes' = log.notes /\ crossed' = {}
    BY <1>4 DEF Restart
  <2>2. TypesTrue' BY <1>1, <1>2, <1>3, <2>1 DEF TypesTrue
  <2>3. AllHonest' BY <1>1, <1>2, <1>3, <2>1 DEF AllHonest
  <2>4. SeedTrue' BY <1>1, <1>2, <2>1 DEF SeedTrue
  <2>5. Follows' BY <1>2, <1>3, <2>1 DEF Follows, GateFollows, TargetFollows, NotesFollow, Alone
  <2>. QED BY <2>2, <2>3, <2>4, <2>5 DEF GatesInv
<1>5. CASE RestartBlind
  <2>1. /\ gate' = [g \in Gates |-> NoGate] /\ target' = [t \in Targets |-> Absent]
        /\ crossed' = Gates \cup Targets \cup {"notes"}
    BY <1>5 DEF RestartBlind
  <2>2. NoGate \in Snapshots /\ \A g : Honest(g, NoGate) BY DefaultIsHonest
  <2>3. Absent \in Entries BY DEF Absent, Entries
  <2>4. TypesTrue' BY <1>1, <1>2, <1>3, <2>1, <2>2, <2>3 DEF TypesTrue
  <2>5. AllHonest' BY <1>1, <1>2, <1>3, <2>1, <2>2 DEF AllHonest
  <2>6. SeedTrue' BY <1>1, <1>2, <1>3, <2>1 DEF SeedTrue
  <2>7. Follows' BY <2>1 DEF Follows, GateFollows, TargetFollows, NotesFollow
  <2>. QED BY <2>4, <2>5, <2>6, <2>7 DEF GatesInv
<1>. QED BY <1>4, <1>5

\* The clock, and a step of nobody.
LEMMA IdleKeeps ==
  ASSUME GatesInv, Tick \/ UNCHANGED vars
  PROVE  GatesInv'
<1>1. /\ UNCHANGED <<gate, target, notes, log, job, crossed>>
      /\ now' \in Nat
  BY DEF Tick, vars, release, GatesInv, TypesTrue
<1>2. TypesTrue /\ AllHonest /\ SeedTrue /\ Follows BY DEF GatesInv
<1>3. TypesTrue' BY <1>1, <1>2 DEF TypesTrue
<1>4. AllHonest' BY <1>1, <1>2 DEF AllHonest, JobTrue
<1>5. SeedTrue' BY <1>1, <1>2 DEF SeedTrue, ReleaseLocked
<1>6. Follows'
  BY <1>1, <1>2 DEF Follows, GateFollows, TargetFollows, NotesFollow, Alone, Emits, Pending, Drafted
<1>. QED BY <1>3, <1>4, <1>5, <1>6 DEF GatesInv

-----------------------------------------------------------------------------
LEMMA InitGates == Init => GatesInv
<1>. SUFFICES ASSUME Init PROVE GatesInv
  OBVIOUS
<1>1. NoGate \in Snapshots /\ \A g : Honest(g, NoGate) BY DefaultIsHonest
<1>2. Never \in Entries /\ Never.seeded BY DEF Never, Entries
<1>3. /\ gate = [g \in Gates |-> NoGate] /\ target = [t \in Targets |-> Never]
      /\ log = [gate |-> gate, target |-> target, notes |-> notes]
      /\ job = [c \in Conns |-> NoJob] /\ now = 0 /\ crossed = {} /\ notes = {}
  BY DEF Init
<1>4. TypesTrue BY <1>1, <1>2, <1>3 DEF TypesTrue
<1>5. AllHonest BY <1>1, <1>3 DEF AllHonest, JobTrue, NoJob
<1>6. SeedTrue BY <1>2, <1>3 DEF SeedTrue
<1>7. \A c \in Conns : \A k : ~Emits(c, k) BY <1>3 DEF Emits, NoJob
<1>8. Drafted = {} BY <1>7 DEF Drafted
<1>9. Follows BY <1>3, <1>7, <1>8 DEF Follows, GateFollows, TargetFollows, NotesFollow, Alone
<1>. QED BY <1>4, <1>5, <1>6, <1>9 DEF GatesInv

LEMMA NextGates == GatesInv /\ [Next]_vars => GatesInv'
<1>. SUFFICES ASSUME GatesInv, [Next]_vars PROVE GatesInv'
  OBVIOUS
<1>1. ASSUME NEW c \in Conns,
             \/ \E t \in Targets : DeployCheck(c, t) \/ DeployDenied(c, t) \/ PublishCheck(c, t)
             \/ PublishDenied(c)
             \/ \E head \in Commits : DeployApply(c, head) \/ PublishApply(c, head)
             \/ \E t \in Targets, head \in Commits : GenerateNotes(c, t, head)
      PROVE  GatesInv'
  BY <1>1, ReleaseCheckKeeps, ReleaseDeniedKeeps, ReleaseApplyKeeps, GenerateNotesKeeps
     DEF DeployCheck, DeployDenied, PublishCheck, PublishDenied, DeployApply, PublishApply
<1>. QED BY <1>1, GateCommandKeeps, EmitKeeps, EmitLostKeeps, RestartKeeps, IdleKeeps DEF Next

LEMMA GatesAlways == Spec => []GatesInv
BY InitGates, NextGates, PTL DEF Spec

\* Once no event is on its way for a key nobody crossed on, a restart reads from
\* the log what the session shows (gate.changed, release.deploy_progress).
THEOREM RestartSeesState == Spec => []LogFollowsState
<1>1. GatesInv => LogFollowsState
  <2>. SUFFICES ASSUME GatesInv PROVE LogFollowsState
    OBVIOUS
  <2>1. notes # log.notes => Pending("notes") \/ "notes" \in crossed
    <3>1. Drafted # {} => Pending("notes") BY DEF Drafted, Pending, Emits
    <3>. QED BY <3>1 DEF GatesInv, Follows, NotesFollow
  <2>. QED BY <2>1 DEF GatesInv, Follows, GateFollows, TargetFollows, LogFollowsState
<1>. QED BY <1>1, GatesAlways, PTL

\* A gate that passes without an override has its signatures, after any commands,
\* expiries, restarts and replays (touch_gate).
THEOREM PassNeedsSigners == Spec => []PassIsSigned
<1>1. GatesInv => PassIsSigned BY DEF GatesInv, AllHonest, Honest, PassIsSigned
<1>. QED BY <1>1, GatesAlways, PTL

\* A gate that counts is earned.
LEMMA PassIsEarned ==
  ASSUME GatesInv, NEW g \in Gates, EffectivelyPass(gate[g])
  PROVE  Earned(g)
<1>1. gate[g] \in Snapshots /\ Honest(g, gate[g]) /\ now \in Nat
  BY DEF GatesInv, TypesTrue, AllHonest
<1>2. CASE gate[g].over
  <2>1. ~(gate[g].exp <= now) /\ gate[g].exp \in Nat
    BY <1>1, <1>2 DEF EffectivelyPass, Expired, Snapshots
  <2>. QED BY <1>1, <1>2, <2>1 DEF Earned
<1>3. CASE ~gate[g].over
  <2>1. gate[g].pass BY <1>3 DEF EffectivelyPass
  <2>2. gate[g].signers \cap Principals = gate[g].signers BY <1>1 DEF Snapshots
  <2>. QED BY <1>1, <1>3, <2>1, <2>2 DEF Earned, Honest
<1>. QED BY <1>2, <1>3

\* A release goes ahead only when each gate its target needs is earned at the
\* check (missing_gate_ids, gate_is_effectively_pass), for any history before it:
\* it has its signatures or an override that has not run out.
THEOREM EvidenceIsNeeded == Spec => ReleaseNeedsEvidence
<1> DEFINE Step == \A c \in Conns : job[c].pc = "idle" /\ job'[c].pc = "apply"
                     => \A g \in RequiredFor(job'[c]) : g \in Gates /\ Earned(g)
<1>1. ASSUME GatesInv, [Next]_vars PROVE Step
  <2>. SUFFICES ASSUME NEW c \in Conns, job[c].pc = "idle", job'[c].pc = "apply"
                PROVE  \A g \in RequiredFor(job'[c]) : g \in Gates /\ Earned(g)
    OBVIOUS
  <2>0. DOMAIN job = Conns BY <1>1 DEF GatesInv, TypesTrue
  <2>1. ASSUME NEW d \in Conns, NEW j, job' = [job EXCEPT ![d] = j], j.pc # "apply" PROVE FALSE
    BY <2>0, <2>1
  <2>2. ASSUME job' = job \/ job' = [d \in Conns |-> NoJob] PROVE FALSE
    BY <2>2 DEF NoJob
  <2>3. ASSUME NEW d \in Conns, NEW t \in Targets, NEW kind \in {"deploy", "publish"}, NEW req,
               req = (IF kind = "deploy" THEN RequiredForEnvironment(t) ELSE RequiredForPublish),
               ReleaseCheck(d, kind, t, req)
        PROVE  \A g \in RequiredFor(job'[c]) : g \in Gates /\ Earned(g)
    <3> DEFINE j == [NoJob EXCEPT !.pc = "apply", !.kind = kind, !.key = t]
    <3>1. job' = [job EXCEPT ![d] = j] /\ MissingGates(req) = {} BY <2>3 DEF ReleaseCheck
    <3>2. j.kind = kind /\ j.key = t BY DEF NoJob
    <3>. HIDE DEF j
    <3>3. job'[c] = j BY <2>0, <3>1
    <3>4. RequiredFor(job'[c]) = req BY <2>3, <3>2, <3>3 DEF RequiredFor
    <3>5. \A g \in req : g \in Gates /\ EffectivelyPass(gate[g]) BY <3>1 DEF MissingGates
    <3>. QED BY <1>1, <3>4, <3>5, PassIsEarned
  <2>4. CASE \E d \in Conns, t \in Targets : DeployCheck(d, t) \/ PublishCheck(d, t)
    BY <2>3, <2>4 DEF DeployCheck, PublishCheck
  <2>5. ASSUME NEW d \in Conns, NEW g \in Gates, NEW s, SetGate(d, g, s) PROVE FALSE
    BY <2>1, <2>5 DEF SetGate, Report
  <2>6. CASE \E d \in Conns :
               \/ \E g \in Gates : Evaluate(d, g)
               \/ \E who \in Callers :
                    \/ \E g \in Gates : Signoff(d, g, who) \/ RevokeOverride(d, g, who)
                    \/ \E g \in Gates, term \in Terms : Override(d, g, term, who)
                    \/ \E clean \in BOOLEAN : SyncMutationAudit(d, clean, who)
    BY <2>5, <2>6 DEF Evaluate, Signoff, RevokeOverride, Override, SyncMutationAudit
  <2>7. CASE \E d \in Conns :
               \/ \E head \in Commits : DeployApply(d, head) \/ PublishApply(d, head)
               \/ \E t \in Targets, head \in Commits : GenerateNotes(d, t, head)
    BY <2>1, <2>7 DEF DeployApply, PublishApply, ReleaseApply, GenerateNotes, Report
  <2>8. CASE \E d \in Conns : Emit(d) \/ EmitLost(d)
    BY <2>1, <2>8 DEF Emit, EmitLost, NoJob
  <2>9. CASE \/ \E d \in Conns, t \in Targets : DeployDenied(d, t)
             \/ \E d \in Conns : PublishDenied(d)
             \/ Restart \/ RestartBlind \/ Tick \/ UNCHANGED vars
    BY <2>2, <2>9 DEF DeployDenied, PublishDenied, ReleaseDenied, Restart, RestartBlind, Tick, vars
  <2>. QED BY <1>1, <2>4, <2>6, <2>7, <2>8, <2>9 DEF Next
<1>2. GatesInv /\ [Next]_vars => [Step]_vars BY <1>1
<1>. QED BY <1>2, GatesAlways, PTL DEF Spec, ReleaseNeedsEvidence

-----------------------------------------------------------------------------
(* Runs and sweeps: the parts of a run, and which of them run.              *)

RunFields == {"pc", "kind", "pass", "prompt", "armed", "woken", "events", "found", "result"}
SweepFields == {"pc", "kind", "stop", "k", "done", "status", "verdicts", "failed", "said"}

\* From the start of its task until its sweep, if it has one, takes its result.
Running == {"begin", "top", "select", "wait", "returned"}

RunsTyped ==
  /\ DOMAIN run = Runs /\ \A r \in Runs : DOMAIN run[r] = RunFields
  /\ \A r \in Runs : run[r].pc = "returned" => run[r].result \in {"completed", "failed", "cancelled"}

\* A sweep is at a family exactly while it deals with it.
SweepsTyped ==
  /\ DOMAIN sweep = Sweeps /\ \A s \in Sweeps : DOMAIN sweep[s] = SweepFields
  /\ \A s \in Sweeps : sweep[s].k \in Nat \ {0} /\ sweep[s].done = sweep[s].k - 1 /\ sweep[s].failed \in Nat
  /\ \A s \in Sweeps : sweep[s].pc \in {"spawn", "adopt", "child", "close"} => sweep[s].k <= Families
  /\ DOMAIN child = Sweeps /\ DOMAIN report = Runs

\* Of a sweep's children only the one it waits for runs.
OneRuns == \A r \in Children : run[r].pc \in Running => sweep[r[1]].pc = "child" /\ Child(r[1]) = r

RunInv == RunsTyped /\ SweepsTyped /\ OneRuns

-----------------------------------------------------------------------------
(* Steps.                                                                   *)

LEMMA ChildIsRun ==
  ASSUME SweepsTyped, NEW s \in Sweeps, sweep[s].k <= Families
  PROVE  Child(s) \in Children /\ Child(s) \in Runs /\ Child(s) \notin Solo
         /\ Child(s)[1] = s /\ Child(s)[2] = sweep[s].k
<1>1. sweep[s].k \in 1..Families BY RunAssumption DEF SweepsTyped
<1>. QED BY <1>1, RunAssumption DEF Child, Children, Runs

\* Only r's task goes on.
OnlyTask(r) == \A q \in Runs : q # r => run'[q] = run[q]

\* What the task of a run does leaves its sweep alone, unless it panics.
RunStep(r) ==
  /\ RunsTyped' /\ OnlyTask(r)
  /\ run[r].pc \in Running \ {"returned"}
  /\ \/ run'[r].pc \in Running \ {"begin"} /\ sweep' = sweep
     \/ /\ run'[r].pc = "panicked"
        /\ sweep' = IF r \in Children THEN [sweep EXCEPT ![r[1]].pc = "panicked"] ELSE sweep
  /\ UNCHANGED <<report, child, commands>>
  /\ \/ late' = late
     \/ run[r].pc = "begin" /\ r \in Children /\ r[1] \in acked /\ late' = late \cup {r}

LEMMA ReturnsSteps ==
  ASSUME RunsTyped, NEW r \in Runs, NEW result \in {"completed", "failed", "cancelled"},
         Returns(r, result), TaskOnly, run[r].pc \in Running \ {"returned"}
  PROVE  RunStep(r)
BY DEF RunsTyped, Returns, TaskOnly, RunStep, OnlyTask, Running, RunFields, sweeps, commands

LEMMA TaskSteps ==
  ASSUME RunsTyped, NEW r \in Runs, TaskStep(r)
  PROVE  RunStep(r)
<1>1. CASE TaskStart(r)
  <2>1. CASE run' = [run EXCEPT ![r].pc = "top"]
    BY <1>1, <2>1 DEF TaskStart, RunsTyped, RunStep, OnlyTask, Running, RunFields, sweeps, commands
  <2>2. CASE Returns(r, "failed")
    BY <1>1, <2>2 DEF TaskStart, RunsTyped, Returns, RunStep, OnlyTask, Running, RunFields, sweeps, commands
  <2>. QED BY <1>1, <2>1, <2>2 DEF TaskStart
<1>2. CASE TopCancelled(r) BY <1>2, ReturnsSteps DEF TopCancelled, Running
<1>3. CASE TopGoesOn(r)
  BY <1>3 DEF TopGoesOn, TaskOnly, RunsTyped, RunStep, OnlyTask, Running, RunFields, sweeps, commands
<1>4. CASE SelectEnter(r)
  BY <1>4 DEF SelectEnter, TaskOnly, RunsTyped, RunStep, OnlyTask, Running, RunFields, sweeps, commands
<1>5. CASE WokenByCancel(r) BY <1>5, ReturnsSteps DEF WokenByCancel, Running
<1>6. CASE PollsAnswered(r)
  BY <1>6 DEF PollsAnswered, RunsTyped, RunStep, OnlyTask, Running, RunFields, sweeps, commands
<1>. QED BY <1>1, <1>2, <1>3, <1>4, <1>5, <1>6 DEF TaskStep

LEMMA AgainSteps ==
  ASSUME RunsTyped, NEW r \in Runs, NEW prompt, NEW events, Again(r, prompt, events), TaskOnly,
         run[r].pc = "wait"
  PROVE  RunStep(r)
BY DEF Again, TaskOnly, RunsTyped, RunStep, OnlyTask, Running, RunFields, sweeps, commands

LEMMA WorkerSteps ==
  ASSUME RunsTyped, NEW r \in Runs, WorkerStep(r) \/ Deadline(r)
  PROVE  RunStep(r)
<1>1. CASE PromptAnswered(r) BY <1>1, AgainSteps DEF PromptAnswered
<1>2. CASE PromptFails(r) BY <1>2, ReturnsSteps DEF PromptFails, Running
<1>3. CASE AcpDelta(r) BY <1>3, AgainSteps DEF AcpDelta, Receives
<1>4. CASE AcpError(r) BY <1>4, ReturnsSteps DEF AcpError, Receives, Running
<1>5. CASE Deadline(r) BY <1>5, ReturnsSteps DEF Deadline, Running
<1>6. ASSUME NEW o \in Outputs, AcpRejected(r, o) PROVE RunStep(r)
  BY <1>6, ReturnsSteps DEF AcpRejected, Receives, Running
<1>7. ASSUME NEW o \in Outputs, AcpPassEnds(r, o) PROVE RunStep(r)
  <2> DEFINE new == Findings(o.cands)
             last == new = << >> \/ run[r].pass = MaxPasses
  <2>1. run' = [run EXCEPT ![r].found = @ \o new,
                           ![r].events = @ + 1,
                           ![r].pass = IF last THEN @ ELSE @ + 1,
                           ![r].result = IF last THEN "completed" ELSE @,
                           ![r].pc = IF last THEN "returned" ELSE "top"]
        /\ TaskOnly /\ run[r].pc = "wait"
    BY <1>7 DEF AcpPassEnds, Receives
  <2>. HIDE DEF new, last
  <2>. QED BY <2>1 DEF TaskOnly, RunsTyped, RunStep, OnlyTask, Running, RunFields, sweeps, commands
<1>8. CASE LineSkips(r)
  BY <1>8 DEF LineSkips, Receives, TaskOnly, RunsTyped, RunStep, OnlyTask, Running, RunFields, sweeps, commands
<1>9. ASSUME NEW e \in LineEvents, LineForwards(r, e) PROVE RunStep(r)
  BY <1>9 DEF LineForwards, Receives, TaskOnly, RunsTyped, RunStep, OnlyTask, Running, RunFields, sweeps, commands
<1>10. ASSUME NEW e \in LineEvents, LineEnds(r, e) PROVE RunStep(r)
  BY <1>10, ReturnsSteps DEF LineEnds, Receives, Running
<1>. QED BY <1>1, <1>2, <1>3, <1>4, <1>5, <1>6, <1>7, <1>8, <1>9, <1>10 DEF WorkerStep

\* Commands only mark runs and sweeps; a run of assessment.run is nobody's child.
Elsewhere ==
  /\ RunsTyped' /\ DOMAIN report' = Runs
  /\ \A r \in Children : run'[r].pc = run[r].pc /\ report'[r] = report[r]
  /\ UNCHANGED <<sweep, child, late>>

SoloCommand(r) == SoloStep(r) \/ \E k \in Kinds : StartRun(r, k)

LEMMA SoloElsewhere ==
  ASSUME RunInv, NEW r \in Solo, SoloCommand(r)
  PROVE  Elsewhere /\ UNCHANGED <<acked, cancelled, op>>
<1>1. r \in Runs /\ r \notin Children BY RunAssumption DEF Runs
<1> USE DEF Elsewhere, RunInv, RunsTyped, RunFields, SweepsTyped, Runs, TaskOnly, sweeps, commands
<1>2. CASE WorkerSpawned(r) BY <1>1, <1>2 DEF WorkerSpawned
<1>3. CASE WorkerSpawnFails(r) BY <1>1, <1>3 DEF WorkerSpawnFails
<1>4. CASE RunReports(r) BY <1>1, <1>4 DEF RunReports
<1>5. CASE RunCloses(r) BY <1>1, <1>5 DEF RunCloses, NoRun
<1>6. ASSUME NEW k \in Kinds, StartRun(r, k) PROVE Elsewhere /\ UNCHANGED <<acked, cancelled, op>>
  BY <1>1, <1>6 DEF StartRun
<1>. QED BY <1>2, <1>3, <1>4, <1>5, <1>6 DEF SoloCommand, SoloStep

ClientStep(c) ==
  \/ NotifyRun(c) \/ CancelChild(c) \/ CancelNoChild(c)
  \/ (\E r \in Runs : CancelRun(c, r)) \/ \E s \in Sweeps : CancelSweep(c, s)

LEMMA ClientElsewhere ==
  ASSUME RunInv, NEW c \in Clients, ClientStep(c)
  PROVE  Elsewhere
<1> USE DEF Elsewhere, RunInv, RunsTyped, RunFields, SweepsTyped, Runs, sweeps
<1>1. CASE NotifyRun(c) BY <1>1 DEF NotifyRun
<1>2. CASE CancelChild(c) \/ CancelNoChild(c) BY <1>2 DEF CancelChild, CancelNoChild
<1>3. ASSUME NEW r \in Runs, CancelRun(c, r) PROVE Elsewhere BY <1>3 DEF CancelRun
<1>4. ASSUME NEW s \in Sweeps, CancelSweep(c, s) PROVE Elsewhere BY <1>4 DEF CancelSweep
<1>. QED BY <1>1, <1>2, <1>3, <1>4 DEF ClientStep

LEMMA NextSorts ==
  ASSUME RunInv, [RunsNext]_runsVars
  PROVE  \/ \E r \in Runs : RunStep(r)
         \/ Elsewhere /\ UNCHANGED <<acked, cancelled, op>>
         \/ Elsewhere /\ \E c \in Clients : ClientStep(c)
         \/ \E s \in Sweeps : SweepStep(s) \/ \E k \in Kinds, stop \in BOOLEAN : StartSweep(s, k, stop)
<1>1. CASE UNCHANGED runsVars
  BY <1>1 DEF runsVars, RunInv, RunsTyped, SweepsTyped, Elsewhere
<1>2. ASSUME NEW r \in Runs, TaskStep(r) \/ WorkerStep(r) \/ Deadline(r) PROVE RunStep(r)
  BY <1>2, TaskSteps, WorkerSteps DEF RunInv
<1>3. ASSUME NEW r \in Solo, SoloStep(r) \/ \E k \in Kinds : StartRun(r, k)
      PROVE  Elsewhere /\ UNCHANGED <<acked, cancelled, op>>
  BY <1>3, SoloElsewhere DEF SoloCommand
<1>4. ASSUME NEW c \in Clients, ClientStep(c) PROVE Elsewhere BY <1>4, ClientElsewhere
<1>. QED BY <1>1, <1>2, <1>3, <1>4 DEF RunsNext, ClientStep

-----------------------------------------------------------------------------
(* A sweep is at one family at a time.                                      *)

\* Only s goes on; the other sweeps, their children and their reports stay.
OnlySweep(s) ==
  /\ DOMAIN sweep' = Sweeps /\ DOMAIN child' = Sweeps /\ DOMAIN report' = Runs
  /\ \A t \in Sweeps : t # s => sweep'[t] = sweep[t] /\ child'[t] = child[t]
  /\ \A r \in Runs : r # Child(s) => run'[r] = run[r] /\ report'[r] = report[r]

LEMMA SweepSteps ==
  ASSUME RunInv, NEW s \in Sweeps,
         SweepStep(s) \/ \E k \in Kinds, stop \in BOOLEAN : StartSweep(s, k, stop)
  PROVE  RunInv' /\ OnlySweep(s) /\ UNCHANGED <<late, commands>>
<1> DEFINE Goal == RunInv' /\ OnlySweep(s) /\ UNCHANGED <<late, commands>>
<1>0. ASSUME sweep[s].k <= Families
      PROVE  Child(s) \in Children /\ Child(s) \in Runs /\ Child(s)[1] = s
  BY <1>0, ChildIsRun DEF RunInv
<1>1. \A r \in Children : r \in Runs /\ r[1] \in Sweeps BY DEF Children, Runs
<1> USE DEF RunInv, RunsTyped, SweepsTyped, OneRuns, OnlySweep, RunFields, SweepFields, Running, Child, Now
<1>2. ASSUME NEW k \in Kinds, NEW stop \in BOOLEAN, StartSweep(s, k, stop) PROVE Goal
  <2>1. sweep' = [sweep EXCEPT ![s].pc = "top", ![s].kind = k, ![s].stop = stop] /\ sweep[s].pc = "none"
        /\ UNCHANGED <<run, report, child, late, commands>>
    BY <1>2 DEF StartSweep
  <2>2. SweepsTyped' BY <2>1
  <2>3. RunsTyped' BY <2>1
  <2>4. OneRuns' BY <1>1, <2>1
  <2>. QED BY <2>1, <2>2, <2>3, <2>4
<1>3. CASE SweepCancelled(s) BY <1>1, <1>3 DEF SweepCancelled
<1>4. CASE SweepFamily(s) BY <1>0, <1>1, <1>4 DEF SweepFamily
<1>5. CASE SweepSpawnFails(s) BY <1>0, <1>1, <1>5 DEF SweepSpawnFails
<1>6. CASE SweepSpawned(s) BY <1>1, <1>6 DEF SweepSpawned
<1>7. CASE SweepAdopts(s) BY <1>0, <1>1, <1>7 DEF SweepAdopts
<1>8. CASE SweepChildReports(s) BY <1>0, <1>1, <1>8 DEF SweepChildReports, Settled
<1>9. CASE SweepChildCloses(s) BY <1>0, <1>1, <1>9 DEF SweepChildCloses, NoRun
<1>10. CASE SweepReports(s) BY <1>1, <1>10 DEF SweepReports
<1>11. CASE SweepCloses(s) BY <1>1, <1>11 DEF SweepCloses
<1>. QED BY <1>2, <1>3, <1>4, <1>5, <1>6, <1>7, <1>8, <1>9, <1>10, <1>11 DEF SweepStep

LEMMA NextRunInv ==
  ASSUME RunInv, [RunsNext]_runsVars
  PROVE  RunInv'
<1>1. ASSUME NEW r \in Runs, RunStep(r) PROVE RunInv'
  <2>1. CASE sweep' = sweep /\ run'[r].pc \in Running \ {"begin"}
    BY <1>1, <2>1 DEF RunStep, OnlyTask, RunInv, SweepsTyped, OneRuns, Child, Children, Runs
  <2>2. CASE run'[r].pc = "panicked" /\ r \notin Children /\ sweep' = sweep
    BY <1>1, <2>2 DEF RunStep, OnlyTask, RunInv, SweepsTyped, OneRuns, Child, Children, Runs
  <2>3. CASE run'[r].pc = "panicked" /\ r \in Children /\ sweep' = [sweep EXCEPT ![r[1]].pc = "panicked"]
    <3>1. r[1] \in Sweeps BY <2>3 DEF Children
    <3>2. SweepsTyped' BY <1>1, <2>3, <3>1 DEF RunStep, RunInv, SweepsTyped, SweepFields
    <3>3. Child(r[1]) = r BY <1>1, <2>3 DEF RunStep, RunInv, OneRuns
    <3>4. OneRuns'
      <4> SUFFICES ASSUME NEW q \in Children, run'[q].pc \in Running
                   PROVE  sweep'[q[1]].pc = "child" /\ Child(q[1])' = q
        BY DEF OneRuns
      <4>1. q # r /\ q \in Runs BY <2>3 DEF Running, Runs
      <4>2. run'[q] = run[q] BY <1>1, <4>1 DEF RunStep, OnlyTask
      <4>3. sweep[q[1]].pc = "child" /\ Child(q[1]) = q BY <4>2 DEF RunInv, OneRuns
      <4>4. q[1] # r[1] BY <3>3, <4>1, <4>3
      <4>. QED BY <2>3, <3>1, <4>3, <4>4 DEF Child
    <3>. QED BY <1>1, <3>2, <3>4 DEF RunStep, RunInv
  <2>. QED BY <1>1, <2>1, <2>2, <2>3 DEF RunStep
<1>2. CASE Elsewhere
  BY <1>2 DEF Elsewhere, RunInv, SweepsTyped, OneRuns, Child
<1>. QED BY <1>1, <1>2, NextSorts, SweepSteps

-----------------------------------------------------------------------------
(* The children a sweep has recorded, and what it knows of them.            *)

RecordedUpTo(s) == IF sweep[s].pc = "close" THEN sweep[s].k ELSE sweep[s].k - 1

\* A child's report is in the sweep's statistics.
Counted(s, t) ==
  \/ t.status = "completed" /\ t.verdict \in sweep[s].verdicts
  \/ /\ t.status \in {"failed", "cancelled"} /\ t.verdict = "none"
     /\ sweep[s].failed > 0 /\ sweep[s].status # "completed"

\* What a sweep's statistics say is what its children reported, and it has the
\* child it waits for.
RecordTrue(s) ==
  sweep[s].pc # "panicked" =>
    /\ \A j \in 1..Families :
         IF j <= RecordedUpTo(s) THEN Counted(s, report[<<s, j>>]) ELSE report[<<s, j>>] = Unreported
    /\ sweep[s].verdicts \subseteq {"pass", "warn", "fail"}
    /\ sweep[s].pc \notin {"closing", "gone"} => sweep[s].said = Unreported
    /\ sweep[s].pc \in {"child", "close"} => child[s] = Child(s)
    /\ sweep[s].pc \notin {"child", "close"} => child[s] = No

\* SweepTellsTruth for one sweep.
SaidTrue(s) ==
  sweep[s].said # Unreported =>
    LET told == {report[<<s, k>>] : k \in 1..Families} IN
    /\ sweep[s].said.status = "completed" =>
         /\ \A t \in told : t.status = "completed"
         /\ child[s] = No
    /\ sweep[s].said.verdict # "fail" =>
         \A t \in told : t.status \in {"none", "completed"} /\ t.verdict # "fail"
    /\ sweep[s].said.verdict = "pass" => \A t \in told : t.verdict \in {"none", "pass"}

SweepInv == \A s \in Sweeps : RecordTrue(s) /\ SaidTrue(s)

\* RunStats has three verdicts.
LEMMA VerdictRange == ASSUME NEW found PROVE Verdict(found) \in {"pass", "warn", "fail"}
BY DEF Verdict

\* SweepStats::verdict hides neither a failure nor a warning.
LEMMA SweepVerdictMeans ==
  ASSUME NEW verdicts, NEW failed \in Nat
  PROVE  /\ SweepVerdict(verdicts, failed) # "fail" => "fail" \notin verdicts /\ ~(failed > 0)
         /\ SweepVerdict(verdicts, failed) = "pass" => "warn" \notin verdicts
BY DEF SweepVerdict

\* A sweep whose own record and children's reports are as before.
LEMMA SaidKept ==
  ASSUME NEW s \in Sweeps, SaidTrue(s), sweep'[s].said = sweep[s].said, child'[s] = child[s],
         \A j \in 1..Families : report'[<<s, j>>] = report[<<s, j>>]
  PROVE  SaidTrue(s)'
<1>1. {report[<<s, k>>] : k \in 1..Families}' = {report[<<s, k>>] : k \in 1..Families} OBVIOUS
<1>. QED BY <1>1 DEF SaidTrue

LEMMA SweepKept ==
  ASSUME NEW s \in Sweeps, RecordTrue(s), SaidTrue(s), sweep'[s] = sweep[s], child'[s] = child[s],
         \A j \in 1..Families : report'[<<s, j>>] = report[<<s, j>>]
  PROVE  RecordTrue(s)' /\ SaidTrue(s)'
<1>1. SaidTrue(s)' BY SaidKept
<1>. QED BY <1>1 DEF RecordTrue, RecordedUpTo, Counted, Child

\* The record when the sweep goes on without a report.
LEMMA RecordKept ==
  ASSUME RunInv, NEW s \in Sweeps, RecordTrue(s), SaidTrue(s),
         sweep[s].pc # "panicked", sweep[s].said = Unreported,
         \A j \in 1..Families : report'[<<s, j>>] = report[<<s, j>>],
         sweep'[s].verdicts = sweep[s].verdicts, sweep'[s].failed = sweep[s].failed,
         sweep'[s].said = Unreported, sweep'[s].pc \notin {"closing", "gone"},
         sweep'[s].status = sweep[s].status \/ sweep'[s].status # "completed",
         RecordedUpTo(s)' = RecordedUpTo(s),
         sweep'[s].pc \in {"child", "close"} => child'[s] = Child(s)',
         sweep'[s].pc \notin {"child", "close"} => child'[s] = No
  PROVE  RecordTrue(s)' /\ SaidTrue(s)'
BY DEF RecordTrue, SaidTrue, Counted

\* What a sweep says at its end, when it says it.
LEMMA SweepSays ==
  ASSUME RunInv, NEW s \in Sweeps, RecordTrue(s), SweepReports(s), sweep'[s].pc # "panicked"
  PROVE  RecordTrue(s)' /\ SaidTrue(s)'
<1>1. /\ sweep[s].pc = "end" /\ child' = child /\ report' = report
      /\ sweep'[s].said.status = IF sweep[s].status = "completed" /\ sweep[s].done >= Families
                                 THEN "completed" ELSE "failed"
      /\ sweep'[s].said.verdict = SweepVerdict(sweep[s].verdicts, sweep[s].failed)
      /\ sweep'[s].pc = "closing" /\ sweep'[s].k = sweep[s].k
      /\ sweep'[s].verdicts = sweep[s].verdicts /\ sweep'[s].failed = sweep[s].failed
      /\ sweep'[s].status = sweep[s].status
  BY DEF SweepReports, RunInv, SweepsTyped, SweepFields
<1>2. RecordedUpTo(s)' = sweep[s].k - 1 /\ RecordedUpTo(s) = sweep[s].k - 1 BY <1>1 DEF RecordedUpTo
<1>3. RecordTrue(s)' BY <1>1, <1>2 DEF RecordTrue, Counted
<1>4. child[s] = No BY <1>1 DEF RecordTrue
<1>5. ASSUME NEW j \in 1..Families
      PROVE  LET t == report[<<s, j>>]  said == sweep'[s].said IN
             /\ said.status = "completed" => t.status = "completed"
             /\ said.verdict # "fail" => t.status \in {"none", "completed"} /\ t.verdict # "fail"
             /\ said.verdict = "pass" => t.verdict \in {"none", "pass"}
  <2>1. CASE j <= RecordedUpTo(s)
    <3>1. Counted(s, report[<<s, j>>]) /\ sweep[s].verdicts \subseteq {"pass", "warn", "fail"}
      BY <1>1, <2>1 DEF RecordTrue
    <3>2. sweep[s].failed \in Nat BY DEF RunInv, SweepsTyped
    <3>3. LET said == sweep'[s].said  v == sweep[s].verdicts IN
          /\ said.verdict # "fail" => "fail" \notin v /\ ~(sweep[s].failed > 0)
          /\ said.verdict = "pass" => "fail" \notin v /\ "warn" \notin v /\ ~(sweep[s].failed > 0)
      BY <1>1, <3>2, SweepVerdictMeans
    <3>4. sweep'[s].said.status = "completed" => sweep[s].status = "completed" BY <1>1
    <3>. QED BY <3>1, <3>3, <3>4 DEF Counted
  <2>2. CASE ~(j <= RecordedUpTo(s))
    <3>1. report[<<s, j>>] = Unreported BY <1>1, <2>2 DEF RecordTrue
    <3>2. ~(sweep[s].done >= Families)
      BY <1>2, <2>2, RunAssumption DEF RunInv, SweepsTyped
    <3>. QED BY <1>1, <3>1, <3>2 DEF Unreported
  <2>. QED BY <2>1, <2>2
<1>6. SaidTrue(s)' BY <1>1, <1>4, <1>5 DEF SaidTrue
<1>. QED BY <1>3, <1>6

\* A child's result is recorded: its report counts from now on.
LEMMA ChildCounted ==
  ASSUME RunInv, NEW s \in Sweeps, RecordTrue(s), SaidTrue(s), SweepChildReports(s)
  PROVE  RecordTrue(s)' /\ SaidTrue(s)'
<1> DEFINE res == run[Child(s)].result
           verdict == Verdict(run[Child(s)].found)
<1>0. /\ sweep[s].pc = "child" /\ run[Child(s)].pc = "returned" /\ child' = child
      /\ report' = [report EXCEPT ![Child(s)] = Terminal(Child(s))]
      /\ sweep' = [sweep EXCEPT ![s] = Settled(s)]
  BY DEF SweepChildReports
<1>1. Child(s) \in Runs /\ sweep[s].k \in 1..Families /\ Child(s) = <<s, sweep[s].k>>
  BY <1>0, ChildIsRun, RunAssumption DEF RunInv, SweepsTyped, Child
<1>2. res \in {"completed", "failed", "cancelled"} BY <1>0, <1>1 DEF RunInv, RunsTyped
<1>3. verdict \in {"pass", "warn", "fail"} BY VerdictRange
<1>4. sweep'[s] = Settled(s) BY <1>0 DEF RunInv, SweepsTyped
<1>. HIDE DEF res, verdict
<1>5. /\ sweep'[s].pc = "close" /\ sweep'[s].k = sweep[s].k /\ sweep'[s].said = sweep[s].said
      /\ sweep'[s].status = CASE res = "cancelled" -> "cancelled"
                              [] res = "failed" /\ sweep[s].status = "completed" -> "failed"
                              [] OTHER -> sweep[s].status
      /\ sweep'[s].verdicts = IF res = "completed" THEN sweep[s].verdicts \cup {verdict}
                              ELSE sweep[s].verdicts
      /\ sweep'[s].failed = IF res = "completed" THEN sweep[s].failed ELSE sweep[s].failed + 1
  BY <1>4 DEF Settled, res, verdict, RunInv, SweepsTyped, SweepFields
<1>6. report'[Child(s)] = IF res = "completed" THEN [status |-> "completed", verdict |-> verdict]
                          ELSE [status |-> res, verdict |-> "none"]
  BY <1>0, <1>1 DEF Terminal, res, verdict, RunInv, SweepsTyped
<1>7. \A j \in 1..Families : j # sweep[s].k => report'[<<s, j>>] = report[<<s, j>>]
  BY <1>0, <1>1 DEF RunInv, SweepsTyped
<1>8. RecordedUpTo(s) = sweep[s].k - 1 /\ RecordedUpTo(s)' = sweep[s].k BY <1>0, <1>5 DEF RecordedUpTo
<1>9. sweep[s].failed \in Nat BY DEF RunInv, SweepsTyped
<1>10. ASSUME NEW j \in 1..Families
       PROVE  IF j <= sweep[s].k THEN Counted(s, report[<<s, j>>])' ELSE report'[<<s, j>>] = Unreported
  <2>1. CASE j = sweep[s].k
    BY <1>1, <1>2, <1>3, <1>5, <1>6, <1>9, <2>1 DEF Counted
  <2>2. CASE j # sweep[s].k
    <3>1. IF j <= sweep[s].k - 1 THEN Counted(s, report[<<s, j>>]) ELSE report[<<s, j>>] = Unreported
      BY <1>0, <1>8 DEF RecordTrue
    <3>2. Counted(s, report[<<s, j>>]) => Counted(s, report[<<s, j>>])'
      BY <1>2, <1>5, <1>7, <1>9, <2>2 DEF Counted
    <3>. QED BY <1>1, <1>7, <2>2, <3>1, <3>2
  <2>. QED BY <2>1, <2>2
<1>11. sweep[s].verdicts \subseteq {"pass", "warn", "fail"} /\ sweep[s].said = Unreported /\ child[s] = Child(s)
  BY <1>0 DEF RecordTrue
<1>12. Child(s)' = Child(s) BY <1>5 DEF Child
<1>. QED BY <1>0, <1>3, <1>5, <1>8, <1>10, <1>11, <1>12 DEF RecordTrue, SaidTrue

LEMMA SweepGoesOn ==
  ASSUME RunInv, NEW s \in Sweeps, RecordTrue(s), SaidTrue(s),
         SweepStep(s) \/ \E k \in Kinds, stop \in BOOLEAN : StartSweep(s, k, stop)
  PROVE  RecordTrue(s)' /\ SaidTrue(s)'
<1> USE DEF RunInv, SweepsTyped, SweepFields, RecordTrue, RecordedUpTo, Now, Child
<1>1. ASSUME NEW k \in Kinds, NEW stop \in BOOLEAN, StartSweep(s, k, stop)
      PROVE  RecordTrue(s)' /\ SaidTrue(s)'
  <2>1. /\ sweep' = [sweep EXCEPT ![s].pc = "top", ![s].kind = k, ![s].stop = stop]
        /\ sweep[s].pc = "none" /\ UNCHANGED <<report, child>>
    BY <1>1 DEF StartSweep
  <2>2. /\ sweep'[s].pc = "top" /\ sweep'[s].k = sweep[s].k /\ sweep'[s].said = sweep[s].said
        /\ sweep'[s].verdicts = sweep[s].verdicts /\ sweep'[s].failed = sweep[s].failed
        /\ sweep'[s].status = sweep[s].status
    BY <2>1
  <2>. QED BY <2>1, <2>2, RecordKept
<1>2. CASE SweepCancelled(s) BY <1>2, RecordKept DEF SweepCancelled
<1>3. CASE SweepFamily(s) BY <1>3, RecordKept DEF SweepFamily
<1>4. CASE SweepSpawnFails(s) BY <1>4, RecordKept DEF SweepSpawnFails
<1>5. CASE SweepSpawned(s) BY <1>5, RecordKept DEF SweepSpawned
<1>6. CASE SweepAdopts(s) BY <1>6, RecordKept DEF SweepAdopts
<1>7. CASE SweepChildReports(s) BY <1>7, ChildCounted
<1>8. CASE SweepChildCloses(s)
  <2>1. /\ sweep'[s].pc \in {"end", "top"} /\ sweep'[s].k = sweep[s].k + 1
        /\ sweep'[s].said = sweep[s].said /\ sweep'[s].verdicts = sweep[s].verdicts
        /\ sweep'[s].failed = sweep[s].failed /\ sweep'[s].status = sweep[s].status
    BY <1>8 DEF SweepChildCloses
  <2>2. sweep[s].pc = "close" /\ report' = report /\ child[s] = Child(s) /\ child'[s] = No
    BY <1>8 DEF SweepChildCloses
  <2>3. RecordedUpTo(s)' = RecordedUpTo(s) BY <2>1, <2>2
  <2>4. sweep[s].said = Unreported BY <2>2
  <2>. QED BY <2>1, <2>2, <2>3, <2>4, RecordKept
<1>9. CASE SweepReports(s)
  <2>1. sweep'[s].pc # "panicked" BY <1>9 DEF SweepReports
  <2>. QED BY <1>9, <2>1, SweepSays
<1>10. CASE SweepCloses(s)
  <2>1. SaidTrue(s)' BY <1>10, SaidKept DEF SweepCloses
  <2>2. RecordTrue(s)' BY <1>10 DEF SweepCloses, Counted
  <2>. QED BY <2>1, <2>2
<1>. QED BY <1>1, <1>2, <1>3, <1>4, <1>5, <1>6, <1>7, <1>8, <1>9, <1>10 DEF SweepStep

LEMMA NextSweepInv ==
  ASSUME RunInv, SweepInv, [RunsNext]_runsVars
  PROVE  SweepInv'
<1>0. \A s \in Sweeps, j \in 1..Families :
        <<s, j>> \in Children /\ <<s, j>> \in Runs /\ <<s, j>>[1] = s
  BY DEF Children, Runs
<1>1. ASSUME NEW r \in Runs, RunStep(r) PROVE SweepInv'
  <2>1. CASE sweep' = sweep
    <3> SUFFICES ASSUME NEW s \in Sweeps PROVE RecordTrue(s)' /\ SaidTrue(s)' BY DEF SweepInv
    <3>. QED BY <1>1, <2>1, SweepKept DEF RunStep, SweepInv
  <2>2. CASE r \in Children /\ sweep' = [sweep EXCEPT ![r[1]].pc = "panicked"]
    <3> SUFFICES ASSUME NEW s \in Sweeps PROVE RecordTrue(s)' /\ SaidTrue(s)' BY DEF SweepInv
    <3>1. child' = child /\ report' = report BY <1>1 DEF RunStep
    <3>2. CASE s # r[1]
      <4>1. sweep'[s] = sweep[s] BY <2>2, <3>2
      <4>. QED BY <3>1, <4>1, SweepKept DEF SweepInv
    <3>3. CASE s = r[1]
      <4>1. sweep'[s].pc = "panicked" /\ sweep'[s].said = sweep[s].said
        BY <2>2, <3>3 DEF RunInv, SweepsTyped, SweepFields
      <4>. QED BY <3>1, <4>1, SaidKept DEF SweepInv, RecordTrue
    <3>. QED BY <3>2, <3>3
  <2>. QED BY <1>1, <2>1, <2>2 DEF RunStep
<1>2. CASE Elsewhere
  <2> SUFFICES ASSUME NEW s \in Sweeps PROVE RecordTrue(s)' /\ SaidTrue(s)' BY DEF SweepInv
  <2>1. \A j \in 1..Families : report'[<<s, j>>] = report[<<s, j>>] BY <1>0, <1>2 DEF Elsewhere
  <2>. QED BY <1>2, <2>1, SweepKept DEF Elsewhere, SweepInv
<1>3. ASSUME NEW s \in Sweeps,
             SweepStep(s) \/ \E k \in Kinds, stop \in BOOLEAN : StartSweep(s, k, stop)
      PROVE  SweepInv'
  <2> SUFFICES ASSUME NEW t \in Sweeps PROVE RecordTrue(t)' /\ SaidTrue(t)' BY DEF SweepInv
  <2>1. CASE t = s BY <1>3, <2>1, SweepGoesOn DEF SweepInv
  <2>2. CASE t # s
    <3>1. OnlySweep(s) BY <1>3, SweepSteps
    <3>2. \A j \in 1..Families : <<t, j>> # Child(s) BY <2>2 DEF Child
    <3>3. \A j \in 1..Families : report'[<<t, j>>] = report[<<t, j>>] BY <1>0, <3>1, <3>2 DEF OnlySweep
    <3>. QED BY <2>2, <3>1, <3>3, SweepKept DEF OnlySweep, SweepInv
  <2>. QED BY <2>1, <2>2
<1>. QED BY <1>1, <1>2, <1>3, NextSorts

LEMMA InitRuns ==
  ASSUME RunsInit
  PROVE  RunInv /\ SweepInv
<1>1. RunInv
  BY RunAssumption DEF RunsInit, RunInv, RunsTyped, SweepsTyped, OneRuns, NoRun, NoSweep, RunFields,
     SweepFields, Running, Runs
<1>2. \A s \in Sweeps, j \in 1..Families : <<s, j>> \in Runs BY DEF Runs, Children
<1>3. \A s \in Sweeps : sweep[s] = NoSweep /\ child[s] = No BY DEF RunsInit
<1>4. \A s \in Sweeps, j \in 1..Families : report[<<s, j>>] = Unreported BY <1>2 DEF RunsInit
<1>5. \A s \in Sweeps : RecordTrue(s) /\ SaidTrue(s)
  BY <1>3, <1>4 DEF RecordTrue, SaidTrue, RecordedUpTo, NoSweep
<1>. QED BY <1>1, <1>5 DEF SweepInv

THEOREM RunSafety == RunsSpec => [](RunInv /\ SweepInv)
<1>1. RunsInit => RunInv /\ SweepInv BY InitRuns
<1>2. RunInv /\ SweepInv /\ [RunsNext]_runsVars => (RunInv /\ SweepInv)' BY NextRunInv, NextSweepInv
<1>. QED BY <1>1, <1>2, PTL DEF RunsSpec

\* The summary a sweep ends with agrees with what its children reported one by
\* one, for any number of sweeps, families, passes and cancels, whatever workers
\* answer and whenever a task panics (SweepStats::verdict).
THEOREM SummariesAreTrue == RunsSpec => []SweepTellsTruth
<1>1. SweepInv => SweepTellsTruth BY DEF SweepInv, SaidTrue, SweepTellsTruth
<1>. QED BY <1>1, RunSafety, PTL

-----------------------------------------------------------------------------
(* Cancelled sweeps.                                                        *)

\* Whoever cancels a sweep has raised its flag first.
FlagFirst ==
  /\ DOMAIN op = Clients
  /\ acked \subseteq cancelled
  /\ \A c \in Clients :
       /\ op[c].pc = "child" => op[c].sweep \in cancelled
       /\ op[c].pc = "notify" => op[c].sweep \in cancelled \cup {No}

\* A child that began after its sweep's cancel is the last: the sweep is at it, or
\* past the point where it would spawn another.
LastChild ==
  \A r \in late :
    /\ r \in Children /\ r[1] \in acked
    /\ run[r].pc # "begin"
    /\ \/ sweep[r[1]].pc \in {"child", "close"} /\ Child(r[1]) = r
       \/ sweep[r[1]].pc \in {"top", "end", "closing", "gone", "panicked"}

LateAlone == \A q, r \in late : q[1] = r[1] => q = r

CancelInv == FlagFirst /\ LastChild /\ LateAlone

\* A cancelled sweep spawns nobody else, so a late child stays its last.
LEMMA LateGoesOn ==
  ASSUME RunInv, CancelInv, NEW r \in late, NEW s \in Sweeps, r[1] = s,
         SweepStep(s) \/ \E k \in Kinds, stop \in BOOLEAN : StartSweep(s, k, stop)
  PROVE  /\ run'[r].pc # "begin"
         /\ \/ sweep'[s].pc \in {"child", "close"} /\ Child(s)' = r
            \/ sweep'[s].pc \in {"top", "end", "closing", "gone", "panicked"}
<1>1. /\ run[r].pc # "begin" /\ r \in Runs /\ s \in cancelled
      /\ \/ sweep[s].pc \in {"child", "close"} /\ Child(s) = r
         \/ sweep[s].pc \in {"top", "end", "closing", "gone", "panicked"}
  BY DEF CancelInv, FlagFirst, LastChild, Runs
<1> USE <1>1 DEF RunInv, RunsTyped, SweepsTyped, RunFields, SweepFields, Now, Child
<1>2. ASSUME NEW k \in Kinds, NEW stop \in BOOLEAN, StartSweep(s, k, stop) PROVE FALSE
  BY <1>2 DEF StartSweep
<1>3. CASE SweepCancelled(s) BY <1>3 DEF SweepCancelled
<1>4. ~SweepFamily(s) BY DEF SweepFamily
<1>5. ~(SweepSpawnFails(s) \/ SweepSpawned(s) \/ SweepAdopts(s))
  BY DEF SweepSpawnFails, SweepSpawned, SweepAdopts
<1>6. CASE SweepChildReports(s) BY <1>6 DEF SweepChildReports, Settled
<1>7. CASE SweepChildCloses(s) BY <1>7 DEF SweepChildCloses, NoRun
<1>8. CASE SweepReports(s) BY <1>8 DEF SweepReports
<1>9. CASE SweepCloses(s) BY <1>9 DEF SweepCloses
<1>. QED BY <1>2, <1>3, <1>4, <1>5, <1>6, <1>7, <1>8, <1>9 DEF SweepStep

LEMMA NextCancelInv ==
  ASSUME RunInv, CancelInv, [RunsNext]_runsVars
  PROVE  CancelInv'
<1>1. ASSUME NEW r \in Runs, RunStep(r) PROVE CancelInv'
  <2>1. FlagFirst' BY <1>1 DEF RunStep, CancelInv, FlagFirst, commands
  <2>2. LastChild'
    <3> SUFFICES ASSUME NEW q \in late'
                 PROVE  /\ q \in Children /\ q[1] \in acked'
                        /\ run'[q].pc # "begin"
                        /\ \/ sweep'[q[1]].pc \in {"child", "close"} /\ Child(q[1])' = q
                           \/ sweep'[q[1]].pc \in {"top", "end", "closing", "gone", "panicked"}
      BY DEF LastChild
    <3>1. q \in Children /\ q[1] \in acked' /\ q[1] \in Sweeps /\ q \in Runs
      BY <1>1 DEF RunStep, CancelInv, LastChild, commands, Children, Runs
    <3>2. run'[q].pc # "begin"
      BY <1>1, <3>1 DEF RunStep, OnlyTask, CancelInv, LastChild
    <3>3. \/ sweep[q[1]].pc \in {"child", "close"} /\ Child(q[1]) = q
          \/ sweep[q[1]].pc \in {"top", "end", "closing", "gone", "panicked"}
      BY <1>1 DEF RunStep, CancelInv, LastChild, RunInv, OneRuns
    <3>4. CASE sweep' = sweep BY <3>1, <3>2, <3>3, <3>4 DEF Child
    <3>5. CASE sweep' = [sweep EXCEPT ![r[1]].pc = "panicked"] /\ r[1] \in Sweeps
      BY <3>1, <3>2, <3>3, <3>5 DEF Child, RunInv, SweepsTyped, SweepFields
    <3>. QED BY <1>1, <3>4, <3>5 DEF RunStep, Children
  <2>3. LateAlone'
    <3>1. CASE late' = late BY <3>1 DEF CancelInv, LateAlone
    <3>2. CASE run[r].pc = "begin" /\ r \in Children /\ r[1] \in acked /\ late' = late \cup {r}
      <4>1. sweep[r[1]].pc = "child" /\ Child(r[1]) = r BY <3>2 DEF RunInv, OneRuns, Running
      <4>2. \A q \in late : q[1] # r[1] BY <3>2, <4>1 DEF CancelInv, LastChild
      <4>. QED BY <3>2, <4>2 DEF CancelInv, LateAlone
    <3>. QED BY <1>1, <3>1, <3>2 DEF RunStep
  <2>. QED BY <2>1, <2>2, <2>3 DEF CancelInv
<1>2. CASE Elsewhere /\ UNCHANGED <<acked, cancelled, op>>
  BY <1>2 DEF Elsewhere, CancelInv, FlagFirst, LastChild, LateAlone, Child
<1>3. ASSUME Elsewhere, NEW c \in Clients, ClientStep(c) PROVE CancelInv'
  <2>1. FlagFirst' /\ acked \subseteq acked'
    <3>. USE DEF CancelInv, FlagFirst, Command
    <3>1. CASE NotifyRun(c)
      <4>1. Command(c, "idle", No, No) /\ cancelled' = cancelled /\ op[c].pc = "notify"
        BY <3>1 DEF NotifyRun
      <4>2. acked' = IF op[c].sweep = No THEN acked ELSE acked \cup {op[c].sweep}
        BY <3>1 DEF NotifyRun
      <4>3. op[c].sweep \in cancelled \cup {No} BY <4>1
      <4>4. acked \subseteq acked' /\ acked' \subseteq cancelled' BY <4>1, <4>2, <4>3
      <4>5. \A d \in Clients : op'[d] = op[d] \/ op'[d].pc = "idle" BY <4>1
      <4>. QED BY <4>1, <4>4, <4>5
    <3>2. CASE CancelChild(c) BY <3>2 DEF CancelChild
    <3>3. CASE CancelNoChild(c) BY <3>3 DEF CancelNoChild
    <3>4. ASSUME NEW r \in Runs, CancelRun(c, r) PROVE FlagFirst' /\ acked \subseteq acked'
      BY <3>4 DEF CancelRun
    <3>5. ASSUME NEW s \in Sweeps, CancelSweep(c, s) PROVE FlagFirst' /\ acked \subseteq acked'
      BY <3>5 DEF CancelSweep
    <3>. QED BY <1>3, <3>1, <3>2, <3>3, <3>4, <3>5 DEF ClientStep
  <2>. QED BY <1>3, <2>1 DEF Elsewhere, CancelInv, LastChild, LateAlone, Child
<1>4. ASSUME NEW s \in Sweeps,
             SweepStep(s) \/ \E k \in Kinds, stop \in BOOLEAN : StartSweep(s, k, stop)
      PROVE  CancelInv'
  <2>1. OnlySweep(s) /\ UNCHANGED <<late, commands>> BY <1>4, SweepSteps
  <2>2. FlagFirst' /\ LateAlone' BY <2>1 DEF CancelInv, FlagFirst, LateAlone, commands
  <2>3. ASSUME NEW r \in late, r[1] # s
        PROVE  /\ run'[r].pc # "begin"
               /\ \/ sweep'[r[1]].pc \in {"child", "close"} /\ Child(r[1])' = r
                  \/ sweep'[r[1]].pc \in {"top", "end", "closing", "gone", "panicked"}
    <3>1. r \in Runs /\ r[1] \in Sweeps /\ r # Child(s)
      BY <2>3 DEF CancelInv, LastChild, Children, Runs, Child
    <3>. QED BY <2>1, <2>3, <3>1 DEF OnlySweep, CancelInv, LastChild, Child
  <2>4. ASSUME NEW r \in late, r[1] = s
        PROVE  /\ run'[r].pc # "begin"
               /\ \/ sweep'[s].pc \in {"child", "close"} /\ Child(s)' = r
                  \/ sweep'[s].pc \in {"top", "end", "closing", "gone", "panicked"}
    BY <1>4, <2>1, <2>4, LateGoesOn
  <2>5. LastChild' BY <2>1, <2>3, <2>4 DEF CancelInv, LastChild, commands
  <2>. QED BY <2>2, <2>5 DEF CancelInv
<1>. QED BY <1>1, <1>2, <1>3, <1>4, NextSorts

LEMMA InitCancelInv == RunsInit => CancelInv
BY DEF RunsInit, CancelInv, FlagFirst, LastChild, LateAlone

\* What is alone is at most one.
LEMMA AtMostOne ==
  ASSUME NEW S, \A x, y \in S : x = y
  PROVE  Cardinality(S) <= 1
<1>1. CASE S = {} BY <1>1, FS_EmptySet
<1>2. CASE S # {}
  <2>1. PICK x \in S : TRUE BY <1>2
  <2>2. S = {x} BY <2>1
  <2>. QED BY <2>2, FS_Singleton
<1>. QED BY <1>1, <1>2

\* Once a cancel of a sweep was acknowledged at most one more family begins, for any
\* number of clients and cancels: the one whose worker was being spawned when the
\* flag went up (SweepControl::request_cancel).
THEOREM CancelledSweepsStop == RunsSpec => []CancelStopsFamilies
<1>1. RunsInit => CancelInv BY InitCancelInv
<1>2. RunInv /\ CancelInv /\ [RunsNext]_runsVars => CancelInv' BY NextCancelInv
<1>3. CancelInv => CancelStopsFamilies
  <2> SUFFICES ASSUME CancelInv, NEW s \in Sweeps
               PROVE  Cardinality({r \in late : r[1] = s}) <= 1
    BY DEF CancelStopsFamilies
  <2>1. \A x, y \in {r \in late : r[1] = s} : x = y BY DEF CancelInv, LateAlone
  <2>. QED BY <2>1, AtMostOne
<1>. QED BY <1>1, <1>2, <1>3, RunSafety, PTL DEF RunsSpec
=============================================================================
