-------------------------- MODULE Workspace_proofs --------------------------
(****************************************************************************)
(* Proofs about commands: agents.toml, the owners of sessions, the resume   *)
(* matrix and the file under a mutation, all under what Workspace adds to   *)
(* CommandDispatch and AgentConfig.                                         *)
(*                                                                          *)
(* First, what any step does to the commands; the four invariants are       *)
(* argued from that.                                                        *)
(****************************************************************************)
EXTENDS Workspace, TLAPS

Fields == {"op", "pc", "s", "mode", "vac", "id", "text", "saw", "allowed", "put", "ans"}

Typed == DOMAIN cmd = Conns /\ \A c \in Conns : DOMAIN cmd[c] = Fields

\* Only c's command changes.
Turn(c) == Typed' /\ \A d \in Conns : d # c => cmd'[d] = cmd[d]

\* It is on its way, but does not register a session.
Advance(c) ==
  /\ Turn(c)
  /\ cmd[c].pc \notin {"own", "done"} /\ cmd'[c].pc # "own"
  /\ cmd'[c].op = cmd[c].op /\ cmd'[c].id = cmd[c].id /\ cmd'[c].put = cmd[c].put
  /\ cmd[c].op = "resume" => cmd'[c].mode = cmd[c].mode /\ cmd'[c].vac = cmd[c].vac

LEMMA GoAdvances ==
  ASSUME Typed, NEW c \in Conns, NEW pc, Go(c, pc), pc # "own", cmd[c].pc \notin {"own", "done"}
  PROVE  /\ Advance(c) /\ cmd'[c].pc = pc
         /\ cmd'[c].saw = cmd[c].saw /\ cmd'[c].text = cmd[c].text
BY DEF Typed, Turn, Advance, Go, Fields

LEMMA AnswerAdvances ==
  ASSUME Typed, NEW c \in Conns, NEW ans, Answer(c, ans), cmd[c].pc \notin {"own", "done"}
  PROVE  /\ Advance(c) /\ cmd'[c].pc = "done" /\ cmd'[c].ans = ans
         /\ cmd'[c].saw = cmd[c].saw
BY DEF Typed, Turn, Advance, Answer, Fields

-----------------------------------------------------------------------------
(* Steps.                                                                   *)

ConfigOps == {"add", "reload", "sync", "config", "validate"}

LEMMA ConfigAdvances ==
  ASSUME Typed, NEW c \in Conns, ConfigCommand(c)
  PROVE  Advance(c) /\ cmd[c].op \in ConfigOps
<1>1. CASE AddRead(c) BY <1>1, GoAdvances, AnswerAdvances DEF AddRead, At, ConfigOps
<1>2. CASE AddAppend(c)
  <2> DEFINE text == Append(toml, Entry(cmd[c].id, TRUE, "acp", 0))
  <2>. HIDE DEF text
  <2>1. CASE cmd' = [cmd EXCEPT ![c].pc = "write", ![c].text = text]
    BY <1>2, <2>1 DEF AddAppend, At, ConfigOps, Typed, Turn, Advance, Fields
  <2>2. CASE Answer(c, "append_failed") BY <1>2, <2>2, AnswerAdvances DEF AddAppend, At, ConfigOps
  <2>. QED BY <1>2, <2>1, <2>2 DEF AddAppend, text
<1>3. CASE AddTruncate(c) BY <1>3, GoAdvances DEF AddTruncate, At, ConfigOps
<1>4. CASE AddFill(c) BY <1>4, AnswerAdvances DEF AddFill, At, ConfigOps
<1>12. CASE AddNoFile(c) \/ AddFails(c) \/ AddFillFails(c)
  BY <1>12, AnswerAdvances DEF AddNoFile, AddFails, AddFillFails, At, ConfigOps
<1>5. CASE ReloadRead(c)
  <2>1. CASE cmd' = [cmd EXCEPT ![c].pc = "swap", ![c].text = toml]
    BY <1>5, <2>1 DEF ReloadRead, At, ConfigOps, Typed, Turn, Advance, Fields
  <2>2. CASE Answer(c, "reload_failed") BY <1>5, <2>2, AnswerAdvances DEF ReloadRead, At, ConfigOps
  <2>. QED BY <1>5, <2>1, <2>2 DEF ReloadRead
<1>6. CASE ReloadSwap(c) BY <1>6, AnswerAdvances DEF ReloadSwap, At, ConfigOps
<1>7. CASE Sync(c) BY <1>7, AnswerAdvances DEF Sync, At, ConfigOps
<1>8. CASE SyncFails(c) BY <1>8, AnswerAdvances DEF SyncFails, At, ConfigOps
<1>9. CASE ConfigLoad(c)
  <2>1. cmd' = [cmd EXCEPT ![c].pc = "swap", ![c].mode = tree] BY <1>9 DEF ConfigLoad
  <2>. QED BY <1>9, <2>1 DEF ConfigLoad, At, ConfigOps, Typed, Turn, Advance, Fields
<1>10. CASE ConfigSwap(c) BY <1>10, AnswerAdvances DEF ConfigSwap, At, ConfigOps
<1>11. CASE ConfigValidate(c) BY <1>11, AnswerAdvances DEF ConfigValidate, At, ConfigOps
<1>. QED BY <1>1, <1>2, <1>3, <1>4, <1>5, <1>6, <1>7, <1>8, <1>9, <1>10, <1>11, <1>12
         DEF ConfigCommand

\* Neither the configuration nor the case is touched, ...
Settled == UNCHANGED <<toml, spoiled, case, policy>>

\* ... nor who owns which session.
Owned == UNCHANGED <<sess, owner, claimed, bound>>

Aside(c) == Advance(c) /\ cmd[c].op \notin ConfigOps \cup {"resume"} /\ Settled

LEMMA ReplyAdvances ==
  ASSUME Typed, NEW c \in Conns, NEW ans, Reply(c, ans), cmd[c].pc \notin {"own", "done"}
  PROVE  Advance(c) /\ cmd'[c].pc = "done" /\ cmd'[c].ans = ans /\ cmd'[c].saw = cmd[c].saw
         /\ Settled /\ Owned
BY AnswerAdvances DEF Reply, Settled, Owned, config, fixed, registry

LEMMA ProceedAdvances ==
  ASSUME Typed, NEW c \in Conns, NEW pc, Proceed(c, pc), pc # "own", cmd[c].pc \notin {"own", "done"}
  PROVE  Advance(c) /\ cmd'[c].pc = pc /\ cmd'[c].saw = cmd[c].saw /\ cmd'[c].text = cmd[c].text
         /\ Settled /\ Owned
BY GoAdvances DEF Proceed, Settled, Owned, config, fixed, registry

LEMMA AskAside ==
  ASSUME Typed, NEW c \in Conns, NEW op \in ProtoOps, AskAgent(c, op)
  PROVE  Aside(c) /\ Owned
BY ReplyAdvances DEF AskAgent, At, Aside, ConfigOps, ProtoOps

\* The commands of CommandDispatch, save session.resume and the last two steps
\* of a registration.
SessionCommand(c) ==
  \/ EnforceTool(c) \/ EnforceProtocol(c) \/ OwnerCheck(c)
  \/ \E ans \in {"unknown_command", "not_wired", "tool_missing"} : EnforceRefused(c, ans)
  \/ ModeSet(c) \/ ConfigOptionSet(c) \/ Authenticate(c)
  \/ CreateCheck(c) \/ CreateSpawn(c) \/ CreateFails(c) \/ List(c)

LEMMA SessionAside ==
  ASSUME Typed, NEW c \in Conns, SessionCommand(c)
  PROVE  Aside(c) /\ Owned
<1> USE DEF Aside, Settled, Owned
<1>1. CASE EnforceTool(c)
  <2>1. UNCHANGED <<config, fixed, registry>> BY <1>1 DEF EnforceTool
  <2>2. (\E ans : Answer(c, ans)) \/ Go(c, "owner") BY <1>1 DEF EnforceTool
  <2>. QED BY <1>1, <2>1, <2>2, GoAdvances, AnswerAdvances
         DEF EnforceTool, ToolOps, ConfigOps, config, fixed, registry
<1>2. CASE EnforceProtocol(c)
  BY <1>2, ProceedAdvances DEF EnforceProtocol, ProtoOps, ConfigOps
<1>3. CASE OwnerCheck(c)
  BY <1>3, ProceedAdvances, ReplyAdvances DEF OwnerCheck, ToolOps, ProtoOps, ConfigOps
<1>4. CASE \E ans \in {"unknown_command", "not_wired", "tool_missing"} : EnforceRefused(c, ans)
  BY <1>4, ReplyAdvances DEF EnforceRefused, At, ConfigOps
<1>5. CASE ModeSet(c) \/ ConfigOptionSet(c)
  BY <1>5, AskAside DEF ModeSet, ConfigOptionSet, ProtoOps
<1>6. CASE Authenticate(c)
  BY <1>6, ReplyAdvances DEF Authenticate, At, ConfigOps
<1>7. CASE CreateCheck(c)
  <2>1. UNCHANGED <<config, fixed, registry>> /\ At(c, "create", "start") BY <1>7 DEF CreateCheck
  <2>2. (\E ans : Answer(c, ans)) \/
        \E kinds, row : cmd' = [cmd EXCEPT ![c].pc = "spawn", ![c].allowed = kinds, ![c].saw = row]
    BY <1>7 DEF CreateCheck
  <2>3. CASE \E ans : Answer(c, ans)
    BY <2>1, <2>3, AnswerAdvances DEF At, ConfigOps, config, fixed, registry
  <2>4. ASSUME NEW kinds, NEW row,
               cmd' = [cmd EXCEPT ![c].pc = "spawn", ![c].allowed = kinds, ![c].saw = row]
        PROVE  Advance(c)
    BY <2>1, <2>4 DEF At, Typed, Turn, Advance, Fields
  <2>. QED BY <2>1, <2>2, <2>3, <2>4 DEF At, ConfigOps, config, fixed, registry
<1>8. CASE CreateSpawn(c)
  <2>1. UNCHANGED <<config, fixed, registry>> /\ At(c, "create", "spawn") BY <1>8 DEF CreateSpawn
  <2>2. (\E ans : Answer(c, ans)) \/
        \E s, kind : cmd' = [cmd EXCEPT ![c].pc = "insert", ![c].s = s, ![c].saw.kind = kind]
    BY <1>8 DEF CreateSpawn
  <2>3. CASE \E ans : Answer(c, ans)
    BY <2>1, <2>3, AnswerAdvances DEF At, ConfigOps, config, fixed, registry
  <2>4. ASSUME NEW s, NEW kind,
               cmd' = [cmd EXCEPT ![c].pc = "insert", ![c].s = s, ![c].saw.kind = kind]
        PROVE  Advance(c)
    BY <2>1, <2>4 DEF At, Typed, Turn, Advance, Fields
  <2>. QED BY <2>1, <2>2, <2>3, <2>4 DEF At, ConfigOps, config, fixed, registry
<1>9. CASE CreateFails(c) \/ List(c)
  BY <1>9, ReplyAdvances DEF CreateFails, List, At, ConfigOps
<1>. QED BY <1>1, <1>2, <1>3, <1>4, <1>5, <1>6, <1>7, <1>8, <1>9 DEF SessionCommand

\* session.close ends a claim.
CloseCommand(c) == CloseRemove(c) \/ CloseDisown(c)

LEMMA CloseAside ==
  ASSUME Typed, NEW c \in Conns, CloseCommand(c)
  PROVE  /\ Aside(c)
         /\ \/ Owned
            \/ /\ Unclaimed(cmd[c].s)
               /\ owner' = owner \/ owner' = [owner EXCEPT ![cmd[c].s] = "none"]
<1>1. CASE CloseRemove(c)
  <2>1. CASE sess[cmd[c].s].st = "none"
    BY <1>1, <2>1, ReplyAdvances DEF CloseRemove, At, Aside, ConfigOps
  <2>2. CASE sess[cmd[c].s].st # "none"
    BY <1>1, <2>2, GoAdvances DEF CloseRemove, At, Aside, ConfigOps, Settled, Unregistered, config, fixed
  <2>. QED BY <2>1, <2>2
<1>2. CASE CloseDisown(c)
  BY <1>2, AnswerAdvances DEF CloseDisown, At, Aside, ConfigOps, Settled, config, fixed
<1>. QED BY <1>1, <1>2 DEF CloseCommand

\* The workspace's commands that do not apply a mutation.
PromptCommand(c) ==
  \/ CodingContext(c) \/ ReviewAction(c) \/ Validation(c) \/ TaskLifecycle(c)
  \/ Preview(c) \/ Refine(c) \/ Message(c) \/ Reject(c) \/ Browse(c) \/ Branch(c)

\* The file is left alone, and its commands.
Untouched == UNCHANGED <<file, mixed>>

LEMMA SayAside ==
  ASSUME Typed, NEW c \in Conns, NEW ans, Say(c, ans), cmd[c].pc = "run",
         cmd[c].op \in ToolOps \cup ProtoOps
  PROVE  Aside(c) /\ Owned /\ Untouched
BY ReplyAdvances DEF Say, Aside, ConfigOps, ToolOps, ProtoOps, Untouched, workspace

LEMMA SubmitAside ==
  ASSUME Typed, NEW c \in Conns, Submit(c), cmd[c].pc = "run", cmd[c].op \in ToolOps \cup ProtoOps
  PROVE  Aside(c) /\ Owned /\ Untouched
<1>1. CASE Reply(c, "ok") /\ UNCHANGED <<file, mixed>>
  BY <1>1, ReplyAdvances DEF Aside, ConfigOps, ToolOps, ProtoOps, Untouched
<1>2. CASE Say(c, "ok") \/ Say(c, "dispatch_failed") BY <1>2, SayAside
<1>. QED BY <1>1, <1>2 DEF Submit

LEMMA PromptAside ==
  ASSUME Typed, NEW c \in Conns, PromptCommand(c)
  PROVE  Aside(c) /\ Owned /\ Untouched /\ cmd[c].op # "approve"
<1>1. ASSUME NEW op \in ToolOps \cup ProtoOps, Prompt(c, op), op # "approve"
      PROVE  Aside(c) /\ Owned /\ Untouched /\ cmd[c].op # "approve"
  BY <1>1, SayAside, SubmitAside DEF Prompt, At
<1>2. CASE CodingContext(c) \/ ReviewAction(c) \/ Validation(c) \/ TaskLifecycle(c)
  BY <1>1, <1>2 DEF CodingContext, ReviewAction, Validation, TaskLifecycle, ToolOps, ProtoOps
<1>3. CASE Preview(c) BY <1>1, <1>3, SayAside DEF Preview, At, ToolOps, ProtoOps
<1>4. CASE Refine(c) BY <1>4, SayAside, SubmitAside DEF Refine, At, ProtoOps
<1>5. CASE Message(c) BY <1>5, SayAside, SubmitAside DEF Message, At, ProtoOps
<1>6. CASE Reject(c) \/ Browse(c) \/ Branch(c)
  BY <1>6, SayAside DEF Reject, Browse, Branch, At, ToolOps, ProtoOps
<1>. QED BY <1>2, <1>3, <1>4, <1>5, <1>6 DEF PromptCommand

MutationCommand(c) ==
  \/ Approve(c) \/ ApplyRead(c) \/ ApplyDelete(c)
  \/ ApplyTruncate(c) \/ ApplyFill(c) \/ ApplyFails(c)

LEMMA MutationAside ==
  ASSUME Typed, NEW c \in Conns, MutationCommand(c)
  PROVE  Aside(c) /\ Owned /\ cmd[c].op = "approve"
<1> USE DEF At, Aside, ConfigOps
<1>1. CASE Approve(c) BY <1>1, ReplyAdvances, ProceedAdvances DEF Approve, Say
<1>2. CASE ApplyRead(c)
  <2>1. UNCHANGED <<config, fixed, registry>> /\ At(c, "approve", "apply") BY <1>2 DEF ApplyRead
  <2>2. (\E ans : Answer(c, ans)) \/
        \E text : cmd' = [cmd EXCEPT ![c].pc = "write", ![c].text = text]
    BY <1>2 DEF ApplyRead
  <2>3. CASE \E ans : Answer(c, ans)
    BY <2>1, <2>3, AnswerAdvances DEF Settled, Owned, config, fixed, registry
  <2>4. ASSUME NEW text, cmd' = [cmd EXCEPT ![c].pc = "write", ![c].text = text]
        PROVE  Advance(c)
    BY <2>1, <2>4 DEF Typed, Turn, Advance, Fields
  <2>. QED BY <2>1, <2>2, <2>3, <2>4 DEF Settled, Owned, config, fixed, registry
<1>3. CASE ApplyDelete(c) BY <1>3, ReplyAdvances DEF ApplyDelete, Say
<1>4. CASE ApplyTruncate(c) BY <1>4, ProceedAdvances DEF ApplyTruncate
<1>5. CASE ApplyFill(c) BY <1>5, ReplyAdvances DEF ApplyFill
<1>6. CASE ApplyFails(c) BY <1>6, ReplyAdvances DEF ApplyFails, Say
<1>. QED BY <1>1, <1>2, <1>3, <1>4, <1>5, <1>6 DEF MutationCommand

\* session.resume up to the insert.
ResumeCommand(c) ==
  \/ ResumeStart(c) \/ ResumeRing(c) \/ ResumeMeta(c) \/ ResumeUnreadable(c)
  \/ ResumeDrift(c) \/ ResumeValidate(c) \/ ResumeRootGone(c) \/ ResumeLoaded(c)
  \/ ResumeRefused(c, "rejected") \/ ResumeRefused(c, "failed")
  \/ ResumeUnsupported(c) \/ ResumeReplay(c)

\* Start, Ack and the two steps of a registration.
Boundary(c) == (\E op \in Ops : Start(c, op)) \/ Ack(c) \/ Insert(c) \/ SetOwner(c)

\* What happens around the commands.
Around ==
  \/ OperatorEdits /\ UNCHANGED <<fixed, files, registry>>
  \/ ProfileEdited
  \/ \E s \in Sids : Dies(s) \/ ReapScan(s) \/ TurnEnds(s)
  \/ ReapDrop \/ ReapDisown
  \/ UNCHANGED wvars

LEMMA NextCases ==
  ASSUME [WNext]_wvars
  PROVE  \/ Around /\ (UNCHANGED workspace \/ \E s \in Sids : TurnEnds(s))
         \/ \E c \in Conns :
              \/ ConfigCommand(c) /\ UNCHANGED <<fixed, files, registry, workspace>>
              \/ SessionCommand(c) /\ UNCHANGED workspace
              \/ CloseCommand(c) /\ UNCHANGED workspace
              \/ ResumeCommand(c) /\ UNCHANGED workspace
              \/ Boundary(c) /\ UNCHANGED workspace
              \/ PromptCommand(c) \/ MutationCommand(c)
<1>1. ASSUME NEW c \in Conns, Command(c)
      PROVE  \/ ConfigCommand(c) /\ UNCHANGED <<fixed, files, registry>>
             \/ SessionCommand(c) \/ CloseCommand(c) \/ ResumeCommand(c) \/ Boundary(c)
  BY <1>1 DEF Command, SessionCommand, CloseCommand, ResumeCommand, Boundary
<1>2. CASE Next /\ UNCHANGED workspace
  BY <1>1, <1>2 DEF Next, Around, Boundary
<1>3. CASE \E c \in Conns : PromptCommand(c) \/ MutationCommand(c) BY <1>3
<1>4. CASE (\E s \in Sids : TurnEnds(s)) \/ UNCHANGED wvars BY <1>4 DEF Around, wvars
<1>. QED BY <1>2, <1>3, <1>4 DEF WNext, PromptCommand, MutationCommand

-----------------------------------------------------------------------------
(* session.resume: what each stage has established.                         *)

Policies == [default : Modes, fallback : {"replay_only", "fail"}, drift : {"warn", "fail", "ignore"}]

\* On the way to the agent, and to the replay of the stored events.
NativeStages == {"drift", "validate", "load", "insert", "own"}

Replayable(k, m) ==
  \/ m = "replay_only"
  \/ m = "native_or_replay" /\ (k.saw.caps => policy.fallback = "replay_only")

\* The answer of a resume that asked for mode m.
Answered(k, m) ==
  /\ k.ans = "unknown_mode" => m = "typo"
  /\ m = "typo" => k.ans \in {"unknown_mode", "forbidden"}
  /\ k.ans = "ring" => ~k.vac /\ m \notin Native
  /\ k.ans = "replay_only" => m = "replay_only"
  /\ k.ans = "replay_only_fallback" => m # "replay_only" /\ Replayable(k, m)
  /\ k.ans \in {"native", "rejected", "failed", "invalid", "drift"} => m \in Native /\ k.saw.caps
  /\ k.put <=> k.ans = "native"

ResumeTrue(k, m) ==
  /\ k.mode \in Modes \cup {"none", "typo"} /\ k.vac \in BOOLEAN
  /\ k.pc \in NativeStages \cup {"start", "ring", "meta", "replay", "done"}
  /\ k.pc = "ring" => ~k.vac /\ m \notin Native \cup {"typo"}
  /\ k.pc = "meta" => m \in Modes
  /\ k.pc \in NativeStages => m \in Native /\ k.saw.caps
  /\ k.pc = "replay" => Replayable(k, m)
  /\ k.pc = "own" => k.put
  /\ k.pc = "done" => Answered(k, m)

\* Only who registers a session has one in hand.
PutLate(k) == k.put \in BOOLEAN /\ (k.put => k.pc \in {"own", "done"})

CommandInv ==
  /\ Typed /\ policy \in Policies /\ "who" \in DOMAIN case
  /\ \A c \in Conns :
       /\ PutLate(cmd[c])
       /\ cmd[c].op = "resume" => ResumeTrue(cmd[c], Requested(cmd[c]))

LEMMA RequestedMode ==
  ASSUME policy \in Policies, NEW k, k.mode \in Modes \cup {"none", "typo"}, k.vac \in BOOLEAN
  PROVE  /\ Requested(k) \in Modes \cup {"none", "typo"}
         /\ k.vac => Requested(k) # "none"
         /\ ~k.vac => Requested(k) = k.mode
BY DEF Requested, Policies, Modes

LEMMA RequestedStays ==
  ASSUME policy' = policy, NEW c \in Conns, cmd'[c].mode = cmd[c].mode, cmd'[c].vac = cmd[c].vac
  PROVE  Requested(cmd[c])' = Requested(cmd[c])
BY DEF Requested

\* A step that goes on, or answers.
LEMMA ResumeGoes ==
  ASSUME CommandInv, NEW c \in Conns, cmd[c].op = "resume", cmd[c].pc \notin {"own", "done"}, Settled,
         Advance(c), NEW pc \in NativeStages \cup {"ring", "meta", "replay"}, cmd'[c].pc = pc,
         LET m == Requested(cmd[c])  k == cmd[c] IN
           /\ pc = "ring" => ~k.vac /\ m \notin Native \cup {"typo"}
           /\ pc = "meta" => m \in Modes
           /\ pc \in NativeStages => m \in Native /\ cmd'[c].saw.caps
           /\ pc = "replay" => Replayable(cmd'[c], m)
  PROVE  ResumeTrue(cmd[c], Requested(cmd[c]))'
<1>1. cmd'[c].mode = cmd[c].mode /\ cmd'[c].vac = cmd[c].vac /\ cmd'[c].pc # "own" BY DEF Advance
<1>2. Requested(cmd[c])' = Requested(cmd[c]) BY <1>1, RequestedStays DEF Settled
<1>3. ResumeTrue(cmd[c], Requested(cmd[c])) BY DEF CommandInv
<1>. QED BY <1>1, <1>2, <1>3 DEF ResumeTrue, NativeStages, Replayable, Settled

LEMMA ResumeAnswers ==
  ASSUME CommandInv, NEW c \in Conns, cmd[c].op = "resume", cmd[c].pc \notin {"own", "done"}, Settled,
         Advance(c), NEW ans, cmd'[c].pc = "done", cmd'[c].ans = ans, cmd'[c].saw = cmd[c].saw,
         LET m == Requested(cmd[c])  k == cmd[c] IN
           /\ ans = "unknown_mode" => m = "typo"
           /\ m = "typo" => ans \in {"unknown_mode", "forbidden"}
           /\ ans = "ring" => ~k.vac /\ m \notin Native
           /\ ans = "replay_only" => m = "replay_only"
           /\ ans = "replay_only_fallback" => m # "replay_only" /\ Replayable(k, m)
           /\ ans \in {"rejected", "failed", "invalid", "drift"} => m \in Native /\ k.saw.caps
           /\ ans # "native"
  PROVE  ResumeTrue(cmd[c], Requested(cmd[c]))'
<1>1. cmd'[c].mode = cmd[c].mode /\ cmd'[c].vac = cmd[c].vac /\ cmd'[c].put = cmd[c].put
  BY DEF Advance
<1>2. Requested(cmd[c])' = Requested(cmd[c]) BY <1>1, RequestedStays DEF Settled
<1>3. ResumeTrue(cmd[c], Requested(cmd[c])) /\ PutLate(cmd[c]) BY DEF CommandInv
<1>4. cmd'[c].put = FALSE BY <1>1, <1>3 DEF PutLate
<1>. QED BY <1>1, <1>2, <1>3, <1>4 DEF ResumeTrue, Answered, NativeStages, Replayable, Settled

LEMMA ResumeStep ==
  ASSUME CommandInv, NEW c \in Conns, ResumeCommand(c)
  PROVE  /\ Advance(c) /\ cmd[c].op = "resume" /\ Settled /\ Owned
         /\ ResumeTrue(cmd[c], Requested(cmd[c]))'
<1> DEFINE k == cmd[c]
           m == Requested(k)
           Kept == Advance(c) /\ cmd[c].op = "resume" /\ Settled /\ Owned
           Goal == Kept /\ ResumeTrue(cmd[c], Requested(cmd[c]))'
<1>0. Typed /\ policy \in Policies BY DEF CommandInv
<1>1. k.op = "resume" BY DEF ResumeCommand, ResumeStart, ResumeRing, ResumeMeta, ResumeUnreadable,
  ResumeDrift, ResumeValidate, ResumeRootGone, ResumeLoaded, ResumeRefused, ResumeUnsupported,
  ResumeReplay, At
<1>2. ResumeTrue(k, m) /\ PutLate(k) BY <1>1 DEF CommandInv
<1>3. /\ m \in Modes \cup {"none", "typo"} /\ (k.vac => m # "none") /\ k.vac \in BOOLEAN
      /\ Native \subseteq Modes /\ "typo" \notin Modes /\ "none" \notin Modes
      /\ Modes = Native \cup {"replay_only"} /\ "replay_only" \notin Native
  BY <1>0, <1>2, RequestedMode DEF ResumeTrue, Modes, Native
<1>. HIDE DEF m
<1>4. ASSUME k.pc \notin {"own", "done"}, NEW pc \in NativeStages \cup {"ring", "meta", "replay"},
             pc # "own", Proceed(c, pc),
             pc = "ring" => ~k.vac /\ m \notin Native \cup {"typo"},
             pc = "meta" => m \in Modes,
             pc \in NativeStages => m \in Native /\ k.saw.caps,
             pc = "replay" => Replayable(k, m)
      PROVE  Goal
  <2>1. Kept /\ cmd'[c].pc = pc /\ cmd'[c].saw = k.saw BY <1>0, <1>1, <1>4, ProceedAdvances
  <2>. QED BY <1>1, <1>4, <2>1, ResumeGoes DEF m, Replayable
<1>5. ASSUME k.pc \notin {"own", "done"}, NEW ans, Reply(c, ans),
             ans = "unknown_mode" => m = "typo",
             m = "typo" => ans \in {"unknown_mode", "forbidden"},
             ans = "ring" => ~k.vac /\ m \notin Native,
             ans = "replay_only" => m = "replay_only",
             ans = "replay_only_fallback" => m # "replay_only" /\ Replayable(k, m),
             ans \in {"rejected", "failed", "invalid", "drift"} => m \in Native /\ k.saw.caps,
             ans # "native"
      PROVE  Goal
  <2>1. Kept /\ cmd'[c].pc = "done" /\ cmd'[c].ans = ans /\ cmd'[c].saw = k.saw
    BY <1>0, <1>1, <1>5, ReplyAdvances
  <2>. QED BY <1>1, <1>5, <2>1, ResumeAnswers DEF m
<1> USE DEF At
<1>6. CASE ResumeStart(c)
  <2>0. k.pc = "start" BY <1>6 DEF ResumeStart
  <2>1. CASE Reply(c, "forbidden") BY <1>5, <2>0, <2>1
  <2>2. CASE Reply(c, "unknown_mode") /\ m = "typo" BY <1>5, <2>0, <2>2
  <2>3. CASE Reply(c, "unknown") /\ m \in Native BY <1>3, <1>5, <2>0, <2>3
  <2>4. CASE Proceed(c, "meta") /\ k.vac /\ m # "typo" BY <1>3, <1>4, <2>0, <2>4 DEF NativeStages
  <2>5. CASE Proceed(c, "ring") /\ ~k.vac /\ m \notin Native \cup {"typo"}
    BY <1>4, <2>0, <2>5 DEF NativeStages
  <2>. QED BY <1>6, <2>1, <2>2, <2>3, <2>4, <2>5 DEF ResumeStart, m
<1>7. CASE ResumeRing(c) BY <1>2, <1>5, <1>7 DEF ResumeRing, ResumeTrue
<1>8. CASE ResumeMeta(c)
  <2> DEFINE row == meta[k.s]
  <2>0. k.pc = "meta" /\ m \in Modes BY <1>2, <1>8 DEF ResumeMeta, ResumeTrue
  <2>1. UNCHANGED <<config, fixed, files, registry>> BY <1>8 DEF ResumeMeta
  <2>2. ASSUME NEW ans, Answer(c, ans), ans \in {"unknown", "not_found", "scope_mismatch", "unsupported"}
        PROVE  Goal
    <3>1. Reply(c, ans) BY <2>1, <2>2 DEF Reply
    <3>. QED BY <1>3, <1>5, <2>0, <2>2, <3>1
  <2>3. ASSUME NEW pc \in {"drift", "replay"},
               cmd' = [cmd EXCEPT ![c].saw = row, ![c].pc = pc],
               pc = "drift" => m \in Native /\ row.caps,
               pc = "replay" => (m \in Native => ~row.caps),
               m = "acp_load" => row.caps
        PROVE  Goal
    <3>1. Advance(c) /\ cmd'[c].pc = pc /\ cmd'[c].saw = row
      BY <1>0, <2>0, <2>3 DEF Typed, Turn, Advance, Fields
    <3>2. Settled /\ Owned BY <2>1 DEF Settled, Owned, config, fixed, registry
    <3>3. pc = "replay" => Replayable(cmd'[c], m)
      BY <1>3, <2>0, <2>3, <3>1 DEF Replayable, Native
    <3>. QED BY <1>1, <2>0, <2>3, <3>1, <3>2, <3>3, ResumeGoes DEF m, NativeStages
  <2>4. CASE ~row.exists \/ ~InScope(c, row.root) \/ LacksCaps(k)
    BY <1>8, <2>2, <2>4 DEF ResumeMeta
  <2>5. CASE row.exists /\ InScope(c, row.root) /\ ~LacksCaps(k)
    <3>1. cmd' = [cmd EXCEPT ![c].saw = row,
                    ![c].pc = IF m \in Native /\ row.caps THEN "drift" ELSE "replay"]
      BY <1>8, <2>5 DEF ResumeMeta, m
    <3>2. m = "acp_load" => row.caps BY <2>5 DEF LacksCaps, m
    <3>3. CASE m \in Native /\ row.caps
      <4>1. cmd' = [cmd EXCEPT ![c].saw = row, ![c].pc = "drift"] BY <3>1, <3>3
      <4>. QED BY <2>3, <3>2, <3>3, <4>1
    <3>4. CASE ~(m \in Native /\ row.caps)
      <4>1. cmd' = [cmd EXCEPT ![c].saw = row, ![c].pc = "replay"] BY <3>1, <3>4
      <4>. QED BY <2>3, <3>2, <3>4, <4>1
    <3>. QED BY <3>3, <3>4
  <2>. QED BY <2>4, <2>5
<1>9. CASE ResumeUnreadable(c)
  <2>1. m # "typo" BY <1>2, <1>3, <1>9 DEF ResumeUnreadable, ResumeTrue, Replayable
  <2>. QED BY <1>5, <1>9, <2>1 DEF ResumeUnreadable
<1>10. ASSUME k.pc \in {"drift", "validate", "load"}
       PROVE  m \in Native /\ k.saw.caps /\ m # "typo"
  BY <1>2, <1>3, <1>10 DEF ResumeTrue, NativeStages
<1>11. CASE ResumeDrift(c)
  BY <1>4, <1>5, <1>10, <1>11 DEF ResumeDrift, NativeStages
<1>12. CASE ResumeValidate(c)
  <2>0. k.pc = "validate" /\ UNCHANGED <<config, fixed, files, registry>> BY <1>12 DEF ResumeValidate
  <2>1. CASE Answer(c, "invalid")
    <3>1. Reply(c, "invalid") BY <2>0, <2>1 DEF Reply
    <3>. QED BY <1>5, <1>10, <2>0, <3>1
  <2>2. CASE cmd' = [cmd EXCEPT ![c].pc = "load", ![c].allowed = prof.kinds]
    <3>1. Advance(c) /\ cmd'[c].pc = "load" /\ cmd'[c].saw = k.saw
      BY <1>0, <2>0, <2>2 DEF Typed, Turn, Advance, Fields
    <3>2. Settled /\ Owned BY <2>0 DEF Settled, Owned, config, fixed, registry
    <3>. QED BY <1>1, <1>10, <2>0, <3>1, <3>2, ResumeGoes DEF m, NativeStages
  <2>. QED BY <1>12, <2>1, <2>2 DEF ResumeValidate
<1>13. CASE ResumeRootGone(c) BY <1>5, <1>10, <1>13 DEF ResumeRootGone
<1>14. CASE ResumeLoaded(c) BY <1>4, <1>10, <1>14 DEF ResumeLoaded, NativeStages
<1>15. CASE ResumeRefused(c, "rejected") BY <1>5, <1>10, <1>15 DEF ResumeRefused
<1>16. CASE ResumeRefused(c, "failed") BY <1>5, <1>10, <1>16 DEF ResumeRefused
<1>17. CASE ResumeUnsupported(c)
  <2>1. CASE m = "native_or_replay" /\ policy.fallback # "fail" /\ Proceed(c, "replay")
    <3>1. policy.fallback = "replay_only" BY <1>0, <2>1 DEF Policies
    <3>. QED BY <1>4, <1>17, <2>1, <3>1 DEF ResumeUnsupported, NativeStages, Replayable
  <2>2. CASE Reply(c, "unsupported") BY <1>5, <1>10, <1>17, <2>2 DEF ResumeUnsupported
  <2>. QED BY <1>17, <2>1, <2>2 DEF ResumeUnsupported, m
<1>18. CASE ResumeReplay(c)
  <2>1. k.pc = "replay" /\ Replayable(k, m) /\ m # "typo"
    BY <1>2, <1>18 DEF ResumeReplay, ResumeTrue, Replayable
  <2>2. CASE m = "replay_only" /\ Reply(c, "replay_only") BY <1>5, <2>1, <2>2
  <2>3. CASE m # "replay_only" /\ Reply(c, "replay_only_fallback") BY <1>5, <2>1, <2>3
  <2>. QED BY <1>18, <2>2, <2>3 DEF ResumeReplay, m
<1>. QED
  BY <1>6, <1>7, <1>8, <1>9, <1>11, <1>12, <1>13, <1>14, <1>15, <1>16, <1>17, <1>18 DEF ResumeCommand

LEMMA StartTurn ==
  ASSUME Typed, NEW c \in Conns, NEW op \in Ops, Start(c, op)
  PROVE  /\ Turn(c) /\ cmd[c].pc = "idle" /\ cmd'[c].pc = "start" /\ cmd'[c].put = FALSE
         /\ cmd'[c].mode \in Modes \cup {"none", "typo"} /\ cmd'[c].vac \in BOOLEAN
         /\ cmd'[c].op = op /\ cmd'[c].id \in Inputs(op)
         /\ UNCHANGED <<toml, spoiled, policy, owner, claimed, bound>>
<1>1. PICK s \in Sids \cup {"none"}, mode \in Modes \cup {"none", "typo"}, vac \in BOOLEAN,
           id \in Inputs(op) :
        cmd' = [cmd EXCEPT ![c] = Parsed(op, s, mode, vac, id)]
  BY DEF Start
<1> DEFINE k == Parsed(op, s, mode, vac, id)
<1>2. DOMAIN k = Fields /\ k.pc = "start" /\ k.mode = mode /\ k.vac = vac /\ k.put = FALSE
      /\ k.op = op /\ k.id = id
  BY DEF Parsed, NoCmd, Fields
<1>3. cmd' = [cmd EXCEPT ![c] = k] BY <1>1
<1>. HIDE DEF k
<1>4. Turn(c) /\ cmd'[c] = k BY <1>2, <1>3 DEF Typed, Turn
<1>5. cmd[c].pc = "idle" BY DEF Start, NoCmd
<1>. QED BY <1>2, <1>4, <1>5 DEF Start, config, registry

LEMMA BoundaryStep ==
  ASSUME CommandInv, NEW c \in Conns, Boundary(c)
  PROVE  /\ Turn(c) /\ policy' = policy /\ "who" \in DOMAIN case' /\ case'.who = case.who
         /\ UNCHANGED <<toml, spoiled>>
         /\ PutLate(cmd[c])'
         /\ cmd'[c].op = "resume" => ResumeTrue(cmd[c], Requested(cmd[c]))'
<1>0. Typed /\ policy \in Policies BY DEF CommandInv
<1>2. CASE \E op \in Ops : Start(c, op)
  <2>1. "who" \in DOMAIN case' /\ case'.who = case.who BY <1>2 DEF Start, CommandInv
  <2>. QED BY <1>0, <1>2, <2>1, StartTurn DEF ResumeTrue, NativeStages, PutLate
<1>3. CASE Ack(c)
  <2>1. cmd' = [cmd EXCEPT ![c] = NoCmd] /\ UNCHANGED <<config, fixed>> BY <1>3 DEF Ack
  <2>2. DOMAIN NoCmd = Fields /\ NoCmd.op # "resume" /\ NoCmd.put = FALSE BY DEF NoCmd, Fields
  <2>3. Turn(c) /\ cmd'[c] = NoCmd BY <1>0, <2>1, <2>2 DEF Typed, Turn
  <2>. QED BY <2>1, <2>2, <2>3 DEF config, fixed, CommandInv, PutLate
<1>4. CASE Insert(c)
  <2>1. cmd' = [cmd EXCEPT ![c].pc = "own", ![c].put = TRUE] /\ UNCHANGED <<config, fixed>>
        /\ cmd[c].pc = "insert"
    BY <1>4 DEF Insert
  <2>2. /\ Turn(c) /\ cmd'[c].pc = "own" /\ cmd'[c].put = TRUE /\ cmd'[c].op = cmd[c].op
        /\ cmd'[c].mode = cmd[c].mode /\ cmd'[c].vac = cmd[c].vac /\ cmd'[c].saw = cmd[c].saw
    BY <1>0, <2>1 DEF Typed, Turn, Fields
  <2>3. Requested(cmd[c])' = Requested(cmd[c]) BY <2>1, <2>2, RequestedStays DEF fixed
  <2>. QED BY <2>1, <2>2, <2>3 DEF config, fixed, CommandInv, PutLate, ResumeTrue, NativeStages
<1>5. CASE SetOwner(c)
  <2>1. /\ Answer(c, IF cmd[c].op = "create" THEN "created" ELSE "native")
        /\ cmd[c].pc = "own" /\ UNCHANGED <<config, fixed>>
    BY <1>5 DEF SetOwner
  <2>2. /\ Turn(c) /\ cmd'[c].pc = "done" /\ cmd'[c].put = cmd[c].put /\ cmd'[c].op = cmd[c].op
        /\ cmd'[c].mode = cmd[c].mode /\ cmd'[c].vac = cmd[c].vac /\ cmd'[c].saw = cmd[c].saw
        /\ cmd[c].op = "resume" => cmd'[c].ans = "native"
    BY <1>0, <2>1 DEF Answer, Typed, Turn, Fields
  <2>3. Requested(cmd[c])' = Requested(cmd[c]) BY <2>1, <2>2, RequestedStays DEF fixed
  <2>4. PutLate(cmd[c])' BY <2>2 DEF CommandInv, PutLate
  <2>5. ASSUME cmd[c].op = "resume" PROVE ResumeTrue(cmd[c], Requested(cmd[c]))'
    <3>1. ResumeTrue(cmd[c], Requested(cmd[c])) BY <2>5 DEF CommandInv
    <3>2. /\ Requested(cmd[c]) \in Native /\ cmd[c].saw.caps /\ cmd[c].put
          /\ "typo" \notin Native
      BY <2>1, <3>1 DEF ResumeTrue, NativeStages, Native
    <3>3. Answered(cmd[c], Requested(cmd[c]))' BY <2>2, <2>3, <2>5, <3>2 DEF Answered
    <3>. QED BY <2>2, <2>3, <3>1, <3>3 DEF ResumeTrue, NativeStages
  <2>. QED BY <2>1, <2>2, <2>4, <2>5 DEF config, fixed, CommandInv
<1>. QED BY <1>2, <1>3, <1>4, <1>5 DEF Boundary

LEMMA AroundStep ==
  ASSUME Around
  PROVE  cmd' = cmd /\ UNCHANGED <<case, policy>>
<1>1. CASE OperatorEdits /\ UNCHANGED <<fixed, files, registry>> BY <1>1 DEF OperatorEdits, fixed
<1>2. CASE ProfileEdited BY <1>2 DEF ProfileEdited, fixed
<1>3. ASSUME NEW s \in Sids, Dies(s) \/ ReapScan(s) \/ TurnEnds(s) PROVE cmd' = cmd /\ UNCHANGED fixed
  BY <1>3 DEF Dies, ReapScan, TurnEnds, vars, fixed
<1>4. CASE ReapDrop \/ ReapDisown BY <1>4 DEF ReapDrop, ReapDisown, fixed
<1>5. CASE UNCHANGED wvars BY <1>5 DEF wvars, vars, fixed
<1>. QED BY <1>1, <1>2, <1>3, <1>4, <1>5 DEF Around, fixed

\* What a step does to one command, whoever makes it.
LEMMA TurnKeeps ==
  ASSUME CommandInv, NEW c \in Conns, Turn(c), policy' = policy, "who" \in DOMAIN case',
         PutLate(cmd[c])', cmd'[c].op = "resume" => ResumeTrue(cmd[c], Requested(cmd[c]))'
  PROVE  CommandInv'
<1>1. ASSUME NEW d \in Conns, d # c
      PROVE  /\ PutLate(cmd[d])'
             /\ cmd'[d].op = "resume" => ResumeTrue(cmd[d], Requested(cmd[d]))'
  <2>1. cmd'[d] = cmd[d] BY <1>1 DEF Turn
  <2>. QED BY <2>1 DEF CommandInv, PutLate, ResumeTrue, Requested, Replayable, Answered
<1>2. Typed' BY DEF Turn
<1>. QED BY <1>1, <1>2 DEF CommandInv

LEMMA NextCommandInv ==
  ASSUME CommandInv, [WNext]_wvars
  PROVE  CommandInv'
<1>0. Typed BY DEF CommandInv
<1>1. CASE Around
  BY <1>1, AroundStep DEF CommandInv, Typed, PutLate, ResumeTrue, Requested, Replayable, Answered
<1>2. ASSUME NEW c \in Conns, Advance(c), cmd[c].op # "resume", UNCHANGED <<case, policy>>
      PROVE  CommandInv'
  <2>1. PutLate(cmd[c])' /\ cmd'[c].op # "resume" BY <1>2 DEF Advance, CommandInv, PutLate
  <2>. QED BY <1>2, <2>1, TurnKeeps DEF Advance, CommandInv
<1>3. ASSUME NEW c \in Conns, ConfigCommand(c), UNCHANGED fixed PROVE CommandInv'
  BY <1>0, <1>2, <1>3, ConfigAdvances DEF ConfigOps, fixed
<1>4. ASSUME NEW c \in Conns, SessionCommand(c) \/ CloseCommand(c) \/ PromptCommand(c) \/ MutationCommand(c)
      PROVE  CommandInv'
  BY <1>0, <1>2, <1>4, SessionAside, CloseAside, PromptAside, MutationAside DEF Aside, Settled
<1>5. ASSUME NEW c \in Conns, ResumeCommand(c) PROVE CommandInv'
  <2>1. /\ Advance(c) /\ Settled /\ ResumeTrue(cmd[c], Requested(cmd[c]))'
    BY <1>5, ResumeStep
  <2>2. PutLate(cmd[c])' BY <2>1 DEF Advance, CommandInv, PutLate
  <2>. QED BY <2>1, <2>2, TurnKeeps DEF Advance, Settled, CommandInv
<1>6. ASSUME NEW c \in Conns, Boundary(c) PROVE CommandInv'
  BY <1>6, BoundaryStep, TurnKeeps
<1>. QED BY <1>1, <1>3, <1>4, <1>5, <1>6, NextCases

LEMMA InitCommandInv ==
  ASSUME WInit
  PROVE  CommandInv
<1>1. Init BY DEF WInit
<1>2. case \in Cases /\ policy \in case.policies /\ cmd = [c \in Conns |-> NoCmd] BY <1>1 DEF Init
<1>3. policy \in Policies /\ "who" \in DOMAIN case BY <1>2, CaseAssumption DEF Policies
<1>4. DOMAIN NoCmd = Fields /\ NoCmd.op # "resume" /\ NoCmd.put = FALSE BY DEF NoCmd, Fields
<1>. QED BY <1>2, <1>3, <1>4 DEF CommandInv, Typed, PutLate

LEMMA MatrixHolds ==
  ASSUME CommandInv
  PROVE  ResumeMatrix
<1>. SUFFICES ASSUME NEW c \in Conns, At(c, "resume", "done")
              PROVE  Answered(cmd[c], Requested(cmd[c]))
  BY DEF ResumeMatrix, Answered, Replayable
<1>. QED BY DEF CommandInv, ResumeTrue, At

LEMMA CommandSafety == WSpec => []CommandInv
<1>1. WInit => CommandInv BY InitCommandInv
<1>2. CommandInv /\ [WNext]_wvars => CommandInv' BY NextCommandInv
<1>. QED BY <1>1, <1>2, PTL DEF WSpec

\* However profiles, policies and other connections change under a resume, its
\* answer is one that its mode, the stored row and the policy allow, and it has
\* registered a session exactly when it says "native" (session.resume).
THEOREM ResumeFollowsMatrix == WSpec => []ResumeMatrix
BY CommandSafety, MatrixHolds, PTL

-----------------------------------------------------------------------------
(* Owners.  A registration is claimed from the insert on; who writes the    *)
(* owner while somebody else's claim stands, ends it.                       *)

\* The owner a claimant wrote is the one it will tell.
ClaimTrue(c, s) ==
  cmd[c].s = s /\ claimed[s] = c =>
    (cmd[c].pc = "done" /\ cmd[c].put /\ Device(c) => owner[s] = Who(c))

OwnerInv ==
  /\ DOMAIN owner = Sids /\ DOMAIN claimed = Sids /\ DOMAIN bound = Sids
  /\ \A s \in Sids : bound[s] # "none" => owner[s] = bound[s]
  /\ \A c \in Conns, s \in Sids : ClaimTrue(c, s)

\* No command comes to register, or to tell.
NoneRegisters ==
  \A d \in Conns :
    \/ cmd'[d] = cmd[d]
    \/ cmd'[d].pc # "own" /\ cmd'[d].put = FALSE

LEMMA AdvanceClaims ==
  ASSUME CommandInv, NEW c \in Conns, Advance(c)
  PROVE  NoneRegisters
<1>1. PutLate(cmd[c]) BY DEF CommandInv
<1>. QED BY <1>1 DEF Advance, Turn, PutLate, NoneRegisters

LEMMA ClaimsKept ==
  ASSUME OwnerInv, UNCHANGED <<owner, claimed, bound>>, case'.who = case.who,
         NoneRegisters
  PROVE  OwnerInv'
BY DEF OwnerInv, ClaimTrue, Device, Who, NoneRegisters

LEMMA UnclaimedKept ==
  ASSUME OwnerInv, NEW s, Unclaimed(s), case'.who = case.who,
         owner' = owner \/ owner' = [owner EXCEPT ![s] = "none"],
         NoneRegisters
  PROVE  OwnerInv'
<1>1. /\ DOMAIN owner' = Sids /\ DOMAIN claimed' = Sids /\ DOMAIN bound' = Sids
      /\ \A r \in Sids : r # s => owner'[r] = owner[r] /\ claimed'[r] = claimed[r] /\ bound'[r] = bound[r]
      /\ s \in Sids => claimed'[s] = "none" /\ bound'[s] = "none"
  BY DEF Unclaimed, OwnerInv
<1>2. "none" \notin Conns BY CaseAssumption
<1>. QED BY <1>1, <1>2 DEF OwnerInv, ClaimTrue, Device, Who, NoneRegisters

LEMMA NextOwnerInv ==
  ASSUME CommandInv, OwnerInv, [WNext]_wvars
  PROVE  OwnerInv'
<1>0. Typed BY DEF CommandInv
<1>1. CASE Around
  <2>1. cmd' = cmd /\ case'.who = case.who BY <1>1, AroundStep
  <2>2. CASE \/ OperatorEdits /\ UNCHANGED <<fixed, files, registry>>
             \/ ProfileEdited \/ (\E s \in Sids : Dies(s) \/ ReapScan(s) \/ TurnEnds(s))
             \/ UNCHANGED wvars
    <3>1. UNCHANGED <<owner, claimed, bound>>
      BY <2>2 DEF ProfileEdited, Dies, ReapScan, TurnEnds, wvars, vars, registry
    <3>. QED BY <2>1, <3>1, ClaimsKept DEF NoneRegisters
  <2>3. CASE ReapDrop
    <3>1. CASE UNCHANGED <<claimed, bound>> BY <2>1, <2>3, <3>1, ClaimsKept DEF ReapDrop, NoneRegisters
    <3>2. CASE Unclaimed(reap.s) BY <2>1, <2>3, <3>2, UnclaimedKept DEF ReapDrop, NoneRegisters
    <3>. QED BY <2>3, <3>1, <3>2 DEF ReapDrop, Unregistered
  <2>4. CASE ReapDisown BY <2>1, <2>4, UnclaimedKept DEF ReapDisown, NoneRegisters
  <2>. QED BY <1>1, <2>2, <2>3, <2>4 DEF Around
<1>2. ASSUME NEW c \in Conns,
             \/ ConfigCommand(c) /\ UNCHANGED <<fixed, registry>>
             \/ SessionCommand(c) \/ PromptCommand(c) \/ MutationCommand(c) \/ ResumeCommand(c)
      PROVE  OwnerInv'
  <2>1. Advance(c) /\ Owned /\ case' = case
    BY <1>0, <1>2, ConfigAdvances, SessionAside, PromptAside, MutationAside, ResumeStep
       DEF Aside, Settled, Owned, fixed, registry
  <2>. QED BY <2>1, AdvanceClaims, ClaimsKept DEF Owned
<1>3. ASSUME NEW c \in Conns, CloseCommand(c) PROVE OwnerInv'
  <2>1. /\ Advance(c) /\ case' = case
        /\ \/ Owned
           \/ /\ Unclaimed(cmd[c].s)
              /\ owner' = owner \/ owner' = [owner EXCEPT ![cmd[c].s] = "none"]
    BY <1>0, <1>3, CloseAside DEF Aside, Settled
  <2>. QED BY <2>1, AdvanceClaims, ClaimsKept, UnclaimedKept DEF Owned
<1>4. ASSUME NEW c \in Conns, Boundary(c) PROVE OwnerInv'
  <2>0. Turn(c) /\ case'.who = case.who /\ PutLate(cmd[c]) /\ PutLate(cmd[c])'
    BY <1>4, BoundaryStep DEF CommandInv
  <2>1. CASE \E op \in Ops : Start(c, op)
    <3>1. cmd'[c].pc = "start" /\ cmd'[c].put = FALSE /\ UNCHANGED <<owner, claimed, bound>>
      BY <1>0, <2>1, StartTurn
    <3>. QED BY <2>0, <3>1, ClaimsKept DEF Turn, NoneRegisters
  <2>2. CASE Ack(c)
    <3>1. cmd'[c].pc = "idle" /\ cmd'[c].put = FALSE BY <1>0, <2>2 DEF Ack, NoCmd, Typed
    <3>2. UNCHANGED <<owner, claimed>> BY <2>2 DEF Ack
    <3>3. CASE bound' = bound BY <2>0, <3>1, <3>2, <3>3, ClaimsKept DEF Turn, NoneRegisters
    <3>4. CASE /\ cmd[c].put /\ claimed[cmd[c].s] = c /\ Device(c)
               /\ bound' = [bound EXCEPT ![cmd[c].s] = Who(c)]
      <4>1. \A s \in Sids : bound'[s] # "none" => owner'[s] = bound'[s]
        BY <2>2, <3>2, <3>4 DEF OwnerInv, ClaimTrue, Ack
      <4>2. \A d \in Conns, s \in Sids : ClaimTrue(d, s)'
        BY <2>0, <3>1, <3>2, <3>4 DEF OwnerInv, ClaimTrue, Turn, Device, Who
      <4>. QED BY <3>2, <3>4, <4>1, <4>2 DEF OwnerInv
    <3>. QED BY <2>2, <3>3, <3>4 DEF Ack
  <2>3. CASE Insert(c)
    <3>1. cmd'[c].pc = "own" /\ cmd'[c].s = cmd[c].s BY <1>0, <2>3 DEF Insert, Typed, Fields
    <3>2. /\ owner' = owner /\ claimed' = [claimed EXCEPT ![cmd[c].s] = c]
          /\ bound' = bound
      BY <2>3 DEF Insert
    <3>3. \A d \in Conns, s \in Sids : ClaimTrue(d, s)'
      BY <2>0, <3>1, <3>2 DEF OwnerInv, ClaimTrue, Turn, Device, Who
    <3>. QED BY <3>2, <3>3 DEF OwnerInv
  <2>4. CASE SetOwner(c)
    <3>1. cmd[c].pc = "own" /\ cmd'[c].pc = "done" /\ cmd'[c].s = cmd[c].s
      BY <1>0, <2>4 DEF SetOwner, Answer, Typed, Fields
    <3>2. owner' = [owner EXCEPT ![cmd[c].s] = OwnerAfter(c)] BY <2>4 DEF SetOwner
    <3>3. CASE claimed[cmd[c].s] = c
      <4>1. /\ claimed' = claimed
            /\ \/ bound' = bound /\ ~TakesOver(c)
               \/ bound' = [bound EXCEPT ![cmd[c].s] = "none"]
        BY <2>4, <3>3 DEF SetOwner
      <4>2. \A s \in Sids : bound'[s] # "none" => owner'[s] = bound'[s]
        BY <3>2, <4>1 DEF OwnerInv, TakesOver, OwnerAfter
      <4>3. \A d \in Conns, s \in Sids : ClaimTrue(d, s)'
        BY <2>0, <3>1, <3>2, <3>3, <4>1 DEF OwnerInv, ClaimTrue, Turn, Device, Who, OwnerAfter
      <4>4. DOMAIN owner' = Sids /\ DOMAIN claimed' = Sids /\ DOMAIN bound' = Sids
        BY <3>2, <4>1 DEF OwnerInv
      <4>. QED BY <4>2, <4>3, <4>4 DEF OwnerInv
    <3>4. CASE claimed[cmd[c].s] # c
      <4>1. Unclaimed(cmd[c].s) BY <2>4, <3>4 DEF SetOwner
      <4>2. /\ DOMAIN owner' = Sids /\ DOMAIN claimed' = Sids /\ DOMAIN bound' = Sids
            /\ \A r \in Sids : r # cmd[c].s =>
                 owner'[r] = owner[r] /\ claimed'[r] = claimed[r] /\ bound'[r] = bound[r]
            /\ cmd[c].s \in Sids => claimed'[cmd[c].s] = "none" /\ bound'[cmd[c].s] = "none"
        BY <3>2, <4>1 DEF Unclaimed, OwnerInv
      <4>3. "none" \notin Conns BY CaseAssumption
      <4>4. \A d \in Conns, s \in Sids : ClaimTrue(d, s)'
        BY <2>0, <3>1, <3>4, <4>2, <4>3 DEF OwnerInv, ClaimTrue, Turn, Device, Who
      <4>. QED BY <4>2, <4>4 DEF OwnerInv
    <3>. QED BY <3>3, <3>4
  <2>. QED BY <1>4, <2>1, <2>2, <2>3, <2>4 DEF Boundary
<1>. QED BY <1>1, <1>2, <1>3, <1>4, NextCases

LEMMA InitOwnerInv ==
  ASSUME WInit
  PROVE  OwnerInv
<1>1. /\ cmd = [c \in Conns |-> NoCmd] /\ owner = [s \in Sids |-> "none"]
      /\ claimed = [s \in Sids |-> "none"] /\ bound = [s \in Sids |-> "none"]
  BY DEF WInit, Init
<1>2. NoCmd.pc = "idle" BY DEF NoCmd
<1>. QED BY <1>1, <1>2 DEF OwnerInv, ClaimTrue

LEMMA BoundHolds == ASSUME OwnerInv PROVE BoundToSpawner
BY DEF OwnerInv, BoundToSpawner, OwnerAuthorized

\* A session that a device was told is its own is authorised for nobody else while
\* it is registered and no other device has taken it over by a native resume,
\* between any number of creations, resumes, closes and the reaper (set_owner,
\* SessionRegistry::remove, is_owner_authorized).
THEOREM OwnersStayBound == WSpec => []BoundToSpawner
<1>1. WInit => OwnerInv BY InitOwnerInv
<1>2. CommandInv /\ OwnerInv /\ [WNext]_wvars => OwnerInv' BY NextOwnerInv
<1>. QED BY <1>1, <1>2, CommandSafety, BoundHolds, PTL DEF WSpec

-----------------------------------------------------------------------------
(* agents.toml.                                                             *)

InWrite(c) == At(c, "add", "write") \/ At(c, "add", "fill")

\* What is about to be written was validated, and a write that is alone finds
\* the file as it left it.
LoadInv ==
  /\ \A c \in Conns : InWrite(c) => Loads(cmd[c].text)
  /\ spoiled = {} => /\ \A c, d \in Conns : At(c, "add", "fill") /\ At(d, "add", "fill") => c = d
                     /\ Writing => toml = << >>
  /\ AgentsFileLoads

\* No write begins, moves or ends.
NoWrites == \A c \in Conns : cmd'[c] = cmd[c] \/ (~InWrite(c) /\ ~InWrite(c)')

LEMMA LoadKept ==
  ASSUME LoadInv, UNCHANGED <<toml, spoiled>>, NoWrites
  PROVE  LoadInv'
BY DEF LoadInv, NoWrites, InWrite, At, Writing, AgentsFileLoads

LEMMA TurnWrites ==
  ASSUME NEW c \in Conns, Turn(c), ~InWrite(c), ~InWrite(c)'
  PROVE  NoWrites
BY DEF Turn, NoWrites

LEMMA BoundaryWrites ==
  ASSUME CommandInv, NEW c \in Conns, Boundary(c)
  PROVE  UNCHANGED <<toml, spoiled>> /\ NoWrites
<1>0. Typed BY DEF CommandInv
<1>1. Turn(c) /\ UNCHANGED <<toml, spoiled>> BY BoundaryStep
<1>2. CASE \E op \in Ops : Start(c, op)
  <2>1. cmd[c].pc = "idle" /\ cmd'[c].pc = "start" BY <1>0, <1>2, StartTurn
  <2>. QED BY <1>1, <2>1, TurnWrites DEF InWrite, At
<1>3. CASE Ack(c)
  <2>1. cmd[c].pc = "done" /\ cmd'[c].pc = "idle" BY <1>0, <1>3 DEF Ack, NoCmd, Typed
  <2>. QED BY <1>1, <2>1, TurnWrites DEF InWrite, At
<1>4. CASE Insert(c)
  <2>1. cmd[c].pc = "insert" /\ cmd'[c].pc = "own" BY <1>0, <1>4 DEF Insert, Typed, Fields
  <2>. QED BY <1>1, <2>1, TurnWrites DEF InWrite, At
<1>5. CASE SetOwner(c)
  <2>1. cmd[c].pc = "own" /\ cmd'[c].pc = "done" BY <1>0, <1>5 DEF SetOwner, Answer, Typed, Fields
  <2>. QED BY <1>1, <2>1, TurnWrites DEF InWrite, At
<1>. QED BY <1>2, <1>3, <1>4, <1>5 DEF Boundary

\* Of the configuration commands only registry.add writes.
LEMMA ConfigLoads ==
  ASSUME Typed, LoadInv, NEW c \in Conns, ConfigCommand(c)
  PROVE  LoadInv'
<1>0. Advance(c) /\ Turn(c) BY ConfigAdvances DEF Advance
<1>1. ASSUME cmd[c].op # "add" \/ cmd[c].pc \in {"start", "append"},
             cmd'[c].op # "add" \/ cmd'[c].pc \in {"append", "done"}, UNCHANGED <<toml, spoiled>>
      PROVE  LoadInv'
  <2>1. ~InWrite(c) /\ ~InWrite(c)' BY <1>1 DEF InWrite, At
  <2>. QED BY <1>0, <1>1, <2>1, TurnWrites, LoadKept
<1>2. CASE AddRead(c)
  <2>1. UNCHANGED <<toml, spoiled>> BY <1>2 DEF AddRead, config
  <2>. QED BY <1>1, <1>2, <2>1, GoAdvances, AnswerAdvances DEF AddRead, At
<1>3. CASE AddAppend(c)
  <2> DEFINE text == Append(toml, Entry(cmd[c].id, TRUE, "acp", 0))
  <2>. HIDE DEF text
  <2>0. UNCHANGED <<toml, spoiled>> /\ At(c, "add", "append") BY <1>3 DEF AddAppend, config
  <2>1. CASE Loads(text) /\ cmd' = [cmd EXCEPT ![c].pc = "write", ![c].text = text]
    <3>1. cmd'[c].pc = "write" /\ cmd'[c].text = text BY <2>1 DEF Typed, Fields
    <3>2. \A d \in Conns : InWrite(d)' => Loads(cmd'[d].text)
      BY <1>0, <2>1, <3>1 DEF LoadInv, InWrite, At, Turn
    <3>3. \A d \in Conns : At(d, "add", "fill")' <=> At(d, "add", "fill")
      BY <1>0, <2>0, <3>1 DEF At, Turn
    <3>4. Writing' <=> Writing BY <3>3 DEF Writing
    <3>. QED BY <2>0, <3>2, <3>3, <3>4 DEF LoadInv, AgentsFileLoads
  <2>2. CASE Answer(c, "append_failed") BY <1>1, <2>0, <2>2, AnswerAdvances DEF At
  <2>. QED BY <1>3, <2>1, <2>2 DEF AddAppend, Mergeable, text
<1>4. CASE AddTruncate(c)
  <2>1. /\ At(c, "add", "write") /\ toml' = << >>
        /\ spoiled' = {} => spoiled = {} /\ ~Writing
    BY <1>4 DEF AddTruncate, Spoils
  <2>2. cmd'[c].pc = "fill" /\ cmd'[c].text = cmd[c].text /\ cmd'[c].op = "add"
    BY <1>0, <1>4, <2>1, GoAdvances DEF AddTruncate, At, Advance
  <2>3. Writing' BY <2>2 DEF Writing, At
  <2>4. \A d \in Conns : InWrite(d)' => Loads(cmd'[d].text)
    BY <1>0, <2>1, <2>2 DEF LoadInv, InWrite, At, Turn
  <2>5. spoiled' = {} => \A b, d \in Conns : At(b, "add", "fill")' /\ At(d, "add", "fill")' => b = d
    <3>. QED BY <1>0, <2>1 DEF Writing, At, Turn
  <2>. QED BY <2>1, <2>3, <2>4, <2>5 DEF LoadInv, AgentsFileLoads
<1>5. CASE AddFill(c)
  <2>1. At(c, "add", "fill") /\ spoiled' = spoiled
        /\ toml' \in {cmd[c].text} \cup (IF toml = << >> THEN {} ELSE {Append(cmd[c].text, Junk)})
    BY <1>5 DEF AddFill
  <2>2. cmd'[c].pc = "done" BY <1>5, <2>1, AnswerAdvances DEF AddFill, At
  <2>3. \A d \in Conns : InWrite(d)' => Loads(cmd'[d].text)
    BY <1>0, <2>2 DEF LoadInv, InWrite, At, Turn
  <2>4. ASSUME spoiled = {} PROVE ~Writing' /\ Loads(toml')
    <3>1. toml = << >> /\ \A d \in Conns : At(d, "add", "fill") => d = c
      BY <2>1, <2>4 DEF LoadInv, Writing
    <3>2. toml' = cmd[c].text BY <2>1, <3>1
    <3>3. Loads(cmd[c].text) BY <2>1 DEF LoadInv, InWrite
    <3>4. ~Writing' BY <1>0, <2>2, <3>1 DEF Writing, At, Turn
    <3>. QED BY <3>2, <3>3, <3>4
  <2>. QED BY <2>1, <2>3, <2>4 DEF LoadInv, AgentsFileLoads, Writing
<1>6. CASE \/ ReloadRead(c) \/ ReloadSwap(c) \/ Sync(c) \/ SyncFails(c)
           \/ ConfigLoad(c) \/ ConfigSwap(c) \/ ConfigValidate(c)
  <2>1. UNCHANGED <<toml, spoiled>> /\ cmd[c].op # "add"
    BY <1>6 DEF ReloadRead, ReloadSwap, Sync, SyncFails, ConfigLoad, ConfigSwap, ConfigValidate, config, At
  <2>2. cmd'[c].op # "add" BY <1>0, <2>1 DEF Advance
  <2>. QED BY <1>1, <2>1, <2>2
<1>7. CASE AddNoFile(c) \/ AddFails(c)
  <2>1. UNCHANGED <<toml, spoiled>> BY <1>7 DEF AddNoFile, AddFails, config
  <2>2. cmd'[c].pc = "done" /\ \A d \in Conns : d # c => cmd'[d] = cmd[d]
    BY <1>0, <1>7, AnswerAdvances DEF AddNoFile, AddFails, Turn, At
  <2>3. \A d \in Conns : At(d, "add", "fill")' <=> At(d, "add", "fill")
    BY <1>7, <2>2 DEF AddNoFile, AddFails, At
  <2>4. \A d \in Conns : InWrite(d)' => InWrite(d) /\ cmd'[d].text = cmd[d].text
    BY <2>2 DEF InWrite, At
  <2>5. Writing' <=> Writing BY <2>3 DEF Writing
  <2>. QED BY <2>1, <2>3, <2>4, <2>5 DEF LoadInv, AgentsFileLoads
<1>8. CASE AddFillFails(c)
  <2>1. spoiled' # {} BY <1>8 DEF AddFillFails, Spoils
  <2>2. cmd'[c].pc = "done" BY <1>8, AnswerAdvances DEF AddFillFails, At
  <2>3. \A d \in Conns : InWrite(d)' => Loads(cmd'[d].text)
    BY <1>0, <2>2 DEF LoadInv, InWrite, At, Turn
  <2>. QED BY <2>1, <2>3 DEF LoadInv, AgentsFileLoads
<1>. QED BY <1>2, <1>3, <1>4, <1>5, <1>6, <1>7, <1>8 DEF ConfigCommand

LEMMA NextLoadInv ==
  ASSUME CommandInv, LoadInv, [WNext]_wvars
  PROVE  LoadInv'
<1>0. Typed BY DEF CommandInv
<1>1. CASE Around
  <2>1. cmd' = cmd /\ NoWrites BY <1>1, AroundStep DEF NoWrites
  <2>2. CASE UNCHANGED <<toml, spoiled>> BY <2>1, <2>2, LoadKept
  <2>3. CASE Spoils("operator", ~Loads(toml') \/ Writing)
    <3>1. spoiled' = {} => spoiled = {} /\ Loads(toml') /\ ~Writing BY <2>3 DEF Spoils
    <3>. QED BY <2>1, <3>1 DEF LoadInv, InWrite, At, Writing, AgentsFileLoads
  <2>. QED BY <1>1, <2>2, <2>3 DEF Around, OperatorEdits, ProfileEdited, Dies, ReapScan, TurnEnds,
         ReapDrop, ReapDisown, wvars, vars, config
<1>2. ASSUME NEW c \in Conns, ConfigCommand(c) PROVE LoadInv'
  BY <1>0, <1>2, ConfigLoads
<1>3. ASSUME NEW c \in Conns,
             SessionCommand(c) \/ CloseCommand(c) \/ PromptCommand(c) \/ MutationCommand(c) \/ ResumeCommand(c)
      PROVE  LoadInv'
  <2>1. Advance(c) /\ Settled /\ cmd[c].op # "add"
    BY <1>0, <1>3, SessionAside, CloseAside, PromptAside, MutationAside, ResumeStep DEF Aside, ConfigOps
  <2>2. NoWrites BY <2>1, TurnWrites DEF Advance, InWrite, At
  <2>. QED BY <2>1, <2>2, LoadKept DEF Settled
<1>4. ASSUME NEW c \in Conns, Boundary(c) PROVE LoadInv'
  BY <1>4, BoundaryWrites, LoadKept
<1>. QED BY <1>1, <1>2, <1>3, <1>4, NextCases

LEMMA InitLoadInv ==
  ASSUME WInit
  PROVE  LoadInv
<1>1. cmd = [c \in Conns |-> NoCmd] /\ toml = Installed BY DEF WInit, Init, ConfigInit
<1>2. NoCmd.pc = "idle" BY DEF NoCmd
<1>3. Loads(toml) BY <1>1, ConfigAssumption
<1>. QED BY <1>1, <1>2, <1>3 DEF LoadInv, InWrite, At, Writing, AgentsFileLoads

\* agents.toml loads whenever nobody is inside a write of it, for any number of
\* clients that add agents at once, unless two writes met, one failed after it had
\* truncated the file, or the operator saved a text that does not load
\* (append_agent_to_config).
THEOREM AddKeepsFile == WSpec => []AgentsFileLoads
<1>1. WInit => LoadInv BY InitLoadInv
<1>2. CommandInv /\ LoadInv /\ [WNext]_wvars => LoadInv' BY NextLoadInv
<1>3. LoadInv => AgentsFileLoads BY DEF LoadInv
<1>. QED BY <1>1, <1>2, <1>3, CommandSafety, PTL DEF WSpec

-----------------------------------------------------------------------------
(* The file under a mutation.                                               *)

\* The replacement is there at most once, and then the anchor is gone.
Once(f) == f.anchor \in Nat /\ f.new \in {0, 1} /\ (f.new = 1 => f.anchor = 0)

Editing(c) == At(c, "approve", "write") \/ At(c, "approve", "fill")

Applying(c) == At(c, "approve", "apply") \/ Editing(c)

\* An approval names one of the changes, and its id was asked for before.
ApprovalTyped(k) ==
  k.op = "approve" => k.id \in Inputs("approve") /\ (k.pc = "apply" => k.id # "no_id")

EditInv ==
  /\ \A c \in Conns : ApprovalTyped(cmd[c])
  /\ ~mixed => Once(file) /\ \A c \in Conns : Editing(c) => Once(cmd[c].text[1])

\* No approval begins, moves or ends applying.
NoneApplies ==
  \A c \in Conns : cmd'[c] = cmd[c] \/ (~Applying(c) /\ ~Applying(c)' /\ ApprovalTyped(cmd[c])')

LEMMA EditKept ==
  ASSUME EditInv, Untouched, NoneApplies
  PROVE  EditInv'
BY DEF EditInv, Untouched, NoneApplies, Applying, Editing, At, ApprovalTyped, Inputs

LEMMA TurnApplies ==
  ASSUME NEW c \in Conns, Turn(c), ~Applying(c), ~Applying(c)', ApprovalTyped(cmd[c])'
  PROVE  NoneApplies
BY DEF Turn, NoneApplies

LEMMA OtherApplies ==
  ASSUME NEW c \in Conns, Advance(c), cmd[c].op # "approve"
  PROVE  NoneApplies
<1>1. Turn(c) /\ cmd'[c].op # "approve" BY DEF Advance
<1>. QED BY <1>1, TurnApplies DEF Applying, Editing, At, ApprovalTyped

\* The checks of an approval come before.
LEMMA SessionApplies ==
  ASSUME CommandInv, EditInv, NEW c \in Conns, SessionCommand(c)
  PROVE  NoneApplies
<1>0. Typed /\ Advance(c) BY SessionAside DEF CommandInv, Aside
<1>1. CASE cmd[c].op # "approve" BY <1>0, <1>1, OtherApplies
<1>2. CASE cmd[c].op = "approve"
  <2>1. EnforceTool(c) \/ OwnerCheck(c)
    BY <1>2 DEF SessionCommand, EnforceProtocol, EnforceRefused, ModeSet, ConfigOptionSet, AskAgent,
         Authenticate, CreateCheck, CreateSpawn, CreateFails, List, At, ProtoOps
  <2>2. CASE EnforceTool(c)
    <3>1. cmd[c].pc = "start" /\ ((\E ans : Answer(c, ans)) \/ Go(c, "owner")) BY <2>2 DEF EnforceTool
    <3>2. cmd'[c].pc \in {"done", "owner"} BY <1>0, <3>1, GoAdvances, AnswerAdvances
    <3>. QED BY <1>0, <3>1, <3>2, TurnApplies DEF Applying, Editing, At, Advance, EditInv, ApprovalTyped
  <2>3. CASE OwnerCheck(c)
    <3>1. cmd[c].pc = "owner" /\ cmd'[c].pc \in {"done", "run"}
      BY <1>0, <2>3, ReplyAdvances, ProceedAdvances DEF OwnerCheck
    <3>. QED BY <1>0, <3>1, TurnApplies DEF Applying, Editing, At, Advance, EditInv, ApprovalTyped
  <2>. QED BY <2>1, <2>2, <2>3
<1>. QED BY <1>1, <1>2

LEMMA BoundaryApplies ==
  ASSUME CommandInv, EditInv, NEW c \in Conns, Boundary(c)
  PROVE  NoneApplies
<1>0. Typed /\ Turn(c) BY BoundaryStep DEF CommandInv
<1>1. ASSUME NEW op \in Ops, Start(c, op) PROVE NoneApplies
  <2>1. cmd[c].pc = "idle" /\ cmd'[c].pc = "start" /\ cmd'[c].op = op /\ cmd'[c].id \in Inputs(op)
    BY <1>0, <1>1, StartTurn
  <2>2. Inputs("approve")' = Inputs("approve") BY DEF Inputs
  <2>3. ApprovalTyped(cmd[c])' BY <2>1, <2>2 DEF ApprovalTyped
  <2>. QED BY <1>0, <2>1, <2>3, TurnApplies DEF Applying, Editing, At
<1>2. CASE Ack(c)
  <2>1. cmd[c].pc = "done" /\ cmd'[c].pc = "idle" /\ cmd'[c].op = "none"
    BY <1>0, <1>2 DEF Ack, NoCmd, Typed
  <2>. QED BY <1>0, <2>1, TurnApplies DEF Applying, Editing, At, ApprovalTyped
<1>3. CASE Insert(c)
  <2>1. /\ cmd[c].pc = "insert" /\ cmd'[c].pc = "own" /\ cmd'[c].op = cmd[c].op /\ cmd'[c].id = cmd[c].id
    BY <1>0, <1>3 DEF Insert, Typed, Fields
  <2>. QED BY <1>0, <2>1, TurnApplies DEF Applying, Editing, At, ApprovalTyped, EditInv
<1>4. CASE SetOwner(c)
  <2>1. /\ cmd[c].pc = "own" /\ cmd'[c].pc = "done" /\ cmd'[c].op = cmd[c].op /\ cmd'[c].id = cmd[c].id
    BY <1>0, <1>4 DEF SetOwner, Answer, Typed, Fields
  <2>. QED BY <1>0, <2>1, TurnApplies DEF Applying, Editing, At, ApprovalTyped, EditInv
<1>. QED BY <1>1, <1>2, <1>3, <1>4 DEF Boundary

\* Applying.
LEMMA MutationKeeps ==
  ASSUME CommandInv, EditInv, NEW c \in Conns, MutationCommand(c)
  PROVE  EditInv'
<1>0. Typed /\ Advance(c) /\ Turn(c) /\ cmd'[c].op = "approve" /\ cmd'[c].id = cmd[c].id
      /\ cmd[c].id \in Inputs("approve") /\ cmd[c].op = "approve"
  BY MutationAside DEF CommandInv, Aside, Advance, EditInv, ApprovalTyped
<1>1. ASSUME cmd'[c].pc = "apply" => cmd[c].id # "no_id" PROVE \A d \in Conns : ApprovalTyped(cmd[d])'
  BY <1>0, <1>1 DEF EditInv, ApprovalTyped, Turn, Inputs
<1>2. ASSUME cmd'[c].pc \in {"done", "apply", "fill"}, cmd'[c].pc = "apply" => cmd[c].id # "no_id",
             cmd'[c].pc = "fill" => Editing(c) /\ cmd'[c].text = cmd[c].text,
             ~mixed' => ~mixed /\ Once(file')
      PROVE  EditInv'
  BY <1>0, <1>1, <1>2 DEF EditInv, Editing, At, Turn
<1>3. CASE Approve(c)
  <2>1. Untouched BY <1>3 DEF Approve, Say, workspace, Untouched
  <2>2. cmd'[c].pc \in {"done", "apply"} /\ (cmd'[c].pc = "apply" => cmd[c].id # "no_id")
    BY <1>0, <1>3, ReplyAdvances, ProceedAdvances DEF Approve, Say, At
  <2>. QED BY <1>2, <2>1, <2>2 DEF Untouched, EditInv
<1>4. CASE ApplyRead(c)
  <2>0. At(c, "approve", "apply") /\ Untouched /\ cmd[c].id # "delete" /\ cmd[c].id # "no_id"
    BY <1>4 DEF ApplyRead, workspace, Untouched, EditInv, ApprovalTyped, At
  <2>1. CASE ApplyRefusal(c) # "none"
    <3>1. cmd'[c].pc = "done" BY <1>0, <1>4, <2>0, <2>1, AnswerAdvances DEF ApplyRead, At
    <3>. QED BY <1>2, <2>0, <3>1 DEF Untouched, EditInv
  <2>2. CASE ApplyRefusal(c) = "none"
    <3> DEFINE f == IF cmd[c].id = "write" THEN File(1, 0) ELSE File(file.anchor - 1, file.new + 1)
    <3>1. cmd' = [cmd EXCEPT ![c].pc = "write", ![c].text = <<f>>] BY <1>4, <2>2 DEF ApplyRead
    <3>2. cmd[c].id = "write" \/ cmd[c].id = "edit"
      BY <1>0, <2>0, <2>2 DEF Inputs, ApplyRefusal
    <3>3. ASSUME ~mixed PROVE Once(f)
      <4>1. CASE cmd[c].id = "write"
        BY <4>1 DEF Once, File
      <4>2. CASE cmd[c].id = "edit"
        <5>1. AnchorRefusal(file) = "none" BY <2>2, <4>2 DEF ApplyRefusal
        <5>2. Once(file) BY <3>3 DEF EditInv
        <5>3. file.anchor = 1 /\ file.new = 0 BY <5>1, <5>2 DEF AnchorRefusal, Once
        <5>. QED BY <4>2, <5>3 DEF Once, File
      <4>. QED BY <3>2, <4>1, <4>2
    <3>. HIDE DEF f
    <3>4. cmd'[c].pc = "write" /\ cmd'[c].text = <<f>> BY <1>0, <3>1 DEF Typed, Fields
    <3>5. \A d \in Conns : ApprovalTyped(cmd[d])' BY <1>1, <3>4
    <3>6. ASSUME ~mixed, NEW d \in Conns, Editing(d)' PROVE Once(cmd'[d].text[1])
      <4>1. CASE d = c BY <3>3, <3>4, <3>6, <4>1
      <4>2. CASE d # c BY <1>0, <3>6, <4>2 DEF Turn, EditInv, Editing, At
      <4>. QED BY <4>1, <4>2
    <3>. QED BY <2>0, <3>5, <3>6 DEF EditInv, Untouched
  <2>. QED BY <2>1, <2>2
<1>5. CASE ApplyDelete(c)
  <2>1. CASE Untouched /\ \E ans : Reply(c, ans)
    <3>1. cmd'[c].pc = "done" BY <1>0, <1>5, <2>1, ReplyAdvances DEF ApplyDelete, At
    <3>. QED BY <1>2, <2>1, <3>1 DEF Untouched, EditInv
  <2>2. CASE file' = NoFile /\ mixed' = (mixed \/ Filling) /\ Reply(c, "applied")
    <3>1. cmd'[c].pc = "done" BY <1>0, <1>5, <2>2, ReplyAdvances DEF ApplyDelete, At
    <3>2. Once(NoFile) BY DEF Once, NoFile
    <3>. QED BY <1>2, <2>2, <3>1, <3>2
  <2>. QED BY <1>5, <2>1, <2>2 DEF ApplyDelete, Say, workspace, Untouched
<1>6. CASE ApplyTruncate(c)
  <2>1. cmd'[c].pc = "fill" /\ cmd'[c].text = cmd[c].text /\ Editing(c)
    BY <1>0, <1>6, ProceedAdvances DEF ApplyTruncate, At, Editing
  <2>2. file' = File(0, 0) /\ (~mixed' => ~mixed) BY <1>6 DEF ApplyTruncate
  <2>3. Once(File(0, 0)) BY DEF Once, File
  <2>. QED BY <1>2, <2>1, <2>2, <2>3
<1>7. CASE ApplyFill(c)
  <2>1. cmd'[c].pc = "done" /\ Editing(c)
    BY <1>0, <1>7, ReplyAdvances DEF ApplyFill, At, Editing
  <2>2. mixed' = mixed BY <1>7 DEF ApplyFill
  <2>3. ~mixed => file' = cmd[c].text[1] BY <1>7 DEF ApplyFill
  <2>. QED BY <1>2, <2>1, <2>2, <2>3 DEF EditInv
<1>8. CASE ApplyFails(c)
  <2>1. cmd'[c].pc = "done" /\ Untouched
    BY <1>0, <1>8, ReplyAdvances DEF ApplyFails, Say, workspace, Untouched
  <2>. QED BY <1>2, <2>1 DEF Untouched, EditInv
<1>. QED BY <1>3, <1>4, <1>5, <1>6, <1>7, <1>8 DEF MutationCommand

LEMMA NextEditInv ==
  ASSUME CommandInv, EditInv, [WNext]_wvars
  PROVE  EditInv'
<1>0. Typed BY DEF CommandInv
<1>1. CASE Around /\ (UNCHANGED workspace \/ \E s \in Sids : TurnEnds(s))
  <2>1. NoneApplies BY <1>1, AroundStep DEF NoneApplies
  <2>2. Untouched BY <1>1 DEF TurnEnds, workspace, Untouched
  <2>. QED BY <2>1, <2>2, EditKept
<1>2. ASSUME NEW c \in Conns,
             \/ /\ ConfigCommand(c) \/ CloseCommand(c) \/ ResumeCommand(c)
                /\ UNCHANGED workspace
             \/ PromptCommand(c)
      PROVE  EditInv'
  <2>1. Advance(c) /\ cmd[c].op # "approve"
    BY <1>0, <1>2, ConfigAdvances, CloseAside, ResumeStep, PromptAside
       DEF Aside, ConfigOps, CloseCommand, CloseRemove, CloseDisown, At
  <2>2. Untouched BY <1>0, <1>2, PromptAside DEF workspace, Untouched
  <2>. QED BY <2>1, <2>2, OtherApplies, EditKept
<1>3. ASSUME NEW c \in Conns, SessionCommand(c) \/ Boundary(c), UNCHANGED workspace PROVE EditInv'
  BY <1>3, SessionApplies, BoundaryApplies, EditKept DEF workspace, Untouched
<1>4. ASSUME NEW c \in Conns, MutationCommand(c) PROVE EditInv'
  BY <1>4, MutationKeeps
<1>. QED BY <1>1, <1>2, <1>3, <1>4, NextCases

LEMMA InitEditInv ==
  ASSUME WInit
  PROVE  EditInv
<1>1. case \in Cases /\ cmd = [c \in Conns |-> NoCmd] /\ file \in case.files BY DEF WInit, Init
<1>2. file \in [there : BOOLEAN, anchor : Nat, new : {0}] BY <1>1, FileAssumption
<1>3. NoCmd.op = "none" BY DEF NoCmd
<1>. QED BY <1>1, <1>2, <1>3 DEF EditInv, ApprovalTyped, Editing, At, Once

\* However often, and by however many, one edit is approved, its replacement is in
\* the file at most once, unless two changes were inside the file at the same time
\* (mutation_apply_to_project).
THEOREM EditAppliesOnce == WSpec => []EditOnce
<1>1. WInit => EditInv BY InitEditInv
<1>2. CommandInv /\ EditInv /\ [WNext]_wvars => EditInv' BY NextEditInv
<1>3. EditInv => EditOnce BY DEF EditInv, EditOnce, Once
<1>. QED BY <1>1, <1>2, <1>3, CommandSafety, PTL DEF WSpec
=============================================================================
