--------------------------- MODULE Agent_proofs -----------------------------
(****************************************************************************)
(* Proofs about one agent.  First its requests and the nesting of its tasks *)
(* (AcpAgent, ToolActivity), for any number of requests, terminals,         *)
(* notifications and sub-sessions, any capacity of the channels and any     *)
(* depth cap; then the meta row of a session whose agents come and go       *)
(* (SessionLifecycle), for any number of connections and children.          *)
(*                                                                          *)
(* PendingIsWaiting is not inductive: a request may be answered between its *)
(* registration and its write, and what its rpc() then does rests on        *)
(* `res`, so PendingInv also says that one without an answer still has its  *)
(* entry, and what lines the reader may find (Wired).  NestingIsTrue needs  *)
(* that no task is on the stack twice: retain takes all of an ended task's  *)
(* entries, and Exit one.  StampRestored is kept by every step once the row *)
(* and the commands' copies of it are records (StampInv).                   *)
(****************************************************************************)
EXTENDS ToolActivity, SessionLifecycle, SequenceTheorems, WellFoundedInduction, TLAPS

AllVars == <<vars, activity>>

ActivityStep == (Next /\ UNCHANGED activity) \/ ActivityNext \/ UNCHANGED AllVars

-----------------------------------------------------------------------------
(* What travels from the agent to the pump.                                 *)

Lines ==
  [kind : {"answer"}, id : Calls, res : {"ok", "error"}]
    \cup [kind : {"request"}, id : Reqs, res : {"none"}]
    \cup [kind : {"garbage"}, id : {0}, res : {"none"}]
    \cup [kind : {"update"}, id : Frames, res : {"none"}]

Wired == out \in Seq(Lines) /\ upd \in Seq(Frames)

\* The agent writes a line.
LEMMA SayKeeps ==
  ASSUME Wired, NEW line \in Lines, Say(line), upd' = upd
  PROVE  Wired'
BY DEF Wired, Say

LEMMA NextWired ==
  ASSUME Wired, ActivityStep
  PROVE  Wired'
<1>1. ASSUME out' = out, upd' = upd PROVE Wired'
  BY <1>1 DEF Wired
<1>2. ASSUME out # << >>, out' = Tail(out), upd' = upd PROVE Wired'
  BY <1>2 DEF Wired
<1>3. CASE Next /\ UNCHANGED activity
  <2>0. upd' = upd BY <1>3 DEF activity
  <2>1. CASE \E c \in Calls : Register(c) \/ WriteRequest(c) \/ Timeout(c) \/ Abandon(c)
    BY <1>1, <2>0, <2>1 DEF Register, WriteRequest, Timeout, Abandon
  <2>2. CASE Write BY <1>1, <2>0, <2>2 DEF Write
  <2>3. ASSUME NEW c \in Calls, NEW res \in {"ok", "error"}, AgentAnswers(c, res) PROVE Wired'
    <3>1. [kind |-> "answer", id |-> c, res |-> res] \in Lines BY DEF Lines
    <3>. QED BY <2>0, <2>3, <3>1, SayKeeps DEF AgentAnswers
  <2>4. ASSUME NEW i \in Reqs, NEW t \in Terminals, NEW what \in Ops, NEW form \in Forms,
               AgentAsks(i, what, t, form)
        PROVE  Wired'
    <3>1. [kind |-> "request", id |-> i, res |-> "none"] \in Lines BY DEF Lines
    <3>. QED BY <2>0, <2>4, <3>1, SayKeeps DEF AgentAsks
  <2>5. CASE AgentGarbles
    <3>1. [kind |-> "garbage", id |-> 0, res |-> "none"] \in Lines BY DEF Lines
    <3>. QED BY <2>0, <2>5, <3>1, SayKeeps DEF AgentGarbles
  <2>6. CASE AgentExits BY <1>1, <2>0, <2>6 DEF AgentExits
  <2>7. CASE ReadAnswer \/ ReadRequest
    BY <1>2, <2>0, <2>7 DEF ReadAnswer, ReadRequest
  <2>8. CASE ReadEof BY <1>1, <2>0, <2>8 DEF ReadEof
  <2>9. CASE ReadGarbage
    <3>1. out' = << >> BY <2>9 DEF ReadGarbage
    <3>. QED BY <2>0, <3>1 DEF Wired
  <2>10. CASE FsTask
    BY <1>1, <2>0, <2>10 DEF FsTask, FsTake, FsRead, FsWritten, FsNote, FsFailed, FsRefuse
  <2>11. CASE TermTask \/ TermWaitTimeout
    BY <1>1, <2>0, <2>11 DEF TermTask, TermTake, TermCreate, TermCreateFails, TermNotFound,
       TermOutput, TermKill, TermRelease, TermWaitFast, TermWaitLook, TermWaitStart,
       TermWaitWoken, TermWaitTimeout
  <2>12. CASE \E t \in Terminals :
                ProcessExits(t) \/ ProcessDies(t) \/ OwnerTask(t) \/ OwnerTimeout(t)
    BY <1>1, <2>0, <2>12 DEF ProcessExits, ProcessDies, OwnerTask, OwnerReap, OwnerKill,
       OwnerCollect, OwnerTimeout
  <2>. QED BY <1>3, <2>1, <2>2, <2>3, <2>4, <2>5, <2>6, <2>7, <2>8, <2>9, <2>10, <2>11, <2>12
           DEF Next, Agent, ReaderStep
<1>4. ASSUME NEW f \in Frames, AgentNotifies(f) PROVE Wired'
  <2>1. [kind |-> "update", id |-> f, res |-> "none"] \in Lines BY DEF Lines
  <2>. QED BY <1>4, <2>1, SayKeeps DEF AgentNotifies
<1>5. CASE ReadUpdate
  <2>1. out' = Tail(out) /\ out # << >> /\ Head(out).kind = "update"
    BY <1>5 DEF ReadUpdate
  <2>2. Head(out) \in Lines /\ Tail(out) \in Seq(Lines) BY <2>1 DEF Wired
  <2>3. Head(out).id \in Frames BY <2>1, <2>2 DEF Lines
  <2>4. upd \in Seq(Frames) BY DEF Wired
  <2>5. CASE Len(upd) = UpdCap
    <3>1. upd # << >> BY <2>4, <2>5, ActivityAssumption
    <3>2. upd' = Append(Tail(upd), Head(out).id) BY <1>5, <2>5 DEF ReadUpdate
    <3>3. upd' \in Seq(Frames) BY <2>3, <2>4, <3>1, <3>2
    <3>. QED BY <2>1, <2>2, <3>3 DEF Wired
  <2>6. CASE Len(upd) # UpdCap
    <3>1. upd' = Append(upd, Head(out).id) BY <1>5, <2>6 DEF ReadUpdate
    <3>2. upd' \in Seq(Frames) BY <2>3, <2>4, <3>1
    <3>. QED BY <2>1, <2>2, <3>2 DEF Wired
  <2>. QED BY <2>5, <2>6
<1>6. CASE PumpTake
  <2>1. upd # << >> /\ upd' = Tail(upd) /\ out' = out BY <1>6 DEF PumpTake, vars
  <2>. QED BY <2>1 DEF Wired
<1>7. CASE PumpEmit \/ TapConnects \/ TapDrops \/ DrainEmit
  BY <1>1, <1>7 DEF PumpEmit, TapConnects, TapDrops, DrainEmit, vars
<1>8. CASE \E s \in Subs : TapSession(s)
              \/ \E what \in {"edit", "execute", "done"} : TapTool(s, what)
  BY <1>1, <1>8 DEF TapSession, TapTool, vars
<1>9. CASE UNCHANGED AllVars BY <1>1, <1>9 DEF AllVars, vars, activity
<1>. QED BY <1>3, <1>4, <1>5, <1>6, <1>7, <1>8, <1>9 DEF ActivityStep, ActivityNext

-----------------------------------------------------------------------------
(* The pending table.                                                       *)

CallStates ==
  [pc : {"idle", "write", "wait", "done", "dropped"},
   res : {"none", "ok", "error", "closed", "timeout", "exited"}]

CallTypes == call \in [Calls -> CallStates] /\ pending \subseteq Calls

\* A registered request nothing has been heard of has its entry.
WriteHasEntry ==
  \A c \in Calls : call[c].pc = "write" /\ call[c].res = "none" => c \in pending

\* Only prompts are given up.
DroppedArePrompts == \A c \in Calls : call[c].pc = "dropped" => c \in Prompts

PendingInv == CallTypes /\ WriteHasEntry /\ DroppedArePrompts /\ PendingIsWaiting

\* A request's rpc() moves on, with its entry or without.
LEMMA SetCallKeeps ==
  ASSUME PendingInv, NEW c \in Calls, NEW pc, NEW res,
         [pc |-> pc, res |-> res] \in CallStates, SetCall(c, pc, res),
         \/ pending' = pending \ {c} /\ pc = "done"
         \/ pending' = pending \cup {c} /\ pc \in {"write", "wait"} /\ res = "none"
         \/ pending' = pending /\ c \notin pending /\ pc = "done"
         \/ pending' = pending /\ c \in Prompts /\ pc = "dropped" /\ res = "none"
  PROVE  PendingInv'
<1>1. call' = [call EXCEPT ![c] = [pc |-> pc, res |-> res]] BY DEF SetCall
<1>2. CallTypes' BY <1>1 DEF PendingInv, CallTypes
<1>3. call'[c] = [pc |-> pc, res |-> res] /\ \A d \in Calls \ {c} : call'[d] = call[d]
  BY <1>1 DEF PendingInv, CallTypes
<1>4. WriteHasEntry' BY <1>3 DEF PendingInv, WriteHasEntry
<1>5. DroppedArePrompts' BY <1>3 DEF PendingInv, DroppedArePrompts
<1>6. PendingIsWaiting' BY <1>3 DEF PendingInv, CallTypes, PendingIsWaiting
<1>. QED BY <1>2, <1>4, <1>5, <1>6 DEF PendingInv

\* The reader answers some of the pending requests.
LEMMA ResolveKeeps ==
  ASSUME PendingInv, NEW cs \in SUBSET pending, NEW res \in {"ok", "error", "exited"},
         Resolve(cs, res)
  PROVE  PendingInv'
<1>1. /\ pending' = pending \ cs
      /\ call' = [c \in Calls |-> IF c \in cs THEN Told(c, res) ELSE call[c]]
  BY DEF Resolve
<1>2. ASSUME NEW c \in Calls
      PROVE  /\ c \in cs => /\ call'[c].pc = IF call[c].pc = "wait" THEN "done" ELSE call[c].pc
                            /\ call'[c].res = res /\ call'[c] \in CallStates
             /\ c \notin cs => call'[c] = call[c] /\ call'[c] \in CallStates
  BY <1>1 DEF Told, PendingInv, CallTypes, CallStates
<1>3. CallTypes' BY <1>1, <1>2 DEF PendingInv, CallTypes
<1>4. WriteHasEntry' BY <1>1, <1>2 DEF PendingInv, CallTypes, WriteHasEntry
<1>5. DroppedArePrompts' BY <1>2 DEF PendingInv, DroppedArePrompts
<1>6. PendingIsWaiting' BY <1>1, <1>2 DEF PendingInv, CallTypes, PendingIsWaiting
<1>. QED BY <1>3, <1>4, <1>5, <1>6 DEF PendingInv

LEMMA WriteRequestKeeps ==
  ASSUME PendingInv, NEW c \in Calls, WriteRequest(c)
  PROVE  PendingInv'
<1>1. call[c] \in CallStates /\ call[c].pc = "write" BY DEF PendingInv, CallTypes, WriteRequest
<1>2. CASE writer = "run" /\ call[c].res = "none"
  <2>1. SetCall(c, "wait", "none") /\ pending' = pending /\ c \in pending
    BY <1>1, <1>2 DEF WriteRequest, PendingInv, WriteHasEntry
  <2>2. [pc |-> "wait", res |-> "none"] \in CallStates BY DEF CallStates
  <2>3. pending' = pending \cup {c} BY <2>1
  <2>. QED BY <2>1, <2>2, <2>3, SetCallKeeps
<1>3. CASE writer = "run" /\ call[c].res # "none"
  <2>1. SetCall(c, "done", call[c].res) /\ pending' = pending /\ c \notin pending
    BY <1>1, <1>3 DEF WriteRequest, PendingInv, PendingIsWaiting
  <2>2. [pc |-> "done", res |-> call[c].res] \in CallStates BY <1>1 DEF CallStates
  <2>. QED BY <2>1, <2>2, SetCallKeeps
<1>4. CASE writer # "run"
  <2>1. SetCall(c, "done", "closed") /\ pending' = pending \ {c} BY <1>4 DEF WriteRequest
  <2>2. [pc |-> "done", res |-> "closed"] \in CallStates BY DEF CallStates
  <2>. QED BY <2>1, <2>2, SetCallKeeps
<1>. QED BY <1>2, <1>3, <1>4

LEMMA NextPending ==
  ASSUME Wired, PendingInv, ActivityStep
  PROVE  PendingInv'
<1>1. ASSUME UNCHANGED <<call, pending>> PROVE PendingInv'
  BY <1>1 DEF PendingInv, CallTypes, WriteHasEntry, DroppedArePrompts, PendingIsWaiting
<1>2. ASSUME NEW c \in Calls, Register(c) PROVE PendingInv'
  <2>1. SetCall(c, "write", "none") /\ pending' = pending \cup {c} BY <1>2 DEF Register
  <2>2. [pc |-> "write", res |-> "none"] \in CallStates BY DEF CallStates
  <2>. QED BY <2>1, <2>2, SetCallKeeps
<1>3. ASSUME NEW c \in Calls, Timeout(c) PROVE PendingInv'
  <2>1. SetCall(c, "done", "timeout") /\ pending' = pending \ {c}
    BY <1>3 DEF Timeout, PendingAfterTimeout
  <2>2. [pc |-> "done", res |-> "timeout"] \in CallStates BY DEF CallStates
  <2>. QED BY <2>1, <2>2, SetCallKeeps
<1>4. CASE ReadAnswer
  <2>1. /\ Head(out) \in Lines /\ Head(out).kind = "answer"
        /\ Resolve(Answered(Head(out).id), Head(out).res)
    BY <1>4 DEF ReadAnswer, Wired
  <2>2. Head(out).res \in {"ok", "error"} BY <2>1 DEF Lines
  <2>3. Answered(Head(out).id) \subseteq pending BY DEF Answered
  <2>. QED BY <2>1, <2>2, <2>3, ResolveKeeps
<1>5. CASE ReadEof BY <1>5, ResolveKeeps DEF ReadEof, Drained
<1>6. CASE Write \/ Agent \/ ReadRequest \/ ReadGarbage \/ FsTask
  BY <1>1, <1>6 DEF Write, Agent, AgentAnswers, AgentAsks, AgentGarbles, AgentExits, ReadRequest,
     ReadGarbage, FsTask, FsTake, FsRead, FsWritten, FsNote, FsFailed, FsRefuse, bridge
<1>7. CASE TermTask \/ TermWaitTimeout
  BY <1>1, <1>7 DEF TermTask, TermTake, TermCreate, TermCreateFails, TermNotFound,
     TermOutput, TermKill, TermRelease, TermWaitFast, TermWaitLook, TermWaitStart,
     TermWaitWoken, TermWaitTimeout, bridge
<1>8. CASE \E t \in Terminals : ProcessExits(t) \/ ProcessDies(t) \/ OwnerTask(t) \/ OwnerTimeout(t)
  BY <1>1, <1>8 DEF ProcessExits, ProcessDies, OwnerTask, OwnerReap, OwnerKill, OwnerCollect,
     OwnerTimeout, bridge
<1>9. CASE ActivityNext \/ UNCHANGED AllVars
  BY <1>1, <1>9 DEF ActivityNext, AgentNotifies, ReadUpdate, PumpTake, PumpEmit, TapConnects,
     TapDrops, DrainEmit, TapSession, TapTool, AllVars, vars, bridge
<1>10. ASSUME NEW c \in Calls, Abandon(c) PROVE PendingInv'
  <2>1. SetCall(c, "dropped", "none") /\ pending' = pending /\ c \in Prompts
    BY <1>10 DEF Abandon
  <2>2. [pc |-> "dropped", res |-> "none"] \in CallStates BY DEF CallStates
  <2>. QED BY <2>1, <2>2, SetCallKeeps
<1>. QED BY <1>2, <1>3, <1>4, <1>5, <1>6, <1>7, <1>8, <1>9, <1>10,
            WriteRequestKeeps
         DEF ActivityStep, Next, ReaderStep

LEMMA InitPending == ActivityInit => Wired /\ PendingInv
<1>. SUFFICES ASSUME ActivityInit PROVE Wired /\ PendingInv
  OBVIOUS
<1>1. Wired BY DEF ActivityInit, Init, Wired
<1>2. call = [c \in Calls |-> NoCall] /\ pending = {} BY DEF ActivityInit, Init
<1>3. NoCall \in CallStates /\ NoCall.pc = "idle" BY DEF NoCall, CallStates
<1>4. CallTypes BY <1>2, <1>3 DEF CallTypes
<1>5. WriteHasEntry /\ DroppedArePrompts /\ PendingIsWaiting
  BY <1>2, <1>3 DEF WriteHasEntry, DroppedArePrompts, PendingIsWaiting
<1>. QED BY <1>1, <1>4, <1>5 DEF PendingInv

\* The pending table holds every request that waits, and else only prompts their
\* workers gave up, whatever the agent answers, how often and how late (rpc,
\* dispatch_line, the reader's end).
THEOREM TableIsExact == ActivitySpec => []PendingIsWaiting
<1>1. PendingInv => PendingIsWaiting BY DEF PendingInv
<1>2. Wired /\ PendingInv /\ [(Next /\ UNCHANGED activity) \/ ActivityNext]_<<vars, activity>>
        => Wired' /\ PendingInv'
  BY NextWired, NextPending DEF ActivityStep, AllVars
<1>. QED BY <1>1, <1>2, InitPending, PTL DEF ActivitySpec

-----------------------------------------------------------------------------
(* The stack of tasks.                                                      *)

\* A non-empty set of positions has a topmost.
LEMMA Topmost ==
  ASSUME NEW n \in Nat, NEW I \in SUBSET (1..n), I # {}
  PROVE  \E i \in I : \A j \in I : j <= i
<1> DEFINE T == {n - i : i \in I}
<1>1. T \subseteq Nat /\ T # {}
  <2>1. \A i \in I : n - i \in Nat OBVIOUS
  <2>2. PICK i \in I : TRUE OBVIOUS
  <2>3. n - i \in T OBVIOUS
  <2>. QED BY <2>1, <2>3
<1>. HIDE DEF T
<1>2. PICK x \in T : \A y \in T : ~(<<y, x>> \in OpToRel(<, Nat))
  BY <1>1, NatLessThanWellFounded, WFMin
<1>3. \A y \in T : ~(y < x)
  BY <1>1, <1>2 DEF OpToRel
<1>4. PICK i \in I : x = n - i BY DEF T
<1>5. \A j \in I : n - j \in T BY DEF T
<1>6. \A j \in I : j <= i BY <1>3, <1>4, <1>5
<1>. QED BY <1>6

On(t, stack) == \E i \in 1..Len(stack) : stack[i] = t

Once(stack) ==
  /\ stack \in Seq(Tools)
  /\ \A i, j \in 1..Len(stack) : stack[i] = stack[j] => i = j

\* try_push_task_scope adds nothing but its task, and only what was not there.
LEMMA EnterStack ==
  ASSUME Once(scope), NEW t \in Tools
  PROVE  /\ Once(Enter(t))
         /\ \A u \in Tools : On(u, Enter(t)) <=> Listed(u) \/ (u = t /\ ~Full)
<1>1. CASE Listed(t) \/ Full
  BY <1>1 DEF Enter, On, Listed, Once
<1>2. CASE ~Listed(t) /\ ~Full
  <2>1. Enter(t) = Append(scope, t) BY <1>2 DEF Enter
  <2>2. /\ Append(scope, t) \in Seq(Tools) /\ Len(Append(scope, t)) = Len(scope) + 1
        /\ Len(scope) \in Nat /\ DOMAIN scope = 1..Len(scope)
        /\ \A i \in 1..Len(scope) : Append(scope, t)[i] = scope[i]
        /\ Append(scope, t)[Len(scope) + 1] = t
    BY DEF Once
  <2>3. \A i \in 1..(Len(scope) + 1) : i \in 1..Len(scope) \/ i = Len(scope) + 1
    BY <2>2
  <2>4. \A i \in 1..Len(scope) : scope[i] # t BY <1>2, <2>2 DEF Listed
  <2>5. Once(Enter(t)) BY <2>1, <2>2, <2>3, <2>4 DEF Once
  <2>6. ASSUME NEW u \in Tools PROVE On(u, Enter(t)) <=> Listed(u) \/ u = t
    BY <2>1, <2>2, <2>3 DEF On, Listed
  <2>. QED BY <1>2, <2>5, <2>6
<1>. QED BY <1>1, <1>2

\* exit_task_scope takes its task and nothing else.
LEMMA ExitStack ==
  ASSUME Once(scope), NEW t \in Tools
  PROVE  /\ Once(Exit(t))
         /\ \A u \in Tools : On(u, Exit(t)) <=> Listed(u) /\ u # t
<1>1. CASE ~Listed(t)
  BY <1>1 DEF Exit, On, Listed, Once
<1>2. CASE Listed(t)
  <2> DEFINE k == CHOOSE i \in DOMAIN scope : scope[i] = t
             n == Len(scope)
             s == [j \in 1..(n - 1) |-> scope[IF j < k THEN j ELSE j + 1]]
  <2>1. n \in Nat /\ DOMAIN scope = 1..n /\ \A i \in 1..n : scope[i] \in Tools BY DEF Once
  <2>2. k \in 1..n /\ scope[k] = t BY <1>2, <2>1 DEF Listed
  <2>3. Exit(t) = s BY <1>2 DEF Exit
  <2>. HIDE DEF k, n
  <2>4. /\ \A j \in 1..(n - 1) : (j < k => j \in 1..n) /\ (~(j < k) => j + 1 \in 1..n)
        /\ \A i \in 1..n : (i < k => i \in 1..(n - 1)) /\ (i > k => i - 1 \in 1..(n - 1) /\ ~(i - 1 < k))
        /\ n - 1 \in Nat
    BY <2>1, <2>2
  <2>5. ASSUME NEW j \in 1..(n - 1)
        PROVE  s[j] = (IF j < k THEN scope[j] ELSE scope[j + 1]) /\ s[j] \in Tools
    BY <2>1, <2>4, <2>5
  <2>6. s \in Seq(Tools) /\ Len(s) = n - 1
    <3>1. s \in [1..(n - 1) -> Tools] BY <2>5
    <3>. QED BY <2>4, <3>1
  <2>7. DOMAIN s = 1..(n - 1) OBVIOUS
  <2>. HIDE DEF s
  <2>8. \A i, j \in 1..n : scope[i] = scope[j] => i = j BY DEF Once, n
  <2>9. ASSUME NEW i \in 1..(n - 1), NEW j \in 1..(n - 1), s[i] = s[j] PROVE i = j
    <3>1. CASE i < k /\ j < k BY <2>4, <2>5, <2>8, <2>9, <3>1
    <3>2. CASE i < k /\ ~(j < k)
      <4>1. i = j + 1 BY <2>4, <2>5, <2>8, <2>9, <3>2
      <4>. QED BY <2>2, <3>2, <4>1
    <3>3. CASE ~(i < k) /\ j < k
      <4>1. i + 1 = j BY <2>4, <2>5, <2>8, <2>9, <3>3
      <4>. QED BY <2>2, <3>3, <4>1
    <3>4. CASE ~(i < k) /\ ~(j < k)
      <4>1. i + 1 = j + 1 BY <2>4, <2>5, <2>8, <2>9, <3>4
      <4>. QED BY <4>1
    <3>. QED BY <3>1, <3>2, <3>3, <3>4
  <2>10. ASSUME NEW u \in Tools, On(u, s) PROVE Listed(u) /\ u # t
    <3>1. PICK j \in 1..(n - 1) : s[j] = u BY <2>6, <2>10 DEF On
    <3>2. PICK i \in 1..n : scope[i] = u /\ i # k
      <4>1. CASE j < k BY <2>4, <2>5, <3>1, <4>1
      <4>2. CASE ~(j < k)
        <5>1. j + 1 # k BY <2>2, <4>2
        <5>. QED BY <2>4, <2>5, <3>1, <4>2, <5>1
      <4>. QED BY <4>1, <4>2
    <3>. QED BY <2>1, <2>2, <2>8, <3>2 DEF Listed
  <2>11. ASSUME NEW u \in Tools, Listed(u), u # t PROVE On(u, s)
    <3>1. PICK i \in 1..n : scope[i] = u BY <2>1, <2>11 DEF Listed
    <3>2. i # k BY <2>2, <2>11, <3>1
    <3>3. CASE i < k
      <4>1. i \in 1..(n - 1) /\ s[i] = u BY <2>4, <2>5, <3>1, <3>3
      <4>. QED BY <2>6, <4>1 DEF On
    <3>4. CASE i > k
      <4>1. i - 1 \in 1..(n - 1) /\ ~(i - 1 < k) /\ (i - 1) + 1 = i BY <2>4, <3>4
      <4>2. s[i - 1] = u BY <2>5, <3>1, <4>1
      <4>. QED BY <2>6, <4>1, <4>2 DEF On
    <3>. QED BY <2>2, <3>2, <3>3, <3>4
  <2>12. Once(s) BY <2>6, <2>9 DEF Once
  <2>. QED BY <2>3, <2>10, <2>11, <2>12
<1>. QED BY <1>1, <1>2

\* current_task_parent is on the stack, or there is none.
LEMMA ParentOnStack ==
  ASSUME NEW stack, Once(stack), NEW t
  PROVE  /\ Parent(stack, t) \in Tools \cup {"none"}
         /\ Parent(stack, t) # "none" => Parent(stack, t) \in Tools /\ On(Parent(stack, t), stack)
<1> DEFINE others == {i \in DOMAIN stack : stack[i] # t}
<1>1. Len(stack) \in Nat /\ DOMAIN stack = 1..Len(stack) /\ stack \in Seq(Tools) BY DEF Once
<1>2. CASE others = {} BY <1>2 DEF Parent
<1>3. CASE others # {}
  <2> DEFINE m == CHOOSE i \in others : \A j \in others : j <= i
  <2>1. others \subseteq 1..Len(stack) BY <1>1
  <2>2. Parent(stack, t) = stack[m] BY <1>3 DEF Parent
  <2>. HIDE DEF others
  <2>3. \E i \in others : \A j \in others : j <= i BY <1>1, <1>3, <2>1, Topmost
  <2>4. m \in others BY <2>3
  <2>. HIDE DEF m
  <2>5. stack[m] \in Tools BY <1>1, <2>1, <2>4
  <2>. QED BY <2>1, <2>2, <2>4, <2>5 DEF On
<1>. QED BY <1>2, <1>3

-----------------------------------------------------------------------------
(* Nesting.                                                                 *)

LastTypes == last \in [Tools -> {"none", "live", "unnamed", "ended"}]

\* The stack and the last frames agree.
StackTrue ==
  /\ Once(scope)
  /\ \A t \in Tools : Listed(t) => last[t] \in Running
  /\ \A t \in Tools : last[t] \in Running => Listed(t) \/ refused

\* The parent the pump names has not ended while it is being named ...
PumpTrue ==
  /\ DOMAIN pump = {"todo", "parent"} /\ pump.parent \in Tools \cup {"none"}
  /\ pump.parent # "none" => last[pump.parent] \in Running

\* ... and a sub-session's task has begun.
BindTrue ==
  /\ bind \in [Subs -> Tools \cup {"none"}]
  /\ \A s \in Subs : bind[s] # "none" => last[bind[s]] # "none"

NestInv == LastTypes /\ StackTrue /\ PumpTrue /\ BindTrue

LEMMA ListedIsOn == ASSUME Once(scope), NEW t PROVE Listed(t) <=> On(t, scope)
BY DEF Once, Listed, On

\* map_tool_activity: the stack and the parent after a notification.
LEMMA TakeKeeps ==
  ASSUME Wired, NestInv, PumpTake
  PROVE  NestInv'
<1> DEFINE f == Head(upd)
<1>1. /\ upd # << >> /\ scope' = ScopeAfter(f) /\ bind' = bind
      /\ pump' = [todo |-> Lanes(f), parent |-> Parent(scope', f.tool)]
      /\ last' = LastAfter(f)
      /\ refused' = (refused \/ (IsTask(f) /\ IsLive(f) /\ Full /\ ~Listed(f.tool)))
  BY DEF PumpTake, taps
<1>2. f \in Frames BY <1>1 DEF Wired
<1>. HIDE DEF f
<1>3. f.tool \in Tools BY <1>2 DEF Tools
<1>4. refused => refused' BY <1>1, Zenon
<1>5. LastTypes' /\ StackTrue'
  <2>1. CASE ~IsTask(f)
    <3>1. scope' = scope BY <1>1, <2>1 DEF ScopeAfter
    <3>2. \/ last' = last
          \/ last' = [last EXCEPT ![f.tool] = "unnamed"] /\ last[f.tool] = "live"
      BY <1>1, <2>1 DEF LastAfter
    <3>3. LastTypes' BY <1>3, <3>2 DEF NestInv, LastTypes
    <3>4. \A t \in Tools : last'[t] \in Running <=> last[t] \in Running
      BY <1>3, <3>2 DEF NestInv, LastTypes, Running
    <3>. QED BY <1>4, <3>1, <3>3, <3>4 DEF NestInv, StackTrue, Once, Listed
  <2>2. CASE IsTask(f) /\ IsLive(f)
    <3>1. scope' = Enter(f.tool) BY <1>1, <2>2 DEF ScopeAfter
    <3>2. last' = [last EXCEPT ![f.tool] = "live"] BY <1>1, <2>2 DEF LastAfter
    <3>3. /\ Once(Enter(f.tool))
          /\ \A u \in Tools : On(u, Enter(f.tool)) <=> Listed(u) \/ (u = f.tool /\ ~Full)
      BY <1>3, EnterStack DEF NestInv, StackTrue
    <3>4. Full /\ ~Listed(f.tool) => refused' BY <1>1, <2>2, Zenon
    <3>5. \A u \in Tools : Listed(u)' <=> On(u, Enter(f.tool))
      BY <3>1, <3>3 DEF Listed, On, Once
    <3>6. Once(scope)' BY <3>1, <3>3 DEF Once
    <3>7. LastTypes' BY <1>3, <3>2 DEF NestInv, LastTypes
    <3>8. /\ last'[f.tool] = "live"
          /\ \A u \in Tools : u # f.tool => last'[u] = last[u]
      BY <1>3, <3>2 DEF NestInv, LastTypes
    <3>9. \A u \in Tools : Listed(u)' => last'[u] \in Running
      BY <3>3, <3>5, <3>8 DEF NestInv, StackTrue, Running
    <3>10. \A u \in Tools : last'[u] \in Running => Listed(u)' \/ refused'
      <4>1. On(f.tool, Enter(f.tool)) \/ refused' BY <1>3, <3>3, <3>4
      <4>2. \A u \in Tools : last[u] \in Running => On(u, Enter(f.tool)) \/ refused'
        BY <1>4, <3>3 DEF NestInv, StackTrue
      <4>. QED BY <3>5, <3>8, <4>1, <4>2
    <3>. QED BY <3>6, <3>7, <3>9, <3>10 DEF StackTrue
  <2>3. CASE IsTask(f) /\ ~IsLive(f)
    <3>1. scope' = Exit(f.tool) BY <1>1, <2>3 DEF ScopeAfter
    <3>2. last' = [last EXCEPT ![f.tool] = "ended"] BY <1>1, <2>3 DEF LastAfter
    <3>3. /\ Once(Exit(f.tool))
          /\ \A u \in Tools : On(u, Exit(f.tool)) <=> Listed(u) /\ u # f.tool
      BY <1>3, ExitStack DEF NestInv, StackTrue
    <3>4. \A u \in Tools : Listed(u)' <=> On(u, Exit(f.tool))
      BY <3>1, <3>3 DEF Listed, On, Once
    <3>5. Once(scope)' BY <3>1, <3>3 DEF Once
    <3>6. LastTypes' BY <1>3, <3>2 DEF NestInv, LastTypes
    <3>7. /\ last'[f.tool] = "ended"
          /\ \A u \in Tools : u # f.tool => last'[u] = last[u]
      BY <1>3, <3>2 DEF NestInv, LastTypes
    <3>8. \A u \in Tools : Listed(u)' => last'[u] \in Running
      BY <3>3, <3>4, <3>7 DEF NestInv, StackTrue
    <3>9. \A u \in Tools : last'[u] \in Running => Listed(u)' \/ refused'
      BY <1>4, <3>3, <3>4, <3>7 DEF NestInv, StackTrue, Running
    <3>. QED BY <3>5, <3>6, <3>8, <3>9 DEF StackTrue
  <2>. QED BY <2>1, <2>2, <2>3
<1>6. PumpTrue'
  <2>1. Once(scope') BY <1>5 DEF StackTrue
  <2>2. /\ Parent(scope', f.tool) \in Tools \cup {"none"}
        /\ Parent(scope', f.tool) # "none"
             => Parent(scope', f.tool) \in Tools /\ On(Parent(scope', f.tool), scope')
    BY <2>1, ParentOnStack
  <2>3. \A t \in Tools : On(t, scope') => last'[t] \in Running
    BY <1>5, <2>1 DEF StackTrue, Once, On, Listed
  <2>4. pump'.parent = Parent(scope', f.tool) /\ DOMAIN pump' = {"todo", "parent"} BY <1>1
  <2>. QED BY <2>2, <2>3, <2>4 DEF PumpTrue
<1>7. BindTrue'
  <2>1. \A t \in Tools : last[t] # "none" => last'[t] # "none"
    BY <1>1, <1>3 DEF NestInv, LastTypes, LastAfter
  <2>2. \A s \in Subs : bind[s] \in Tools \cup {"none"} BY DEF NestInv, BindTrue
  <2>. QED BY <1>1, <2>1, <2>2 DEF NestInv, BindTrue
<1>. QED BY <1>5, <1>6, <1>7 DEF NestInv

\* The pump emits; the tap binds a sub-session to the task on top.
LEMMA NextNest ==
  ASSUME Wired, NestInv, ActivityStep
  PROVE  NestInv'
<1>1. ASSUME UNCHANGED <<scope, last, refused>> PROVE LastTypes' /\ StackTrue'
  BY <1>1 DEF NestInv, LastTypes, StackTrue, Once, Listed
<1>2. ASSUME UNCHANGED <<pump, last>> PROVE PumpTrue'
  BY <1>2 DEF NestInv, PumpTrue
<1>3. ASSUME UNCHANGED <<bind, last>> PROVE BindTrue'
  BY <1>3 DEF NestInv, BindTrue
<1>4. CASE PumpEmit
  <2>1. PumpTrue'
    <3>1. CASE Len(pump.todo) = 1
      <4>1. pump' = [todo |-> << >>, parent |-> "none"] BY <1>4, <3>1 DEF PumpEmit, Silent
      <4>. QED BY <4>1 DEF PumpTrue
    <3>2. CASE Len(pump.todo) # 1
      <4>1. pump' = [pump EXCEPT !.todo = Tail(pump.todo)] /\ last' = last
        BY <1>4, <3>2 DEF PumpEmit
      <4>2. pump'.parent = pump.parent /\ DOMAIN pump' = DOMAIN pump
        BY <4>1 DEF NestInv, PumpTrue
      <4>. QED BY <4>1, <4>2 DEF NestInv, PumpTrue
    <3>. QED BY <3>1, <3>2
  <2>. QED BY <1>1, <1>3, <1>4, <2>1 DEF PumpEmit, taps, NestInv
<1>5. ASSUME NEW s \in Subs, TapSession(s) PROVE NestInv'
  <2>1. bind' = [bind EXCEPT ![s] = Parent(scope, "none")]
        /\ UNCHANGED <<scope, last, refused, pump>>
    BY <1>5 DEF TapSession
  <2>2. /\ Parent(scope, "none") \in Tools \cup {"none"}
        /\ Parent(scope, "none") # "none"
             => Parent(scope, "none") \in Tools /\ On(Parent(scope, "none"), scope)
    BY ParentOnStack DEF NestInv, StackTrue
  <2>3. \A t \in Tools : On(t, scope) => last[t] \in Running
    BY ListedIsOn DEF NestInv, StackTrue
  <2>4. Parent(scope, "none") # "none" => last[Parent(scope, "none")] \in Running BY <2>2, <2>3
  <2>5. BindTrue' BY <2>1, <2>2, <2>4 DEF NestInv, BindTrue, Running
  <2>. QED BY <1>1, <1>2, <2>1, <2>5 DEF NestInv
<1>6. ASSUME UNCHANGED <<scope, last, refused, pump, bind>> PROVE NestInv'
  BY <1>1, <1>2, <1>3, <1>6 DEF NestInv
<1>7. CASE \/ UNCHANGED activity \/ UNCHANGED AllVars
           \/ \E f \in Frames : AgentNotifies(f)
           \/ ReadUpdate \/ TapConnects \/ TapDrops \/ DrainEmit
           \/ \E s \in Subs, what \in {"edit", "execute", "done"} : TapTool(s, what)
  BY <1>6, <1>7 DEF AllVars, activity, AgentNotifies, ReadUpdate, TapConnects, TapDrops,
     DrainEmit, TapTool, taps
<1>. QED BY <1>4, <1>5, <1>7, TakeKeeps DEF ActivityStep, ActivityNext

LEMMA InitNest == ActivityInit => NestInv
<1>. SUFFICES ASSUME ActivityInit PROVE NestInv
  OBVIOUS
<1>1. LastTypes BY DEF ActivityInit, LastTypes
<1>2. StackTrue BY DEF ActivityInit, StackTrue, Once, Listed, Running
<1>3. PumpTrue BY DEF ActivityInit, PumpTrue, Silent
<1>4. BindTrue BY DEF ActivityInit, BindTrue
<1>. QED BY <1>1, <1>2, <1>3, <1>4 DEF NestInv

\* The stack says which tasks began and were not seen to end (an end without its
\* subagent_type is not seen), the pump names no other parent, and a sub-session is
\* bound to a task that has begun, whatever ends first and whatever notifications
\* were lost (map_tool_activity, enter_ and exit_task_scope).
THEOREM ActivityNests == ActivitySpec => []NestingIsTrue
<1>1. NestInv => NestingIsTrue
  BY DEF NestInv, StackTrue, PumpTrue, BindTrue, NestingIsTrue
<1>2. Wired /\ NestInv /\ [(Next /\ UNCHANGED activity) \/ ActivityNext]_<<vars, activity>>
        => Wired' /\ NestInv'
  BY NextWired, NextNest DEF ActivityStep, AllVars
<1>. QED BY <1>1, <1>2, InitPending, InitNest, PTL DEF ActivitySpec

-----------------------------------------------------------------------------
(* The meta row of a session.                                               *)

CommandFields == {"pc", "inc", "resume", "snap"}
MetaFields == {"there", "status", "agent"}

\* A row carries the agent's session id unless a spawn that erased it is still to
\* write it back.
Restoring == meta.there => meta.agent \/ \E c \in Conns : Stamping(c)

StampInv ==
  /\ DOMAIN op = Conns /\ \A c \in Conns : DOMAIN op[c] = CommandFields
  /\ DOMAIN meta = MetaFields /\ \A c \in Conns : DOMAIN op[c].snap = MetaFields
  /\ faults \in Nat
  /\ native /\ faults = 0 => Restoring

\* A command that neither stamps nor touches the row.
LEMMA PassesBy ==
  ASSUME StampInv, NEW c \in Conns, ~Stamping(c), DOMAIN op' = Conns,
         \A d \in Conns : d # c => op'[d] = op[d],
         DOMAIN op'[c] = CommandFields, DOMAIN op'[c].snap = MetaFields,
         UNCHANGED <<native, meta, faults>>
  PROVE  StampInv'
BY DEF StampInv, Restoring, Stamping

LEMMA GotoDoes ==
  ASSUME StampInv, NEW c \in Conns, NEW pc, Goto(c, pc)
  PROVE  /\ DOMAIN op' = Conns /\ \A d \in Conns : d # c => op'[d] = op[d]
         /\ DOMAIN op'[c] = CommandFields /\ op'[c].pc = pc /\ op'[c].snap = op[c].snap
BY DEF StampInv, Goto, CommandFields

LEMMA DoneDoes ==
  ASSUME StampInv, NEW c \in Conns, Done(c)
  PROVE  /\ DOMAIN op' = Conns /\ \A d \in Conns : d # c => op'[d] = op[d]
         /\ DOMAIN op'[c] = CommandFields /\ DOMAIN op'[c].snap = MetaFields
BY DEF StampInv, Done, NoCommand, NoMeta, CommandFields, MetaFields

LEMMA SpawnPasses ==
  ASSUME StampInv, NEW c \in Conns, NEW resume, SpawnChild(c, resume), ~Stamping(c)
  PROVE  StampInv'
<1>1. /\ DOMAIN op' = Conns /\ \A d \in Conns : d # c => op'[d] = op[d]
      /\ DOMAIN op'[c] = CommandFields /\ DOMAIN op'[c].snap = MetaFields
  BY DEF StampInv, SpawnChild, NoMeta, CommandFields, MetaFields
<1>. QED BY <1>1, PassesBy DEF SpawnChild

\* The row is read into the command, which goes on to write it if there is one.
LEMMA MetaReadKeeps ==
  ASSUME StampInv, NEW c \in Conns, NEW from, NEW to, NEW skip, MetaRead(c, from, to, skip),
         from \in {"stamp", "stamping"} => to \in {"stamp", "stamping"}
  PROVE  StampInv'
<1>1. op' = [op EXCEPT ![c].snap = meta, ![c].pc = IF meta.there THEN to ELSE skip]
      /\ op[c].pc = from /\ UNCHANGED <<native, meta, faults>>
  BY DEF MetaRead, procs
<1>2. /\ DOMAIN op' = Conns /\ \A d \in Conns : d # c => op'[d] = op[d]
      /\ DOMAIN op'[c] = CommandFields /\ DOMAIN op'[c].snap = MetaFields
      /\ op'[c].pc = IF meta.there THEN to ELSE skip
  BY <1>1 DEF StampInv, CommandFields
<1>3. CASE Stamping(c) /\ meta.there
  <2>1. Stamping(c)' BY <1>1, <1>2, <1>3 DEF Stamping
  <2>. QED BY <1>1, <1>2, <2>1 DEF StampInv, Restoring, Stamping
<1>4. CASE ~meta.there BY <1>1, <1>2, <1>4 DEF StampInv, Restoring
<1>5. CASE ~Stamping(c) BY <1>1, <1>2, <1>5, PassesBy
<1>. QED BY <1>3, <1>4, <1>5

\* Whoever writes the row writes the agent's session id.
LEMMA MetaWriteKeeps ==
  ASSUME StampInv, NEW c \in Conns, NEW from, NEW to, MetaWrite(c, from, to)
  PROVE  StampInv'
<1>1. Goto(c, to) /\ native' = native BY DEF MetaWrite, procs
<1>2. /\ DOMAIN op' = Conns /\ \A d \in Conns : DOMAIN op'[d] = CommandFields /\ DOMAIN op'[d].snap = MetaFields
  BY <1>1, GotoDoes DEF StampInv
<1>3. CASE meta' = [op[c].snap EXCEPT !.agent = TRUE] /\ UNCHANGED faults
  <2>1. meta'.agent /\ DOMAIN meta' = MetaFields BY <1>3 DEF StampInv, MetaFields
  <2>. QED BY <1>2, <1>3, <2>1 DEF StampInv, Restoring
<1>4. CASE faults' = faults + 1 /\ UNCHANGED meta
  BY <1>2, <1>4 DEF StampInv
<1>. QED BY <1>3, <1>4 DEF MetaWrite

\* Who erases the id goes on to stamp it.
LEMMA BuildSinkKeeps ==
  ASSUME StampInv, NEW c \in Conns, BuildSink(c)
  PROVE  StampInv'
<1>1. Goto(c, AfterSink) /\ native' = native BY DEF BuildSink
<1>2. /\ DOMAIN op' = Conns /\ \A d \in Conns : DOMAIN op'[d] = CommandFields /\ DOMAIN op'[d].snap = MetaFields
      /\ op'[c].pc = AfterSink
  BY <1>1, GotoDoes DEF StampInv
<1>3. CASE meta' = [there |-> TRUE, status |-> "active", agent |-> FALSE] /\ UNCHANGED faults
  <2>1. DOMAIN meta' = MetaFields BY <1>3 DEF MetaFields
  <2>2. native => Stamping(c)' BY <1>2 DEF Stamping, AfterSink
  <2>. QED BY <1>1, <1>2, <1>3, <2>1, <2>2 DEF StampInv, Restoring
<1>4. CASE faults' = faults + 1 /\ UNCHANGED meta
  BY <1>2, <1>4 DEF StampInv
<1>. QED BY <1>3, <1>4 DEF BuildSink

LEMMA CommandKeeps ==
  ASSUME StampInv, NEW c \in Conns,
         Create(c) \/ Resume(c) \/ SpawnFails(c) \/ LoadSucceeds(c) \/ LoadFails(c)
         \/ Reactivate(c) \/ Close(c) \/ Forget(c) \/ CommandStep(c)
  PROVE  StampInv'
<1> USE DEF Stamping, procs
<1>1. CASE Create(c) BY <1>1, SpawnPasses DEF Create
<1>2. CASE Resume(c) BY <1>2, SpawnPasses DEF Resume
<1>3. CASE SpawnFails(c) BY <1>3, DoneDoes, PassesBy DEF SpawnFails
<1>4. CASE LoadSucceeds(c)
  <2>1. DOMAIN op'[c].snap = MetaFields BY <1>4, GotoDoes DEF LoadSucceeds, StampInv
  <2>. QED BY <1>4, <2>1, GotoDoes, PassesBy DEF LoadSucceeds
<1>5. CASE LoadFails(c) BY <1>5, DoneDoes, PassesBy DEF LoadFails
<1>6. CASE Reactivate(c) BY <1>6 DEF Reactivate, StampInv, Restoring
<1>7. CASE Close(c) BY <1>7 DEF Close, StampInv, Restoring
<1>13. CASE Forget(c)
  BY <1>13 DEF Forget, StampInv, Restoring, NoMeta, MetaFields
<1>8. CASE BuildSink(c) BY <1>8, BuildSinkKeeps
<1>9. CASE StampRead(c) \/ VerifyRead(c) BY <1>9, MetaReadKeeps DEF StampRead, VerifyRead
<1>10. CASE StampWrite(c) \/ VerifyWrite(c) BY <1>10, MetaWriteKeeps DEF StampWrite, VerifyWrite
<1>11. CASE BecomeReady(c)
  <2>1. DOMAIN op'[c].snap = MetaFields BY <1>11, GotoDoes DEF BecomeReady, StampInv
  <2>. QED BY <1>11, <2>1, GotoDoes, PassesBy DEF BecomeReady
<1>12. CASE Insert(c) BY <1>12, DoneDoes, PassesBy DEF Insert
<1>. QED BY <1>1, <1>2, <1>3, <1>4, <1>5, <1>6, <1>7, <1>8, <1>9, <1>10, <1>11, <1>12, <1>13
     DEF CommandStep

\* Children, watchdogs, the reaper and a crash: the row's id stays, or a crash
\* is counted.
LEMMA OthersKeep ==
  ASSUME StampInv,
         \/ \E i \in Incs : ChildEnds(i) \/ StdoutEnds(i) \/ Watchdog(i)
         \/ Reaper \/ BridgeCrash \/ UNCHANGED lifeVars
  PROVE  StampInv'
<1>1. ASSUME NEW i \in Incs, ChildEnds(i) \/ StdoutEnds(i) \/ WatchdogCloses(i) PROVE StampInv'
  BY <1>1 DEF ChildEnds, StdoutEnds, WatchdogCloses, StampInv, Restoring, Stamping
<1>2. ASSUME NEW i \in Incs, WatchdogMarks(i) PROVE StampInv'
  <2>1. meta' = meta \/ \E status : meta' = [meta EXCEPT !.status = status] BY <1>2 DEF WatchdogMarks
  <2>2. meta'.there = meta.there /\ meta'.agent = meta.agent /\ DOMAIN meta' = MetaFields
    BY <2>1 DEF StampInv, MetaFields
  <2>3. UNCHANGED <<native, op>> /\ (faults' = faults \/ faults' = faults + 1) BY <1>2 DEF WatchdogMarks
  <2>4. faults' \in Nat /\ (faults' = 0 => faults = 0) BY <2>3 DEF StampInv
  <2>. QED BY <2>2, <2>3, <2>4 DEF StampInv, Restoring, Stamping
<1>3. CASE Reaper
  BY <1>3 DEF Reaper, ReaperScans, ReaperDrops, procs, StampInv, Restoring, Stamping
<1>4. CASE BridgeCrash
  <2>1. faults' = faults + 1 /\ meta' = meta /\ op' = [c \in Conns |-> NoCommand] BY <1>4 DEF BridgeCrash
  <2>2. DOMAIN NoCommand = CommandFields /\ DOMAIN NoCommand.snap = MetaFields
    BY DEF NoCommand, NoMeta, CommandFields, MetaFields
  <2>. QED BY <2>1, <2>2 DEF StampInv
<1>5. CASE UNCHANGED lifeVars BY <1>5 DEF lifeVars, StampInv, Restoring, Stamping
<1>. QED BY <1>1, <1>2, <1>3, <1>4, <1>5 DEF Watchdog

LEMMA InitStampInv == LifeInit => StampInv
BY DEF LifeInit, StampInv, Restoring, NoCommand, NoMeta, CommandFields, MetaFields

\* Every spawn erases the agent's session id from the row and writes it back: when
\* no spawn is between the two, nothing failed and nothing crashed, the id is there,
\* for any number of connections and children, though each half of a write takes the
\* store's lock for itself (persist_acp_session_details).
THEOREM StampIsRestored == LifeSpec => []StampRestored
<1>1. LifeInit => StampInv BY InitStampInv
<1>2. StampInv /\ [LifeNext]_lifeVars => StampInv'
  BY CommandKeeps, OthersKeep DEF LifeNext
<1>3. StampInv => StampRestored BY DEF StampInv, Restoring, StampRestored
<1>. QED BY <1>1, <1>2, <1>3, PTL DEF LifeSpec
=============================================================================
