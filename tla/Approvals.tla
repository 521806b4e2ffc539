------------------------------ MODULE Approvals ------------------------------
(****************************************************************************)
(* How an agent's session/request_permission is decided.                    *)
(*                                                                          *)
(* The permission pump registers each request under a fresh approval id     *)
(* with an auto-cancel timer and announces it (approval.pending).  Several  *)
(* clients may then send approval.approve / approval.reject; their          *)
(* connections run resolve_approval concurrently with each other, with the  *)
(* timer and with the exit of the agent.  A decision is taken by removing   *)
(* the entry from `pending_approvals`; the answer goes to the agent, an     *)
(* approval is remembered in two correlation maps, and approval.resolved is *)
(* emitted.  The update pump looks tool calls up in those maps to label     *)
(* them with the approval that let them run.                                *)
(*                                                                          *)
(* A request stands for its approval id.  An option is [id, kind]; a tool   *)
(* call is [tc, hash], its toolCallId and its canonical hash.  No is the    *)
(* absent value (Option::None, a missing JSON field).                       *)
(****************************************************************************)
EXTENDS Naturals, Sequences, FiniteSets

CONSTANTS
  Requests,     \* permission requests the agent may make
  Clients,      \* connections that may send decisions
  Ids,          \* option ids
  OptionLists,  \* `options` arrays the agent may send
  Calls,        \* tool calls permission is asked for
  Activities,   \* tool calls the agent reports
  MaxActivity,  \* bound: tool activities looked up in one behaviour
  No            \* the absent value

\* No is none of the values it stands in for the absence of.
ASSUME NoAssumption ==
  /\ No \notin Requests \cup Ids
  /\ No \notin [opts : OptionLists, call : Calls, numbered : BOOLEAN]

\* An answer that selects an option and one that cancels are different messages,
\* whatever the option is called.
ASSUME OutcomeAssumption == "cancelled" \notin Ids

ASSUME BoundAssumption == MaxActivity \in Nat

Intents == {"approve", "reject"}

AllowKinds == {"allow_once", "allow_always", "allow_other"}

RejectKinds == {"reject_once", "reject_always", "reject_other"}

Kinds == AllowKinds \cup RejectKinds \cup {"other", No}

Options == [id : Ids \cup {No}, kind : Kinds]

ASSUME OptionAssumption == OptionLists \subseteq Seq(Options)

\* The bridge hashes every request, and gives every activity an id.
ASSUME CallAssumption ==
  /\ \A k \in Calls \cup Activities : DOMAIN k = {"tc", "hash"}
  /\ \A k \in Calls : k.hash # No
  /\ \A k \in Activities : k.tc # No

-----------------------------------------------------------------------------
\* options.iter().find(kind in K).and_then(optionId)
IdFor(opts, K) ==
  LET hits == {i \in DOMAIN opts : opts[i].kind \in K}
  IN  IF hits = {} THEN No
      ELSE opts[CHOOSE i \in hits : \A j \in hits : i <= j].id

\* The kinds each default picker tries, in turn.
Preference(intent) ==
  IF intent = "approve"
  THEN <<{"allow_once"}, {"allow_always"}, Kinds \ (RejectKinds \cup {No})>>
  ELSE <<{"reject_once"}, {"reject_always"}, RejectKinds>>

\* pick_approve_option_id / pick_reject_option_id
PickOptionId(opts, intent) ==
  LET p == Preference(intent)
      hits == {i \in DOMAIN p : IdFor(opts, p[i]) # No}
  IN  IF hits = {} THEN No
      ELSE IdFor(opts, p[CHOOSE i \in hits : \A j \in hits : i <= j])

\* The option an id stands for: the first that carries it.
OptionOf(opts, id) ==
  opts[CHOOSE i \in DOMAIN opts :
         opts[i].id = id /\ \A j \in DOMAIN opts : opts[j].id = id => i <= j]

HasId(opts, id) == id # No /\ \E i \in DOMAIN opts : opts[i].id = id

Eligible(intent) ==
  IF intent = "approve" THEN AllowKinds \ {"allow_always"} ELSE RejectKinds

\* Mutant: drops the PERSISTENT_PERMISSION_ALLOWED gate.
ResolveOption_no_policy(opts, explicit, intent) ==
  LET id == IF explicit # No THEN explicit ELSE PickOptionId(opts, intent)
  IN  IF HasId(opts, id) /\ OptionOf(opts, id).kind
                              \in (IF intent = "approve" THEN AllowKinds ELSE RejectKinds)
      THEN id ELSE No

\* resolve_option: the id to answer with, or No for any of its errors.
ResolveOption(opts, explicit, intent) ==
  LET id == IF explicit # No THEN explicit ELSE PickOptionId(opts, intent)
  IN  IF HasId(opts, id) /\ OptionOf(opts, id).kind \in Eligible(intent) THEN id ELSE No

-----------------------------------------------------------------------------
VARIABLES
  alive,      \* the agent reads its stdin (the writer task accepts lines)
  listed,     \* the session is in the registry
  queue,      \* permission channel between the reader task and the pump
  info,       \* info[r]: the options and the tool call of request r
  arming,     \* the request whose timer runs and whose entry the pump has yet to insert
  pump,       \* the request whose approval.pending the pump is emitting
  pending,    \* pending_approvals
  timer,      \* timer[r]: the auto-cancel task
  cmd,        \* cmd[c]: resolve_approval in connection c
  answers,    \* answers[r]: what the agent was sent, in order
  events,     \* approval.* events in the order of the ring
  acks,       \* commands answered ok, or unreachable
  byCall,     \* approval_by_tool_call_id
  byHash,     \* approval_by_full_hash
  recorded,   \* approvals whose record_resolved_approval has started its TTL
  expired,    \* approvals whose correlation TTL has passed
  look,       \* correlate_approval in the update pump
  labels      \* tool activities and the approval each was labelled with

decision ==
  <<alive, listed, queue, info, arming, pump, pending, timer, answers, events, acks>>
cache == <<byCall, byHash, recorded, expired>>
lookup == <<look, labels>>
vars == <<decision, cmd, cache, lookup>>

Cancelled == "cancelled"

Quiet == [pc |-> "idle", r |-> No, intent |-> "approve", id |-> No]

NoLook == [pc |-> "idle", call |-> No, old |-> {}]

CallIds == {k.tc : k \in Calls} \ {No}

Hashes == {k.hash : k \in Calls}

Init ==
  /\ alive = TRUE
  /\ listed = TRUE
  /\ queue = << >>
  /\ info = [r \in Requests |-> No]
  /\ arming = No
  /\ pump = No
  /\ pending = {}
  /\ timer = [r \in Requests |-> "off"]
  /\ cmd = [c \in Clients |-> Quiet]
  /\ answers = [r \in Requests |-> << >>]
  /\ events = << >>
  /\ acks = {}
  /\ byCall = [t \in CallIds |-> No]
  /\ byHash = [h \in Hashes |-> No]
  /\ recorded = {}
  /\ expired = {}
  /\ look = NoLook
  /\ labels = << >>

-----------------------------------------------------------------------------
\* The agent asks; dispatch_line puts the request on the permission channel.  The
\* pump holds its receiver as long as lines are read, so the send does not fail.
AgentAsks(r, opts, call) ==
  /\ alive /\ info[r] = No
  /\ info' = [info EXCEPT ![r] = [opts |-> opts, call |-> call, numbered |-> TRUE]]
  /\ queue' = Append(queue, r)
  /\ UNCHANGED <<alive, listed, arming, pump, pending, timer, answers, events, acks>>
  /\ UNCHANGED <<cmd, cache, lookup>>

\* The request has no JSON-RPC id, or one that is no u64: it is ignored.
AgentAsksUnnumbered(r, opts, call) ==
  /\ alive /\ info[r] = No
  /\ info' = [info EXCEPT ![r] = [opts |-> opts, call |-> call, numbered |-> FALSE]]
  /\ UNCHANGED <<alive, listed, queue, arming, pump, pending, timer, answers, events, acks>>
  /\ UNCHANGED <<cmd, cache, lookup>>

\* The agent exits: the writer task ends and later lines fail.
AgentExits ==
  /\ alive
  /\ alive' = FALSE
  /\ UNCHANGED <<listed, queue, info, arming, pump, pending, timer, answers, events, acks>>
  /\ UNCHANGED <<cmd, cache, lookup>>

\* session.close: the session leaves the registry, its tasks go on.
SessionClose ==
  /\ listed
  /\ listed' = FALSE
  /\ UNCHANGED <<alive, queue, info, arming, pump, pending, timer, answers, events, acks>>
  /\ UNCHANGED <<cmd, cache, lookup>>

\* Mutant: registers the approval without its auto-cancel timer.
PumpArm_no_timer ==
  /\ arming = No /\ pump = No /\ queue # << >>
  /\ arming' = Head(queue)
  /\ queue' = Tail(queue)
  /\ UNCHANGED <<alive, listed, info, pump, pending, timer, answers, events, acks>>
  /\ UNCHANGED <<cmd, cache, lookup>>

\* handle_permission_request: spawn the timer, which sleeps from now on ...
PumpArm ==
  /\ arming = No /\ pump = No /\ queue # << >>
  /\ arming' = Head(queue)
  /\ queue' = Tail(queue)
  /\ timer' = [timer EXCEPT ![Head(queue)] = "armed"]
  /\ UNCHANGED <<alive, listed, info, pump, pending, answers, events, acks>>
  /\ UNCHANGED <<cmd, cache, lookup>>

\* ... insert the entry, whatever the timer has done by now ...
PumpRegister ==
  /\ arming # No
  /\ pending' = pending \cup {arming}
  /\ pump' = arming
  /\ arming' = No
  /\ UNCHANGED <<alive, listed, queue, info, timer, answers, events, acks>>
  /\ UNCHANGED <<cmd, cache, lookup>>

\* ... then emit approval.pending.
PumpEmit ==
  /\ pump # No
  /\ events' = Append(events, [type |-> "pending", r |-> pump, outcome |-> No])
  /\ pump' = No
  /\ UNCHANGED <<alive, listed, queue, info, arming, pending, timer, answers, acks>>
  /\ UNCHANGED <<cmd, cache, lookup>>

\* write_line on the agent's stdin: fails once the agent is gone.
Respond(r, outcome) ==
  answers' = IF alive THEN [answers EXCEPT ![r] = Append(@, outcome)] ELSE answers

\* The timer's sleep ends and the entry is still there: cancel the request.
TimerFire(r) ==
  /\ timer[r] = "armed" /\ r \in pending
  /\ pending' = pending \ {r}
  /\ timer' = [timer EXCEPT ![r] = "emit"]
  /\ Respond(r, Cancelled)
  /\ UNCHANGED <<alive, listed, queue, info, arming, pump, events, acks>>
  /\ UNCHANGED <<cmd, cache, lookup>>

\* The timer's sleep ends after a client took the entry, before the abort; or
\* before the pump has inserted the entry, which then stays without a timer.
TimerMiss(r) ==
  /\ timer[r] = "armed" /\ r \notin pending
  /\ timer' = [timer EXCEPT ![r] = "done"]
  /\ UNCHANGED <<alive, listed, queue, info, arming, pump, pending, answers, events, acks>>
  /\ UNCHANGED <<cmd, cache, lookup>>

\* The timer announces the cancellation.
TimerEmit(r) ==
  /\ timer[r] = "emit"
  /\ events' = Append(events, [type |-> "resolved", r |-> r, outcome |-> "timeout"])
  /\ timer' = [timer EXCEPT ![r] = "done"]
  /\ UNCHANGED <<alive, listed, queue, info, arming, pump, pending, answers, acks>>
  /\ UNCHANGED <<cmd, cache, lookup>>

-----------------------------------------------------------------------------
\* A client knows an approval id from its approval.pending event.
Announced(r) == \E i \in DOMAIN events : events[i].type = "pending" /\ events[i].r = r

\* approval.approve / approval.reject, first part of resolve_approval: look the
\* entry up and choose the option.  Every error (session.not_found, NotFound,
\* and those of resolve_option) returns before anything has changed.
ResolveChoose(c, r, intent, explicit) ==
  /\ cmd[c].pc = "idle" /\ Announced(r)
  /\ listed /\ r \in pending
  /\ LET id == ResolveOption(info[r].opts, explicit, intent)
     IN  /\ id # No
         /\ cmd' = [cmd EXCEPT ![c] = [pc |-> "take", r |-> r, intent |-> intent, id |-> id]]
  /\ UNCHANGED <<decision, cache, lookup>>

\* The command goes on to its next stage.
Advance(c, pc) ==
  [cmd EXCEPT ![c] = [pc |-> pc, r |-> cmd[c].r, intent |-> cmd[c].intent, id |-> cmd[c].id]]

\* Mutant: goes on although another decision has taken the entry.
ResolveTake_unchecked(c) ==
  /\ cmd[c].pc = "take"
  /\ pending' = pending \ {cmd[c].r}
  /\ cmd' = Advance(c, "respond")
  /\ UNCHANGED <<alive, listed, queue, info, arming, pump, timer, answers, events, acks>>
  /\ UNCHANGED <<cache, lookup>>

\* pending_approvals.remove: the one that gets the entry decides.
ResolveTake(c) ==
  /\ cmd[c].pc = "take" /\ cmd[c].r \in pending
  /\ pending' = pending \ {cmd[c].r}
  /\ cmd' = Advance(c, "respond")
  /\ UNCHANGED <<alive, listed, queue, info, arming, pump, timer, answers, events, acks>>
  /\ UNCHANGED <<cache, lookup>>

\* The entry went away since the look-up: NotFound.
ResolveLost(c) ==
  /\ cmd[c].pc = "take" /\ cmd[c].r \notin pending
  /\ cmd' = [cmd EXCEPT ![c] = Quiet]
  /\ UNCHANGED <<decision, cache, lookup>>

\* Mutant: remembers rejections for correlation too.
ResolveRespond_records_reject(c) ==
  LET r == cmd[c].r
  IN  /\ cmd[c].pc = "respond" /\ alive
      /\ timer' = [timer EXCEPT ![r] = IF @ = "armed" THEN "aborted" ELSE @]
      /\ Respond(r, cmd[c].id)
      /\ cmd' = Advance(c, "record")
      /\ UNCHANGED <<alive, listed, queue, info, arming, pump, pending, events, acks>>
      /\ UNCHANGED <<cache, lookup>>

\* Abort the timer and answer the agent.
ResolveRespond(c) ==
  LET r == cmd[c].r
  IN  /\ cmd[c].pc = "respond" /\ alive
      /\ timer' = [timer EXCEPT ![r] = IF @ = "armed" THEN "aborted" ELSE @]
      /\ Respond(r, cmd[c].id)
      /\ cmd' = Advance(c, IF cmd[c].intent = "approve" THEN "record" ELSE "emit")
      /\ UNCHANGED <<alive, listed, queue, info, arming, pump, pending, events, acks>>
      /\ UNCHANGED <<cache, lookup>>

\* Mutant: ignores the transport error, as the timer does.
ResolveUnreachable_ignored(c) ==
  LET r == cmd[c].r
  IN  /\ cmd[c].pc = "respond" /\ ~alive
      /\ timer' = [timer EXCEPT ![r] = IF @ = "armed" THEN "aborted" ELSE @]
      /\ acks' = acks \cup {[c |-> c, r |-> r, id |-> cmd[c].id, ok |-> TRUE]}
      /\ cmd' = [cmd EXCEPT ![c] = Quiet]
      /\ UNCHANGED <<alive, listed, queue, info, arming, pump, pending, answers, events>>
      /\ UNCHANGED <<cache, lookup>>

\* The agent is gone: Transport, returned before the event.
ResolveUnreachable(c) ==
  LET r == cmd[c].r
  IN  /\ cmd[c].pc = "respond" /\ ~alive
      /\ timer' = [timer EXCEPT ![r] = IF @ = "armed" THEN "aborted" ELSE @]
      /\ acks' = acks \cup {[c |-> c, r |-> r, id |-> cmd[c].id, ok |-> FALSE]}
      /\ cmd' = [cmd EXCEPT ![c] = Quiet]
      /\ UNCHANGED <<alive, listed, queue, info, arming, pump, pending, answers, events>>
      /\ UNCHANGED <<cache, lookup>>

\* record_resolved_approval: insert under both keys.
ResolveRecord(c) ==
  LET r == cmd[c].r
      k == info[r].call
  IN  /\ cmd[c].pc = "record"
      /\ byCall' = [t \in CallIds |-> IF t = k.tc THEN r ELSE byCall[t]]
      /\ byHash' = [byHash EXCEPT ![k.hash] = r]
      /\ recorded' = recorded \cup {r}
      /\ cmd' = Advance(c, "emit")
      /\ UNCHANGED <<decision, expired, lookup>>

Label(intent) == IF intent = "approve" THEN "approved" ELSE "rejected"

\* Emit approval.resolved and acknowledge the command.
ResolveEmit(c) ==
  /\ cmd[c].pc = "emit"
  /\ events' = Append(events, [type |-> "resolved", r |-> cmd[c].r,
                               outcome |-> Label(cmd[c].intent)])
  /\ acks' = acks \cup {[c |-> c, r |-> cmd[c].r, id |-> cmd[c].id, ok |-> TRUE]}
  /\ cmd' = [cmd EXCEPT ![c] = Quiet]
  /\ UNCHANGED <<alive, listed, queue, info, arming, pump, pending, timer, answers>>
  /\ UNCHANGED <<cache, lookup>>

-----------------------------------------------------------------------------
\* APPROVAL_CORRELATION_TTL passes for an approval.
TtlPasses(r) ==
  /\ r \in recorded \ expired
  /\ expired' = expired \cup {r}
  /\ UNCHANGED <<decision, cmd, byCall, byHash, recorded, lookup>>

Labelled(call, r) == labels' = Append(labels, [call |-> call, r |-> r])

\* correlate_approval for an observed tool call, primary key: `now` is read
\* once, so what has expired is fixed here (look.old).  An expired entry is
\* swept in a later step, after the map's guard has been dropped.
LookupByCall(k) ==
  LET e == IF k.tc \in CallIds THEN byCall[k.tc] ELSE No
  IN  /\ look.pc = "idle" /\ Len(labels) < MaxActivity
      /\ \/ /\ e # No /\ e \notin expired
            /\ Labelled(k, e)
            /\ look' = look
         \/ /\ e # No /\ e \in expired
            /\ look' = [pc |-> "sweepCall", call |-> k, old |-> expired]
            /\ labels' = labels
         \/ /\ e = No
            /\ look' = [pc |-> "hash", call |-> k, old |-> expired]
            /\ labels' = labels
      /\ UNCHANGED <<decision, cmd, cache>>

\* remove(tool_call_id), by key, whatever is stored there by now.
SweepByCall ==
  /\ look.pc = "sweepCall"
  /\ byCall' = [byCall EXCEPT ![look.call.tc] = No]
  /\ look' = [pc |-> "hash", call |-> look.call, old |-> look.old]
  /\ UNCHANGED <<decision, cmd, byHash, recorded, expired, labels>>

\* The fallback key, if the activity has a hash.
LookupByHash ==
  LET e == IF look.call.hash \in Hashes THEN byHash[look.call.hash] ELSE No
  IN  /\ look.pc = "hash"
      /\ \/ /\ e = No \/ e \notin look.old
            /\ Labelled(look.call, e)
            /\ look' = NoLook
         \/ /\ e # No /\ e \in look.old
            /\ look' = [pc |-> "sweepHash", call |-> look.call, old |-> look.old]
            /\ labels' = labels
      /\ UNCHANGED <<decision, cmd, cache>>

SweepByHash ==
  /\ look.pc = "sweepHash"
  /\ byHash' = [byHash EXCEPT ![look.call.hash] = No]
  /\ Labelled(look.call, No)
  /\ look' = NoLook
  /\ UNCHANGED <<decision, cmd, byCall, recorded, expired>>

Next ==
  \/ \E r \in Requests, opts \in OptionLists, call \in Calls :
       AgentAsks(r, opts, call) \/ AgentAsksUnnumbered(r, opts, call)
  \/ AgentExits \/ SessionClose
  \/ PumpArm \/ PumpRegister \/ PumpEmit
  \/ \E r \in Requests : TimerFire(r) \/ TimerMiss(r) \/ TimerEmit(r) \/ TtlPasses(r)
  \/ \E c \in Clients, r \in Requests, intent \in Intents, explicit \in Ids \cup {No} :
       ResolveChoose(c, r, intent, explicit)
  \/ \E c \in Clients :
       \/ ResolveTake(c) \/ ResolveLost(c)
       \/ ResolveRespond(c) \/ ResolveUnreachable(c)
       \/ ResolveRecord(c) \/ ResolveEmit(c)
  \/ \E k \in Activities : LookupByCall(k)
  \/ SweepByCall \/ LookupByHash \/ SweepByHash

Spec == Init /\ [][Next]_vars

\* Tasks that are ready run: the pump, the timers and the connections' command
\* handlers.  Nothing makes a client decide, an agent exit or a TTL matter.
Fairness ==
  /\ WF_vars(PumpArm) /\ WF_vars(PumpRegister) /\ WF_vars(PumpEmit)
  /\ \A r \in Requests : WF_vars(TimerFire(r)) /\ WF_vars(TimerEmit(r))
  /\ \A c \in Clients :
       /\ WF_vars(ResolveTake(c)) /\ WF_vars(ResolveRespond(c))
       /\ WF_vars(ResolveRecord(c)) /\ WF_vars(ResolveEmit(c))

FairSpec == Spec /\ Fairness

-----------------------------------------------------------------------------
Info == [opts : OptionLists, call : Calls, numbered : BOOLEAN]

Stages == {"idle", "take", "respond", "record", "emit"}

Commands == [pc : Stages, r : Requests \cup {No}, intent : Intents, id : Ids \cup {No}]

Events ==
  [type : {"pending", "resolved"}, r : Requests,
   outcome : {"approved", "rejected", "timeout", No}]

DecisionTypes ==
  /\ alive \in BOOLEAN /\ listed \in BOOLEAN
  /\ queue \in Seq(Requests)
  /\ info \in [Requests -> Info \cup {No}]
  /\ arming \in Requests \cup {No}
  /\ pump \in Requests \cup {No}
  /\ pending \subseteq Requests
  /\ timer \in [Requests -> {"off", "armed", "emit", "done", "aborted"}]
  /\ cmd \in [Clients -> Commands]
  /\ answers \in [Requests -> Seq(Ids \cup {Cancelled})]
  /\ events \in Seq(Events)
  /\ acks \subseteq [c : Clients, r : Requests, id : Ids, ok : BOOLEAN]

Lookups == {"idle", "sweepCall", "hash", "sweepHash"}

CorrelationTypes ==
  /\ byCall \in [CallIds -> Requests \cup {No}]
  /\ byHash \in [Hashes -> Requests \cup {No}]
  /\ recorded \subseteq Requests /\ expired \subseteq recorded
  /\ look \in [pc : Lookups, call : Activities \cup {No}, old : SUBSET Requests]
  /\ look.pc # "idle" => look.call \in Activities
  /\ labels \in Seq([call : Activities, r : Requests \cup {No}])

TypeOK == DecisionTypes /\ CorrelationTypes

Resolutions(r) == {i \in DOMAIN events : events[i].type = "resolved" /\ events[i].r = r}

Deciding(r) == {c \in Clients : cmd[c].r = r /\ cmd[c].pc \in {"respond", "record", "emit"}}

\* First decision wins: whatever the interleaving of clients, timer and agent
\* exit, a request gets at most one answer and is resolved at most once, and
\* at any time at most one of pending entry, deciding client and firing timer
\* is responsible for it (resolve_approval's and the timer's remove()).
DecidedOnce ==
  \A r \in Requests :
    /\ Len(answers[r]) <= 1
    /\ \A i, j \in Resolutions(r) : i = j
    /\ \A c, d \in Deciding(r) : c = d
    /\ r \in pending => Deciding(r) = {} /\ timer[r] # "emit" /\ Resolutions(r) = {}
    /\ Deciding(r) # {} => timer[r] # "emit" /\ Resolutions(r) = {}
    /\ timer[r] = "emit" => Resolutions(r) = {}

\* What clients are told is what the agent was told: an ok acknowledgement
\* means the agent got exactly the chosen option, and an approval.resolved
\* event carries the outcome the agent acts on.  And everyone is told: no request
\* the agent got an answer to is left without the event once nobody works on it.
ToldTruth ==
  /\ \A r \in Requests :
       answers[r] # << >> /\ Deciding(r) = {} /\ timer[r] # "emit" => Resolutions(r) # {}
  /\ \A a \in acks : a.ok => answers[a.r] = <<a.id>>
  /\ \A i \in DOMAIN events :
       LET r == events[i].r
       IN  events[i].type = "resolved" =>
             CASE events[i].outcome = "timeout" -> answers[r] \in {<< >>, <<Cancelled>>}
               [] events[i].outcome = "approved" ->
                    answers[r] # << >> /\ answers[r][1] # Cancelled
                      /\ OptionOf(info[r].opts, answers[r][1]).kind \in AllowKinds
               [] OTHER ->
                    answers[r] # << >> /\ answers[r][1] # Cancelled
                      /\ OptionOf(info[r].opts, answers[r][1]).kind \in RejectKinds

\* The bridge never grants a persistent permission, by default choice or by an
\* explicit option id, for any options array (PERSISTENT_PERMISSION_ALLOWED).
NeverPersistent ==
  \A r \in Requests :
    answers[r] # << >> /\ answers[r][1] # Cancelled =>
      OptionOf(info[r].opts, answers[r][1]).kind # "allow_always"

Granted(r) ==
  /\ answers[r] # << >> /\ answers[r][1] # Cancelled
  /\ OptionOf(info[r].opts, answers[r][1]).kind \in AllowKinds

\* A tool activity is labelled approved_by only with an approval whose answer
\* let a tool run and whose call has the same id or the same hash: neither a
\* rejection, nor a timeout, nor a resolve that lost its race leaves a badge.
LabelsTrue ==
  \A i \in DOMAIN labels :
    LET r == labels[i].r
        k == labels[i].call
    IN  r # No =>
          /\ Granted(r)
          /\ info[r].call.tc = k.tc \/ info[r].call.hash = k.hash

\* What clients were told of each request.
Told == [r \in Requests |-> {events[i].outcome : i \in Resolutions(r)}]

Register == INSTANCE DecisionRegister
              WITH Questions <- Info, asked <- info, answer <- answers, told <- Told

\* Whatever clients, timers, lost races and the end of the agent do, the agent and
\* the clients see a register that takes one decision per request: answered once
\* while it is open, never after it was announced, with an option of its own menu
\* that is no persistent grant; announced once, as what the agent was told; and
\* announced without an answer only when there is no agent left
\* (resolve_approval, resolve_option and the timer of handle_permission_request).
OneDecision == Register!Spec

\* The timer slept out before the pump inserted the entry it is there for.
SleptOut(r) == timer[r] = "done" /\ r \in pending

\* Every permission request with a numeric id is answered, or the agent is gone:
\* silence, bad overrides, lost races and a closed session cannot leave the agent
\* waiting.  Two cases are outside it, both reachable here: a request whose id is no
\* u64 is ignored for good, and one whose timer ends between its spawn and the
\* insert (ten seconds at least: MIN_PERMISSION_TIMEOUT_MS) waits for a client alone.
EveryRequestAnswered ==
  \A r \in Requests :
    info[r] # No /\ info[r].numbered ~> (answers[r] # << >> \/ ~alive \/ SleptOut(r))
=============================================================================
