----------------------------- MODULE MCApprovals -----------------------------
(* A small instance of Approvals for TLC, in two halves that share a run: in  *)
(* "race" two clients decide over any menu and the agent reports nothing; in  *)
(* "labels" one client decides requests with the usual menu while the agent   *)
(* reports tool calls.  Only what the environment does differs; every step of *)
(* the bridge is in both.  The second request comes with the usual menu.      *)
EXTENDS Approvals

CONSTANTS r1, r2, c1, c2, a, b, t1, t2, h1, h2

MCRequests == {r1, r2}
MCClients == {c1, c2}
MCIds == {a, b}

Opt(id, kind) == [id |-> id, kind |-> kind]

\* The usual menu; one with only a persistent grant next to a reject; one whose
\* ids collide and whose first entry has no id; one with unknown kinds only.
MCOptionLists ==
  { <<Opt(a, "allow_once"), Opt(b, "reject_once")>>,
    <<Opt(a, "allow_always"), Opt(b, "reject_other")>>,
    <<Opt(No, "allow_once"), Opt(a, "allow_always"), Opt(a, "allow_once")>>,
    <<Opt(a, "other"), Opt(b, "allow_other")>> }

MCPlainMenu == <<Opt(a, "allow_once"), Opt(b, "reject_once")>>

\* Permission is asked for a call with an id and, in "labels", one without.
MCOneCall == [tc |-> t1, hash |-> h1]
MCCalls == {MCOneCall, [tc |-> No, hash |-> h2]}

\* What the agent reports: the same call, it again under a rotated id, the call
\* that had no id, and an update without any field to hash.
MCActivities ==
  {[tc |-> t1, hash |-> h1], [tc |-> t2, hash |-> h1],
   [tc |-> t2, hash |-> h2], [tc |-> t1, hash |-> No]}

-----------------------------------------------------------------------------
VARIABLE half

Asked(r, opts, call) ==
  /\ IF half = "race" THEN call = MCOneCall ELSE opts = MCPlainMenu
  /\ r = r1 \/ opts = MCPlainMenu
  /\ \/ AgentAsks(r, opts, call)
     \/ /\ opts = MCPlainMenu /\ call = MCOneCall
        /\ AgentAsksUnnumbered(r, opts, call)

Here(A) == A /\ half' = half

\* Next, the environment's choices cut to the half.
MCNext ==
  \/ \E r \in Requests, opts \in OptionLists, call \in Calls : Here(Asked(r, opts, call))
  \/ Here(AgentExits) \/ Here(SessionClose)
  \/ Here(PumpArm) \/ Here(PumpRegister) \/ Here(PumpEmit)
  \/ \E r \in Requests :
       Here(TimerFire(r)) \/ Here(TimerMiss(r)) \/ Here(TimerEmit(r)) \/ Here(TtlPasses(r))
  \/ \E c \in Clients, r \in Requests, intent \in Intents, explicit \in Ids \cup {No} :
       Here((half = "race" \/ c = c1) /\ ResolveChoose(c, r, intent, explicit))
  \/ \E c \in Clients :
       \/ Here(ResolveTake(c)) \/ Here(ResolveLost(c)) \/ Here(ResolveRespond(c))
       \/ Here(ResolveUnreachable(c)) \/ Here(ResolveRecord(c)) \/ Here(ResolveEmit(c))
  \/ \E k \in Activities : Here(half = "labels" /\ LookupByCall(k))
  \/ Here(SweepByCall) \/ Here(LookupByHash) \/ Here(SweepByHash)

MCInit == Init /\ half \in {"race", "labels"}

MCSpec ==
  /\ MCInit
  /\ [][MCNext]_<<vars, half>> /\ Fairness
=============================================================================
