--------------------------- MODULE ExtensionTrust ---------------------------
(***************************************************************************)
(* Who may change the trust tier of an extension (extensions/handlers.rs,  *)
(* extensions/store.rs, extensions/approvals.rs).                          *)
(*                                                                         *)
(* Two files carry the state: the trust config and the list of promotion   *)
(* requests.  A writer takes the exclusive lock of the file's sidecar,     *)
(* loads the file, changes its copy and renames it into place; dropping    *)
(* the guard without a commit leaves the file alone.  The handlers of      *)
(* different connections run on different threads and block on the locks.  *)
(* approve_promotion holds both: the requests' lock from its checks to its *)
(* end and, inside it, the trust config's.                                 *)
(*                                                                         *)
(* An extension and a request stand for their ids.  A command that is      *)
(* refused before it takes a lock only acknowledges an error and is no     *)
(* step; extensions.list and extensions.list_approvals read and change     *)
(* nothing.                                                                *)
(***************************************************************************)
EXTENDS Naturals

CONSTANTS
    Extensions,     \* entries of the trust config; no command adds one
    Requests,       \* request ids new_request_id may give
    Conns,          \* connections
    Profiles,       \* profile ids of the sessions that send commands
    Seeds,          \* tiers the config may start with
    MaxCommands,    \* bound: commands that get as far as a lock
    MaxFaults,      \* bound: failed saves plus bridge crashes
    No              \* no lock holder, no decider, no request

ASSUME TrustAssumption ==
    /\ Seeds \subseteq {"allowed_bundled", "allowed_signed", "quarantined", "revoked"}
    /\ MaxCommands \in Nat
    /\ MaxFaults \in Nat
    /\ No \notin Conns \cup Profiles \cup Requests

Allowed == {"allowed_bundled", "allowed_signed"}
Tiers == Allowed \cup {"quarantined", "revoked"}

VARIABLES
    trust,          \* the trust config: the tier of each extension
    requests,       \* the promotion requests
    trustLock,      \* connection that holds the trust config's lock
    listLock,       \* connection that holds the requests' lock
    op,             \* the command each connection is executing
    saved,          \* history: requests whose promotion reached the config
    commands,       \* commands so far
    faults          \* failed saves and crashes so far

vars == <<trust, requests, trustLock, listLock, op, saved, commands, faults>>
locks == <<trustLock, listLock>>
files == <<trust, requests>>

Unused == [status |-> "unused", ext |-> No, tier |-> "revoked", by |-> No, decided |-> No]
Idle == [pc |-> "idle", ext |-> No, tier |-> "revoked", who |-> No, req |-> No,
         config |-> << >>, list |-> << >>]

Init ==
    /\ trust \in [Extensions -> Seeds]
    /\ requests = [r \in Requests |-> Unused]
    /\ trustLock = No /\ listLock = No
    /\ op = [c \in Conns |-> Idle]
    /\ saved = {}
    /\ commands = 0 /\ faults = 0

\* A command arrives and is let past the checks made before any lock.
Begin(c, pc, ext, tier, who, req) ==
    /\ op[c].pc = "idle"
    /\ commands < MaxCommands
    /\ commands' = commands + 1
    /\ op' = [op EXCEPT ![c] = [pc |-> pc, ext |-> ext, tier |-> tier, who |-> who, req |-> req,
                                config |-> << >>, list |-> << >>]]
    /\ UNCHANGED <<files, locks, saved, faults>>

\* The command goes on with the copies it has loaded.
Goto(c, pc, config, list) ==
    op' = [op EXCEPT ![c] = [pc |-> pc, ext |-> op[c].ext, tier |-> op[c].tier, who |-> op[c].who,
                             req |-> op[c].req, config |-> config, list |-> list]]
Done(c) == op' = [op EXCEPT ![c] = Idle]

Fault == faults < MaxFaults /\ faults' = faults + 1

-----------------------------------------------------------------------------
(* extensions.update_trust                                                 *)

UpdateTrust(c, x, t) == Begin(c, "update", x, t, No, No)

\* apply_update_trust: a revoked extension is not allowed again this way.
Permitted(from, to) == ~(from = "revoked" /\ to \in Allowed)

\* Mutant: loads the config before it has the lock.
UpdateLock_unlocked(c) ==
    /\ op[c].pc = "update"
    /\ Permitted(trust[op[c].ext], op[c].tier)
    /\ Goto(c, "updating", [trust EXCEPT ![op[c].ext] = op[c].tier], << >>)
    /\ UNCHANGED <<files, locks, saved, commands, faults>>

\* LockedConfig::acquire, then the change of the copy.
UpdateLock(c) ==
    /\ op[c].pc = "update"
    /\ trustLock = No
    /\ Permitted(trust[op[c].ext], op[c].tier)
    /\ trustLock' = c
    /\ Goto(c, "updating", [trust EXCEPT ![op[c].ext] = op[c].tier], << >>)
    /\ UNCHANGED <<files, listLock, saved, commands, faults>>

\* DisallowedTransition: the guard is dropped with nothing written.
UpdateRefused(c) ==
    /\ op[c].pc = "update"
    /\ trustLock = No
    /\ ~Permitted(trust[op[c].ext], op[c].tier)
    /\ Done(c)
    /\ UNCHANGED <<files, locks, saved, commands, faults>>

\* LockedConfig::commit, which drops the guard.
UpdateCommit(c) ==
    /\ op[c].pc = "updating"
    /\ trust' = op[c].config
    /\ trustLock' = No
    /\ Done(c)
    /\ UNCHANGED <<requests, listLock, saved, commands, faults>>

\* The temporary file is not renamed: the config is as before.
UpdateSaveFails(c) ==
    /\ op[c].pc = "updating"
    /\ Fault
    /\ trustLock' = No
    /\ Done(c)
    /\ UNCHANGED <<files, listLock, saved, commands>>

-----------------------------------------------------------------------------
(* extensions.request_promotion                                            *)

\* new_request_id never gives an id twice.
Fresh(r) == requests[r].status = "unused" /\ \A c \in Conns : op[c].req # r

\* store::load takes no lock: what it says may be old when the request is
\* written.
RequestPromotion(c, p, x, t, r) ==
    /\ t \in Allowed
    /\ trust[x] = "revoked"
    /\ Fresh(r)
    /\ Begin(c, "request", x, t, p, r)

\* Mutant: keeps the trust config locked while it waits for the list.
RequestLock_holds_trust(c) ==
    /\ op[c].pc = "request"
    /\ \/ trustLock = No /\ trustLock' = c /\ UNCHANGED <<op, listLock>>
       \/ /\ trustLock = c /\ listLock = No
          /\ trustLock' = No
          /\ listLock' = c
          /\ Goto(c, "requesting", << >>,
                  [requests EXCEPT ![op[c].req] =
                     [status |-> "pending", ext |-> op[c].ext, tier |-> op[c].tier,
                      by |-> op[c].who, decided |-> No]])
    /\ UNCHANGED <<files, saved, commands, faults>>

\* LockedApprovals::acquire, and a new request on the copy.
RequestLock(c) ==
    /\ op[c].pc = "request"
    /\ listLock = No
    /\ listLock' = c
    /\ Goto(c, "requesting", << >>,
            [requests EXCEPT ![op[c].req] =
               [status |-> "pending", ext |-> op[c].ext, tier |-> op[c].tier, by |-> op[c].who,
                decided |-> No]])
    /\ UNCHANGED <<files, trustLock, saved, commands, faults>>

RequestCommit(c) ==
    /\ op[c].pc = "requesting"
    /\ requests' = op[c].list
    /\ listLock' = No
    /\ Done(c)
    /\ UNCHANGED <<trust, trustLock, saved, commands, faults>>

RequestSaveFails(c) ==
    /\ op[c].pc = "requesting"
    /\ Fault
    /\ listLock' = No
    /\ Done(c)
    /\ UNCHANGED <<files, trustLock, saved, commands>>

-----------------------------------------------------------------------------
(* extensions.approve_promotion                                            *)

\* The approver names a request that some list has shown it.
ApprovePromotion(c, p, r) ==
    /\ requests[r].status # "unused"
    /\ Begin(c, "approve", requests[r].ext, requests[r].tier, p, r)

\* Mutant: whoever asks may approve.
MayApprove_anyone(p, r) == requests[r].status = "pending"

MayApprove(p, r) == requests[r].status = "pending" /\ p # requests[r].by

\* LockedApprovals::acquire and the checks of the request.
ApproveLock(c) ==
    /\ op[c].pc = "approve"
    /\ listLock = No
    /\ MayApprove(op[c].who, op[c].req)
    /\ listLock' = c
    /\ Goto(c, "promote", << >>, requests)
    /\ UNCHANGED <<files, trustLock, saved, commands, faults>>

ApproveRefused(c) ==
    /\ op[c].pc = "approve"
    /\ listLock = No
    /\ ~MayApprove(op[c].who, op[c].req)
    /\ Done(c)
    /\ UNCHANGED <<files, locks, saved, commands, faults>>

\* LockedConfig::acquire and apply_promotion_with_approval, which does not ask
\* what tier the extension has by now.
PromoteLock(c) ==
    /\ op[c].pc = "promote"
    /\ trustLock = No
    /\ trustLock' = c
    /\ Goto(c, "promoting", [trust EXCEPT ![op[c].ext] = op[c].tier], op[c].list)
    /\ UNCHANGED <<files, listLock, saved, commands, faults>>

\* The trust config is committed first ...
PromoteCommit(c) ==
    /\ op[c].pc = "promoting"
    /\ trust' = op[c].config
    /\ trustLock' = No
    /\ saved' = saved \cup {op[c].req}
    /\ Goto(c, "approving", << >>, [op[c].list EXCEPT ![op[c].req] =
              [status |-> "approved", ext |-> @.ext, tier |-> @.tier, by |-> @.by,
               decided |-> op[c].who]])
    /\ UNCHANGED <<requests, listLock, commands, faults>>

PromoteSaveFails(c) ==
    /\ op[c].pc = "promoting"
    /\ Fault
    /\ trustLock' = No /\ listLock' = No
    /\ Done(c)
    /\ UNCHANGED <<files, saved, commands>>

\* ... then the list with the request approved.
ApproveCommit(c) ==
    /\ op[c].pc = "approving"
    /\ requests' = op[c].list
    /\ listLock' = No
    /\ Done(c)
    /\ UNCHANGED <<trust, trustLock, saved, commands, faults>>

\* When this save fails the promotion stands and the request stays pending.
ApproveSaveFails(c) ==
    /\ op[c].pc = "approving"
    /\ Fault
    /\ listLock' = No
    /\ Done(c)
    /\ UNCHANGED <<files, trustLock, saved, commands>>

-----------------------------------------------------------------------------
\* The bridge dies between any two steps and starts again: the kernel drops
\* its file locks, the two files are what the last renames made them.
BridgeCrash ==
    /\ Fault
    /\ op' = [c \in Conns |-> Idle]
    /\ trustLock' = No /\ listLock' = No
    /\ UNCHANGED <<files, saved, commands>>

CommandStep(c) ==
    \/ UpdateLock(c) \/ UpdateRefused(c) \/ UpdateCommit(c)
    \/ RequestLock(c) \/ RequestCommit(c)
    \/ ApproveLock(c) \/ ApproveRefused(c) \/ PromoteLock(c) \/ PromoteCommit(c)
    \/ ApproveCommit(c)

SaveFails(c) ==
    UpdateSaveFails(c) \/ RequestSaveFails(c) \/ PromoteSaveFails(c) \/ ApproveSaveFails(c)

Next ==
    \/ \E c \in Conns :
        \/ \E x \in Extensions, t \in Tiers : UpdateTrust(c, x, t)
        \/ \E p \in Profiles, x \in Extensions, t \in Tiers, r \in Requests :
             RequestPromotion(c, p, x, t, r)
        \/ \E p \in Profiles, r \in Requests : ApprovePromotion(c, p, r)
        \/ CommandStep(c) \/ SaveFails(c)
    \/ BridgeCrash

Spec == Init /\ [][Next]_vars

\* A thread that can go on does.  The kernel promises no order among threads
\* blocked on one lock; with finitely many commands none waits for ever.
FairSpec == Spec /\ \A c \in Conns : WF_vars(CommandStep(c))

-----------------------------------------------------------------------------
RequestRecords ==
    [status : {"unused", "pending", "approved"}, ext : Extensions \cup {No}, tier : Tiers,
     by : Profiles \cup {No}, decided : Profiles \cup {No}]

Stages == {"idle", "update", "updating", "request", "requesting", "approve", "promote",
           "promoting", "approving"}

OpTypes(o) ==
    /\ DOMAIN o = {"pc", "ext", "tier", "who", "req", "config", "list"}
    /\ o.pc \in Stages
    /\ o.tier \in Tiers
    /\ o.pc # "idle" => o.ext \in Extensions
    /\ o.pc \in {"request", "requesting"} => o.tier \in Allowed
    /\ o.pc \notin {"idle", "update", "updating"} => o.who \in Profiles
    /\ o.pc \notin {"idle", "update", "updating"} => o.req \in Requests
    /\ o.pc \in {"updating", "promoting"} => o.config \in [Extensions -> Tiers]
    /\ o.pc \in {"requesting", "promote", "promoting", "approving"} =>
         o.list \in [Requests -> RequestRecords]

TypeOK ==
    /\ trust \in [Extensions -> Tiers]
    /\ requests \in [Requests -> RequestRecords]
    /\ \A r \in Requests : requests[r].status # "unused" => requests[r].ext \in Extensions
    /\ trustLock \in Conns \cup {No}
    /\ listLock \in Conns \cup {No}
    /\ DOMAIN op = Conns
    /\ \A c \in Conns : OpTypes(op[c])
    /\ saved \subseteq Requests
    /\ commands \in Nat /\ faults \in Nat

\* Two-party promotion (approvals.rs: "validates that the approver !=
\* requester via `profile_id`, then applies the trust update"): however
\* commands, failed saves and crashes interleave, a revoked extension becomes
\* allowed only in the commit of an approval that another profile than the
\* requester's makes of a request for that extension and tier that nobody has
\* decided yet.
PromotionIsJoint ==
    [][\A x \in Extensions :
         trust[x] = "revoked" /\ trust'[x] \in Allowed =>
           \E c \in Conns, r \in Requests :
             /\ op[c].pc = "promoting" /\ op[c].req = r
             /\ requests[r].status = "pending"
             /\ requests[r].ext = x /\ requests[r].tier = trust'[x]
             /\ requests[r].by # op[c].who]_vars

Policy == INSTANCE TrustPolicy WITH applied <- saved

\* To whoever reads the two files, each command acts at once, whatever locks,
\* copies, failed saves and crashes it goes through: no commit brings back what
\* another one has changed, no request is lost, changed or reopened, and a
\* promotion is the decision of a second profile (the locked reload of store.rs,
\* "TOCTOU fix", and approvals.rs).
ActsAtOnce == Policy!Spec

\* The list never claims a promotion the trust config did not get: an approved
\* request was applied and saved first, by another profile than the
\* requester's.  (The converse does not hold: see ApproveSaveFails.)
ApprovedWasApplied ==
    \A r \in Requests :
      requests[r].status = "approved" => r \in saved /\ requests[r].decided # requests[r].by

\* Every command ends, so the two locks are never waited for in a circle.
EveryCommandEnds == \A c \in Conns : op[c].pc # "idle" ~> op[c].pc = "idle"
=============================================================================
