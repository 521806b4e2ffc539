----------------------------- MODULE TrustPolicy -----------------------------
(****************************************************************************)
(* What the commands on extension trust promise, with no files, locks or    *)
(* copies: each of them happens at once.  A promotion takes two steps, the  *)
(* tier first and the request after it, because the bridge may die between  *)
(* the two.  ExtensionTrust implements this specification.                  *)
(****************************************************************************)
CONSTANTS Extensions, Requests, Profiles, Seeds, No

VARIABLES
    trust,      \* the tier of each extension
    requests,   \* the promotion requests
    applied     \* requests whose tier the extension has been given

Allowed == {"allowed_bundled", "allowed_signed"}
Tiers == Allowed \cup {"quarantined", "revoked"}
Unused == [status |-> "unused", ext |-> No, tier |-> "revoked", by |-> No, decided |-> No]

Init ==
    /\ trust \in [Extensions -> Seeds]
    /\ requests = [r \in Requests |-> Unused]
    /\ applied = {}

\* apply_update_trust: only a promotion allows what was revoked.
SetTier(x, t) ==
    /\ ~(trust[x] = "revoked" /\ t \in Allowed)
    /\ trust' = [trust EXCEPT ![x] = t]
    /\ UNCHANGED <<requests, applied>>

\* A new request is added and no other is touched.
File(r, x, t, p) ==
    /\ requests[r].status = "unused"
    /\ requests' = [requests EXCEPT ![r] =
         [status |-> "pending", ext |-> x, tier |-> t, by |-> p, decided |-> No]]
    /\ UNCHANGED <<trust, applied>>

\* The second party: not the profile that asked.
MayDecide(r, p) == requests[r].status = "pending" /\ p # requests[r].by

Promote(r) ==
    /\ trust' = [trust EXCEPT ![requests[r].ext] = requests[r].tier]
    /\ applied' = applied \cup {r}
    /\ UNCHANGED requests

Approve(r, p) ==
    /\ r \in applied
    /\ requests' = [requests EXCEPT ![r] =
         [status |-> "approved", ext |-> requests[r].ext, tier |-> requests[r].tier,
          by |-> requests[r].by, decided |-> p]]
    /\ UNCHANGED <<trust, applied>>

Next ==
    \/ \E x \in Extensions, t \in Tiers : SetTier(x, t)
    \/ \E r \in Requests, x \in Extensions, t \in Allowed, p \in Profiles : File(r, x, t, p)
    \/ \E r \in Requests, p \in Profiles : MayDecide(r, p) /\ (Promote(r) \/ Approve(r, p))

Spec == Init /\ [][Next]_<<trust, requests, applied>>
=============================================================================
