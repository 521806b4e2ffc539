------------------------ MODULE ExtensionTrust_proofs ------------------------
(***************************************************************************)
(* Proofs about ExtensionTrust, for any extensions, connections, profiles  *)
(* and requests.  What makes the promotion safe is what the lock holders   *)
(* may rely on: the copy each of them loaded still is the file, but for    *)
(* its own change.                                                         *)
(***************************************************************************)
EXTENDS ExtensionTrust, TLAPS

\* Whoever is about to write the trust config holds its lock, and its copy is
\* the config with its own change, which is a permitted one.
TrustHeld ==
  \A c \in Conns :
    op[c].pc \in {"updating", "promoting"} =>
      /\ trustLock = c
      /\ op[c].config = [trust EXCEPT ![op[c].ext] = op[c].tier]
      /\ op[c].pc = "updating" => Permitted(trust[op[c].ext], op[c].tier)

\* Whoever is about to write the requests, or has checked one, holds their lock.
ListHeld ==
  \A c \in Conns :
    op[c].pc \in {"requesting", "promote", "promoting", "approving"} => listLock = c

\* Its copy is the list with its own change.
ListCopy ==
  \A c \in Conns :
    /\ op[c].pc = "requesting" =>
         op[c].list = [requests EXCEPT ![op[c].req] =
           [status |-> "pending", ext |-> op[c].ext, tier |-> op[c].tier, by |-> op[c].who,
            decided |-> No]]
    /\ op[c].pc \in {"promote", "promoting"} => op[c].list = requests
    /\ op[c].pc = "approving" =>
         op[c].list = [requests EXCEPT ![op[c].req] =
           [status |-> "approved", ext |-> requests[op[c].req].ext,
            tier |-> requests[op[c].req].tier, by |-> requests[op[c].req].by,
            decided |-> op[c].who]]

\* An approval is about a stored request, and still may approve it once it has
\* the lock.
Known ==
  \A c \in Conns :
    /\ op[c].pc \in {"approve", "promote", "promoting", "approving"} =>
         /\ requests[op[c].req].status # "unused"
         /\ requests[op[c].req].ext = op[c].ext
         /\ requests[op[c].req].tier = op[c].tier
    /\ op[c].pc \in {"promote", "promoting", "approving"} => MayApprove(op[c].who, op[c].req)
    /\ op[c].pc = "approving" => op[c].req \in saved

\* The id of a request that is being written is nobody else's.
FreshIds ==
  \A c \in Conns :
    op[c].pc \in {"request", "requesting"} =>
      /\ requests[op[c].req].status = "unused"
      /\ \A d \in Conns : op[d].req = op[c].req => d = c

\* The inductive invariant.
Inv ==
  /\ TypeOK
  /\ TrustHeld
  /\ ListHeld
  /\ ListCopy
  /\ Known
  /\ FreshIds
  /\ ApprovedWasApplied

-----------------------------------------------------------------------------
\* UpdateTrust keeps the invariant.
LEMMA UpdateTrustKeeps ==
  ASSUME Inv, NEW c \in Conns, NEW x \in Extensions, NEW t \in Tiers,
         UpdateTrust(c, x, t)
  PROVE  Inv'
<1>1. TypeOK'
  BY DEF Inv, TypeOK, OpTypes, Stages, Tiers, UpdateTrust, Begin, files, locks
<1>2. TrustHeld'
  BY DEF Inv, TypeOK, TrustHeld, UpdateTrust, Begin, files, locks
<1>3. ListHeld'
  BY DEF Inv, TypeOK, ListHeld, UpdateTrust, Begin, files, locks
<1>4. ListCopy'
  BY DEF Inv, TypeOK, ListHeld, ListCopy, UpdateTrust, Begin, files, locks
<1>5. Known'
  BY DEF Inv, TypeOK, Known, MayApprove, UpdateTrust, Begin, files, locks
<1>6. FreshIds'
  BY TrustAssumption DEF Inv, TypeOK, OpTypes, FreshIds, UpdateTrust, Begin, files, locks
<1>7. ApprovedWasApplied'
  BY DEF Inv, ApprovedWasApplied, UpdateTrust, Begin, files, locks
<1> QED
  BY <1>1, <1>2, <1>3, <1>4, <1>5, <1>6, <1>7 DEF Inv

\* RequestPromotion keeps the invariant.
LEMMA RequestPromotionKeeps ==
  ASSUME Inv, NEW c \in Conns, NEW p \in Profiles, NEW x \in Extensions, NEW t \in Tiers,
         NEW r \in Requests,
         RequestPromotion(c, p, x, t, r)
  PROVE  Inv'
<1>1. TypeOK'
  BY DEF Inv, TypeOK, OpTypes, Stages, Tiers, RequestPromotion, Begin, Fresh, files, locks
<1>2. TrustHeld'
  BY DEF Inv, TypeOK, TrustHeld, RequestPromotion, Begin, Fresh, files, locks
<1>3. ListHeld'
  BY DEF Inv, TypeOK, ListHeld, RequestPromotion, Begin, Fresh, files, locks
<1>4. ListCopy'
  BY DEF Inv, TypeOK, ListHeld, ListCopy, RequestPromotion, Begin, Fresh, files, locks
<1>5. Known'
  BY DEF Inv, TypeOK, Known, MayApprove, RequestPromotion, Begin, Fresh, files, locks
<1>6. FreshIds'
  BY TrustAssumption
  DEF Inv, TypeOK, OpTypes, FreshIds, RequestPromotion, Begin, Fresh, files, locks
<1>7. ApprovedWasApplied'
  BY DEF Inv, ApprovedWasApplied, RequestPromotion, Begin, Fresh, files, locks
<1> QED
  BY <1>1, <1>2, <1>3, <1>4, <1>5, <1>6, <1>7 DEF Inv

\* ApprovePromotion keeps the invariant.
LEMMA ApprovePromotionKeeps ==
  ASSUME Inv, NEW c \in Conns, NEW p \in Profiles, NEW r \in Requests,
         ApprovePromotion(c, p, r)
  PROVE  Inv'
<1>1. TypeOK'
  BY TrustAssumption
  DEF Inv, TypeOK, OpTypes, RequestRecords, Stages, Tiers, Allowed, ApprovePromotion, Begin,
      Idle, files, locks, MayApprove
<1>2. TrustHeld'
  BY DEF Inv, TypeOK, TrustHeld, ApprovePromotion, Begin, files, locks
<1>3. ListHeld'
  BY DEF Inv, TypeOK, ListHeld, ApprovePromotion, Begin, files, locks
<1>4. ListCopy'
  BY DEF Inv, TypeOK, ListHeld, ListCopy, ApprovePromotion, Begin, files, locks
<1>5. Known'
  BY DEF Inv, TypeOK, Known, MayApprove, ApprovePromotion, Begin, files, locks
<1>6. FreshIds'
  BY TrustAssumption DEF Inv, TypeOK, OpTypes, FreshIds, ApprovePromotion, Begin, files, locks
<1>7. ApprovedWasApplied'
  BY DEF Inv, ApprovedWasApplied, ApprovePromotion, Begin, files, locks
<1> QED
  BY <1>1, <1>2, <1>3, <1>4, <1>5, <1>6, <1>7 DEF Inv

\* UpdateLock keeps the invariant.
LEMMA UpdateLockKeeps ==
  ASSUME Inv, NEW c \in Conns,
         UpdateLock(c)
  PROVE  Inv'
<1>1. TypeOK'
  BY DEF Inv, TypeOK, OpTypes, Stages, Tiers, UpdateLock, Goto, files
<1>2. TrustHeld'
  BY TrustAssumption DEF Inv, TypeOK, TrustHeld, UpdateLock, Goto, files, Permitted
<1>3. ListHeld'
  BY DEF Inv, TypeOK, ListHeld, UpdateLock, Goto, files
<1>4. ListCopy'
  BY DEF Inv, TypeOK, ListHeld, ListCopy, UpdateLock, Goto, files
<1>5. Known'
  BY DEF Inv, TypeOK, Known, MayApprove, UpdateLock, Goto, files
<1>6. FreshIds'
  BY TrustAssumption DEF Inv, TypeOK, OpTypes, FreshIds, UpdateLock, Goto, files
<1>7. ApprovedWasApplied'
  BY DEF Inv, ApprovedWasApplied, UpdateLock, Goto, files
<1> QED
  BY <1>1, <1>2, <1>3, <1>4, <1>5, <1>6, <1>7 DEF Inv

\* UpdateRefused keeps the invariant.
LEMMA UpdateRefusedKeeps ==
  ASSUME Inv, NEW c \in Conns,
         UpdateRefused(c)
  PROVE  Inv'
<1>1. TypeOK'
  BY DEF Inv, TypeOK, OpTypes, Stages, Tiers, UpdateRefused, Done, Idle, files, locks
<1>2. TrustHeld'
  BY TrustAssumption DEF Inv, TypeOK, TrustHeld, UpdateRefused, Done, Idle, files, locks
<1>3. ListHeld'
  BY DEF Inv, TypeOK, ListHeld, UpdateRefused, Done, Idle, files, locks
<1>4. ListCopy'
  BY DEF Inv, TypeOK, ListHeld, ListCopy, UpdateRefused, Done, Idle, files, locks
<1>5. Known'
  BY DEF Inv, TypeOK, Known, MayApprove, UpdateRefused, Done, Idle, files, locks
<1>6. FreshIds'
  BY TrustAssumption DEF Inv, TypeOK, OpTypes, FreshIds, UpdateRefused, Done, Idle, files, locks
<1>7. ApprovedWasApplied'
  BY DEF Inv, ApprovedWasApplied, UpdateRefused, Done, Idle, files, locks
<1> QED
  BY <1>1, <1>2, <1>3, <1>4, <1>5, <1>6, <1>7 DEF Inv

\* UpdateCommit keeps the invariant.
LEMMA UpdateCommitKeeps ==
  ASSUME Inv, NEW c \in Conns,
         UpdateCommit(c)
  PROVE  Inv'
<1>1. TypeOK'
  BY DEF Inv, TypeOK, OpTypes, Stages, Tiers, UpdateCommit, Done, Idle
<1>2. TrustHeld'
  BY DEF Inv, TypeOK, TrustHeld, UpdateCommit, Done, Idle
<1>3. ListHeld'
  BY DEF Inv, TypeOK, ListHeld, UpdateCommit, Done, Idle
<1>4. ListCopy'
  BY DEF Inv, TypeOK, ListHeld, ListCopy, UpdateCommit, Done, Idle
<1>5. Known'
  BY DEF Inv, TypeOK, Known, MayApprove, UpdateCommit, Done, Idle
<1>6. FreshIds'
  BY TrustAssumption DEF Inv, TypeOK, OpTypes, FreshIds, UpdateCommit, Done, Idle
<1>7. ApprovedWasApplied'
  BY DEF Inv, ApprovedWasApplied, UpdateCommit, Done, Idle
<1> QED
  BY <1>1, <1>2, <1>3, <1>4, <1>5, <1>6, <1>7 DEF Inv

\* UpdateSaveFails keeps the invariant.
LEMMA UpdateSaveFailsKeeps ==
  ASSUME Inv, NEW c \in Conns,
         UpdateSaveFails(c)
  PROVE  Inv'
<1>1. TypeOK'
  BY DEF Inv, TypeOK, OpTypes, Stages, Tiers, UpdateSaveFails, Done, Fault, Idle, files
<1>2. TrustHeld'
  BY DEF Inv, TypeOK, TrustHeld, UpdateSaveFails, Done, Fault, Idle, files
<1>3. ListHeld'
  BY DEF Inv, TypeOK, ListHeld, UpdateSaveFails, Done, Fault, Idle, files
<1>4. ListCopy'
  BY DEF Inv, TypeOK, ListHeld, ListCopy, UpdateSaveFails, Done, Fault, Idle, files
<1>5. Known'
  BY DEF Inv, TypeOK, Known, MayApprove, UpdateSaveFails, Done, Fault, Idle, files
<1>6. FreshIds'
  BY TrustAssumption
  DEF Inv, TypeOK, OpTypes, FreshIds, UpdateSaveFails, Done, Fault, Idle, files
<1>7. ApprovedWasApplied'
  BY DEF Inv, ApprovedWasApplied, UpdateSaveFails, Done, Fault, Idle, files
<1> QED
  BY <1>1, <1>2, <1>3, <1>4, <1>5, <1>6, <1>7 DEF Inv

\* RequestLock keeps the invariant.
LEMMA RequestLockKeeps ==
  ASSUME Inv, NEW c \in Conns,
         RequestLock(c)
  PROVE  Inv'
<1>1. TypeOK'
  BY TrustAssumption
  DEF Inv, TypeOK, OpTypes, RequestRecords, Stages, Tiers, Allowed, RequestLock, Goto, Idle,
      files, locks
<1>2. TrustHeld'
  BY DEF Inv, TypeOK, TrustHeld, RequestLock, Goto, files
<1>3. ListHeld'
  BY TrustAssumption DEF Inv, TypeOK, ListHeld, RequestLock, Goto, files
<1>4. ListCopy'
  BY DEF Inv, TypeOK, ListHeld, ListCopy, RequestLock, Goto, files
<1>5. Known'
  BY DEF Inv, TypeOK, Known, MayApprove, RequestLock, Goto, files
<1>6. FreshIds'
  BY TrustAssumption DEF Inv, TypeOK, OpTypes, FreshIds, RequestLock, Goto, files
<1>7. ApprovedWasApplied'
  BY DEF Inv, ApprovedWasApplied, RequestLock, Goto, files
<1> QED
  BY <1>1, <1>2, <1>3, <1>4, <1>5, <1>6, <1>7 DEF Inv

\* RequestCommit keeps the invariant.
LEMMA RequestCommitKeeps ==
  ASSUME Inv, NEW c \in Conns,
         RequestCommit(c)
  PROVE  Inv'
<1>0. /\ listLock = c /\ op[c].pc = "requesting"
      /\ op[c].ext \in Extensions /\ op[c].tier \in Tiers /\ op[c].who \in Profiles
      /\ op[c].req \in Requests /\ requests[op[c].req].status = "unused"
      /\ requests' = [requests EXCEPT ![op[c].req] =
           [status |-> "pending", ext |-> op[c].ext, tier |-> op[c].tier, by |-> op[c].who,
            decided |-> No]]
  BY DEF Inv, TypeOK, OpTypes, ListHeld, ListCopy, FreshIds, RequestCommit
<1>1. TypeOK'
  BY <1>0, TrustAssumption
  DEF Inv, TypeOK, OpTypes, RequestRecords, Stages, Tiers, MayApprove, RequestCommit, Done, Idle
<1>2. TrustHeld'
  BY <1>0, TrustAssumption DEF Inv, TypeOK, TrustHeld, RequestCommit, Done, Idle
<1>3. ListHeld'
  BY <1>0, TrustAssumption DEF Inv, TypeOK, ListHeld, RequestCommit, Done, Idle
<1>4. ListCopy'
  BY <1>0, TrustAssumption DEF Inv, TypeOK, ListHeld, ListCopy, RequestCommit, Done, Idle
<1>5. Known'
  BY <1>0, TrustAssumption
  DEF Inv, TypeOK, OpTypes, ListHeld, Known, MayApprove, RequestCommit, Done, Idle
<1>6. FreshIds'
  BY <1>0, TrustAssumption
  DEF Inv, TypeOK, OpTypes, ListHeld, FreshIds, Known, MayApprove, RequestCommit, Done, Idle
<1>7. ApprovedWasApplied'
  BY <1>0, TrustAssumption
  DEF Inv, TypeOK, ApprovedWasApplied, MayApprove, RequestCommit, Done, Idle
<1> QED
  BY <1>1, <1>2, <1>3, <1>4, <1>5, <1>6, <1>7 DEF Inv

\* RequestSaveFails keeps the invariant.
LEMMA RequestSaveFailsKeeps ==
  ASSUME Inv, NEW c \in Conns,
         RequestSaveFails(c)
  PROVE  Inv'
<1>1. TypeOK'
  BY DEF Inv, TypeOK, OpTypes, Stages, Tiers, RequestSaveFails, Done, Fault, Idle, files
<1>2. TrustHeld'
  BY DEF Inv, TypeOK, TrustHeld, RequestSaveFails, Done, Fault, Idle, files
<1>3. ListHeld'
  BY DEF Inv, TypeOK, ListHeld, RequestSaveFails, Done, Fault, Idle, files
<1>4. ListCopy'
  BY DEF Inv, TypeOK, ListHeld, ListCopy, RequestSaveFails, Done, Fault, Idle, files
<1>5. Known'
  BY DEF Inv, TypeOK, Known, MayApprove, RequestSaveFails, Done, Fault, Idle, files
<1>6. FreshIds'
  BY TrustAssumption
  DEF Inv, TypeOK, OpTypes, FreshIds, RequestSaveFails, Done, Fault, Idle, files
<1>7. ApprovedWasApplied'
  BY DEF Inv, ApprovedWasApplied, RequestSaveFails, Done, Fault, Idle, files
<1> QED
  BY <1>1, <1>2, <1>3, <1>4, <1>5, <1>6, <1>7 DEF Inv

\* ApproveLock keeps the invariant.
LEMMA ApproveLockKeeps ==
  ASSUME Inv, NEW c \in Conns,
         ApproveLock(c)
  PROVE  Inv'
<1>1. TypeOK'
  BY DEF Inv, TypeOK, OpTypes, Stages, Tiers, ApproveLock, Goto, files
<1>2. TrustHeld'
  BY DEF Inv, TypeOK, TrustHeld, ApproveLock, Goto, files
<1>3. ListHeld'
  BY TrustAssumption DEF Inv, TypeOK, ListHeld, ApproveLock, Goto, files
<1>4. ListCopy'
  BY DEF Inv, TypeOK, ListHeld, ListCopy, ApproveLock, Goto, files
<1>5. Known'
  BY DEF Inv, TypeOK, Known, MayApprove, ApproveLock, Goto, files
<1>6. FreshIds'
  BY TrustAssumption DEF Inv, TypeOK, OpTypes, FreshIds, ApproveLock, Goto, files
<1>7. ApprovedWasApplied'
  BY DEF Inv, ApprovedWasApplied, ApproveLock, Goto, files
<1> QED
  BY <1>1, <1>2, <1>3, <1>4, <1>5, <1>6, <1>7 DEF Inv

\* ApproveRefused keeps the invariant.
LEMMA ApproveRefusedKeeps ==
  ASSUME Inv, NEW c \in Conns,
         ApproveRefused(c)
  PROVE  Inv'
<1>1. TypeOK'
  BY DEF Inv, TypeOK, OpTypes, Stages, Tiers, ApproveRefused, Done, Idle, files, locks
<1>2. TrustHeld'
  BY DEF Inv, TypeOK, TrustHeld, ApproveRefused, Done, Idle, files, locks
<1>3. ListHeld'
  BY TrustAssumption DEF Inv, TypeOK, ListHeld, ApproveRefused, Done, Idle, files, locks
<1>4. ListCopy'
  BY DEF Inv, TypeOK, ListHeld, ListCopy, ApproveRefused, Done, Idle, files, locks
<1>5. Known'
  BY DEF Inv, TypeOK, Known, MayApprove, ApproveRefused, Done, Idle, files, locks
<1>6. FreshIds'
  BY TrustAssumption
  DEF Inv, TypeOK, OpTypes, FreshIds, ApproveRefused, Done, Idle, files, locks
<1>7. ApprovedWasApplied'
  BY DEF Inv, ApprovedWasApplied, ApproveRefused, Done, Idle, files, locks
<1> QED
  BY <1>1, <1>2, <1>3, <1>4, <1>5, <1>6, <1>7 DEF Inv

\* PromoteLock keeps the invariant.
LEMMA PromoteLockKeeps ==
  ASSUME Inv, NEW c \in Conns,
         PromoteLock(c)
  PROVE  Inv'
<1>1. TypeOK'
  BY DEF Inv, TypeOK, OpTypes, Stages, Tiers, PromoteLock, Goto, files
<1>2. TrustHeld'
  BY TrustAssumption DEF Inv, TypeOK, TrustHeld, PromoteLock, Goto, files
<1>3. ListHeld'
  BY DEF Inv, TypeOK, ListHeld, PromoteLock, Goto, files
<1>4. ListCopy'
  BY DEF Inv, TypeOK, ListHeld, ListCopy, PromoteLock, Goto, files
<1>5. Known'
  BY DEF Inv, TypeOK, Known, MayApprove, PromoteLock, Goto, files
<1>6. FreshIds'
  BY TrustAssumption DEF Inv, TypeOK, OpTypes, FreshIds, PromoteLock, Goto, files
<1>7. ApprovedWasApplied'
  BY DEF Inv, ApprovedWasApplied, PromoteLock, Goto, files
<1> QED
  BY <1>1, <1>2, <1>3, <1>4, <1>5, <1>6, <1>7 DEF Inv

\* PromoteCommit keeps the invariant.
LEMMA PromoteCommitKeeps ==
  ASSUME Inv, NEW c \in Conns,
         PromoteCommit(c)
  PROVE  Inv'
<1>1. TypeOK'
  <2>1. /\ op[c].pc = "promoting" /\ OpTypes(op[c])
        /\ op[c].req \in Requests /\ op[c].who \in Profiles
        /\ op[c].config \in [Extensions -> Tiers]
        /\ op[c].list \in [Requests -> RequestRecords]
    BY DEF Inv, TypeOK, OpTypes, PromoteCommit
  <2> DEFINE r == op[c].req
             list == [op[c].list EXCEPT ![r] =
                       [status |-> "approved", ext |-> @.ext, tier |-> @.tier, by |-> @.by,
                        decided |-> op[c].who]]
  <2>2. list \in [Requests -> RequestRecords]
    BY <2>1 DEF RequestRecords
  <2>3. OpTypes([pc |-> "approving", ext |-> op[c].ext, tier |-> op[c].tier, who |-> op[c].who,
                 req |-> op[c].req, config |-> << >>, list |-> list])
    <3>. HIDE DEF list
    <3>. QED BY <2>1, <2>2 DEF OpTypes, Stages
  <2>4. op' = [op EXCEPT ![c] = [pc |-> "approving", ext |-> op[c].ext, tier |-> op[c].tier,
                                 who |-> op[c].who, req |-> op[c].req, config |-> << >>,
                                 list |-> list]]
    BY DEF PromoteCommit, Goto
  <2>. HIDE DEF list
  <2>5. DOMAIN op' = Conns /\ \A d \in Conns : OpTypes(op'[d])
    BY <2>3, <2>4 DEF Inv, TypeOK
  <2>. QED BY <2>1, <2>5 DEF Inv, TypeOK, PromoteCommit
<1>2. TrustHeld'
  BY DEF Inv, TypeOK, TrustHeld, PromoteCommit, Goto
<1>3. ListHeld'
  BY DEF Inv, TypeOK, ListHeld, PromoteCommit, Goto
<1>4. ListCopy'
  BY DEF Inv, TypeOK, ListHeld, ListCopy, PromoteCommit, Goto
<1>5. Known'
  BY DEF Inv, TypeOK, Known, MayApprove, PromoteCommit, Goto
<1>6. FreshIds'
  BY TrustAssumption DEF Inv, TypeOK, OpTypes, FreshIds, PromoteCommit, Goto
<1>7. ApprovedWasApplied'
  BY DEF Inv, ApprovedWasApplied, PromoteCommit, Goto
<1> QED
  BY <1>1, <1>2, <1>3, <1>4, <1>5, <1>6, <1>7 DEF Inv

\* PromoteSaveFails keeps the invariant.
LEMMA PromoteSaveFailsKeeps ==
  ASSUME Inv, NEW c \in Conns,
         PromoteSaveFails(c)
  PROVE  Inv'
<1>1. TypeOK'
  BY DEF Inv, TypeOK, OpTypes, Stages, Tiers, PromoteSaveFails, Done, Fault, Idle, files
<1>2. TrustHeld'
  BY DEF Inv, TypeOK, TrustHeld, PromoteSaveFails, Done, Fault, Idle, files
<1>3. ListHeld'
  BY DEF Inv, TypeOK, ListHeld, PromoteSaveFails, Done, Fault, Idle, files
<1>4. ListCopy'
  BY DEF Inv, TypeOK, ListHeld, ListCopy, PromoteSaveFails, Done, Fault, Idle, files
<1>5. Known'
  BY DEF Inv, TypeOK, Known, MayApprove, PromoteSaveFails, Done, Fault, Idle, files
<1>6. FreshIds'
  BY TrustAssumption
  DEF Inv, TypeOK, OpTypes, FreshIds, PromoteSaveFails, Done, Fault, Idle, files
<1>7. ApprovedWasApplied'
  BY DEF Inv, ApprovedWasApplied, PromoteSaveFails, Done, Fault, Idle, files
<1> QED
  BY <1>1, <1>2, <1>3, <1>4, <1>5, <1>6, <1>7 DEF Inv

\* ApproveCommit keeps the invariant.
LEMMA ApproveCommitKeeps ==
  ASSUME Inv, NEW c \in Conns,
         ApproveCommit(c)
  PROVE  Inv'
<1>0. /\ listLock = c /\ op[c].pc = "approving"
      /\ op[c].who \in Profiles /\ op[c].req \in Requests /\ op[c].req \in saved
      /\ MayApprove(op[c].who, op[c].req)
      /\ requests' = [requests EXCEPT ![op[c].req] =
           [status |-> "approved", ext |-> requests[op[c].req].ext,
            tier |-> requests[op[c].req].tier, by |-> requests[op[c].req].by,
            decided |-> op[c].who]]
  BY DEF Inv, TypeOK, OpTypes, ListHeld, ListCopy, Known, ApproveCommit
<1>1. TypeOK'
  BY <1>0, TrustAssumption
  DEF Inv, TypeOK, OpTypes, RequestRecords, Stages, Tiers, MayApprove, ApproveCommit, Done, Idle
<1>2. TrustHeld'
  BY <1>0, TrustAssumption DEF Inv, TypeOK, TrustHeld, ApproveCommit, Done, Idle
<1>3. ListHeld'
  BY <1>0, TrustAssumption DEF Inv, TypeOK, ListHeld, ApproveCommit, Done, Idle
<1>4. ListCopy'
  BY <1>0, TrustAssumption DEF Inv, TypeOK, ListHeld, ListCopy, ApproveCommit, Done, Idle
<1>5. Known'
  BY <1>0, TrustAssumption
  DEF Inv, TypeOK, OpTypes, ListHeld, Known, MayApprove, ApproveCommit, Done, Idle
<1>6. FreshIds'
  BY <1>0, TrustAssumption
  DEF Inv, TypeOK, OpTypes, ListHeld, FreshIds, Known, MayApprove, ApproveCommit, Done, Idle
<1>7. ApprovedWasApplied'
  BY <1>0, TrustAssumption
  DEF Inv, TypeOK, ApprovedWasApplied, MayApprove, ApproveCommit, Done, Idle
<1> QED
  BY <1>1, <1>2, <1>3, <1>4, <1>5, <1>6, <1>7 DEF Inv

\* ApproveSaveFails keeps the invariant.
LEMMA ApproveSaveFailsKeeps ==
  ASSUME Inv, NEW c \in Conns,
         ApproveSaveFails(c)
  PROVE  Inv'
<1>1. TypeOK'
  BY DEF Inv, TypeOK, OpTypes, Stages, Tiers, ApproveSaveFails, Done, Fault, Idle, files
<1>2. TrustHeld'
  BY DEF Inv, TypeOK, TrustHeld, ApproveSaveFails, Done, Fault, Idle, files
<1>3. ListHeld'
  BY DEF Inv, TypeOK, ListHeld, ApproveSaveFails, Done, Fault, Idle, files
<1>4. ListCopy'
  BY DEF Inv, TypeOK, ListHeld, ListCopy, ApproveSaveFails, Done, Fault, Idle, files
<1>5. Known'
  BY DEF Inv, TypeOK, Known, MayApprove, ApproveSaveFails, Done, Fault, Idle, files
<1>6. FreshIds'
  BY TrustAssumption
  DEF Inv, TypeOK, OpTypes, FreshIds, ApproveSaveFails, Done, Fault, Idle, files
<1>7. ApprovedWasApplied'
  BY DEF Inv, ApprovedWasApplied, ApproveSaveFails, Done, Fault, Idle, files
<1> QED
  BY <1>1, <1>2, <1>3, <1>4, <1>5, <1>6, <1>7 DEF Inv

\* BridgeCrash keeps the invariant.
LEMMA BridgeCrashKeeps ==
  ASSUME Inv, BridgeCrash
  PROVE  Inv'
<1>1. TypeOK'
  BY DEF Inv, TypeOK, OpTypes, Stages, Tiers, BridgeCrash, Fault, Idle, files
<1>2. TrustHeld'
  BY DEF Inv, TypeOK, TrustHeld, BridgeCrash, Fault, Idle, files
<1>3. ListHeld'
  BY DEF Inv, TypeOK, ListHeld, BridgeCrash, Fault, Idle, files
<1>4. ListCopy'
  BY DEF Inv, TypeOK, ListHeld, ListCopy, BridgeCrash, Fault, Idle, files
<1>5. Known'
  BY DEF Inv, TypeOK, Known, MayApprove, BridgeCrash, Fault, Idle, files
<1>6. FreshIds'
  BY TrustAssumption DEF Inv, TypeOK, OpTypes, FreshIds, BridgeCrash, Fault, Idle, files
<1>7. ApprovedWasApplied'
  BY DEF Inv, ApprovedWasApplied, BridgeCrash, Fault, Idle, files
<1> QED
  BY <1>1, <1>2, <1>3, <1>4, <1>5, <1>6, <1>7 DEF Inv

-----------------------------------------------------------------------------
\* The initial states satisfy the invariant.
LEMMA InitInv == Init => Inv
<1> SUFFICES ASSUME Init PROVE Inv
  OBVIOUS
<1>1. /\ trust \in [Extensions -> Tiers]
      /\ requests \in [Requests -> RequestRecords]
  BY TrustAssumption DEF Init, RequestRecords, Tiers, Allowed, Unused
<1>2. \A c \in Conns : op[c] = Idle
  BY DEF Init
<1>3. OpTypes(Idle)
  BY DEF OpTypes, Idle, Stages, Tiers, Allowed
<1>4. TypeOK
  BY <1>1, <1>2, <1>3 DEF Init, TypeOK, Unused
<1> QED
  BY <1>2, <1>4
  DEF Init, Inv, Idle, Unused, TrustHeld, ListHeld, ListCopy, Known, FreshIds, ApprovedWasApplied

\* A stuttering step keeps the invariant.
LEMMA StutterKeeps == Inv /\ UNCHANGED vars => Inv'
  BY DEF Inv, TypeOK, OpTypes, TrustHeld, ListHeld, ListCopy, Known, FreshIds, ApprovedWasApplied,
         MayApprove, vars

\* Every step keeps the invariant.
LEMMA NextInv == Inv /\ [Next]_vars => Inv'
<1> SUFFICES ASSUME Inv, [Next]_vars PROVE Inv'
  OBVIOUS
<1> HIDE DEF Inv
<1>1. CASE UNCHANGED vars
  BY <1>1, StutterKeeps
<1>2. CASE BridgeCrash
  BY <1>2, BridgeCrashKeeps
<1>3. CASE \E c \in Conns, x \in Extensions, t \in Tiers : UpdateTrust(c, x, t)
  BY <1>3, UpdateTrustKeeps
<1>4. CASE \E c \in Conns, p \in Profiles, x \in Extensions, t \in Tiers, r \in Requests :
             RequestPromotion(c, p, x, t, r)
  BY <1>4, RequestPromotionKeeps
<1>5. CASE \E c \in Conns, p \in Profiles, r \in Requests : ApprovePromotion(c, p, r)
  BY <1>5, ApprovePromotionKeeps
<1>6. CASE \E c \in Conns : CommandStep(c)
  BY <1>6, UpdateLockKeeps, UpdateRefusedKeeps, UpdateCommitKeeps, RequestLockKeeps,
     RequestCommitKeeps, ApproveLockKeeps, ApproveRefusedKeeps, PromoteLockKeeps,
     PromoteCommitKeeps, ApproveCommitKeeps
  DEF CommandStep
<1>7. CASE \E c \in Conns : SaveFails(c)
  BY <1>7, UpdateSaveFailsKeeps, RequestSaveFailsKeeps, PromoteSaveFailsKeeps,
     ApproveSaveFailsKeeps
  DEF SaveFails
<1> QED
  BY <1>1, <1>2, <1>3, <1>4, <1>5, <1>6, <1>7 DEF Next

\* The invariant holds for ever.
THEOREM InvHolds == Spec => []Inv
  BY InitInv, NextInv, PTL DEF Spec

\* Every reachable state is well typed.
THEOREM TrustTypes == Spec => []TypeOK
<1>1. Inv => TypeOK
  BY DEF Inv
<1> QED
  BY <1>1, InvHolds, PTL

\* A request is marked approved only after its promotion reached the trust
\* config, and its decider is not its requester.
THEOREM ApprovalsAreApplied == Spec => []ApprovedWasApplied
<1>1. Inv => ApprovedWasApplied
  BY DEF Inv
<1> QED
  BY <1>1, InvHolds, PTL

-----------------------------------------------------------------------------
\* The steps that write the trust config, and the file they leave.
LEMMA TrustWriters ==
  ASSUME Inv, [Next]_vars, trust' # trust
  PROVE  \E c \in Conns :
           /\ op[c].pc \in {"updating", "promoting"}
           /\ trust' = [trust EXCEPT ![op[c].ext] = op[c].tier]
           /\ op'[c].pc # op[c].pc
<1>1. PICK c \in Conns : UpdateCommit(c) \/ PromoteCommit(c)
  BY DEF Next, CommandStep, SaveFails, UpdateTrust, RequestPromotion, ApprovePromotion, Begin,
         UpdateLock, UpdateRefused, UpdateSaveFails, RequestLock, RequestCommit,
         RequestSaveFails, ApproveLock, ApproveRefused, PromoteLock, PromoteSaveFails,
         ApproveCommit, ApproveSaveFails, BridgeCrash, files, vars
<1>2. /\ op[c].pc \in {"updating", "promoting"} /\ trust' = op[c].config
      /\ op'[c].pc # op[c].pc
  BY <1>1 DEF UpdateCommit, PromoteCommit, Done, Goto, Idle, Inv, TypeOK
<1> QED
  BY <1>2 DEF Inv, TrustHeld

\* A revoked extension becomes allowed only by the approval of another profile
\* than the requester's.
THEOREM JointPromotion == Spec => PromotionIsJoint
<1> DEFINE Joint == \A x \in Extensions :
      trust[x] = "revoked" /\ trust'[x] \in Allowed =>
        \E c \in Conns, r \in Requests :
          /\ op[c].pc = "promoting" /\ op[c].req = r
          /\ requests[r].status = "pending"
          /\ requests[r].ext = x /\ requests[r].tier = trust'[x]
          /\ requests[r].by # op[c].who
<1>1. Inv /\ [Next]_vars => [Joint]_vars
  <2> SUFFICES ASSUME Inv, [Next]_vars, NEW x \in Extensions,
                      trust[x] = "revoked", trust'[x] \in Allowed
               PROVE  \E c \in Conns, r \in Requests :
                        /\ op[c].pc = "promoting" /\ op[c].req = r
                        /\ requests[r].status = "pending"
                        /\ requests[r].ext = x /\ requests[r].tier = trust'[x]
                        /\ requests[r].by # op[c].who
    OBVIOUS
  <2>1. trust' # trust
    BY DEF Allowed
  <2>2. PICK c \in Conns :
          /\ op[c].pc \in {"updating", "promoting"}
          /\ trust' = [trust EXCEPT ![op[c].ext] = op[c].tier]
    BY <2>1, TrustWriters
  <2>3. op[c].ext = x /\ op[c].tier = trust'[x]
    BY <2>2 DEF Inv, TypeOK, OpTypes, Allowed
  <2>4. op[c].pc = "promoting"
    BY <2>2, <2>3 DEF Inv, TrustHeld, Permitted
  <2>5. /\ op[c].req \in Requests
        /\ requests[op[c].req].ext = x /\ requests[op[c].req].tier = trust'[x]
        /\ MayApprove(op[c].who, op[c].req)
    BY <2>3, <2>4 DEF Inv, TypeOK, OpTypes, Known
  <2> QED
    BY <2>4, <2>5 DEF MayApprove
<1> QED
  BY <1>1, InvHolds, PTL DEF Spec, PromotionIsJoint

-----------------------------------------------------------------------------
(* ExtensionTrust implements TrustPolicy: four steps write a file, each of   *)
(* them is a step of the policy, and all others are none.                    *)

files_saved == <<trust, requests, saved>>

\* A commit of update_trust.
LEMMA UpdateCommitRefines ==
  ASSUME Inv, NEW c \in Conns, UpdateCommit(c)
  PROVE  Policy!Next
<1>1. /\ op[c].ext \in Extensions /\ op[c].tier \in Policy!Tiers
      /\ ~(trust[op[c].ext] = "revoked" /\ op[c].tier \in Policy!Allowed)
      /\ trust' = [trust EXCEPT ![op[c].ext] = op[c].tier]
  BY DEF Inv, TypeOK, OpTypes, TrustHeld, Permitted, UpdateCommit, Tiers, Allowed,
         Policy!Tiers, Policy!Allowed
<1>2. Policy!SetTier(op[c].ext, op[c].tier)
  BY <1>1 DEF UpdateCommit, Policy!SetTier
<1> QED
  BY <1>1, <1>2 DEF Policy!Next

\* A commit of request_promotion.
LEMMA RequestCommitRefines ==
  ASSUME Inv, NEW c \in Conns, RequestCommit(c)
  PROVE  Policy!Next
<1>1. /\ op[c].req \in Requests /\ op[c].ext \in Extensions
      /\ op[c].tier \in Policy!Allowed /\ op[c].who \in Profiles
      /\ requests[op[c].req].status = "unused"
      /\ requests' = [requests EXCEPT ![op[c].req] =
           [status |-> "pending", ext |-> op[c].ext, tier |-> op[c].tier, by |-> op[c].who,
            decided |-> No]]
  BY DEF Inv, TypeOK, OpTypes, ListCopy, FreshIds, RequestCommit, Allowed, Policy!Allowed
<1>2. Policy!File(op[c].req, op[c].ext, op[c].tier, op[c].who)
  BY <1>1 DEF RequestCommit, Policy!File
<1> QED
  BY <1>1, <1>2 DEF Policy!Next

\* The first commit of approve_promotion.
LEMMA PromoteCommitRefines ==
  ASSUME Inv, NEW c \in Conns, PromoteCommit(c)
  PROVE  Policy!Next
<1>1. /\ op[c].req \in Requests /\ op[c].who \in Profiles
      /\ MayApprove(op[c].who, op[c].req)
      /\ trust' = [trust EXCEPT ![requests[op[c].req].ext] = requests[op[c].req].tier]
  BY DEF Inv, TypeOK, OpTypes, TrustHeld, Known, PromoteCommit
<1>2. Policy!Promote(op[c].req)
  BY <1>1 DEF PromoteCommit, Policy!Promote
<1>3. Policy!MayDecide(op[c].req, op[c].who)
  BY <1>1 DEF MayApprove, Policy!MayDecide
<1> QED
  BY <1>1, <1>2, <1>3 DEF Policy!Next

\* Its second commit.
LEMMA ApproveCommitRefines ==
  ASSUME Inv, NEW c \in Conns, ApproveCommit(c)
  PROVE  Policy!Next
<1>1. /\ op[c].req \in Requests /\ op[c].who \in Profiles
      /\ MayApprove(op[c].who, op[c].req) /\ op[c].req \in saved
      /\ requests' = [requests EXCEPT ![op[c].req] =
           [status |-> "approved", ext |-> requests[op[c].req].ext,
            tier |-> requests[op[c].req].tier, by |-> requests[op[c].req].by,
            decided |-> op[c].who]]
  BY DEF Inv, TypeOK, OpTypes, ListCopy, Known, ApproveCommit
<1>2. Policy!Approve(op[c].req, op[c].who)
  BY <1>1 DEF ApproveCommit, Policy!Approve
<1>3. Policy!MayDecide(op[c].req, op[c].who)
  BY <1>1 DEF MayApprove, Policy!MayDecide
<1> QED
  BY <1>1, <1>2, <1>3 DEF Policy!Next

\* What is no commit changes neither file nor which promotions reached one.
LEMMA OthersStutter ==
  ASSUME [Next]_vars,
         \A c \in Conns : ~UpdateCommit(c) /\ ~RequestCommit(c) /\ ~PromoteCommit(c)
                            /\ ~ApproveCommit(c)
  PROVE  UNCHANGED files_saved
  BY DEF Next, CommandStep, SaveFails, UpdateTrust, RequestPromotion, ApprovePromotion, Begin,
         UpdateLock, UpdateRefused, UpdateSaveFails, RequestLock, RequestSaveFails, ApproveLock,
         ApproveRefused, PromoteLock, PromoteSaveFails, ApproveSaveFails, BridgeCrash, files,
         vars, files_saved

\* Whatever commands, failed saves and crashes interleave, the two files change
\* as if every command acted at once.
THEOREM TrustRefinement == Spec => ActsAtOnce
<1>1. Init => Policy!Init
  BY DEF Init, Policy!Init, Unused, Policy!Unused
<1>2. Inv /\ [Next]_vars => [Policy!Next]_files_saved
  <2> SUFFICES ASSUME Inv, [Next]_vars
               PROVE  Policy!Next \/ UNCHANGED files_saved
    BY DEF files_saved
  <2>1. CASE \E c \in Conns : UpdateCommit(c) \/ RequestCommit(c) \/ PromoteCommit(c)
                                \/ ApproveCommit(c)
    BY <2>1, UpdateCommitRefines, RequestCommitRefines, PromoteCommitRefines,
       ApproveCommitRefines
  <2>2. CASE ~\E c \in Conns : UpdateCommit(c) \/ RequestCommit(c) \/ PromoteCommit(c)
                                 \/ ApproveCommit(c)
    BY <2>2, OthersStutter
  <2> QED
    BY <2>1, <2>2
<1> QED
  BY <1>1, <1>2, InvHolds, PTL DEF Spec, ActsAtOnce, Policy!Spec, files_saved
=============================================================================
