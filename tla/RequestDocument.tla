-------------------------- MODULE RequestDocument --------------------------
(***************************************************************************)
(* The purchase_requests document and what each handler of                 *)
(* PurchaseRequestsService does to one in-memory copy of it.               *)
(*                                                                         *)
(* Every handler of the service has the same shape: load the document,     *)
(* repair it (findByIdOrFail), refuse or change the copy, save.  This      *)
(* module holds the parts between the load and the save as operators on a  *)
(* record: "CanX(r, ...)" is the conjunction of the handler's checks and   *)
(* "X(r, ...)" the copy it saves.  PurchaseRequest runs the handlers one   *)
(* after the other, RequestRaces lets several of them overlap.             *)
(*                                                                         *)
(* Data that no property tells apart is left out: names, positions,        *)
(* comments, dates, prices, files.  "content" stands for everything the    *)
(* applicant writes, and an item line has a state but no quantity: a line  *)
(* that is bought in part is two lines from the start here.                *)
(***************************************************************************)
EXTENDS FiniteSets

CONSTANTS Users,      \* people who can sit on a commission or be the boss
          Contents,   \* what an applicant can ask for
          Lines,      \* item lines of a request
          Batches     \* identifiers of purchase batches (randomUUID)

NoBatch == "NO_BATCH"       \* a dispatch created without purchaseBatchId
Legacy == "LEGACY"          \* the literal batch id 'legacy'

ASSUME NonemptyAssumption ==
  /\ Lines # {}
  /\ Contents # {}

ASSUME BatchAssumption ==
  \A tag \in {"PENDING", "UNAVAILABLE", NoBatch, Legacy} : tag \notin Batches

ASSUME UserAssumption == "NOBODY" \notin Users

----------------------------------------------------------------------------
(* The document *)

PostBossApproval ==
  {"PURCHASING", "PURCHASED", "WAREHOUSE_IN_TRANSIT", "WAREHOUSE_COMPLETED"}

Status ==
  PostBossApproval \cup
  {"COMMISSION_REVIEW", "PARTIAL_REVISION", "REJECTED", "BOSS_DECISION_PENDING"}

\* "NONE" is an absent decision: an empty slot, or no slot at all.
Decision == {"NONE", "APPROVED", "PARTIAL", "REJECTED"}

ItemState == {"PENDING", "UNAVAILABLE"} \cup Batches

\* history is kept as the last DECISION step of each user, and the last
\* BOSS_DECISION step with the person it names.
Document ==
  [ status            : Status,
    commissionMembers : SUBSET Users,
    boss              : Users,
    memberDecisions   : [Users -> Decision],
    bossDecision      : Decision,
    content           : Contents,
    items             : [Lines -> ItemState],
    purchaseBatches   : SUBSET Batches,
    decisionSteps     : [Users -> Decision],
    bossStep          : [by : Users \cup {"NOBODY"}, decision : Decision] ]

\* createPurchaseRequestRecord: every slot empty, every line pending.
Submitted(members, boss, content) ==
  [ status            |-> "COMMISSION_REVIEW",
    commissionMembers |-> members,
    boss              |-> boss,
    memberDecisions   |-> [u \in Users |-> "NONE"],
    bossDecision      |-> "NONE",
    content           |-> content,
    items             |-> [l \in Lines |-> "PENDING"],
    purchaseBatches   |-> {},
    decisionSteps     |-> [u \in Users |-> "NONE"],
    bossStep          |-> [by |-> "NOBODY", decision |-> "NONE"] ]

\* What create, update and resubmit require of the people they are given.
ValidPanel(members, boss) == members # {} /\ boss \notin members

----------------------------------------------------------------------------
(* Reading the document *)

IsMemberAgreed(decision) == decision \in {"APPROVED", "PARTIAL"}

AllMembersAgreed(r) ==
  \A m \in r.commissionMembers : IsMemberAgreed(r.memberDecisions[m])

\* Members agreed, as areAllCommissionMembersAgreed sees it: an empty
\* commission never agrees.
AreAllCommissionMembersAgreed(r) ==
  r.commissionMembers # {} /\ AllMembersAgreed(r)

RecomputeStatus(r) ==
  IF r.bossDecision = "APPROVED"
  THEN IF r.status \in PostBossApproval THEN r.status ELSE "PURCHASING"
  ELSE IF r.status \in PostBossApproval \cup {"REJECTED"} THEN r.status
  ELSE IF AreAllCommissionMembersAgreed(r) THEN "BOSS_DECISION_PENDING"
  ELSE "COMMISSION_REVIEW"

\* memberDecisions follows commissionMembers: a slot per member, no other.
SyncMemberDecisions(r) ==
  [r EXCEPT !.memberDecisions =
     [u \in Users |-> IF u \in r.commissionMembers THEN @[u] ELSE "NONE"]]

\* reconcileCommissionStatus and reconcileBossApprovedStatus
ReconciledStatus(r) ==
  IF r.bossDecision = "REJECTED" THEN r.status ELSE RecomputeStatus(r)

\* The copy findByIdOrFail hands to a handler.
Loaded(stored) ==
  LET r == SyncMemberDecisions(stored)
  IN  [r EXCEPT !.status = ReconciledStatus(r)]

\* What findByIdOrFail leaves in the database: it saves only when it changed
\* the status, and then the synchronised slots go with it.
Stored(stored) ==
  IF Loaded(stored).status = stored.status THEN stored ELSE Loaded(stored)

IsPending(state) == state = "PENDING"
PendingLines(r) == {l \in Lines : IsPending(r.items[l])}
AllItemsResolved(r) == PendingLines(r) = {}
PurchasedBatchIds(r) == {r.items[l] : l \in Lines} \cap Batches

AssertPurchasingView(stored) == stored.status \in PostBossApproval

----------------------------------------------------------------------------
(* Commission and boss *)

IsApprovalWorkflowClosed(r) ==
  r.bossDecision \in {"APPROVED", "REJECTED"} \/ r.status \in PostBossApproval

IsCommissionResubmitPhase(r) ==
  r.status \in {"COMMISSION_REVIEW", "PARTIAL_REVISION"}

IsCommissionReviewOpen(r) ==
  /\ IsCommissionResubmitPhase(r)
  /\ \E m \in r.commissionMembers : r.memberDecisions[m] = "NONE"

CanSubmitDecision(r, member) ==
  /\ member \in r.commissionMembers
  /\ r.status # "REJECTED"
  /\ ~IsApprovalWorkflowClosed(r)
  /\ IsCommissionReviewOpen(r)
  /\ r.memberDecisions[member] = "NONE"

SubmitDecision(r, member, decision) ==
  LET voted == [r EXCEPT !.memberDecisions[member] = decision,
                         !.decisionSteps[member] = decision]
  IN  [voted EXCEPT !.status = RecomputeStatus(voted)]

IsBossDecisionPhase(r) ==
  /\ r.bossDecision = "NONE"
  /\ r.status \notin PostBossApproval \cup {"REJECTED"}
  /\ AreAllCommissionMembersAgreed(r)

\* A bug the runs must find: the boss may decide before everybody agreed.
BossMayDecideEarly(r) ==
  ~IsApprovalWorkflowClosed(r) /\ IsCommissionResubmitPhase(r)

CanConfirmBossDecision(r) ==
  ~IsApprovalWorkflowClosed(r) /\ IsBossDecisionPhase(r)

ConfirmBossDecision(r, decision) ==
  [r EXCEPT !.bossDecision = decision,
            !.status = IF decision = "APPROVED" THEN "PURCHASING" ELSE "REJECTED",
            !.bossStep = [by |-> r.boss, decision |-> decision]]

----------------------------------------------------------------------------
(* The applicant *)

\* A bug the runs must find: clearBossDecision is forgotten.
RewrittenKeepingDecision(r, members, boss, content) ==
  [r EXCEPT !.commissionMembers = members,
            !.boss = boss,
            !.content = content,
            !.items = [l \in Lines |-> "PENDING"]]

\* The fields update and resubmit copy from the request body.
Rewritten(r, members, boss, content) ==
  [r EXCEPT !.commissionMembers = members,
            !.boss = boss,
            !.content = content,
            !.items = [l \in Lines |-> "PENDING"],
            !.bossDecision = "NONE"]

IsEditableBeforeBossApproval(r) ==
  /\ r.bossDecision # "APPROVED"
  /\ r.status \notin PostBossApproval
  /\ r.status = "REJECTED" => r.bossDecision = "REJECTED"

\* An elevated administrator skips the editability check.
CanUpdate(r, isViewerAdmin, members, boss) ==
  /\ isViewerAdmin \/ IsEditableBeforeBossApproval(r)
  /\ ValidPanel(members, boss)

\* A bug the runs must find: the status stays when nobody has to vote again.
UpdateKeepingStatus(r, prior, members, boss, content) ==
  LET kept == [u \in Users |->
                 IF u \in members /\ prior[u] = "APPROVED" THEN "APPROVED" ELSE "NONE"]
  IN  [Rewritten(r, members, boss, content) EXCEPT
         !.memberDecisions = kept,
         !.status = IF \E m \in members : kept[m] # "APPROVED"
                    THEN "COMMISSION_REVIEW" ELSE r.status]

\* A bug the runs must find: a partial agreement is kept as a full one.
UpdateRoundingUp(r, prior, members, boss, content) ==
  LET kept == [u \in Users |->
                 IF u \in members /\ IsMemberAgreed(prior[u]) THEN "APPROVED" ELSE "NONE"]
  IN  [Rewritten(r, members, boss, content) EXCEPT
         !.memberDecisions = kept,
         !.status = IF \E m \in members : kept[m] # "APPROVED"
                    THEN "COMMISSION_REVIEW" ELSE "BOSS_DECISION_PENDING"]

\* preserveMemberDecisionsAfterEdit: only a full agreement outlives an edit.
\* prior is the stored document, read before the repair.
Update(r, prior, members, boss, content) ==
  LET kept == [u \in Users |->
                 IF u \in members /\ prior[u] = "APPROVED" THEN "APPROVED" ELSE "NONE"]
      needsCommissionRedecision == \E m \in members : kept[m] # "APPROVED"
  IN  [Rewritten(r, members, boss, content) EXCEPT
         !.memberDecisions = kept,
         !.status = IF needsCommissionRedecision THEN "COMMISSION_REVIEW"
                    ELSE "BOSS_DECISION_PENDING"]

IsBossRejectionPendingResubmit(r) ==
  /\ r.status = "REJECTED"
  /\ r.bossDecision = "REJECTED"
  /\ AreAllCommissionMembersAgreed(r)

CanResubmitToBoss(r, members, boss) ==
  IsBossRejectionPendingResubmit(r) /\ ValidPanel(members, boss)

\* The slots stay those of the old commission until the next load.
ResubmitToBoss(r, members, boss, content) ==
  [Rewritten(r, members, boss, content) EXCEPT !.status = "BOSS_DECISION_PENDING"]

RejectedMembers(r) ==
  {m \in r.commissionMembers : r.memberDecisions[m] = "REJECTED"}

CanResubmitToCommission(r, selected, members, boss) ==
  /\ ~IsBossRejectionPendingResubmit(r)
  /\ IsCommissionResubmitPhase(r)
  /\ selected # {}
  /\ selected \subseteq RejectedMembers(r)
  /\ ValidPanel(members, boss)

\* A bug the runs must find: everybody is asked again.
ResubmitAskingAll(r, selected, members, boss, content) ==
  [Rewritten(r, members, boss, content) EXCEPT
     !.memberDecisions = [u \in Users |-> "NONE"],
     !.status = "COMMISSION_REVIEW"]

\* A bug the runs must find: who is asked again counts as agreed until then.
ResubmitAssuming(r, selected, members, boss, content) ==
  LET assumed == [Rewritten(r, members, boss, content) EXCEPT
                    !.memberDecisions =
                       [u \in Users |-> IF u \in selected THEN "APPROVED" ELSE @[u]]]
  IN  [assumed EXCEPT !.status = RecomputeStatus(assumed)]

\* preserveMemberDecisionsAfterResubmit: a partial agreement and a selected
\* refusal are asked again, everything else stays.
ResubmitToCommission(r, selected, members, boss, content) ==
  LET again(u) == \/ u \notin members
                  \/ r.memberDecisions[u] = "PARTIAL"
                  \/ r.memberDecisions[u] = "REJECTED" /\ u \in selected
      asked == [Rewritten(r, members, boss, content) EXCEPT
                  !.memberDecisions =
                     [u \in Users |-> IF again(u) THEN "NONE" ELSE @[u]]]
  IN  [asked EXCEPT !.status = RecomputeStatus(asked)]

\* Only while the request is in review; dispatches are checked separately.
CanDeleteRequest(r) == r.status = "COMMISSION_REVIEW"

----------------------------------------------------------------------------
(* Purchasing *)

CanPurchasePendingItems(r) ==
  PendingLines(r) # {} /\ r.status \in {"PURCHASING", "PURCHASED"}

CanResolveItems(r, lines) ==
  /\ CanPurchasePendingItems(r)
  /\ lines # {}
  /\ lines \subseteq PendingLines(r)

\* The common end of completePurchase and markItemsUnavailable.
Resolved(r, lines, state) ==
  LET done == [r EXCEPT !.items =
                 [l \in Lines |-> IF l \in lines THEN state ELSE @[l]]]
  IN  [done EXCEPT !.status = IF AllItemsResolved(done) THEN "PURCHASED"
                              ELSE "PURCHASING"]

CompletePurchase(r, lines, batch) ==
  [Resolved(r, lines, batch) EXCEPT !.purchaseBatches = @ \cup {batch}]

MarkItemsUnavailable(r, lines) == Resolved(r, lines, "UNAVAILABLE")

CanRejectPurchase(r) == r.status = "PURCHASING"

\* bossDecision keeps its value.
RejectPurchase(r) == [r EXCEPT !.status = "REJECTED"]

============================================================================
