----------------------------- MODULE RequestViews -----------------------------
(***************************************************************************)
(* What people see of a purchase request: the lists it appears in and the  *)
(* actions its page offers.  The service computes all of it a second time, *)
(* in database filters and in toPublic, apart from the checks its handlers *)
(* make; this module puts the two side by side over every state            *)
(* PurchaseRequest reaches.                                                *)
(*                                                                         *)
(* Searches, dates, pages and labels are left out: they only narrow a list.*)
(* A role in a token is taken to be the stored one.                        *)
(***************************************************************************)
EXTENDS PurchaseRequest

Outsider == "OUTSIDER"      \* somebody who never sits on a commission

People == Users \cup {Outsider}

VARIABLE participants     \* approvalParticipantUserIds

----------------------------------------------------------------------------
(* Who took part *)

\* A DECISION or BOSS_DECISION step of the history names the person.
HasApprovalHistoryParticipation(r, user) ==
  user \in Users /\ (r.decisionSteps[user] # "NONE" \/ r.bossStep.by = user)

HasMemberDecisionParticipation(r, user) ==
  user \in Users /\ r.memberDecisions[user] # "NONE"

ResolveApprovalParticipants(r, stored) ==
  {r.boss} \cup r.commissionMembers \cup stored
    \cup {u \in Users : \/ HasMemberDecisionParticipation(r, u)
                        \/ HasApprovalHistoryParticipation(r, u)}

\* create, update and both decisions store the participants with the document;
\* the other handlers leave the field alone.
ViewInit ==
  /\ Init
  /\ participants = ResolveApprovalParticipants(doc, {})

EditAny ==
  \E members \in SUBSET Users, boss \in Users, content \in Contents,
     isViewerAdmin \in BOOLEAN : Edit(isViewerAdmin, members, boss, content)

ResubmitAny ==
  \E members \in SUBSET Users, boss \in Users, content \in Contents :
    \/ ResubmitBoss(members, boss, content)
    \/ \E selected \in SUBSET Users :
         ResubmitCommission(selected, members, boss, content)

ViewNext ==
  \/ /\ Approve \/ EditAny
     /\ participants' = ResolveApprovalParticipants(doc', participants)
  \/ /\ Reconcile \/ ResubmitAny \/ Remove \/ Purchase \/ Warehouse
     /\ UNCHANGED participants

ViewSpec == ViewInit /\ [][ViewNext]_<<vars, participants>>

----------------------------------------------------------------------------
(* The page of one request: toPublic, for somebody who may open it *)

\* isApplicant: the viewer made the request.  permitted: the viewer's permission
\* map grants the action the handler asks for (hasPageAction on its page).
Viewer == [user : People, isApplicant : BOOLEAN, isAdmin : BOOLEAN, permitted : BOOLEAN]

HasPermission(v) == v.isAdmin \/ v.permitted

CanAccessRequest(r, v) ==
  v.isAdmin \/ v.isApplicant \/ v.user \in {r.boss} \cup r.commissionMembers

\* A bug the runs must find: what somebody once did outweighs what they are.
ViewerRoleByHistory(r, v) ==
  IF v.user \in {r.boss, r.bossStep.by} THEN "boss"
  ELSE IF v.isApplicant THEN "applicant"
  ELSE IF v.user \in r.commissionMembers \/ HasMemberDecisionParticipation(r, v.user)
       THEN "commission"
  ELSE "none"

ViewerRole(r, v) ==
  IF v.user = r.boss THEN "boss"
  ELSE IF v.isApplicant THEN "applicant"
  ELSE IF v.user \in r.commissionMembers THEN "commission"
  ELSE IF v.user = r.bossStep.by THEN "boss"
  ELSE IF HasMemberDecisionParticipation(r, v.user) THEN "commission"
  ELSE "none"

WorkflowStatus(r) == RecomputeStatus(SyncMemberDecisions(r))

PublicStatus(r) ==
  IF r.bossDecision = "APPROVED"
  THEN IF r.status \in PostBossApproval THEN r.status ELSE "PURCHASING"
  ELSE IF r.bossDecision = "REJECTED" /\ r.status = "REJECTED" THEN "REJECTED"
  ELSE IF WorkflowStatus(r) = "BOSS_DECISION_PENDING" THEN "BOSS_DECISION_PENDING"
  ELSE IF "PARTIAL_REVISION" \in {WorkflowStatus(r), r.status} THEN "COMMISSION_REVIEW"
  ELSE WorkflowStatus(r)

OffersVote(r, v) ==
  /\ ~IsApprovalWorkflowClosed(r)
  /\ HasPermission(v)
  /\ ViewerRole(r, v) = "commission"
  /\ WorkflowStatus(r) = "COMMISSION_REVIEW"
  /\ IsCommissionReviewOpen(r)
  /\ ~HasMemberDecisionParticipation(r, v.user)

AcceptsVote(r, v) ==
  HasPermission(v) /\ v.user \in Users /\ CanSubmitDecision(r, v.user)

OffersBossDecision(r, v) ==
  /\ ~IsApprovalWorkflowClosed(r)
  /\ v.user = r.boss
  /\ IsBossDecisionPhase(r)

AcceptsBossDecision(r, v) == v.user = r.boss /\ CanConfirmBossDecision(r)

OffersEdit(r, v) ==
  \/ v.isAdmin
  \/ v.permitted /\ v.isApplicant /\ IsEditableBeforeBossApproval(r)

AcceptsEdit(r, v) ==
  /\ HasPermission(v)
  /\ v.isAdmin \/ v.isApplicant
  /\ \E members \in SUBSET Users, boss \in Users :
       CanUpdate(r, v.isAdmin, members, boss)

\* The purchase buttons of a list, whose documents are not repaired first.
OffersPurchase(stored) == CanPurchasePendingItems(stored)

AcceptsPurchase(stored) ==
  AssertPurchasingView(stored)
    /\ \E lines \in SUBSET Lines : CanResolveItems(Loaded(stored), lines)

OffersRejectPurchase(stored) == stored.status = "PURCHASING" /\ PendingLines(stored) = Lines

ResolveDispatchForBatch(batch) == {d \in dispatches : d.tag = batch}

OffersDispatch(stored, batch) ==
  /\ batch \in stored.purchaseBatches
  /\ ResolveDispatchForBatch(batch) = {}
  /\ stored.status \in {"PURCHASING", "PURCHASED", "WAREHOUSE_IN_TRANSIT"}

----------------------------------------------------------------------------
(* The lists *)

\* The list of one's own requests; administrators see all.
OwnList(v) == v.isAdmin \/ v.isApplicant

\* The boss and the commission, by id or by login.
ApprovalIdentity(user) == user = doc.boss \/ user \in doc.commissionMembers

\* A bug the runs must find: only the people of the current round see it.
ApprovalInboxOfTheRound(user) == ApprovalIdentity(user)

\* "har qanday holatdagi arizalar (status cheklovi yo'q)": in any status
ApprovalInbox(user) ==
  \/ ApprovalIdentity(user)
  \/ user \in participants
  \/ HasMemberDecisionParticipation(doc, user)

PurchasingQueue(stored) ==
  \/ PendingLines(stored) # {}
  \/ stored.status = "PURCHASED" /\ PurchasedBatchIds(stored) # {}

PurchasingInbox(stored) ==
  stored.status \in {"PURCHASING", "PURCHASED"} /\ PurchasingQueue(stored)

PurchasedInbox(stored) ==
  /\ stored.status \in PostBossApproval
  /\ PurchasedBatchIds(stored) # {}
  /\ stored.purchaseBatches # {}

UnavailableInbox(stored) ==
  /\ stored.status \in PostBossApproval
  /\ \E l \in Lines : stored.items[l] = "UNAVAILABLE"

\* One row per batch, the empty ones included.
IshonchnomaRows(stored) ==
  IF stored.status \in PostBossApproval THEN stored.purchaseBatches ELSE {}

----------------------------------------------------------------------------
(* The calendar and the statistics *)

\* getCalendarEvents: the deadline of a request is shown until it ends.
CalendarShows(stored) == stored.status \notin {"REJECTED", "WAREHOUSE_COMPLETED"}

\* resolvePurchaseDeadlinePath: whether the deadline leads to the buyers' page.
DeadlineOfBuyers(stored) == stored.status = "PURCHASING"

\* buildApprovedStatisticsMatch: the requests the purchase statistics count.
ApprovedStatistics(stored) ==
  stored.bossDecision = "APPROVED" /\ stored.status \in PostBossApproval

\* getPurchaseStatistics: the lines it counts.
StatisticsOf(stored) ==
  LET lines == IF ApprovedStatistics(stored) THEN Lines ELSE {}
  IN  [purchased |-> {l \in lines : stored.items[l] \in Batches},
       unavailable |-> {l \in lines : stored.items[l] = "UNAVAILABLE"},
       waiting |-> {l \in lines : IsPending(stored.items[l])}]

----------------------------------------------------------------------------
(* Notifications: handlePurchaseRequestChanged, after every save of a handler *)

MembersTold(r) ==
  IF r.status = "COMMISSION_REVIEW"
  THEN {m \in r.commissionMembers : r.memberDecisions[m] # "APPROVED"}
  ELSE {}

BossTold(r) == r.status = "BOSS_DECISION_PENDING"

\* The applicant; a member's refusal is told by submitDecision itself.
ApplicantTold(r) ==
  \/ r.status \in {"PARTIAL_REVISION", "REJECTED", "WAREHOUSE_COMPLETED"}
  \/ RejectedMembers(r) # {}

\* Everybody with access to the page the notification leads to.
BuyersTold(r) == r.status = "PURCHASING"
KeepersTold(r) == r.status = "PURCHASED"

----------------------------------------------------------------------------
(* Properties *)

\* What a page shows is what the handlers do.  The status is the one a load
\* would repair it to, an action is offered to exactly those it is accepted
\* from, and a row of a list opens; only an applicant who sits on the own
\* commission is accepted and not offered (getViewerRole puts the applicant
\* first).
PagesTellTheTruth ==
  ~deleted =>
    /\ PublicStatus(doc) = Loaded(doc).status
    /\ PurchasingInbox(doc) \/ PurchasedInbox(doc) \/ UnavailableInbox(doc)
         => AssertPurchasingView(doc)
    /\ \A v \in Viewer : OwnList(v) => CanAccessRequest(doc, v)
    /\ \A v \in Viewer : CanAccessRequest(doc, v) =>
         LET r == Loaded(doc)
         IN  /\ OffersVote(r, v) => AcceptsVote(r, v)
             /\ AcceptsVote(r, v) => OffersVote(r, v) \/ v.isApplicant
             /\ OffersBossDecision(r, v) <=> AcceptsBossDecision(r, v)
             /\ OffersEdit(r, v) <=> AcceptsEdit(r, v)
    /\ OffersPurchase(doc) <=> AcceptsPurchase(doc)
    /\ OffersRejectPurchase(doc) =>
         AssertPurchasingView(doc) /\ CanRejectPurchase(Loaded(doc))

\* Nobody's work is out of sight: whoever decides or ever decided finds the
\* request in the approval inbox, a line that can be bought is in the buyers'
\* queue and on the calendar, and goods that can be sent are listed with a
\* button that sends them.  Of an approved request the statistics count what was
\* bought, and as waiting only what can be bought (until the buyers reject it:
\* then what they had bought is counted no more).  And whose turn it is was told
\* when the request came to its status, and finds it where the notification
\* leads to.
WorkIsListed ==
  ~deleted =>
    /\ \A user \in Users :
         \/ user \in doc.commissionMembers \cup {doc.boss}
         \/ HasApprovalHistoryParticipation(doc, user)
         => ApprovalInbox(user)
    /\ AcceptsPurchase(doc) => PurchasingInbox(doc)
    /\ \A batch \in PurchasedBatchIds(doc) :
         CanSend(batch) =>
           /\ OffersDispatch(doc, batch)
           /\ PurchasingInbox(doc) \/ PurchasedInbox(doc)
           /\ batch \in IshonchnomaRows(doc)
    /\ doc.status = "PURCHASED" =>
         PurchasingInbox(doc) \/ PurchasedInbox(doc) \/ UnavailableInbox(doc)
    /\ DeadlineOfBuyers(doc) => PurchasingInbox(doc)
    /\ AcceptsPurchase(doc) \/ (\E batch \in Batches : CanSend(batch)) =>
         CalendarShows(doc)
    /\ doc.bossDecision = "APPROVED" /\ doc.status # "REJECTED" =>
         /\ StatisticsOf(doc).purchased = {l \in Lines : doc.items[l] \in Batches}
         /\ StatisticsOf(doc).waiting # {} => AcceptsPurchase(doc)
    /\ LET r == Loaded(doc)
       IN  /\ {u \in Users : CanSubmitDecision(r, u)} \subseteq MembersTold(r)
           /\ CanConfirmBossDecision(r) => BossTold(r)
           /\ IsBossRejectionPendingResubmit(r) \/ RejectedMembers(r) # {} =>
                ApplicantTold(r)
           /\ r.status = "COMMISSION_REVIEW" =>
                MembersTold(r) # {} \/ ApplicantTold(r)
    /\ \A u \in MembersTold(doc) : ApprovalInbox(u)
    /\ BossTold(doc) => ApprovalInbox(doc.boss)
    /\ BuyersTold(doc) => PurchasingInbox(doc)
    /\ KeepersTold(doc) => PurchasedInbox(doc) \/ UnavailableInbox(doc)

==============================================================================
