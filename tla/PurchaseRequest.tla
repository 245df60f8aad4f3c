--------------------------- MODULE PurchaseRequest ---------------------------
(***************************************************************************)
(* The life of one purchase request: commission, boss, purchasing, and the *)
(* warehouse dispatches that drive its last statuses.  Handlers run one    *)
(* after the other here; RequestRaces drops that assumption.               *)
(*                                                                         *)
(* Each action is one HTTP handler, from its findByIdOrFail to its last    *)
(* save.  A handler that refuses still loaded the document, and may have   *)
(* repaired it: that is what Reconcile does, and what any read does.       *)
(***************************************************************************)
EXTENDS RequestDocument

VARIABLES doc,          \* the stored purchase_requests document
          dispatches,   \* the warehouse_dispatches documents that name it
          deleted       \* the request has been removed

vars == <<doc, dispatches, deleted>>

Tags == Batches \cup {NoBatch, Legacy}

Dispatch == [tag : Tags, goods : SUBSET Batches, completed : BOOLEAN]

TypeOK ==
  /\ doc \in Document
  /\ dispatches \subseteq Dispatch
  /\ deleted \in BOOLEAN

Init ==
  /\ \E members \in SUBSET Users, boss \in Users, content \in Contents :
       /\ ValidPanel(members, boss)
       /\ doc = Submitted(members, boss, content)
  /\ dispatches = {}
  /\ deleted = FALSE

----------------------------------------------------------------------------
(* Handlers of PurchaseRequestsService *)

Reconcile ==
  /\ ~deleted
  /\ Loaded(doc).status # doc.status
  /\ doc' = Loaded(doc)
  /\ UNCHANGED <<dispatches, deleted>>

Vote(member, decision) ==
  /\ ~deleted
  /\ CanSubmitDecision(Loaded(doc), member)
  /\ doc' = SubmitDecision(Loaded(doc), member, decision)
  /\ UNCHANGED <<dispatches, deleted>>

BossDecides(decision) ==
  /\ ~deleted
  /\ CanConfirmBossDecision(Loaded(doc))
  /\ doc' = ConfirmBossDecision(Loaded(doc), decision)
  /\ UNCHANGED <<dispatches, deleted>>

Edit(isViewerAdmin, members, boss, content) ==
  /\ ~deleted
  /\ CanUpdate(Loaded(doc), isViewerAdmin, members, boss)
  /\ doc' = Update(Loaded(doc), doc.memberDecisions, members, boss, content)
  /\ UNCHANGED <<dispatches, deleted>>

ResubmitBoss(members, boss, content) ==
  /\ ~deleted
  /\ CanResubmitToBoss(Loaded(doc), members, boss)
  /\ doc' = ResubmitToBoss(Loaded(doc), members, boss, content)
  /\ UNCHANGED <<dispatches, deleted>>

ResubmitCommission(selected, members, boss, content) ==
  /\ ~deleted
  /\ CanResubmitToCommission(Loaded(doc), selected, members, boss)
  /\ doc' = ResubmitToCommission(Loaded(doc), selected, members, boss, content)
  /\ UNCHANGED <<dispatches, deleted>>

Remove ==
  /\ ~deleted
  /\ CanDeleteRequest(Loaded(doc))
  /\ dispatches = {}
  /\ deleted' = TRUE
  /\ doc' = Stored(doc)
  /\ UNCHANGED dispatches

Buy(lines, batch) ==
  /\ ~deleted
  /\ AssertPurchasingView(doc)
  /\ CanResolveItems(Loaded(doc), lines)
  /\ batch \in Batches \ Loaded(doc).purchaseBatches
  /\ doc' = CompletePurchase(Loaded(doc), lines, batch)
  /\ UNCHANGED <<dispatches, deleted>>

GiveUp(lines) ==
  /\ ~deleted
  /\ AssertPurchasingView(doc)
  /\ CanResolveItems(Loaded(doc), lines)
  /\ doc' = MarkItemsUnavailable(Loaded(doc), lines)
  /\ UNCHANGED <<dispatches, deleted>>

PurchaseRejected ==
  /\ ~deleted
  /\ AssertPurchasingView(doc)
  /\ CanRejectPurchase(Loaded(doc))
  /\ doc' = RejectPurchase(Loaded(doc))
  /\ UNCHANGED <<dispatches, deleted>>

----------------------------------------------------------------------------
(* Handlers of WarehouseDispatchesService *)

\* resolveBatchItemIndexes, up to the lines of a batch
ResolveBatchGoods(r, tag) ==
  IF tag \in Batches THEN {tag} \cap PurchasedBatchIds(r) ELSE PurchasedBatchIds(r)

\* A bug the runs must find: batches that were never dispatched are forgotten.
WarehouseStatusOfSent(r, sent) ==
  IF ~AllItemsResolved(r) THEN "PURCHASING"
  ELSE IF PurchasedBatchIds(r) = {} THEN r.status
  ELSE IF \A d \in sent : d.completed THEN "WAREHOUSE_COMPLETED"
  ELSE "WAREHOUSE_IN_TRANSIT"

\* syncPurchaseRequestWarehouseStatus: the status that follows from the
\* items and the dispatches.
WarehouseStatus(r, sent) ==
  IF ~AllItemsResolved(r) THEN "PURCHASING"
  ELSE IF PurchasedBatchIds(r) = {} THEN r.status
  ELSE IF ~(PurchasedBatchIds(r) \subseteq {d.tag : d \in sent}) THEN r.status
  ELSE IF \A d \in sent : d.completed THEN "WAREHOUSE_COMPLETED"
  ELSE "WAREHOUSE_IN_TRANSIT"

SyncWarehouseStatus(stored, sent) ==
  LET r == Loaded(stored)
      status == WarehouseStatus(r, sent)
  IN  IF status = r.status THEN Stored(stored) ELSE [r EXCEPT !.status = status]

\* What create checks before it stores a dispatch.
CanSend(tag) ==
  /\ ~deleted
  /\ AssertPurchasingView(doc)
  /\ Loaded(doc).status \in {"PURCHASING", "PURCHASED", "WAREHOUSE_IN_TRANSIT"}
  /\ ResolveBatchGoods(Loaded(doc), tag) # {}
  /\ \A d \in dispatches : d.tag # tag

Send(tag) ==
  LET goods == ResolveBatchGoods(Loaded(doc), tag)
      sent == dispatches \cup {[tag |-> tag, goods |-> goods, completed |-> FALSE]}
  IN  /\ CanSend(tag)
      /\ dispatches' = sent
      /\ doc' = SyncWarehouseStatus(doc, sent)
      /\ UNCHANGED deleted

\* The receipt that completes a dispatch; earlier partial receipts do not
\* reach the request.
Receive(dispatch) ==
  LET sent == (dispatches \ {dispatch}) \cup {[dispatch EXCEPT !.completed = TRUE]}
  IN  /\ ~deleted
      /\ dispatch \in dispatches
      /\ ~dispatch.completed
      /\ dispatches' = sent
      /\ doc' = SyncWarehouseStatus(doc, sent)
      /\ UNCHANGED deleted

----------------------------------------------------------------------------

Approve ==
  \/ \E member \in Users, decision \in {"APPROVED", "PARTIAL", "REJECTED"} :
       Vote(member, decision)
  \/ \E decision \in {"APPROVED", "REJECTED"} : BossDecides(decision)

Apply ==
  \E members \in SUBSET Users, boss \in Users, content \in Contents :
    \/ \E isViewerAdmin \in BOOLEAN : Edit(isViewerAdmin, members, boss, content)
    \/ ResubmitBoss(members, boss, content)
    \/ \E selected \in SUBSET Users :
         ResubmitCommission(selected, members, boss, content)

Purchase ==
  \/ \E lines \in SUBSET Lines :
       \/ \E batch \in Batches : Buy(lines, batch)
       \/ GiveUp(lines)
  \/ PurchaseRejected

Warehouse ==
  \/ \E tag \in Tags : Send(tag)
  \/ \E dispatch \in dispatches : Receive(dispatch)

Next == Reconcile \/ Approve \/ Apply \/ Remove \/ Purchase \/ Warehouse

Spec == Init /\ [][Next]_vars
----------------------------------------------------------------------------
(* Properties *)

\* Approval means agreement: a request the boss approved has the agreement,
\* full or partial, of every member of its commission, whatever was edited,
\* resubmitted or reopened on the way (confirmBossDecision refuses otherwise).
ApprovedByWholeCommission ==
  doc.bossDecision = "APPROVED" =>
    doc.commissionMembers # {} /\ AllMembersAgreed(doc)

\* Nothing is bought before the boss approves.  Once a dispatch exists the
\* warehouse sync can move the status on its own: see EditableUntilApproved.
ProcurementIsApproved ==
  doc.status \in PostBossApproval /\ dispatches = {} =>
    doc.bossDecision = "APPROVED"

\* Four eyes, and an audit trail that agrees with the document: the decision
\* in force is the last BOSS_DECISION step of the history, taken by the boss
\* the request names now, who is not on its commission; and no vote is
\* attributed to someone who did not cast it: a slot that is filled holds the
\* last decision of that person in the history, also after members were dropped
\* from the commission and put back.
RecordBacksTheRequest ==
  /\ doc.bossDecision # "NONE" =>
       /\ doc.bossStep = [by |-> doc.boss, decision |-> doc.bossDecision]
       /\ doc.boss \notin doc.commissionMembers
  /\ \A u \in Users :
       doc.memberDecisions[u] # "NONE" =>
         doc.memberDecisions[u] = doc.decisionSteps[u]

\* The warehouse statuses are earned: a request in transit has no open line and
\* a dispatch for every batch it bought, a completed one has received them all.
WarehouseStatusIsEarned ==
  /\ doc.status \in {"WAREHOUSE_IN_TRANSIT", "WAREHOUSE_COMPLETED"} =>
       /\ AllItemsResolved(doc)
       /\ PurchasedBatchIds(doc) # {}
       /\ PurchasedBatchIds(doc) \subseteq {d.tag : d \in dispatches}
  /\ doc.status = "WAREHOUSE_COMPLETED" => \A d \in dispatches : d.completed

\* A request that goods were dispatched for is never deleted, even when an
\* administrator's edit has put it back into review.
DispatchedIsKept == deleted => dispatches = {}

\* While the boss's approval stands nobody changes what was approved: not the
\* content, the commission, its votes or the boss.  An approval that goes takes
\* every purchase with it: all lines pending, and the status back in review.
ApprovalPinsTheRequest ==
  [][doc.bossDecision = "APPROVED" =>
       IF doc'.bossDecision = "APPROVED"
       THEN /\ doc'.content = doc.content
            /\ doc'.commissionMembers = doc.commissionMembers
            /\ doc'.boss = doc.boss
            /\ \A m \in doc.commissionMembers :
                 doc'.memberDecisions[m] = doc.memberDecisions[m]
       ELSE /\ doc'.status \in {"COMMISSION_REVIEW", "BOSS_DECISION_PENDING"}
            /\ PendingLines(doc') = Lines
     ]_vars

\* A full agreement outlives every rework: a member who approved and stays on
\* the commission is not asked again and not turned into a refusal
\* (preserveMemberDecisionsAfterEdit, preserveMemberDecisionsAfterResubmit).
FullAgreementSurvives ==
  [][\A u \in doc.commissionMembers \cap doc'.commissionMembers :
       doc.memberDecisions[u] = "APPROVED" => doc'.memberDecisions[u] = "APPROVED"
    ]_vars

\* The outcome of a line is final: bought or given up, it changes only when the
\* whole request starts over.
LineOutcomeIsFinal ==
  [][(\E l \in Lines : ~IsPending(doc.items[l]) /\ doc'.items[l] # doc.items[l]) =>
       PendingLines(doc') = Lines /\ doc'.bossDecision = "NONE"]_vars

----------------------------------------------------------------------------
(* The document implements a sign-off *)

phase ==
  IF deleted THEN "gone"
  ELSE CASE doc.bossDecision = "APPROVED" -> "approved"
         [] doc.bossDecision = "REJECTED" -> "refused"
         [] OTHER -> "review"

panel == doc.commissionMembers
signed == {m \in panel : IsMemberAgreed(doc.memberDecisions[m])}
full == {m \in panel : doc.memberDecisions[m] = "APPROVED"}
onRecord == {u \in Users : IsMemberAgreed(doc.decisionSteps[u])}

Abstract == INSTANCE SignOff WITH
  Users <- Users, phase <- phase, panel <- panel, signed <- signed,
  full <- full, onRecord <- onRecord

\* Every handler of the service is a step of the sign-off or leaves it alone.
ImplementsSignOff == Abstract!Spec

----------------------------------------------------------------------------
(* What the code's own words promise and it does not keep *)

\* "Boshliq tasdiqlamaguncha ariza beruvchi tahrirlashi mumkin": until the boss
\* approves, the applicant may edit (comment of isEditableBeforeBossApproval).
EditableUntilApproved ==
  ~deleted /\ doc.bossDecision # "APPROVED" =>
    IsEditableBeforeBossApproval(Loaded(doc))

\* "Xarid rad etildi": a purchase that was rejected stays rejected until
\* somebody reworks the request.
PurchaseRejectionStands ==
  [][doc.status = "REJECTED" => doc'.status = "REJECTED" \/ doc'.bossDecision = "NONE"
    ]_vars

\* "Ushbu ariza allaqachon omborga jo'natilgan": goods that were sent to a
\* warehouse are not sent again under another tag.
GoodsSentOnce ==
  \A d, e \in dispatches : d.goods \cap e.goods # {} => d = e

\* "Omborga qabul qilindi": when every line is settled and every batch that was
\* bought has been received, the request is completed.
DeliveredIsCompleted ==
  (/\ ~deleted
   /\ AllItemsResolved(doc)
   /\ PurchasedBatchIds(doc) # {}
   /\ PurchasedBatchIds(doc) \subseteq {d.tag : d \in dispatches}
   /\ \A d \in dispatches : d.completed)
  => doc.status = "WAREHOUSE_COMPLETED"

==============================================================================
