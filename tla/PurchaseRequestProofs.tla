------------------------ MODULE PurchaseRequestProofs ------------------------
(***************************************************************************)
(* Theorems about PurchaseRequest, and about what RequestViews shows of it,*)
(* for any people, contents, item lines and batches.                       *)
(*                                                                         *)
(* The inductive invariant lives on the document: Sound(r) says what every *)
(* stored document satisfies, and one lemma per handler says that the copy *)
(* the handler saves is sound when the copy it loaded was.                 *)
(***************************************************************************)
EXTENDS RequestViews, TLAPS

\* The strengthening: a decision of the boss takes the request out of review.
\* Without it a load could put a decided request back before its commission,
\* and Remove could delete one.
StatusFollowsDecision(r) ==
  /\ r.bossDecision \in {"NONE", "APPROVED", "REJECTED"}
  /\ r.bossDecision # "NONE" => r.status \in PostBossApproval \cup {"REJECTED"}

Signed(r) == r.bossDecision = "APPROVED" => AllMembersAgreed(r)

Backed(r) ==
  r.bossDecision # "NONE" => r.bossStep = [by |-> r.boss, decision |-> r.bossDecision]

Recorded(r) ==
  \A u \in Users :
    r.memberDecisions[u] # "NONE" => r.memberDecisions[u] = r.decisionSteps[u]

Sound(r) ==
  /\ r \in Document
  /\ ValidPanel(r.commissionMembers, r.boss)
  /\ StatusFollowsDecision(r)
  /\ Signed(r)
  /\ Backed(r)
  /\ Recorded(r)

----------------------------------------------------------------------------
(* One lemma per handler *)

LEMMA RecomputeType ==
  ASSUME NEW r, r \in Document
  PROVE  RecomputeStatus(r) \in Status
BY DEF RecomputeStatus, Status, Document, PostBossApproval

\* Every handler ends by giving the copy a status; nothing else moves then.
LEMMA WithStatus ==
  ASSUME NEW r, r \in Document, NEW status \in Status, NEW next,
         next = [r EXCEPT !.status = status]
  PROVE  /\ next \in Document
         /\ next.status = status
         /\ next.commissionMembers = r.commissionMembers
         /\ next.boss = r.boss
         /\ next.memberDecisions = r.memberDecisions
         /\ next.bossDecision = r.bossDecision
         /\ next.content = r.content
         /\ next.items = r.items
         /\ next.purchaseBatches = r.purchaseBatches
         /\ next.decisionSteps = r.decisionSteps
         /\ next.bossStep = r.bossStep
BY DEF Document

LEMMA SubmittedSound ==
  ASSUME NEW members \in SUBSET Users, NEW boss \in Users, NEW content \in Contents,
         ValidPanel(members, boss)
  PROVE  Sound(Submitted(members, boss, content))
BY DEF Sound, Submitted, Document, Status, Decision, ItemState, PostBossApproval,
       StatusFollowsDecision, Signed, Backed, Recorded

LEMMA LoadedSound ==
  ASSUME NEW stored, Sound(stored)
  PROVE  Sound(Loaded(stored))
<1> DEFINE r == SyncMemberDecisions(stored)
<1>1. /\ r \in Document
      /\ r.status = stored.status
      /\ r.bossDecision = stored.bossDecision
      /\ r.commissionMembers = stored.commissionMembers
      /\ r.boss = stored.boss
      /\ r.bossStep = stored.bossStep
      /\ r.decisionSteps = stored.decisionSteps
      /\ \A u \in Users : r.memberDecisions[u] =
           IF u \in stored.commissionMembers THEN stored.memberDecisions[u] ELSE "NONE"
  BY DEF SyncMemberDecisions, Sound, Document, Decision
<1>2. /\ Loaded(stored) \in Document
      /\ Loaded(stored) = [r EXCEPT !.status = ReconciledStatus(r)]
  BY <1>1, RecomputeType DEF Loaded, ReconciledStatus, Document
<1>3. Signed(r) /\ Backed(r) /\ Recorded(r)
  BY <1>1 DEF Sound, Signed, Backed, Recorded, AllMembersAgreed, IsMemberAgreed, Document
<1>4. StatusFollowsDecision(Loaded(stored))
  BY <1>1, <1>2 DEF Sound, StatusFollowsDecision, ReconciledStatus, RecomputeStatus,
                    PostBossApproval, Document
<1> QED
  BY <1>1, <1>2, <1>3, <1>4
     DEF Sound, Signed, Backed, Recorded, AllMembersAgreed, Document

LEMMA SubmitDecisionSound ==
  ASSUME NEW r, Sound(r), NEW member \in Users,
         NEW decision \in {"APPROVED", "PARTIAL", "REJECTED"},
         CanSubmitDecision(r, member)
  PROVE  Sound(SubmitDecision(r, member, decision))
<1> DEFINE voted == [r EXCEPT !.memberDecisions[member] = decision,
                              !.decisionSteps[member] = decision]
<1>1. voted \in Document
  BY DEF Sound, Document, Decision
<1>2. SubmitDecision(r, member, decision)
        = [voted EXCEPT !.status = RecomputeStatus(voted)]
  BY DEF SubmitDecision
<1>3. r.bossDecision = "NONE"
  BY DEF Sound, StatusFollowsDecision, CanSubmitDecision, IsApprovalWorkflowClosed
<1>4. Recorded(voted)
  BY DEF Sound, Recorded, Document
<1> DEFINE next == SubmitDecision(r, member, decision)
<1>5. /\ next \in Document
      /\ next.memberDecisions = voted.memberDecisions
      /\ next.decisionSteps = voted.decisionSteps
      /\ next.bossDecision = r.bossDecision
      /\ next.commissionMembers = r.commissionMembers
      /\ next.boss = r.boss
  <2>1. /\ voted.bossDecision = r.bossDecision
        /\ voted.commissionMembers = r.commissionMembers
        /\ voted.boss = r.boss
    BY DEF Sound, Document
  <2> HIDE DEF voted, next
  <2>2. RecomputeStatus(voted) \in Status
    BY <1>1, RecomputeType
  <2> QED
    BY <1>1, <1>2, <2>1, <2>2, WithStatus DEF next
<1>6. Recorded(next)
  BY <1>4, <1>5 DEF Recorded
<1> QED
  BY <1>3, <1>5, <1>6 DEF Sound, StatusFollowsDecision, Signed, Backed

LEMMA ConfirmBossDecisionSound ==
  ASSUME NEW r, Sound(r), NEW decision \in {"APPROVED", "REJECTED"},
         CanConfirmBossDecision(r)
  PROVE  Sound(ConfirmBossDecision(r, decision))
<1>1. AllMembersAgreed(r)
  BY DEF CanConfirmBossDecision, IsBossDecisionPhase, AreAllCommissionMembersAgreed
<1>2. ConfirmBossDecision(r, decision) \in Document
  BY DEF ConfirmBossDecision, Sound, Document, Decision, Status, PostBossApproval
<1> QED
  BY <1>1, <1>2
     DEF ConfirmBossDecision, Sound, StatusFollowsDecision, Signed, Backed, Recorded,
         AllMembersAgreed, PostBossApproval, Document

LEMMA RewrittenDocument ==
  ASSUME NEW r, Sound(r), NEW members \in SUBSET Users, NEW boss \in Users,
         NEW content \in Contents
  PROVE  Rewritten(r, members, boss, content) \in Document
BY DEF Rewritten, Sound, Document, Decision, ItemState

LEMMA UpdateSound ==
  ASSUME NEW r, Sound(r), NEW prior \in [Users -> Decision],
         \A u \in Users : prior[u] # "NONE" => prior[u] = r.decisionSteps[u],
         NEW members \in SUBSET Users, NEW boss \in Users, NEW content \in Contents,
         ValidPanel(members, boss)
  PROVE  Sound(Update(r, prior, members, boss, content))
<1> DEFINE w == Rewritten(r, members, boss, content)
           kept == [u \in Users |->
                      IF u \in members /\ prior[u] = "APPROVED" THEN "APPROVED"
                      ELSE "NONE"]
           next == Update(r, prior, members, boss, content)
<1>1. w \in Document /\ kept \in [Users -> Decision]
  BY RewrittenDocument DEF Decision
<1>2. /\ next \in Document
      /\ next.commissionMembers = members
      /\ next.boss = boss
      /\ next.bossDecision = "NONE"
      /\ next.decisionSteps = r.decisionSteps
      /\ next.memberDecisions = kept
  BY <1>1 DEF Update, Rewritten, Document, Status, Sound
<1> QED
  BY <1>2 DEF Sound, StatusFollowsDecision, Signed, Backed, Recorded

LEMMA ResubmitToBossSound ==
  ASSUME NEW r, Sound(r), NEW members \in SUBSET Users, NEW boss \in Users,
         NEW content \in Contents, ValidPanel(members, boss)
  PROVE  Sound(ResubmitToBoss(r, members, boss, content))
<1> DEFINE next == ResubmitToBoss(r, members, boss, content)
<1>1. /\ next \in Document
      /\ next.commissionMembers = members
      /\ next.boss = boss
      /\ next.bossDecision = "NONE"
      /\ next.decisionSteps = r.decisionSteps
      /\ next.memberDecisions = r.memberDecisions
  BY RewrittenDocument DEF ResubmitToBoss, Rewritten, Document, Status, Sound
<1> QED
  BY <1>1 DEF Sound, StatusFollowsDecision, Signed, Backed, Recorded

LEMMA ResubmitToCommissionSound ==
  ASSUME NEW r, Sound(r), NEW selected \in SUBSET Users,
         NEW members \in SUBSET Users, NEW boss \in Users,
         NEW content \in Contents, ValidPanel(members, boss)
  PROVE  Sound(ResubmitToCommission(r, selected, members, boss, content))
<1> DEFINE w == Rewritten(r, members, boss, content)
           again(u) == \/ u \notin members
                       \/ r.memberDecisions[u] = "PARTIAL"
                       \/ r.memberDecisions[u] = "REJECTED" /\ u \in selected
           votes == [u \in Users |-> IF again(u) THEN "NONE" ELSE r.memberDecisions[u]]
           asked == [w EXCEPT !.memberDecisions = votes]
           next == ResubmitToCommission(r, selected, members, boss, content)
<1>1. votes \in [Users -> Decision]
  BY DEF Sound, Document, Decision
<1>2. /\ w \in Document
      /\ w.memberDecisions = r.memberDecisions
      /\ w.commissionMembers = members
      /\ w.boss = boss
      /\ w.bossDecision = "NONE"
      /\ w.decisionSteps = r.decisionSteps
  BY RewrittenDocument DEF Rewritten, Sound, Document
<1>3. /\ asked \in Document
      /\ asked.memberDecisions = votes
      /\ asked.commissionMembers = members
      /\ asked.boss = boss
      /\ asked.bossDecision = "NONE"
      /\ asked.decisionSteps = r.decisionSteps
  BY <1>1, <1>2 DEF Document
<1>4. next = [asked EXCEPT !.status = RecomputeStatus(asked)]
  BY <1>2 DEF ResubmitToCommission, Document
<1>5. /\ next \in Document
      /\ next.commissionMembers = members
      /\ next.boss = boss
      /\ next.bossDecision = "NONE"
      /\ next.decisionSteps = r.decisionSteps
      /\ next.memberDecisions = votes
  <2> HIDE DEF asked, next
  <2>1. RecomputeStatus(asked) \in Status
    BY <1>3, RecomputeType
  <2> QED
    BY <1>3, <1>4, <2>1, WithStatus
<1> QED
  BY <1>5 DEF Sound, StatusFollowsDecision, Signed, Backed, Recorded

\* Purchasing and the warehouse sync leave everything about the approval alone.
LEMMA PurchasingSound ==
  ASSUME NEW r, Sound(r), NEW next, next \in Document,
         next.commissionMembers = r.commissionMembers,
         next.boss = r.boss,
         next.memberDecisions = r.memberDecisions,
         next.bossDecision = r.bossDecision,
         next.decisionSteps = r.decisionSteps,
         next.bossStep = r.bossStep,
         next.status \in PostBossApproval \cup {"REJECTED"}
            \/ next.status = r.status
  PROVE  Sound(next)
BY DEF Sound, StatusFollowsDecision, Signed, Backed, Recorded, AllMembersAgreed

LEMMA LoadedFields ==
  ASSUME NEW stored, Sound(stored)
  PROVE  /\ Loaded(stored).commissionMembers = stored.commissionMembers
         /\ Loaded(stored).boss = stored.boss
         /\ Loaded(stored).bossDecision = stored.bossDecision
         /\ Loaded(stored).content = stored.content
         /\ Loaded(stored).items = stored.items
         /\ Loaded(stored).purchaseBatches = stored.purchaseBatches
         /\ Loaded(stored).decisionSteps = stored.decisionSteps
         /\ Loaded(stored).bossStep = stored.bossStep
         /\ \A u \in Users : Loaded(stored).memberDecisions[u] =
              IF u \in stored.commissionMembers THEN stored.memberDecisions[u] ELSE "NONE"
<1> DEFINE r == SyncMemberDecisions(stored)
<1>1. /\ r \in Document
      /\ r.commissionMembers = stored.commissionMembers
      /\ r.boss = stored.boss
      /\ r.bossDecision = stored.bossDecision
      /\ r.content = stored.content
      /\ r.items = stored.items
      /\ r.purchaseBatches = stored.purchaseBatches
      /\ r.decisionSteps = stored.decisionSteps
      /\ r.bossStep = stored.bossStep
      /\ \A u \in Users : r.memberDecisions[u] =
           IF u \in stored.commissionMembers THEN stored.memberDecisions[u] ELSE "NONE"
  BY DEF SyncMemberDecisions, Sound, Document, Decision
<1>2. ReconciledStatus(r) \in Status
  BY <1>1, RecomputeType DEF ReconciledStatus, Document
<1>3. Loaded(stored) = [r EXCEPT !.status = ReconciledStatus(r)]
  BY DEF Loaded
<1> HIDE DEF r
<1> QED
  BY <1>1, <1>2, <1>3, WithStatus

\* A load can move the status into purchasing, on the boss's approval, and out
\* of nothing; it never moves it to a warehouse status.
LEMMA LoadedStatus ==
  ASSUME NEW stored, Sound(stored)
  PROVE  /\ Loaded(stored).status \in PostBossApproval =>
              stored.bossDecision = "APPROVED" \/ stored.status \in PostBossApproval
         /\ Loaded(stored).status \in {"WAREHOUSE_IN_TRANSIT", "WAREHOUSE_COMPLETED"} =>
              Loaded(stored).status = stored.status
         /\ stored.bossDecision = "APPROVED" => Loaded(stored).status \in PostBossApproval
         /\ stored.status \in PostBossApproval => Loaded(stored).status = stored.status
<1> DEFINE r == SyncMemberDecisions(stored)
<1>1. /\ r \in Document
      /\ r.status = stored.status
      /\ r.bossDecision = stored.bossDecision
  BY DEF SyncMemberDecisions, Sound, Document, Decision
<1>2. Loaded(stored).status = ReconciledStatus(r)
  BY <1>1 DEF Loaded, Document
<1> QED
  BY <1>1, <1>2
     DEF ReconciledStatus, RecomputeStatus, PostBossApproval, Sound, StatusFollowsDecision

LEMMA StoredSound ==
  ASSUME NEW stored, Sound(stored)
  PROVE  Sound(Stored(stored))
BY LoadedSound DEF Stored

\* completePurchase and markItemsUnavailable
LEMMA ResolvedFields ==
  ASSUME NEW r, Sound(r), NEW lines \in SUBSET Lines, NEW state \in ItemState,
         NEW next, next = Resolved(r, lines, state)
  PROVE  /\ next \in Document
         /\ next.commissionMembers = r.commissionMembers
         /\ next.boss = r.boss
         /\ next.memberDecisions = r.memberDecisions
         /\ next.bossDecision = r.bossDecision
         /\ next.content = r.content
         /\ next.decisionSteps = r.decisionSteps
         /\ next.bossStep = r.bossStep
         /\ next.status \in {"PURCHASED", "PURCHASING"}
         /\ next.purchaseBatches = r.purchaseBatches
         /\ \A l \in Lines : next.items[l] = IF l \in lines THEN state ELSE r.items[l]
<1> DEFINE states == [l \in Lines |-> IF l \in lines THEN state ELSE r.items[l]]
           done == [r EXCEPT !.items = states]
           status == IF AllItemsResolved(done) THEN "PURCHASED" ELSE "PURCHASING"
<1>1. /\ done \in Document
      /\ done.commissionMembers = r.commissionMembers
      /\ done.boss = r.boss
      /\ done.memberDecisions = r.memberDecisions
      /\ done.bossDecision = r.bossDecision
      /\ done.content = r.content
      /\ done.decisionSteps = r.decisionSteps
      /\ done.bossStep = r.bossStep
      /\ done.purchaseBatches = r.purchaseBatches
      /\ done.items = states
  BY DEF Sound, Document
<1>2. next = [done EXCEPT !.status = status]
  BY DEF Resolved, Sound, Document
<1>3. status \in Status /\ status \in {"PURCHASED", "PURCHASING"}
  BY DEF Status, PostBossApproval
<1> HIDE DEF done, status
<1>4. /\ next \in Document
      /\ next.status = status
      /\ next.commissionMembers = done.commissionMembers
      /\ next.boss = done.boss
      /\ next.memberDecisions = done.memberDecisions
      /\ next.bossDecision = done.bossDecision
      /\ next.content = done.content
      /\ next.items = done.items
      /\ next.purchaseBatches = done.purchaseBatches
      /\ next.decisionSteps = done.decisionSteps
      /\ next.bossStep = done.bossStep
  BY <1>1, <1>2, <1>3, WithStatus
<1> QED
  BY <1>1, <1>3, <1>4

----------------------------------------------------------------------------
(* The warehouse sync *)

Earned(r, sent) ==
  /\ r.status \in {"WAREHOUSE_IN_TRANSIT", "WAREHOUSE_COMPLETED"} =>
       /\ AllItemsResolved(r)
       /\ PurchasedBatchIds(r) # {}
       /\ PurchasedBatchIds(r) \subseteq {d.tag : d \in sent}
  /\ r.status = "WAREHOUSE_COMPLETED" => \A d \in sent : d.completed

LEMMA SyncFields ==
  ASSUME NEW stored, Sound(stored), NEW sent
  PROVE  LET next == SyncWarehouseStatus(stored, sent)
         IN  /\ Sound(next)
             /\ next.status = WarehouseStatus(Loaded(stored), sent)
             /\ next.items = stored.items
             /\ next.content = stored.content
             /\ next.commissionMembers = stored.commissionMembers
             /\ next.boss = stored.boss
             /\ next.bossDecision = stored.bossDecision
             /\ next.decisionSteps = stored.decisionSteps
             /\ next.bossStep = stored.bossStep
             /\ next.purchaseBatches = stored.purchaseBatches
             /\ \A u \in stored.commissionMembers :
                  next.memberDecisions[u] = stored.memberDecisions[u]
<1> DEFINE r == Loaded(stored)
           status == WarehouseStatus(r, sent)
           next == SyncWarehouseStatus(stored, sent)
<1>1. Sound(r)
  BY LoadedSound
<1>2. stored.commissionMembers \subseteq Users
  BY DEF Sound, Document
<1>3. CASE status = r.status
  <2>1. next = Stored(stored)
    BY <1>3 DEF SyncWarehouseStatus
  <2>2. Stored(stored) = stored \/ Stored(stored) = r
    BY DEF Stored
  <2>3. Stored(stored).status = r.status
    BY DEF Stored
  <2> QED
    BY <1>1, <1>2, <1>3, <2>1, <2>2, <2>3, LoadedFields
<1>4. CASE status # r.status
  <2>1. next = [r EXCEPT !.status = status]
    BY <1>4 DEF SyncWarehouseStatus
  <2>2. status \in PostBossApproval
    BY <1>4 DEF WarehouseStatus, PostBossApproval
  <2>3. status \in Status /\ r \in Document
    BY <1>1, <2>2 DEF Status, Sound
  <2> HIDE DEF r, status, next
  <2>4. /\ next \in Document
        /\ next.status = status
        /\ next.commissionMembers = r.commissionMembers
        /\ next.boss = r.boss
        /\ next.memberDecisions = r.memberDecisions
        /\ next.bossDecision = r.bossDecision
        /\ next.content = r.content
        /\ next.items = r.items
        /\ next.purchaseBatches = r.purchaseBatches
        /\ next.decisionSteps = r.decisionSteps
        /\ next.bossStep = r.bossStep
    BY <2>1, <2>3, WithStatus
  <2>5. Sound(next)
    BY <1>1, <2>2, <2>4, PurchasingSound
  <2> QED
    BY <1>2, <2>4, <2>5, LoadedFields DEF r, status, next
<1> QED
  BY <1>3, <1>4

\* The sync gives a warehouse status only where items and dispatches justify it,
\* and leaves one alone only where they did before the new dispatch or receipt.
LEMMA SyncEarned ==
  ASSUME NEW stored, Sound(stored), NEW before, NEW sent,
         Earned(stored, before),
         {d.tag : d \in before} \subseteq {d.tag : d \in sent}
  PROVE  Earned(SyncWarehouseStatus(stored, sent), sent)
<1> DEFINE r == Loaded(stored)
           next == SyncWarehouseStatus(stored, sent)
<1>1. next.status = WarehouseStatus(r, sent) /\ next.items = r.items
  BY SyncFields, LoadedFields
<1>2. AllItemsResolved(next) <=> AllItemsResolved(r)
  BY <1>1 DEF AllItemsResolved, PendingLines
<1>3. PurchasedBatchIds(next) = PurchasedBatchIds(r)
  BY <1>1 DEF PurchasedBatchIds
<1>4. r.status \in {"WAREHOUSE_IN_TRANSIT", "WAREHOUSE_COMPLETED"} =>
        /\ PurchasedBatchIds(r) # {}
        /\ PurchasedBatchIds(r) \subseteq {d.tag : d \in sent}
  BY LoadedStatus, LoadedFields DEF Earned, PurchasedBatchIds
<1>5. Earned(next, sent)
  <2> HIDE DEF r, next
  <2>1. CASE ~AllItemsResolved(r)
    BY <1>1, <2>1 DEF Earned, WarehouseStatus
  <2>2. CASE AllItemsResolved(r)
    BY <1>1, <1>2, <1>3, <1>4, <2>2 DEF Earned, WarehouseStatus
  <2> QED
    BY <2>1, <2>2
<1> QED
  BY <1>5

----------------------------------------------------------------------------
(* The invariant *)

Inv ==
  /\ TypeOK
  /\ Sound(doc)
  /\ DispatchedIsKept
  /\ ProcurementIsApproved
  /\ Earned(doc, dispatches)

LEMMA InitInv == Init => Inv
<1> SUFFICES ASSUME Init PROVE Inv
  OBVIOUS
<1>1. PICK members \in SUBSET Users, boss \in Users, content \in Contents :
        ValidPanel(members, boss) /\ doc = Submitted(members, boss, content)
  BY DEF Init
<1>2. Sound(doc)
  BY <1>1, SubmittedSound
<1>3. doc.status = "COMMISSION_REVIEW"
  BY <1>1 DEF Submitted
<1> QED
  BY <1>2, <1>3
     DEF Init, Inv, TypeOK, Sound, DispatchedIsKept, ProcurementIsApproved, Earned,
         PostBossApproval

\* What the handlers of PurchaseRequestsService have in common.
LEMMA RequestStep ==
  ASSUME Inv, Sound(doc'), UNCHANGED <<dispatches, deleted>>,
         doc'.status \in PostBossApproval =>
           doc'.bossDecision = "APPROVED" \/ dispatches # {},
         doc'.status \notin {"WAREHOUSE_IN_TRANSIT", "WAREHOUSE_COMPLETED"}
  PROVE  Inv'
BY DEF Inv, TypeOK, Sound, DispatchedIsKept, ProcurementIsApproved, Earned

\* ... and the handlers that leave the request in review or rejected.
LEMMA ReviewStep ==
  ASSUME Inv, Sound(doc'), UNCHANGED <<dispatches, deleted>>,
         doc'.status \notin PostBossApproval
  PROVE  Inv'
BY RequestStep DEF PostBossApproval

LEMMA WarehouseStep ==
  ASSUME Inv, NEW sent, sent \subseteq Dispatch, sent # {}, ~deleted,
         {d.tag : d \in dispatches} \subseteq {d.tag : d \in sent},
         dispatches' = sent,
         doc' = SyncWarehouseStatus(doc, sent),
         UNCHANGED deleted
  PROVE  Inv'
<1>1. Sound(doc')
  BY SyncFields DEF Inv
<1>2. Earned(doc', dispatches')
  BY SyncEarned DEF Inv
<1> QED
  BY <1>1, <1>2
     DEF Inv, TypeOK, Sound, DispatchedIsKept, ProcurementIsApproved

LEMMA NextInv == Inv /\ [Next]_vars => Inv'
<1> SUFFICES ASSUME Inv, [Next]_vars PROVE Inv'
  OBVIOUS
<1> DEFINE r == Loaded(doc)
<1>1. Sound(doc) /\ Sound(r) /\ r \in Document
  BY LoadedSound DEF Inv, Sound
<1>2. r.bossDecision = doc.bossDecision /\ r.decisionSteps = doc.decisionSteps
  BY <1>1, LoadedFields
<1>3. doc.memberDecisions \in [Users -> Decision]
  BY <1>1 DEF Sound, Document
<1>a. CASE Reconcile
  <2>1. doc' = r /\ r.status # doc.status
    BY <1>a DEF Reconcile
  <2>2. r.status \in PostBossApproval => r.bossDecision = "APPROVED" \/ dispatches # {}
    BY <1>1, <1>2, LoadedStatus DEF Inv, ProcurementIsApproved
  <2>3. r.status \notin {"WAREHOUSE_IN_TRANSIT", "WAREHOUSE_COMPLETED"}
    BY <1>1, <2>1, LoadedStatus
  <2> QED
    BY <1>1, <1>a, <2>1, <2>2, <2>3, RequestStep DEF Reconcile
<1>b. CASE Approve
  <2>1. ASSUME NEW member \in Users, NEW decision \in {"APPROVED", "PARTIAL", "REJECTED"},
               Vote(member, decision)
        PROVE  Inv'
    <3>1. CanSubmitDecision(r, member) /\ doc' = SubmitDecision(r, member, decision)
      BY <2>1 DEF Vote
    <3>2. Sound(doc')
      BY <1>1, <3>1, SubmitDecisionSound
    <3>3. doc'.status \notin PostBossApproval
      BY <1>1, <3>1
         DEF CanSubmitDecision, IsApprovalWorkflowClosed, IsCommissionReviewOpen,
             IsCommissionResubmitPhase, SubmitDecision, RecomputeStatus, PostBossApproval,
             Document
    <3> QED
      BY <2>1, <3>2, <3>3, ReviewStep DEF Vote
  <2>2. ASSUME NEW decision \in {"APPROVED", "REJECTED"}, BossDecides(decision)
        PROVE  Inv'
    <3>1. CanConfirmBossDecision(r) /\ doc' = ConfirmBossDecision(r, decision)
      BY <2>2 DEF BossDecides
    <3>2. Sound(doc')
      BY <1>1, <3>1, ConfirmBossDecisionSound
    <3>3. /\ doc'.bossDecision = decision
          /\ doc'.status = IF decision = "APPROVED" THEN "PURCHASING" ELSE "REJECTED"
      BY <1>1, <3>1 DEF ConfirmBossDecision, Document
    <3> QED
      BY <2>2, <3>2, <3>3, RequestStep DEF BossDecides, PostBossApproval
  <2> QED
    BY <1>b, <2>1, <2>2 DEF Approve
<1>c. CASE Apply
  <2> PICK members \in SUBSET Users, boss \in Users, content \in Contents :
        \/ \E isViewerAdmin \in BOOLEAN : Edit(isViewerAdmin, members, boss, content)
        \/ ResubmitBoss(members, boss, content)
        \/ \E selected \in SUBSET Users :
             ResubmitCommission(selected, members, boss, content)
    BY <1>c DEF Apply
  <2>1. ASSUME NEW isViewerAdmin \in BOOLEAN, Edit(isViewerAdmin, members, boss, content)
        PROVE  Inv'
    <3>1. /\ CanUpdate(r, isViewerAdmin, members, boss)
          /\ doc' = Update(r, doc.memberDecisions, members, boss, content)
      BY <2>1 DEF Edit
    <3>a. \A u \in Users : doc.memberDecisions[u] # "NONE" =>
                             doc.memberDecisions[u] = r.decisionSteps[u]
      BY <1>1, <1>2 DEF Sound, Recorded
    <3>b. ValidPanel(members, boss)
      BY <3>1 DEF CanUpdate
    <3>2. Sound(doc')
      <4> HIDE DEF r
      <4> QED
        BY <1>1, <1>3, <3>1, <3>a, <3>b, UpdateSound
    <3>3. doc'.status \in {"COMMISSION_REVIEW", "BOSS_DECISION_PENDING"}
      BY <1>1, <3>1, RewrittenDocument DEF Update, Document
    <3> QED
      BY <2>1, <3>2, <3>3, ReviewStep DEF Edit, PostBossApproval
  <2>2. ASSUME ResubmitBoss(members, boss, content)
        PROVE  Inv'
    <3>1. /\ CanResubmitToBoss(r, members, boss)
          /\ doc' = ResubmitToBoss(r, members, boss, content)
      BY <2>2 DEF ResubmitBoss
    <3>2. Sound(doc')
      BY <1>1, <3>1, ResubmitToBossSound DEF CanResubmitToBoss
    <3>3. doc'.status = "BOSS_DECISION_PENDING"
      BY <1>1, <3>1, RewrittenDocument DEF ResubmitToBoss, Document
    <3> QED
      BY <2>2, <3>2, <3>3, ReviewStep DEF ResubmitBoss, PostBossApproval
  <2>3. ASSUME NEW selected \in SUBSET Users,
               ResubmitCommission(selected, members, boss, content)
        PROVE  Inv'
    <3>1. /\ CanResubmitToCommission(r, selected, members, boss)
          /\ doc' = ResubmitToCommission(r, selected, members, boss, content)
      BY <2>3 DEF ResubmitCommission
    <3>2. Sound(doc')
      BY <1>1, <3>1, ResubmitToCommissionSound DEF CanResubmitToCommission
    <3>3. doc'.status \notin PostBossApproval
      BY <1>1, <3>1
         DEF CanResubmitToCommission, IsCommissionResubmitPhase, ResubmitToCommission,
             Rewritten, RecomputeStatus, PostBossApproval, Document
    <3> QED
      BY <2>3, <3>2, <3>3, ReviewStep DEF ResubmitCommission
  <2> QED
    BY <2>1, <2>2, <2>3
<1>d. CASE Remove
  <2>1. doc' = Stored(doc) /\ r.status = "COMMISSION_REVIEW" /\ dispatches = {}
    BY <1>d DEF Remove, CanDeleteRequest
  <2>2. Sound(doc') /\ doc'.status = "COMMISSION_REVIEW"
    BY <1>1, <2>1, StoredSound DEF Stored
  <2> QED
    BY <1>d, <2>1, <2>2
       DEF Remove, Inv, TypeOK, Sound, DispatchedIsKept, ProcurementIsApproved, Earned,
           PostBossApproval
<1>e. CASE Purchase
  <2>1. doc.status \in PostBossApproval =>
          doc.bossDecision = "APPROVED" \/ dispatches # {}
    BY DEF Inv, ProcurementIsApproved
  <2>2. ASSUME NEW lines \in SUBSET Lines, NEW batch \in Batches, Buy(lines, batch)
        PROVE  Inv'
    <3> DEFINE resolved == Resolved(r, lines, batch)
    <3>1. doc' = [resolved EXCEPT !.purchaseBatches = @ \cup {batch}]
      BY <2>2 DEF Buy, CompletePurchase
    <3>2. /\ resolved \in Document
          /\ resolved.commissionMembers = r.commissionMembers
          /\ resolved.boss = r.boss
          /\ resolved.memberDecisions = r.memberDecisions
          /\ resolved.bossDecision = r.bossDecision
          /\ resolved.decisionSteps = r.decisionSteps
          /\ resolved.bossStep = r.bossStep
          /\ resolved.status \in {"PURCHASED", "PURCHASING"}
      <4>1. batch \in ItemState
        BY DEF ItemState
      <4> HIDE DEF r
      <4> QED
        BY <1>1, <4>1, ResolvedFields
    <3> HIDE DEF resolved
    <3>3. /\ doc' \in Document
          /\ doc'.commissionMembers = r.commissionMembers
          /\ doc'.boss = r.boss
          /\ doc'.memberDecisions = r.memberDecisions
          /\ doc'.bossDecision = r.bossDecision
          /\ doc'.decisionSteps = r.decisionSteps
          /\ doc'.bossStep = r.bossStep
          /\ doc'.status \in {"PURCHASED", "PURCHASING"}
      BY <3>1, <3>2 DEF Document
    <3>4. Sound(doc')
      BY <1>1, <3>3, PurchasingSound DEF PostBossApproval
    <3> QED
      BY <1>2, <2>1, <2>2, <3>3, <3>4, RequestStep DEF Buy, AssertPurchasingView
  <2>3. ASSUME NEW lines \in SUBSET Lines, GiveUp(lines)
        PROVE  Inv'
    <3> DEFINE resolved == Resolved(r, lines, "UNAVAILABLE")
    <3>1. doc' = resolved
      BY <2>3 DEF GiveUp, MarkItemsUnavailable
    <3>2. /\ resolved \in Document
          /\ resolved.commissionMembers = r.commissionMembers
          /\ resolved.boss = r.boss
          /\ resolved.memberDecisions = r.memberDecisions
          /\ resolved.bossDecision = r.bossDecision
          /\ resolved.decisionSteps = r.decisionSteps
          /\ resolved.bossStep = r.bossStep
          /\ resolved.status \in {"PURCHASED", "PURCHASING"}
      <4>1. "UNAVAILABLE" \in ItemState
        BY DEF ItemState
      <4> HIDE DEF r
      <4> QED
        BY <1>1, <4>1, ResolvedFields
    <3> HIDE DEF resolved
    <3>3. Sound(doc')
      BY <1>1, <3>1, <3>2, PurchasingSound DEF PostBossApproval
    <3> QED
      BY <1>2, <2>1, <2>3, <3>1, <3>2, <3>3, RequestStep DEF GiveUp, AssertPurchasingView
  <2>4. ASSUME PurchaseRejected
        PROVE  Inv'
    <3>1. doc' = [r EXCEPT !.status = "REJECTED"] /\ "REJECTED" \in Status
      BY <2>4 DEF PurchaseRejected, RejectPurchase, Status
    <3>2. Sound(doc') /\ doc'.status = "REJECTED"
      BY <1>1, <3>1, WithStatus, PurchasingSound
    <3> QED
      BY <2>4, <3>2, ReviewStep DEF PurchaseRejected, PostBossApproval
  <2> QED
    BY <1>e, <2>2, <2>3, <2>4 DEF Purchase
<1>f. CASE Warehouse
  <2>1. ASSUME NEW tag \in Tags, Send(tag)
        PROVE  Inv'
    <3> DEFINE new == [tag |-> tag, goods |-> ResolveBatchGoods(r, tag),
                       completed |-> FALSE]
               sent == dispatches \cup {new}
    <3>1. new \in Dispatch
      BY DEF Dispatch, ResolveBatchGoods, PurchasedBatchIds
    <3>2. sent \subseteq Dispatch /\ sent # {}
      BY <3>1 DEF Inv, TypeOK
    <3>3. {d.tag : d \in dispatches} \subseteq {d.tag : d \in sent}
      OBVIOUS
    <3>4. /\ ~deleted
          /\ dispatches' = sent
          /\ doc' = SyncWarehouseStatus(doc, sent)
          /\ UNCHANGED deleted
      BY <2>1 DEF Send, CanSend
    <3> QED
      BY <3>2, <3>3, <3>4, WarehouseStep
  <2>2. ASSUME NEW dispatch \in dispatches, Receive(dispatch)
        PROVE  Inv'
    <3> DEFINE done == [dispatch EXCEPT !.completed = TRUE]
               sent == (dispatches \ {dispatch}) \cup {done}
    <3>1. dispatch \in Dispatch
      BY DEF Inv, TypeOK
    <3>2. done \in Dispatch /\ done.tag = dispatch.tag
      BY <3>1 DEF Dispatch
    <3>3. sent \subseteq Dispatch /\ sent # {}
      BY <3>2 DEF Inv, TypeOK
    <3>4. {d.tag : d \in dispatches} \subseteq {d.tag : d \in sent}
      BY <3>2
    <3>5. /\ ~deleted
          /\ dispatches' = sent
          /\ doc' = SyncWarehouseStatus(doc, sent)
          /\ UNCHANGED deleted
      BY <2>2 DEF Receive
    <3> QED
      BY <3>3, <3>4, <3>5, WarehouseStep
  <2> QED
    BY <1>f, <2>1, <2>2 DEF Warehouse
<1>g. CASE UNCHANGED vars
  BY <1>g DEF vars, Inv, TypeOK, Sound, DispatchedIsKept, ProcurementIsApproved, Earned
<1> QED
  BY <1>a, <1>b, <1>c, <1>d, <1>e, <1>f, <1>g DEF Next

LEMMA InvHolds == Spec => []Inv
<1> QED
  BY InitInv, NextInv, PTL DEF Spec

\* Every stored document, dispatch and flag keeps its type.
THEOREM TypeCorrect == Spec => []TypeOK
<1>1. Inv => TypeOK
  BY DEF Inv
<1> QED
  BY <1>1, InvHolds, PTL

\* The boss's approval always rests on the whole commission
\* (confirmBossDecision, update, resubmit, submitDecision).
THEOREM ApprovalNeedsCommission == Spec => []ApprovedByWholeCommission
<1>1. Inv => ApprovedByWholeCommission
  BY DEF Inv, Sound, Signed, ValidPanel, ApprovedByWholeCommission
<1> QED
  BY <1>1, InvHolds, PTL

\* Purchasing starts with the boss's approval and with nothing else, as long as
\* no dispatch exists.
THEOREM ProcurementNeedsApproval == Spec => []ProcurementIsApproved
<1>1. Inv => ProcurementIsApproved
  BY DEF Inv
<1> QED
  BY <1>1, InvHolds, PTL

\* The decision in force is the last one in the history, by the present boss,
\* who is not a member of the commission, and a filled slot of memberDecisions
\* holds what that person last said.
THEOREM RecordBacks == Spec => []RecordBacksTheRequest
<1>1. Inv => RecordBacksTheRequest
  BY DEF Inv, Sound, Backed, ValidPanel, Recorded, RecordBacksTheRequest
<1> QED
  BY <1>1, InvHolds, PTL

\* syncPurchaseRequestWarehouseStatus never announces a transit or a completion
\* that items and dispatches do not bear out.
THEOREM WarehouseStatusEarned == Spec => []WarehouseStatusIsEarned
<1>1. Inv => WarehouseStatusIsEarned
  BY DEF Inv, Earned, WarehouseStatusIsEarned
<1> QED
  BY <1>1, InvHolds, PTL

\* remove never takes a request that goods were dispatched for.
THEOREM DispatchedNeverDeleted == Spec => []DispatchedIsKept
<1>1. Inv => DispatchedIsKept
  BY DEF Inv
<1> QED
  BY <1>1, InvHolds, PTL

-----------------------------------------------------------------------------
(* What the steps may do to an approval, and that the document implements   *)
(* the sign-off.                                                            *)
(*                                                                          *)
(* Every handler is one of five kinds of step, as far as the approval can   *)
(* tell: it leaves the approval alone, casts a vote, takes the boss's       *)
(* decision, reworks the request, or deletes it.  StepKinds proves this     *)
(* once; the action properties and the refinement follow from the kinds.    *)

\* Settled lines keep their outcome.
LinesKept(r, next) ==
  \A l \in Lines : ~IsPending(r.items[l]) => next.items[l] = r.items[l]

SameRequest(r, next) ==
  /\ next.commissionMembers = r.commissionMembers
  /\ next.boss = r.boss
  /\ next.content = r.content
  /\ LinesKept(r, next)

SameVotes(r, next) ==
  /\ next.decisionSteps = r.decisionSteps
  /\ \A m \in r.commissionMembers : next.memberDecisions[m] = r.memberDecisions[m]

Neutral(r, next) ==
  /\ SameRequest(r, next)
  /\ SameVotes(r, next)
  /\ next.bossDecision = r.bossDecision

Voted(r, next, member, decision) ==
  /\ SameRequest(r, next)
  /\ r.bossDecision = "NONE"
  /\ next.bossDecision = "NONE"
  /\ r.memberDecisions[member] = "NONE"
  /\ next.decisionSteps = [r.decisionSteps EXCEPT ![member] = decision]
  /\ \A m \in r.commissionMembers :
       next.memberDecisions[m] = IF m = member THEN decision ELSE r.memberDecisions[m]

Decided(r, next) ==
  /\ SameRequest(r, next)
  /\ SameVotes(r, next)
  /\ r.bossDecision = "NONE"
  /\ next.bossDecision \in {"APPROVED", "REJECTED"}
  /\ AllMembersAgreed(r)

Reworked(r, next) ==
  /\ next.bossDecision = "NONE"
  /\ next.status \in {"COMMISSION_REVIEW", "BOSS_DECISION_PENDING"}
  /\ PendingLines(next) = Lines
  /\ next.decisionSteps = r.decisionSteps
  /\ \A u \in r.commissionMembers \cap next.commissionMembers :
       r.memberDecisions[u] = "APPROVED" => next.memberDecisions[u] = "APPROVED"

Kinds ==
  \/ Neutral(doc, doc') /\ UNCHANGED deleted
  \/ \E member \in doc.commissionMembers, decision \in {"APPROVED", "PARTIAL", "REJECTED"} :
       Voted(doc, doc', member, decision) /\ UNCHANGED deleted /\ ~deleted
  \/ Decided(doc, doc') /\ UNCHANGED deleted /\ ~deleted
  \/ Reworked(doc, doc') /\ UNCHANGED deleted /\ ~deleted
  \/ Neutral(doc, doc') /\ doc.bossDecision = "NONE" /\ ~deleted /\ deleted'

----------------------------------------------------------------------------
(* The kinds of the handlers, seen from the copy they loaded *)

LEMMA LoadedNeutral ==
  ASSUME NEW stored, Sound(stored)
  PROVE  Neutral(stored, Loaded(stored))
<1>1. stored.commissionMembers \subseteq Users
  BY DEF Sound, Document
<1> QED
  BY <1>1, LoadedFields DEF Neutral, SameRequest, SameVotes, LinesKept

LEMMA StoredNeutral ==
  ASSUME NEW stored, Sound(stored)
  PROVE  Neutral(stored, Stored(stored))
<1>1. Neutral(stored, stored)
  BY DEF Neutral, SameRequest, SameVotes, LinesKept
<1> QED
  BY <1>1, LoadedNeutral DEF Stored

\* A handler's kind does not depend on whether it is seen from the stored
\* document or from the loaded copy.
LEMMA NeutralThen ==
  ASSUME NEW stored, NEW r, Neutral(stored, r), NEW next
  PROVE  /\ Neutral(r, next) => Neutral(stored, next)
         /\ Decided(r, next) => Decided(stored, next)
         /\ Reworked(r, next) => Reworked(stored, next)
         /\ \A member \in r.commissionMembers : \A decision :
              Voted(r, next, member, decision) => Voted(stored, next, member, decision)
<1>1. Neutral(r, next) => Neutral(stored, next)
  BY DEF Neutral, SameRequest, SameVotes, LinesKept
<1>2. Decided(r, next) => Decided(stored, next)
  BY DEF Neutral, Decided, SameRequest, SameVotes, LinesKept, AllMembersAgreed
<1>3. Reworked(r, next) => Reworked(stored, next)
  BY DEF Neutral, Reworked, SameRequest, SameVotes
<1>4. ASSUME NEW member \in r.commissionMembers, NEW decision,
             Voted(r, next, member, decision)
      PROVE  Voted(stored, next, member, decision)
  BY <1>4 DEF Neutral, Voted, SameRequest, SameVotes, LinesKept
<1> QED
  BY <1>1, <1>2, <1>3, <1>4

LEMMA SubmitDecisionKind ==
  ASSUME NEW r, Sound(r), NEW member \in Users,
         NEW decision \in {"APPROVED", "PARTIAL", "REJECTED"},
         CanSubmitDecision(r, member)
  PROVE  Voted(r, SubmitDecision(r, member, decision), member, decision)
<1> DEFINE voted == [r EXCEPT !.memberDecisions[member] = decision,
                              !.decisionSteps[member] = decision]
           next == SubmitDecision(r, member, decision)
<1>1. /\ voted \in Document
      /\ SameRequest(r, voted)
      /\ voted.bossDecision = r.bossDecision
      /\ voted.decisionSteps = [r.decisionSteps EXCEPT ![member] = decision]
      /\ \A m \in r.commissionMembers : voted.memberDecisions[m] =
           IF m = member THEN decision ELSE r.memberDecisions[m]
  BY DEF Sound, Document, Decision, SameRequest, LinesKept
<1>2. next = [voted EXCEPT !.status = RecomputeStatus(voted)]
  BY DEF SubmitDecision
<1>3. r.bossDecision = "NONE" /\ r.memberDecisions[member] = "NONE"
  BY DEF Sound, StatusFollowsDecision, CanSubmitDecision, IsApprovalWorkflowClosed
<1> HIDE DEF voted, next
<1>4. RecomputeStatus(voted) \in Status
  BY <1>1, RecomputeType
<1>5. /\ next.commissionMembers = voted.commissionMembers
      /\ next.boss = voted.boss
      /\ next.content = voted.content
      /\ next.items = voted.items
      /\ next.bossDecision = voted.bossDecision
      /\ next.decisionSteps = voted.decisionSteps
      /\ next.memberDecisions = voted.memberDecisions
  BY <1>1, <1>2, <1>4, WithStatus
<1>6. Voted(r, next, member, decision)
  BY <1>1, <1>3, <1>5 DEF Voted, SameRequest, LinesKept
<1> QED
  BY <1>6 DEF next

LEMMA ConfirmBossDecisionKind ==
  ASSUME NEW r, Sound(r), NEW decision \in {"APPROVED", "REJECTED"},
         CanConfirmBossDecision(r)
  PROVE  Decided(r, ConfirmBossDecision(r, decision))
BY DEF CanConfirmBossDecision, IsBossDecisionPhase, AreAllCommissionMembersAgreed,
       ConfirmBossDecision, Sound, Document, Decided, SameRequest, SameVotes, LinesKept

LEMMA RewrittenFields ==
  ASSUME NEW r, Sound(r), NEW members, NEW boss, NEW content
  PROVE  LET w == Rewritten(r, members, boss, content)
         IN  /\ w.commissionMembers = members
             /\ w.bossDecision = "NONE"
             /\ w.memberDecisions = r.memberDecisions
             /\ w.decisionSteps = r.decisionSteps
             /\ w.status = r.status
             /\ PendingLines(w) = Lines
BY DEF Rewritten, Sound, Document, PendingLines, IsPending

LEMMA UpdateKind ==
  ASSUME NEW r, Sound(r), NEW prior,
         \A u \in r.commissionMembers : prior[u] = r.memberDecisions[u],
         NEW members \in SUBSET Users, NEW boss \in Users, NEW content \in Contents
  PROVE  Reworked(r, Update(r, prior, members, boss, content))
<1> DEFINE w == Rewritten(r, members, boss, content)
           kept == [u \in Users |->
                      IF u \in members /\ prior[u] = "APPROVED" THEN "APPROVED"
                      ELSE "NONE"]
           next == Update(r, prior, members, boss, content)
<1>1. w \in Document
  BY RewrittenDocument
<1>2. /\ w.commissionMembers = members
      /\ w.bossDecision = "NONE"
      /\ w.decisionSteps = r.decisionSteps
      /\ PendingLines(w) = Lines
  BY RewrittenFields
<1>3. \E status \in {"COMMISSION_REVIEW", "BOSS_DECISION_PENDING"} :
        next = [w EXCEPT !.memberDecisions = kept, !.status = status]
  BY DEF Update
<1> HIDE DEF w, next
<1>4. /\ next.commissionMembers = members
      /\ next.bossDecision = "NONE"
      /\ next.decisionSteps = r.decisionSteps
      /\ next.items = w.items
      /\ next.memberDecisions = kept
      /\ next.status \in {"COMMISSION_REVIEW", "BOSS_DECISION_PENDING"}
  BY <1>1, <1>2, <1>3 DEF Document
<1>5. PendingLines(next) = Lines
  BY <1>2, <1>4 DEF PendingLines
<1>6. Reworked(r, next)
  BY <1>4, <1>5 DEF Reworked
<1> QED
  BY <1>6 DEF next

LEMMA ResubmitToBossKind ==
  ASSUME NEW r, Sound(r),
         NEW members \in SUBSET Users, NEW boss \in Users, NEW content \in Contents
  PROVE  Reworked(r, ResubmitToBoss(r, members, boss, content))
<1> DEFINE w == Rewritten(r, members, boss, content)
           next == ResubmitToBoss(r, members, boss, content)
<1>1. /\ w \in Document
      /\ w.bossDecision = "NONE"
      /\ w.decisionSteps = r.decisionSteps
      /\ w.memberDecisions = r.memberDecisions
      /\ PendingLines(w) = Lines
  BY RewrittenDocument, RewrittenFields
<1>2. next = [w EXCEPT !.status = "BOSS_DECISION_PENDING"]
  BY DEF ResubmitToBoss
<1>3. "BOSS_DECISION_PENDING" \in Status
  BY DEF Status
<1> HIDE DEF w, next
<1>4. /\ next.status = "BOSS_DECISION_PENDING"
      /\ next.bossDecision = w.bossDecision
      /\ next.decisionSteps = w.decisionSteps
      /\ next.memberDecisions = w.memberDecisions
      /\ next.items = w.items
  BY <1>1, <1>2, <1>3, WithStatus
<1>5. PendingLines(next) = Lines
  BY <1>1, <1>4 DEF PendingLines
<1>6. Reworked(r, next)
  BY <1>1, <1>4, <1>5 DEF Reworked
<1> QED
  BY <1>6 DEF next

LEMMA ResubmitToCommissionKind ==
  ASSUME NEW r, Sound(r), NEW selected \in SUBSET Users,
         NEW members \in SUBSET Users, NEW boss \in Users, NEW content \in Contents,
         IsCommissionResubmitPhase(r)
  PROVE  Reworked(r, ResubmitToCommission(r, selected, members, boss, content))
<1> DEFINE w == Rewritten(r, members, boss, content)
           again(u) == \/ u \notin members
                       \/ r.memberDecisions[u] = "PARTIAL"
                       \/ r.memberDecisions[u] = "REJECTED" /\ u \in selected
           votes == [u \in Users |-> IF again(u) THEN "NONE" ELSE r.memberDecisions[u]]
           asked == [w EXCEPT !.memberDecisions = votes]
           next == ResubmitToCommission(r, selected, members, boss, content)
<1>1. /\ w \in Document
      /\ w.commissionMembers = members
      /\ w.bossDecision = "NONE"
      /\ w.decisionSteps = r.decisionSteps
      /\ w.memberDecisions = r.memberDecisions
      /\ w.status = r.status
      /\ PendingLines(w) = Lines
  BY RewrittenDocument, RewrittenFields
<1>2. votes \in [Users -> Decision]
  BY DEF Sound, Document, Decision
<1>3. next = [asked EXCEPT !.status = RecomputeStatus(asked)]
  BY <1>1 DEF ResubmitToCommission, Document
<1>4. r.commissionMembers \subseteq Users
  BY DEF Sound, Document
<1> HIDE DEF w
<1>5. /\ asked \in Document
      /\ asked.commissionMembers = members
      /\ asked.bossDecision = "NONE"
      /\ asked.decisionSteps = r.decisionSteps
      /\ asked.memberDecisions = votes
      /\ asked.status = r.status
      /\ asked.items = w.items
  BY <1>1, <1>2 DEF Document
<1> HIDE DEF asked, next
<1>6. RecomputeStatus(asked) \in {"COMMISSION_REVIEW", "BOSS_DECISION_PENDING"}
  BY <1>5 DEF IsCommissionResubmitPhase, RecomputeStatus, PostBossApproval
<1>7. RecomputeStatus(asked) \in Status
  BY <1>6 DEF Status
<1>8. /\ next.status = RecomputeStatus(asked)
      /\ next.commissionMembers = members
      /\ next.bossDecision = "NONE"
      /\ next.decisionSteps = r.decisionSteps
      /\ next.memberDecisions = votes
      /\ next.items = w.items
  BY <1>3, <1>5, <1>7, WithStatus
<1>9. PendingLines(next) = Lines
  BY <1>1, <1>8 DEF PendingLines
<1>10. \A u \in r.commissionMembers \cap members :
         r.memberDecisions[u] = "APPROVED" => next.memberDecisions[u] = "APPROVED"
  BY <1>4, <1>8
<1>11. Reworked(r, next)
  BY <1>6, <1>8, <1>9, <1>10 DEF Reworked
<1> QED
  BY <1>11 DEF next

\* completePurchase, markItemsUnavailable and rejectPurchase
LEMMA PurchasingNeutral ==
  ASSUME NEW r, Sound(r), NEW next, SameRequest(r, next),
         next.memberDecisions = r.memberDecisions,
         next.decisionSteps = r.decisionSteps,
         next.bossDecision = r.bossDecision
  PROVE  Neutral(r, next)
BY DEF Neutral, SameVotes

LEMMA ResolvedKind ==
  ASSUME NEW r, Sound(r), NEW lines \in SUBSET Lines, NEW state \in ItemState,
         CanResolveItems(r, lines),
         NEW next, next = Resolved(r, lines, state)
  PROVE  Neutral(r, next)
<1>1. /\ next.commissionMembers = r.commissionMembers
      /\ next.boss = r.boss
      /\ next.memberDecisions = r.memberDecisions
      /\ next.bossDecision = r.bossDecision
      /\ next.content = r.content
      /\ next.decisionSteps = r.decisionSteps
      /\ \A l \in Lines : next.items[l] = IF l \in lines THEN state ELSE r.items[l]
  BY ResolvedFields
<1>2. \A l \in lines : IsPending(r.items[l])
  BY DEF CanResolveItems, PendingLines
<1> QED
  BY <1>1, <1>2, PurchasingNeutral DEF SameRequest, LinesKept

LEMMA SyncKind ==
  ASSUME NEW stored, Sound(stored), NEW sent
  PROVE  Neutral(stored, SyncWarehouseStatus(stored, sent))
BY SyncFields DEF Neutral, SameRequest, SameVotes, LinesKept

----------------------------------------------------------------------------
(* Every step is of one of the kinds *)

LEMMA StepKinds == Inv /\ [Next]_vars => Kinds
<1> SUFFICES ASSUME Inv, [Next]_vars PROVE Kinds
  OBVIOUS
<1> DEFINE r == Loaded(doc)
<1>1. Sound(doc) /\ Sound(r) /\ Neutral(doc, r)
  BY LoadedSound, LoadedNeutral DEF Inv
<1>2. /\ Neutral(r, doc') => Neutral(doc, doc')
      /\ Decided(r, doc') => Decided(doc, doc')
      /\ Reworked(r, doc') => Reworked(doc, doc')
      /\ \A member \in r.commissionMembers : \A decision :
           Voted(r, doc', member, decision) => Voted(doc, doc', member, decision)
  BY <1>1, NeutralThen
<1>3. /\ r.commissionMembers = doc.commissionMembers
      /\ doc.commissionMembers \subseteq Users
      /\ r.bossDecision = doc.bossDecision
      /\ \A u \in Users : r.memberDecisions[u] =
           IF u \in doc.commissionMembers THEN doc.memberDecisions[u] ELSE "NONE"
  BY <1>1, LoadedFields DEF Sound, Document
<1>a. CASE Reconcile
  BY <1>a, <1>1 DEF Reconcile, Kinds
<1>b. CASE Approve
  <2>1. ASSUME NEW member \in Users, NEW decision \in {"APPROVED", "PARTIAL", "REJECTED"},
               Vote(member, decision)
        PROVE  Kinds
    <3>1. CanSubmitDecision(r, member) /\ doc' = SubmitDecision(r, member, decision)
      BY <2>1 DEF Vote
    <3>2. Voted(r, doc', member, decision)
      BY <1>1, <3>1, SubmitDecisionKind
    <3>3. member \in r.commissionMembers
      BY <3>1 DEF CanSubmitDecision
    <3>4. Voted(doc, doc', member, decision) /\ member \in doc.commissionMembers
      BY <1>2, <1>3, <3>2, <3>3
    <3> QED
      BY <2>1, <3>4 DEF Vote, Kinds
  <2>2. ASSUME NEW decision \in {"APPROVED", "REJECTED"}, BossDecides(decision)
        PROVE  Kinds
    <3>1. CanConfirmBossDecision(r) /\ doc' = ConfirmBossDecision(r, decision)
      BY <2>2 DEF BossDecides
    <3>2. Decided(r, doc')
      BY <1>1, <3>1, ConfirmBossDecisionKind
    <3> QED
      BY <1>2, <2>2, <3>2 DEF BossDecides, Kinds
  <2> QED
    BY <1>b, <2>1, <2>2 DEF Approve
<1>c. CASE Apply
  <2> PICK members \in SUBSET Users, boss \in Users, content \in Contents :
        \/ \E isViewerAdmin \in BOOLEAN : Edit(isViewerAdmin, members, boss, content)
        \/ ResubmitBoss(members, boss, content)
        \/ \E selected \in SUBSET Users :
             ResubmitCommission(selected, members, boss, content)
    BY <1>c DEF Apply
  <2>1. ASSUME NEW isViewerAdmin \in BOOLEAN, Edit(isViewerAdmin, members, boss, content)
        PROVE  Kinds
    <3>1. doc' = Update(r, doc.memberDecisions, members, boss, content)
      BY <2>1 DEF Edit
    <3>2. \A u \in r.commissionMembers : doc.memberDecisions[u] = r.memberDecisions[u]
      BY <1>3
    <3>3. Reworked(r, doc')
      <4> HIDE DEF r
      <4> QED
        BY <1>1, <3>1, <3>2, UpdateKind
    <3> QED
      BY <1>2, <2>1, <3>3 DEF Edit, Kinds
  <2>2. ASSUME ResubmitBoss(members, boss, content)
        PROVE  Kinds
    <3>1. Reworked(r, doc')
      BY <1>1, <2>2, ResubmitToBossKind DEF ResubmitBoss
    <3> QED
      BY <1>2, <2>2, <3>1 DEF ResubmitBoss, Kinds
  <2>3. ASSUME NEW selected \in SUBSET Users,
               ResubmitCommission(selected, members, boss, content)
        PROVE  Kinds
    <3>1. Reworked(r, doc')
      BY <1>1, <2>3, ResubmitToCommissionKind
         DEF ResubmitCommission, CanResubmitToCommission
    <3> QED
      BY <1>2, <2>3, <3>1 DEF ResubmitCommission, Kinds
  <2> QED
    BY <2>1, <2>2, <2>3
<1>d. CASE Remove
  <2>1. doc' = Stored(doc) /\ r.status = "COMMISSION_REVIEW" /\ ~deleted /\ deleted'
    BY <1>d DEF Remove, CanDeleteRequest
  <2>2. Neutral(doc, doc')
    BY <1>1, <2>1, StoredNeutral
  <2>3. doc.bossDecision = "NONE"
    BY <1>1, <1>3, <2>1 DEF Sound, StatusFollowsDecision, PostBossApproval
  <2> QED
    BY <2>1, <2>2, <2>3 DEF Kinds
<1>e. CASE Purchase
  <2>1. ASSUME NEW lines \in SUBSET Lines, NEW batch \in Batches, Buy(lines, batch)
        PROVE  Kinds
    <3> DEFINE resolved == Resolved(r, lines, batch)
    <3>1. /\ doc' = [resolved EXCEPT !.purchaseBatches = @ \cup {batch}]
          /\ CanResolveItems(r, lines)
          /\ UNCHANGED deleted
      BY <2>1 DEF Buy, CompletePurchase
    <3>2. batch \in ItemState
      BY DEF ItemState
    <3>3. Neutral(r, resolved) /\ resolved \in Document
      <4> HIDE DEF r
      <4>1. Neutral(r, resolved)
        BY <1>1, <3>1, <3>2, ResolvedKind
      <4>2. resolved \in Document
        BY <1>1, <3>2, ResolvedFields
      <4> QED
        BY <4>1, <4>2
    <3> HIDE DEF resolved
    <3>4. Neutral(r, doc')
      BY <3>1, <3>3 DEF Document, Neutral, SameRequest, SameVotes, LinesKept
    <3> QED
      BY <1>2, <3>1, <3>4 DEF Kinds
  <2>2. ASSUME NEW lines \in SUBSET Lines, GiveUp(lines)
        PROVE  Kinds
    <3>1. /\ doc' = Resolved(r, lines, "UNAVAILABLE")
          /\ CanResolveItems(r, lines)
          /\ UNCHANGED deleted
      BY <2>2 DEF GiveUp, MarkItemsUnavailable
    <3>2. "UNAVAILABLE" \in ItemState
      BY DEF ItemState
    <3>3. Neutral(r, doc')
      BY <1>1, <3>1, <3>2, ResolvedKind
    <3> QED
      BY <1>2, <3>1, <3>3 DEF Kinds
  <2>3. ASSUME PurchaseRejected
        PROVE  Kinds
    <3>1. doc' = [r EXCEPT !.status = "REJECTED"] /\ UNCHANGED deleted
      BY <2>3 DEF PurchaseRejected, RejectPurchase
    <3>2. Neutral(r, doc')
      <4> HIDE DEF r
      <4> QED
        BY <1>1, <3>1 DEF Sound, Document, Neutral, SameRequest, SameVotes, LinesKept
    <3> QED
      BY <1>2, <3>1, <3>2 DEF Kinds
  <2> QED
    BY <1>e, <2>1, <2>2, <2>3 DEF Purchase
<1>f. CASE Warehouse
  <2>1. UNCHANGED deleted /\ \E sent : doc' = SyncWarehouseStatus(doc, sent)
    BY <1>f DEF Warehouse, Send, Receive
  <2>2. Neutral(doc, doc')
    BY <1>1, <2>1, SyncKind
  <2> QED
    BY <2>1, <2>2 DEF Kinds
<1>g. CASE UNCHANGED vars
  BY <1>g DEF vars, Kinds, Neutral, SameRequest, SameVotes, LinesKept
<1> QED
  BY <1>a, <1>b, <1>c, <1>d, <1>e, <1>f, <1>g DEF Next

----------------------------------------------------------------------------
(* The action properties *)

\* Nobody changes what the boss approved while the approval stands, and an
\* approval that goes puts every line and the status back (update, resubmit).
THEOREM ApprovalPinned == Spec => ApprovalPinsTheRequest
<1> DEFINE Step == doc.bossDecision = "APPROVED" =>
       IF doc'.bossDecision = "APPROVED"
       THEN /\ doc'.content = doc.content
            /\ doc'.commissionMembers = doc.commissionMembers
            /\ doc'.boss = doc.boss
            /\ \A m \in doc.commissionMembers :
                 doc'.memberDecisions[m] = doc.memberDecisions[m]
       ELSE /\ doc'.status \in {"COMMISSION_REVIEW", "BOSS_DECISION_PENDING"}
            /\ PendingLines(doc') = Lines
<1>1. Inv /\ [Next]_vars => [Step]_vars
  BY StepKinds DEF Kinds, Neutral, Voted, Decided, Reworked, SameRequest, SameVotes
<1> QED
  BY <1>1, InvHolds, PTL DEF Spec, ApprovalPinsTheRequest

\* A member who fully approved and stays on the commission stays approved
\* (preserveMemberDecisionsAfterEdit, preserveMemberDecisionsAfterResubmit).
THEOREM AgreementSurvives == Spec => FullAgreementSurvives
<1> DEFINE Step ==
       \A u \in doc.commissionMembers \cap doc'.commissionMembers :
         doc.memberDecisions[u] = "APPROVED" => doc'.memberDecisions[u] = "APPROVED"
<1>1. Inv /\ [Next]_vars => [Step]_vars
  BY StepKinds DEF Kinds, Neutral, Voted, Decided, Reworked, SameRequest, SameVotes
<1> QED
  BY <1>1, InvHolds, PTL DEF Spec, FullAgreementSurvives

\* A settled line changes only when the whole request starts over
\* (completePurchase, markItemsUnavailable, update, resubmit).
THEOREM OutcomeFinal == Spec => LineOutcomeIsFinal
<1> DEFINE Step ==
       (\E l \in Lines : ~IsPending(doc.items[l]) /\ doc'.items[l] # doc.items[l]) =>
         PendingLines(doc') = Lines /\ doc'.bossDecision = "NONE"
<1>1. Inv /\ [Next]_vars => [Step]_vars
  BY StepKinds
     DEF Kinds, Neutral, Voted, Decided, Reworked, SameRequest, LinesKept
<1> QED
  BY <1>1, InvHolds, PTL DEF Spec, LineOutcomeIsFinal

----------------------------------------------------------------------------
(* The refinement *)

LEMMA AbstractInit == Init => Abstract!Init
<1> SUFFICES ASSUME Init PROVE Abstract!Init
  OBVIOUS
<1>1. PICK members \in SUBSET Users, boss \in Users, content \in Contents :
        ValidPanel(members, boss) /\ doc = Submitted(members, boss, content)
  BY DEF Init
<1>2. /\ doc.bossDecision = "NONE"
      /\ doc.commissionMembers = members
      /\ \A u \in Users : doc.memberDecisions[u] = "NONE" /\ doc.decisionSteps[u] = "NONE"
  BY <1>1 DEF Submitted
<1>3. panel \in (SUBSET Users) \ {{}} /\ signed = {} /\ full = {} /\ onRecord = {}
  BY <1>1, <1>2 DEF ValidPanel, panel, signed, full, onRecord, IsMemberAgreed
<1>4. phase = "review"
  BY <1>2 DEF Init, phase
<1> QED
  BY <1>3, <1>4 DEF Abstract!Init

LEMMA AbstractStep == Inv /\ Inv' /\ Kinds => [Abstract!Next]_Abstract!vars
<1> SUFFICES ASSUME Inv, Inv', Kinds PROVE [Abstract!Next]_Abstract!vars
  OBVIOUS
<1>1. /\ doc \in Document /\ doc' \in Document
      /\ doc.commissionMembers # {} /\ doc'.commissionMembers # {}
      /\ doc.commissionMembers \subseteq Users /\ doc'.commissionMembers \subseteq Users
      /\ doc.bossDecision \in {"NONE", "APPROVED", "REJECTED"}
  BY DEF Inv, Sound, ValidPanel, StatusFollowsDecision, Document
<1>a. ASSUME Neutral(doc, doc'), UNCHANGED deleted
      PROVE  UNCHANGED Abstract!vars
  <2>1. panel' = panel /\ signed' = signed /\ full' = full /\ onRecord' = onRecord
    BY <1>a DEF Neutral, SameRequest, SameVotes, panel, signed, full, onRecord
  <2>2. phase' = phase
    BY <1>a DEF Neutral, phase
  <2> QED
    BY <2>1, <2>2 DEF Abstract!vars
<1>b. ASSUME NEW member \in doc.commissionMembers,
             NEW decision \in {"APPROVED", "PARTIAL", "REJECTED"},
             Voted(doc, doc', member, decision), UNCHANGED deleted, ~deleted
      PROVE  Abstract!Agree(member) \/ Abstract!Refuse(member)
  <2>1. phase = "review" /\ phase' = "review" /\ panel' = panel
    BY <1>b DEF Voted, SameRequest, phase, panel
  <2>2. member \in panel \ signed
    BY <1>b DEF Voted, panel, signed, IsMemberAgreed
  <2>3. doc'.decisionSteps = [doc.decisionSteps EXCEPT ![member] = decision]
        /\ doc.decisionSteps \in [Users -> Decision] /\ member \in Users
    BY <1>1, <1>b DEF Voted, Document
  <2>4. CASE decision = "REJECTED"
    <3>1. signed' = signed /\ full' = full
      BY <1>b, <2>4 DEF Voted, SameRequest, panel, signed, full, IsMemberAgreed
    <3>2. onRecord' = onRecord \ {member}
      BY <2>3, <2>4 DEF onRecord, IsMemberAgreed
    <3> QED
      BY <2>1, <2>2, <3>1, <3>2 DEF Abstract!Refuse
  <2>5. CASE decision \in {"APPROVED", "PARTIAL"}
    <3>1. signed' = signed \cup {member}
      BY <1>b, <2>5 DEF Voted, SameRequest, panel, signed, IsMemberAgreed
    <3>2. full' \in {full, full \cup {member}}
      BY <1>b, <2>5 DEF Voted, SameRequest, panel, full
    <3>3. onRecord' = onRecord \cup {member}
      BY <2>3, <2>5 DEF onRecord, IsMemberAgreed
    <3> QED
      BY <2>1, <2>2, <3>1, <3>2, <3>3 DEF Abstract!Agree
  <2> QED
    BY <2>4, <2>5
<1>c. ASSUME Decided(doc, doc'), UNCHANGED deleted, ~deleted
      PROVE  \E outcome \in {"approved", "refused"} : Abstract!Decide(outcome)
  <2>1. panel' = panel /\ signed' = signed /\ full' = full /\ onRecord' = onRecord
    BY <1>c DEF Decided, SameRequest, SameVotes, panel, signed, full, onRecord
  <2>2. panel # {} /\ panel \subseteq signed
    BY <1>1, <1>c DEF Decided, AllMembersAgreed, panel, signed
  <2>3. phase = "review" /\ phase' \in {"approved", "refused"}
    BY <1>c DEF Decided, phase
  <2> QED
    BY <2>1, <2>2, <2>3 DEF Abstract!Decide
<1>d. ASSUME Reworked(doc, doc'), UNCHANGED deleted, ~deleted
      PROVE  Abstract!Rework(panel', signed', full')
  <2>1. phase # "gone" /\ phase' = "review"
    BY <1>d DEF Reworked, phase
  <2>2. onRecord' = onRecord
    BY <1>d DEF Reworked, onRecord
  <2>3. full \cap panel' \subseteq full'
    BY <1>d DEF Reworked, full, panel
  <2>4. panel' # {} /\ full' \subseteq signed' /\ signed' \subseteq panel'
    BY <1>1 DEF panel, signed, full, IsMemberAgreed
  <2>5. signed' \subseteq onRecord'
    BY <1>1 DEF Inv, Sound, Recorded, signed, panel, onRecord, IsMemberAgreed
  <2> QED
    BY <2>1, <2>2, <2>3, <2>4, <2>5 DEF Abstract!Rework
<1>e. ASSUME Neutral(doc, doc'), doc.bossDecision = "NONE", ~deleted, deleted'
      PROVE  Abstract!Withdraw
  <2>1. panel' = panel /\ signed' = signed /\ full' = full /\ onRecord' = onRecord
    BY <1>e DEF Neutral, SameRequest, SameVotes, panel, signed, full, onRecord
  <2>2. phase = "review" /\ phase' = "gone"
    BY <1>e DEF phase
  <2> QED
    BY <2>1, <2>2 DEF Abstract!Withdraw
<1>2. panel' \in SUBSET Users /\ signed' \in SUBSET Users /\ full' \in SUBSET Users
  BY <1>1 DEF panel, signed, full
<1> QED
  BY <1>1, <1>2, <1>a, <1>b, <1>c, <1>d, <1>e DEF Kinds, Abstract!Next

\* The service implements the sign-off: every handler, whatever it touches
\* besides, is one step of it or none.
THEOREM Implementation == Spec => ImplementsSignOff
<1>1. Inv /\ Inv' /\ [Next]_vars => [Abstract!Next]_Abstract!vars
  BY StepKinds, AbstractStep
<1> QED
  BY <1>1, AbstractInit, InvHolds, PTL DEF Spec, ImplementsSignOff, Abstract!Spec

-----------------------------------------------------------------------------
(* What people see of the request                                           *)
(*                                                                          *)
(* Pages and lists are read off the stored document, handlers work on the   *)
(* loaded copy.  They agree because of Sound and of three facts about what  *)
(* is stored: the statuses after purchasing are those of a request without  *)
(* an open line, every batch that was bought is listed, and whoever decided *)
(* is a participant.                                                        *)

Settled == {"PURCHASED", "WAREHOUSE_IN_TRANSIT", "WAREHOUSE_COMPLETED"}

Fits(r) ==
  /\ r.status \in Settled <=> AllItemsResolved(r)
  /\ PurchasedBatchIds(r) \subseteq r.purchaseBatches

DecidersListed ==
  \A u \in Users : HasApprovalHistoryParticipation(doc, u) => u \in participants

ViewInv == Inv /\ Fits(doc) /\ DecidersListed

\* A step that leaves the lines alone and the statuses on their side.
LEMMA FitsStep ==
  ASSUME NEW r, NEW next, Fits(r),
         next.items = r.items, next.purchaseBatches = r.purchaseBatches,
         next.status \in Settled <=> r.status \in Settled
  PROVE  Fits(next)
BY DEF Fits, AllItemsResolved, PendingLines, PurchasedBatchIds

\* A rework starts with every line pending.
LEMMA FitsAfresh ==
  ASSUME NEW next, next.status \notin Settled, \A l \in Lines : next.items[l] = "PENDING"
  PROVE  Fits(next)
<1>1. PurchasedBatchIds(next) = {}
  BY BatchAssumption DEF PurchasedBatchIds
<1>2. ~AllItemsResolved(next)
  BY NonemptyAssumption DEF AllItemsResolved, PendingLines, IsPending
<1> QED
  BY <1>1, <1>2 DEF Fits

LEMMA FitsLoaded ==
  ASSUME NEW stored, Sound(stored), Fits(stored)
  PROVE  Fits(Loaded(stored)) /\ Fits(Stored(stored))
<1>1. Loaded(stored).status \in Settled <=> stored.status \in Settled
  <2>1. stored.status \in Settled => Loaded(stored).status = stored.status
    BY LoadedStatus DEF Settled, PostBossApproval
  <2>2. Loaded(stored).status \in Settled => Loaded(stored).status = stored.status
    <3> DEFINE r == SyncMemberDecisions(stored)
    <3>1. r \in Document /\ r.status = stored.status
      BY DEF SyncMemberDecisions, Sound, Document, Decision
    <3>2. Loaded(stored).status = ReconciledStatus(r)
      BY <3>1 DEF Loaded, Document
    <3> QED
      BY <3>1, <3>2 DEF ReconciledStatus, RecomputeStatus, PostBossApproval, Settled
  <2> QED
    BY <2>1, <2>2
<1>2. Fits(Loaded(stored))
  BY <1>1, LoadedFields, FitsStep
<1> QED
  BY <1>2 DEF Stored

LEMMA FitsResolved ==
  ASSUME NEW r, Sound(r), Fits(r), NEW lines \in SUBSET Lines, NEW state \in ItemState,
         NEW next, next.items = Resolved(r, lines, state).items,
         next.status = Resolved(r, lines, state).status,
         next.purchaseBatches = r.purchaseBatches \cup ({state} \cap Batches)
  PROVE  Fits(next)
<1> DEFINE done == [r EXCEPT !.items =
                      [l \in Lines |-> IF l \in lines THEN state ELSE @[l]]]
<1>1. /\ next.items = done.items
      /\ next.status = IF AllItemsResolved(done) THEN "PURCHASED" ELSE "PURCHASING"
      /\ done.items = [l \in Lines |-> IF l \in lines THEN state ELSE r.items[l]]
  BY DEF Resolved, Sound, Document
<1> HIDE DEF done
<1>2. next.status \in Settled <=> AllItemsResolved(next)
  BY <1>1 DEF Settled, AllItemsResolved, PendingLines
<1>3. PurchasedBatchIds(next) \subseteq PurchasedBatchIds(r) \cup ({state} \cap Batches)
  BY <1>1 DEF PurchasedBatchIds
<1> QED
  BY <1>2, <1>3 DEF Fits

LEMMA FitsSync ==
  ASSUME NEW stored, Sound(stored), Fits(stored), NEW sent
  PROVE  Fits(SyncWarehouseStatus(stored, sent))
<1> DEFINE r == Loaded(stored)
           next == SyncWarehouseStatus(stored, sent)
<1>1. /\ next.status = WarehouseStatus(r, sent)
      /\ next.items = r.items /\ next.purchaseBatches = r.purchaseBatches
  BY SyncFields, LoadedFields
<1>2. Fits(r)
  BY FitsLoaded
<1> HIDE DEF r, next
<1>3. next.status \in Settled <=> AllItemsResolved(r)
  BY <1>1, <1>2 DEF WarehouseStatus, Fits, Settled
<1>4. Fits(next)
  BY <1>1, <1>2, <1>3, FitsStep DEF Fits
<1> QED
  BY <1>4 DEF next

LEMMA ViewInitInv == ViewInit => ViewInv
<1> SUFFICES ASSUME ViewInit  PROVE ViewInv
  OBVIOUS
<1>1. Inv
  BY InitInv DEF ViewInit
<1>2. PICK members \in SUBSET Users, boss \in Users, content \in Contents :
        doc = Submitted(members, boss, content)
  BY DEF ViewInit, Init
<1>3. Fits(doc)
  BY <1>2, FitsAfresh DEF Submitted, Settled
<1>4. \A u \in Users : ~HasApprovalHistoryParticipation(doc, u)
  BY <1>2, UserAssumption DEF Submitted, HasApprovalHistoryParticipation
<1> QED
  BY <1>1, <1>3, <1>4 DEF ViewInv, DecidersListed

LEMMA ViewIsNext == ViewNext => Next
BY DEF ViewNext, EditAny, ResubmitAny, Next, Apply

\* What a handler saves fits as what it loaded did.
LEMMA FitsNext == Inv /\ Fits(doc) /\ [Next]_vars => Fits(doc')
<1> SUFFICES ASSUME Inv, Fits(doc), [Next]_vars  PROVE Fits(doc')
  OBVIOUS
<1> DEFINE r == Loaded(doc)
<1>1. Sound(doc) /\ Sound(r) /\ r \in Document
  BY LoadedSound DEF Inv, Sound
<1>2. Fits(r) /\ Fits(Stored(doc))
  BY <1>1, FitsLoaded
<1> HIDE DEF r
<1>a. CASE Reconcile
  BY <1>a, <1>2 DEF Reconcile, r
<1>b. CASE Approve
  <2>1. ASSUME NEW member \in Users, NEW decision \in {"APPROVED", "PARTIAL", "REJECTED"},
               Vote(member, decision)
        PROVE  Fits(doc')
    <3>1. CanSubmitDecision(r, member) /\ doc' = SubmitDecision(r, member, decision)
      BY <2>1 DEF Vote, r
    <3>2. /\ doc'.items = r.items
          /\ doc'.purchaseBatches = r.purchaseBatches
          /\ doc'.status \notin Settled /\ r.status \notin Settled
      BY <1>1, <3>1
         DEF CanSubmitDecision, IsApprovalWorkflowClosed, IsCommissionReviewOpen,
             IsCommissionResubmitPhase, SubmitDecision, RecomputeStatus, PostBossApproval,
             Document, Settled
    <3> QED
      BY <1>2, <3>2, FitsStep
  <2>2. ASSUME NEW decision \in {"APPROVED", "REJECTED"}, BossDecides(decision)
        PROVE  Fits(doc')
    <3>1. CanConfirmBossDecision(r) /\ doc' = ConfirmBossDecision(r, decision)
      BY <2>2 DEF BossDecides, r
    <3>2. /\ doc'.items = r.items
          /\ doc'.purchaseBatches = r.purchaseBatches
          /\ doc'.status \notin Settled /\ r.status \notin Settled
      BY <1>1, <3>1
         DEF CanConfirmBossDecision, IsApprovalWorkflowClosed, ConfirmBossDecision,
             PostBossApproval, Document, Settled
    <3> QED
      BY <1>2, <3>2, FitsStep
  <2> QED
    BY <1>b, <2>1, <2>2 DEF Approve
<1>c. CASE Apply
  <2> PICK members \in SUBSET Users, boss \in Users, content \in Contents :
        \/ \E isViewerAdmin \in BOOLEAN : Edit(isViewerAdmin, members, boss, content)
        \/ ResubmitBoss(members, boss, content)
        \/ \E selected \in SUBSET Users :
             ResubmitCommission(selected, members, boss, content)
    BY <1>c DEF Apply
  <2> DEFINE rewritten == Rewritten(r, members, boss, content)
  <2>1. rewritten \in Document /\ \A l \in Lines : rewritten.items[l] = "PENDING"
    BY <1>1 DEF Rewritten, Document, ItemState, Decision
  <2> HIDE DEF rewritten
  <2>2. ASSUME NEW isViewerAdmin \in BOOLEAN, Edit(isViewerAdmin, members, boss, content)
        PROVE  Fits(doc')
    <3>1. /\ doc'.items = rewritten.items
          /\ doc'.status \in {"COMMISSION_REVIEW", "BOSS_DECISION_PENDING"}
      BY <2>1, <2>2 DEF Edit, Update, Document, rewritten, r
    <3> QED
      BY <2>1, <3>1, FitsAfresh DEF Settled
  <2>3. ASSUME ResubmitBoss(members, boss, content)
        PROVE  Fits(doc')
    <3>1. doc'.items = rewritten.items /\ doc'.status = "BOSS_DECISION_PENDING"
      BY <2>1, <2>3 DEF ResubmitBoss, ResubmitToBoss, Document, rewritten, r
    <3> QED
      BY <2>1, <3>1, FitsAfresh DEF Settled
  <2>4. ASSUME NEW selected \in SUBSET Users,
               ResubmitCommission(selected, members, boss, content)
        PROVE  Fits(doc')
    <3>1. /\ CanResubmitToCommission(r, selected, members, boss)
          /\ doc' = ResubmitToCommission(r, selected, members, boss, content)
      BY <2>4 DEF ResubmitCommission, r
    <3>2. doc'.items = rewritten.items
      BY <2>1, <3>1 DEF ResubmitToCommission, Document, rewritten
    <3>3. doc'.status \notin Settled
      BY <1>1, <3>1
         DEF CanResubmitToCommission, IsCommissionResubmitPhase, ResubmitToCommission,
             Rewritten, RecomputeStatus, PostBossApproval, Document, Settled
    <3> QED
      BY <2>1, <3>2, <3>3, FitsAfresh
  <2> QED
    BY <2>2, <2>3, <2>4
<1>d. CASE Remove
  BY <1>d, <1>2 DEF Remove
<1>e. CASE Purchase
  <2>1. ASSUME NEW lines \in SUBSET Lines, NEW batch \in Batches, Buy(lines, batch)
        PROVE  Fits(doc')
    <3> DEFINE resolved == Resolved(r, lines, batch)
    <3>1. doc' = [resolved EXCEPT !.purchaseBatches = @ \cup {batch}]
      BY <2>1 DEF Buy, CompletePurchase, r
    <3>2. batch \in ItemState
      BY DEF ItemState
    <3>3. resolved \in Document /\ resolved.purchaseBatches = r.purchaseBatches
      BY <1>1, <3>2, ResolvedFields
    <3> HIDE DEF resolved
    <3>4. /\ doc'.items = resolved.items /\ doc'.status = resolved.status
          /\ doc'.purchaseBatches = r.purchaseBatches \cup ({batch} \cap Batches)
      BY <3>1, <3>3 DEF Document
    <3> QED
      BY <1>1, <1>2, <3>2, <3>4, FitsResolved DEF resolved
  <2>2. ASSUME NEW lines \in SUBSET Lines, GiveUp(lines)
        PROVE  Fits(doc')
    <3>1. doc' = Resolved(r, lines, "UNAVAILABLE")
      BY <2>2 DEF GiveUp, MarkItemsUnavailable, r
    <3>2. "UNAVAILABLE" \in ItemState
      BY DEF ItemState
    <3>3. doc'.purchaseBatches = r.purchaseBatches
      BY <1>1, <3>1, <3>2, ResolvedFields
    <3>4. doc'.purchaseBatches = r.purchaseBatches \cup ({"UNAVAILABLE"} \cap Batches)
      BY <3>3, BatchAssumption
    <3> QED
      BY <1>1, <1>2, <3>1, <3>2, <3>4, FitsResolved
  <2>3. ASSUME PurchaseRejected
        PROVE  Fits(doc')
    <3>1. doc' = [r EXCEPT !.status = "REJECTED"] /\ r.status = "PURCHASING"
      BY <2>3 DEF PurchaseRejected, RejectPurchase, CanRejectPurchase, r
    <3>2. /\ doc'.items = r.items /\ doc'.purchaseBatches = r.purchaseBatches
          /\ doc'.status = "REJECTED"
      BY <1>1, <3>1 DEF Document
    <3> QED
      BY <1>2, <3>1, <3>2, FitsStep DEF Settled
  <2> QED
    BY <1>e, <2>1, <2>2, <2>3 DEF Purchase
<1>f. CASE Warehouse
  <2>1. \E sent : doc' = SyncWarehouseStatus(doc, sent)
    BY <1>f DEF Warehouse, Send, Receive
  <2> QED
    BY <1>1, <2>1, FitsSync
<1>g. CASE UNCHANGED vars
  BY <1>g DEF vars
<1> QED
  BY <1>a, <1>b, <1>c, <1>d, <1>e, <1>f, <1>g DEF Next

\* Only a vote, a decision of the boss and an edit write who decided.
LEMMA DecidersKept ==
  ASSUME Inv, Reconcile \/ ResubmitAny \/ Remove \/ Purchase \/ Warehouse
  PROVE  doc'.decisionSteps = doc.decisionSteps /\ doc'.bossStep = doc.bossStep
<1> DEFINE r == Loaded(doc)
<1>1. Sound(doc) /\ Sound(r) /\ r \in Document
  BY LoadedSound DEF Inv, Sound
<1>2. r.decisionSteps = doc.decisionSteps /\ r.bossStep = doc.bossStep
  BY <1>1, LoadedFields
<1>a. CASE Reconcile
  BY <1>a, <1>2 DEF Reconcile
<1>b. CASE ResubmitAny
  <2> HIDE DEF r
  <2>1. PICK members \in SUBSET Users, boss \in Users, content \in Contents :
          \/ doc' = ResubmitToBoss(r, members, boss, content)
          \/ \E selected \in SUBSET Users :
               doc' = ResubmitToCommission(r, selected, members, boss, content)
    BY <1>b DEF ResubmitAny, ResubmitBoss, ResubmitCommission, r
  <2>2. doc'.decisionSteps = r.decisionSteps /\ doc'.bossStep = r.bossStep
    BY <1>1, <2>1 DEF ResubmitToBoss, ResubmitToCommission, Rewritten, Document
  <2> QED
    BY <1>2, <2>2
<1>c. CASE Remove
  BY <1>c, <1>2 DEF Remove, Stored
<1>d. CASE Purchase
  <2> HIDE DEF r
  <2>1. \/ \E lines \in SUBSET Lines, batch \in Batches : doc' = CompletePurchase(r, lines, batch)
        \/ \E lines \in SUBSET Lines : doc' = MarkItemsUnavailable(r, lines)
        \/ doc' = RejectPurchase(r)
    BY <1>d DEF Purchase, Buy, GiveUp, PurchaseRejected, r
  <2>2. doc'.decisionSteps = r.decisionSteps /\ doc'.bossStep = r.bossStep
    BY <1>1, <2>1 DEF CompletePurchase, MarkItemsUnavailable, RejectPurchase, Resolved, Document
  <2> QED
    BY <1>2, <2>2
<1>e. CASE Warehouse
  <2>1. \E sent : doc' = SyncWarehouseStatus(doc, sent)
    BY <1>e DEF Warehouse, Send, Receive
  <2> QED
    BY <1>1, <2>1, SyncFields
<1> QED
  BY <1>a, <1>b, <1>c, <1>d, <1>e

LEMMA ViewNextInv == ViewInv /\ [ViewNext]_<<vars, participants>> => ViewInv'
<1> SUFFICES ASSUME ViewInv, [ViewNext]_<<vars, participants>>  PROVE ViewInv'
  OBVIOUS
<1>1. Inv /\ Fits(doc) /\ [Next]_vars
  BY ViewIsNext DEF ViewInv
<1>2. Inv' /\ Fits(doc')
  BY <1>1, NextInv, FitsNext
<1>3. DecidersListed'
  <2>1. CASE participants' = ResolveApprovalParticipants(doc', participants)
    BY <2>1 DEF DecidersListed, ResolveApprovalParticipants
  <2>2. CASE /\ Reconcile \/ ResubmitAny \/ Remove \/ Purchase \/ Warehouse
             /\ UNCHANGED participants
    <3>1. doc'.decisionSteps = doc.decisionSteps /\ doc'.bossStep = doc.bossStep
      BY <1>1, <2>2, DecidersKept
    <3> QED
      BY <2>2, <3>1 DEF ViewInv, DecidersListed, HasApprovalHistoryParticipation
  <2>3. CASE UNCHANGED <<vars, participants>>
    BY <2>3 DEF ViewInv, DecidersListed, vars
  <2> QED
    BY <2>1, <2>2, <2>3 DEF ViewNext
<1> QED
  BY <1>2, <1>3 DEF ViewInv

LEMMA ViewInvHolds == ViewSpec => []ViewInv
<1> QED
  BY ViewInitInv, ViewNextInv, PTL DEF ViewSpec

----------------------------------------------------------------------------
(* Reading the stored document, and the loaded copy *)

\* The slots of those who are no members do not count for the status.
LEMMA WorkflowStatusIs ==
  ASSUME NEW r, r \in Document
  PROVE  WorkflowStatus(r) = RecomputeStatus(r)
<1> DEFINE s == SyncMemberDecisions(r)
<1>1. /\ s.status = r.status /\ s.bossDecision = r.bossDecision
      /\ s.commissionMembers = r.commissionMembers
      /\ \A m \in r.commissionMembers : s.memberDecisions[m] = r.memberDecisions[m]
  BY DEF SyncMemberDecisions, Document
<1> HIDE DEF s
<1>2. AreAllCommissionMembersAgreed(s) <=> AreAllCommissionMembersAgreed(r)
  BY <1>1 DEF AreAllCommissionMembersAgreed, AllMembersAgreed
<1>3. RecomputeStatus(s) = RecomputeStatus(r)
  BY <1>1, <1>2 DEF RecomputeStatus
<1> QED
  BY <1>3 DEF WorkflowStatus, s

LEMMA LoadedStatusIs ==
  ASSUME NEW stored, Sound(stored)
  PROVE  Loaded(stored).status =
           IF stored.bossDecision = "REJECTED" THEN stored.status ELSE RecomputeStatus(stored)
<1> DEFINE s == SyncMemberDecisions(stored)
<1>1. stored \in Document
  BY DEF Sound
<1>2. s \in Document /\ s.status = stored.status /\ s.bossDecision = stored.bossDecision
  BY <1>1 DEF SyncMemberDecisions, Document, Decision
<1>3. Loaded(stored).status = ReconciledStatus(s)
  BY <1>2 DEF Loaded, Document
<1>4. RecomputeStatus(s) = RecomputeStatus(stored)
  BY <1>1, WorkflowStatusIs DEF WorkflowStatus
<1> HIDE DEF s
<1> QED
  BY <1>2, <1>3, <1>4 DEF ReconciledStatus

\* What a load leaves to be in review is in the status its votes call for.
LEMMA LoadedInReview ==
  ASSUME NEW stored, Sound(stored), NEW r, r = Loaded(stored)
  PROVE  /\ Sound(r)
         /\ r.status \in PostBossApproval <=>
              stored.status \in PostBossApproval \/ stored.bossDecision = "APPROVED"
         /\ r.status \notin PostBossApproval \cup {"REJECTED"} =>
              /\ r.bossDecision = "NONE"
              /\ r.status = IF AreAllCommissionMembersAgreed(r) THEN "BOSS_DECISION_PENDING"
                                                                ELSE "COMMISSION_REVIEW"
<1>1. Sound(r) /\ r \in Document /\ stored \in Document
  BY LoadedSound DEF Sound
<1>2. /\ r.bossDecision = stored.bossDecision
      /\ r.commissionMembers = stored.commissionMembers
      /\ \A m \in r.commissionMembers : r.memberDecisions[m] = stored.memberDecisions[m]
  BY LoadedFields, <1>1 DEF Document
<1>3. AreAllCommissionMembersAgreed(r) <=> AreAllCommissionMembersAgreed(stored)
  BY <1>2 DEF AreAllCommissionMembersAgreed, AllMembersAgreed
<1>4. r.status = IF stored.bossDecision = "REJECTED" THEN stored.status
                                                     ELSE RecomputeStatus(stored)
  BY LoadedStatusIs
<1> QED
  BY <1>1, <1>2, <1>3, <1>4
     DEF RecomputeStatus, Sound, StatusFollowsDecision, PostBossApproval

----------------------------------------------------------------------------
(* The theorems *)

LEMMA ViewInvPages == ViewInv => PagesTellTheTruth
<1> SUFFICES ASSUME ViewInv, ~deleted  PROVE PagesTellTheTruth
  BY DEF PagesTellTheTruth
<1> DEFINE r == Loaded(doc)
<1>1. Sound(doc) /\ Fits(doc) /\ Sound(r) /\ doc \in Document /\ r \in Document
  BY LoadedInReview DEF ViewInv, Inv, Sound
<1>2. /\ r.status \in PostBossApproval <=>
           doc.status \in PostBossApproval \/ doc.bossDecision = "APPROVED"
      /\ r.status \notin PostBossApproval \cup {"REJECTED"} =>
           /\ r.bossDecision = "NONE"
           /\ r.status = IF AreAllCommissionMembersAgreed(r) THEN "BOSS_DECISION_PENDING"
                                                             ELSE "COMMISSION_REVIEW"
  BY <1>1, LoadedInReview
<1>3. /\ r.boss = doc.boss /\ r.commissionMembers = doc.commissionMembers
      /\ r.bossDecision = doc.bossDecision /\ r.items = doc.items
  BY <1>1, LoadedFields
<1>4. doc.status \in PostBossApproval => r.status = doc.status
  BY <1>1, LoadedStatus
<1>5. PublicStatus(doc) = r.status
  BY <1>1, WorkflowStatusIs, LoadedStatusIs
     DEF PublicStatus, RecomputeStatus, Sound, StatusFollowsDecision, PostBossApproval, Document,
         Status
<1>6. PurchasingInbox(doc) \/ PurchasedInbox(doc) \/ UnavailableInbox(doc)
        => AssertPurchasingView(doc)
  BY DEF PurchasingInbox, PurchasedInbox, UnavailableInbox, AssertPurchasingView,
         PostBossApproval
<1>7. \A v \in Viewer : OwnList(v) => CanAccessRequest(doc, v)
  BY DEF OwnList, CanAccessRequest
<1>8. OffersPurchase(doc) <=> AcceptsPurchase(doc)
  <2>1. PendingLines(r) = PendingLines(doc) /\ PendingLines(r) \in SUBSET Lines
    BY <1>3 DEF PendingLines
  <2>2. CanPurchasePendingItems(doc) <=> AssertPurchasingView(doc) /\ CanPurchasePendingItems(r)
    BY <1>4, <2>1 DEF CanPurchasePendingItems, AssertPurchasingView, PostBossApproval
  <2>3. (\E lines \in SUBSET Lines : CanResolveItems(r, lines)) <=> CanPurchasePendingItems(r)
    BY <2>1 DEF CanResolveItems, CanPurchasePendingItems
  <2> QED
    BY <2>2, <2>3 DEF OffersPurchase, AcceptsPurchase
<1>9. OffersRejectPurchase(doc) => AssertPurchasingView(doc) /\ CanRejectPurchase(r)
  BY <1>4 DEF OffersRejectPurchase, AssertPurchasingView, CanRejectPurchase, PostBossApproval
<1> HIDE DEF r
<1>10. ASSUME NEW v \in Viewer
       PROVE  /\ OffersVote(r, v) => AcceptsVote(r, v)
              /\ AcceptsVote(r, v) => OffersVote(r, v) \/ v.isApplicant
  <2>1. r.commissionMembers \subseteq Users /\ r.boss \notin r.commissionMembers
    BY <1>1 DEF Sound, Document, ValidPanel
  <2>2. ASSUME OffersVote(r, v)  PROVE AcceptsVote(r, v)
    <3>1. v.user \in r.commissionMembers
      BY <2>1, <2>2 DEF OffersVote, ViewerRole
    <3>2. r.memberDecisions[v.user] = "NONE" /\ r.status # "REJECTED"
      BY <2>1, <2>2, <3>1
         DEF OffersVote, HasMemberDecisionParticipation, IsCommissionReviewOpen,
             IsCommissionResubmitPhase
    <3> QED
      BY <2>1, <2>2, <3>1, <3>2 DEF OffersVote, AcceptsVote, CanSubmitDecision
  <2>3. ASSUME AcceptsVote(r, v), ~v.isApplicant  PROVE OffersVote(r, v)
    <3>1. v.user \in r.commissionMembers /\ r.memberDecisions[v.user] = "NONE"
      BY <2>3 DEF AcceptsVote, CanSubmitDecision
    <3>2. ViewerRole(r, v) = "commission"
      BY <2>1, <2>3, <3>1 DEF ViewerRole
    <3>3. r.status \notin PostBossApproval \cup {"REJECTED"} /\ r.bossDecision \notin {"APPROVED", "REJECTED"}
      BY <2>3 DEF AcceptsVote, CanSubmitDecision, IsApprovalWorkflowClosed
    <3>4. ~AreAllCommissionMembersAgreed(r)
      BY <3>1 DEF AreAllCommissionMembersAgreed, AllMembersAgreed, IsMemberAgreed
    <3>5. WorkflowStatus(r) = "COMMISSION_REVIEW"
      BY <1>1, <3>3, <3>4, WorkflowStatusIs DEF RecomputeStatus
    <3> QED
      BY <2>3, <3>1, <3>2, <3>5
         DEF OffersVote, AcceptsVote, CanSubmitDecision, HasMemberDecisionParticipation
  <2> QED
    BY <2>2, <2>3
<1>11. \A v \in Viewer : OffersBossDecision(r, v) <=> AcceptsBossDecision(r, v)
  BY DEF OffersBossDecision, AcceptsBossDecision, CanConfirmBossDecision
<1>12. \A v \in Viewer : OffersEdit(r, v) <=> AcceptsEdit(r, v)
  <2>1. /\ r.commissionMembers \in SUBSET Users /\ r.boss \in Users
        /\ ValidPanel(r.commissionMembers, r.boss)
    BY <1>1 DEF Sound, Document
  <2> QED
    BY <2>1 DEF OffersEdit, AcceptsEdit, HasPermission, CanUpdate
<1>13. \A v \in Viewer : CanAccessRequest(doc, v) =>
         /\ OffersVote(r, v) => AcceptsVote(r, v)
         /\ AcceptsVote(r, v) => OffersVote(r, v) \/ v.isApplicant
         /\ OffersBossDecision(r, v) <=> AcceptsBossDecision(r, v)
         /\ OffersEdit(r, v) <=> AcceptsEdit(r, v)
  BY <1>10, <1>11, <1>12
<1> QED
  BY <1>5, <1>6, <1>7, <1>8, <1>9, <1>13 DEF PagesTellTheTruth, r

LEMMA ViewInvWork == ViewInv => WorkIsListed
<1> SUFFICES ASSUME ViewInv, ~deleted  PROVE WorkIsListed
  BY DEF WorkIsListed
<1> DEFINE r == Loaded(doc)
<1>1. /\ Sound(doc) /\ Fits(doc) /\ Earned(doc, dispatches) /\ DecidersListed
      /\ Sound(r) /\ doc \in Document /\ r \in Document
  BY LoadedInReview DEF ViewInv, Inv, Sound
<1>2. r.status \notin PostBossApproval \cup {"REJECTED"} =>
        /\ r.bossDecision = "NONE"
        /\ r.status = IF AreAllCommissionMembersAgreed(r) THEN "BOSS_DECISION_PENDING"
                                                          ELSE "COMMISSION_REVIEW"
  BY <1>1, LoadedInReview
<1>3. r.items = doc.items
  BY <1>1, LoadedFields
<1>4. doc.status \in PostBossApproval => r.status = doc.status
  BY <1>1, LoadedStatus
<1>5. AcceptsPurchase(doc) =>
        PendingLines(doc) # {} /\ doc.status \in {"PURCHASING", "PURCHASED"}
  BY <1>3, <1>4
     DEF AcceptsPurchase, CanResolveItems, CanPurchasePendingItems, AssertPurchasingView,
         PendingLines
\* Who decided finds the request.
<1>6. \A user \in Users :
        \/ user \in doc.commissionMembers \cup {doc.boss}
        \/ HasApprovalHistoryParticipation(doc, user)
        => ApprovalInbox(user)
  BY <1>1 DEF ApprovalInbox, ApprovalIdentity, DecidersListed
<1>7. AcceptsPurchase(doc) => PurchasingInbox(doc)
  BY <1>5 DEF PurchasingInbox, PurchasingQueue
\* What can be sent is listed.
<1>8. ASSUME NEW batch \in Batches, CanSend(batch)
      PROVE  /\ batch \in PurchasedBatchIds(doc)
             /\ doc.status \in {"PURCHASING", "PURCHASED", "WAREHOUSE_IN_TRANSIT"}
             /\ ResolveDispatchForBatch(batch) = {}
  <2>1. batch \in PurchasedBatchIds(doc)
    BY <1>3, <1>8 DEF CanSend, ResolveBatchGoods, PurchasedBatchIds
  <2> QED
    BY <1>4, <1>8, <2>1 DEF CanSend, AssertPurchasingView, ResolveDispatchForBatch
<1>9. ASSUME NEW batch \in PurchasedBatchIds(doc), CanSend(batch)
      PROVE  /\ OffersDispatch(doc, batch)
             /\ PurchasingInbox(doc) \/ PurchasedInbox(doc)
             /\ batch \in IshonchnomaRows(doc)
  <2>1. batch \in Batches /\ batch \in doc.purchaseBatches
    BY <1>1 DEF PurchasedBatchIds, Fits
  <2> QED
    BY <1>8, <1>9, <2>1
       DEF OffersDispatch, PurchasedInbox, IshonchnomaRows, PostBossApproval
<1>10. AcceptsPurchase(doc) \/ (\E batch \in Batches : CanSend(batch)) => CalendarShows(doc)
  BY <1>5, <1>8 DEF CalendarShows
\* A status of the buyers goes with work of theirs.
<1>11. doc.status = "PURCHASING" => PurchasingInbox(doc)
  BY <1>1 DEF Fits, Settled, AllItemsResolved, PurchasingInbox, PurchasingQueue
<1>12. doc.status = "PURCHASED" => PurchasedInbox(doc) \/ UnavailableInbox(doc)
  <2> SUFFICES ASSUME doc.status = "PURCHASED", PurchasedBatchIds(doc) = {}
               PROVE  UnavailableInbox(doc)
    BY <1>1 DEF PurchasedInbox, PostBossApproval, Fits
  <2>1. PICK l \in Lines : TRUE
    BY NonemptyAssumption
  <2>2. doc.items[l] # "PENDING" /\ doc.items[l] \notin Batches
    BY <1>1 DEF Fits, Settled, AllItemsResolved, PendingLines, IsPending, PurchasedBatchIds
  <2>3. doc.items[l] = "UNAVAILABLE"
    BY <1>1, <2>2 DEF Document, ItemState
  <2> QED
    BY <2>3 DEF UnavailableInbox, PostBossApproval
\* The statistics of an approved request.
<1>13. ASSUME doc.bossDecision = "APPROVED", doc.status # "REJECTED"
       PROVE  /\ StatisticsOf(doc).purchased = {l \in Lines : doc.items[l] \in Batches}
              /\ StatisticsOf(doc).waiting # {} => AcceptsPurchase(doc)
  <2>1. doc.status \in PostBossApproval
    BY <1>1, <1>13 DEF Sound, StatusFollowsDecision
  <2>2. /\ StatisticsOf(doc).purchased = {l \in Lines : doc.items[l] \in Batches}
        /\ StatisticsOf(doc).waiting = PendingLines(doc)
    BY <1>13, <2>1 DEF StatisticsOf, ApprovedStatistics, PendingLines
  <2>3. ASSUME PendingLines(doc) # {}  PROVE AcceptsPurchase(doc)
    <3>1. doc.status = "PURCHASING"
      BY <1>1, <2>1, <2>3 DEF Fits, Settled, AllItemsResolved, PostBossApproval
    <3>2. PendingLines(r) # {} /\ PendingLines(r) \in SUBSET Lines
      BY <1>3, <2>3 DEF PendingLines
    <3> QED
      BY <1>4, <2>1, <3>1, <3>2
         DEF AcceptsPurchase, AssertPurchasingView, CanResolveItems, CanPurchasePendingItems
  <2> QED
    BY <2>2, <2>3
\* Whose turn it is was told.
<1> HIDE DEF r
<1>14. {u \in Users : CanSubmitDecision(r, u)} \subseteq MembersTold(r)
  <2> SUFFICES ASSUME NEW u \in Users, CanSubmitDecision(r, u)  PROVE u \in MembersTold(r)
    OBVIOUS
  <2>1. u \in r.commissionMembers /\ r.memberDecisions[u] = "NONE"
    BY DEF CanSubmitDecision
  <2>2. r.status = "COMMISSION_REVIEW"
    BY <1>2, <2>1
       DEF CanSubmitDecision, IsApprovalWorkflowClosed, AreAllCommissionMembersAgreed,
           AllMembersAgreed, IsMemberAgreed
  <2> QED
    BY <2>1, <2>2 DEF MembersTold
<1>15. CanConfirmBossDecision(r) => BossTold(r)
  BY <1>2 DEF CanConfirmBossDecision, IsBossDecisionPhase, BossTold
<1>16. IsBossRejectionPendingResubmit(r) \/ RejectedMembers(r) # {} => ApplicantTold(r)
  BY DEF IsBossRejectionPendingResubmit, ApplicantTold
<1>17. r.status = "COMMISSION_REVIEW" => MembersTold(r) # {} \/ ApplicantTold(r)
  <2> SUFFICES ASSUME r.status = "COMMISSION_REVIEW"  PROVE MembersTold(r) # {}
    OBVIOUS
  <2>1. ~AreAllCommissionMembersAgreed(r)
    BY <1>2 DEF PostBossApproval
  <2>2. PICK m \in r.commissionMembers : ~IsMemberAgreed(r.memberDecisions[m])
    BY <1>1, <2>1 DEF Sound, ValidPanel, AreAllCommissionMembersAgreed, AllMembersAgreed
  <2> QED
    BY <2>2 DEF MembersTold, IsMemberAgreed
<1>18. (\A u \in MembersTold(doc) : ApprovalInbox(u)) /\ (BossTold(doc) => ApprovalInbox(doc.boss))
  BY DEF MembersTold, BossTold, ApprovalInbox, ApprovalIdentity
<1> QED
  BY <1>6, <1>7, <1>9, <1>10, <1>11, <1>12, <1>13, <1>14, <1>15, <1>16, <1>17, <1>18
     DEF WorkIsListed, DeadlineOfBuyers, BuyersTold, KeepersTold, r

\* What toPublic offers and the lists show is what the handlers accept, in every
\* state of a request and for whoever looks: the status shown is the one a load
\* repairs it to, and a button is there for exactly those it works for.
THEOREM PagesAreTrue == ViewSpec => []PagesTellTheTruth
<1> QED
  BY ViewInvPages, ViewInvHolds, PTL

\* Nobody's work is out of sight: what can be decided, bought or sent is listed
\* and told to those who can do it (buildApprovalInboxAssignmentClause,
\* findPurchasingInboxPaginated, getCalendarEvents, getPurchaseStatistics,
\* handlePurchaseRequestChanged).
THEOREM WorkIsInSight == ViewSpec => []WorkIsListed
<1> QED
  BY ViewInvWork, ViewInvHolds, PTL

============================================================================
