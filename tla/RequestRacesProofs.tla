--------------------------- MODULE RequestRacesProofs ---------------------------
(***************************************************************************)
(* Theorems about RequestRaces, for any people, contents, lines, batches   *)
(* and number of handlers in flight.                                       *)
(*                                                                         *)
(* What an approval rests on are four fields (Core).  The inductive        *)
(* invariant says of every handler in flight that either its save checks   *)
(* the version, and then it has seen these fields as they are stored, or   *)
(* it leaves them alone.                                                   *)
(***************************************************************************)
EXTENDS RequestRaces, TLAPS

Core(r) == <<r.commissionMembers, r.memberDecisions, r.bossDecision, r.items>>

\* An approved copy has a commission, all of which agreed.
Good(r) ==
  /\ r \in Document
  /\ r.commissionMembers # {}
  /\ r.bossDecision = "APPROVED" => AllMembersAgreed(r)

RepairOK(job, stored) ==
  /\ job.slots \/ job.versioned => Core(job.seen) = Core(stored)
  /\ ~job.slots => Core(Loaded(job.seen)) = Core(job.seen)
  /\ ~job.versioned => Core(job.next) = Core(Loaded(job.seen))

SaveOK(job, stored) ==
  /\ job.versioned => Core(job.seen) = Core(stored)
  /\ ~job.versioned => Core(job.next) = Core(job.seen)

JobOK(job, stored) ==
  /\ job \in Job
  /\ job.stage \in {"repair", "save"} => Good(job.seen) /\ Good(job.next)
  /\ job.stage = "repair" => RepairOK(job, stored)
  /\ job.stage = "save" => SaveOK(job, stored)

RacesInv ==
  /\ Good(doc)
  /\ deleted \in BOOLEAN
  /\ cast \subseteq Users \X Decision
  /\ running = [p \in Procs |-> running[p]]
  /\ \A p \in Procs : JobOK(running[p], doc)

----------------------------------------------------------------------------
(* The operators on the document *)

LEMMA RecomputeType ==
  ASSUME NEW r \in Document
  PROVE  RecomputeStatus(r) \in Status
BY DEF RecomputeStatus, Status, Document, PostBossApproval

LEMMA GoodByCore ==
  ASSUME NEW r, Good(r), NEW next \in Document, Core(next) = Core(r)
  PROVE  Good(next)
BY DEF Good, Core, AllMembersAgreed

LEMMA WithStatus ==
  ASSUME NEW r \in Document, NEW status \in Status
  PROVE  [r EXCEPT !.status = status] \in Document
         /\ Core([r EXCEPT !.status = status]) = Core(r)
BY DEF Document, Core

LEMMA LoadedGood ==
  ASSUME NEW stored, Good(stored)
  PROVE  /\ Good(Loaded(stored))
         /\ Loaded(stored).memberDecisions = stored.memberDecisions =>
              Core(Loaded(stored)) = Core(stored)
<1> DEFINE r == SyncMemberDecisions(stored)
<1>1. /\ r \in Document
      /\ r.bossDecision = stored.bossDecision
      /\ r.commissionMembers = stored.commissionMembers
      /\ r.items = stored.items
      /\ \A u \in stored.commissionMembers :
           r.memberDecisions[u] = stored.memberDecisions[u]
  BY DEF SyncMemberDecisions, Good, Document, Decision
<1>2. Good(r)
  BY <1>1 DEF Good, AllMembersAgreed, Document
<1>3. Loaded(stored) = [r EXCEPT !.status = ReconciledStatus(r)]
  BY DEF Loaded
<1> HIDE DEF r
<1>4. ReconciledStatus(r) \in Status
  BY <1>1, RecomputeType DEF ReconciledStatus, Document
<1>5. Loaded(stored) \in Document /\ Core(Loaded(stored)) = Core(r)
  BY <1>1, <1>3, <1>4, WithStatus
<1>6. Good(Loaded(stored))
  BY <1>2, <1>5, GoodByCore
<1> QED
  BY <1>1, <1>5, <1>6 DEF Core

LEMMA SubmittedGood ==
  ASSUME NEW members \in SUBSET Users, NEW boss \in Users, NEW content \in Contents,
         ValidPanel(members, boss)
  PROVE  Good(Submitted(members, boss, content))
BY DEF Good, Submitted, Document, Status, Decision, ItemState, PostBossApproval, ValidPanel

\* A vote is accepted only as long as the boss has not decided.
LEMMA VoteGood ==
  ASSUME NEW r, Good(r), NEW member \in Users,
         NEW decision \in {"APPROVED", "PARTIAL", "REJECTED"}, CanSubmitDecision(r, member)
  PROVE  Good(SubmitDecision(r, member, decision))
<1> DEFINE voted == [r EXCEPT !.memberDecisions[member] = decision,
                              !.decisionSteps[member] = decision]
<1>1. /\ voted \in Document
      /\ voted.bossDecision = r.bossDecision
      /\ voted.commissionMembers = r.commissionMembers
  BY DEF Good, Document, Decision
<1>2. r.bossDecision # "APPROVED"
  BY DEF CanSubmitDecision, IsApprovalWorkflowClosed
<1>3. SubmitDecision(r, member, decision) = [voted EXCEPT !.status = RecomputeStatus(voted)]
  BY DEF SubmitDecision
<1>4. Good(voted)
  BY <1>1, <1>2 DEF Good
<1> HIDE DEF voted
<1> QED
  BY <1>1, <1>3, <1>4, RecomputeType, WithStatus, GoodByCore

LEMMA BossGood ==
  ASSUME NEW r, Good(r), NEW decision \in {"APPROVED", "REJECTED"}, CanConfirmBossDecision(r)
  PROVE  Good(ConfirmBossDecision(r, decision))
<1>1. AllMembersAgreed(r)
  BY DEF CanConfirmBossDecision, IsBossDecisionPhase, AreAllCommissionMembersAgreed
<1>2. /\ ConfirmBossDecision(r, decision) \in Document
      /\ ConfirmBossDecision(r, decision).commissionMembers = r.commissionMembers
      /\ ConfirmBossDecision(r, decision).memberDecisions = r.memberDecisions
  BY DEF ConfirmBossDecision, Good, Document, Decision, Status, PostBossApproval
<1> QED
  BY <1>1, <1>2 DEF Good, AllMembersAgreed

\* Whatever the applicant writes takes the decision of the boss back.
LEMMA RewrittenGood ==
  ASSUME NEW r, Good(r), NEW members \in SUBSET Users, NEW boss \in Users,
         NEW content \in Contents, ValidPanel(members, boss),
         NEW votes \in [Users -> Decision], NEW status \in Status
  PROVE  /\ Good([Rewritten(r, members, boss, content) EXCEPT
                    !.memberDecisions = votes, !.status = status])
         /\ Good([Rewritten(r, members, boss, content) EXCEPT !.memberDecisions = votes])
         /\ Good([Rewritten(r, members, boss, content) EXCEPT !.status = status])
BY DEF Good, Rewritten, Document, Decision, ItemState, ValidPanel

LEMMA UpdateGood ==
  ASSUME NEW r, Good(r), NEW prior \in [Users -> Decision],
         NEW members \in SUBSET Users, NEW boss \in Users,
         NEW content \in Contents, ValidPanel(members, boss)
  PROVE  Good(Update(r, prior, members, boss, content))
<1> DEFINE kept == [u \in Users |->
                      IF u \in members /\ prior[u] = "APPROVED" THEN "APPROVED" ELSE "NONE"]
<1>1. kept \in [Users -> Decision]
  BY DEF Decision
<1>2. {"COMMISSION_REVIEW", "BOSS_DECISION_PENDING"} \subseteq Status
  BY DEF Status
<1> HIDE DEF kept
<1> QED
  BY <1>1, <1>2, RewrittenGood DEF Update, kept

LEMMA ResubmitGood ==
  ASSUME NEW r, Good(r), NEW selected \in SUBSET Users,
         NEW members \in SUBSET Users, NEW boss \in Users,
         NEW content \in Contents, ValidPanel(members, boss)
  PROVE  /\ Good(ResubmitToBoss(r, members, boss, content))
         /\ Good(ResubmitToCommission(r, selected, members, boss, content))
<1> DEFINE w == Rewritten(r, members, boss, content)
           again(u) == \/ u \notin members
                       \/ r.memberDecisions[u] = "PARTIAL"
                       \/ r.memberDecisions[u] = "REJECTED" /\ u \in selected
           votes == [u \in Users |-> IF again(u) THEN "NONE" ELSE r.memberDecisions[u]]
           asked == [w EXCEPT !.memberDecisions = votes]
<1>1. votes \in [Users -> Decision] /\ "BOSS_DECISION_PENDING" \in Status
  BY DEF Good, Document, Decision, Status
<1>2. Good(asked) /\ asked \in Document
  BY <1>1, RewrittenGood DEF Good
<1>3. w.memberDecisions = r.memberDecisions
  BY DEF Rewritten, Good, Document
<1>4. ResubmitToCommission(r, selected, members, boss, content)
        = [asked EXCEPT !.status = RecomputeStatus(asked)]
  BY <1>3 DEF ResubmitToCommission, Rewritten, Good, Document
<1>5. Good(ResubmitToBoss(r, members, boss, content))
  BY <1>1, RewrittenGood DEF ResubmitToBoss
<1> HIDE DEF asked
<1> QED
  BY <1>2, <1>4, <1>5, RecomputeType, WithStatus, GoodByCore

\* Purchasing settles pending lines and leaves the rest of the approval alone.
LEMMA PurchaseGood ==
  ASSUME NEW r, Good(r), NEW lines \in SUBSET Lines
  PROVE  /\ \A batch \in Batches : Good(CompletePurchase(r, lines, batch))
         /\ Good(MarkItemsUnavailable(r, lines))
         /\ Good(RejectPurchase(r)) /\ Core(RejectPurchase(r)) = Core(r)
<1>1. ASSUME NEW state \in ItemState
      PROVE  /\ Good(Resolved(r, lines, state))
             /\ Resolved(r, lines, state) \in Document
  BY DEF Resolved, Good, Document, Status, PostBossApproval, AllMembersAgreed
<1>2. Batches \subseteq ItemState /\ "UNAVAILABLE" \in ItemState /\ "REJECTED" \in Status
  BY DEF ItemState, Status
<1>3. ASSUME NEW batch \in Batches
      PROVE  Good(CompletePurchase(r, lines, batch))
  <2>1. Good(Resolved(r, lines, batch)) /\ Resolved(r, lines, batch) \in Document
    BY <1>1, <1>2
  <2> QED
    BY <2>1 DEF CompletePurchase, Document, Good, AllMembersAgreed
<1> QED
  BY <1>1, <1>2, <1>3, WithStatus, GoodByCore DEF MarkItemsUnavailable, RejectPurchase, Good

----------------------------------------------------------------------------
(* What a save writes *)

\* A save writes a field of the copy or leaves the stored one.
LEMMA SavedType ==
  ASSUME doc \in Document, NEW seen \in Document, NEW next \in Document
  PROVE  /\ Saved(seen, next) \in Document
         /\ Core(seen) = Core(doc) => Core(Saved(seen, next)) = Core(next)
         /\ Core(seen) = Core(next) => Core(Saved(seen, next)) = Core(doc)
<1>1. /\ Saved(seen, next) \in Document
      /\ \A f \in {"commissionMembers", "memberDecisions", "bossDecision", "items"} :
           Saved(seen, next)[f] = IF next[f] # seen[f] THEN next[f] ELSE doc[f]
  <2>1. /\ DOMAIN doc = {"status", "commissionMembers", "boss", "memberDecisions",
                         "bossDecision", "content", "items", "purchaseBatches",
                         "decisionSteps", "bossStep"}
        /\ Saved(seen, next) = [f \in DOMAIN doc |->
                                  IF next[f] # seen[f] THEN next[f] ELSE doc[f]]
    BY DEF Saved, Document
  <2> QED
    BY <2>1 DEF Document
<1> QED
  BY <1>1 DEF Core

\* The fields of a handler in flight, as its stage gives them.
LEMMA JobFields ==
  ASSUME NEW job \in Job, job.stage \in {"repair", "save"}
  PROVE  /\ job.seen \in Document /\ job.next \in Document
         /\ job.slots \in BOOLEAN /\ job.versioned \in BOOLEAN /\ job.removes \in BOOLEAN
BY DEF Job

LEMMA MadeJob ==
  ASSUME NEW stage \in {"repair", "save"}, NEW seen \in Document, NEW next \in Document,
         NEW slots \in BOOLEAN, NEW versioned \in BOOLEAN, NEW removes \in BOOLEAN
  PROVE  [stage |-> stage, seen |-> seen, next |-> next, slots |-> slots,
          versioned |-> versioned, removes |-> removes] \in Job
BY DEF Job

LEMMA PlainJob ==
  ASSUME NEW stage \in {"idle", "delete", "attach"}
  PROVE  [stage |-> stage] \in Job /\ \A stored : JobOK([stage |-> stage], stored)
BY DEF Job, JobOK, Idle

\* Whatever is left of a handler that was overtaken leaves alone what an
\* approval rests on, so it does not matter what was stored meanwhile.
LEMMA OvertakenOK ==
  ASSUME NEW job, NEW before, JobOK(job, before), NEW stored
  PROVE  JobOK(Overtaken(job), stored)
<1>1. CASE \/ job.stage = "attach"
           \/ job.stage = "save" /\ job.versioned
           \/ job.stage = "repair" /\ job.slots
  <2>1. Overtaken(job) = Idle
    BY <1>1 DEF Overtaken
  <2> QED
    BY <2>1 DEF JobOK, Job, Idle
<1>2. CASE job.stage = "repair" /\ ~job.slots /\ job.versioned
  <2> DEFINE left == [job EXCEPT !.next = Loaded(job.seen), !.versioned = FALSE]
  <2>1. Good(job.seen) /\ Core(Loaded(job.seen)) = Core(job.seen) /\ job \in Job
    BY <1>2 DEF JobOK, RepairOK
  <2>2. Good(Loaded(job.seen))
    BY <2>1, LoadedGood
  <2>3. job \in [stage : {"repair", "save"}, seen : Document, next : Document,
                 slots : BOOLEAN, versioned : BOOLEAN, removes : BOOLEAN]
    BY <1>2, <2>1 DEF Job
  <2>4. left \in Job
    <3>1. left \in [stage : {"repair", "save"}, seen : Document, next : Document,
                    slots : BOOLEAN, versioned : BOOLEAN, removes : BOOLEAN]
      BY <2>2, <2>3 DEF Good
    <3> QED
      BY <3>1 DEF Job
  <2>5. Overtaken(job) = left
    BY <1>2 DEF Overtaken
  <2>6. /\ left.stage = "repair" /\ ~left.slots /\ ~left.versioned
        /\ left.seen = job.seen /\ left.next = Loaded(job.seen)
    BY <1>2, <2>3
  <2> HIDE DEF left
  <2> QED
    BY <2>1, <2>2, <2>4, <2>5, <2>6 DEF JobOK, RepairOK, SaveOK
<1>3. CASE /\ job.stage # "attach"
           /\ ~(job.stage = "save" /\ job.versioned)
           /\ ~(job.stage = "repair" /\ job.slots)
           /\ ~(job.stage = "repair" /\ job.versioned)
  <2>1. Overtaken(job) = job
    BY <1>3 DEF Overtaken
  <2> QED
    BY <1>3, <2>1 DEF JobOK, RepairOK, SaveOK
<1> QED
  BY <1>1, <1>2, <1>3

----------------------------------------------------------------------------
(* Each step *)

\* A handler that has loaded the document: it checks the version, or its copy
\* agrees with what it loaded in what an approval rests on.
LEMMA JobAfterLoad ==
  ASSUME Good(doc), NEW next, Good(next), NEW slots \in SlotsRewritten(doc),
         NEW versioned \in BOOLEAN, NEW removes \in BOOLEAN,
         ~versioned => Core(next) = Core(Loaded(doc))
  PROVE  JobOK(Job0(next, slots, versioned, removes), doc)
<1> DEFINE job == Job0(next, slots, versioned, removes)
<1>1. slots \in BOOLEAN /\ (~slots => Loaded(doc).memberDecisions = doc.memberDecisions)
  BY DEF SlotsRewritten
<1>2. ~slots => Core(Loaded(doc)) = Core(doc)
  BY <1>1, LoadedGood
<1>3. CASE Loaded(doc).status # doc.status
  <2>1. job = [stage |-> "repair", seen |-> doc, next |-> next, slots |-> slots,
               versioned |-> versioned, removes |-> removes]
    BY <1>3 DEF Job0
  <2>2. job \in Job /\ job.stage = "repair"
    BY <1>1, <2>1, MadeJob DEF Good
  <2>3. RepairOK(job, doc)
    BY <1>2, <2>1 DEF RepairOK
  <2>4. job.seen = doc /\ job.next = next
    BY <2>1
  <2> HIDE DEF job
  <2>5. JobOK(job, doc)
    BY <2>2, <2>3, <2>4 DEF JobOK
  <2> QED
    BY <2>5 DEF job
<1>4. CASE Loaded(doc).status = doc.status /\ removes
  BY <1>4, PlainJob DEF Job0
<1>5. CASE Loaded(doc).status = doc.status /\ ~removes
  <2> DEFINE checks == versioned \/ slots
  <2>1. job = [stage |-> "save", seen |-> doc, next |-> next, slots |-> FALSE,
               versioned |-> checks, removes |-> FALSE]
    BY <1>5 DEF Job0
  <2>2. checks \in BOOLEAN /\ (~checks => Core(next) = Core(doc))
    BY <1>1, <1>2
  <2> HIDE DEF checks
  <2> HIDE DEF job
  <2>3. /\ job.stage = "save" /\ job.seen = doc /\ job.next = next
        /\ job.versioned = checks
    BY <2>1
  <2>4. SaveOK(job, doc)
    BY <2>2, <2>3 DEF SaveOK
  <2>5. job \in [stage : {"repair", "save"}, seen : Document, next : Document,
                 slots : BOOLEAN, versioned : BOOLEAN, removes : BOOLEAN]
    BY <2>1, <2>2 DEF Good
  <2>6. JobOK(job, doc)
    BY <2>3, <2>4, <2>5 DEF JobOK, Job
  <2> QED
    BY <2>6 DEF job
<1> QED
  BY <1>3, <1>4, <1>5

LEMMA LoadKeeps ==
  ASSUME RacesInv, NEW p \in Procs, NEW next, Good(next),
         NEW versioned \in BOOLEAN, NEW removes \in BOOLEAN,
         ~versioned => Core(next) = Core(Loaded(doc)),
         Load(p, next, versioned, removes), UNCHANGED <<doc, deleted, cast>>
  PROVE  RacesInv'
<1>1. PICK slots \in SlotsRewritten(doc) :
        running' = [running EXCEPT ![p] = Job0(next, slots, versioned, removes)]
  BY DEF Load
<1>2. JobOK(Job0(next, slots, versioned, removes), doc)
  BY JobAfterLoad DEF RacesInv
<1>3. /\ running' = [q \in Procs |-> running'[q]]
      /\ \A q \in Procs : JobOK(running'[q], doc)
  BY <1>1, <1>2 DEF RacesInv
<1> QED
  BY <1>3 DEF RacesInv, Good, AllMembersAgreed

\* A step of p that leaves it with a sound job and the stored document sound.
LEMMA StepKeeps ==
  ASSUME RacesInv, NEW p \in Procs, NEW job, JobOK(job, doc'), Good(doc'),
         deleted' \in BOOLEAN, cast' \subseteq Users \X Decision,
         \/ MovesVersion(p, job)
         \/ KeepsVersion(p, job) /\ Core(doc') = Core(doc)
  PROVE  RacesInv'
<1>1. ASSUME MovesVersion(p, job)
      PROVE  /\ running' = [q \in Procs |-> running'[q]]
             /\ \A q \in Procs : JobOK(running'[q], doc')
  <2>1. /\ running' = [q \in Procs |-> running'[q]]
        /\ \A q \in Procs : running'[q] = IF q = p THEN job ELSE Overtaken(running[q])
    BY <1>1 DEF MovesVersion
  <2>2. \A q \in Procs : JobOK(Overtaken(running[q]), doc')
    BY OvertakenOK DEF RacesInv
  <2> QED
    BY <2>1, <2>2
<1>2. ASSUME KeepsVersion(p, job), Core(doc') = Core(doc)
      PROVE  /\ running' = [q \in Procs |-> running'[q]]
             /\ \A q \in Procs : JobOK(running'[q], doc')
  <2>1. /\ running' = [q \in Procs |-> running'[q]]
        /\ \A q \in Procs : running'[q] = IF q = p THEN job ELSE running[q]
    BY <1>2 DEF KeepsVersion, RacesInv
  <2> QED
    BY <1>2, <2>1 DEF RacesInv, JobOK, RepairOK, SaveOK
<1>3. Good(doc)'
  BY DEF Good, AllMembersAgreed
<1> QED
  BY <1>1, <1>2, <1>3 DEF RacesInv

\* The repair sets the slots and checks the version, or sets the status alone.
LEMMA RepairKeeps ==
  ASSUME RacesInv, NEW p \in Procs, Repair(p)
  PROVE  RacesInv'
<1> DEFINE job == running[p]
           copy == Loaded(job.seen)
           rest == IF job.removes THEN [stage |-> "delete"]
                   ELSE IF job.next = copy THEN Idle
                   ELSE [job EXCEPT !.stage = "save", !.seen = copy, !.slots = FALSE]
<1>1. /\ job.stage = "repair" /\ job \in Job /\ RepairOK(job, doc)
      /\ Good(job.seen) /\ Good(job.next) /\ Good(doc)
      /\ UNCHANGED <<deleted, cast>>
  BY DEF Repair, RacesInv, JobOK
<1>2. Good(copy)
  BY <1>1, LoadedGood
<1>3. CASE deleted
  <2>1. KeepsVersion(p, Idle) /\ UNCHANGED doc
    BY <1>3 DEF Repair
  <2> QED
    BY <1>1, <2>1, PlainJob, StepKeeps DEF Idle, RacesInv
<1>4. CASE ~deleted
  <2>1. /\ doc' = Saved(job.seen, copy)
        /\ IF job.slots THEN MovesVersion(p, rest) ELSE KeepsVersion(p, rest)
    BY <1>4 DEF Repair
  <2>2. /\ doc' \in Document
        /\ Core(job.seen) = Core(doc) => Core(doc') = Core(copy)
        /\ Core(job.seen) = Core(copy) => Core(doc') = Core(doc)
    BY <1>1, <1>2, <2>1, SavedType DEF Good
  <2>3. /\ job.slots => Core(doc') = Core(copy)
        /\ ~job.slots => Core(doc') = Core(doc)
        /\ job.versioned => Core(doc') = Core(copy)
    BY <1>1, <2>2 DEF RepairOK
  <2>4. Good(doc')
    BY <1>1, <1>2, <2>2, <2>3, GoodByCore
  <2>5. JobOK(rest, doc')
    <3>1. CASE job.removes
      BY <3>1, PlainJob
    <3>2. CASE ~job.removes /\ job.next = copy
      BY <3>2, PlainJob DEF Idle
    <3>3. CASE ~job.removes /\ job.next # copy
      <4> DEFINE left == [job EXCEPT !.stage = "save", !.seen = copy, !.slots = FALSE]
      <4>1. job \in [stage : {"repair", "save"}, seen : Document, next : Document,
                     slots : BOOLEAN, versioned : BOOLEAN, removes : BOOLEAN]
        BY <1>1 DEF Job
      <4> HIDE DEF job
      <4>2. /\ left \in [stage : {"repair", "save"}, seen : Document, next : Document,
                         slots : BOOLEAN, versioned : BOOLEAN, removes : BOOLEAN]
            /\ left.stage = "save" /\ left.seen = copy /\ left.next = job.next
            /\ left.versioned = job.versioned
        BY <1>2, <4>1 DEF Good
      <4>3. rest = left
        BY <3>3
      <4> HIDE DEF left, rest, copy
      <4>4. SaveOK(left, doc')
        BY <1>1, <2>3, <4>2 DEF SaveOK, RepairOK, copy
      <4> QED
        BY <1>1, <1>2, <4>2, <4>3, <4>4 DEF JobOK, Job
    <3> QED
      BY <3>1, <3>2, <3>3
  <2> HIDE DEF rest, copy, job
  <2> QED
    BY <1>1, <2>1, <2>3, <2>4, <2>5, StepKeeps DEF RacesInv
<1> QED
  BY <1>3, <1>4

\* The last save of a handler.
LEMMA SaveKeeps ==
  ASSUME RacesInv, NEW p \in Procs, Save(p)
  PROVE  RacesInv'
<1> DEFINE job == running[p]
           approves == job.next.bossDecision = "APPROVED" /\ job.seen.bossDecision = "NONE"
           voters == {u \in Users : job.next.decisionSteps[u] # job.seen.decisionSteps[u]}
           left == IF approves THEN [stage |-> "attach"] ELSE Idle
<1>1. /\ job.stage = "save" /\ SaveOK(job, doc)
      /\ Good(job.seen) /\ Good(job.next) /\ Good(doc)
      /\ UNCHANGED deleted
  BY DEF Save, RacesInv, JobOK
<1>2. CASE deleted
  <2>1. KeepsVersion(p, Idle) /\ UNCHANGED <<doc, cast>>
    BY <1>2 DEF Save
  <2> QED
    BY <1>1, <2>1, PlainJob, StepKeeps DEF Idle, RacesInv
<1>3. CASE ~deleted
  <2>1. /\ doc' = Saved(job.seen, job.next)
        /\ cast' = cast \cup {<<u, job.next.decisionSteps[u]>> : u \in voters}
        /\ MovesVersion(p, left)
    BY <1>3 DEF Save
  <2>2. /\ doc' \in Document
        /\ job.versioned => Core(doc') = Core(job.next)
        /\ ~job.versioned => Core(doc') = Core(doc)
    BY <1>1, <2>1, SavedType DEF SaveOK, Good
  <2>3. Good(doc')
    BY <1>1, <2>2, GoodByCore
  <2>4. cast' \subseteq Users \X Decision
    BY <1>1, <2>1 DEF RacesInv, Good, Document
  <2>5. JobOK(left, doc')
    BY PlainJob DEF Idle
  <2> HIDE DEF left
  <2> QED
    BY <1>1, <2>1, <2>3, <2>4, <2>5, StepKeeps DEF RacesInv
<1> QED
  BY <1>2, <1>3

LEMMA ContinueKeeps ==
  ASSUME RacesInv, NEW p \in Procs, Continue(p)
  PROVE  RacesInv'
<1>1. CASE AttachDocuments(p)
  BY <1>1, PlainJob, StepKeeps DEF AttachDocuments, Idle, RacesInv
<1>2. CASE Delete(p)
  <2>1. KeepsVersion(p, Idle) /\ UNCHANGED <<doc, cast>> /\ deleted' = TRUE
    BY <1>2 DEF Delete, KeepsVersion
  <2> QED
    BY <2>1, PlainJob, StepKeeps DEF Idle, RacesInv
<1> QED
  BY <1>1, <1>2, RepairKeeps, SaveKeeps DEF Continue

LEMMA BeginKeeps ==
  ASSUME RacesInv, NEW p \in Procs, NEW next, Good(next),
         NEW versioned \in BOOLEAN, NEW removes \in BOOLEAN,
         ~versioned => Core(next) = Core(Loaded(doc)),
         Begin(p, next, versioned, removes)
  PROVE  RacesInv'
BY LoadKeeps DEF Begin

LEMMA ApproveKeeps ==
  ASSUME RacesInv, NEW p \in Procs, Read(p) \/ Approve(p)
  PROVE  RacesInv'
<1>0. Good(Loaded(doc))
  BY LoadedGood DEF RacesInv
<1>1. CASE Read(p)
  BY <1>0, <1>1, BeginKeeps DEF Read
<1>2. ASSUME NEW member \in Users, NEW decision \in Votes, Vote(p, member, decision)
      PROVE  RacesInv'
  <2>1. decision \in {"APPROVED", "PARTIAL", "REJECTED"}
    BY VotesAssumption
  <2>2. Good(SubmitDecision(Loaded(doc), member, decision))
    BY <1>0, <1>2, <2>1, VoteGood DEF Vote
  <2> QED
    BY <1>2, <2>2, BeginKeeps DEF Vote
<1>3. ASSUME NEW decision \in {"APPROVED", "REJECTED"}, BossDecides(p, decision)
      PROVE  RacesInv'
  <2>1. Good(ConfirmBossDecision(Loaded(doc), decision))
    BY <1>0, <1>3, BossGood DEF BossDecides
  <2> QED
    BY <1>3, <2>1, BeginKeeps DEF BossDecides
<1> QED
  BY <1>1, <1>2, <1>3 DEF Approve

LEMMA ApplyKeeps ==
  ASSUME RacesInv, NEW p \in Procs, Apply(p)
  PROVE  RacesInv'
<1>0. Good(Loaded(doc)) /\ Good(doc)
  BY LoadedGood DEF RacesInv
<1>1. CASE BeginEdit(p)
  <2> DEFINE job == [stage |-> "prior", votes |-> doc.memberDecisions]
  <2>1. doc.memberDecisions \in [Users -> Decision]
    BY <1>0 DEF Good, Document
  <2>2. JobOK(job, doc)
    BY <2>1 DEF JobOK, Job
  <2>3. KeepsVersion(p, job) /\ UNCHANGED <<doc, deleted, cast>>
    BY <1>1 DEF BeginEdit, KeepsVersion
  <2> HIDE DEF job
  <2> QED
    BY <1>0, <2>2, <2>3, StepKeeps DEF RacesInv
<1>2. CASE EditRefused(p)
  <2>1. KeepsVersion(p, Idle) /\ UNCHANGED <<doc, deleted, cast>>
    BY <1>2 DEF EditRefused, KeepsVersion
  <2> QED
    BY <1>0, <2>1, PlainJob, StepKeeps DEF Idle, RacesInv
<1>3. CASE Remove(p)
  BY <1>0, <1>3, BeginKeeps DEF Remove
<1>4. ASSUME NEW members \in SUBSET Users, NEW boss \in Users, NEW content \in Contents,
             EditOrResubmit(p, members, boss, content)
      PROVE  RacesInv'
  <2>1. ASSUME NEW isViewerAdmin \in BOOLEAN, Edit(p, isViewerAdmin, members, boss, content)
        PROVE  RacesInv'
    <3>1. running[p].votes \in [Users -> Decision]
      BY <2>1 DEF Edit, RacesInv, JobOK, Job
    <3>2. Good(Update(Loaded(doc), running[p].votes, members, boss, content))
      BY <1>0, <2>1, <3>1, UpdateGood DEF Edit, CanUpdate
    <3> QED
      BY <2>1, <3>2, LoadKeeps DEF Edit
  <2>2. CASE ResubmitBoss(p, members, boss, content)
    <3>1. Good(ResubmitToBoss(Loaded(doc), members, boss, content))
      BY <1>0, <2>2, ResubmitGood DEF ResubmitBoss, CanResubmitToBoss
    <3> QED
      BY <2>2, <3>1, BeginKeeps DEF ResubmitBoss
  <2>3. ASSUME NEW selected \in SUBSET Users,
               ResubmitCommission(p, selected, members, boss, content)
        PROVE  RacesInv'
    <3>1. Good(ResubmitToCommission(Loaded(doc), selected, members, boss, content))
      BY <1>0, <2>3, ResubmitGood DEF ResubmitCommission, CanResubmitToCommission
    <3> QED
      BY <2>3, <3>1, BeginKeeps DEF ResubmitCommission
  <2> QED
    BY <1>4, <2>1, <2>2, <2>3 DEF EditOrResubmit
<1> QED
  BY <1>1, <1>2, <1>3, <1>4 DEF Apply

LEMMA PurchaseKeeps ==
  ASSUME RacesInv, NEW p \in Procs, Purchase(p)
  PROVE  RacesInv'
<1>0. Good(Loaded(doc))
  BY LoadedGood DEF RacesInv
<1>1. ASSUME NEW lines \in SUBSET Lines, NEW batch \in Batches, Buy(p, lines, batch)
      PROVE  RacesInv'
  <2>1. Good(CompletePurchase(Loaded(doc), lines, batch))
    BY <1>0, PurchaseGood
  <2> QED
    BY <1>1, <2>1, BeginKeeps DEF Buy
<1>2. ASSUME NEW lines \in SUBSET Lines, GiveUp(p, lines)
      PROVE  RacesInv'
  <2>1. Good(MarkItemsUnavailable(Loaded(doc), lines))
    BY <1>0, PurchaseGood
  <2> QED
    BY <1>2, <2>1, BeginKeeps DEF GiveUp
<1>3. CASE PurchaseRejected(p)
  <2>1. /\ Good(RejectPurchase(Loaded(doc)))
        /\ Core(RejectPurchase(Loaded(doc))) = Core(Loaded(doc))
    BY <1>0, PurchaseGood
  <2> QED
    BY <1>3, <2>1, BeginKeeps DEF PurchaseRejected
<1> QED
  BY <1>1, <1>2, <1>3 DEF Purchase

----------------------------------------------------------------------------
LEMMA RacesInit == Init => RacesInv
<1> SUFFICES ASSUME Init PROVE RacesInv
  OBVIOUS
<1>1. Good(doc)
  BY SubmittedGood DEF Init
<1>2. JobOK(Idle, doc)
  BY PlainJob DEF Idle
<1> QED
  BY <1>1, <1>2 DEF Init, RacesInv

LEMMA RacesNext ==
  ASSUME RacesInv, [Next]_vars
  PROVE  RacesInv'
<1>1. CASE UNCHANGED vars
  BY <1>1 DEF vars, RacesInv, Good, AllMembersAgreed
<1> QED
  BY <1>1, ApproveKeeps, ApplyKeeps, PurchaseKeeps, ContinueKeeps DEF Next

\* The request, the record of the votes and what the handlers in flight hold keep
\* their types, for any number of handlers.
THEOREM RacesTypeCorrect == Spec => []TypeOK
<1>1. RacesInv => TypeOK
  BY DEF RacesInv, TypeOK, Good, JobOK
<1> QED
  BY <1>1, RacesInit, RacesNext, PTL DEF Spec

\* A request the boss approved was agreed to by every member of a commission that
\* is not empty, however many votes, edits, resubmissions, repairs, purchases and
\* decisions overlap (the version __v that save() checks).
THEOREM ApprovalSurvivesRaces == Spec => []ApprovedByWholeCommission
<1>1. RacesInv => ApprovedByWholeCommission
  BY DEF RacesInv, Good, ApprovedByWholeCommission
<1> QED
  BY <1>1, RacesInit, RacesNext, PTL DEF Spec

----------------------------------------------------------------------------
(* Votes were cast *)

\* What a copy holds was pushed to the history, or is about to be.
CastVotes(votes, pushed) ==
  \A u \in Users : votes[u] # "NONE" => <<u, votes[u]>> \in pushed

Backed(r, pushed) ==
  CastVotes(r.memberDecisions, pushed) /\ CastVotes(r.decisionSteps, pushed)

Pushes(r, pushed) ==
  \A u \in Users : r.memberDecisions[u] # "NONE" =>
    <<u, r.memberDecisions[u]>> \in pushed \/ r.memberDecisions[u] = r.decisionSteps[u]

JobCast(job, pushed) ==
  /\ job.stage = "prior" => CastVotes(job.votes, pushed)
  /\ job.stage \in {"repair", "save"} => Backed(job.seen, pushed) /\ Pushes(job.next, pushed)

CastInv ==
  /\ RacesInv
  /\ Backed(doc, cast)
  /\ \A p \in Procs : JobCast(running[p], cast)

LEMMA BackedPushes ==
  ASSUME NEW r, NEW pushed, Backed(r, pushed), NEW next,
         next.memberDecisions = r.memberDecisions
  PROVE  Pushes(next, pushed)
BY DEF Backed, CastVotes, Pushes

LEMMA StatusVotes ==
  ASSUME NEW r \in Document, NEW status
  PROVE  /\ [r EXCEPT !.status = status].memberDecisions = r.memberDecisions
         /\ [r EXCEPT !.status = status].decisionSteps = r.decisionSteps
BY DEF Document

LEMMA LoadedBacked ==
  ASSUME NEW stored, Good(stored), NEW pushed, Backed(stored, pushed)
  PROVE  Backed(Loaded(stored), pushed)
<1> DEFINE r == SyncMemberDecisions(stored)
<1>1. /\ r \in Document
      /\ r.decisionSteps = stored.decisionSteps
      /\ \A u \in Users : r.memberDecisions[u] =
           IF u \in stored.commissionMembers THEN stored.memberDecisions[u] ELSE "NONE"
  BY DEF SyncMemberDecisions, Good, Document, Decision
<1>2. Loaded(stored) = [r EXCEPT !.status = ReconciledStatus(r)]
  BY DEF Loaded
<1> HIDE DEF r
<1>3. /\ Loaded(stored).memberDecisions = r.memberDecisions
      /\ Loaded(stored).decisionSteps = r.decisionSteps
  BY <1>1, <1>2, StatusVotes
<1> QED
  BY <1>1, <1>3 DEF Backed, CastVotes

LEMMA VotePushes ==
  ASSUME NEW r, Good(r), NEW pushed, Backed(r, pushed), NEW member \in Users,
         NEW decision \in Decision
  PROVE  Pushes(SubmitDecision(r, member, decision), pushed)
<1> DEFINE voted == [r EXCEPT !.memberDecisions[member] = decision,
                              !.decisionSteps[member] = decision]
<1>1. /\ voted \in Document
      /\ \A u \in Users :
           /\ voted.memberDecisions[u] = IF u = member THEN decision ELSE r.memberDecisions[u]
           /\ voted.decisionSteps[u] = IF u = member THEN decision ELSE r.decisionSteps[u]
  BY DEF Good, Document, Decision
<1>2. SubmitDecision(r, member, decision) = [voted EXCEPT !.status = RecomputeStatus(voted)]
  BY DEF SubmitDecision
<1> HIDE DEF voted
<1>3. /\ SubmitDecision(r, member, decision).memberDecisions = voted.memberDecisions
      /\ SubmitDecision(r, member, decision).decisionSteps = voted.decisionSteps
  BY <1>1, <1>2, StatusVotes
<1> QED
  BY <1>1, <1>3 DEF Pushes, Backed, CastVotes

\* Whatever the applicant writes leaves the votes or takes some of them back.
LEMMA RewrittenPushes ==
  ASSUME NEW r, Good(r), NEW pushed, Backed(r, pushed),
         NEW prior \in [Users -> Decision], CastVotes(prior, pushed),
         NEW selected \in SUBSET Users,
         NEW members \in SUBSET Users, NEW boss \in Users, NEW content \in Contents
  PROVE  /\ Pushes(Update(r, prior, members, boss, content), pushed)
         /\ Pushes(ResubmitToBoss(r, members, boss, content), pushed)
         /\ Pushes(ResubmitToCommission(r, selected, members, boss, content), pushed)
<1> DEFINE w == Rewritten(r, members, boss, content)
           kept == [u \in Users |->
                      IF u \in members /\ prior[u] = "APPROVED" THEN "APPROVED" ELSE "NONE"]
           again(u) == \/ u \notin members
                       \/ r.memberDecisions[u] = "PARTIAL"
                       \/ r.memberDecisions[u] = "REJECTED" /\ u \in selected
           votes == [u \in Users |-> IF again(u) THEN "NONE" ELSE r.memberDecisions[u]]
           asked == [w EXCEPT !.memberDecisions = votes]
<1>1. w \in Document /\ w.memberDecisions = r.memberDecisions
  BY DEF Rewritten, Good, Document, Decision, ItemState
<1>2. kept \in [Users -> Decision] /\ votes \in [Users -> Decision]
  BY DEF Good, Document, Decision
<1>3. CastVotes(kept, pushed) /\ CastVotes(votes, pushed)
  BY DEF CastVotes, Backed
<1>4. Update(r, prior, members, boss, content).memberDecisions = kept
  BY <1>1 DEF Update, Document
<1>5. ResubmitToBoss(r, members, boss, content).memberDecisions = r.memberDecisions
  BY <1>1, StatusVotes DEF ResubmitToBoss
<1>6. ResubmitToCommission(r, selected, members, boss, content).memberDecisions = votes
  <2>1. asked \in Document /\ asked.memberDecisions = votes
    BY <1>1, <1>2 DEF Document
  <2>2. ResubmitToCommission(r, selected, members, boss, content)
          = [asked EXCEPT !.status = RecomputeStatus(asked)]
    BY <1>1 DEF ResubmitToCommission, Document
  <2> HIDE DEF asked, votes
  <2> QED
    BY <2>1, <2>2, StatusVotes
<1> HIDE DEF kept, votes
<1> QED
  BY <1>3, <1>4, <1>5, <1>6 DEF Pushes, CastVotes, Backed

\* The boss and the buyers do not touch the votes.
LEMMA OthersPush ==
  ASSUME NEW r, Good(r), NEW pushed, Backed(r, pushed), NEW lines \in SUBSET Lines
  PROVE  /\ \A decision \in Decision : Pushes(ConfirmBossDecision(r, decision), pushed)
         /\ \A batch \in Batches : Pushes(CompletePurchase(r, lines, batch), pushed)
         /\ Pushes(MarkItemsUnavailable(r, lines), pushed)
         /\ Pushes(RejectPurchase(r), pushed)
<1>1. \A decision : ConfirmBossDecision(r, decision).memberDecisions = r.memberDecisions
  BY DEF ConfirmBossDecision, Good, Document
<1>2. \A state :
        /\ Resolved(r, lines, state).memberDecisions = r.memberDecisions
        /\ DOMAIN Resolved(r, lines, state) = DOMAIN r
  BY DEF Resolved, Good, Document
<1>3. \A batch : CompletePurchase(r, lines, batch).memberDecisions = r.memberDecisions
  BY <1>2 DEF CompletePurchase, Good, Document
<1>4. RejectPurchase(r).memberDecisions = r.memberDecisions
  BY StatusVotes DEF RejectPurchase, Good
<1> QED
  BY <1>1, <1>2, <1>3, <1>4, BackedPushes DEF MarkItemsUnavailable

LEMMA MorePushed ==
  ASSUME NEW pushed, NEW more, pushed \subseteq more
  PROVE  /\ \A r : Backed(r, pushed) => Backed(r, more)
         /\ \A r : Pushes(r, pushed) => Pushes(r, more)
         /\ \A job : JobCast(job, pushed) => JobCast(job, more)
BY DEF Backed, CastVotes, Pushes, JobCast

LEMMA OvertakenCast ==
  ASSUME NEW job, NEW stored, JobOK(job, stored), NEW pushed, JobCast(job, pushed)
  PROVE  JobCast(Overtaken(job), pushed)
<1> DEFINE left == [job EXCEPT !.next = Loaded(job.seen), !.versioned = FALSE]
<1>1. CASE job.stage = "repair" /\ ~job.slots /\ job.versioned
  <2>1. /\ Good(job.seen) /\ Backed(job.seen, pushed)
        /\ job \in [stage : {"repair", "save"}, seen : Document, next : Document,
                    slots : BOOLEAN, versioned : BOOLEAN, removes : BOOLEAN]
    BY <1>1 DEF JobOK, JobCast, Job
  <2>2. Pushes(Loaded(job.seen), pushed)
    BY <2>1, LoadedBacked, BackedPushes
  <2>3. left.stage = "repair" /\ left.seen = job.seen /\ left.next = Loaded(job.seen)
    BY <1>1, <2>1
  <2>4. Overtaken(job) = left
    BY <1>1 DEF Overtaken
  <2> HIDE DEF left
  <2> QED
    BY <2>1, <2>2, <2>3, <2>4 DEF JobCast
<1>2. CASE ~(job.stage = "repair" /\ ~job.slots /\ job.versioned)
  BY <1>2 DEF Overtaken, JobCast, Idle
<1> QED
  BY <1>1, <1>2

\* A step of p that only adds to what was pushed.
LEMMA StepCast ==
  ASSUME CastInv, RacesInv', NEW p \in Procs, NEW job, JobCast(job, cast'),
         cast \subseteq cast', Backed(doc', cast'),
         MovesVersion(p, job) \/ KeepsVersion(p, job)
  PROVE  CastInv'
<1>1. \A q \in Procs : JobCast(running[q], cast')
  BY MorePushed DEF CastInv
<1>2. \A q \in Procs : JobCast(Overtaken(running[q]), cast')
  BY <1>1, OvertakenCast DEF CastInv, RacesInv
<1>3. \A q \in Procs : \/ running'[q] = job
                       \/ running'[q] = running[q]
                       \/ running'[q] = Overtaken(running[q])
  BY DEF MovesVersion, KeepsVersion, CastInv, RacesInv
<1>4. \A q \in Procs : JobCast(running'[q], cast')
  BY <1>1, <1>2, <1>3
<1> QED
  BY <1>4 DEF CastInv

LEMMA BeginCast ==
  ASSUME CastInv, RacesInv', NEW p \in Procs, NEW next, Pushes(next, cast),
         NEW versioned, NEW removes,
         Load(p, next, versioned, removes), UNCHANGED <<doc, cast>>
  PROVE  CastInv'
<1>1. PICK slots \in SlotsRewritten(doc) :
        running' = [running EXCEPT ![p] = Job0(next, slots, versioned, removes)]
  BY DEF Load
<1> DEFINE job == Job0(next, slots, versioned, removes)
<1>2. \/ job.stage = "delete"
      \/ job.stage \in {"repair", "save"} /\ job.seen = doc /\ job.next = next
  BY DEF Job0
<1> HIDE DEF job
<1>3. JobCast(job, cast)
  BY <1>2 DEF JobCast, CastInv
<1>4. KeepsVersion(p, job)
  BY <1>1 DEF KeepsVersion, job
<1> QED
  BY <1>3, <1>4, StepCast DEF CastInv

LEMMA ContinueCast ==
  ASSUME CastInv, RacesInv', NEW p \in Procs, Continue(p)
  PROVE  CastInv'
<1> DEFINE job == running[p]
<1>0. Good(doc) /\ Backed(doc, cast) /\ JobCast(job, cast) /\ JobOK(job, doc) /\ JobCast(Idle, cast)
  BY DEF CastInv, RacesInv, JobCast, Idle
<1>1. CASE Repair(p)
  <2> DEFINE copy == Loaded(job.seen)
             rest == IF job.removes THEN [stage |-> "delete"]
                     ELSE IF job.next = copy THEN Idle
                     ELSE [job EXCEPT !.stage = "save", !.seen = copy, !.slots = FALSE]
  <2>1. /\ job.stage = "repair" /\ Good(job.seen) /\ Backed(job.seen, cast)
        /\ Pushes(job.next, cast) /\ UNCHANGED cast
        /\ job \in [stage : {"repair", "save"}, seen : Document, next : Document,
                    slots : BOOLEAN, versioned : BOOLEAN, removes : BOOLEAN]
    BY <1>0, <1>1 DEF Repair, JobOK, JobCast, Job
  <2>2. Good(copy) /\ Backed(copy, cast)
    BY <2>1, LoadedBacked, LoadedGood
  <2>3. CASE deleted
    BY <1>0, <1>1, <2>1, <2>3, StepCast DEF Repair
  <2>4. CASE ~deleted
    <3>1. /\ doc' = Saved(job.seen, copy)
          /\ MovesVersion(p, rest) \/ KeepsVersion(p, rest)
      BY <1>1, <2>4 DEF Repair
    <3>2. Backed(doc', cast)
      <4>1. /\ doc'.memberDecisions \in {copy.memberDecisions, doc.memberDecisions}
            /\ doc'.decisionSteps \in {copy.decisionSteps, doc.decisionSteps}
        BY <1>0, <2>2, <3>1 DEF Saved, Good, Document
      <4> HIDE DEF copy
      <4> QED
        BY <1>0, <2>2, <4>1 DEF Backed
    <3>3. \/ rest.stage \in {"idle", "delete"}
          \/ rest.stage = "save" /\ rest.seen = copy /\ rest.next = job.next
      <4> HIDE DEF job, copy
      <4> QED
        BY <2>1 DEF rest, Idle
    <3> HIDE DEF rest, copy, job
    <3>4. JobCast(rest, cast)
      BY <2>1, <2>2, <3>3 DEF JobCast
    <3> QED
      BY <2>1, <3>1, <3>2, <3>4, StepCast
  <2> QED
    BY <2>3, <2>4
<1>2. CASE Save(p)
  <2> DEFINE voters == {u \in Users : job.next.decisionSteps[u] # job.seen.decisionSteps[u]}
             pushed == {<<u, job.next.decisionSteps[u]>> : u \in voters}
  <2>1. /\ Backed(job.seen, cast) /\ Pushes(job.next, cast)
        /\ job.next \in Document /\ job.seen \in Document
    BY <1>0, <1>2 DEF Save, JobOK, JobCast, Good
  <2>2. CASE deleted
    BY <1>0, <1>2, <2>2, StepCast DEF Save
  <2>3. CASE ~deleted
    <3>1. /\ doc' = Saved(job.seen, job.next) /\ cast' = cast \cup pushed
          /\ \E left \in {[stage |-> "attach"], Idle} : MovesVersion(p, left)
      BY <1>2, <2>3 DEF Save
    <3>2. CastVotes(job.next.decisionSteps, cast')
      BY <2>1, <3>1 DEF Backed, CastVotes
    <3>3. CastVotes(job.next.memberDecisions, cast')
      BY <2>1, <3>1, <3>2 DEF Pushes, CastVotes
    <3>4. Backed(doc, cast')
      BY <1>0, <3>1, MorePushed
    <3>5. /\ doc'.memberDecisions \in {job.next.memberDecisions, doc.memberDecisions}
          /\ doc'.decisionSteps \in {job.next.decisionSteps, doc.decisionSteps}
      BY <1>0, <2>1, <3>1 DEF Saved, Good, Document
    <3>6. Backed(doc', cast')
      BY <3>2, <3>3, <3>4, <3>5 DEF Backed
    <3>7. \A left \in {[stage |-> "attach"], Idle} : JobCast(left, cast')
      BY DEF JobCast, Idle
    <3> QED
      BY <3>1, <3>6, <3>7, StepCast
  <2> QED
    BY <2>2, <2>3
<1>3. CASE AttachDocuments(p)
  BY <1>0, <1>3, StepCast DEF AttachDocuments
<1>4. CASE Delete(p)
  <2>1. KeepsVersion(p, Idle) /\ UNCHANGED <<doc, cast>>
    BY <1>4 DEF Delete, KeepsVersion
  <2> QED
    BY <1>0, <2>1, StepCast
<1> QED
  BY <1>1, <1>2, <1>3, <1>4 DEF Continue

LEMMA HandlersCast ==
  ASSUME CastInv, RacesInv', NEW p \in Procs,
         Read(p) \/ Approve(p) \/ Apply(p) \/ Purchase(p)
  PROVE  CastInv'
<1> DEFINE r == Loaded(doc)
<1>0. Good(doc) /\ Backed(doc, cast) /\ Good(r) /\ Backed(r, cast)
  BY LoadedGood, LoadedBacked DEF CastInv, RacesInv
<1>1. ASSUME NEW next, Pushes(next, cast), NEW versioned, NEW removes,
             Begin(p, next, versioned, removes)
      PROVE  CastInv'
  BY <1>1, BeginCast DEF Begin
<1> HIDE DEF r
<1>2. Pushes(r, cast)
  BY <1>0, BackedPushes
<1>3. CASE Read(p)
  BY <1>1, <1>2, <1>3 DEF Read, r
<1>4. CASE Approve(p)
  <2>1. ASSUME NEW member \in Users, NEW decision \in Votes, Vote(p, member, decision)
        PROVE  CastInv'
    <3>1. decision \in Decision
      BY VotesAssumption DEF Decision
    <3>2. Pushes(SubmitDecision(r, member, decision), cast)
      BY <1>0, <3>1, VotePushes
    <3> QED
      BY <1>1, <2>1, <3>2 DEF Vote, r
  <2>2. ASSUME NEW decision \in {"APPROVED", "REJECTED"}, BossDecides(p, decision)
        PROVE  CastInv'
    <3>1. Pushes(ConfirmBossDecision(r, decision), cast)
      <4>1. decision \in Decision /\ {} \in SUBSET Lines
        BY DEF Decision
      <4> QED
        BY <1>0, <4>1, OthersPush
    <3> QED
      BY <1>1, <2>2, <3>1 DEF BossDecides, r
  <2> QED
    BY <1>4, <2>1, <2>2 DEF Approve
<1>5. CASE Apply(p)
  <2>1. CASE BeginEdit(p)
    <3> DEFINE job == [stage |-> "prior", votes |-> doc.memberDecisions]
    <3>1. JobCast(job, cast)
      BY <1>0 DEF JobCast, Backed
    <3>2. KeepsVersion(p, job) /\ UNCHANGED <<doc, cast>>
      BY <2>1 DEF BeginEdit, KeepsVersion
    <3> HIDE DEF job
    <3> QED
      BY <1>0, <3>1, <3>2, StepCast
  <2>2. CASE EditRefused(p)
    <3>1. KeepsVersion(p, Idle) /\ UNCHANGED <<doc, cast>> /\ JobCast(Idle, cast)
      BY <2>2 DEF EditRefused, KeepsVersion, JobCast, Idle
    <3> QED
      BY <1>0, <3>1, StepCast
  <2>3. CASE Remove(p)
    BY <1>1, <1>2, <2>3 DEF Remove, r
  <2>4. ASSUME NEW members \in SUBSET Users, NEW boss \in Users, NEW content \in Contents,
               EditOrResubmit(p, members, boss, content)
        PROVE  CastInv'
    <3>1. ASSUME NEW isViewerAdmin \in BOOLEAN, Edit(p, isViewerAdmin, members, boss, content)
          PROVE  CastInv'
      <4>1. running[p].votes \in [Users -> Decision] /\ CastVotes(running[p].votes, cast)
        BY <3>1 DEF Edit, CastInv, RacesInv, JobOK, JobCast, Job
      <4>2. {} \in SUBSET Users
        OBVIOUS
      <4>3. Pushes(Update(r, running[p].votes, members, boss, content), cast)
        BY <1>0, <4>1, <4>2, RewrittenPushes
      <4> QED
        BY <3>1, <4>3, BeginCast DEF Edit, r
    <3>2. ASSUME NEW selected \in SUBSET Users,
                 ResubmitBoss(p, members, boss, content)
                   \/ ResubmitCommission(p, selected, members, boss, content)
          PROVE  CastInv'
      <4>1. r.memberDecisions \in [Users -> Decision] /\ CastVotes(r.memberDecisions, cast)
        BY <1>0 DEF Good, Document, Backed
      <4>2. /\ Pushes(ResubmitToBoss(r, members, boss, content), cast)
            /\ Pushes(ResubmitToCommission(r, selected, members, boss, content), cast)
        BY <1>0, <4>1, RewrittenPushes
      <4> QED
        BY <1>1, <3>2, <4>2 DEF ResubmitBoss, ResubmitCommission, r
    <3> QED
      BY <2>4, <3>1, <3>2 DEF EditOrResubmit
  <2> QED
    BY <1>5, <2>1, <2>2, <2>3, <2>4 DEF Apply
<1>6. CASE Purchase(p)
  <2>1. ASSUME NEW lines \in SUBSET Lines, NEW batch \in Batches, Buy(p, lines, batch)
        PROVE  CastInv'
    <3>1. Pushes(CompletePurchase(r, lines, batch), cast)
      BY <1>0, OthersPush
    <3> QED
      BY <1>1, <2>1, <3>1 DEF Buy, r
  <2>2. ASSUME NEW lines \in SUBSET Lines, GiveUp(p, lines)
        PROVE  CastInv'
    <3>1. Pushes(MarkItemsUnavailable(r, lines), cast)
      BY <1>0, OthersPush
    <3> QED
      BY <1>1, <2>2, <3>1 DEF GiveUp, r
  <2>3. CASE PurchaseRejected(p)
    <3>1. Pushes(RejectPurchase(r), cast)
      <4>1. {} \in SUBSET Lines
        OBVIOUS
      <4> QED
        BY <1>0, <4>1, OthersPush
    <3> QED
      BY <1>1, <2>3, <3>1 DEF PurchaseRejected, r
  <2> QED
    BY <1>6, <2>1, <2>2, <2>3 DEF Purchase
<1> QED
  BY <1>3, <1>4, <1>5, <1>6

LEMMA CastInit == Init => CastInv
<1> SUFFICES ASSUME Init PROVE CastInv
  OBVIOUS
<1>1. Backed(doc, cast)
  BY DEF Init, Submitted, Backed, CastVotes
<1>2. \A p \in Procs : JobCast(running[p], cast)
  BY DEF Init, JobCast, Idle
<1> QED
  BY <1>1, <1>2, RacesInit DEF CastInv

LEMMA CastNext ==
  ASSUME CastInv, [Next]_vars
  PROVE  CastInv'
<1>1. RacesInv'
  BY RacesNext DEF CastInv
<1>2. CASE UNCHANGED vars
  BY <1>1, <1>2 DEF vars, CastInv
<1> QED
  BY <1>1, <1>2, HandlersCast, ContinueCast DEF Next

\* A vote in the document was cast by that person: no stale copy of another
\* handler makes somebody agree or refuse, for any number of handlers.
THEOREM VotesCast == Spec => []VotesWereCast
<1>1. CastInv => VotesWereCast
  BY DEF CastInv, Backed, CastVotes, VotesWereCast
<1> QED
  BY <1>1, CastInit, CastNext, PTL DEF Spec

----------------------------------------------------------------------------
(* The outcome of a line is final *)

\* Settled lines stay as they are, or the whole request starts over.
Settles(r, next) ==
  \/ \A l \in Lines : ~IsPending(r.items[l]) => next.items[l] = r.items[l]
  \/ PendingLines(next) = Lines /\ next.bossDecision = "NONE"

JobSettles(job) == job.stage \in {"repair", "save"} => Settles(job.seen, job.next)

FinalInv == RacesInv /\ \A p \in Procs : JobSettles(running[p])

LEMMA SameItems ==
  ASSUME NEW r, NEW same, same.items = r.items
  PROVE  /\ Settles(r, same)
         /\ \A next : Settles(r, next) => Settles(same, next)
BY DEF Settles

LEMMA LoadedItems ==
  ASSUME NEW stored, Good(stored)
  PROVE  Loaded(stored).items = stored.items
BY DEF Loaded, SyncMemberDecisions, Good, Document

LEMMA HandlersSettle ==
  ASSUME NEW r, Good(r), NEW lines \in SUBSET Lines
  PROVE  /\ \A member, decision : Settles(r, SubmitDecision(r, member, decision))
         /\ \A decision : Settles(r, ConfirmBossDecision(r, decision))
         /\ Settles(r, RejectPurchase(r))
         /\ lines \subseteq PendingLines(r) =>
              /\ \A batch : Settles(r, CompletePurchase(r, lines, batch))
              /\ Settles(r, MarkItemsUnavailable(r, lines))
<1>1. /\ \A member, decision : SubmitDecision(r, member, decision).items = r.items
      /\ \A decision : ConfirmBossDecision(r, decision).items = r.items
      /\ RejectPurchase(r).items = r.items
  BY DEF SubmitDecision, ConfirmBossDecision, RejectPurchase, Good, Document
<1>2. \A state : \A l \in Lines :
        l \notin lines => Resolved(r, lines, state).items[l] = r.items[l]
  BY DEF Resolved, Good, Document
<1>3. \A batch : CompletePurchase(r, lines, batch).items = Resolved(r, lines, batch).items
  BY DEF CompletePurchase, Resolved, Good, Document
<1>4. ASSUME lines \subseteq PendingLines(r)
      PROVE  /\ \A batch : Settles(r, CompletePurchase(r, lines, batch))
             /\ Settles(r, MarkItemsUnavailable(r, lines))
  <2>1. \A l \in Lines : ~IsPending(r.items[l]) => l \notin lines
    BY <1>4 DEF PendingLines
  <2>2. ASSUME NEW state
        PROVE  Settles(r, Resolved(r, lines, state))
    <3>1. \A l \in Lines : ~IsPending(r.items[l]) =>
            Resolved(r, lines, state).items[l] = r.items[l]
      BY <1>2, <2>1
    <3> QED
      BY <3>1 DEF Settles
  <2>3. \A batch : Settles(r, CompletePurchase(r, lines, batch))
    BY <1>2, <1>3, <2>1 DEF Settles
  <2> QED
    BY <2>2, <2>3 DEF MarkItemsUnavailable
<1>5. \A next : next.items = r.items => Settles(r, next)
  BY SameItems
<1> QED
  BY <1>1, <1>4, <1>5

\* Whatever the applicant writes starts every line over.
LEMMA RewrittenSettles ==
  ASSUME NEW r, Good(r), NEW prior, NEW selected,
         NEW members \in SUBSET Users, NEW boss \in Users, NEW content \in Contents
  PROVE  /\ Settles(r, Update(r, prior, members, boss, content))
         /\ Settles(r, ResubmitToBoss(r, members, boss, content))
         /\ Settles(r, ResubmitToCommission(r, selected, members, boss, content))
<1> DEFINE w == Rewritten(r, members, boss, content)
           StartsOver(next) ==
             next.items = [l \in Lines |-> "PENDING"] /\ next.bossDecision = "NONE"
<1>1. StartsOver(w) /\ DOMAIN w = DOMAIN r
  BY DEF Rewritten, Good, Document
<1>2. \A next : StartsOver(next) => Settles(r, next)
  BY DEF Settles, PendingLines, IsPending
<1>3. \A votes, status :
        /\ StartsOver([w EXCEPT !.memberDecisions = votes, !.status = status])
        /\ StartsOver([w EXCEPT !.status = status])
        /\ StartsOver([[w EXCEPT !.memberDecisions = votes] EXCEPT !.status = status])
  BY <1>1
<1> HIDE DEF StartsOver
<1> QED
  BY <1>2, <1>3 DEF Update, ResubmitToBoss, ResubmitToCommission

LEMMA OvertakenSettles ==
  ASSUME NEW job, NEW stored, JobOK(job, stored), JobSettles(job)
  PROVE  JobSettles(Overtaken(job))
<1> DEFINE left == [job EXCEPT !.next = Loaded(job.seen), !.versioned = FALSE]
<1>1. CASE job.stage = "repair" /\ ~job.slots /\ job.versioned
  <2>1. /\ Good(job.seen)
        /\ job \in [stage : {"repair", "save"}, seen : Document, next : Document,
                    slots : BOOLEAN, versioned : BOOLEAN, removes : BOOLEAN]
    BY <1>1 DEF JobOK, Job
  <2>2. Settles(job.seen, Loaded(job.seen))
    BY <2>1, LoadedItems, SameItems
  <2>3. left.seen = job.seen /\ left.next = Loaded(job.seen)
    BY <2>1
  <2>4. Overtaken(job) = left
    BY <1>1 DEF Overtaken
  <2> HIDE DEF left
  <2> QED
    BY <2>2, <2>3, <2>4 DEF JobSettles
<1>2. CASE ~(job.stage = "repair" /\ ~job.slots /\ job.versioned)
  BY <1>2 DEF Overtaken, JobSettles, Idle
<1> QED
  BY <1>1, <1>2

LEMMA StepSettles ==
  ASSUME FinalInv, RacesInv', NEW p \in Procs, NEW job, JobSettles(job),
         MovesVersion(p, job) \/ KeepsVersion(p, job)
  PROVE  FinalInv'
<1>1. \A q \in Procs : JobSettles(Overtaken(running[q]))
  BY OvertakenSettles DEF FinalInv, RacesInv
<1>2. \A q \in Procs : \/ running'[q] = job
                       \/ running'[q] = running[q]
                       \/ running'[q] = Overtaken(running[q])
  BY DEF MovesVersion, KeepsVersion, FinalInv, RacesInv
<1> QED
  BY <1>1, <1>2 DEF FinalInv, JobSettles

LEMMA BeginSettles ==
  ASSUME FinalInv, RacesInv', NEW p \in Procs, NEW next, Settles(Loaded(doc), next),
         NEW versioned, NEW removes, Load(p, next, versioned, removes)
  PROVE  FinalInv'
<1>1. PICK slots \in SlotsRewritten(doc) :
        running' = [running EXCEPT ![p] = Job0(next, slots, versioned, removes)]
  BY DEF Load
<1> DEFINE job == Job0(next, slots, versioned, removes)
<1>2. \/ job.stage = "delete"
      \/ job.seen = doc /\ job.next = next
  BY DEF Job0
<1> HIDE DEF job
<1>3. Settles(doc, next)
  <2>1. doc.items = Loaded(doc).items
    BY LoadedItems DEF FinalInv, RacesInv
  <2> QED
    BY <2>1, SameItems
<1>4. JobSettles(job)
  BY <1>2, <1>3 DEF JobSettles
<1>5. KeepsVersion(p, job)
  BY <1>1 DEF KeepsVersion, job
<1> QED
  BY <1>4, <1>5, StepSettles

LEMMA ContinueSettles ==
  ASSUME FinalInv, RacesInv', NEW p \in Procs, Continue(p)
  PROVE  /\ FinalInv'
         /\ Settles(doc, doc')
<1> DEFINE job == running[p]
<1>0. Good(doc) /\ JobSettles(job) /\ JobOK(job, doc) /\ JobSettles(Idle) /\ Settles(doc, doc)
  BY SameItems DEF FinalInv, RacesInv, JobSettles, Idle
<1>1. CASE Repair(p)
  <2> DEFINE copy == Loaded(job.seen)
             rest == IF job.removes THEN [stage |-> "delete"]
                     ELSE IF job.next = copy THEN Idle
                     ELSE [job EXCEPT !.stage = "save", !.seen = copy, !.slots = FALSE]
  <2>1. /\ Good(job.seen) /\ Settles(job.seen, job.next)
        /\ job \in [stage : {"repair", "save"}, seen : Document, next : Document,
                    slots : BOOLEAN, versioned : BOOLEAN, removes : BOOLEAN]
    BY <1>0, <1>1 DEF Repair, JobOK, JobSettles, Job
  <2>2. Good(copy) /\ copy.items = job.seen.items
    BY <2>1, LoadedGood, LoadedItems
  <2>3. CASE deleted
    BY <1>0, <1>1, <2>3, StepSettles DEF Repair
  <2>4. CASE ~deleted
    <3>1. /\ doc' = Saved(job.seen, copy)
          /\ MovesVersion(p, rest) \/ KeepsVersion(p, rest)
      BY <1>1, <2>4 DEF Repair
    <3>2. Settles(doc, doc')
      <4>1. doc'.items = doc.items
        BY <1>0, <2>2, <3>1 DEF Saved, Good, Document
      <4> QED
        BY <4>1, SameItems
    <3>3. \/ rest.stage \in {"idle", "delete"}
          \/ rest.seen = copy /\ rest.next = job.next
      <4> HIDE DEF job, copy
      <4> QED
        BY <2>1 DEF rest, Idle
    <3> HIDE DEF rest, copy, job
    <3>4. Settles(copy, job.next)
      BY <2>1, <2>2, SameItems
    <3>5. JobSettles(rest)
      BY <3>3, <3>4 DEF JobSettles
    <3> QED
      BY <3>1, <3>2, <3>5, StepSettles
  <2> QED
    BY <2>3, <2>4
<1>2. CASE Save(p)
  <2>1. /\ Settles(job.seen, job.next) /\ SaveOK(job, doc)
        /\ job.next \in Document /\ job.seen \in Document
    BY <1>0, <1>2 DEF Save, JobOK, JobSettles, Good
  <2>2. CASE deleted
    BY <1>0, <1>2, <2>2, StepSettles DEF Save
  <2>3. CASE ~deleted
    <3>1. /\ doc' = Saved(job.seen, job.next)
          /\ \E left \in {[stage |-> "attach"], Idle} : MovesVersion(p, left)
      BY <1>2, <2>3 DEF Save
    <3>2. \A left \in {[stage |-> "attach"], Idle} : JobSettles(left)
      BY DEF JobSettles, Idle
    <3>3. CASE job.versioned
      <4>1. /\ doc'.items = job.next.items /\ doc'.bossDecision = job.next.bossDecision
            /\ doc.items = job.seen.items
        BY <1>0, <2>1, <3>1, <3>3, SavedType DEF SaveOK, Core, Good
      <4> QED
        BY <2>1, <3>1, <3>2, <4>1, StepSettles DEF Settles, PendingLines
    <3>4. CASE ~job.versioned
      <4>1. doc'.items = doc.items
        BY <1>0, <2>1, <3>1, <3>4, SavedType DEF SaveOK, Core, Good
      <4> QED
        BY <3>1, <3>2, <4>1, SameItems, StepSettles
    <3> QED
      BY <3>3, <3>4
  <2> QED
    BY <2>2, <2>3
<1>3. CASE AttachDocuments(p)
  BY <1>0, <1>3, StepSettles DEF AttachDocuments
<1>4. CASE Delete(p)
  <2>1. KeepsVersion(p, Idle) /\ UNCHANGED doc
    BY <1>4 DEF Delete, KeepsVersion
  <2> QED
    BY <1>0, <2>1, StepSettles
<1> QED
  BY <1>1, <1>2, <1>3, <1>4 DEF Continue

LEMMA BeginningsSettle ==
  ASSUME FinalInv, RacesInv', NEW p \in Procs,
         Read(p) \/ Approve(p) \/ Apply(p) \/ Purchase(p)
  PROVE  /\ FinalInv'
         /\ UNCHANGED doc
<1> DEFINE r == Loaded(doc)
<1>0. Good(r)
  BY LoadedGood DEF FinalInv, RacesInv
<1>1. ASSUME NEW next, Settles(r, next), NEW versioned, NEW removes,
             Begin(p, next, versioned, removes)
      PROVE  FinalInv' /\ UNCHANGED doc
  BY <1>1, BeginSettles DEF Begin
<1> HIDE DEF r
<1>2. Settles(r, r)
  BY SameItems
<1>3. CASE Read(p)
  BY <1>1, <1>2, <1>3 DEF Read, r
<1>4. CASE Approve(p)
  <2>1. {} \in SUBSET Lines
    OBVIOUS
  <2>2. /\ \A member, decision : Settles(r, SubmitDecision(r, member, decision))
        /\ \A decision : Settles(r, ConfirmBossDecision(r, decision))
    BY <1>0, <2>1, HandlersSettle
  <2> QED
    BY <1>1, <1>4, <2>2 DEF Approve, Vote, BossDecides, r
<1>5. CASE Apply(p)
  <2>1. CASE BeginEdit(p)
    <3> DEFINE job == [stage |-> "prior", votes |-> doc.memberDecisions]
    <3>1. JobSettles(job) /\ KeepsVersion(p, job) /\ UNCHANGED doc
      BY <2>1 DEF BeginEdit, KeepsVersion, JobSettles
    <3> HIDE DEF job
    <3> QED
      BY <3>1, StepSettles
  <2>2. CASE EditRefused(p)
    <3>1. KeepsVersion(p, Idle) /\ UNCHANGED doc /\ JobSettles(Idle)
      BY <2>2 DEF EditRefused, KeepsVersion, JobSettles, Idle
    <3> QED
      BY <3>1, StepSettles
  <2>3. CASE Remove(p)
    BY <1>1, <1>2, <2>3 DEF Remove, r
  <2>4. ASSUME NEW members \in SUBSET Users, NEW boss \in Users, NEW content \in Contents,
               EditOrResubmit(p, members, boss, content)
        PROVE  FinalInv' /\ UNCHANGED doc
    <3>1. \A prior, selected :
            /\ Settles(r, Update(r, prior, members, boss, content))
            /\ Settles(r, ResubmitToBoss(r, members, boss, content))
            /\ Settles(r, ResubmitToCommission(r, selected, members, boss, content))
      BY <1>0, RewrittenSettles
    <3>2. ASSUME NEW isViewerAdmin \in BOOLEAN, Edit(p, isViewerAdmin, members, boss, content)
          PROVE  FinalInv' /\ UNCHANGED doc
      BY <3>1, <3>2, BeginSettles DEF Edit, r
    <3>3. CASE ResubmitBoss(p, members, boss, content)
      BY <1>1, <3>1, <3>3 DEF ResubmitBoss, r
    <3>4. ASSUME NEW selected \in SUBSET Users,
                 ResubmitCommission(p, selected, members, boss, content)
          PROVE  FinalInv' /\ UNCHANGED doc
      BY <1>1, <3>1, <3>4 DEF ResubmitCommission, r
    <3> QED
      BY <2>4, <3>2, <3>3, <3>4 DEF EditOrResubmit
  <2> QED
    BY <1>5, <2>1, <2>2, <2>3, <2>4 DEF Apply
<1>6. CASE Purchase(p)
  <2>1. ASSUME NEW lines \in SUBSET Lines, NEW batch \in Batches,
               Buy(p, lines, batch)
        PROVE  FinalInv' /\ UNCHANGED doc
    <3>1. lines \subseteq PendingLines(r)
      BY <2>1 DEF Buy, CanResolveItems, r
    <3>2. Settles(r, CompletePurchase(r, lines, batch))
      BY <1>0, <3>1, HandlersSettle
    <3> QED
      BY <1>1, <2>1, <3>2 DEF Buy, r
  <2>2. ASSUME NEW lines \in SUBSET Lines, GiveUp(p, lines)
        PROVE  FinalInv' /\ UNCHANGED doc
    <3>1. lines \subseteq PendingLines(r)
      BY <2>2 DEF GiveUp, CanResolveItems, r
    <3>2. Settles(r, MarkItemsUnavailable(r, lines))
      BY <1>0, <3>1, HandlersSettle
    <3> QED
      BY <1>1, <2>2, <3>2 DEF GiveUp, r
  <2>3. CASE PurchaseRejected(p)
    <3>1. {} \in SUBSET Lines
      OBVIOUS
    <3>2. Settles(r, RejectPurchase(r))
      BY <1>0, <3>1, HandlersSettle
    <3> QED
      BY <1>1, <2>3, <3>2 DEF PurchaseRejected, r
  <2> QED
    BY <1>6, <2>1, <2>2, <2>3 DEF Purchase
<1> QED
  BY <1>3, <1>4, <1>5, <1>6

LEMMA FinalInit == Init => FinalInv
<1> SUFFICES ASSUME Init PROVE FinalInv
  OBVIOUS
<1>1. \A p \in Procs : JobSettles(running[p])
  BY DEF Init, JobSettles, Idle
<1> QED
  BY <1>1, RacesInit DEF FinalInv

LEMMA FinalNext ==
  ASSUME FinalInv, [Next]_vars
  PROVE  FinalInv' /\ Settles(doc, doc')
<1>1. RacesInv'
  BY RacesNext DEF FinalInv
<1>2. UNCHANGED doc => Settles(doc, doc')
  BY SameItems
<1>3. CASE UNCHANGED vars
  BY <1>1, <1>2, <1>3 DEF vars, FinalInv
<1> QED
  BY <1>1, <1>2, <1>3, BeginningsSettle, ContinueSettles DEF Next

\* Two buyers never buy the same line and no stale copy reopens a settled one,
\* for any number of handlers that overlap (completePurchase and
\* markItemsUnavailable save the list of items, under the version).
THEOREM OutcomeSurvivesRaces == Spec => LineOutcomeIsFinal
<1>1. FinalInv /\ [Next]_vars =>
        [(\E l \in Lines : ~IsPending(doc.items[l]) /\ doc'.items[l] # doc.items[l]) =>
           PendingLines(doc') = Lines /\ doc'.bossDecision = "NONE"]_vars
  BY FinalNext DEF Settles
<1> QED
  BY <1>1, FinalInit, FinalNext, PTL DEF Spec, LineOutcomeIsFinal

============================================================================
