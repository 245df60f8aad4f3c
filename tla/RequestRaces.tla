---------------------------- MODULE RequestRaces ----------------------------
(***************************************************************************)
(* The handlers of PurchaseRequestsService, several at a time on one       *)
(* request.  A handler is not atomic: it loads the document, waits (for    *)
(* user snapshots, permissions, files), and saves what it changed in its   *)
(* copy.  Between the two, other handlers save.                            *)
(*                                                                         *)
(* There is no lock and no transaction.  What protects the document is a   *)
(* default of Mongoose: save() sends the fields that differ from what was  *)
(* loaded; a save that sets a whole array also requires the version (__v)  *)
(* it loaded, and fails otherwise; setting or pushing to an array          *)
(* increments the version.  A save of plain fields does neither.  Most     *)
(* handlers set an array (votes, lines, approvalParticipantUserIds), a few *)
(* do not, and remove does not save at all.                                *)
(*                                                                         *)
(* The version itself is not kept.  A save that checks it fails once        *)
(* another handler has moved it, and then its handler ends with an error   *)
(* and no effect; so a handler whose save is bound to fail is dropped at   *)
(* the moment it is overtaken (Overtaken).                                 *)
(*                                                                         *)
(* Dispatches are not modelled here: remove finds none.                    *)
(***************************************************************************)
EXTENDS RequestDocument

CONSTANTS Procs,     \* handlers in flight at a time
          Votes,     \* the decisions members take
          Handlers   \* the handlers that overlap with votes and the boss

ASSUME VotesAssumption == Votes \subseteq {"APPROVED", "PARTIAL", "REJECTED"}

VARIABLES doc,         \* the stored document
          deleted,     \* it has been removed
          cast,        \* every <<user, decision>> pushed to the history
          running      \* what each handler in flight holds

vars == <<doc, deleted, cast, running>>

Idle == [stage |-> "idle"]

\* What a handler in flight holds.  An edit that has read the votes it will keep
\* has not loaded the document yet; one that has loaded "seen" will leave "next".
Job ==
  [stage : {"prior"}, votes : [Users -> Decision]]
  \cup
  [ stage     : {"repair", "save"},
    seen      : Document,
    next      : Document,
    slots     : BOOLEAN,      \* the load counts as setting memberDecisions
    versioned : BOOLEAN,      \* the last save sets an array
    removes   : BOOLEAN ]
  \cup
  [stage : {"idle", "delete", "attach"}]

TypeOK ==
  /\ doc \in Document
  /\ deleted \in BOOLEAN
  /\ cast \subseteq Users \X Decision
  /\ \A p \in Procs : running[p] \in Job

Init ==
  /\ \E members \in SUBSET Users, boss \in Users, content \in Contents :
       /\ ValidPanel(members, boss)
       /\ doc = Submitted(members, boss, content)
  /\ deleted = FALSE
  /\ cast = {}
  /\ running = [p \in Procs |-> Idle]

----------------------------------------------------------------------------
(* Loading and saving *)

\* A load rebuilds the slots of memberDecisions.  Mongoose counts the array as
\* set when that changed a slot, and possibly when it did not: whether a rebuilt
\* slot compares equal depends on which optional fields were stored.
SlotsRewritten(stored) ==
  IF Loaded(stored).memberDecisions # stored.memberDecisions THEN {TRUE} ELSE BOOLEAN

\* A handler after its load: the status needs a repair, or it can go on.
Job0(next, slots, versioned, removes) ==
  IF Loaded(doc).status # doc.status
    THEN [ stage |-> "repair", seen |-> doc, next |-> next, slots |-> slots,
           versioned |-> versioned, removes |-> removes ]
  ELSE IF removes
    THEN [stage |-> "delete"]
    ELSE [ stage |-> "save", seen |-> doc, next |-> next, slots |-> FALSE,
           versioned |-> versioned \/ slots, removes |-> FALSE ]

Load(p, next, versioned, removes) ==
  \E slots \in SlotsRewritten(doc) :
    running' = [running EXCEPT ![p] = Job0(next, slots, versioned, removes)]

Begin(p, next, versioned, removes) ==
  /\ ~deleted
  /\ running[p] = Idle
  /\ Load(p, next, versioned, removes)
  /\ UNCHANGED <<doc, deleted, cast>>

\* What is left of a handler when the version moves under it.  A repair that
\* sets the status alone still goes through; the save after it does not.
Overtaken(job) ==
  IF \/ job.stage = "attach"
     \/ job.stage = "save" /\ job.versioned
     \/ job.stage = "repair" /\ job.slots
  THEN Idle
  ELSE IF job.stage = "repair" /\ job.versioned
  THEN [job EXCEPT !.next = Loaded(job.seen), !.versioned = FALSE]
  ELSE job

\* p goes on as job, after a save that moved the version.
MovesVersion(p, job) ==
  running' = [q \in Procs |-> IF q = p THEN job ELSE Overtaken(running[q])]

KeepsVersion(p, job) == running' = [running EXCEPT ![p] = job]

\* save() sets the fields that differ from what was loaded.
Saved(seen, next) ==
  [f \in DOMAIN doc |-> IF next[f] # seen[f] THEN next[f] ELSE doc[f]]

\* The save inside reconcileCommissionStatus and reconcileBossApprovedStatus.
Repair(p) ==
  LET job == running[p]
      copy == Loaded(job.seen)
      rest == IF job.removes THEN [stage |-> "delete"]
              ELSE IF job.next = copy THEN Idle
              ELSE [job EXCEPT !.stage = "save", !.seen = copy, !.slots = FALSE]
  IN  /\ job.stage = "repair"
      /\ IF deleted THEN KeepsVersion(p, Idle) /\ UNCHANGED doc
         ELSE /\ doc' = Saved(job.seen, copy)
              /\ IF job.slots THEN MovesVersion(p, rest) ELSE KeepsVersion(p, rest)
      /\ UNCHANGED <<deleted, cast>>

\* The last save of a handler; each of them pushes to the history.
Save(p) ==
  LET job == running[p]
      approves == job.next.bossDecision = "APPROVED" /\ job.seen.bossDecision = "NONE"
      voters == {u \in Users : job.next.decisionSteps[u] # job.seen.decisionSteps[u]}
  IN  /\ job.stage = "save"
      /\ IF deleted THEN KeepsVersion(p, Idle) /\ UNCHANGED <<doc, cast>>
         ELSE /\ doc' = Saved(job.seen, job.next)
              /\ cast' = cast \cup {<<u, job.next.decisionSteps[u]>> : u \in voters}
              /\ MovesVersion(p, IF approves THEN [stage |-> "attach"] ELSE Idle)
      /\ UNCHANGED deleted

\* confirmBossDecision saves once more, with the documents as PDF.  When that or
\* the conversion fails it is only logged.
AttachDocuments(p) ==
  /\ running[p].stage = "attach"
  /\ \/ ~deleted /\ MovesVersion(p, Idle)
     \/ KeepsVersion(p, Idle)
  /\ UNCHANGED <<doc, deleted, cast>>

\* remove: after the checks the files go, then the document, whatever it is now.
Delete(p) ==
  /\ running[p].stage = "delete"
  /\ deleted' = TRUE
  /\ running' = [running EXCEPT ![p] = Idle]
  /\ UNCHANGED <<doc, cast>>

----------------------------------------------------------------------------
(* Handlers *)

\* Any request that only reads, or that is refused: it may still repair.
Read(p) ==
  /\ Loaded(doc).status # doc.status
  /\ Begin(p, Loaded(doc), FALSE, FALSE)

Vote(p, member, decision) ==
  /\ CanSubmitDecision(Loaded(doc), member)
  /\ Begin(p, SubmitDecision(Loaded(doc), member, decision), TRUE, FALSE)

\* A bug the runs must find: without syncApprovalParticipantUserIds the save
\* sets no array.
BossDecidesUnversioned(p, decision) ==
  /\ CanConfirmBossDecision(Loaded(doc))
  /\ Begin(p, ConfirmBossDecision(Loaded(doc), decision), FALSE, FALSE)

BossDecides(p, decision) ==
  /\ CanConfirmBossDecision(Loaded(doc))
  /\ Begin(p, ConfirmBossDecision(Loaded(doc), decision), TRUE, FALSE)

\* update reads the votes first, and the document afterwards.
BeginEdit(p) ==
  /\ ~deleted
  /\ running[p] = Idle
  /\ running' = [running EXCEPT ![p] =
                   [stage |-> "prior", votes |-> doc.memberDecisions]]
  /\ UNCHANGED <<doc, deleted, cast>>

Edit(p, isViewerAdmin, members, boss, content) ==
  /\ running[p].stage = "prior"
  /\ ~deleted
  /\ CanUpdate(Loaded(doc), isViewerAdmin, members, boss)
  /\ Load(p, Update(Loaded(doc), running[p].votes, members, boss, content), TRUE, FALSE)
  /\ UNCHANGED <<doc, deleted, cast>>

\* ... or is refused: nothing is changed but what a Read would.
EditRefused(p) ==
  /\ running[p].stage = "prior"
  /\ running' = [running EXCEPT ![p] = Idle]
  /\ UNCHANGED <<doc, deleted, cast>>

ResubmitBoss(p, members, boss, content) ==
  /\ CanResubmitToBoss(Loaded(doc), members, boss)
  /\ Begin(p, ResubmitToBoss(Loaded(doc), members, boss, content), TRUE, FALSE)

ResubmitCommission(p, selected, members, boss, content) ==
  /\ CanResubmitToCommission(Loaded(doc), selected, members, boss)
  /\ Begin(p, ResubmitToCommission(Loaded(doc), selected, members, boss, content),
           TRUE, FALSE)

Remove(p) ==
  /\ CanDeleteRequest(Loaded(doc))
  /\ Begin(p, Loaded(doc), FALSE, TRUE)

\* A bug the runs must find: lines are marked one by one, not as an array.
BuyUnversioned(p, lines, batch) ==
  /\ AssertPurchasingView(doc)
  /\ CanResolveItems(Loaded(doc), lines)
  /\ batch \in Batches \ Loaded(doc).purchaseBatches
  /\ Begin(p, CompletePurchase(Loaded(doc), lines, batch), FALSE, FALSE)

Buy(p, lines, batch) ==
  /\ AssertPurchasingView(doc)
  /\ CanResolveItems(Loaded(doc), lines)
  /\ batch \in Batches \ Loaded(doc).purchaseBatches
  /\ Begin(p, CompletePurchase(Loaded(doc), lines, batch), TRUE, FALSE)

GiveUp(p, lines) ==
  /\ AssertPurchasingView(doc)
  /\ CanResolveItems(Loaded(doc), lines)
  /\ Begin(p, MarkItemsUnavailable(Loaded(doc), lines), TRUE, FALSE)

\* The only handler that changes the status and sets no array.
PurchaseRejected(p) ==
  /\ AssertPurchasingView(doc)
  /\ CanRejectPurchase(Loaded(doc))
  /\ Begin(p, RejectPurchase(Loaded(doc)), FALSE, FALSE)

Approve(p) ==
  \/ \E member \in Users, decision \in Votes : Vote(p, member, decision)
  \/ \E decision \in {"APPROVED", "REJECTED"} : BossDecides(p, decision)

EditOrResubmit(p, members, boss, content) ==
  \/ \E isViewerAdmin \in BOOLEAN : Edit(p, isViewerAdmin, members, boss, content)
  \/ "resubmit" \in Handlers /\ ResubmitBoss(p, members, boss, content)
  \/ \E selected \in SUBSET Users :
       /\ "resubmit" \in Handlers
       /\ ResubmitCommission(p, selected, members, boss, content)

Apply(p) ==
  \/ "edit" \in Handlers /\ BeginEdit(p)
  \/ EditRefused(p)
  \/ \E members \in SUBSET Users, boss \in Users, content \in Contents :
       EditOrResubmit(p, members, boss, content)
  \/ "remove" \in Handlers /\ Remove(p)

Purchase(p) ==
  /\ "purchase" \in Handlers
  /\ \/ \E lines \in SUBSET Lines :
          \/ \E batch \in Batches : Buy(p, lines, batch)
          \/ GiveUp(p, lines)
     \/ PurchaseRejected(p)

Continue(p) == Repair(p) \/ Save(p) \/ AttachDocuments(p) \/ Delete(p)

Next ==
  \E p \in Procs :
    Read(p) \/ Approve(p) \/ Apply(p) \/ Purchase(p) \/ Continue(p)

Spec == Init /\ [][Next]_vars
----------------------------------------------------------------------------
(* Properties that overlapping handlers keep *)

\* Approval means agreement, also when votes, edits and the boss's decision
\* overlap: they all set an array, so the later save meets a moved version.
ApprovedByWholeCommission ==
  doc.bossDecision = "APPROVED" =>
    doc.commissionMembers # {} /\ AllMembersAgreed(doc)

\* A vote in the document was cast by that person: nobody is made to agree, or
\* to refuse, by somebody else's stale copy.
VotesWereCast ==
  \A u \in Users :
    doc.memberDecisions[u] # "NONE" => <<u, doc.memberDecisions[u]>> \in cast

\* Two buyers never buy the same line, and no stale copy reopens a settled one:
\* an outcome changes only when the whole request starts over.
LineOutcomeIsFinal ==
  [][(\E l \in Lines : ~IsPending(doc.items[l]) /\ doc'.items[l] # doc.items[l]) =>
       PendingLines(doc') = Lines /\ doc'.bossDecision = "NONE"]_vars

----------------------------------------------------------------------------
(* What the code's own words promise and overlapping handlers break *)

\* "Tahrirlashda faqat to'liq kelishgan (APPROVED) a'zolar qarorini saqlaydi":
\* an edit keeps the decision of members who fully agreed.
FullAgreementSurvives ==
  [][\A u \in doc.commissionMembers \cap doc'.commissionMembers :
       doc.memberDecisions[u] = "APPROVED" => doc'.memberDecisions[u] = "APPROVED"
    ]_vars

\* "Arizani faqat Kelishilmoqda holatida o'chirish mumkin": a request is deleted
\* only while its commission reviews it.
DeletedOnlyInReview ==
  [][~deleted /\ deleted' => doc.status = "COMMISSION_REVIEW"]_vars

\* "Faqat sotib olinadigan bosqichdagi arizani rad etish mumkin": a purchase is
\* rejected only while the request is being purchased.
OnlyPurchasingIsRejected ==
  [][doc.bossDecision = "APPROVED" /\ doc.status # "REJECTED" /\ doc'.status = "REJECTED" =>
       doc.status = "PURCHASING"]_vars

==============================================================================
