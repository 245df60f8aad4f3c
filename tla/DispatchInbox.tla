---------------------------- MODULE DispatchInbox ----------------------------
(***************************************************************************)
(* What the pages of dispatches show a user, against what their handlers   *)
(* let him do (warehouse-dispatches.service.ts): the inbox of purchases    *)
(* and of transfers to receive, the badge that counts unseen purchases,    *)
(* opening a dispatch, receiving it and cancelling it.  Each decides who   *)
(* may with code of its own: a query, a flag of the answer, or a check.    *)
(*                                                                         *)
(* There is one dispatch and one user, whose account changes meanwhile.    *)
(* Handlers are taken whole (see StockTransfer), quantities are those of   *)
(* one good.                                                               *)
(***************************************************************************)
EXTENDS Integers

CONSTANTS
  Structure,
  NoStructure,   \* an account without one, a purchase without a source
  Amount         \* bound: goods in the dispatch

\* Assumed where the constants get their values (Warehouse).
NoStructureAssumption == NoStructure \notin Structure
AmountAssumption == Amount \in Nat \ {0}

VARIABLES
  user,
  dispatch

vars == <<user, dispatch>>

NoDispatch == [status |-> "NONE"]

\* receiptPages: the kinds of dispatch he has the receipt page of; page2D:
\* the plan of the warehouses.
Account ==
  [superAdmin : BOOLEAN, isActive : BOOLEAN,
   structureId : Structure \cup {NoStructure},
   receiptPages : SUBSET {"purchase", "transfer"}, page2D : BOOLEAN]

\* byUser: dispatched by the user himself.
Dispatch ==
  [kind : {"purchase", "transfer"}, source : Structure \cup {NoStructure},
   target : Structure, byUser : BOOLEAN, seen : BOOLEAN,
   status : {"PENDING_RECEIPT", "PARTIALLY_RECEIVED", "COMPLETED", "CANCELLED"},
   sent : 1 .. Amount, received : 0 .. Amount, rejected : 0 .. Amount]

TypeOK ==
  /\ user \in Account
  /\ dispatch \in Dispatch \cup {NoDispatch}

Init ==
  /\ user \in Account
  /\ dispatch = NoDispatch

Open == {"PENDING_RECEIPT", "PARTIALLY_RECEIVED"}

Pending == dispatch.sent - dispatch.received - dispatch.rejected

-----------------------------------------------------------------------------
(* The checks of the handlers *)

\* isDispatchVisibleToUser
MayView ==
  \/ user.superAdmin
  \/ dispatch.kind = "transfer" /\ user.isActive /\ user.page2D
  \/ /\ user.structureId # NoStructure
     /\ \/ user.structureId \in {dispatch.target, dispatch.source}
        \/ dispatch.kind = "transfer" /\ dispatch.byUser

\* assertReceiverAsync
IsReceiver ==
  \/ user.superAdmin
  \/ /\ user.structureId = dispatch.target
     /\ user.isActive
     /\ dispatch.kind \in user.receiptPages

\* The dispatch has something to be received.
MayReceive ==
  /\ IsReceiver
  /\ dispatch.status # "CANCELLED"
  /\ ~(dispatch.status = "COMPLETED" /\ Pending <= 0)

IsSender == user.structureId = dispatch.source \/ dispatch.byUser

\* assertCanCancelTransfer
MayCancel ==
  /\ dispatch.kind = "transfer"
  /\ dispatch.status = "PENDING_RECEIPT"
  /\ dispatch.received = 0
  /\ user.superAdmin \/ (IsSender /\ user.isActive)

-----------------------------------------------------------------------------
(* The handlers *)

\* create by somebody of the purchasing, createTransfer from the structure of
\* whoever sends.
Create(kind, source, target, byUser, n) ==
  /\ dispatch = NoDispatch
  /\ (kind = "purchase") <=> (source = NoStructure)
  /\ byUser /\ kind = "transfer" => user.structureId = source
  /\ dispatch' = [kind |-> kind, source |-> source, target |-> target,
                  byUser |-> byUser, seen |-> FALSE, status |-> "PENDING_RECEIPT",
                  sent |-> n, received |-> 0, rejected |-> 0]
  /\ UNCHANGED user

\* findByIdPublic marks the dispatch as seen for somebody of its target.
FindById ==
  /\ dispatch # NoDispatch
  /\ MayView
  /\ user.structureId = dispatch.target
  /\ dispatch' = [dispatch EXCEPT !.seen = TRUE]
  /\ UNCHANGED user

\* Bug form: a dispatch of which all was refused still waits.
StatusOfRefused(d) ==
  IF d.sent - d.received <= 0 THEN "COMPLETED"
  ELSE IF d.received > 0 THEN "PARTIALLY_RECEIVED" ELSE "PENDING_RECEIPT"

\* recomputeDispatchStatus
RecomputedStatus(d) ==
  IF d.sent - d.received - d.rejected <= 0 THEN "COMPLETED"
  ELSE IF d.received > 0 THEN "PARTIALLY_RECEIVED" ELSE "PENDING_RECEIPT"

\* receive, by the user or by somebody else of the target
Receive(take, refuse) ==
  /\ dispatch.status \notin {"NONE", "CANCELLED"}
  /\ take + refuse > 0
  /\ take + refuse <= Pending
  /\ LET items == [dispatch EXCEPT !.received = @ + take, !.rejected = @ + refuse]
     IN  dispatch' = [items EXCEPT !.status = RecomputedStatus(items)]
  /\ UNCHANGED user

\* cancelTransfer, by the user or by somebody else who sent it
Cancel ==
  /\ dispatch.status = "PENDING_RECEIPT"
  /\ dispatch.kind = "transfer"
  /\ dispatch.received = 0
  /\ dispatch' = [dispatch EXCEPT !.status = "CANCELLED"]
  /\ UNCHANGED user

\* An administrator changes the account, or its owner moves.
ChangeAccount(account) ==
  /\ account.superAdmin = user.superAdmin
  /\ user' = account
  /\ UNCHANGED dispatch

Next ==
  \/ \E kind \in {"purchase", "transfer"}, source \in Structure \cup {NoStructure},
        target \in Structure, byUser \in BOOLEAN, n \in 1 .. Amount :
       Create(kind, source, target, byUser, n)
  \/ FindById
  \/ \E take, refuse \in 0 .. Amount : Receive(take, refuse)
  \/ Cancel
  \/ \E account \in Account : ChangeAccount(account)

Spec == Init /\ [][Next]_vars

-----------------------------------------------------------------------------
(* What the pages show *)

\* findReceiptInboxPaginated, of what is to be received: the page of a kind lists
\* what was sent to the user's structure.  Who has no structure and may see the
\* plan of the warehouses is shown everything.
InboxLists(source) ==
  /\ dispatch.kind = source
  /\ dispatch.status \in Open \cup {"COMPLETED"}
  /\ \/ user.superAdmin
     \/ user.structureId = dispatch.target
     \/ user.structureId = NoStructure /\ user.isActive /\ user.page2D

\* toPublic: the page offers to receive the dispatch.
CanReceive == Pending > 0 /\ dispatch.status \notin {"COMPLETED", "CANCELLED"}

\* resolveViewerCanCancelTransfer: the page offers to cancel it.
CanCancel ==
  /\ dispatch.kind = "transfer"
  /\ dispatch.status = "PENDING_RECEIPT"
  /\ dispatch.received = 0
  /\ Pending > 0
  /\ user.superAdmin \/ IsSender

\* countPendingReceipt: the badge counts the dispatch.
PendingCounts ==
  /\ dispatch.kind = "purchase"
  /\ dispatch.status \in Open
  /\ ~dispatch.seen
  /\ user.superAdmin \/ user.structureId = dispatch.target

\* findActiveUserIdsWithPageAccess, of the target's users and the super admins
HasActivePageAccess ==
  /\ user.isActive
  /\ user.superAdmin
       \/ (user.structureId = dispatch.target /\ dispatch.kind \in user.receiptPages)

\* handleTransferCreated and handleWarehouseReceiptCreated, of a new dispatch
Told == dispatch.status = "PENDING_RECEIPT" /\ HasActivePageAccess

\* getCalendarEvents of the dashboard: the arrival of the dispatch at the user's
\* structure, or from there, whatever became of it.  (resolveScope: a super admin
\* asks for all structures.)
CalendarShows ==
  user.superAdmin \/ user.structureId \in {dispatch.target, dispatch.source}

\* isDispatchArrivalOverdue, once the planned day is over.
ArrivalOverdue == dispatch.status # "COMPLETED"

-----------------------------------------------------------------------------
\* The pages offer what their handlers accept and nothing else, to an active user
\* with a structure: what his inbox lists he can open; with the page of its kind, it
\* offers to receive exactly the dispatches that can still be received by him; it
\* offers to cancel exactly what he can cancel; what the badge counts is listed and
\* waits for him; what the inbox lists is on the calendar, overdue as long as
\* something is to be received (a cancelled dispatch stays overdue for ever); and
\* who is told of a new dispatch is who finds it there and can receive it.
InboxIsTrue ==
  dispatch # NoDispatch /\ user.isActive /\ user.structureId # NoStructure =>
    /\ InboxLists(dispatch.kind) => MayView
    /\ dispatch.kind \in user.receiptPages =>
         (MayReceive <=> InboxLists(dispatch.kind) /\ CanReceive)
    /\ CanCancel <=> MayCancel
    /\ PendingCounts => InboxLists("purchase") /\ CanReceive
    /\ InboxLists(dispatch.kind) => CalendarShows /\ (ArrivalOverdue <=> CanReceive)
    /\ dispatch.status = "PENDING_RECEIPT" =>
         (Told <=> InboxLists(dispatch.kind) /\ MayReceive)

=============================================================================
