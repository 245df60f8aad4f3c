---------------------------- MODULE StockHistory ----------------------------
(***************************************************************************)
(* What the program says of the stock afterwards: the history of a good    *)
(* (getInventoryItemHistory) and the charts of a warehouse                 *)
(* (getStructureWarehouseAnalytics, DashboardService.getDailyMaxInventory).*)
(* Neither is stored.  Both are computed from the documents of the         *)
(* handlers that changed the stock: dispatches, expenses, fixed assets,    *)
(* imports and stocktakes, each read by a query of its own.                *)
(*                                                                         *)
(* The stock is one good at the one place of a structure.  Handlers are    *)
(* taken whole: what overlapping ones do to stock and documents is the     *)
(* matter of StockTransfer, WarehouseExpense and Stocktake.  There is one  *)
(* document of each kind that changes after it was made.                   *)
(***************************************************************************)
EXTENDS Integers, Functions

CONSTANTS
  MaxStock,      \* bound on the stock and on every quantity
  MaxDay         \* bound on the days

\* Assumed where the constants get their values (Warehouse).
HistoryBoundsAssumption == MaxStock \in Nat /\ MaxDay \in Nat \ {0}

VARIABLES
  stock,         \* warehouse_inventory.quantity
  inbound,       \* a purchase or a transfer sent here
  outbound,      \* a transfer sent from here
  expense,       \* a warehouse_expenses document and its fixed asset
  imported,      \* quantity of the warehouse_imports documents
  stocktake,     \* a stocktake whose only line is the good
  today,
  closing,       \* history: day -> stock at its end
  counted,       \* history: the stock moved between the book quantity of the
                 \* stocktake and the last write of its line
  deletedInUse,  \* history: the expense of an active fixed asset was deleted
  belated        \* history: a dispatch was received, or an expense deleted, on
                 \* a later day than that of its document

vars == <<stock, inbound, outbound, expense, imported, stocktake, today, closing,
          counted, deletedInUse, belated>>

Quantity == 0 .. MaxStock
Days == 1 .. MaxDay
None == [status |-> "NONE"]

Dispatch ==
  [status : {"PENDING_RECEIPT", "PARTIALLY_RECEIVED", "COMPLETED", "CANCELLED"},
   sent : Quantity, received : Quantity, rejected : Quantity,
   dispatchedAt : Days]

Expense ==
  [status : {"made", "deleted"}, quantity : Quantity, createdAt : Days,
   asset : {"none", "active", "returned", "discarded"}]

Stocktake ==
  [status : {"IN_PROGRESS", "COMPLETED"}, bookQuantity : Quantity,
   countedQuantity : Quantity, excessDeductQuantity : Quantity,
   shortageAddQuantity : Quantity]

TypeOK ==
  /\ stock \in Quantity
  /\ inbound \in Dispatch \cup {None}
  /\ outbound \in Dispatch \cup {None}
  /\ expense \in Expense \cup {None}
  /\ imported \in Quantity
  /\ stocktake \in Stocktake \cup {None}
  /\ today \in Days
  /\ closing \in [1 .. today - 1 -> Quantity]
  /\ {counted, deletedInUse, belated} \subseteq BOOLEAN

Init ==
  /\ stock = 0
  /\ inbound = None /\ outbound = None /\ expense = None /\ stocktake = None
  /\ imported = 0
  /\ today = 1
  /\ closing = << >>
  /\ counted = FALSE /\ deletedInUse = FALSE /\ belated = FALSE

-----------------------------------------------------------------------------
(* The handlers that change the stock *)

\* The stock changes by n, other than by the stocktake itself.
Move(n) ==
  /\ stock + n \in Quantity
  /\ stock' = stock + n
  /\ counted' = (counted \/ (n # 0 /\ stocktake # None))
  /\ UNCHANGED <<today, closing>>

Late(day) == belated' = (belated \/ day # today)

NewDispatch(n) ==
  [status |-> "PENDING_RECEIPT", sent |-> n, received |-> 0, rejected |-> 0,
   dispatchedAt |-> today]

\* recomputeDispatchStatus
Settled(d, take, refuse) ==
  LET received == d.received + take
      rejected == d.rejected + refuse
  IN  [d EXCEPT !.received = received, !.rejected = rejected,
                !.status = IF received + rejected >= d.sent THEN "COMPLETED"
                           ELSE IF received > 0 THEN "PARTIALLY_RECEIVED"
                           ELSE "PENDING_RECEIPT"]

\* Somebody sends goods here, which does not touch the stock yet.
SendHere(n) ==
  /\ inbound = None
  /\ n > 0
  /\ inbound' = NewDispatch(n)
  /\ UNCHANGED <<stock, outbound, expense, imported, stocktake, today, closing,
                 counted, deletedInUse, belated>>

\* receive, here
Receive(take, refuse) ==
  /\ inbound.status \in {"PENDING_RECEIPT", "PARTIALLY_RECEIVED"}
  /\ take + refuse > 0
  /\ take + refuse <= inbound.sent - inbound.received - inbound.rejected
  /\ inbound' = Settled(inbound, take, refuse)
  /\ Move(take)
  /\ Late(inbound.dispatchedAt)
  /\ UNCHANGED <<outbound, expense, imported, stocktake, deletedInUse>>

\* createTransfer
CreateTransfer(n) ==
  /\ outbound = None
  /\ n > 0
  /\ outbound' = NewDispatch(n)
  /\ Move(0 - n)
  /\ UNCHANGED <<inbound, expense, imported, stocktake, deletedInUse, belated>>

\* receive, at the other end: what is refused comes back at once.
ReceiveThere(take, refuse) ==
  /\ outbound.status \in {"PENDING_RECEIPT", "PARTIALLY_RECEIVED"}
  /\ take + refuse > 0
  /\ take + refuse <= outbound.sent - outbound.received - outbound.rejected
  /\ outbound' = Settled(outbound, take, refuse)
  /\ Move(refuse)
  /\ UNCHANGED <<inbound, expense, imported, stocktake, deletedInUse, belated>>

\* cancelTransfer: what is still pending comes back.
CancelTransfer ==
  /\ outbound.status = "PENDING_RECEIPT"
  /\ outbound.received = 0
  /\ outbound' = [outbound EXCEPT !.status = "CANCELLED"]
  /\ Move(outbound.sent - outbound.rejected)
  /\ UNCHANGED <<inbound, expense, imported, stocktake, deletedInUse, belated>>

\* createExpense
CreateExpense(n, asset) ==
  /\ expense = None
  /\ n > 0
  /\ expense' = [status |-> "made", quantity |-> n, createdAt |-> today,
                 asset |-> asset]
  /\ Move(0 - n)
  /\ UNCHANGED <<inbound, outbound, imported, stocktake, deletedInUse, belated>>

\* deleteExpenseByCode: the goods come back, the document goes, and the asset
\* that was active is marked as returned.
DeleteExpense ==
  /\ expense.status = "made"
  /\ expense' = [expense EXCEPT !.status = "deleted",
                   !.asset = IF @ = "active" THEN "returned" ELSE @]
  /\ Move(expense.quantity)
  /\ deletedInUse' = (deletedInUse \/ expense.asset = "active")
  /\ Late(expense.createdAt)
  /\ UNCHANGED <<inbound, outbound, imported, stocktake>>

\* returnFixedAssetToWarehouse, also when the expense is deleted
ReturnFixedAsset ==
  /\ expense # None
  /\ expense.asset = "active"
  /\ expense' = [expense EXCEPT !.asset = "returned"]
  /\ Move(expense.quantity)
  /\ UNCHANGED <<inbound, outbound, imported, stocktake, deletedInUse, belated>>

\* discardFixedAsset
DiscardFixedAsset ==
  /\ expense # None
  /\ expense.asset = "active"
  /\ expense' = [expense EXCEPT !.asset = "discarded"]
  /\ UNCHANGED <<stock, inbound, outbound, imported, stocktake, today, closing,
                 counted, deletedInUse, belated>>

\* submitActiveSession of an import
Import(n) ==
  /\ n > 0
  /\ imported + n \in Quantity
  /\ imported' = imported + n
  /\ Move(n)
  /\ UNCHANGED <<inbound, outbound, expense, stocktake, deletedInUse, belated>>

\* A stocktake lists goods that are in stock.
CreateStocktake(n) ==
  /\ stocktake = None
  /\ stock > 0
  /\ stocktake' = [status |-> "IN_PROGRESS", bookQuantity |-> stock,
                   countedQuantity |-> n, excessDeductQuantity |-> 0,
                   shortageAddQuantity |-> 0]
  /\ UNCHANGED <<stock, inbound, outbound, expense, imported, today, closing,
                 counted, deletedInUse, belated>>

\* complete: the stock becomes the count.
CompleteStocktake ==
  /\ stocktake.status = "IN_PROGRESS"
  /\ stocktake' = [stocktake EXCEPT !.status = "COMPLETED"]
  /\ stock' = stocktake.countedQuantity
  /\ UNCHANGED <<inbound, outbound, expense, imported, today, closing, counted,
                 deletedInUse, belated>>

\* applyExcessAdjustments: the stock becomes the count with what the management
\* deducts of an excess or adds for a shortage.
Adjust(n) ==
  /\ stocktake.status = "COMPLETED"
  /\ LET excess == stocktake.countedQuantity - stocktake.bookQuantity
         next == IF excess > 0
                   THEN [stocktake EXCEPT !.excessDeductQuantity = n]
                   ELSE [stocktake EXCEPT !.shortageAddQuantity = n]
     IN  /\ \/ excess > 0 /\ n <= excess
            \/ excess < 0 /\ stocktake.countedQuantity > 0 /\ n <= 0 - excess
         /\ next # stocktake
         /\ stocktake' = next
         /\ stock' = next.countedQuantity - next.excessDeductQuantity
                       + next.shortageAddQuantity
  /\ UNCHANGED <<inbound, outbound, expense, imported, today, closing, counted,
                 deletedInUse, belated>>

NextDay ==
  /\ today < MaxDay
  /\ today' = today + 1
  /\ closing' = [d \in 1 .. today |-> IF d = today THEN stock ELSE closing[d]]
  /\ UNCHANGED <<stock, inbound, outbound, expense, imported, stocktake, counted,
                 deletedInUse, belated>>

Next ==
  \/ \E n \in Quantity :
       \/ SendHere(n)
       \/ CreateTransfer(n)
       \/ \E asset \in {"none", "active"} : CreateExpense(n, asset)
       \/ Import(n)
       \/ CreateStocktake(n)
       \/ stocktake # None /\ Adjust(n)
       \/ \E refuse \in Quantity :
            \/ inbound # None /\ Receive(n, refuse)
            \/ outbound # None /\ ReceiveThere(n, refuse)
  \/ outbound # None /\ CancelTransfer
  \/ expense # None /\ DeleteExpense
  \/ ReturnFixedAsset
  \/ DiscardFixedAsset
  \/ stocktake # None /\ CompleteStocktake
  \/ NextDay

Spec == Init /\ [][Next]_vars

-----------------------------------------------------------------------------
(* The history of the good: its events, with the sign a reader gives them *)

PurchaseReceiptOrTransferIn ==
  IF inbound.status \in {"PARTIALLY_RECEIVED", "COMPLETED"}
    THEN inbound.received ELSE 0

TransferOut == IF outbound = None THEN 0 ELSE outbound.sent

\* Bug form: what was refused before is left out of the cancellation.
TransferCancelledPending ==
  IF outbound.status = "CANCELLED" THEN outbound.sent - outbound.rejected ELSE 0

\* The cancellation of a transfer tells all that was sent.
TransferCancelled == IF outbound.status = "CANCELLED" THEN outbound.sent ELSE 0

ExpenseMade == IF expense.status = "made" THEN expense.quantity ELSE 0

\* An asset stays when its expense is deleted.  That it was registered or
\* discarded is told too, and changes no stock.
FixedAssetReturn ==
  IF expense # None /\ expense.asset = "returned" THEN expense.quantity ELSE 0

StocktakeDifference ==
  IF stocktake.status = "COMPLETED"
    THEN stocktake.countedQuantity - stocktake.bookQuantity
           - stocktake.excessDeductQuantity + stocktake.shortageAddQuantity
    ELSE 0

HistoryBalance ==
  PurchaseReceiptOrTransferIn - TransferOut + TransferCancelled - ExpenseMade
    + FixedAssetReturn + imported + StocktakeDifference

-----------------------------------------------------------------------------
(* The charts *)

\* Bug form: all that was sent counts once a piece of it was received.
SentOn ==
  [d \in Days |->
     IF inbound # None /\ inbound.dispatchedAt = d /\ PurchaseReceiptOrTransferIn > 0
       THEN inbound.sent ELSE 0]

\* aggregateWarehouseMovementsByDay: a receipt counts on the day its dispatch was
\* sent, a transfer on the day it was sent whatever became of it.
ReceivedOn ==
  [d \in Days |-> IF inbound # None /\ inbound.dispatchedAt = d
                  THEN PurchaseReceiptOrTransferIn ELSE 0]

DispatchedOutOn ==
  [d \in Days |-> IF outbound # None /\ outbound.dispatchedAt = d
                  THEN outbound.sent ELSE 0]

ExpensedOn ==
  [d \in Days |-> IF expense.status = "made" /\ expense.createdAt = d
                  THEN expense.quantity ELSE 0]

OutgoingOn == [d \in Days |-> DispatchedOutOn[d] + ExpensedOn[d]]

\* getNetBalanceBefore: all that moved before the chart begins, in one sum.
NetBalanceBefore(from) ==
  SumFunctionOnSet(ReceivedOn, 1 .. from - 1)
    - SumFunctionOnSet(DispatchedOutOn, 1 .. from - 1)
    - SumFunctionOnSet(ExpensedOn, 1 .. from - 1)

\* buildWarehouseAnalyticsPoints: the balance day by day from there.
DailyPoints(from) ==
  LET running[d \in from - 1 .. today] ==
        IF d < from THEN NetBalanceBefore(from)
        ELSE running[d - 1] + ReceivedOn[d] - OutgoingOn[d]
  IN  running

\* getStructureWarehouseAnalytics: a week or a month that begins on day first of
\* a chart that begins on day from; the current one ends today.
Bucket(from, first, last) ==
  LET end == IF last > today THEN today ELSE last
  IN  [received |-> SumFunctionOnSet(ReceivedOn, first .. end),
       outgoing |-> SumFunctionOnSet(OutgoingOn, first .. end),
       balance |-> DailyPoints(from)[end]]

\* DashboardService.getDailyMaxInventory leaves the transfers out.
DailyMaxQuantity(from, d) ==
  SumFunctionOnSet(ReceivedOn, 1 .. from - 1) - SumFunctionOnSet(ExpensedOn, 1 .. from - 1)
    + SumFunctionOnSet([e \in Days |-> ReceivedOn[e] - ExpensedOn[e]], from .. d)

\* DashboardService.getMonthlyMaxInventory adds up the receipts of the chart, and
\* nothing from before it.
MonthlyMaxQuantity(from, d) == SumFunctionOnSet(ReceivedOn, from .. d)

-----------------------------------------------------------------------------
(* Properties *)

\* What no event tells: goods of a transfer that its receiver refused.
RefusedBack ==
  IF outbound # None /\ outbound.status # "CANCELLED" THEN outbound.rejected ELSE 0

\* The history of a good adds up to its stock, but for what a receiver refused,
\* as long as nothing moved while the good was being counted and no expense of an
\* active fixed asset was deleted.
HistoryAddsUp ==
  ~counted /\ ~deletedInUse => stock = HistoryBalance + RefusedBack

\* Nothing happened that the charts do not know.
OnlyReceiptsAndExpenses ==
  /\ outbound = None \/ (outbound.status # "CANCELLED" /\ outbound.rejected = 0)
  /\ expense = None \/ (expense.asset # "returned" /\ ~deletedInUse)
  /\ imported = 0
  /\ stocktake = None
  /\ ~belated

AtEnd(d) == IF d = 0 THEN 0 ELSE IF d = today THEN stock ELSE closing[d]

\* A warehouse that only receives, sends and spends has the stock of its charts
\* at the end of each day, week and month, wherever they begin, and each bar of a
\* week or month accounts for the change since the one before; so it does in the
\* daily chart of the dashboard without transfers, and in the monthly one if
\* besides nothing was spent or received before the chart.
ChartsShowTheStock ==
  OnlyReceiptsAndExpenses =>
    \A from \in 1 .. today : \A d \in from .. today :
      /\ DailyPoints(from)[d] = AtEnd(d)
      /\ \A last \in d .. MaxDay :
           LET bar == Bucket(from, d, last)
           IN  /\ bar.balance = AtEnd(IF last > today THEN today ELSE last)
               /\ AtEnd(d - 1) + bar.received - bar.outgoing = bar.balance
      /\ outbound = None => DailyMaxQuantity(from, d) = AtEnd(d)
      /\ outbound = None /\ expense = None /\ AtEnd(from - 1) = 0 =>
           MonthlyMaxQuantity(from, d) = AtEnd(d)

=============================================================================
