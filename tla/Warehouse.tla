------------------------------ MODULE Warehouse ------------------------------
(***************************************************************************)
(* The handlers of the stock of one warehouse, and what the program says   *)
(* of it: transfers, stocktakes, expenses, the history and the charts, and *)
(* the pages of dispatches.  What they do to each other's rows is part of  *)
(* each ("move" of Stocktake, the bounds on stock), so that a behaviour is *)
(* a behaviour of one of them, which "part" names, while the others are    *)
(* switched off.                                                           *)
(***************************************************************************)
EXTENDS Integers, FiniteSets

CONSTANTS
  Procs,         \* handlers in flight at a time
  Structures, Located, Goods, TransferIds, TakeIds, Places,
  Amount,        \* of every good that is transferred, and of a dispatch
  MaxStock,      \* bounds what a row, a count or a chart can hold
  MaxRows, MaxCode, MaxDay, Reasons, NoStructure,
  Mishaps        \* "crash", and those of the parts

VARIABLES
  part,          \* the component that moves
  transferStock, transfers, senders, sendersOrderly,
  countedStock, takes, counters, countersOrderly,
  issuedStock, lastCode, expenses, assets, issuers, issuersOrderly,
  stock, inbound, outbound, expense, imported, stocktake, today, closing,
  counted, deletedInUse, belated,
  user, dispatch

Transfer == INSTANCE StockTransfer
  WITH MaxStock <- 2 * Amount,
       Mishaps <- Mishaps \cap {"crash", "date", "refusal", "repeat"},
       stock <- transferStock, running <- senders, orderly <- sendersOrderly

Count == INSTANCE Stocktake
  WITH Mishaps <- Mishaps \cap {"move", "crash"},
       stock <- countedStock, running <- counters, orderly <- countersOrderly

\* One row at each place, with one piece.
Issue == INSTANCE WarehouseExpense
  WITH Rows <- Places, LocationOf <- [l \in Places |-> l], Amount <- 1,
       Mishaps <- Mishaps \cap {"crash"},
       stock <- issuedStock, running <- issuers, orderly <- issuersOrderly

History == INSTANCE StockHistory

Inbox == INSTANCE DispatchInbox WITH Structure <- Located

ASSUME WarehouseAssumption ==
  /\ Transfer!TransferAssumption
  /\ Count!StocktakeAssumption
  /\ Issue!ExpenseAssumption
  /\ History!HistoryBoundsAssumption
  /\ Inbox!NoStructureAssumption
  /\ Inbox!AmountAssumption

transferVars == <<transferStock, transfers, senders, sendersOrderly>>
countVars == <<countedStock, takes, counters, countersOrderly>>
issueVars ==
  <<issuedStock, lastCode, expenses, assets, issuers, issuersOrderly>>
historyVars ==
  <<stock, inbound, outbound, expense, imported, stocktake, today, closing,
    counted, deletedInUse, belated>>
inboxVars == <<user, dispatch>>

vars == <<part, transferVars, countVars, issueVars, historyVars, inboxVars>>

-----------------------------------------------------------------------------
Off == "off"

TransferOff ==
  /\ transferStock = Off /\ transfers = Off /\ senders = Off
  /\ sendersOrderly = Off
CountOff ==
  /\ countedStock = Off /\ takes = Off /\ counters = Off
  /\ countersOrderly = Off
IssueOff ==
  /\ issuedStock = Off /\ lastCode = Off /\ expenses = Off
  /\ assets = Off /\ issuers = Off /\ issuersOrderly = Off
HistoryOff ==
  /\ stock = Off /\ inbound = Off /\ outbound = Off /\ expense = Off
  /\ imported = Off /\ stocktake = Off /\ today = Off /\ closing = Off
  /\ counted = Off /\ deletedInUse = Off /\ belated = Off
InboxOff == user = Off /\ dispatch = Off

Init ==
  /\ part \in {"transfer", "stocktake", "expense", "history", "inbox"}
  /\ IF part = "transfer" THEN Transfer!Init ELSE TransferOff
  /\ IF part = "stocktake" THEN Count!Init ELSE CountOff
  /\ IF part = "expense" THEN Issue!Init ELSE IssueOff
  /\ IF part = "history" THEN History!Init ELSE HistoryOff
  /\ IF part = "inbox" THEN Inbox!Init ELSE InboxOff

Next ==
  /\ UNCHANGED part
  /\ IF part = "transfer" THEN Transfer!Next ELSE UNCHANGED transferVars
  /\ IF part = "stocktake" THEN Count!Next ELSE UNCHANGED countVars
  /\ IF part = "expense" THEN Issue!Next ELSE UNCHANGED issueVars
  /\ IF part = "history" THEN History!Next ELSE UNCHANGED historyVars
  /\ IF part = "inbox" THEN Inbox!Next ELSE UNCHANGED inboxVars

Spec == Init /\ [][Next]_vars

-----------------------------------------------------------------------------
(* The properties of the parts, explained where each part states them.     *)

\* What the parts store keeps its type; in particular no row of the stock is
\* ever negative, however many transfers, expenses and counts of the last piece
\* overlap (the $gte of a bulkWrite, the $set of a count).
TypeOK ==
  /\ part = "transfer" => Transfer!TypeOK
  /\ part = "stocktake" => Count!TypeOK
  /\ part = "expense" => Issue!TypeOK
  /\ part = "inbox" => Inbox!TypeOK

\* StockTransfer: every piece is in stock, under way or with its receiver.
Conserved == part = "transfer" => Transfer!Conserved

\* StockTransfer: no receipt is undone and none counts twice.
ReceiptsAreKept == [][part = "transfer" => Transfer!KeepsReceipts]_vars

\* Stocktake: the corrections recorded reached the stock.
RecordedIsApplied == part = "stocktake" => Count!RecordedIsApplied

\* WarehouseExpense: what left the stock is in use, written off, or back.
NothingLost == part = "expense" => Issue!NothingLost

\* WarehouseExpense: an asset that was returned or written off stays so.
AssetEndIsFinal ==
  [][part = "expense" /\ issuersOrderly' => Issue!KeepsAssetEnd]_vars

\* StockHistory: the events of a good add up to its stock.
HistoryAddsUp == part = "history" => History!HistoryAddsUp

\* StockHistory: the charts show the stock of the end of each day.
ChartsShowTheStock == part = "history" => History!ChartsShowTheStock

\* DispatchInbox: the pages offer what the handlers accept.
InboxIsTrue == part = "inbox" => Inbox!InboxIsTrue

=============================================================================
