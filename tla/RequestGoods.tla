----------------------------- MODULE RequestGoods -----------------------------
(***************************************************************************)
(* The goods of one approved purchase request, piece by piece: lines are   *)
(* bought or given up, in full or in part, batches are sent to a           *)
(* warehouse, received there or refused, and the request follows the       *)
(* dispatches.                                                             *)
(*                                                                         *)
(* PurchaseRequest has the same handlers without quantities.  Here a line  *)
(* that is bought in part is split in two where it stands in the array,    *)
(* and the sync of the request runs in its own steps after the dispatch    *)
(* was saved: it loads the request, then the dispatches, then saves.       *)
(* Purchases and receipts are atomic; RequestRaces and StockTransfer show  *)
(* what happens when those overlap.                                        *)
(***************************************************************************)
EXTENDS Integers, FiniteSets, Functions, SequencesExt

CONSTANTS Goods,        \* what the request asks for
          Requested,    \* Requested[g]: the quantity asked for
          Batches,      \* identifiers of purchase batches
          Handlers,     \* requests of the web server in progress
          MaxDispatches \* bound: dispatches of the request

Pending == "PENDING"
Unavailable == "UNAVAILABLE"
NoBatch == "NO_BATCH"   \* a dispatch created without purchaseBatchId
Legacy == "LEGACY"      \* the literal batch id 'legacy'
Tags == Batches \cup {NoBatch, Legacy}

ASSUME GoodsAssumption ==
  /\ IsFiniteSet(Goods)
  /\ Requested \in [Goods -> Nat \ {0}]
  /\ {Pending, Unavailable, NoBatch, Legacy} \cap Batches = {}

VARIABLES items,        \* request.items, in order
          status,       \* request.status
          dispatches,   \* the warehouse_dispatches of the request, in order
          sync,         \* what each handler does after its dispatch was saved
          overlapped,   \* something else was saved during a sync
          stopped,      \* a handler stopped before its sync was done
          settledLate   \* the last line was given up after goods were sent

troubles == <<overlapped, stopped, settledLate>>
vars == <<items, status, dispatches, sync, troubles>>

Item ==
  [of : Goods, quantity : Nat \ {0}, state : {Pending, Unavailable} \cup Batches]

\* A dispatch copies what it carries; settled: received or refused.
DispatchLine == [of : Goods, sent : Nat, settled : Nat]

\* Its lines are known by the index the item had (itemIndex).
IsDispatch(d) ==
  /\ d = [tag |-> d.tag, lines |-> d.lines]
  /\ d.tag \in Tags
  /\ IsFiniteSet(DOMAIN d.lines)
  /\ d.lines \in [DOMAIN d.lines -> DispatchLine]

Status == {"PURCHASING", "PURCHASED", "WAREHOUSE_IN_TRANSIT", "WAREHOUSE_COMPLETED"}

\* A sync in progress: the status and the lines of its copy of the request,
\* and, once it read the dispatches, the status it is going to save.
SyncState ==
  [step : {"idle", "load", "read", "save"}, seen : Status, waiting : BOOLEAN,
   bought : SUBSET Batches]

Idle == [step |-> "idle", seen |-> "PURCHASING", waiting |-> FALSE, bought |-> {}]

TypeOK ==
  /\ items \in Seq(Item)
  /\ status \in Status
  /\ dispatches \in Seq(Range(dispatches))
  /\ \A d \in Range(dispatches) : IsDispatch(d)
  /\ sync \in [Handlers -> SyncState]
  /\ {overlapped, stopped, settledLate} \subseteq BOOLEAN

Init ==
  /\ items = SetToSeq({[of |-> g, quantity |-> Requested[g], state |-> Pending] : g \in Goods})
  /\ status = "PURCHASING"
  /\ dispatches = <<>>
  /\ sync = [h \in Handlers |-> Idle]
  /\ overlapped = FALSE /\ stopped = FALSE /\ settledLate = FALSE

----------------------------------------------------------------------------
(* Reading the request *)

PendingItems == {i \in DOMAIN items : items[i].state = Pending}
PurchasedItems == {i \in DOMAIN items : items[i].state \in Batches}
BoughtBatches == {items[i].state : i \in PurchasedItems}

AllItemsResolved == PendingItems = {}

CanPurchasePendingItems ==
  PendingItems # {} /\ status \in {"PURCHASING", "PURCHASED"}

QuantityOf(lines) == SumFunctionOnSet([i \in DOMAIN items |-> items[i].quantity], lines)

\* The quantities the purchase statistics show, here of one of the goods.
Statistics(g) ==
  LET lines == {i \in DOMAIN items : items[i].of = g}
  IN  [total |-> QuantityOf(lines),
       purchased |-> QuantityOf(lines \cap PurchasedItems),
       unavailable |-> QuantityOf({i \in lines : items[i].state = Unavailable}),
       waiting |-> QuantityOf(lines \cap PendingItems)]

----------------------------------------------------------------------------
(* The end of a line: bought, or given up *)

\* quantity pieces of an item.
Part(item, quantity, state) == [of |-> item.of, quantity |-> quantity, state |-> state]

\* A bug the runs must find: what was not taken of a line is forgotten.
SettledLineWhole(item, quantity, state) == <<Part(item, quantity, state)>>

\* The line as it was settled, and right after it a new line for the rest.
SettledLine(item, quantity, state) ==
  IF quantity < item.quantity
    THEN <<Part(item, quantity, state), Part(item, item.quantity - quantity, item.state)>>
    ELSE <<Part(item, quantity, state)>>

\* rows: how much of each chosen line.
Settled(rows, state) ==
  FlattenSeq([i \in DOMAIN items |->
                IF i \in DOMAIN rows THEN SettledLine(items[i], rows[i], state)
                                     ELSE <<items[i]>>])

Rows ==
  UNION {{rows \in [chosen -> UNION {1 .. items[i].quantity : i \in chosen}] :
            \A i \in chosen : rows[i] <= items[i].quantity} :
         chosen \in (SUBSET PendingItems) \ {{}}}

SyncRunning == \E h \in Handlers : sync[h].step # "idle"

CompletePurchase(b, rows) ==
  /\ CanPurchasePendingItems
  /\ b \notin BoughtBatches
  /\ items' = Settled(rows, b)
  /\ status' = IF AllItemsResolved' THEN "PURCHASED" ELSE "PURCHASING"
  /\ overlapped' = (overlapped \/ SyncRunning)
  /\ UNCHANGED <<dispatches, sync, stopped, settledLate>>

MarkItemsUnavailable(rows) ==
  /\ CanPurchasePendingItems
  /\ items' = Settled(rows, Unavailable)
  /\ status' = IF AllItemsResolved' THEN "PURCHASED" ELSE "PURCHASING"
  /\ overlapped' = (overlapped \/ SyncRunning)
  /\ settledLate' = (settledLate \/ (AllItemsResolved' /\ dispatches # <<>>))
  /\ UNCHANGED <<dispatches, sync, stopped>>

----------------------------------------------------------------------------
(* Dispatches *)

\* resolveBatchItemIndexes
BatchItemIndexes(tag) ==
  IF tag \in Batches THEN {i \in PurchasedItems : items[i].state = tag}
                     ELSE PurchasedItems

Sent(item) == [of |-> item.of, sent |-> item.quantity, settled |-> 0]

Create(h, tag) ==
  LET indexes == BatchItemIndexes(tag)
  IN  /\ sync[h].step = "idle"
      /\ status # "WAREHOUSE_COMPLETED"
      /\ indexes # {}
      /\ Len(dispatches) < MaxDispatches
      /\ \A d \in Range(dispatches) : d.tag # tag
      /\ dispatches' =
           Append(dispatches,
                  [tag |-> tag, lines |-> [i \in indexes |-> Sent(items[i])]])
      /\ sync' = [sync EXCEPT ![h].step = "load"]
      /\ overlapped' = (overlapped \/ SyncRunning)
      /\ UNCHANGED <<items, status, stopped, settledLate>>

Open(line) == line.sent - line.settled

\* A receipt takes or refuses part of what is open: counts[k] of line k.
Counts(d) ==
  {counts \in [DOMAIN d.lines -> UNION {0 .. Open(d.lines[k]) : k \in DOMAIN d.lines}] :
     \A k \in DOMAIN d.lines : counts[k] <= Open(d.lines[k])}

\* recomputeDispatchStatus
IsCompleted(d) == \A k \in DOMAIN d.lines : Open(d.lines[k]) = 0

Received(d, counts) ==
  [tag |-> d.tag,
   lines |-> [k \in DOMAIN d.lines |-> [d.lines[k] EXCEPT !.settled = @ + counts[k]]]]

Receive(h, n, counts) ==
  LET settled == Received(dispatches[n], counts)
  IN  /\ sync[h].step = "idle"
      /\ ~IsCompleted(dispatches[n])
      /\ dispatches' = [dispatches EXCEPT ![n] = settled]
      /\ sync' = IF IsCompleted(settled) THEN [sync EXCEPT ![h].step = "load"] ELSE sync
      /\ overlapped' = (overlapped \/ SyncRunning)
      /\ UNCHANGED <<items, status, stopped, settledLate>>

----------------------------------------------------------------------------
(* syncPurchaseRequestWarehouseStatus, after either of them *)

SyncLoad(h) ==
  /\ sync[h].step = "load"
  /\ sync' = [sync EXCEPT ![h] =
                [step |-> "read", seen |-> status, waiting |-> ~AllItemsResolved,
                 bought |-> BoughtBatches]]
  /\ UNCHANGED <<items, status, dispatches, troubles>>

\* A bug the runs must find: one completed dispatch completes the request.
AllDispatchesCompletedAny == \E d \in Range(dispatches) : IsCompleted(d)

AllDispatchesCompleted == \A d \in Range(dispatches) : IsCompleted(d)

\* A bug the runs must find: a dispatch that names no batch counts as one.
AllDispatchedExactly(bought) == bought = {d.tag : d \in Range(dispatches)}

AllDispatched(bought) == bought \subseteq {d.tag : d \in Range(dispatches)}

\* The status that the copy and the dispatches lead to.
WarehouseStatus(copy) ==
  CASE copy.waiting -> "PURCHASING"
    [] ~copy.waiting /\ copy.bought # {} /\ AllDispatched(copy.bought) ->
         IF AllDispatchesCompleted THEN "WAREHOUSE_COMPLETED" ELSE "WAREHOUSE_IN_TRANSIT"
    [] OTHER -> copy.seen

Saving(next) == [step |-> "save", seen |-> next, waiting |-> FALSE, bought |-> {}]

SyncRead(h) ==
  LET next == WarehouseStatus(sync[h])
  IN  /\ sync[h].step = "read"
      /\ sync' = [sync EXCEPT ![h] = IF next = sync[h].seen THEN Idle ELSE Saving(next)]
      /\ UNCHANGED <<items, status, dispatches, troubles>>

\* Only the status is written: nothing tells that it changed since.
SyncSave(h) ==
  /\ sync[h].step = "save"
  /\ status' = sync[h].seen
  /\ sync' = [sync EXCEPT ![h] = Idle]
  /\ UNCHANGED <<items, dispatches, troubles>>

\* The server stops: what was saved is saved, the sync is not resumed.
Stop(h) ==
  /\ ~stopped
  /\ sync[h].step # "idle"
  /\ sync' = [sync EXCEPT ![h] = Idle]
  /\ stopped' = TRUE
  /\ UNCHANGED <<items, status, dispatches, overlapped, settledLate>>

----------------------------------------------------------------------------

Buy ==
  \/ \E b \in Batches, rows \in Rows : CompletePurchase(b, rows)
  \/ \E rows \in Rows : MarkItemsUnavailable(rows)

Ship(h) ==
  \/ \E tag \in Tags : Create(h, tag)
  \/ \E n \in DOMAIN dispatches :
       \E counts \in Counts(dispatches[n]) : Receive(h, n, counts)

Sync(h) == SyncLoad(h) \/ SyncRead(h) \/ SyncSave(h)

Next == Buy \/ \E h \in Handlers : Ship(h) \/ Sync(h) \/ Stop(h)

\* A handler that was not stopped goes on after each await.
Fairness == \A h \in Handlers : WF_vars(Sync(h))

Spec == Init /\ [][Next]_vars /\ Fairness

----------------------------------------------------------------------------
(* Properties *)

SentIn(d, g) ==
  SumFunction([k \in DOMAIN d.lines |-> IF d.lines[k].of = g THEN d.lines[k].sent ELSE 0])

SentOf(g) == SumFunction([n \in DOMAIN dispatches |-> SentIn(dispatches[n], g)])

\* Splitting lines neither makes nor loses goods: what is bought, given up and
\* still waiting adds up to what was asked for.  And goods are not sent twice,
\* as long as every dispatch names its batch (others carry all that is bought).
GoodsAreAccountedFor ==
  \A g \in Goods :
    LET quantities == Statistics(g)
    IN  /\ quantities.total = Requested[g]
        /\ quantities.purchased + quantities.unavailable + quantities.waiting
             = quantities.total
        /\ (\A d \in Range(dispatches) : d.tag \in Batches) =>
             SentOf(g) <= quantities.purchased

\* The piece went off under its own batch, and was received or refused.
IsDelivered(item) ==
  \E d \in Range(dispatches) :
    /\ d.tag = item.state /\ IsCompleted(d)
    /\ \E k \in DOMAIN d.lines : d.lines[k].of = item.of /\ d.lines[k].sent = item.quantity

BoughtIsDelivered == AllItemsResolved /\ \A i \in PurchasedItems : IsDelivered(items[i])

\* A request shown as received in the warehouse has every piece that was
\* bought received or refused there, under a dispatch of its own batch.
CompletedIsDelivered == status = "WAREHOUSE_COMPLETED" => BoughtIsDelivered

\* Once everything bought was sent and settled, the request gets its last
\* status: unless syncs overlapped (the slower one may write what it read
\* before), one of them was cut short, or the last line was given up after
\* goods had left (no dispatch follows, so nobody syncs).
DeliveryIsNoticed ==
  (BoughtIsDelivered /\ PurchasedItems # {} /\ \A d \in Range(dispatches) : IsCompleted(d))
    ~> \/ status = "WAREHOUSE_COMPLETED"
       \/ overlapped \/ stopped \/ settledLate

==============================================================================
