---------------------------- MODULE StockTransfer ----------------------------
(***************************************************************************)
(* Goods that move from one structure's warehouse to another's:            *)
(* createTransfer, receive and cancelTransfer of WarehouseDispatchesService*)
(* over the collections warehouse_inventory and warehouse_dispatches.      *)
(*                                                                         *)
(* Stock rows are changed by single atomic updates ($inc), the dispatch    *)
(* document is loaded at the start of a handler and saved at its end.      *)
(* There is no transaction around them: several handlers may be between    *)
(* their steps at once, and one may stop there.                            *)
(*                                                                         *)
(* A good stands for a stock row's location and barcode.  Prices and       *)
(* nomenclature codes are left out.                                        *)
(***************************************************************************)
EXTENDS Integers, FiniteSetsExt

CONSTANTS Structures, Goods,
          Located,       \* structures with an active warehouse location
          Amount,        \* of every good at every located structure at first
          TransferIds,   \* bounds the number of transfers
          MaxStock,      \* bounds a stock row: receipts that count twice never end
          Procs,         \* handlers in flight at a time
          Mishaps        \* what else may happen: see the assumption

\* Assumed where the constants get their values (Warehouse).
TransferAssumption ==
  /\ Located \subseteq Structures
  /\ Amount \in Nat /\ MaxStock \in Nat
  /\ IsFiniteSet(Structures) /\ IsFiniteSet(TransferIds)
  /\ Mishaps \subseteq {"crash", "date", "refusal", "repeat"}

VARIABLES stock,       \* warehouse_inventory.quantity
          transfers,   \* warehouse_dispatches
          running,     \* what each handler in flight holds
          orderly      \* history: no handlers overlapped and none went wrong

vars == <<stock, transfers, running, orderly>>

Quantity == [Goods -> Nat]

Transfer ==
  [ source : Structures, target : Structures,
    sent : Quantity, received : Quantity, rejected : Quantity,
    status : {"PENDING_RECEIPT", "PARTIALLY_RECEIVED", "COMPLETED", "CANCELLED"} ]

NoTransfer == [status |-> "NONE"]

Idle == [stage |-> "idle"]

\* createTransfer, after its check of the stock
Deducting ==
  [ stage : {"deduct"}, source : Structures, target : Structures, ask : Quantity,
    todo : SUBSET Goods, done : SUBSET Goods ]

\* receive, after its checks of the received lines
Storing ==
  [ stage : {"store"}, id : TransferIds, seen : Transfer, take : Quantity, put : Quantity,
    refuse : Quantity, refusable : BOOLEAN, fresh : BOOLEAN, todo : SUBSET Goods ]

\* receive and cancelTransfer, before and while goods go back to the sender
Returning ==
  [ stage : {"return"}, id : TransferIds, seen : Transfer, next : Transfer,
    back : Quantity, cancels : BOOLEAN, fresh : BOOLEAN, todo : SUBSET Goods ]

Job == {Idle} \cup Deducting \cup Storing \cup Returning

TypeOK ==
  /\ stock \in [Structures -> [Goods -> Nat]]
  /\ transfers \in [TransferIds -> Transfer \cup {NoTransfer}]
  /\ running \in [Procs -> Job]
  /\ orderly \in BOOLEAN

Init ==
  /\ stock = [s \in Structures |-> [g \in Goods |-> IF s \in Located THEN Amount ELSE 0]]
  /\ transfers = [id \in TransferIds |-> NoTransfer]
  /\ running = [p \in Procs |-> Idle]
  /\ orderly = TRUE

----------------------------------------------------------------------------
(* The dispatch document *)

Nothing == [g \in Goods |-> 0]

Pending(t, g) == t.sent[g] - t.received[g] - t.rejected[g]

AllDone(t) == \A g \in Goods : Pending(t, g) <= 0

\* recomputeDispatchStatus
RecomputedStatus(t) ==
  IF AllDone(t) THEN "COMPLETED"
  ELSE IF \E g \in Goods : t.received[g] > 0 THEN "PARTIALLY_RECEIVED"
  ELSE "PENDING_RECEIPT"

Settled(t, take, refuse) ==
  LET items == [t EXCEPT !.received = [g \in Goods |-> @[g] + take[g]],
                         !.rejected = [g \in Goods |-> @[g] + refuse[g]]]
  IN  [items EXCEPT !.status = RecomputedStatus(items)]

\* A good can be taken or refused up to what is pending.
Upto(limit) == {q \in [Goods -> 0..Amount] : \A g \in Goods : q[g] <= limit[g]}

----------------------------------------------------------------------------
(* createTransfer *)

\* The bound on the model: no transfer begins when the ids are used up, and of
\* several in flight only as many are created as there are ids.
Room == \E id \in TransferIds : transfers[id] = NoTransfer

BeginTransfer(p, source, target, ask) ==
  /\ running[p] = Idle
  /\ Room
  /\ ask # Nothing
  /\ \A g \in Goods : ask[g] <= stock[source][g]
  /\ running' = [running EXCEPT ![p] =
       [ stage |-> "deduct", source |-> source, target |-> target, ask |-> ask,
         todo |-> {g \in Goods : ask[g] > 0}, done |-> {} ]]
  /\ UNCHANGED <<stock, transfers>>

\* A bug the runs must find: the update does not ask for the quantity.
DeductUnchecked(p, g) ==
  LET job == running[p]
  IN  /\ job.stage = "deduct"
      /\ g \in job.todo
      /\ stock' = [stock EXCEPT ![job.source][g] = @ - job.ask[g]]
      /\ running' = [running EXCEPT ![p].todo = @ \ {g}, ![p].done = @ \cup {g}]
      /\ UNCHANGED transfers

\* One update of the bulkWrite; its filter asks for the quantity once more.
Deduct(p, g) ==
  LET job == running[p]
      enough == stock[job.source][g] >= job.ask[g]
  IN  /\ job.stage = "deduct"
      /\ g \in job.todo
      /\ stock' = IF enough THEN [stock EXCEPT ![job.source][g] = @ - job.ask[g]] ELSE stock
      /\ running' = [running EXCEPT ![p].todo = @ \ {g},
                                    ![p].done = IF enough THEN @ \cup {g} ELSE @]
      /\ UNCHANGED transfers

\* The dispatch is created when every update found its quantity ...
CreateDispatch(p, id) ==
  LET job == running[p]
  IN  /\ job.stage = "deduct"
      /\ job.todo = {}
      /\ job.done = {g \in Goods : job.ask[g] > 0}
      /\ transfers[id] = NoTransfer
      /\ transfers' = [transfers EXCEPT ![id] =
           [ source |-> job.source, target |-> job.target, sent |-> job.ask,
             received |-> Nothing, rejected |-> Nothing, status |-> "PENDING_RECEIPT" ]]
      /\ running' = [running EXCEPT ![p] = Idle]
      /\ UNCHANGED stock

\* ... and the request is refused otherwise, or for a date that is none.
TransferRefused(p) ==
  LET job == running[p]
  IN  /\ job.stage = "deduct"
      /\ job.todo = {}
      /\ job.done # {g \in Goods : job.ask[g] > 0} \/ "date" \in Mishaps
      /\ running' = [running EXCEPT ![p] = Idle]
      /\ UNCHANGED <<stock, transfers>>

----------------------------------------------------------------------------
(* receive *)

\* take is what the received lines of the request add up to, put what is stored
\* of them: of two lines about one good only the last is.
BeginReceive(p, id, take, put, refuse, refusable) ==
  LET t == transfers[id]
  IN  /\ running[p] = Idle
      /\ t # NoTransfer
      /\ t.status # "CANCELLED"
      /\ ~(t.status = "COMPLETED" /\ AllDone(t))
      /\ \A g \in Goods : take[g] <= Pending(t, g)
      /\ \A g \in Goods : \/ put[g] = take[g]
                          \/ "repeat" \in Mishaps /\ put[g] \in 1..take[g]
      /\ \A g \in Goods : refuse[g] <= Pending(t, g) - take[g]
      /\ \/ refusable
         \/ "refusal" \in Mishaps /\ refuse = Nothing
      /\ running' = [running EXCEPT ![p] =
           [ stage |-> "store", id |-> id, seen |-> t, take |-> take, put |-> put,
             refuse |-> refuse, refusable |-> refusable, fresh |-> TRUE,
             todo |-> IF t.target \in Located THEN {g \in Goods : put[g] > 0} ELSE {} ]]
      /\ UNCHANGED <<stock, transfers>>

\* applyReceiptToInventory
Store(p, g) ==
  LET job == running[p]
  IN  /\ job.stage = "store"
      /\ g \in job.todo
      /\ stock[job.seen.target][g] + job.put[g] <= MaxStock
      /\ stock' = [stock EXCEPT ![job.seen.target][g] = @ + job.put[g]]
      /\ running' = [running EXCEPT ![p].todo = @ \ {g}]
      /\ UNCHANGED transfers

\* The refused lines are checked only now.
CheckRefusals(p) ==
  LET job == running[p]
  IN  /\ job.stage = "store"
      /\ job.todo = {}
      /\ running' = [running EXCEPT ![p] =
           IF ~job.refusable THEN Idle
           ELSE [ stage |-> "return", id |-> job.id, seen |-> job.seen,
                  next |-> Settled(job.seen, job.take, job.refuse), back |-> job.refuse,
                  cancels |-> FALSE, fresh |-> job.fresh,
                  todo |-> {g \in Goods : job.refuse[g] > 0} ]]
      /\ UNCHANGED <<stock, transfers>>

----------------------------------------------------------------------------
(* cancelTransfer *)

\* A bug the runs must find: all that was sent goes back, also what was refused.
BeginCancelOfAll(p, id) ==
  LET t == transfers[id]
  IN  /\ running[p] = Idle
      /\ t.status = "PENDING_RECEIPT"
      /\ \A g \in Goods : t.received[g] = 0
      /\ running' = [running EXCEPT ![p] =
           [ stage |-> "return", id |-> id, seen |-> t,
             next |-> [t EXCEPT !.status = "CANCELLED"],
             back |-> t.sent, cancels |-> TRUE, fresh |-> TRUE,
             todo |-> {g \in Goods : t.sent[g] > 0} ]]
      /\ UNCHANGED <<stock, transfers>>

BeginCancel(p, id) ==
  LET t == transfers[id]
  IN  /\ running[p] = Idle
      /\ t.status = "PENDING_RECEIPT"
      /\ \A g \in Goods : t.received[g] = 0
      /\ running' = [running EXCEPT ![p] =
           [ stage |-> "return", id |-> id, seen |-> t,
             next |-> [t EXCEPT !.status = "CANCELLED"],
             back |-> [g \in Goods |-> Pending(t, g)], cancels |-> TRUE, fresh |-> TRUE,
             todo |-> {g \in Goods : Pending(t, g) > 0} ]]
      /\ UNCHANGED <<stock, transfers>>

----------------------------------------------------------------------------
(* The end of receive and cancelTransfer *)

ReturnGoods(p, g) ==
  LET job == running[p]
  IN  /\ job.stage = "return"
      /\ g \in job.todo
      /\ stock[job.seen.source][g] + job.back[g] <= MaxStock
      /\ stock' = [stock EXCEPT ![job.seen.source][g] = @ + job.back[g]]
      /\ running' = [running EXCEPT ![p].todo = @ \ {g}]
      /\ UNCHANGED transfers

\* A bug the runs must find: the version is not checked.
SaveReceiptUnversioned(p) ==
  LET job == running[p]
  IN  /\ job.stage = "return"
      /\ ~job.cancels
      /\ job.todo = {}
      /\ transfers' = [transfers EXCEPT ![job.id] = job.next]
      /\ running' = [running EXCEPT ![p] = Idle]
      /\ UNCHANGED stock

\* A receipt sets the array of items: Mongoose checks the version, and fails
\* the save when another receipt moved it.
SaveReceipt(p) ==
  LET job == running[p]
      status == IF job.next.status = job.seen.status THEN transfers[job.id].status
                ELSE job.next.status
  IN  /\ job.stage = "return"
      /\ ~job.cancels
      /\ job.todo = {}
      /\ IF job.fresh
         THEN /\ transfers' = [transfers EXCEPT ![job.id] = [job.next EXCEPT !.status = status]]
              /\ running' = [q \in Procs |->
                   IF q = p THEN Idle
                   ELSE IF running[q].stage \in {"store", "return"} /\ running[q].id = job.id
                   THEN [running[q] EXCEPT !.fresh = FALSE]
                   ELSE running[q]]
         ELSE /\ running' = [running EXCEPT ![p] = Idle]
              /\ UNCHANGED transfers
      /\ UNCHANGED stock

\* A cancellation sets plain fields only, without a look at the version.
SaveCancel(p) ==
  LET job == running[p]
  IN  /\ job.stage = "return"
      /\ job.cancels
      /\ job.todo = {}
      /\ transfers' = [transfers EXCEPT ![job.id].status = "CANCELLED"]
      /\ running' = [running EXCEPT ![p] = Idle]
      /\ UNCHANGED stock

\* The process stops, or the database refuses, between two steps.
Crash(p) ==
  /\ "crash" \in Mishaps
  /\ running[p] # Idle
  /\ running' = [running EXCEPT ![p] = Idle]
  /\ UNCHANGED <<stock, transfers>>

----------------------------------------------------------------------------

Begin(p) ==
  \/ \E source, target \in Structures, ask \in [Goods -> 0..Amount] :
       BeginTransfer(p, source, target, ask)
  \/ \E id \in TransferIds :
       \/ BeginCancel(p, id)
       \/ /\ transfers[id] # NoTransfer
          /\ \E take, refuse \in Upto(transfers[id].sent), refusable \in BOOLEAN :
               \E put \in Upto(take) : BeginReceive(p, id, take, put, refuse, refusable)

Continue(p) ==
  \/ \E g \in Goods : Deduct(p, g) \/ Store(p, g) \/ ReturnGoods(p, g)
  \/ \E id \in TransferIds : CreateDispatch(p, id)
  \/ CheckRefusals(p)
  \/ SaveReceipt(p)
  \/ SaveCancel(p)

Stop(p) == TransferRefused(p) \/ Crash(p)

\* p holds a receipt that names a good twice, or that will be refused.
Flawed(job) == job.stage = "store" /\ (~job.refusable \/ job.put # job.take)

Next ==
  \E p \in Procs :
    \/ /\ Begin(p) \/ Continue(p)
       /\ orderly' = /\ orderly
                     /\ \A q \in Procs \ {p} : running[q] = Idle
                     /\ ~Flawed(running'[p])
    \/ /\ Stop(p)
       /\ orderly' = FALSE

Spec == Init /\ [][Next]_vars

----------------------------------------------------------------------------
(* Properties of any interleaving, with any mishap *)

\* What a step may do to what a dispatch settled.
KeepsReceipts ==
  \A id \in TransferIds : transfers[id] # NoTransfer =>
    \A g \in Goods :
      /\ transfers'[id].received[g] >= transfers[id].received[g]
      /\ transfers'[id].rejected[g] >= transfers[id].rejected[g]
      /\ transfers'[id].received[g] + transfers'[id].rejected[g] <= transfers[id].sent[g]

\* No receipt is lost and none counts twice: a receipt that was saved is not undone
\* by another one, or by a cancellation, that had loaded the dispatch before, and a
\* dispatch never settles more than was sent, however receipts overlap.
ReceiptsAreKept == [][KeepsReceipts]_vars

----------------------------------------------------------------------------
(* Conservation: what is in stock, under way, or was received by a structure   *)
(* that keeps no stock, when no handler is in flight.                          *)

Quiet == \A p \in Procs : running[p] = Idle

InStock(g) == SumFunction([s \in Structures |-> stock[s][g]])

UnderWay(g) ==
  SumFunction([id \in TransferIds |->
    IF transfers[id].status \in {"NONE", "CANCELLED"} THEN 0 ELSE Pending(transfers[id], g)])

Untracked(g) ==
  SumFunction([id \in TransferIds |->
    IF transfers[id] = NoTransfer \/ transfers[id].target \in Located THEN 0
    ELSE transfers[id].received[g]])

Accounted(g) == InStock(g) + UnderWay(g) + Untracked(g)

Total == Amount * Cardinality(Located)

\* Goods only move: as long as handlers did not overlap and none of them went
\* wrong, every piece is in stock, under way, or with a structure that received it.
Conserved == Quiet /\ orderly => \A g \in Goods : Accounted(g) = Total

----------------------------------------------------------------------------
(* What the code's own words promise and it does not keep *)

\* A transfer that was refused took nothing, one that was received arrived.
NothingLost == Quiet => \A g \in Goods : Accounted(g) >= Total

\* A receipt that was refused brought nothing, and no receipt counts twice.
NothingGained == Quiet => \A g \in Goods : Accounted(g) <= Total

\* "Qisman qabul qilingan transferni bekor qilib bo'lmaydi": a transfer that was
\* received in part is not cancelled.
CancelledWasNotReceived ==
  \A id \in TransferIds :
    transfers[id].status = "CANCELLED" => \A g \in Goods : transfers[id].received[g] = 0

============================================================================
