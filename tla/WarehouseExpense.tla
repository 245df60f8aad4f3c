--------------------------- MODULE WarehouseExpense ---------------------------
(***************************************************************************)
(* Goods that leave a warehouse for use, and the fixed assets some of them *)
(* become: createExpense, deleteExpenseByCode, returnFixedAssetToWarehouse *)
(* and discardFixedAsset of WarehouseService over the collections          *)
(* warehouse_inventory, warehouse_expenses and warehouse_fixed_assets of   *)
(* one structure.                                                          *)
(*                                                                         *)
(* Rows, expenses and assets are changed one update at a time, without a   *)
(* transaction and without a condition on what the handler read, except    *)
(* for the quantity in the filter of a deduction.                          *)
(*                                                                         *)
(* A row of the inventory is a location and a barcode.  Names, comments,   *)
(* nomenclature codes and permissions are left out.                        *)
(***************************************************************************)
EXTENDS Integers, FiniteSetsExt

CONSTANTS Rows,       \* inventory rows of the structure
          LocationOf, \* the location of each row
          Amount,     \* in every row at first
          MaxStock,   \* bounds a row: goods that come back twice never end
          MaxCode,    \* bounds the number of expenses
          Reasons,    \* "fixed_asset", and the others as "other"
          Procs,      \* handlers in flight at a time
          Mishaps     \* "crash": a handler may stop between two steps

Locations == {LocationOf[r] : r \in Rows}

\* Assumed where the constants get their values (Warehouse).
ExpenseAssumption ==
  /\ LocationOf \in [Rows -> Locations]
  /\ Amount \in Nat /\ MaxStock \in Nat /\ MaxCode \in Nat
  /\ Reasons \subseteq {"fixed_asset", "other"}
  /\ Mishaps \subseteq {"crash"}

Codes == 1..MaxCode

VARIABLES stock,      \* warehouse_inventory.quantity
          lastCode,   \* the sequence of expense codes
          expenses,   \* quantities of the warehouse_expenses documents of a code
          assets,     \* warehouse_fixed_assets of a code
          running,    \* what each handler in flight holds
          orderly     \* history: no handlers overlapped and none stopped

vars == <<stock, lastCode, expenses, assets, running, orderly>>

Quantity == [Rows -> Nat]
Nothing == [r \in Rows |-> 0]
Of(quantity) == {r \in Rows : quantity[r] > 0}

Asset == [quantity : Nat, status : {"none", "active", "returned", "discarded"}]
NoAsset == [quantity |-> 0, status |-> "none"]

Idle == [stage |-> "idle"]

Job ==
  [stage : {"idle"}]
  \* createExpense: rows to deduct and locations to write a document for
  \cup [ stage : {"deduct", "document", "asset"}, code : Codes, reason : Reasons,
         ask : Quantity, todo : SUBSET Rows, done : SUBSET Rows, write : SUBSET Locations ]
  \* deleteExpenseByCode
  \cup [stage : {"restore"}, code : Codes, back : Quantity, todo : SUBSET Rows]
  \cup [stage : {"deleted"}, code : Codes]
  \* returnFixedAssetToWarehouse and discardFixedAsset
  \cup [ stage : {"return", "save"}, code : Codes, row : Rows, back : Nat,
         status : {"returned", "discarded"} ]

TypeOK ==
  /\ stock \in [Rows -> Nat]
  /\ lastCode \in 0..MaxCode
  /\ expenses \in [Codes -> Quantity]
  /\ assets \in [Codes -> [Rows -> Asset]]
  /\ running \in [Procs -> Job]
  /\ orderly \in BOOLEAN

Init ==
  /\ stock = [r \in Rows |-> Amount]
  /\ lastCode = 0
  /\ expenses = [c \in Codes |-> Nothing]
  /\ assets = [c \in Codes |-> [r \in Rows |-> NoAsset]]
  /\ running = [p \in Procs |-> Idle]
  /\ orderly = TRUE

GoOn(p, job) == running' = [running EXCEPT ![p] = job]

----------------------------------------------------------------------------
(* createExpense *)

\* The stock is checked, then the next code taken.
BeginExpense(p, reason, ask) ==
  /\ running[p] = Idle
  /\ lastCode < MaxCode
  /\ ask # Nothing
  /\ \A r \in Rows : ask[r] <= stock[r]
  /\ lastCode' = lastCode + 1
  /\ GoOn(p, [ stage |-> "deduct", code |-> lastCode + 1, reason |-> reason,
               ask |-> ask, todo |-> Of(ask), done |-> {},
               write |-> {LocationOf[r] : r \in Of(ask)} ])
  /\ UNCHANGED <<stock, expenses, assets>>

\* One update of the bulkWrite; one that finds too little changes nothing and
\* does not keep the others from being made.
Deduct(p, r) ==
  LET job == running[p]
      enough == stock[r] >= job.ask[r]
  IN  /\ job.stage = "deduct"
      /\ r \in job.todo
      /\ stock' = IF enough THEN [stock EXCEPT ![r] = @ - job.ask[r]] ELSE stock
      /\ GoOn(p, [job EXCEPT !.todo = @ \ {r},
                             !.done = IF enough THEN @ \cup {r} ELSE @])
      /\ UNCHANGED <<lastCode, expenses, assets>>

\* modifiedCount is compared with the number of rows.
CheckModified(p) ==
  LET job == running[p]
  IN  /\ job.stage = "deduct"
      /\ job.todo = {}
      /\ GoOn(p, IF job.done = Of(job.ask) THEN [job EXCEPT !.stage = "document"] ELSE Idle)
      /\ UNCHANGED <<stock, lastCode, expenses, assets>>

\* A bug the runs must find: the document of a location replaces the others.
CreateLastDocument(p, location) ==
  LET job == running[p]
  IN  /\ job.stage = "document"
      /\ location \in job.write
      /\ expenses' = [expenses EXCEPT ![job.code] =
           [r \in Rows |-> IF LocationOf[r] = location THEN job.ask[r] ELSE 0]]
      /\ GoOn(p, [job EXCEPT !.write = @ \ {location}])
      /\ UNCHANGED <<stock, lastCode, assets>>

\* One document for each location.
CreateDocument(p, location) ==
  LET job == running[p]
  IN  /\ job.stage = "document"
      /\ location \in job.write
      /\ expenses' = [expenses EXCEPT ![job.code] =
           [r \in Rows |-> IF LocationOf[r] = location THEN job.ask[r] ELSE @[r]]]
      /\ GoOn(p, [job EXCEPT !.write = @ \ {location}])
      /\ UNCHANGED <<stock, lastCode, assets>>

CreateAssets(p) ==
  LET job == running[p]
  IN  /\ job.stage = "document"
      /\ job.write = {}
      /\ assets' = IF job.reason # "fixed_asset" THEN assets
                   ELSE [assets EXCEPT ![job.code] =
                     [r \in Rows |-> IF r \in Of(job.ask)
                                     THEN [quantity |-> job.ask[r], status |-> "active"]
                                     ELSE NoAsset]]
      /\ GoOn(p, Idle)
      /\ UNCHANGED <<stock, lastCode, expenses>>

----------------------------------------------------------------------------
(* deleteExpenseByCode *)

BeginDelete(p, code) ==
  /\ running[p] = Idle
  /\ expenses[code] # Nothing
  /\ GoOn(p, [ stage |-> "restore", code |-> code, back |-> expenses[code],
               todo |-> Of(expenses[code]) ])
  /\ UNCHANGED <<stock, lastCode, expenses, assets>>

Restore(p, r) ==
  LET job == running[p]
  IN  /\ job.stage = "restore"
      /\ r \in job.todo
      /\ stock[r] + job.back[r] <= MaxStock
      /\ stock' = [stock EXCEPT ![r] = @ + job.back[r]]
      /\ GoOn(p, [job EXCEPT !.todo = @ \ {r}])
      /\ UNCHANGED <<lastCode, expenses, assets>>

\* deleteMany; when it deletes nothing the handler ends with an error.
DeleteDocuments(p) ==
  LET job == running[p]
  IN  /\ job.stage = "restore"
      /\ job.todo = {}
      /\ expenses' = [expenses EXCEPT ![job.code] = Nothing]
      /\ GoOn(p, IF expenses[job.code] = Nothing THEN Idle
                 ELSE [stage |-> "deleted", code |-> job.code])
      /\ UNCHANGED <<stock, lastCode, assets>>

\* A bug the runs must find: the filter on the status is forgotten.
ReturnAllAssets(p) ==
  LET code == running[p].code
  IN  /\ running[p].stage = "deleted"
      /\ assets' = [assets EXCEPT ![code] =
           [r \in Rows |-> IF @[r].status # "none"
                           THEN [@[r] EXCEPT !.status = "returned"] ELSE @[r]]]
      /\ GoOn(p, Idle)
      /\ UNCHANGED <<stock, lastCode, expenses>>

ReturnActiveAssets(p) ==
  LET code == running[p].code
  IN  /\ running[p].stage = "deleted"
      /\ assets' = [assets EXCEPT ![code] =
           [r \in Rows |-> IF @[r].status = "active"
                           THEN [@[r] EXCEPT !.status = "returned"] ELSE @[r]]]
      /\ GoOn(p, Idle)
      /\ UNCHANGED <<stock, lastCode, expenses>>

----------------------------------------------------------------------------
(* returnFixedAssetToWarehouse and discardFixedAsset *)

BeginReturn(p, code, r) ==
  /\ running[p] = Idle
  /\ assets[code][r].status = "active"
  /\ GoOn(p, [ stage |-> "return", code |-> code, row |-> r,
               back |-> assets[code][r].quantity, status |-> "returned" ])
  /\ UNCHANGED <<stock, lastCode, expenses, assets>>

RestoreAsset(p) ==
  LET job == running[p]
  IN  /\ job.stage = "return"
      /\ stock[job.row] + job.back <= MaxStock
      /\ stock' = [stock EXCEPT ![job.row] = @ + job.back]
      /\ GoOn(p, [job EXCEPT !.stage = "save"])
      /\ UNCHANGED <<lastCode, expenses, assets>>

BeginDiscard(p, code, r) ==
  /\ running[p] = Idle
  /\ assets[code][r].status = "active"
  /\ GoOn(p, [ stage |-> "save", code |-> code, row |-> r,
               back |-> 0, status |-> "discarded" ])
  /\ UNCHANGED <<stock, lastCode, expenses, assets>>

\* save() of plain fields: nothing is compared with what was read.
SaveAsset(p) ==
  LET job == running[p]
  IN  /\ job.stage = "save"
      /\ assets' = [assets EXCEPT ![job.code][job.row].status = job.status]
      /\ GoOn(p, Idle)
      /\ UNCHANGED <<stock, lastCode, expenses>>

\* The process stops, or the database refuses, between two steps.
Crash(p) ==
  /\ "crash" \in Mishaps
  /\ running[p] # Idle
  /\ GoOn(p, Idle)
  /\ UNCHANGED <<stock, lastCode, expenses, assets>>

----------------------------------------------------------------------------

Begin(p) ==
  \/ \E reason \in Reasons, ask \in [Rows -> 0..Amount] : BeginExpense(p, reason, ask)
  \/ \E code \in Codes :
       \/ BeginDelete(p, code)
       \/ \E r \in Rows : BeginReturn(p, code, r) \/ BeginDiscard(p, code, r)

Continue(p) ==
  \/ \E r \in Rows : Deduct(p, r) \/ Restore(p, r)
  \/ CheckModified(p)
  \/ \E location \in Locations : CreateDocument(p, location)
  \/ CreateAssets(p)
  \/ DeleteDocuments(p)
  \/ ReturnActiveAssets(p)
  \/ RestoreAsset(p)
  \/ SaveAsset(p)

Next ==
  \E p \in Procs :
    \/ /\ Begin(p) \/ Continue(p)
       /\ orderly' = (orderly /\ \A q \in Procs \ {p} : running[q] = Idle)
    \/ /\ Crash(p)
       /\ orderly' = FALSE

Spec == Init /\ [][Next]_vars

----------------------------------------------------------------------------
(* Where the goods of a row are: in stock, in use under an expense or as an    *)
(* active asset, or written off as a discarded one.                            *)

Quiet == \A p \in Procs : running[p] = Idle

InUse(code, r) ==
  CASE assets[code][r].status \in {"active", "discarded"} -> assets[code][r].quantity
    [] assets[code][r].status = "returned" -> 0
    [] OTHER -> expenses[code][r]

\* findExpenseByCode: what the page of an expense says left each row, if there is
\* such an expense.  listExpensesPaginated groups the documents by code.
ExpenseShown(code) == Of(expenses[code]) # {}
ListedExpenses == {code \in Codes : ExpenseShown(code)}

\* listFixedAssetsPaginated, the active ones
Listed(code, r) == assets[code][r].status = "active"

Accounted(r) == stock[r] + SumFunction([code \in Codes |-> InUse(code, r)])

----------------------------------------------------------------------------
(* Properties *)

\* As long as handlers did not overlap and none stopped, what left the stock is
\* in use, written off, or back: an expense that was refused took nothing, one
\* that was deleted gave everything back.  And whoever looks for a listed fixed
\* asset finds the expense it came with, with as much of the good.
NothingLost ==
  Quiet /\ orderly =>
    /\ \A r \in Rows : Accounted(r) >= Amount
    /\ \A code \in Codes, r \in Rows : Listed(code, r) =>
         code \in ListedExpenses /\ expenses[code][r] = assets[code][r].quantity

\* What a step may do to an asset that was returned or written off.
KeepsAssetEnd ==
  \A code \in Codes, r \in Rows :
    assets[code][r].status \in {"returned", "discarded"} =>
      assets'[code][r].status = assets[code][r].status

\* Until handlers overlap, an asset that was returned or written off stays so,
\* whatever becomes of its expense: deleting the expense returns active ones only.
AssetEndIsFinal == [][orderly' => KeepsAssetEnd]_vars

----------------------------------------------------------------------------
(* What the code's own words promise and it does not keep *)

\* "Faqat faol asosiy vositalarni skladga qaytarish mumkin", "Chiqim topilmadi":
\* only the goods of active assets, and of expenses that exist, go back to the
\* stock, so nothing goes back twice.
NothingGained == Quiet => \A r \in Rows : Accounted(r) <= Amount

==============================================================================
