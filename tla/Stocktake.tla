------------------------------ MODULE Stocktake ------------------------------
(***************************************************************************)
(* Counting a warehouse: StocktakesService over the collections stocktakes *)
(* and warehouse_inventory.  A stocktake of one place, or of the whole     *)
(* structure, lists the goods with their book quantity; somebody counts;   *)
(* completing it overwrites the stock with the count; the management then  *)
(* deducts what was counted too much and adds what was counted too little. *)
(*                                                                         *)
(* A handler loads the stocktake, changes stock rows one update at a time  *)
(* and saves the stocktake at its end.  A save that sets the lines checks  *)
(* the version it loaded (Mongoose, see RequestRaces); a save of the       *)
(* status alone does not.                                                  *)
(*                                                                         *)
(* A good stands for a name; its row at a place has a quantity.  Barcodes, *)
(* nomenclature codes and permissions are left out.                        *)
(***************************************************************************)
EXTENDS Integers, SequencesExt

CONSTANTS Goods, Places,
          TakeIds,     \* bounds the number of stocktakes
          Procs,       \* handlers in flight at a time
          MaxStock,    \* bounds what is counted and what a row can hold
          MaxRows,     \* bounds the lines adjusted by one call
          Mishaps      \* what else may happen: see the assumption

\* Assumed where the constants get their values (Warehouse).
StocktakeAssumption ==
  /\ IsFiniteSet(Goods) /\ IsFiniteSet(Places) /\ Places # {}
  /\ "GENERAL" \notin Places
  /\ MaxStock \in Nat /\ MaxRows \in Nat
  /\ Mishaps \subseteq {"move", "crash"}

VARIABLES stock,      \* warehouse_inventory.quantity
          takes,      \* stocktakes, all of one owner and one structure
          running,    \* what each handler in flight holds
          orderly     \* history: handlers did not overlap, none was cut short and
                      \* nothing else happened

vars == <<stock, takes, running, orderly>>

Quantity == [Goods -> Nat]

Lines == [ of : SUBSET Goods, book : Quantity, counted : Quantity,
           excessDeduct : Quantity, shortageAdd : Quantity ]

Take == [ status : {"IN_PROGRESS", "COMPLETED", "CANCELLED"},
          scope : Places \cup {"GENERAL"}, lines : Lines ]

NoTake == [status |-> "NONE"]
Idle == [stage |-> "idle"]

\* One update of a stock row: $set to a value, or $inc by one.
Write == [good : Goods, place : Places, kind : {"set", "inc"}, value : Nat]

Job ==
  [stage : {"idle"}]
  \cup [stage : {"create"}, scope : Places \cup {"GENERAL"}]
  \cup [stage : {"cancel"}, id : TakeIds]
  \* lines to be saved, if the version still is the loaded one
  \cup [stage : {"count"}, id : TakeIds, lines : Lines, fresh : BOOLEAN]
  \* the same, after the stock was brought to a target for the goods in todo
  \cup [ stage : {"apply"}, id : TakeIds, lines : Lines, fresh : BOOLEAN,
         completes : BOOLEAN, todo : SUBSET Goods, invalid : SUBSET Goods,
         writes : SUBSET Write ]

TypeOK ==
  /\ stock \in [Goods -> [Places -> Nat]]
  /\ takes \in [TakeIds -> Take \cup {NoTake}]
  /\ running \in [Procs -> Job]
  /\ orderly \in BOOLEAN

Init ==
  /\ stock \in [Goods -> [Places -> 0..1]]
  /\ takes = [id \in TakeIds |-> NoTake]
  /\ running = [p \in Procs |-> Idle]
  /\ orderly = TRUE

----------------------------------------------------------------------------
(* Reading stock and lines *)

TotalOf(row) == SumFunction(row)

InScope(g, scope) == IF scope = "GENERAL" THEN TotalOf(stock[g]) ELSE stock[g][scope]

\* getLineExcess and getLineShortage: a good nobody counted is not short.
Excess(lines, g) == Max({0, lines.counted[g] - lines.book[g]})

Shortage(lines, g) ==
  IF lines.counted[g] = 0 THEN 0 ELSE Max({0, lines.book[g] - lines.counted[g]})

----------------------------------------------------------------------------
(* create *)

Active(scope) ==
  \E id \in TakeIds : takes[id].status = "IN_PROGRESS" /\ takes[id].scope = scope

BeginCreate(p, scope) ==
  /\ running[p] = Idle
  /\ ~Active(scope)
  /\ running' = [running EXCEPT ![p] = [stage |-> "create", scope |-> scope]]
  /\ UNCHANGED <<stock, takes>>

\* buildGeneralLines, buildLocationLines
LinesOf(scope) ==
  [ of |-> {g \in Goods : InScope(g, scope) > 0},
    book |-> [g \in Goods |-> InScope(g, scope)],
    counted |-> [g \in Goods |-> 0],
    excessDeduct |-> [g \in Goods |-> 0],
    shortageAdd |-> [g \in Goods |-> 0] ]

Create(p, id) ==
  LET scope == running[p].scope
  IN  /\ running[p].stage = "create"
      /\ takes[id] = NoTake
      /\ takes' = [takes EXCEPT ![id] =
           [status |-> "IN_PROGRESS", scope |-> scope, lines |-> LinesOf(scope)]]
      /\ running' = [running EXCEPT ![p] = Idle]
      /\ UNCHANGED stock

----------------------------------------------------------------------------
(* updateLine and scanBarcode *)

BeginCount(p, id, g, n) ==
  /\ running[p] = Idle
  /\ takes[id].status = "IN_PROGRESS"
  /\ g \in takes[id].lines.of
  /\ running' = [running EXCEPT ![p] =
       [ stage |-> "count", id |-> id, fresh |-> TRUE,
         lines |-> [takes[id].lines EXCEPT !.counted[g] = n] ]]
  /\ UNCHANGED <<stock, takes>>

\* The version moved: other handlers that loaded these lines cannot save them.
Outdated(p, id) ==
  [q \in Procs |-> IF q = p THEN Idle
                   ELSE IF running[q].stage \in {"count", "apply"} /\ running[q].id = id
                   THEN [running[q] EXCEPT !.fresh = FALSE]
                   ELSE running[q]]

SaveLines(p) ==
  LET job == running[p]
  IN  IF job.fresh
      THEN /\ takes' = [takes EXCEPT ![job.id].lines = job.lines]
           /\ running' = Outdated(p, job.id)
      ELSE /\ running' = [running EXCEPT ![p] = Idle]
           /\ UNCHANGED takes

SaveCount(p) ==
  /\ running[p].stage = "count"
  /\ SaveLines(p)
  /\ UNCHANGED stock

----------------------------------------------------------------------------
(* Writing a target to the stock *)

\* Rows by quantity, the largest first; equal ones in any order.
Orders(row) ==
  {o \in SetToSeqs(Places) : \A i, j \in DOMAIN o : i < j => row[o[i]] >= row[o[j]]}

\* A bug the runs must find: each row gives the whole difference.
RemovalsFromEach(g, order, toRemove) ==
  {[good |-> g, place |-> order[i], kind |-> "set",
    value |-> Max({0, stock[g][order[i]] - toRemove})] : i \in DOMAIN order}

\* The rows give up what is too much one after the other.
Removals(g, order, toRemove) ==
  LET before(i) == SumFunctionOnSet([j \in DOMAIN order |-> stock[g][order[j]]], 1..(i - 1))
      remove(i) == Min({stock[g][order[i]], toRemove - before(i)})
  IN  {[good |-> g, place |-> order[i], kind |-> "set",
        value |-> stock[g][order[i]] - remove(i)] :
         i \in {j \in DOMAIN order : before(j) < toRemove}}

\* setGeneralInventoryTarget
GeneralWrites(g, order, target) ==
  LET delta == target - TotalOf(stock[g])
  IN  IF target = 0
      THEN {[good |-> g, place |-> l, kind |-> "set", value |-> 0] : l \in Places}
      ELSE IF delta < 0 THEN Removals(g, order, -delta)
      ELSE IF delta > 0
      THEN {[good |-> g, place |-> order[1], kind |-> "inc", value |-> delta]}
      ELSE {}

\* setLineInventoryTarget
LineWrites(g, scope, order, target) ==
  IF scope = "GENERAL" THEN GeneralWrites(g, order, target)
  ELSE {[good |-> g, place |-> scope, kind |-> "set", value |-> target]}

\* What a good should have in stock, by the lines of a stocktake.
Target(lines, g) == lines.counted[g] - lines.excessDeduct[g] + lines.shortageAdd[g]

\* The next line of the loop: its rows are read and its updates decided.  An
\* invalid line ends the handler, with the lines before it already written.
NextLine(p, g) ==
  LET job == running[p]
  IN  /\ job.stage = "apply"
      /\ job.writes = {}
      /\ g \in job.todo
      /\ \E order \in Orders(stock[g]) :
           running' = [running EXCEPT ![p] =
             IF g \in job.invalid THEN Idle
             ELSE [job EXCEPT !.todo = @ \ {g},
                     !.writes = LineWrites(g, takes[job.id].scope, order,
                                           Target(job.lines, g))]]
      /\ UNCHANGED <<stock, takes>>

WriteRow(p, w) ==
  /\ running[p].stage = "apply"
  /\ w \in running[p].writes
  /\ stock' = [stock EXCEPT ![w.good][w.place] =
                 IF w.kind = "set" THEN w.value ELSE @ + w.value]
  /\ running' = [running EXCEPT ![p].writes = @ \ {w}]
  /\ UNCHANGED takes

----------------------------------------------------------------------------
(* complete and cancel *)

BeginComplete(p, id) ==
  /\ running[p] = Idle
  /\ takes[id].status = "IN_PROGRESS"
  /\ running' = [running EXCEPT ![p] =
       [ stage |-> "apply", id |-> id, lines |-> takes[id].lines, fresh |-> TRUE,
         completes |-> TRUE, todo |-> takes[id].lines.of, invalid |-> {},
         writes |-> {} ]]
  /\ UNCHANGED <<stock, takes>>

\* The status alone is saved.
SaveComplete(p) ==
  LET job == running[p]
  IN  /\ job.stage = "apply"
      /\ job.completes
      /\ job.todo = {} /\ job.writes = {}
      /\ takes' = [takes EXCEPT ![job.id].status = "COMPLETED"]
      /\ running' = [running EXCEPT ![p] = Idle]
      /\ UNCHANGED stock

BeginCancel(p, id) ==
  /\ running[p] = Idle
  /\ takes[id].status = "IN_PROGRESS"
  /\ running' = [running EXCEPT ![p] = [stage |-> "cancel", id |-> id]]
  /\ UNCHANGED <<stock, takes>>

SaveCancel(p) ==
  /\ running[p].stage = "cancel"
  /\ takes' = [takes EXCEPT ![running[p].id].status = "CANCELLED"]
  /\ running' = [running EXCEPT ![p] = Idle]
  /\ UNCHANGED stock

----------------------------------------------------------------------------
(* applyExcessAdjustments *)

\* What the lines become when every adjustment of the call is accepted.
Adjusted(lines, ask) ==
  [lines EXCEPT
     !.excessDeduct =
        [g \in Goods |-> IF g \in DOMAIN ask /\ Excess(lines, g) > 0 THEN ask[g] ELSE @[g]],
     !.shortageAdd =
        [g \in Goods |-> IF g \in DOMAIN ask /\ Shortage(lines, g) > 0 THEN ask[g] ELSE @[g]]]

\* No such line, neither too much nor too little of it, or more than that.
Invalid(lines, ask) ==
  {g \in DOMAIN ask : \/ g \notin lines.of
                      \/ Excess(lines, g) = 0 /\ Shortage(lines, g) = 0
                      \/ ask[g] > Excess(lines, g) + Shortage(lines, g)}

BeginAdjust(p, id, ask) ==
  LET lines == takes[id].lines
      next == Adjusted(lines, ask)
  IN  /\ running[p] = Idle
      /\ takes[id].status = "COMPLETED"
      /\ running' = [running EXCEPT ![p] =
           [ stage |-> "apply", id |-> id, lines |-> next, fresh |-> TRUE,
             completes |-> FALSE, invalid |-> Invalid(lines, ask), writes |-> {},
             todo |-> {g \in DOMAIN ask :
                         \/ g \in Invalid(lines, ask)
                         \/ Target(next, g) # Target(lines, g)} ]]
      /\ UNCHANGED <<stock, takes>>

SaveAdjust(p) ==
  /\ running[p].stage = "apply"
  /\ ~running[p].completes
  /\ running[p].todo = {} /\ running[p].writes = {}
  /\ SaveLines(p)
  /\ UNCHANGED stock

----------------------------------------------------------------------------
(* Everything else *)

\* A transfer, a receipt or an expense: one piece less or more of a good.
Move(g, l) ==
  /\ "move" \in Mishaps
  /\ \/ stock[g][l] > 0 /\ stock' = [stock EXCEPT ![g][l] = @ - 1]
     \/ stock[g][l] < MaxStock /\ stock' = [stock EXCEPT ![g][l] = @ + 1]
  /\ UNCHANGED <<takes, running>>

\* The process stops between two steps.
Crash(p) ==
  /\ "crash" \in Mishaps
  /\ running[p] # Idle
  /\ running' = [running EXCEPT ![p] = Idle]
  /\ UNCHANGED <<stock, takes>>

Begin(p) ==
  \/ \E scope \in Places \cup {"GENERAL"} : BeginCreate(p, scope)
  \/ \E id \in TakeIds :
       \/ \E g \in Goods, n \in 0..MaxStock : BeginCount(p, id, g, n)
       \/ BeginComplete(p, id)
       \/ BeginCancel(p, id)
       \/ \E asked \in {a \in SUBSET Goods : a # {} /\ Cardinality(a) <= MaxRows} :
            \E ask \in [asked -> 0..MaxStock] : BeginAdjust(p, id, ask)

Continue(p) ==
  \/ \E id \in TakeIds : Create(p, id)
  \/ SaveCount(p)
  \/ \E g \in Goods : NextLine(p, g)
  \/ running[p].stage = "apply" /\ \E w \in running[p].writes : WriteRow(p, w)
  \/ SaveComplete(p)
  \/ SaveCancel(p)
  \/ SaveAdjust(p)

Mishap ==
  \/ \E p \in Procs : Crash(p)
  \/ \E g \in Goods, l \in Places : Move(g, l)

\* The call ends at a line that is refused: what it adjusted before is not recorded.
CutShort(p) ==
  LET job == running[p]
  IN  /\ job.stage = "apply"
      /\ running'[p] = Idle
      /\ \E g \in Goods \ job.todo :
           Target(job.lines, g) # Target(takes'[job.id].lines, g)

Next ==
  \/ \E p \in Procs :
       /\ Begin(p) \/ Continue(p)
       /\ orderly' = (/\ orderly
                      /\ \A q \in Procs \ {p} : running[q] = Idle
                      /\ ~CutShort(p))
  \/ /\ Mishap
     /\ orderly' = FALSE

Spec == Init /\ [][Next]_vars

----------------------------------------------------------------------------
(* What pages show: toPublicLine, and the list and the detail of the management *)

Tab(lines, g) ==
  CASE lines.counted[g] > lines.book[g] -> "ko_p"
    [] lines.counted[g] > 0 /\ lines.counted[g] < lines.book[g] -> "kam"
    [] OTHER -> "hammasi"

PublicLine(lines, g) ==
  [ tab |-> Tab(lines, g),
    excessRemaining |-> Max({0, Excess(lines, g) - lines.excessDeduct[g]}),
    shortageRemaining |-> Max({0, Shortage(lines, g) - lines.shortageAdd[g]}),
    warehouseQuantity |->
      IF Excess(lines, g) > 0 THEN lines.counted[g] - lines.excessDeduct[g]
      ELSE IF Shortage(lines, g) > 0 THEN lines.counted[g] + lines.shortageAdd[g]
      ELSE lines.counted[g] ]

\* listForManagement: a completed stocktake with lines that differ, and how many
\* of them are still to be dealt with.
ManagementLists(id) ==
  /\ takes[id].status = "COMPLETED"
  /\ \E g \in takes[id].lines.of :
       LET counted == takes[id].lines.counted[g]
           book == takes[id].lines.book[g]
       IN  counted - book > 0 \/ (counted > 0 /\ counted < book)

PendingCount(lines) ==
  Cardinality({g \in lines.of : \/ lines.counted[g] - lines.book[g] > lines.excessDeduct[g]
                                \/ /\ lines.counted[g] > 0
                                   /\ lines.book[g] - lines.counted[g] > lines.shortageAdd[g]})

\* getManagementDetail
DetailOpens(id) ==
  /\ takes[id].status = "COMPLETED"
  /\ \E g \in takes[id].lines.of :
       Excess(takes[id].lines, g) > 0 \/ Shortage(takes[id].lines, g) > 0

----------------------------------------------------------------------------
(* Properties *)

Quiet == \A p \in Procs : running[p] = Idle

\* No other stocktake that was completed counted the good.
CountedOnce(id, g) ==
  \A other \in TakeIds \ {id} :
    takes[other].status = "COMPLETED" => g \notin takes[other].lines.of

\* "Ko'p qismidan skladdan ayirilgan miqdor": the quantity recorded as deducted
\* (or added) is what the stock of the place, or of all the places, was changed
\* by since it was set to the count, as long as handlers did not overlap, nothing
\* else moved, no other stocktake counted the good, and no call was refused after
\* it had adjusted a line.  Whatever happens, it never exceeds what the count
\* found: the count does not change once it was adjusted.
\* The quantity a page shows as the warehouse's is that one; the management's
\* list has the stocktakes it can open, and counts as pending exactly the lines
\* of which an adjustment would take more.
RecordedIsApplied ==
  \A id \in TakeIds : takes[id] # NoTake =>
    /\ \A g \in Goods :
         /\ takes[id].lines.excessDeduct[g] <= Excess(takes[id].lines, g)
         /\ takes[id].lines.shortageAdd[g] <= Shortage(takes[id].lines, g)
    /\ Quiet /\ orderly /\ takes[id].status = "COMPLETED" =>
         \A g \in takes[id].lines.of :
           /\ CountedOnce(id, g) =>
                InScope(g, takes[id].scope) = Target(takes[id].lines, g)
           /\ PublicLine(takes[id].lines, g).warehouseQuantity = Target(takes[id].lines, g)
    /\ ManagementLists(id) <=> DetailOpens(id)
    /\ takes[id].status = "COMPLETED" =>
         LET lines == takes[id].lines
             takesMore == {g \in lines.of :
                             \E n \in 1..(lines.book[g] + lines.counted[g]) :
                               /\ Invalid(lines, [one \in {g} |-> n]) = {}
                               /\ n > lines.excessDeduct[g] + lines.shortageAdd[g]}
             shownOpen == {g \in lines.of :
                             LET line == PublicLine(lines, g)
                             IN  /\ line.tab # "hammasi"
                                 /\ line.excessRemaining + line.shortageRemaining > 0}
         IN  /\ PendingCount(lines) = Cardinality(takesMore)
             /\ takesMore = shownOpen
             /\ takesMore # {} => ManagementLists(id)

----------------------------------------------------------------------------
(* What the code's own words promise and it does not keep *)

\* "Ko'p sanalgan tovar - skladdan ayirish", "Kam sanalgan tovar - skladga
\* qo'shish": an adjustment of one place takes out, or puts in, as much as the
\* recorded quantity grows by, whatever was moved since the count.
AdjustmentIsRelative ==
  [][\A p \in Procs, g \in Goods, l \in Places :
       (/\ running[p].stage = "apply"
        /\ ~running[p].completes
        /\ takes[running[p].id].scope = l
        /\ running'[p].stage = "apply"
        /\ \E w \in running[p].writes : w.good = g /\ running'[p].writes = {})
       => stock'[g][l] - stock[g][l] =
            Target(running[p].lines, g) - Target(takes[running[p].id].lines, g)]_vars

\* "Invertarizatsiya allaqachon yakunlangan": a stocktake ends once, so one that
\* was cancelled never touched the stock (nothing else moves in this run).
CancelledLeavesStock ==
  Quiet => \A id \in TakeIds : takes[id].status = "CANCELLED" =>
    \A g \in takes[id].lines.of : InScope(g, takes[id].scope) = takes[id].lines.book[g]

\* "Bu tuzilma uchun faol invertarizatsiya mavjud": one active stocktake of the
\* same scope at a time.
OneActive ==
  \A i, j \in TakeIds :
    takes[i].status = "IN_PROGRESS" /\ takes[j].status = "IN_PROGRESS"
      /\ takes[i].scope = takes[j].scope => i = j

==============================================================================
