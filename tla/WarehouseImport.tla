---------------------------- MODULE WarehouseImport ----------------------------
(***************************************************************************)
(* The rows of one warehouse location and what changes their identity:     *)
(* import sessions (WarehouseImportService), the nomenclature code given   *)
(* to a row and the edit of a row by the administration                    *)
(* (updateInventoryNomenclature, updateCrossWarehouseInventory), and the   *)
(* closing of the location (deleteLocation).                               *)
(*                                                                         *)
(* A row is found by its key, its code, its barcode, or its name and       *)
(* characteristics, whichever row the database meets first; what the       *)
(* unique indexes refuse depends on the deployment (autoIndex), so the set *)
(* of indexes is chosen once and stays.                                    *)
(*                                                                         *)
(* A computed barcode is the pair it is computed from.  Case and blanks of *)
(* names, units, countries, prices, comments and permissions are left out, *)
(* and so is the code filled in from dispatches when rows are listed.      *)
(***************************************************************************)
EXTENDS Integers, FiniteSets, SequencesExt

CONSTANTS Names, Characteristics, \* of goods
          Codes, NoCode,          \* nomenclature codes, and a row without one
          Orders,      \* lists of [name, characteristics, code]: what may be imported
          Dtos,        \* edits of a row, functions from some of its fields
          Sessions,    \* import sessions, which exist at first
          MaxRows,     \* bounds the rows of the location
          MaxCode,     \* bounds the number of imports
          MaxEdits,    \* bounds the edits of rows and the pieces taken
          Deployments, \* sets of unique indexes that may exist
          Procs,       \* handlers in flight at a time
          Mishaps      \* "crash": a handler may stop between two steps

Item == [name : Names, characteristics : Characteristics, code : Codes]

\* What an edit may give each field; an empty barcode asks for a computed one.
EditOf == [ name |-> Names, characteristics |-> Characteristics,
            code |-> Codes \cup {NoCode}, barcode |-> Codes \cup {""}, quantity |-> Int ]

ASSUME ImportAssumption ==
  /\ NoCode \notin Codes
  /\ Orders \subseteq Seq(Item) \ {<<>>}
  /\ \A dto \in Dtos :
       DOMAIN dto \subseteq DOMAIN EditOf /\ \A f \in DOMAIN dto : dto[f] \in EditOf[f]
  /\ Deployments \subseteq SUBSET {"itemKey", "barcode", "receiptNomenclatureCode"}
  /\ MaxRows \in Nat \ {0} /\ MaxCode \in Nat /\ MaxEdits \in Nat
  /\ IsFiniteSet(Procs) /\ Procs # {}
  /\ Mishaps \subseteq {"crash"}

VARIABLES indexes,  \* the unique indexes of this deployment
          active,   \* warehouse_locations.isActive
          rows,     \* warehouse_inventory, in the order of their creation
          lastCode, \* the sequence of import codes
          imports,  \* warehouse_imports: session and number of pieces, in the order of their creation
          sessions, \* warehouse_import_sessions, and what became of them
          running,  \* what each handler in flight holds
          edits,    \* history: how many edits of rows began, and pieces were taken
          moved,    \* history: the pieces others added to the rows, less those taken
          orderly   \* history: no handlers overlapped, none stopped or failed half way

vars == <<indexes, active, rows, lastCode, imports, sessions, running, edits, moved, orderly>>

MaybeCode == Codes \cup {NoCode}
Goods == Names \X Characteristics

\* The key of a row with a code forgets the characteristics.
ItemKey(name, characteristics, code) ==
  IF code = NoCode THEN <<name, characteristics>> ELSE <<"nmk", code, name>>

ItemKeys == Goods \cup {"nmk"} \X Codes \X Names

Row == [ name : Names, characteristics : Characteristics, code : MaybeCode,
         key : ItemKeys, barcode : Goods \cup Codes, quantity : Nat ]

\* What save() sends: the fields that differ from the copy.
Changed(loaded, row) ==
  [f \in {g \in DOMAIN row : row[g] # loaded[g]} |-> row[f]]

\* The row after those fields are set.
Written(row, set) ==
  [f \in DOMAIN row |-> IF f \in DOMAIN set THEN set[f] ELSE row[f]]

Idle == [stage |-> "idle"]

Upserting == {"find", "refind", "create", "update"}
Importing == Upserting \cup {"record"}

\* saveActiveSession, of its own (no items) or first in submitActiveSession
Draft == [stage : {"draft"}, session : Sessions, items : Orders \cup {<<>>}, fresh : BOOLEAN]

\* submitActiveSession: items are those left, row is the one found for the first.
Check == [stage : {"check"}, session : Sessions, items : Orders]
Upsert == [ stage : Upserting, session : Sessions, items : Seq(Item) \ {<<>>},
            pieces : Nat, row : 0..MaxRows, rebarcode : BOOLEAN ]
Record == [ stage : {"record"}, session : Sessions, items : {<<>>},
            pieces : Nat, row : {0}, rebarcode : {FALSE} ]
Drop == [stage : {"drop"}, session : Sessions]

Job == [stage : {"idle", "close"}] \cup Draft \cup Check \cup Upsert \cup Record \cup Drop

\* updateInventoryNomenclature and updateCrossWarehouseInventory
IsEdit(job) ==
  /\ job.stage = "save" /\ job.row \in DOMAIN rows
  /\ Written(rows[job.row], job.set) \in Row

TypeOK ==
  /\ indexes \in Deployments
  /\ active \in BOOLEAN
  /\ Len(rows) <= MaxRows /\ rows \in Seq(Row)
  /\ lastCode \in 0..MaxCode
  /\ imports \in Seq([session : Sessions, pieces : Nat])
  /\ sessions \in [Sessions -> {"open", "deleted", "submitted"}]
  /\ DOMAIN running = Procs
  /\ \A p \in Procs : IsEdit(running[p]) \/ running[p] \in Job
  /\ edits \in 0..MaxEdits
  /\ moved \in Int
  /\ orderly \in BOOLEAN

\* A row received before, without a code.
Received(name, characteristics) ==
  [ name |-> name, characteristics |-> characteristics, code |-> NoCode,
    key |-> ItemKey(name, characteristics, NoCode),
    barcode |-> <<name, characteristics>>, quantity |-> 1 ]

Init ==
  /\ indexes \in Deployments
  /\ active = TRUE
  /\ rows \in {<<>>} \cup {<<Received(goods[1], goods[2])>> : goods \in Goods}
  /\ lastCode = 0
  /\ imports = <<>>
  /\ sessions = [s \in Sessions |-> "open"]
  /\ running = [p \in Procs |-> Idle]
  /\ edits = 0
  /\ moved = Len(rows)
  /\ orderly = TRUE

GoOn(p, job) == running' = [running EXCEPT ![p] = job]

\* An index of the collection refuses row as the i-th.
Conflicts(i, row) ==
  \E j \in DOMAIN rows \ {i} :
    \/ "itemKey" \in indexes /\ rows[j].key = row.key
    \/ "barcode" \in indexes /\ rows[j].barcode = row.barcode
    \/ /\ "receiptNomenclatureCode" \in indexes
       /\ row.code # NoCode /\ rows[j].code = row.code

\* resolveInventoryBarcodeForStorage: a stored barcode stays unless it is the code.
ResolvedBarcode(name, characteristics, stored, code) ==
  IF stored # code THEN stored ELSE <<name, characteristics>>

\* The one row, other than the i-th, that the check of a code looks at: any that
\* has the code.  It may let the name pass, and it may refuse it.
Holders(i, code) == {j \in DOMAIN rows \ {i} : rows[j].code = code}
MayPass(i, code, name) ==
  Holders(i, code) # {} => \E j \in Holders(i, code) : rows[j].name = name
MayRefuse(i, code, name) == \E j \in Holders(i, code) : rows[j].name # name

----------------------------------------------------------------------------
(* Import sessions *)

DeleteActiveSession(p, s) ==
  /\ running[p] = Idle
  /\ sessions[s] = "open"
  /\ sessions' = [sessions EXCEPT ![s] = "deleted"]
  /\ UNCHANGED <<active, rows, lastCode, imports, moved, running, edits>>

\* saveActiveSession, alone or at the start of a submission.
BeginSave(p, s, items) ==
  /\ running[p] = Idle
  /\ sessions[s] = "open"
  /\ GoOn(p, [stage |-> "draft", session |-> s, items |-> items, fresh |-> TRUE])
  /\ UNCHANGED <<active, rows, lastCode, imports, sessions, moved, edits>>

\* The items are an array that is set as a whole: the version must be the one
\* loaded, and copies loaded before become stale.
SaveActiveSession(p) ==
  LET job == running[p]
      saved == job.fresh /\ sessions[job.session] = "open"
      Continued == IF saved /\ job.items # <<>>
                   THEN [stage |-> "check", session |-> job.session, items |-> job.items]
                   ELSE Idle
  IN  /\ job.stage = "draft"
      /\ running' = [q \in Procs |->
           IF q = p THEN Continued
           ELSE IF /\ saved
                   /\ running[q].stage = "draft" /\ running[q].session = job.session
                THEN [running[q] EXCEPT !.fresh = FALSE]
                ELSE running[q]]
      /\ UNCHANGED <<active, rows, lastCode, imports, sessions, moved, edits>>

----------------------------------------------------------------------------
(* submitActiveSession, after the draft was saved *)

CodesAgree(items) ==
  \A i, j \in DOMAIN items : items[i].code = items[j].code => items[i].name = items[j].name

\* A bug the runs must find: the items are compared with each other only.
MayImportUnlessAmbiguous(items) == active /\ CodesAgree(items)

\* One code, one name: among the items, and with the rows there are.
MayImport(items) ==
  /\ active /\ CodesAgree(items)
  /\ \A i \in DOMAIN items : MayPass(0, items[i].code, items[i].name)

MayRefuseImport(items) ==
  \/ ~active \/ ~CodesAgree(items)
  \/ \E i \in DOMAIN items : MayRefuse(0, items[i].code, items[i].name)

Accepted(job) ==
  [ stage |-> "find", session |-> job.session, items |-> job.items,
    pieces |-> Len(job.items), row |-> 0, rebarcode |-> FALSE ]

\* A bug the runs must find: the session is dropped before the rows are written.
AcceptImportDropping(p) ==
  LET job == running[p]
  IN  /\ job.stage = "check"
      /\ sessions[job.session] = "open" /\ MayImport(job.items)
      /\ lastCode < MaxCode
      /\ lastCode' = lastCode + 1
      /\ sessions' = [sessions EXCEPT ![job.session] = "submitted"]
      /\ GoOn(p, Accepted(job))
      /\ UNCHANGED <<active, rows, imports, moved, edits>>

\* The session is loaded again, the location and the codes are checked, and the
\* next import code is taken.
AcceptImport(p) ==
  LET job == running[p]
  IN  /\ job.stage = "check"
      /\ sessions[job.session] = "open" /\ MayImport(job.items)
      /\ lastCode < MaxCode
      /\ lastCode' = lastCode + 1
      /\ GoOn(p, Accepted(job))
      /\ UNCHANGED <<active, rows, imports, sessions, moved, edits>>

RefuseImport(p) ==
  LET job == running[p]
  IN  /\ job.stage = "check"
      /\ sessions[job.session] # "open" \/ MayRefuseImport(job.items)
      /\ GoOn(p, Idle)
      /\ UNCHANGED <<active, rows, lastCode, imports, sessions, moved, edits>>

Matches(item) ==
  {i \in DOMAIN rows :
     \/ rows[i].key = ItemKey(item.name, item.characteristics, item.code)
     \/ rows[i].code = item.code
     \/ rows[i].barcode = item.code
     \/ rows[i].name = item.name /\ rows[i].characteristics = item.characteristics}

\* findExisting, before an insert ("find") or after a refused one ("refind").
FindExisting(p, i) ==
  LET job == running[p]
      item == Head(job.items)
  IN  /\ job.stage \in {"find", "refind"}
      /\ \/ /\ i \in Matches(item)
            /\ GoOn(p, [job EXCEPT
                 !.stage = "update",
                 !.row = i,
                 !.rebarcode = job.stage = "find" /\ rows[i].barcode = item.code])
         \/ /\ Matches(item) = {} /\ job.stage = "find" /\ i = 0
            /\ GoOn(p, [job EXCEPT !.stage = "create"])
      /\ UNCHANGED <<active, rows, lastCode, imports, sessions, moved, edits>>

\* The row as the update of an item leaves it.
Imported(row, item, rebarcode) ==
  [ name |-> item.name, characteristics |-> item.characteristics, code |-> item.code,
    key |-> ItemKey(item.name, item.characteristics, item.code),
    barcode |-> IF rebarcode THEN <<item.name, item.characteristics>> ELSE row.barcode,
    quantity |-> row.quantity + 1 ]

Upserted(job) ==
  [job EXCEPT !.stage = IF Len(job.items) = 1 THEN "record" ELSE "find",
              !.items = Tail(@), !.row = 0, !.rebarcode = FALSE]

\* A bug the runs must find: the quantity is set, not incremented.
UpdateExistingSetting(p) ==
  LET job == running[p]
      row == [Imported(rows[job.row], Head(job.items), job.rebarcode) EXCEPT !.quantity = 1]
  IN  /\ job.stage = "update"
      /\ ~Conflicts(job.row, row)
      /\ rows' = [rows EXCEPT ![job.row] = row]
      /\ GoOn(p, Upserted(job))
      /\ UNCHANGED <<active, lastCode, imports, sessions, moved, edits>>

UpdateExisting(p) ==
  LET job == running[p]
      row == Imported(rows[job.row], Head(job.items), job.rebarcode)
  IN  /\ job.stage = "update"
      /\ ~Conflicts(job.row, row)
      /\ rows' = [rows EXCEPT ![job.row] = row]
      /\ GoOn(p, Upserted(job))
      /\ UNCHANGED <<active, lastCode, imports, sessions, moved, edits>>

\* A duplicate key sends the handler back to look for the row.
CreateRow(p) ==
  LET job == running[p]
      item == Head(job.items)
      row == [ name |-> item.name, characteristics |-> item.characteristics,
               code |-> item.code,
               key |-> ItemKey(item.name, item.characteristics, item.code),
               barcode |-> <<item.name, item.characteristics>>, quantity |-> 1 ]
  IN  /\ job.stage = "create"
      /\ \/ /\ Conflicts(0, row)
            /\ rows' = rows
            /\ GoOn(p, [job EXCEPT !.stage = "refind"])
         \/ /\ ~Conflicts(0, row)
            /\ Len(rows) < MaxRows
            /\ rows' = Append(rows, row)
            /\ GoOn(p, Upserted(job))
      /\ UNCHANGED <<active, lastCode, imports, sessions, moved, edits>>

\* The handler ends half way: an index refuses the update, or the insert was
\* refused for a row that is not found.
Fail(p) ==
  LET job == running[p]
  IN  /\ \/ /\ job.stage = "update"
            /\ Conflicts(job.row, Imported(rows[job.row], Head(job.items), job.rebarcode))
         \/ job.stage = "refind" /\ Matches(Head(job.items)) = {}
      /\ GoOn(p, Idle)
      /\ UNCHANGED <<active, rows, lastCode, imports, sessions, moved, edits>>

CreateImport(p) ==
  LET job == running[p]
  IN  /\ job.stage = "record"
      /\ imports' = Append(imports, [session |-> job.session, pieces |-> job.pieces])
      /\ GoOn(p, [stage |-> "drop", session |-> job.session])
      /\ UNCHANGED <<active, rows, lastCode, sessions, moved, edits>>

\* A bug the runs must find: the session stays.
KeepSession(p) ==
  /\ running[p].stage = "drop"
  /\ GoOn(p, Idle)
  /\ UNCHANGED <<active, rows, lastCode, imports, sessions, moved, edits>>

\* Deleting a session that is gone deletes nothing.
DropSession(p) ==
  LET s == running[p].session
  IN  /\ running[p].stage = "drop"
      /\ sessions' = [sessions EXCEPT ![s] = IF @ = "open" THEN "submitted" ELSE @]
      /\ GoOn(p, Idle)
      /\ UNCHANGED <<active, rows, lastCode, imports, moved, edits>>

----------------------------------------------------------------------------
(* updateInventoryNomenclature and updateCrossWarehouseInventory *)

\* A row without a code is given one.
BeginNomenclature(p, i, code) ==
  LET row == rows[i]
  IN  /\ running[p] = Idle
      /\ active
      /\ edits < MaxEdits
      /\ edits' = edits + 1
      /\ row.code = NoCode
      /\ MayPass(i, code, row.name)
      /\ GoOn(p, [ stage |-> "save", row |-> i,
                   set |-> Changed(row, [row EXCEPT
                     !.code = code,
                     !.key = ItemKey(row.name, row.characteristics, code),
                     !.barcode = ResolvedBarcode(row.name, row.characteristics, @, code)]) ])
      /\ UNCHANGED <<active, rows, lastCode, imports, sessions, moved>>

\* The row with the fields of an edit; an empty barcode is computed anew.
Edited(row, dto) ==
  LET next == Written(row, dto)
      name == next.name
      characteristics == next.characteristics
      code == next.code
  IN  [ name |-> name, characteristics |-> characteristics, code |-> code,
        key |-> ItemKey(name, characteristics, code),
        barcode |-> IF "barcode" \notin DOMAIN dto
                    THEN ResolvedBarcode(name, characteristics, row.barcode, code)
                    ELSE IF dto.barcode = "" THEN <<name, characteristics>> ELSE dto.barcode,
        quantity |-> next.quantity ]

\* Another row has the key, the barcode, or the code under another name.
Duplicates(i, row) ==
  \/ \E j \in DOMAIN rows \ {i} : rows[j].key = row.key \/ rows[j].barcode = row.barcode
  \/ row.code # NoCode /\ ~MayPass(i, row.code, row.name)

BeginEdit(p, i, dto) ==
  LET row == Edited(rows[i], dto)
  IN  /\ running[p] = Idle
      /\ active
      /\ edits < MaxEdits
      /\ edits' = edits + 1
      /\ row.quantity >= 0
      /\ ~Duplicates(i, row)
      /\ GoOn(p, [stage |-> "save", row |-> i, set |-> Changed(rows[i], row)])
      /\ UNCHANGED <<active, rows, lastCode, imports, sessions, moved>>

\* save() of plain fields: no version is compared.  An index may refuse.
SaveRow(p) ==
  LET job == running[p]
      row == Written(rows[job.row], job.set)
      refused == Conflicts(job.row, row)
  IN  /\ job.stage = "save"
      /\ rows' = IF refused THEN rows ELSE [rows EXCEPT ![job.row] = row]
      /\ moved' = IF refused THEN moved ELSE moved + row.quantity - rows[job.row].quantity
      /\ GoOn(p, Idle)
      /\ UNCHANGED <<active, lastCode, imports, sessions, edits>>

----------------------------------------------------------------------------
(* The location, and goods that leave it *)

\* Expenses and transfers: a deduction asks for the quantity.
Deduct(i) ==
  /\ rows[i].quantity > 0
  /\ edits < MaxEdits
  /\ edits' = edits + 1
  /\ rows' = [rows EXCEPT ![i].quantity = @ - 1]
  /\ moved' = moved - 1
  /\ UNCHANGED <<active, lastCode, imports, sessions, running>>

BeginClose(p) ==
  /\ running[p] = Idle
  /\ active
  /\ \A i \in DOMAIN rows : rows[i].quantity = 0
  /\ GoOn(p, [stage |-> "close"])
  /\ UNCHANGED <<active, rows, lastCode, imports, sessions, moved, edits>>

DeleteLocation(p) ==
  /\ running[p].stage = "close"
  /\ active' = FALSE
  /\ GoOn(p, Idle)
  /\ UNCHANGED <<rows, lastCode, imports, sessions, moved, edits>>

\* The process stops, or the database refuses, between two steps of an import.
\* The other handlers write once: one that stops might as well not have begun.
Crash(p) ==
  /\ "crash" \in Mishaps
  /\ running[p].stage \in Importing \cup {"drop"}
  /\ GoOn(p, Idle)
  /\ UNCHANGED <<active, rows, lastCode, imports, sessions, moved, edits>>

----------------------------------------------------------------------------

Begin(p) ==
  \/ \E s \in Sessions : \/ DeleteActiveSession(p, s)
                         \/ \E items \in Orders \cup {<<>>} : BeginSave(p, s, items)
  \/ \E i \in DOMAIN rows : \/ \E code \in Codes : BeginNomenclature(p, i, code)
                            \/ \E dto \in Dtos : BeginEdit(p, i, dto)
  \/ BeginClose(p)

Continue(p) ==
  \/ SaveActiveSession(p)
  \/ AcceptImport(p) \/ RefuseImport(p)
  \/ \E i \in 0..Len(rows) : FindExisting(p, i)
  \/ UpdateExisting(p)
  \/ CreateRow(p)
  \/ CreateImport(p)
  \/ DropSession(p)
  \/ SaveRow(p)
  \/ DeleteLocation(p)

Next ==
  /\ \/ \E p \in Procs :
          \/ /\ Begin(p) \/ Continue(p)
             /\ orderly' = (orderly /\ \A q \in Procs \ {p} : running[q] = Idle)
          \/ /\ Fail(p) \/ Crash(p)
             /\ orderly' = FALSE
     \/ /\ \E i \in DOMAIN rows : Deduct(i)
        /\ orderly' = (orderly /\ \A p \in Procs : running[p] = Idle)
  /\ UNCHANGED indexes

Spec == Init /\ [][Next]_vars

----------------------------------------------------------------------------
(* Properties *)

Quiet == \A p \in Procs : running[p] = Idle

InRows == SumFunction([i \in DOMAIN rows |-> rows[i].quantity])
Recorded == SumFunction([c \in DOMAIN imports |-> imports[c].pieces])

\* listAllWarehousesOverview: what the overview of all warehouses says of this
\* location, which it leaves out once it is closed.
OverviewTotal == IF active THEN InRows ELSE 0

\* Every piece an import records has come into the stock, whatever overlaps,
\* stops or is refused: the rows are written before the record.
RecordedIsStocked == InRows >= Recorded + moved

\* As long as nothing overlaps, stops or fails, nothing but what is recorded
\* comes into the stock, all of it is in the overview of the warehouses, closed
\* locations included, and a session is imported once.
ImportedOnce ==
  Quiet /\ orderly =>
    /\ InRows = Recorded + moved
    /\ OverviewTotal = Recorded + moved
    /\ \A c, d \in DOMAIN imports :
         imports[c].session = imports[d].session => c = d

\* A submitted session does not disappear without its import, wherever the
\* handler stops.
SubmittedIsRecorded ==
  \A s \in Sessions :
    sessions[s] = "submitted" => \E c \in DOMAIN imports : imports[c].session = s

\* "nomeklatura raqami allaqachon ... tovariga biriktirilgan": in order, a code
\* that goods of the location have is never given to goods of another name, nor
\* are its goods renamed, except by the edit that renames the row that has it.
\* Three handlers give codes, each with a check of its own, and an import writes
\* its name over that of the row it finds.
CodeKeepsItsName ==
  [][orderly' =>
       \A i \in DOMAIN rows, j \in DOMAIN rows' :
         rows[i].code # NoCode /\ rows'[j].code = rows[i].code =>
           \/ rows'[j].name = rows[i].name
           \/ i = j /\ \E p \in Procs : running[p].stage = "save" /\ running'[p] = Idle]_vars

==============================================================================
