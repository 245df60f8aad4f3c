-------------------------- MODULE WarehouseImportProofs --------------------------
(***************************************************************************)
(* Theorems about WarehouseImport, for any goods, codes, lists, edits,     *)
(* deployments and number of handlers.                                     *)
(***************************************************************************)
EXTENDS WarehouseImport, SumLemmas, SequenceTheorems, TLAPS

----------------------------------------------------------------------------
(* Rows *)

LEMMA EditOfRow ==
  ASSUME NEW set, NEW row \in Row, NEW other \in Row, Written(row, set) \in Row
  PROVE  Written(other, set) \in Row
BY DEF Written, Row

LEMMA ItemKeyType ==
  ASSUME NEW name \in Names, NEW characteristics \in Characteristics, NEW code \in MaybeCode
  PROVE  ItemKey(name, characteristics, code) \in ItemKeys
BY DEF ItemKey, ItemKeys, MaybeCode, Goods

LEMMA ImportedType ==
  ASSUME NEW row \in Row, NEW item \in Item, NEW rebarcode \in BOOLEAN
  PROVE  Imported(row, item, rebarcode) \in Row
<1>1. item.name \in Names /\ item.characteristics \in Characteristics /\ item.code \in MaybeCode
  BY DEF Item, MaybeCode
<1>2. row.barcode \in Goods \cup Codes /\ row.quantity + 1 \in Nat
  BY DEF Row
<1>3. <<item.name, item.characteristics>> \in Goods
  BY <1>1 DEF Goods
<1> QED
  BY <1>1, <1>2, <1>3, ItemKeyType DEF Imported, Row

LEMMA EditedType ==
  ASSUME NEW row \in Row, NEW dto \in Dtos, Edited(row, dto).quantity >= 0
  PROVE  Edited(row, dto) \in Row
<1> DEFINE next == Written(row, dto)
<1>1. /\ "name" \in DOMAIN dto => dto["name"] \in Names
      /\ "characteristics" \in DOMAIN dto => dto["characteristics"] \in Characteristics
      /\ "code" \in DOMAIN dto => dto["code"] \in MaybeCode
      /\ "barcode" \in DOMAIN dto => dto["barcode"] \in Codes \cup {""}
      /\ "quantity" \in DOMAIN dto => dto["quantity"] \in Int
  <2>1. /\ EditOf["name"] = Names /\ EditOf["characteristics"] = Characteristics
        /\ EditOf["code"] = MaybeCode /\ EditOf["barcode"] = Codes \cup {""}
        /\ EditOf["quantity"] = Int
    BY DEF EditOf, MaybeCode
  <2>2. \A f \in DOMAIN dto : dto[f] \in EditOf[f]
    BY ImportAssumption
  <2> QED
    BY <2>1, <2>2
<1>2. /\ next.name \in Names /\ next.characteristics \in Characteristics
      /\ next.code \in MaybeCode /\ next.quantity \in Int
  <2>1. /\ DOMAIN row = {"name", "characteristics", "code", "key", "barcode", "quantity"}
        /\ row.name \in Names /\ row.characteristics \in Characteristics
        /\ row.code \in MaybeCode /\ row.quantity \in Int
    BY DEF Row
  <2>2. \A f \in DOMAIN row : next[f] = IF f \in DOMAIN dto THEN dto[f] ELSE row[f]
    BY DEF Written
  <2> HIDE DEF next
  <2> QED
    BY <1>1, <2>1, <2>2
<1>3. next.quantity >= 0
  BY DEF Edited
<1>4. ItemKey(next.name, next.characteristics, next.code) \in ItemKeys
  BY <1>2, ItemKeyType
<1>5. Edited(row, dto).barcode \in Goods \cup Codes
  <2>1. <<next.name, next.characteristics>> \in Goods
    BY <1>2 DEF Goods
  <2>2. row.barcode \in Goods \cup Codes
    BY DEF Row
  <2> HIDE DEF next
  <2> QED
    BY <1>1, <2>1, <2>2 DEF Edited, ResolvedBarcode, next
<1> DEFINE barcode == Edited(row, dto).barcode
<1>6. Edited(row, dto) =
        [ name |-> next.name, characteristics |-> next.characteristics, code |-> next.code,
          key |-> ItemKey(next.name, next.characteristics, next.code),
          barcode |-> barcode, quantity |-> next.quantity ]
  BY DEF Edited
<1> HIDE DEF next, barcode
<1> QED
  BY <1>2, <1>3, <1>4, <1>5, <1>6 DEF Row, barcode

----------------------------------------------------------------------------
(* Handlers in flight *)

JobsOK ==
  /\ DOMAIN running = Procs
  /\ \A p \in Procs : IsEdit(running[p]) \/ running[p] \in Job

RowsOK == Len(rows) <= MaxRows /\ rows \in Seq(Row)

LEMMA StageOfJob ==
  ASSUME NEW job \in Job
  PROVE  /\ job.stage # "save"
         /\ job.stage = "draft" => job \in Draft
         /\ job.stage = "check" => job \in Check
         /\ job.stage \in Upserting => job \in Upsert
         /\ job.stage = "record" => job \in Record
         /\ job.stage = "drop" => job \in Drop
BY DEF Job, Draft, Check, Upsert, Record, Drop, Upserting

LEMMA StageOfRunning ==
  ASSUME TypeOK, NEW p \in Procs
  PROVE  /\ running[p].stage = "draft" => running[p] \in Draft
         /\ running[p].stage = "check" => running[p] \in Check
         /\ running[p].stage \in Upserting => running[p] \in Upsert
         /\ running[p].stage = "record" => running[p] \in Record
         /\ running[p].stage = "drop" => running[p] \in Drop
         /\ running[p].stage = "save" => IsEdit(running[p])
<1>1. CASE IsEdit(running[p])
  BY <1>1 DEF IsEdit, Upserting
<1>2. CASE running[p] \in Job
  BY <1>2, StageOfJob
<1> QED
  BY <1>1, <1>2 DEF TypeOK

\* Rows are never removed, so an edit in flight keeps its row.
LEMMA EditKept ==
  ASSUME TypeOK, RowsOK', DOMAIN rows \subseteq DOMAIN rows', NEW job, IsEdit(job)
  PROVE  IsEdit(job)'
<1>1. job.row \in DOMAIN rows /\ job.row \in DOMAIN rows'
  BY DEF IsEdit
<1>2. rows[job.row] \in Row /\ rows'[job.row] \in Row
  BY <1>1 DEF TypeOK, RowsOK
<1> QED
  BY <1>1, <1>2, EditOfRow DEF IsEdit

LEMMA JobsKept ==
  ASSUME TypeOK, RowsOK', DOMAIN rows \subseteq DOMAIN rows', NEW p \in Procs,
         NEW job, job \in Job \/ IsEdit(job)', running' = [running EXCEPT ![p] = job]
  PROVE  JobsOK'
<1>1. DOMAIN running' = Procs /\ running'[p] = job
  BY DEF TypeOK
<1>2. ASSUME NEW q \in Procs, q # p
      PROVE  IsEdit(running[q])' \/ running'[q] \in Job
  <2>1. running'[q] = running[q]
    BY <1>2 DEF TypeOK
  <2>2. CASE running[q] \in Job
    BY <2>1, <2>2
  <2>3. CASE IsEdit(running[q])
    BY <2>1, <2>3, EditKept DEF IsEdit
  <2> QED
    BY <2>2, <2>3 DEF TypeOK
<1>3. job \in Job \/ IsEdit(running[p])'
  BY <1>1 DEF IsEdit
<1> QED
  BY <1>1, <1>2, <1>3 DEF JobsOK

LEMMA IdleIsJob == Idle \in Job
BY DEF Idle, Job

LEMMA UpsertedType ==
  ASSUME NEW job \in Upsert
  PROVE  Upserted(job) \in Job
<1> DEFINE left == Tail(job.items)
<1>1. job.items \in Seq(Item) /\ job.items # <<>> /\ job.session \in Sessions
      /\ job.pieces \in Nat
  BY DEF Upsert
<1>2. left \in Seq(Item) /\ Len(left) = Len(job.items) - 1 /\ Len(job.items) \in Nat \ {0}
  BY <1>1, HeadTailProperties, EmptySeq
<1>3. Upserted(job) =
        [ stage |-> IF Len(job.items) = 1 THEN "record" ELSE "find",
          session |-> job.session, items |-> left, pieces |-> job.pieces,
          row |-> 0, rebarcode |-> FALSE ]
  <2>1. job = [ stage |-> job.stage, session |-> job.session, items |-> job.items,
                pieces |-> job.pieces, row |-> job.row, rebarcode |-> job.rebarcode ]
    BY DEF Upsert
  <2> DEFINE stage == IF Len(job.items) = 1 THEN "record" ELSE "find"
  <2>2. Upserted(job) =
          [job EXCEPT !.stage = stage, !.items = left, !.row = 0, !.rebarcode = FALSE]
    BY DEF Upserted
  <2> HIDE DEF left, stage
  <2>3. Upserted(job) =
          [ stage |-> stage, session |-> job.session, items |-> left,
            pieces |-> job.pieces, row |-> 0, rebarcode |-> FALSE ]
    BY <2>1, <2>2
  <2> QED
    BY <2>3 DEF stage
<1> HIDE DEF left
<1>4. CASE Len(job.items) = 1
  <2>1. left = <<>>
    BY <1>2, <1>4, EmptySeq
  <2>2. Upserted(job) \in Record
    BY <1>1, <1>3, <1>4, <2>1 DEF Record
  <2> QED
    BY <2>2 DEF Job
<1>5. CASE Len(job.items) # 1
  <2>1. left # <<>>
    <3>1. Len(left) # 0
      BY <1>2, <1>5
    <3> QED
      BY <3>1
  <2>2. Upserted(job) \in Upsert
    BY <1>1, <1>2, <1>3, <1>5, <2>1, ImportAssumption DEF Upsert, Upserting
  <2> QED
    BY <2>2 DEF Job
<1> QED
  BY <1>4, <1>5

----------------------------------------------------------------------------
(* Types *)

\* What the lemmas below say of rows, and of what the handlers hold.
RowsGrow == RowsOK' /\ DOMAIN rows \subseteq DOMAIN rows'

LEMMA RowsStay ==
  ASSUME TypeOK, UNCHANGED rows
  PROVE  RowsGrow
BY DEF TypeOK, RowsOK, RowsGrow

LEMMA RowChanges ==
  ASSUME TypeOK, NEW i, NEW row \in Row, rows' = [rows EXCEPT ![i] = row]
  PROVE  RowsGrow
<1>1. CASE i \in DOMAIN rows
  BY <1>1, ExceptSeq, LenProperties DEF TypeOK, RowsOK, RowsGrow
<1>2. CASE i \notin DOMAIN rows
  <2>1. rows' = rows
    BY <1>2, LenProperties DEF TypeOK
  <2> QED
    BY <2>1, RowsStay
<1> QED
  BY <1>1, <1>2

LEMMA RowComes ==
  ASSUME TypeOK, NEW row \in Row, rows' = Append(rows, row), Len(rows) < MaxRows
  PROVE  RowsGrow
BY AppendProperties, LenProperties, ImportAssumption DEF TypeOK, RowsOK, RowsGrow

LEMMA SaveType ==
  ASSUME TypeOK, NEW p \in Procs, NEW i \in DOMAIN rows, NEW row \in Row, UNCHANGED rows,
         GoOn(p, [stage |-> "save", row |-> i, set |-> Changed(rows[i], row)])
  PROVE  JobsOK'
<1> DEFINE job == [stage |-> "save", row |-> i, set |-> Changed(rows[i], row)]
<1>1. rows[i] \in Row
  BY DEF TypeOK
<1>2. Written(rows[i], Changed(rows[i], row)) = row
  BY <1>1 DEF Written, Changed, Row
<1>3. IsEdit(job)'
  BY <1>2 DEF IsEdit
<1>4. running' = [running EXCEPT ![p] = job]
  BY DEF GoOn
<1> QED
  BY <1>3, <1>4, RowsStay, JobsKept DEF RowsGrow

\* A handler goes on with a job of the type, whatever it did to the rows.
LEMMA GoOnType ==
  ASSUME TypeOK, RowsGrow, NEW p \in Procs, NEW job \in Job, GoOn(p, job)
  PROVE  JobsOK'
BY JobsKept DEF RowsGrow, GoOn

LEMMA BeginType ==
  ASSUME TypeOK, NEW p \in Procs, Begin(p)
  PROVE  /\ RowsGrow /\ JobsOK'
         /\ sessions' \in [Sessions -> {"open", "deleted", "submitted"}]
         /\ edits' \in 0..MaxEdits
         /\ UNCHANGED <<active, lastCode, imports, moved>>
<1>1. ASSUME NEW s \in Sessions, DeleteActiveSession(p, s)
      PROVE  /\ RowsGrow /\ JobsOK' /\ UNCHANGED <<active, lastCode, imports, moved, edits>>
             /\ sessions' \in [Sessions -> {"open", "deleted", "submitted"}]
  <2>1. UNCHANGED <<rows, running>>
    BY <1>1 DEF DeleteActiveSession
  <2>2. JobsOK'
    BY <2>1 DEF TypeOK, JobsOK, IsEdit
  <2> QED
    BY <1>1, <2>1, <2>2, RowsStay DEF DeleteActiveSession, TypeOK
<1>2. ASSUME NEW s \in Sessions, NEW items \in Orders \cup {<<>>}, BeginSave(p, s, items)
      PROVE  RowsGrow /\ JobsOK' /\ UNCHANGED <<active, lastCode, imports, sessions, moved, edits>>
  <2> DEFINE job == [stage |-> "draft", session |-> s, items |-> items, fresh |-> TRUE]
  <2>1. job \in Job
    BY DEF Job, Draft
  <2> HIDE DEF job
  <2>2. GoOn(p, job) /\ UNCHANGED <<rows, active, lastCode, imports, sessions, moved, edits>>
    BY <1>2 DEF BeginSave, job
  <2> QED
    BY <2>1, <2>2, RowsStay, GoOnType
<1>3. ASSUME NEW i \in DOMAIN rows, NEW code \in Codes, BeginNomenclature(p, i, code)
      PROVE  /\ RowsGrow /\ JobsOK' /\ edits' \in 0..MaxEdits
             /\ UNCHANGED <<active, lastCode, imports, sessions, moved>>
  <2> DEFINE row == [rows[i] EXCEPT
                !.code = code,
                !.key = ItemKey(rows[i].name, rows[i].characteristics, code),
                !.barcode = ResolvedBarcode(rows[i].name, rows[i].characteristics, @, code)]
  <2>1. rows[i] \in Row
    BY DEF TypeOK
  <2>2. code \in MaybeCode /\ rows[i].name \in Names /\ rows[i].characteristics \in Characteristics
    BY <2>1 DEF Row, MaybeCode
  <2>3. ItemKey(rows[i].name, rows[i].characteristics, code) \in ItemKeys
    BY <2>2, ItemKeyType
  <2>4. ResolvedBarcode(rows[i].name, rows[i].characteristics, rows[i].barcode, code)
          \in Goods \cup Codes
    BY <2>1, <2>2 DEF ResolvedBarcode, Goods, Row
  <2>5. row \in Row
    BY <2>1, <2>2, <2>3, <2>4 DEF Row
  <2>6. GoOn(p, [stage |-> "save", row |-> i, set |-> Changed(rows[i], row)])
    BY <1>3 DEF BeginNomenclature
  <2>7. /\ UNCHANGED <<rows, active, lastCode, imports, sessions, moved>>
        /\ edits' \in 0..MaxEdits
    BY <1>3, ImportAssumption DEF BeginNomenclature, TypeOK
  <2> HIDE DEF row
  <2> QED
    BY <2>5, <2>6, <2>7, RowsStay, SaveType
<1>4. ASSUME NEW i \in DOMAIN rows, NEW dto \in Dtos, BeginEdit(p, i, dto)
      PROVE  /\ RowsGrow /\ JobsOK' /\ edits' \in 0..MaxEdits
             /\ UNCHANGED <<active, lastCode, imports, sessions, moved>>
  <2>1. rows[i] \in Row
    BY DEF TypeOK
  <2>2. Edited(rows[i], dto) \in Row
    BY <1>4, <2>1, EditedType DEF BeginEdit
  <2>3. GoOn(p, [stage |-> "save", row |-> i, set |-> Changed(rows[i], Edited(rows[i], dto))])
    BY <1>4 DEF BeginEdit
  <2>4. /\ UNCHANGED <<rows, active, lastCode, imports, sessions, moved>>
        /\ edits' \in 0..MaxEdits
    BY <1>4, ImportAssumption DEF BeginEdit, TypeOK
  <2> QED
    BY <2>2, <2>3, <2>4, RowsStay, SaveType
<1>5. ASSUME BeginClose(p)
      PROVE  RowsGrow /\ JobsOK' /\ UNCHANGED <<active, lastCode, imports, sessions, moved, edits>>
  <2>1. [stage |-> "close"] \in Job
    BY DEF Job
  <2>2. /\ GoOn(p, [stage |-> "close"])
        /\ UNCHANGED <<rows, active, lastCode, imports, sessions, moved, edits>>
    BY <1>5 DEF BeginClose
  <2> QED
    BY <2>1, <2>2, RowsStay, GoOnType
<1>6. edits \in 0..MaxEdits /\ sessions \in [Sessions -> {"open", "deleted", "submitted"}]
  BY DEF TypeOK
<1> QED
  BY <1>1, <1>2, <1>3, <1>4, <1>5, <1>6 DEF Begin

\* The types of everything else.
Import == [session : Sessions, pieces : Nat]

OthersOK ==
  /\ active \in BOOLEAN
  /\ lastCode \in 0..MaxCode
  /\ imports \in Seq(Import)
  /\ sessions \in [Sessions -> {"open", "deleted", "submitted"}]
  /\ edits \in 0..MaxEdits
  /\ moved \in Int

LEMMA TypeParts ==
  /\ TypeOK => RowsOK /\ JobsOK /\ OthersOK
  /\ TypeOK /\ RowsGrow /\ JobsOK' /\ OthersOK' /\ UNCHANGED indexes /\ orderly' \in BOOLEAN
       => TypeOK'
BY DEF TypeOK, RowsOK, JobsOK, OthersOK, RowsGrow, Import

\* The rows stay and the handler goes on.
LEMMA JobMoves ==
  ASSUME TypeOK, NEW p \in Procs, NEW job \in Job, GoOn(p, job), UNCHANGED rows
  PROVE  RowsGrow /\ JobsOK'
BY RowsStay, GoOnType

LEMMA HeadIsItem ==
  ASSUME NEW job \in Upsert
  PROVE  Head(job.items) \in Item /\ job.rebarcode \in BOOLEAN
BY HeadTailProperties DEF Upsert

LEMMA DraftType ==
  ASSUME TypeOK, NEW p \in Procs, SaveActiveSession(p)
  PROVE  RowsGrow /\ JobsOK' /\ OthersOK'
<1> DEFINE job == running[p]
           saved == job.fresh /\ sessions[job.session] = "open"
           next == IF saved /\ job.items # <<>>
                   THEN [stage |-> "check", session |-> job.session, items |-> job.items]
                   ELSE Idle
<1>1. job \in Draft
  BY StageOfRunning DEF SaveActiveSession
<1>2. next \in Job
  <2>1. CASE saved /\ job.items # <<>>
    <3>1. next \in Check
      BY <1>1, <2>1 DEF Check, Draft
    <3> QED
      BY <3>1 DEF Job
  <2>2. CASE ~(saved /\ job.items # <<>>)
    BY <2>2, IdleIsJob
  <2> QED
    BY <2>1, <2>2
<1>3. ASSUME NEW q \in Procs
      PROVE  \/ q = p /\ running'[q] = next
             \/ running'[q] = running[q]
             \/ running[q].stage = "draft" /\ running'[q] = [running[q] EXCEPT !.fresh = FALSE]
  BY <1>3 DEF SaveActiveSession
<1>4. ASSUME NEW q \in Procs
      PROVE  IsEdit(running[q])' \/ running'[q] \in Job
  <2>1. CASE running'[q] = next
    BY <1>2, <2>1
  <2>2. CASE running'[q] = running[q]
    BY <1>4, <2>2 DEF TypeOK, IsEdit, SaveActiveSession
  <2>3. CASE running[q].stage = "draft" /\ running'[q] = [running[q] EXCEPT !.fresh = FALSE]
    <3>1. running[q] \in Draft
      BY <2>3, StageOfRunning
    <3>2. running'[q] \in Draft
      BY <2>3, <3>1 DEF Draft
    <3> QED
      BY <3>2 DEF Job
  <2> QED
    BY <1>3, <2>1, <2>2, <2>3
<1>5. DOMAIN running' = Procs
  BY DEF SaveActiveSession
<1>6. UNCHANGED <<active, rows, lastCode, imports, sessions, moved, edits>>
  BY DEF SaveActiveSession
<1> QED
  BY <1>4, <1>5, <1>6, RowsStay, TypeParts DEF JobsOK, OthersOK

LEMMA CheckType ==
  ASSUME TypeOK, NEW p \in Procs, AcceptImport(p) \/ RefuseImport(p)
  PROVE  RowsGrow /\ JobsOK' /\ OthersOK'
<1>1. running[p] \in Check
  BY StageOfRunning DEF AcceptImport, RefuseImport
<1>2. CASE AcceptImport(p)
  <2>1. Accepted(running[p]) \in Upsert
    BY <1>1, ImportAssumption, EmptySeq, LenProperties DEF Accepted, Check, Upsert, Upserting
  <2>2. Accepted(running[p]) \in Job
    BY <2>1 DEF Job
  <2>3. /\ GoOn(p, Accepted(running[p])) /\ lastCode' = lastCode + 1 /\ lastCode < MaxCode
        /\ UNCHANGED <<active, rows, imports, sessions, moved, edits>>
    BY <1>2 DEF AcceptImport
  <2> QED
    BY <2>2, <2>3, JobMoves, TypeParts, ImportAssumption DEF OthersOK
<1>3. CASE RefuseImport(p)
  <2>1. GoOn(p, Idle) /\ UNCHANGED <<active, rows, lastCode, imports, sessions, moved, edits>>
    BY <1>3 DEF RefuseImport
  <2> QED
    BY <2>1, IdleIsJob, JobMoves, TypeParts DEF OthersOK
<1> QED
  BY <1>2, <1>3

LEMMA FindType ==
  ASSUME TypeOK, NEW p \in Procs, NEW i \in 0..Len(rows), FindExisting(p, i)
  PROVE  RowsGrow /\ JobsOK' /\ OthersOK'
<1> DEFINE job == running[p]
           rebarcode == job.stage = "find" /\ rows[i].barcode = Head(job.items).code
           found == [job EXCEPT !.stage = "update", !.row = i, !.rebarcode = rebarcode]
           missed == [job EXCEPT !.stage = "create"]
<1>1. job \in Upsert
  BY StageOfRunning DEF FindExisting, Upserting
<1>2. i \in 0..MaxRows
  BY ImportAssumption, LenProperties DEF TypeOK
<1>3. rebarcode \in BOOLEAN
  OBVIOUS
<1>4. found \in Upsert
  <2> HIDE DEF rebarcode
  <2> QED
    BY <1>1, <1>2, <1>3 DEF Upsert, Upserting
<1>5. missed \in Upsert
  BY <1>1 DEF Upsert, Upserting
<1>6. \/ GoOn(p, found) \/ GoOn(p, missed)
  BY DEF FindExisting
<1>7. UNCHANGED <<active, rows, lastCode, imports, sessions, moved, edits>>
  BY DEF FindExisting
<1>8. found \in Job /\ missed \in Job
  BY <1>4, <1>5 DEF Job
<1> HIDE DEF found, missed
<1> QED
  BY <1>6, <1>7, <1>8, JobMoves, TypeParts DEF OthersOK

LEMMA UpdateType ==
  ASSUME TypeOK, NEW p \in Procs, UpdateExisting(p)
  PROVE  RowsGrow /\ JobsOK' /\ OthersOK'
<1> DEFINE job == running[p]
           row == Imported(rows[job.row], Head(job.items), job.rebarcode)
<1>1. job \in Upsert
  BY StageOfRunning DEF UpdateExisting, Upserting
<1>2. Upserted(job) \in Job
  BY <1>1, UpsertedType
<1>3. /\ rows' = [rows EXCEPT ![job.row] = row] /\ GoOn(p, Upserted(job))
      /\ UNCHANGED <<active, lastCode, imports, sessions, moved, edits>>
  BY DEF UpdateExisting
<1>4. RowsGrow
  <2>1. CASE job.row \in DOMAIN rows
    <3>1. rows[job.row] \in Row
      BY <2>1 DEF TypeOK
    <3>2. row \in Row
      BY <1>1, <3>1, HeadIsItem, ImportedType
    <3> QED
      BY <1>3, <3>2, RowChanges
  <2>2. CASE job.row \notin DOMAIN rows
    <3>1. rows' = rows
      BY <1>3, <2>2, LenProperties DEF TypeOK
    <3> QED
      BY <3>1, RowsStay
  <2> QED
    BY <2>1, <2>2
<1> QED
  BY <1>2, <1>3, <1>4, GoOnType, TypeParts DEF OthersOK

LEMMA CreateType ==
  ASSUME TypeOK, NEW p \in Procs, CreateRow(p)
  PROVE  RowsGrow /\ JobsOK' /\ OthersOK'
<1> DEFINE job == running[p]
           item == Head(job.items)
           row == [ name |-> item.name, characteristics |-> item.characteristics,
                    code |-> item.code,
                    key |-> ItemKey(item.name, item.characteristics, item.code),
                    barcode |-> <<item.name, item.characteristics>>, quantity |-> 1 ]
           again == [job EXCEPT !.stage = "refind"]
<1>1. job \in Upsert
  BY StageOfRunning DEF CreateRow, Upserting
<1>2. again \in Job
  <2>1. again \in Upsert
    BY <1>1 DEF Upsert, Upserting
  <2> QED
    BY <2>1 DEF Job
<1>3. Upserted(job) \in Job
  BY <1>1, UpsertedType
<1>4. row \in Row
  <2>1. item \in Item
    BY <1>1, HeadIsItem
  <2> HIDE DEF item
  <2>2. item.name \in Names /\ item.characteristics \in Characteristics /\ item.code \in MaybeCode
    BY <2>1 DEF Item, MaybeCode
  <2>3. ItemKey(item.name, item.characteristics, item.code) \in ItemKeys
    BY <2>2, ItemKeyType
  <2> QED
    BY <2>2, <2>3 DEF Row, Goods
<1>5. /\ UNCHANGED <<active, lastCode, imports, sessions, moved, edits>>
      /\ \/ rows' = rows /\ GoOn(p, again)
         \/ Len(rows) < MaxRows /\ rows' = Append(rows, row) /\ GoOn(p, Upserted(job))
  BY DEF CreateRow
<1> HIDE DEF row, again
<1>6. CASE rows' = rows /\ GoOn(p, again)
  BY <1>2, <1>5, <1>6, JobMoves, TypeParts DEF OthersOK
<1>7. CASE Len(rows) < MaxRows /\ rows' = Append(rows, row) /\ GoOn(p, Upserted(job))
  BY <1>3, <1>4, <1>5, <1>7, RowComes, GoOnType, TypeParts DEF OthersOK
<1> QED
  BY <1>5, <1>6, <1>7

LEMMA RecordType ==
  ASSUME TypeOK, NEW p \in Procs, CreateImport(p) \/ DropSession(p)
  PROVE  RowsGrow /\ JobsOK' /\ OthersOK'
<1>1. CASE CreateImport(p)
  <2> DEFINE job == running[p]
             drop == [stage |-> "drop", session |-> job.session]
             import == [session |-> job.session, pieces |-> job.pieces]
  <2>1. job \in Record
    BY <1>1, StageOfRunning DEF CreateImport
  <2>2. drop \in Job /\ import \in Import
    BY <2>1 DEF Record, Drop, Job, Import
  <2>3. /\ GoOn(p, drop) /\ imports' = Append(imports, import)
        /\ UNCHANGED <<active, rows, lastCode, sessions, moved, edits>>
    BY <1>1 DEF CreateImport
  <2> HIDE DEF drop, import
  <2>4. imports' \in Seq(Import)
    BY <2>2, <2>3, TypeParts, AppendProperties DEF OthersOK
  <2> QED
    BY <2>2, <2>3, <2>4, JobMoves, TypeParts DEF OthersOK
<1>2. CASE DropSession(p)
  <2>1. /\ GoOn(p, Idle) /\ UNCHANGED <<active, rows, lastCode, imports, moved, edits>>
        /\ sessions' = [sessions EXCEPT ![running[p].session] =
                          IF @ = "open" THEN "submitted" ELSE @]
    BY <1>2 DEF DropSession
  <2>2. sessions' \in [Sessions -> {"open", "deleted", "submitted"}]
    BY <2>1 DEF TypeOK
  <2> QED
    BY <2>1, <2>2, IdleIsJob, JobMoves, TypeParts DEF OthersOK
<1> QED
  BY <1>1, <1>2

LEMMA SaveRowType ==
  ASSUME TypeOK, NEW p \in Procs, SaveRow(p)
  PROVE  RowsGrow /\ JobsOK' /\ OthersOK'
<1> DEFINE job == running[p]
           row == Written(rows[job.row], job.set)
           refused == Conflicts(job.row, row)
<1>1. IsEdit(job)
  BY StageOfRunning DEF SaveRow
<1>2. row \in Row /\ rows[job.row] \in Row
  BY <1>1 DEF IsEdit, TypeOK
<1>3. /\ GoOn(p, Idle) /\ UNCHANGED <<active, lastCode, imports, sessions, edits>>
      /\ rows' = IF refused THEN rows ELSE [rows EXCEPT ![job.row] = row]
      /\ moved' = IF refused THEN moved ELSE moved + row.quantity - rows[job.row].quantity
  BY DEF SaveRow
<1> HIDE DEF row, refused
<1>4. moved' \in Int
  BY <1>2, <1>3 DEF TypeOK, Row
<1>5. RowsGrow
  BY <1>2, <1>3, RowsStay, RowChanges
<1> QED
  BY <1>3, <1>4, <1>5, IdleIsJob, GoOnType, TypeParts DEF OthersOK

LEMMA EndType ==
  ASSUME TypeOK, NEW p \in Procs, DeleteLocation(p) \/ Fail(p) \/ Crash(p)
  PROVE  RowsGrow /\ JobsOK' /\ OthersOK'
<1>1. GoOn(p, Idle) /\ UNCHANGED <<rows, lastCode, imports, sessions, moved, edits>>
  BY DEF DeleteLocation, Fail, Crash
<1>2. active' \in BOOLEAN
  BY DEF DeleteLocation, Fail, Crash, TypeOK
<1> QED
  BY <1>1, <1>2, IdleIsJob, JobMoves, TypeParts DEF OthersOK

LEMMA DeductType ==
  ASSUME TypeOK, NEW i \in DOMAIN rows, Deduct(i)
  PROVE  RowsGrow /\ JobsOK' /\ OthersOK'
<1> DEFINE row == [rows[i] EXCEPT !.quantity = @ - 1]
<1>1. rows[i] \in Row
  BY DEF TypeOK
<1>2. row \in Row
  BY <1>1 DEF Deduct, Row
<1>3. rows' = [rows EXCEPT ![i] = row]
  BY DEF Deduct
<1>4. RowsGrow
  <2> HIDE DEF row
  <2> QED
    BY <1>2, <1>3, RowChanges
<1>5. JobsOK'
  <2>1. running' = running
    BY DEF Deduct
  <2>2. ASSUME NEW q \in Procs, IsEdit(running[q])
        PROVE  IsEdit(running[q])'
    BY <1>4, <2>1, <2>2, EditKept DEF RowsGrow, IsEdit
  <2> QED
    BY <2>1, <2>2 DEF TypeOK, JobsOK
<1>6. OthersOK'
  BY ImportAssumption, TypeParts DEF Deduct, OthersOK
<1> QED
  BY <1>4, <1>5, <1>6

LEMMA InitType == Init => TypeOK
<1> SUFFICES ASSUME Init PROVE TypeOK
  OBVIOUS
<1>1. rows \in Seq(Row) /\ Len(rows) <= 1
  <2>1. CASE rows = <<>>
    BY <2>1, EmptySeq
  <2>2. ASSUME NEW goods \in Goods, rows = <<Received(goods[1], goods[2])>>
        PROVE  rows \in Seq(Row) /\ Len(rows) <= 1
    <3>1. goods[1] \in Names /\ goods[2] \in Characteristics
      BY <2>2 DEF Goods
    <3>2. Received(goods[1], goods[2]) \in Row
      BY <3>1, ItemKeyType DEF Received, Row, MaybeCode, Goods
    <3> QED
      BY <2>2, <3>2
  <2> QED
    BY <2>1, <2>2 DEF Init
<1> QED
  <2>1. imports \in Seq([session : Sessions, pieces : Nat])
    BY EmptySeq DEF Init
  <2>2. DOMAIN running = Procs /\ \A p \in Procs : running[p] \in Job
    BY IdleIsJob DEF Init
  <2>3. rows = <<>> \/ \E goods \in Goods : rows = <<Received(goods[1], goods[2])>>
    BY DEF Init
  <2>4. Len(rows) <= MaxRows
    BY <1>1, <2>3, ImportAssumption
  <2> QED
    BY <1>1, <2>1, <2>2, <2>4, ImportAssumption, LenProperties DEF Init, TypeOK

LEMMA NextType == TypeOK /\ [Next]_vars => TypeOK'
<1> SUFFICES ASSUME TypeOK, [Next]_vars PROVE TypeOK'
  OBVIOUS
<1>1. ASSUME NEW p \in Procs, Begin(p)
      PROVE  RowsGrow /\ JobsOK' /\ OthersOK'
  BY <1>1, BeginType, TypeParts DEF OthersOK
<1>2. ASSUME NEW p \in Procs, Continue(p) \/ Fail(p) \/ Crash(p)
      PROVE  RowsGrow /\ JobsOK' /\ OthersOK'
  BY <1>2, DraftType, CheckType, FindType, UpdateType, CreateType, RecordType, SaveRowType,
     EndType DEF Continue
<1>3. CASE UNCHANGED vars
  BY <1>3 DEF vars, TypeOK, IsEdit
<1>4. CASE Next
  <2>1. UNCHANGED indexes /\ orderly' \in BOOLEAN
    BY <1>4 DEF Next
  <2>2. RowsGrow /\ JobsOK' /\ OthersOK'
    BY <1>1, <1>2, <1>4, DeductType DEF Next
  <2> QED
    BY <2>1, <2>2, TypeParts
<1> QED
  BY <1>3, <1>4

\* Rows, sessions and handlers keep their types: quantities stay natural
\* numbers however edits, imports and deductions overlap.
THEOREM TypeCorrect == Spec => []TypeOK
BY InitType, NextType, PTL DEF Spec

----------------------------------------------------------------------------
(* A submitted session has its import *)

Known(s, list) == \E c \in DOMAIN list : list[c].session = s

\* The strengthening: a handler that is about to drop its session has recorded
\* the import.
DroppedIsRecorded == \A p \in Procs : running[p].stage = "drop" => Known(running[p].session, imports)

SubmissionInv == TypeOK /\ SubmittedIsRecorded /\ DroppedIsRecorded

LEMMA RecordsStay ==
  ASSUME TypeOK, imports' = imports \/ \E c \in Import : imports' = Append(imports, c)
  PROVE  \A s : Known(s, imports) => Known(s, imports')
<1>1. imports \in Seq(Import)
  BY DEF TypeOK, Import
<1>2. ASSUME NEW c \in DOMAIN imports
      PROVE  c \in DOMAIN imports' /\ imports'[c] = imports[c]
  BY <1>1, <1>2, AppendProperties, LenProperties
<1> QED
  BY <1>2 DEF Known

\* Only a handler that has recorded an import goes on to drop the session, and
\* only the drop submits it.
LEMMA NextSubmits ==
  ASSUME TypeOK, NEW p \in Procs, Begin(p) \/ Continue(p) \/ Fail(p) \/ Crash(p)
  PROVE  /\ imports' = imports \/ \E c \in Import : imports' = Append(imports, c)
         /\ \A q \in Procs : running'[q].stage = "drop" =>
              \/ running[q].stage = "drop" /\ running'[q].session = running[q].session
              \/ Known(running'[q].session, imports')
         /\ \A s \in Sessions : sessions'[s] = "submitted" =>
              \/ sessions[s] = "submitted"
              \/ running[p].stage = "drop" /\ running[p].session = s
<1> DEFINE Recorded1 == imports' = imports \/ \E c \in Import : imports' = Append(imports, c)
           Dropping == \A q \in Procs : running'[q].stage = "drop" =>
              \/ running[q].stage = "drop" /\ running'[q].session = running[q].session
              \/ Known(running'[q].session, imports')
           Submitting == \A s \in Sessions : sessions'[s] = "submitted" =>
              \/ sessions[s] = "submitted"
              \/ running[p].stage = "drop" /\ running[p].session = s
<1>0. DOMAIN running = Procs
  BY DEF TypeOK
<1>1. ASSUME NEW job, job.stage # "drop", GoOn(p, job)
      PROVE  Dropping
  BY <1>0, <1>1 DEF GoOn
<1>2. ASSUME Begin(p)
      PROVE  Recorded1 /\ Dropping /\ Submitting
  <2>1. Recorded1
    BY <1>2, BeginType
  <2>2. Submitting
    BY <1>2 DEF Begin, DeleteActiveSession, BeginSave, BeginNomenclature, BeginEdit, BeginClose,
         TypeOK
  <2>3. Dropping
    <3>1. CASE \E s \in Sessions : DeleteActiveSession(p, s)
      BY <3>1 DEF DeleteActiveSession
    <3>2. CASE \E s \in Sessions, items \in Orders \cup {<<>>} : BeginSave(p, s, items)
      BY <1>0, <3>2 DEF BeginSave, GoOn
    <3>3. CASE \E i \in DOMAIN rows, code \in Codes : BeginNomenclature(p, i, code)
      BY <1>0, <3>3 DEF BeginNomenclature, GoOn
    <3>4. CASE \E i \in DOMAIN rows, dto \in Dtos : BeginEdit(p, i, dto)
      BY <1>0, <3>4 DEF BeginEdit, GoOn
    <3>5. CASE BeginClose(p)
      BY <1>0, <3>5 DEF BeginClose, GoOn
    <3> QED
      BY <1>2, <3>1, <3>2, <3>3, <3>4, <3>5 DEF Begin
  <2> QED
    BY <2>1, <2>2, <2>3
<1>3. ASSUME SaveActiveSession(p)
      PROVE  Recorded1 /\ Dropping /\ Submitting
  BY <1>3 DEF SaveActiveSession, Idle
<1>4. ASSUME AcceptImport(p) \/ RefuseImport(p) \/ SaveRow(p) \/ DeleteLocation(p)
             \/ Fail(p) \/ Crash(p)
      PROVE  Recorded1 /\ Dropping /\ Submitting
  <2>1. UNCHANGED <<imports, sessions>>
    BY <1>4 DEF AcceptImport, RefuseImport, SaveRow, DeleteLocation, Fail, Crash
  <2>2. GoOn(p, Idle) \/ GoOn(p, Accepted(running[p]))
    BY <1>4 DEF AcceptImport, RefuseImport, SaveRow, DeleteLocation, Fail, Crash
  <2>3. Dropping
    BY <1>0, <2>2 DEF GoOn, Idle, Accepted
  <2> QED
    BY <2>1, <2>3
<1>5. ASSUME (\E i \in 0..Len(rows) : FindExisting(p, i)) \/ UpdateExisting(p) \/ CreateRow(p)
      PROVE  Recorded1 /\ Dropping /\ Submitting
  <2>1. UNCHANGED <<imports, sessions>>
    BY <1>5 DEF FindExisting, UpdateExisting, CreateRow
  <2>2. running[p] \in Upsert
    BY <1>5, StageOfRunning DEF FindExisting, UpdateExisting, CreateRow, Upserting
  <2>3. running'[p].stage # "drop" /\ \A q \in Procs \ {p} : running'[q] = running[q]
    <3>1. CASE \E i \in 0..Len(rows) : FindExisting(p, i)
      <4>1. \E i \in 0..Len(rows), rebarcode \in BOOLEAN :
              \/ GoOn(p, [running[p] EXCEPT !.stage = "create"])
              \/ GoOn(p, [running[p] EXCEPT
                   !.stage = "update", !.row = i, !.rebarcode = rebarcode])
        BY <3>1 DEF FindExisting
      <4> QED
        BY <1>0, <2>2, <4>1 DEF GoOn, Upsert
    <3>2. CASE UpdateExisting(p)
      BY <1>0, <2>2, <3>2 DEF UpdateExisting, GoOn, Upsert, Upserted
    <3>3. CASE CreateRow(p)
      BY <1>0, <2>2, <3>3 DEF CreateRow, GoOn, Upsert, Upserted
    <3> QED
      BY <1>5, <3>1, <3>2, <3>3
  <2> QED
    BY <2>1, <2>3
<1>6. ASSUME CreateImport(p)
      PROVE  Recorded1 /\ Dropping /\ Submitting
  <2> DEFINE job == running[p]
             import == [session |-> job.session, pieces |-> job.pieces]
  <2>1. job \in Record
    BY <1>6, StageOfRunning DEF CreateImport
  <2>2. import \in Import
    BY <2>1 DEF Record, Import
  <2>3. imports' = Append(imports, import) /\ UNCHANGED sessions
        /\ running' = [running EXCEPT ![p] = [stage |-> "drop", session |-> job.session]]
    BY <1>6 DEF CreateImport, GoOn
  <2>4. Known(job.session, imports')
    <3>1. import.session = job.session
      OBVIOUS
    <3> HIDE DEF import
    <3>2. imports \in Seq(Import)
      BY DEF TypeOK, Import
    <3>3. Len(imports) + 1 \in DOMAIN imports' /\ imports'[Len(imports) + 1] = import
      BY <2>2, <2>3, <3>2, AppendProperties, LenProperties
    <3>4. \E c \in DOMAIN imports' : imports'[c].session = job.session
      BY <3>1, <3>3
    <3> QED
      BY <3>4 DEF Known
  <2>5. Dropping
    BY <1>0, <2>3, <2>4 DEF Known
  <2> QED
    BY <2>2, <2>3, <2>5
<1>7. ASSUME DropSession(p)
      PROVE  Recorded1 /\ Dropping /\ Submitting
  BY <1>0, <1>7 DEF DropSession, GoOn, Idle, TypeOK
<1> HIDE DEF Recorded1, Dropping, Submitting
<1>8. Recorded1 /\ Dropping /\ Submitting
  BY <1>2, <1>3, <1>4, <1>5, <1>6, <1>7 DEF Continue
<1> QED
  BY <1>8 DEF Recorded1, Dropping, Submitting

\* A submitted session never disappears without its import, for any number of
\* handlers and sessions, stops and refused writes included.
THEOREM SubmittedRecorded == Spec => []SubmittedIsRecorded
<1>1. Init => SubmissionInv
  BY InitType DEF Init, SubmissionInv, SubmittedIsRecorded, DroppedIsRecorded, Idle
<1>2. SubmissionInv /\ [Next]_vars => SubmissionInv'
  <2> SUFFICES ASSUME SubmissionInv, [Next]_vars PROVE SubmissionInv'
    OBVIOUS
  <2>1. TypeOK /\ TypeOK'
    BY NextType DEF SubmissionInv
  <2>2. ASSUME NEW p \in Procs, Begin(p) \/ Continue(p) \/ Fail(p) \/ Crash(p)
        PROVE  SubmittedIsRecorded' /\ DroppedIsRecorded'
    <3>1. \A s : Known(s, imports) => Known(s, imports')
      BY <2>1, <2>2, NextSubmits, RecordsStay
    <3>2. ASSUME NEW q \in Procs, running'[q].stage = "drop"
          PROVE  Known(running'[q].session, imports')
      BY <2>1, <2>2, <3>1, <3>2, NextSubmits DEF SubmissionInv, DroppedIsRecorded, Known
    <3>3. ASSUME NEW s \in Sessions, sessions'[s] = "submitted"
          PROVE  Known(s, imports')
      BY <2>1, <2>2, <3>1, <3>3, NextSubmits
      DEF SubmissionInv, DroppedIsRecorded, SubmittedIsRecorded, Known
    <3> QED
      BY <3>2, <3>3 DEF SubmittedIsRecorded, DroppedIsRecorded, Known
  <2>3. ASSUME NEW i \in DOMAIN rows, Deduct(i)
        PROVE  SubmittedIsRecorded' /\ DroppedIsRecorded'
    BY <2>3 DEF Deduct, SubmissionInv, SubmittedIsRecorded, DroppedIsRecorded, Known
  <2>4. ASSUME UNCHANGED vars
        PROVE  SubmittedIsRecorded' /\ DroppedIsRecorded'
    BY <2>4 DEF vars, SubmissionInv, SubmittedIsRecorded, DroppedIsRecorded, Known
  <2>5. SubmittedIsRecorded' /\ DroppedIsRecorded'
    BY <2>2, <2>3, <2>4 DEF Next
  <2> QED
    BY <2>1, <2>5 DEF SubmissionInv
<1>3. SubmissionInv => SubmittedIsRecorded
  BY DEF SubmissionInv
<1> QED
  BY <1>1, <1>2, <1>3, PTL DEF Spec

----------------------------------------------------------------------------
(* What is in the rows *)

\* The quantities of the rows in r, and the pieces of the imports in list.
StockIn(r) == SumFunction([i \in DOMAIN r |-> r[i].quantity])
RecordedIn(list) == SumFunction([c \in DOMAIN list |-> list[c].pieces])

\* A number is added at the end of a sequence.
LEMMA SumAppended ==
  ASSUME NEW n \in Nat, NEW f, NEW g, DOMAIN f = 1..n, DOMAIN g = 1..(n + 1),
         \A i \in 1..(n + 1) : g[i] \in Int, \A i \in 1..n : f[i] = g[i]
  PROVE  SumFunction(g) = SumFunction(f) + g[n + 1] /\ SumFunction(f) \in Int
<1>1. SumFunction(g) = SumFunctionOnSet(g, 1..(n + 1)) /\ SumFunction(f) = SumFunctionOnSet(f, 1..n)
  BY DEF SumFunction
<1>2. SumFunctionOnSet(g, 1..(n + 1)) = SumFunctionOnSet(g, 1..n) + g[n + 1]
  BY SumNext
<1>3. SumFunctionOnSet(g, 1..n) \in Int
  BY SumNext
<1>4. SumFunctionOnSet(f, 1..n) = SumFunctionOnSet(g, 1..n)
  <2>1. IsFiniteSet(1..n)
    BY FS_Interval
  <2> DEFINE S == 1..n
  <2>2. \A i \in S : f[i] = g[i]
    OBVIOUS
  <2> HIDE DEF S
  <2>3. SumFunctionOnSet(f, S) = SumFunctionOnSet(g, S)
    BY <2>1, <2>2, SumSame DEF S
  <2> QED
    BY <2>3 DEF S
<1> QED
  BY <1>1, <1>2, <1>3, <1>4

LEMMA StockType ==
  ASSUME NEW r \in Seq(Row)
  PROVE  StockIn(r) \in Int
<1> DEFINE f == [i \in DOMAIN r |-> r[i].quantity]
<1>1. DOMAIN f = DOMAIN r /\ IsFiniteSet(DOMAIN r)
  BY LenProperties, FS_Interval
<1>2. \A i \in DOMAIN r : f[i] \in Int
  <2>1. \A i \in DOMAIN r : r[i] \in Row
    BY LenProperties, ElementOfSeq
  <2> QED
    BY <2>1 DEF Row
<1> HIDE DEF f
<1>3. SumFunctionOnSet(f, DOMAIN r) \in Int
  BY <1>1, <1>2, SumIsInt
<1> QED
  BY <1>1, <1>3 DEF StockIn, SumFunction, f

LEMMA StockChanges ==
  ASSUME NEW r \in Seq(Row), NEW i \in DOMAIN r, NEW row \in Row
  PROVE  StockIn([r EXCEPT ![i] = row]) = StockIn(r) + row.quantity - r[i].quantity
<1> DEFINE n == [r EXCEPT ![i] = row]
           S == DOMAIN r
           f == [j \in S |-> r[j].quantity]
           g == [j \in S |-> n[j].quantity]
<1>1. IsFiniteSet(S) /\ i \in S
  BY LenProperties, FS_Interval
<1>2. \A j \in S : r[j] \in Row /\ n[j] \in Row
  BY LenProperties, ElementOfSeq
<1>3. \A j \in S : f[j] \in Int /\ g[j] \in Int
  BY <1>2 DEF Row
<1>4. \A j \in S : j # i => g[j] = f[j]
  OBVIOUS
<1>5. g[i] = row.quantity /\ f[i] = r[i].quantity
  OBVIOUS
<1>6. DOMAIN n = S /\ DOMAIN f = S /\ DOMAIN g = S
  OBVIOUS
<1>7. StockIn(r) = SumFunctionOnSet(f, S) /\ StockIn(n) = SumFunctionOnSet(g, S)
  BY <1>6 DEF StockIn, SumFunction
<1> HIDE DEF f, g, S
<1>8. SumFunctionOnSet(g, S) = SumFunctionOnSet(f, S) + g[i] - f[i]
  BY <1>1, <1>3, <1>4, SumChangeOne
<1> QED
  BY <1>5, <1>7, <1>8

LEMMA StockComes ==
  ASSUME NEW r \in Seq(Row), NEW row \in Row
  PROVE  StockIn(Append(r, row)) = StockIn(r) + row.quantity
<1> DEFINE n == Append(r, row)
           k == Len(r)
           f == [j \in DOMAIN r |-> r[j].quantity]
           g == [j \in DOMAIN n |-> n[j].quantity]
<1>1. n \in Seq(Row) /\ k \in Nat /\ DOMAIN r = 1..k /\ DOMAIN n = 1..(k + 1)
  BY AppendProperties, LenProperties
<1>2. \A j \in 1..(k + 1) : g[j] \in Int
  <2> HIDE DEF n, k
  <2>1. \A j \in DOMAIN n : n[j] \in Row
    BY <1>1, LenProperties, ElementOfSeq
  <2>2. \A j \in DOMAIN n : n[j].quantity \in Int
    BY <2>1 DEF Row
  <2> QED
    BY <1>1, <2>2
<1>3. \A j \in 1..k : f[j] = g[j]
  BY <1>1, AppendProperties
<1>4. g[k + 1] = row.quantity
  BY <1>1, AppendProperties
<1>5. DOMAIN f = 1..k /\ DOMAIN g = 1..(k + 1)
  BY <1>1
<1>6. StockIn(r) = SumFunction(f) /\ StockIn(n) = SumFunction(g)
  BY DEF StockIn
<1> HIDE DEF f, g, n, k
<1>7. SumFunction(g) = SumFunction(f) + g[k + 1]
  BY <1>1, <1>2, <1>3, <1>5, SumAppended
<1> QED
  BY <1>4, <1>6, <1>7 DEF n

LEMMA RecordedType ==
  ASSUME NEW list \in Seq(Import)
  PROVE  RecordedIn(list) \in Int
<1> DEFINE f == [c \in DOMAIN list |-> list[c].pieces]
<1>1. DOMAIN f = DOMAIN list /\ IsFiniteSet(DOMAIN list)
  BY LenProperties, FS_Interval
<1>2. \A c \in DOMAIN list : f[c] \in Int
  <2>1. \A c \in DOMAIN list : list[c] \in Import
    BY LenProperties, ElementOfSeq
  <2> QED
    BY <2>1 DEF Import
<1> HIDE DEF f
<1>3. SumFunctionOnSet(f, DOMAIN list) \in Int
  BY <1>1, <1>2, SumIsInt
<1> QED
  BY <1>1, <1>3 DEF RecordedIn, SumFunction, f

LEMMA RecordComes ==
  ASSUME NEW list \in Seq(Import), NEW c \in Import
  PROVE  RecordedIn(Append(list, c)) = RecordedIn(list) + c.pieces
<1> DEFINE n == Append(list, c)
           k == Len(list)
           f == [j \in DOMAIN list |-> list[j].pieces]
           g == [j \in DOMAIN n |-> n[j].pieces]
<1>1. n \in Seq(Import) /\ k \in Nat /\ DOMAIN list = 1..k /\ DOMAIN n = 1..(k + 1)
  BY AppendProperties, LenProperties
<1>2. \A j \in 1..(k + 1) : g[j] \in Int
  <2> HIDE DEF n, k
  <2>1. \A j \in DOMAIN n : n[j] \in Import
    BY <1>1, LenProperties, ElementOfSeq
  <2> QED
    BY <1>1, <2>1 DEF Import
<1>3. \A j \in 1..k : f[j] = g[j]
  BY <1>1, AppendProperties
<1>4. g[k + 1] = c.pieces
  BY <1>1, AppendProperties
<1>5. DOMAIN f = 1..k /\ DOMAIN g = 1..(k + 1)
  BY <1>1
<1>6. RecordedIn(list) = SumFunction(f) /\ RecordedIn(n) = SumFunction(g)
  BY DEF RecordedIn
<1> HIDE DEF f, g, n, k
<1>7. SumFunction(g) = SumFunction(f) + g[k + 1]
  BY <1>1, <1>2, <1>3, <1>5, SumAppended
<1> QED
  BY <1>4, <1>6, <1>7 DEF n

----------------------------------------------------------------------------
(* What the handlers have put into the rows *)

\* The pieces a handler has put into the stock and not recorded yet.
Done(job) == IF job.stage \in Importing THEN job.pieces - Len(job.items) ELSE 0
DoneBy == SumFunction([p \in Procs |-> Done(running[p])])

\* An import never has more left than it began with, and its row is there.
Fits(job, r) ==
  /\ job.stage \in Upserting => Len(job.items) <= job.pieces
  /\ job.stage = "update" => job.row \in DOMAIN r

ImportsFit == \A p \in Procs : Fits(running[p], rows)

\* What is in the rows beyond what was recorded, what handlers are about to
\* record, and what others moved.
Excess == InRows - (Recorded + moved + DoneBy)

\* There is nothing of it until a handler stops or fails, and never less.
StockInv ==
  /\ TypeOK /\ ImportsFit
  /\ Excess >= 0
  /\ orderly => Excess = 0

LEMMA DoneType ==
  ASSUME NEW job, job.stage = "save" \/ job \in Job, NEW r, Fits(job, r)
  PROVE  Done(job) \in Nat
<1>1. CASE job.stage \in Upserting
  <2>1. job \in Upsert
    BY <1>1, StageOfJob DEF Upserting
  <2> QED
    BY <1>1, <2>1, LenProperties DEF Done, Importing, Upsert, Fits
<1>2. CASE job.stage = "record"
  <2>1. job \in Record
    BY <1>2, StageOfJob
  <2>2. Len(job.items) = 0 /\ job.pieces \in Nat
    BY <2>1, EmptySeq DEF Record
  <2> QED
    BY <1>2, <2>2 DEF Done, Importing
<1>3. CASE job.stage \notin Importing
  BY <1>3 DEF Done
<1> QED
  BY <1>1, <1>2, <1>3 DEF Importing

\* One handler goes on.
LEMMA DoneChanges ==
  ASSUME TypeOK, TypeOK', ImportsFit, ImportsFit', NEW p \in Procs,
         \A q \in Procs \ {p} : Done(running'[q]) = Done(running[q])
  PROVE  DoneBy' = DoneBy + Done(running'[p]) - Done(running[p])
<1> DEFINE f == [q \in Procs |-> Done(running[q])]
           g == [q \in Procs |-> Done(running'[q])]
<1>1. \A q \in Procs : f[q] \in Int /\ g[q] \in Int
  <2>1. ASSUME NEW q \in Procs
        PROVE  Done(running[q]) \in Nat
    BY DoneType DEF ImportsFit, TypeOK, IsEdit
  <2>2. ASSUME NEW q \in Procs
        PROVE  Done(running'[q]) \in Nat
    BY DoneType DEF ImportsFit, TypeOK, IsEdit, Fits
  <2> QED
    BY <2>1, <2>2
<1>2. \A q \in Procs : q # p => g[q] = f[q]
  OBVIOUS
<1>3. f[p] = Done(running[p]) /\ g[p] = Done(running'[p])
  OBVIOUS
<1>4. DoneBy = SumFunctionOnSet(f, Procs) /\ DoneBy' = SumFunctionOnSet(g, Procs)
  BY DEF DoneBy, SumFunction, Done
<1> HIDE DEF f, g
<1>5. SumFunctionOnSet(g, Procs) = SumFunctionOnSet(f, Procs) + g[p] - f[p]
  BY <1>1, <1>2, ImportAssumption, SumChangeOne
<1> QED
  BY <1>3, <1>4, <1>5

\* What is counted are numbers.
LEMMA CountsAreNumbers ==
  ASSUME TypeOK, TypeOK', ImportsFit, ImportsFit'
  PROVE  /\ InRows \in Int /\ InRows' \in Int
         /\ Recorded \in Int /\ Recorded' \in Int
         /\ moved \in Int /\ moved' \in Int
         /\ DoneBy \in Int
         /\ \A p \in Procs : Done(running[p]) \in Nat /\ Done(running'[p]) \in Nat
<1>1. /\ rows \in Seq(Row) /\ rows' \in Seq(Row)
      /\ imports \in Seq(Import) /\ imports' \in Seq(Import)
      /\ moved \in Int /\ moved' \in Int
  BY DEF TypeOK, Import
<1>2. /\ StockIn(rows) \in Int /\ StockIn(rows') \in Int
      /\ RecordedIn(imports) \in Int /\ RecordedIn(imports') \in Int
  BY <1>1, StockType, RecordedType
<1>3. \A p \in Procs : Done(running[p]) \in Nat /\ Done(running'[p]) \in Nat
  BY DoneType DEF ImportsFit, TypeOK, IsEdit, Fits
<1>4. DoneBy \in Int
  <2> DEFINE f == [q \in Procs |-> Done(running[q])]
  <2>1. \A q \in Procs : f[q] \in Int
    BY <1>3
  <2>2. DoneBy = SumFunctionOnSet(f, Procs)
    BY DEF DoneBy, SumFunction
  <2> HIDE DEF f
  <2> QED
    BY <2>1, <2>2, ImportAssumption, SumIsInt
<1> QED
  BY <1>1, <1>2, <1>3, <1>4 DEF InRows, Recorded, StockIn, RecordedIn

\* A step of p that leaves more pieces in the rows than it accounts for, if any,
\* keeps the invariant; in order it leaves none.
LEMMA Balances ==
  ASSUME StockInv, TypeOK', ImportsFit', NEW p \in Procs,
         \A q \in Procs \ {p} : Done(running'[q]) = Done(running[q]),
         NEW more \in Nat, orderly' => orderly /\ more = 0,
         InRows' - InRows = (Recorded' - Recorded) + (moved' - moved)
                            + (Done(running'[p]) - Done(running[p])) + more
  PROVE  StockInv'
<1>1. TypeOK /\ ImportsFit /\ Excess >= 0 /\ (orderly => Excess = 0)
  BY DEF StockInv
<1>2. DoneBy' = DoneBy + Done(running'[p]) - Done(running[p])
  BY <1>1, DoneChanges
<1>3. /\ InRows \in Int /\ InRows' \in Int
      /\ Recorded \in Int /\ Recorded' \in Int
      /\ moved \in Int /\ moved' \in Int
      /\ DoneBy \in Int
      /\ Done(running[p]) \in Nat /\ Done(running'[p]) \in Nat
  BY <1>1, CountsAreNumbers
<1>4. Excess' = Excess + more
  <2>1. \A i, i2, r, r2, m, m2, d, a, b \in Int :
          i2 - i = (r2 - r) + (m2 - m) + (b - a) + more
            => i2 - (r2 + m2 + (d + b - a)) = i - (r + m + d) + more
    OBVIOUS
  <2>2. Excess' = InRows' - (Recorded' + moved' + (DoneBy + Done(running'[p]) - Done(running[p])))
    BY <1>2 DEF Excess
  <2>3. Excess = InRows - (Recorded + moved + DoneBy)
    BY DEF Excess
  <2>4. Done(running[p]) \in Int /\ Done(running'[p]) \in Int
    BY <1>3
  <2>5. InRows' - (Recorded' + moved' + (DoneBy + Done(running'[p]) - Done(running[p])))
          = InRows - (Recorded + moved + DoneBy) + more
    BY <1>3, <2>1, <2>4
  <2> QED
    BY <2>2, <2>3, <2>5
<1>5. Excess \in Int
  BY <1>3 DEF Excess
<1> QED
  BY <1>1, <1>4, <1>5 DEF StockInv

\* The handlers other than the one that goes on.
LEMMA OthersWait ==
  ASSUME TypeOK, ImportsFit, RowsGrow, NEW p \in Procs, NEW job, GoOn(p, job), Fits(job, rows')
  PROVE  /\ ImportsFit'
         /\ running'[p] = job
         /\ \A q \in Procs \ {p} : Done(running'[q]) = Done(running[q])
<1>1. running'[p] = job /\ \A q \in Procs \ {p} : running'[q] = running[q]
  BY DEF TypeOK, GoOn
<1>2. ASSUME NEW q \in Procs \ {p}
      PROVE  Fits(running'[q], rows')
  BY <1>1 DEF ImportsFit, Fits, RowsGrow
<1> QED
  BY <1>1, <1>2 DEF ImportsFit, Fits

\* Nothing is written, and what the handler had put into the rows is recorded
\* later or never.
LEMMA QuietStep ==
  ASSUME StockInv, TypeOK', NEW p \in Procs, NEW job, GoOn(p, job),
         UNCHANGED <<rows, imports, moved>>, Fits(job, rows), orderly' => orderly,
         Done(job) <= Done(running[p]), orderly' => Done(job) = Done(running[p])
  PROVE  StockInv'
<1>1. TypeOK /\ ImportsFit
  BY DEF StockInv
<1>2. /\ ImportsFit'
      /\ running'[p] = job
      /\ \A q \in Procs \ {p} : Done(running'[q]) = Done(running[q])
  <2>1. Fits(job, rows') /\ RowsGrow
    BY <1>1, RowsStay
  <2> QED
    BY <1>1, <2>1, OthersWait
<1>3. InRows' = InRows /\ Recorded' = Recorded
  BY DEF InRows, Recorded
<1>4. InRows \in Int /\ Recorded \in Int /\ moved \in Int
      /\ Done(running[p]) \in Nat /\ Done(job) \in Nat
  BY <1>1, <1>2, CountsAreNumbers
<1> DEFINE more == Done(running[p]) - Done(job)
<1>5. more \in Nat
  BY <1>4
<1>6. InRows' - InRows = (Recorded' - Recorded) + (moved' - moved)
                         + (Done(running'[p]) - Done(running[p])) + more
  BY <1>2, <1>3, <1>4
<1>7. orderly' => orderly /\ more = 0
  BY <1>4
<1> HIDE DEF more
<1> QED
  BY <1>2, <1>5, <1>6, <1>7, Balances

\* Nothing that is counted changes.
LEMMA StutterStep ==
  ASSUME StockInv, TypeOK', UNCHANGED <<rows, imports, moved, running>>, orderly' => orderly
  PROVE  StockInv'
BY DEF StockInv, ImportsFit, Excess, InRows, Recorded, DoneBy

LEMMA NotImporting ==
  ASSUME NEW job, job.stage \notin Importing
  PROVE  Done(job) = 0 /\ \A r : Fits(job, r)
BY DEF Done, Fits, Importing, Upserting

LEMMA BeginBalances ==
  ASSUME StockInv, TypeOK', NEW p \in Procs, Begin(p), orderly' => orderly
  PROVE  StockInv'
<1>1. ASSUME NEW s \in Sessions, DeleteActiveSession(p, s)
      PROVE  StockInv'
  BY <1>1, StutterStep DEF DeleteActiveSession
<1>2. ASSUME UNCHANGED <<rows, imports, moved>>, running[p] = Idle,
             NEW job, job.stage \notin Importing, GoOn(p, job)
      PROVE  StockInv'
  <2>1. Done(Idle) = 0 /\ Done(job) = 0 /\ Fits(job, rows)
    <3>1. Idle.stage \notin Importing
      BY DEF Idle, Importing, Upserting
    <3> QED
      BY <1>2, <3>1, NotImporting
  <2> QED
    BY <1>2, <2>1, QuietStep
<1>3. ASSUME NEW s \in Sessions, NEW items \in Orders \cup {<<>>}, BeginSave(p, s, items)
      PROVE  StockInv'
  BY <1>2, <1>3 DEF BeginSave, Importing, Upserting
<1>4. ASSUME NEW i \in DOMAIN rows, NEW code \in Codes, BeginNomenclature(p, i, code)
      PROVE  StockInv'
  BY <1>2, <1>4 DEF BeginNomenclature, Importing, Upserting
<1>5. ASSUME NEW i \in DOMAIN rows, NEW dto \in Dtos, BeginEdit(p, i, dto)
      PROVE  StockInv'
  BY <1>2, <1>5 DEF BeginEdit, Importing, Upserting
<1>6. CASE BeginClose(p)
  BY <1>2, <1>6 DEF BeginClose, Importing, Upserting
<1> QED
  BY <1>1, <1>3, <1>4, <1>5, <1>6 DEF Begin

LEMMA DraftBalances ==
  ASSUME StockInv, TypeOK', NEW p \in Procs, SaveActiveSession(p), orderly' => orderly
  PROVE  StockInv'
<1>1. ASSUME NEW q \in Procs
      PROVE  \/ running'[q] = running[q]
             \/ running[q].stage \notin Importing /\ running'[q].stage \notin Importing
  <2>1. CASE running[q].stage = "draft"
    <3>1. running[q] \in Draft
      BY <2>1, StageOfRunning DEF StockInv
    <3> QED
      BY <2>1, <3>1 DEF SaveActiveSession, Draft, Idle, Importing, Upserting
  <2>2. CASE running[q].stage # "draft"
    BY <2>2 DEF SaveActiveSession
  <2> QED
    BY <2>1, <2>2
<1>2. \A q \in Procs : Done(running'[q]) = Done(running[q])
  BY <1>1, NotImporting
<1>3. UNCHANGED <<rows, imports, moved>>
  BY DEF SaveActiveSession
<1>4. ImportsFit'
  BY <1>1, <1>3, NotImporting DEF StockInv, ImportsFit, Fits
<1>5. InRows' = InRows /\ Recorded' = Recorded /\ InRows \in Int /\ Recorded \in Int
      /\ moved \in Int /\ Done(running[p]) \in Nat
  BY <1>3, <1>4, CountsAreNumbers DEF StockInv, InRows, Recorded
<1>6. InRows' - InRows = (Recorded' - Recorded) + (moved' - moved)
                         + (Done(running'[p]) - Done(running[p])) + 0
  BY <1>2, <1>3, <1>5
<1> QED
  BY <1>2, <1>4, <1>6, Balances

LEMMA CheckBalances ==
  ASSUME StockInv, TypeOK', NEW p \in Procs, orderly' => orderly,
         AcceptImport(p) \/ RefuseImport(p) \/ DropSession(p) \/ DeleteLocation(p)
  PROVE  StockInv'
<1>1. UNCHANGED <<rows, imports, moved>>
  BY DEF AcceptImport, RefuseImport, DropSession, DeleteLocation
<1>2. running[p].stage \notin Importing
  BY DEF AcceptImport, RefuseImport, DropSession, DeleteLocation, Importing, Upserting
<1>3. PICK job \in {Idle, Accepted(running[p])} :
        GoOn(p, job) /\ (job # Idle => running[p].stage = "check")
  BY DEF AcceptImport, RefuseImport, DropSession, DeleteLocation
<1>4. Done(job) = 0 /\ Fits(job, rows)
  <2>1. CASE job = Idle
    BY <2>1, NotImporting DEF Idle, Importing, Upserting
  <2>2. CASE job # Idle
    <3>1. running[p] \in Check
      BY <1>3, <2>2, StageOfRunning DEF StockInv
    <3>2. Len(running[p].items) \in Nat
      BY <3>1, ImportAssumption, EmptySeq, LenProperties DEF Check
    <3> QED
      BY <1>3, <2>2, <3>2 DEF Accepted, Done, Fits
  <2> QED
    BY <2>1, <2>2
<1> QED
  BY <1>1, <1>2, <1>3, <1>4, NotImporting, QuietStep

LEMMA FindBalances ==
  ASSUME StockInv, TypeOK', NEW p \in Procs, orderly' => orderly,
         NEW i \in 0..Len(rows), FindExisting(p, i)
  PROVE  StockInv'
<1> DEFINE job == running[p]
           rebarcode == job.stage = "find" /\ rows[i].barcode = Head(job.items).code
           found == [job EXCEPT !.stage = "update", !.row = i, !.rebarcode = rebarcode]
           missed == [job EXCEPT !.stage = "create"]
<1>1. job \in Upsert /\ Len(job.items) <= job.pieces
  <2>1. job.stage \in Upserting
    BY DEF FindExisting, Upserting
  <2> QED
    BY <2>1, StageOfRunning DEF StockInv, ImportsFit, Fits
<1>2. PICK next : /\ GoOn(p, next)
                  /\ \/ next = missed
                     \/ next = found /\ i \in DOMAIN rows
  BY DEF FindExisting, Matches
<1>3. /\ next.pieces = job.pieces /\ next.items = job.items
      /\ next.stage \in Upserting /\ (next.stage = "update" => next.row \in DOMAIN rows)
  <2> HIDE DEF rebarcode
  <2> QED
    BY <1>1, <1>2 DEF Upsert, Upserting
<1>4. UNCHANGED <<rows, imports, moved>> /\ job.stage \in Upserting
  BY DEF FindExisting, Upserting
<1>5. Done(next) = Done(job) /\ Fits(next, rows)
  BY <1>1, <1>3, <1>4 DEF Done, Fits, Importing
<1>6. Done(job) \in Nat
  BY StageOfRunning, DoneType DEF StockInv, ImportsFit, TypeOK, IsEdit
<1> HIDE DEF job, found, missed
<1> QED
  BY <1>2, <1>4, <1>5, <1>6, QuietStep DEF job

\* One item is done.
LEMMA UpsertedFits ==
  ASSUME NEW job \in Upsert, Len(job.items) <= job.pieces, NEW r
  PROVE  /\ Fits(Upserted(job), r) /\ Done(Upserted(job)) = Done(job) + 1
         /\ job.stage \in Upserting
<1> DEFINE left == Tail(job.items)
           next == Upserted(job)
<1>1. job.items \in Seq(Item) /\ job.items # <<>> /\ job.pieces \in Nat /\ job.stage \in Upserting
  BY DEF Upsert
<1>2. Len(left) = Len(job.items) - 1 /\ Len(job.items) \in Nat \ {0}
  BY <1>1, HeadTailProperties, EmptySeq
<1>3. /\ next.stage = IF Len(job.items) = 1 THEN "record" ELSE "find"
      /\ next.items = left /\ next.pieces = job.pieces
  BY DEF Upserted, Upsert
<1> HIDE DEF next, left
<1>4. Done(next) = next.pieces - Len(next.items) /\ Done(job) = job.pieces - Len(job.items)
  BY <1>1, <1>3 DEF Done, Importing, Upserting
<1>5. Done(next) = Done(job) + 1
  BY <1>1, <1>2, <1>3, <1>4
<1>6. Fits(next, r)
  BY <1>1, <1>2, <1>3 DEF Fits, Upserting
<1> QED
  BY <1>1, <1>5, <1>6 DEF next

\* An item is added to a row, or comes as one.
LEMMA UpsertBalances ==
  ASSUME StockInv, TypeOK', RowsGrow, NEW p \in Procs, orderly' => orderly,
         running[p] \in Upsert, GoOn(p, Upserted(running[p])),
         UNCHANGED <<imports, moved>>, InRows' = InRows + 1
  PROVE  StockInv'
<1> DEFINE next == Upserted(running[p])
<1>1. TypeOK /\ ImportsFit
  BY DEF StockInv
<1>2. Fits(next, rows') /\ Done(next) = Done(running[p]) + 1
  <2>1. Len(running[p].items) <= running[p].pieces
    BY <1>1 DEF Upsert, ImportsFit, Fits
  <2> QED
    BY <2>1, UpsertedFits
<1> HIDE DEF next
<1>3. GoOn(p, next)
  BY DEF next
<1>4. /\ ImportsFit' /\ running'[p] = next
      /\ \A q \in Procs \ {p} : Done(running'[q]) = Done(running[q])
  BY <1>1, <1>2, <1>3, OthersWait
<1>5. Recorded' = Recorded
  BY DEF Recorded
<1>6. InRows \in Int /\ Recorded \in Int /\ moved \in Int /\ Done(running[p]) \in Nat
  BY <1>1, <1>4, CountsAreNumbers
<1>7. InRows' - InRows = (Recorded' - Recorded) + (moved' - moved)
                         + (Done(running'[p]) - Done(running[p])) + 0
  BY <1>2, <1>4, <1>5, <1>6
<1> QED
  BY <1>4, <1>7, Balances

LEMMA UpdateBalances ==
  ASSUME StockInv, TypeOK', NEW p \in Procs, orderly' => orderly, UpdateExisting(p)
  PROVE  StockInv'
<1> DEFINE job == running[p]
           row == Imported(rows[job.row], Head(job.items), job.rebarcode)
<1>1. job.stage \in Upserting
  BY DEF UpdateExisting, Upserting
<1>2. job \in Upsert
  BY <1>1, StageOfRunning DEF StockInv
<1>3. job.row \in DOMAIN rows
  BY DEF UpdateExisting, StockInv, ImportsFit, Fits
<1>4. rows[job.row] \in Row /\ rows \in Seq(Row)
  BY <1>3 DEF StockInv, TypeOK
<1>5. row \in Row
  BY <1>2, <1>4, HeadIsItem, ImportedType
<1>6. row.quantity = rows[job.row].quantity + 1 /\ rows[job.row].quantity \in Int
  BY <1>4 DEF Imported, Row
<1>7. /\ rows' = [rows EXCEPT ![job.row] = row] /\ GoOn(p, Upserted(job))
      /\ UNCHANGED <<imports, moved>>
  BY DEF UpdateExisting
<1> HIDE DEF row, job
<1>8. StockIn(rows') = StockIn(rows) + 1
  <2>1. StockIn(rows') = StockIn(rows) + row.quantity - rows[job.row].quantity
    BY <1>3, <1>4, <1>5, <1>7, StockChanges
  <2>2. StockIn(rows) \in Int
    BY <1>4, StockType
  <2> QED
    BY <1>6, <2>1, <2>2
<1>9. RowsGrow
  BY <1>5, <1>7, RowChanges DEF StockInv
<1>10. InRows' = InRows + 1
  BY <1>8 DEF InRows, StockIn
<1> QED
  BY <1>2, <1>7, <1>9, <1>10, UpsertBalances DEF job

LEMMA CreateBalances ==
  ASSUME StockInv, TypeOK', NEW p \in Procs, orderly' => orderly, CreateRow(p)
  PROVE  StockInv'
<1> DEFINE job == running[p]
           item == Head(job.items)
           row == [ name |-> item.name, characteristics |-> item.characteristics,
                    code |-> item.code,
                    key |-> ItemKey(item.name, item.characteristics, item.code),
                    barcode |-> <<item.name, item.characteristics>>, quantity |-> 1 ]
           again == [job EXCEPT !.stage = "refind"]
<1>1. job.stage \in Upserting
  BY DEF CreateRow, Upserting
<1>2. job \in Upsert /\ Len(job.items) <= job.pieces
  BY <1>1, StageOfRunning DEF StockInv, ImportsFit, Fits
<1>3. /\ UNCHANGED <<imports, moved>>
      /\ \/ rows' = rows /\ GoOn(p, again)
         \/ Len(rows) < MaxRows /\ rows' = Append(rows, row) /\ GoOn(p, Upserted(job))
  BY DEF CreateRow
<1>4. CASE rows' = rows /\ GoOn(p, again)
  <2>1. /\ again.stage = "refind" /\ again.items = job.items /\ again.pieces = job.pieces
    BY <1>2 DEF Upsert
  <2>2. Done(again) = Done(job) /\ Fits(again, rows)
    BY <1>1, <1>2, <2>1 DEF Done, Fits, Importing, Upserting
  <2>3. Done(job) \in Nat
    BY DoneType DEF StockInv, ImportsFit, TypeOK, IsEdit
  <2> HIDE DEF again, job
  <2> QED
    BY <1>3, <1>4, <2>2, <2>3, QuietStep DEF job
<1>5. CASE Len(rows) < MaxRows /\ rows' = Append(rows, row) /\ GoOn(p, Upserted(job))
  <2>1. row \in Row
    <3>1. item \in Item
      BY <1>2, HeadIsItem
    <3> HIDE DEF item
    <3>2. item.name \in Names /\ item.characteristics \in Characteristics /\ item.code \in MaybeCode
      BY <3>1 DEF Item, MaybeCode
    <3>3. ItemKey(item.name, item.characteristics, item.code) \in ItemKeys
      BY <3>2, ItemKeyType
    <3> QED
      BY <3>2, <3>3 DEF Row, Goods
  <2>2. row.quantity = 1 /\ rows \in Seq(Row)
    BY DEF StockInv, TypeOK
  <2> HIDE DEF row, job
  <2>3. StockIn(rows') = StockIn(rows) + 1
    BY <1>5, <2>1, <2>2, StockComes
  <2>4. RowsGrow
    BY <1>5, <2>1, RowComes DEF StockInv
  <2>5. InRows' = InRows + 1
    BY <2>3 DEF InRows, StockIn
  <2> QED
    BY <1>2, <1>3, <1>5, <2>4, <2>5, UpsertBalances DEF job
<1> QED
  BY <1>3, <1>4, <1>5

LEMMA RecordBalances ==
  ASSUME StockInv, TypeOK', NEW p \in Procs, orderly' => orderly, CreateImport(p)
  PROVE  StockInv'
<1> DEFINE job == running[p]
           drop == [stage |-> "drop", session |-> job.session]
           import == [session |-> job.session, pieces |-> job.pieces]
<1>1. job \in Record
  BY StageOfRunning DEF CreateImport, StockInv
<1>2. import \in Import /\ import.pieces = job.pieces /\ job.pieces \in Nat
  BY <1>1 DEF Record, Import
<1>3. Done(job) = job.pieces
  <2>1. Len(job.items) = 0
    BY <1>1, EmptySeq DEF Record
  <2>2. job.stage \in Importing
    BY DEF CreateImport, Importing
  <2> QED
    BY <1>2, <2>1, <2>2 DEF Done
<1>4. Done(drop) = 0 /\ \A r : Fits(drop, r)
  BY NotImporting DEF Importing, Upserting
<1>5. GoOn(p, drop) /\ imports' = Append(imports, import) /\ UNCHANGED <<rows, moved>>
  BY DEF CreateImport
<1>6. imports \in Seq(Import)
  BY DEF StockInv, TypeOK, Import
<1> HIDE DEF drop, import, job
<1>7. RecordedIn(imports') = RecordedIn(imports) + job.pieces
  BY <1>2, <1>5, <1>6, RecordComes
<1>8. Recorded' = Recorded + job.pieces /\ InRows' = InRows
  BY <1>5, <1>7 DEF Recorded, RecordedIn, InRows
<1>9. RowsGrow
  BY <1>5, RowsStay DEF StockInv
<1>10. /\ ImportsFit' /\ running'[p] = drop
       /\ \A q \in Procs \ {p} : Done(running'[q]) = Done(running[q])
  BY <1>4, <1>5, <1>9, OthersWait DEF StockInv
<1>11. InRows \in Int /\ Recorded \in Int /\ moved \in Int
  BY <1>10, CountsAreNumbers DEF StockInv
<1>12. InRows' - InRows = (Recorded' - Recorded) + (moved' - moved)
                          + (Done(running'[p]) - Done(running[p])) + 0
  BY <1>2, <1>3, <1>4, <1>5, <1>8, <1>10, <1>11 DEF job
<1> QED
  BY <1>10, <1>12, Balances

LEMMA SaveBalances ==
  ASSUME StockInv, TypeOK', NEW p \in Procs, orderly' => orderly, SaveRow(p)
  PROVE  StockInv'
<1> DEFINE job == running[p]
           row == Written(rows[job.row], job.set)
           refused == Conflicts(job.row, row)
<1>1. IsEdit(job)
  BY StageOfRunning DEF SaveRow, StockInv
<1>2. row \in Row /\ rows[job.row] \in Row /\ job.row \in DOMAIN rows /\ rows \in Seq(Row)
  BY <1>1 DEF IsEdit, StockInv, TypeOK
<1>3. /\ GoOn(p, Idle) /\ UNCHANGED imports
      /\ rows' = IF refused THEN rows ELSE [rows EXCEPT ![job.row] = row]
      /\ moved' = IF refused THEN moved ELSE moved + row.quantity - rows[job.row].quantity
  BY DEF SaveRow
<1>4. /\ Done(job) = 0 /\ Done(Idle) = 0 /\ \A r : Fits(Idle, r)
  BY <1>1, NotImporting DEF Idle, Importing, Upserting, IsEdit
<1>5. row.quantity \in Int /\ rows[job.row].quantity \in Int
  BY <1>2 DEF Row
<1> HIDE DEF row, refused, job
<1>6. RowsGrow
  BY <1>2, <1>3, RowsStay, RowChanges DEF StockInv
<1>7. /\ ImportsFit' /\ running'[p] = Idle
      /\ \A q \in Procs \ {p} : Done(running'[q]) = Done(running[q])
  BY <1>3, <1>4, <1>6, OthersWait DEF StockInv
<1>8. InRows \in Int /\ Recorded \in Int /\ moved \in Int
  BY <1>7, CountsAreNumbers DEF StockInv
<1>9. InRows' - InRows = moved' - moved
  <2>1. CASE refused
    BY <1>3, <1>8, <2>1 DEF InRows
  <2>2. CASE ~refused
    <3>1. StockIn(rows') = StockIn(rows) + row.quantity - rows[job.row].quantity
      BY <1>2, <1>3, <2>2, StockChanges
    <3>2. InRows' = InRows + row.quantity - rows[job.row].quantity
      BY <3>1 DEF InRows, StockIn
    <3> QED
      BY <1>3, <1>5, <1>8, <2>2, <3>2
  <2> QED
    BY <2>1, <2>2
<1>10. Recorded' = Recorded
  BY <1>3 DEF Recorded
<1>11. moved' \in Int
  BY DEF TypeOK
<1>12. InRows' - InRows = (Recorded' - Recorded) + (moved' - moved)
                          + (Done(running'[p]) - Done(running[p])) + 0
  BY <1>4, <1>7, <1>8, <1>9, <1>10, <1>11 DEF job
<1> QED
  BY <1>7, <1>12, Balances

LEMMA EndBalances ==
  ASSUME StockInv, TypeOK', NEW p \in Procs, Fail(p) \/ Crash(p), ~orderly'
  PROVE  StockInv'
<1>1. GoOn(p, Idle) /\ UNCHANGED <<rows, imports, moved>>
  BY DEF Fail, Crash
<1>2. Done(Idle) = 0 /\ Fits(Idle, rows)
  BY NotImporting DEF Idle, Importing, Upserting
<1>3. Done(running[p]) \in Nat
  BY DoneType DEF StockInv, ImportsFit, TypeOK, IsEdit
<1> QED
  BY <1>1, <1>2, <1>3, QuietStep

LEMMA DeductBalances ==
  ASSUME StockInv, TypeOK', NEW i \in DOMAIN rows, Deduct(i), orderly' => orderly
  PROVE  StockInv'
<1> DEFINE row == [rows[i] EXCEPT !.quantity = @ - 1]
<1>1. rows[i] \in Row /\ rows \in Seq(Row)
  BY DEF StockInv, TypeOK
<1>2. row \in Row /\ row.quantity = rows[i].quantity - 1 /\ rows[i].quantity \in Int
  BY <1>1 DEF Deduct, Row
<1>3. rows' = [rows EXCEPT ![i] = row] /\ moved' = moved - 1 /\ UNCHANGED <<imports, running>>
  BY DEF Deduct
<1> HIDE DEF row
<1>4. StockIn(rows') = StockIn(rows) + row.quantity - rows[i].quantity /\ StockIn(rows) \in Int
  BY <1>1, <1>2, <1>3, StockChanges, StockType
<1>5. InRows' = InRows - 1 /\ InRows \in Int
  BY <1>2, <1>4 DEF InRows, StockIn
<1>6. RowsGrow
  BY <1>2, <1>3, RowChanges DEF StockInv
<1>7. ImportsFit'
  BY <1>3, <1>6 DEF StockInv, ImportsFit, Fits, RowsGrow
<1>8. DoneBy' = DoneBy /\ Recorded' = Recorded
  BY <1>3 DEF DoneBy, Recorded
<1>9. Recorded \in Int /\ moved \in Int /\ DoneBy \in Int
  BY <1>7, CountsAreNumbers DEF StockInv
<1>10. Excess' = Excess
  BY <1>3, <1>5, <1>8, <1>9 DEF Excess
<1> QED
  BY <1>7, <1>10 DEF StockInv

LEMMA InitStock == Init => StockInv
<1> SUFFICES ASSUME Init PROVE StockInv
  OBVIOUS
<1>1. TypeOK
  BY InitType
<1>2. \A p \in Procs : running[p].stage \notin Importing
  BY DEF Init, Idle, Importing, Upserting
<1>3. ImportsFit /\ \A p \in Procs : Done(running[p]) = 0
  BY <1>2, NotImporting DEF ImportsFit
<1>4. DoneBy = 0
  <2> DEFINE f == [p \in Procs |-> Done(running[p])]
             none == {p \in Procs : FALSE}
  <2>1. \A p \in Procs : f[p] = IF p \in none THEN 1 ELSE 0
    BY <1>3
  <2>2. none \in SUBSET Procs /\ Cardinality(none) = 0
    <3>1. none = {}
      OBVIOUS
    <3> QED
      BY <3>1, FS_EmptySet
  <2>3. DoneBy = SumFunctionOnSet(f, Procs)
    BY DEF DoneBy, SumFunction
  <2> HIDE DEF f, none
  <2>4. SumFunctionOnSet(f, Procs) = 1 * Cardinality(none)
    BY <2>1, <2>2, ImportAssumption, SumOfEqual
  <2> QED
    BY <2>2, <2>3, <2>4
<1>5. Recorded = 0
  <2> DEFINE f == [c \in DOMAIN imports |-> imports[c].pieces]
  <2>1. DOMAIN f = {}
    BY DEF Init
  <2>2. Recorded = SumFunctionOnSet(f, DOMAIN f)
    BY DEF Recorded, SumFunction
  <2> HIDE DEF f
  <2> QED
    BY <2>1, <2>2, SumOfNone
<1>6. InRows = Len(rows) /\ InRows \in Int
  <2> DEFINE f == [i \in DOMAIN rows |-> rows[i].quantity]
  <2>1. InRows = SumFunctionOnSet(f, DOMAIN rows)
    BY DEF InRows, SumFunction
  <2>2. CASE rows = <<>>
    <3>1. DOMAIN rows = {} /\ Len(rows) = 0
      BY <2>2
    <3> HIDE DEF f
    <3> QED
      BY <2>1, <3>1, SumOfNone
  <2>3. CASE rows # <<>>
    <3>1. PICK goods \in Goods : rows = <<Received(goods[1], goods[2])>>
      BY <2>3 DEF Init
    <3>2. DOMAIN rows = {1} /\ Len(rows) = 1 /\ f[1] = 1
      BY <3>1 DEF Received
    <3> HIDE DEF f
    <3>3. SumFunctionOnSet(f, {1}) = f[1] + SumFunctionOnSet(f, {1} \ {1})
      <4>1. IsFiniteSet({1}) /\ \A s \in {1} : f[s] \in Int
        BY <3>2, FS_Singleton
      <4> QED
        BY <4>1, SumTakeOut
    <3>4. {1} \ {1} = {}
      OBVIOUS
    <3>5. SumFunctionOnSet(f, {1} \ {1}) = 0
      BY <3>4, SumOfNone
    <3> QED
      BY <2>1, <3>2, <3>3, <3>5
  <2> QED
    BY <2>2, <2>3
<1>7. Excess = 0
  BY <1>4, <1>5, <1>6 DEF Excess, Init
<1> QED
  BY <1>1, <1>3, <1>7 DEF StockInv

LEMMA NextStock == StockInv /\ [Next]_vars => StockInv'
<1> SUFFICES ASSUME StockInv, [Next]_vars PROVE StockInv'
  OBVIOUS
<1>1. TypeOK'
  BY NextType DEF StockInv
<1>2. CASE UNCHANGED vars
  BY <1>1, <1>2, StutterStep DEF vars
<1>3. CASE Next
  <2>1. ASSUME NEW p \in Procs, Continue(p), orderly' => orderly
        PROVE  StockInv'
    BY <1>1, <2>1, DraftBalances, CheckBalances, FindBalances, UpdateBalances, CreateBalances,
       RecordBalances, SaveBalances DEF Continue
  <2>2. ASSUME NEW p \in Procs, Begin(p), orderly' => orderly
        PROVE  StockInv'
    BY <1>1, <2>2, BeginBalances
  <2>3. ASSUME NEW p \in Procs, Fail(p) \/ Crash(p), ~orderly'
        PROVE  StockInv'
    BY <1>1, <2>3, EndBalances
  <2> QED
    BY <1>1, <1>3, <2>1, <2>2, <2>3, DeductBalances DEF Next
<1> QED
  BY <1>2, <1>3

\* Whatever overlaps, stops or is refused, every piece an import records is in
\* the rows, whoever took or added pieces meanwhile: the rows are written first.
THEOREM RecordedStocked == Spec => []RecordedIsStocked
<1>1. StockInv => RecordedIsStocked
  <2> SUFFICES ASSUME StockInv PROVE RecordedIsStocked
    OBVIOUS
  <2>1. \A p \in Procs : Done(running[p]) \in Nat
    BY DoneType DEF StockInv, ImportsFit, TypeOK, IsEdit
  <2>2. DoneBy \in Nat
    <3> DEFINE f == [q \in Procs |-> Done(running[q])]
    <3>1. \A q \in Procs : f[q] \in Nat
      BY <2>1
    <3>2. DoneBy = SumFunctionOnSet(f, Procs)
      BY DEF DoneBy, SumFunction
    <3> HIDE DEF f
    <3> QED
      BY <3>1, <3>2, ImportAssumption, SumIsNat
  <2>3. InRows \in Int /\ Recorded \in Int /\ moved \in Int
    <3>1. StockIn(rows) \in Int /\ RecordedIn(imports) \in Int /\ moved \in Int
      BY StockType, RecordedType DEF StockInv, TypeOK, Import
    <3> QED
      BY <3>1 DEF InRows, Recorded, StockIn, RecordedIn
  <2> QED
    BY <2>2, <2>3 DEF StockInv, Excess, RecordedIsStocked
<1> QED
  BY <1>1, InitStock, NextStock, PTL DEF Spec

----------------------------------------------------------------------------
(* In order *)

\* In order, one handler is in flight at most.
Alone == \A p, q \in Procs : running[p] # Idle /\ running[q] # Idle => p = q

Empty == \A i \in DOMAIN rows : rows[i].quantity = 0

\* A location is closed when it is empty, and then nothing comes into it.
ClosesEmpty(job) ==
  /\ job.stage = "close" => Empty
  /\ ~active => Empty /\ job.stage \in {"idle", "draft", "check"}

\* An import is of a session that is still there, and the only one of it.
ImportsOnce(job) ==
  /\ \A c, d \in DOMAIN imports : imports[c].session = imports[d].session => c = d
  /\ job.stage \in Importing => sessions[job.session] = "open" /\ ~Known(job.session, imports)
  /\ \A c \in DOMAIN imports :
       sessions[imports[c].session] = "open" =>
         job.stage = "drop" /\ job.session = imports[c].session

\* Goods of one code have one name, in the rows...
Named(code, name, S) == \A i \in S : rows[i].code = code => rows[i].name = name

OneName ==
  \A i \in DOMAIN rows :
    rows[i].code # NoCode => Named(rows[i].code, rows[i].name, DOMAIN rows)

\* ... and in what a handler is about to write into them.
ImportNames(job) ==
  job.stage \in Upserting =>
    /\ CodesAgree(job.items)
    /\ \A k \in DOMAIN job.items :
         Named(job.items[k].code, job.items[k].name, DOMAIN rows)

SaveNames(job) ==
  job.stage = "save" =>
    LET row == Written(rows[job.row], job.set)
    IN  row.code # NoCode => Named(row.code, row.name, DOMAIN rows \ {job.row})

\* What holds of the handler that is alone.
Fine(job) ==
  ClosesEmpty(job) /\ ImportsOnce(job) /\ OneName /\ ImportNames(job) /\ SaveNames(job)

Others(p) == Procs \ {p}

OrderlyInv ==
  orderly =>
    /\ Alone
    /\ \A p \in Procs : (\A q \in Others(p) : running[q] = Idle) => Fine(running[p])

\* A handler that was alone has gone on, and is fine.
LEMMA StaysAlone ==
  ASSUME NEW p \in Procs, \A q \in Others(p) : running'[q] = Idle, Fine(running[p])'
  PROVE  OrderlyInv'
<1>1. Alone'
  BY DEF Alone, Others
<1>2. ASSUME NEW r \in Procs, \A q \in Others(r) : running'[q] = Idle
      PROVE  Fine(running[r])'
  <2>1. CASE r = p
    BY <2>1
  <2>2. CASE r # p
    <3>1. running'[p] = Idle /\ running'[r] = Idle
      BY <1>2, <2>2 DEF Others
    <3> QED
      BY <3>1 DEF Fine, ClosesEmpty, ImportsOnce, ImportNames, SaveNames
  <2> QED
    BY <2>1, <2>2
<1> QED
  BY <1>1, <1>2 DEF OrderlyInv

\* The handler that is about to go on is alone, and fine.
LEMMA WasFine ==
  ASSUME OrderlyInv, orderly, NEW p \in Procs, \A q \in Others(p) : running[q] = Idle
  PROVE  Fine(running[p])
BY DEF OrderlyInv

\* Nothing is written, and nothing imported or submitted.
LEMMA FineGoesOn ==
  ASSUME NEW p \in Procs, Fine(running[p]), UNCHANGED <<rows, imports, sessions, active>>,
         NEW job, running'[p] = job, job.stage # "drop", running[p].stage # "drop",
         job.stage = "close" => Empty,
         active \/ job.stage \in {"idle", "draft", "check"},
         job.stage \in Importing => sessions[job.session] = "open" /\ ~Known(job.session, imports),
         ImportNames(job), SaveNames(job)
  PROVE  Fine(running[p])'
<1>1. ClosesEmpty(running[p])'
  BY DEF Fine, ClosesEmpty, Empty
<1>2. ImportsOnce(running[p])'
  BY DEF Fine, ImportsOnce, Known
<1>3. OneName'
  BY DEF Fine, OneName, Named
<1>4. ImportNames(running[p])'
  BY DEF ImportNames, Named
<1>5. SaveNames(running[p])'
  BY DEF SaveNames, Named
<1> QED
  BY <1>1, <1>2, <1>3, <1>4, <1>5 DEF Fine

\* A code that the check lets pass has the name in every row that has the code.
LEMMA PassedName ==
  ASSUME OneName, NEW i, NEW code, code # NoCode, NEW name, MayPass(i, code, name)
  PROVE  Named(code, name, DOMAIN rows \ {i})
BY DEF OneName, Named, MayPass, Holders

LEMMA BeginFine ==
  ASSUME TypeOK, NEW p \in Procs, Fine(running[p]), Begin(p)
  PROVE  Fine(running[p])'
<1>0. DOMAIN running = Procs
  BY DEF TypeOK
<1>1. ASSUME NEW s \in Sessions, DeleteActiveSession(p, s)
      PROVE  Fine(running[p])'
  <2>1. /\ UNCHANGED <<active, rows, imports, running>> /\ running[p] = Idle
        /\ sessions' = [sessions EXCEPT ![s] = "deleted"]
    BY <1>1 DEF DeleteActiveSession
  <2>2. \A c : sessions'[c] = "open" => sessions[c] = "open"
    BY <2>1 DEF TypeOK
  <2>3. ImportsOnce(running[p])'
    BY <2>1, <2>2 DEF Fine, ImportsOnce, Known, Idle, Importing, Upserting
  <2> QED
    BY <2>1, <2>3
    DEF Fine, ClosesEmpty, Empty, OneName, Named, ImportNames, SaveNames
<1>2. ASSUME NEW s \in Sessions, NEW items \in Orders \cup {<<>>}, BeginSave(p, s, items)
      PROVE  Fine(running[p])'
  <2> DEFINE job == [stage |-> "draft", session |-> s, items |-> items, fresh |-> TRUE]
  <2>1. /\ UNCHANGED <<active, rows, imports, sessions>> /\ running'[p] = job
        /\ running[p].stage # "drop"
    BY <1>0, <1>2 DEF BeginSave, GoOn, Idle
  <2>2. job.stage = "draft"
    OBVIOUS
  <2>3. ImportNames(job) /\ SaveNames(job) /\ job.stage \notin Importing
    BY DEF ImportNames, SaveNames, Importing, Upserting
  <2> HIDE DEF job
  <2> QED
    BY <2>1, <2>2, <2>3, FineGoesOn
<1>3. ASSUME NEW i \in DOMAIN rows, NEW row \in Row, UNCHANGED <<active, rows, imports, sessions>>,
             active, running[p] = Idle,
             row.code # NoCode => Named(row.code, row.name, DOMAIN rows \ {i}),
             GoOn(p, [stage |-> "save", row |-> i, set |-> Changed(rows[i], row)])
      PROVE  Fine(running[p])'
  <2> DEFINE job == [stage |-> "save", row |-> i, set |-> Changed(rows[i], row)]
  <2>1. Written(rows[i], Changed(rows[i], row)) = row
    <3>1. rows[i] \in Row
      BY DEF TypeOK
    <3> QED
      BY <3>1 DEF Written, Changed, Row
  <2>2. SaveNames(job)
    BY <1>3, <2>1 DEF SaveNames
  <2>3. ImportNames(job) /\ job.stage \notin Importing /\ job.stage \notin {"close", "drop"}
    BY DEF ImportNames, Importing, Upserting
  <2>4. running'[p] = job /\ running[p].stage # "drop"
    BY <1>0, <1>3 DEF GoOn, Idle
  <2> HIDE DEF job
  <2> QED
    BY <1>3, <2>2, <2>3, <2>4, FineGoesOn
<1>4. ASSUME NEW i \in DOMAIN rows, NEW code \in Codes, BeginNomenclature(p, i, code)
      PROVE  Fine(running[p])'
  <2> DEFINE row == [rows[i] EXCEPT
                !.code = code,
                !.key = ItemKey(rows[i].name, rows[i].characteristics, code),
                !.barcode = ResolvedBarcode(rows[i].name, rows[i].characteristics, @, code)]
  <2>1. rows[i] \in Row
    BY DEF TypeOK
  <2>2. code \in MaybeCode /\ rows[i].name \in Names /\ rows[i].characteristics \in Characteristics
    BY <2>1 DEF Row, MaybeCode
  <2>3. ItemKey(rows[i].name, rows[i].characteristics, code) \in ItemKeys
    BY <2>2, ItemKeyType
  <2>4. ResolvedBarcode(rows[i].name, rows[i].characteristics, rows[i].barcode, code)
          \in Goods \cup Codes
    BY <2>1, <2>2 DEF ResolvedBarcode, Goods, Row
  <2>5. row \in Row
    BY <2>1, <2>2, <2>3, <2>4 DEF Row
  <2>6. row.code = code /\ row.name = rows[i].name
    BY <2>1 DEF Row
  <2>7. /\ GoOn(p, [stage |-> "save", row |-> i, set |-> Changed(rows[i], row)])
        /\ UNCHANGED <<active, rows, imports, sessions>> /\ active /\ running[p] = Idle
        /\ MayPass(i, code, rows[i].name)
    BY <1>4 DEF BeginNomenclature
  <2>8. Named(code, rows[i].name, DOMAIN rows \ {i})
    BY <2>7, PassedName, ImportAssumption DEF Fine
  <2> HIDE DEF row
  <2> QED
    BY <1>3, <2>5, <2>6, <2>7, <2>8
<1>5. ASSUME NEW i \in DOMAIN rows, NEW dto \in Dtos, BeginEdit(p, i, dto)
      PROVE  Fine(running[p])'
  <2> DEFINE row == Edited(rows[i], dto)
  <2>1. rows[i] \in Row
    BY DEF TypeOK
  <2>2. row \in Row
    BY <1>5, <2>1, EditedType DEF BeginEdit
  <2>3. /\ GoOn(p, [stage |-> "save", row |-> i, set |-> Changed(rows[i], row)])
        /\ UNCHANGED <<active, rows, imports, sessions>> /\ active /\ running[p] = Idle
        /\ ~Duplicates(i, row)
    BY <1>5 DEF BeginEdit
  <2>4. row.code # NoCode => MayPass(i, row.code, row.name)
    BY <2>3 DEF Duplicates
  <2> HIDE DEF row
  <2>5. row.code # NoCode => Named(row.code, row.name, DOMAIN rows \ {i})
    BY <2>4, PassedName DEF Fine
  <2> QED
    BY <1>3, <2>2, <2>3, <2>5
<1>6. CASE BeginClose(p)
  <2> DEFINE job == [stage |-> "close"]
  <2>1. /\ UNCHANGED <<active, rows, imports, sessions>> /\ running'[p] = job
        /\ running[p].stage # "drop" /\ active /\ Empty
    BY <1>0, <1>6 DEF BeginClose, GoOn, Idle, Empty
  <2>2. job.stage = "close"
    OBVIOUS
  <2>3. ImportNames(job) /\ SaveNames(job) /\ job.stage \notin Importing
    BY DEF ImportNames, SaveNames, Importing, Upserting
  <2> HIDE DEF job
  <2> QED
    BY <2>1, <2>2, <2>3, FineGoesOn
<1> QED
  BY <1>1, <1>2, <1>4, <1>5, <1>6 DEF Begin

\* A job that neither imports nor writes.
LEMMA FineRests ==
  ASSUME NEW p \in Procs, Fine(running[p]), UNCHANGED <<rows, imports, sessions, active>>,
         running'[p].stage \in {"idle", "draft", "check"}, running[p].stage # "drop"
  PROVE  Fine(running[p])'
<1> DEFINE job == running'[p]
<1>1. ImportNames(job) /\ SaveNames(job) /\ job.stage \notin Importing
      /\ job.stage # "drop" /\ job.stage # "close"
  BY DEF ImportNames, SaveNames, Importing, Upserting
<1> QED
  <2>1. running'[p] = job /\ job.stage \in {"idle", "draft", "check"}
    OBVIOUS
  <2> HIDE DEF job
  <2> QED
    BY <1>1, <2>1, FineGoesOn

LEMMA DraftFine ==
  ASSUME TypeOK, NEW p \in Procs, Fine(running[p]), SaveActiveSession(p)
  PROVE  Fine(running[p])'
<1>1. running'[p].stage \in {"idle", "check"} /\ running[p].stage # "drop"
  BY DEF SaveActiveSession, Idle
<1>2. UNCHANGED <<rows, imports, sessions, active>>
  BY DEF SaveActiveSession
<1> QED
  BY <1>1, <1>2, FineRests

LEMMA CheckFine ==
  ASSUME TypeOK, NEW p \in Procs, Fine(running[p]), AcceptImport(p) \/ RefuseImport(p)
  PROVE  Fine(running[p])'
<1>0. DOMAIN running = Procs
  BY DEF TypeOK
<1>1. CASE RefuseImport(p)
  <2>1. running'[p].stage = "idle" /\ running[p].stage # "drop"
    BY <1>0, <1>1 DEF RefuseImport, GoOn, Idle
  <2>2. UNCHANGED <<rows, imports, sessions, active>>
    BY <1>1 DEF RefuseImport
  <2> QED
    BY <2>1, <2>2, FineRests
<1>2. CASE AcceptImport(p)
  <2> DEFINE job == running[p]
             next == Accepted(job)
  <2>1. job \in Check
    BY <1>2, StageOfRunning DEF AcceptImport
  <2>2. /\ running'[p] = next /\ UNCHANGED <<rows, imports, sessions, active>>
        /\ job.stage = "check" /\ sessions[job.session] = "open" /\ MayImport(job.items)
    BY <1>0, <1>2 DEF AcceptImport, GoOn
  <2>3. next.stage = "find" /\ next.session = job.session /\ next.items = job.items
    BY DEF Accepted
  <2>4. ~Known(job.session, imports)
    BY <2>2 DEF Fine, ImportsOnce, Known
  <2>5. ASSUME NEW k \in DOMAIN job.items
        PROVE  Named(job.items[k].code, job.items[k].name, DOMAIN rows)
    <3>1. job.items[k].code \in Codes
      <4>1. job.items \in Seq(Item)
        BY <2>1, ImportAssumption DEF Check
      <4>2. job.items[k] \in Item
        BY <2>5, <4>1, LenProperties, ElementOfSeq
      <4> QED
        BY <4>2 DEF Item
    <3>2. MayPass(0, job.items[k].code, job.items[k].name)
      BY <2>2, <2>5 DEF MayImport
    <3>3. Named(job.items[k].code, job.items[k].name, DOMAIN rows \ {0})
      BY <3>1, <3>2, PassedName, ImportAssumption DEF Fine
    <3>4. DOMAIN rows \ {0} = DOMAIN rows
      <4>1. rows \in Seq(Row)
        BY DEF TypeOK
      <4>2. DOMAIN rows = 1..Len(rows)
        BY <4>1, LenProperties
      <4>3. 0 \notin 1..Len(rows)
        OBVIOUS
      <4> QED
        BY <4>2, <4>3
    <3> QED
      BY <3>3, <3>4
  <2>6. ImportNames(next)
    BY <2>2, <2>3, <2>5 DEF ImportNames, MayImport
  <2>7. SaveNames(next) /\ active
    BY <2>2, <2>3 DEF SaveNames, MayImport
  <2> HIDE DEF next
  <2>8. running[p].stage # "drop" /\ next.stage \notin {"drop", "close"}
    BY <2>2, <2>3
  <2>9. sessions[next.session] = "open" /\ ~Known(next.session, imports)
    BY <2>2, <2>3, <2>4
  <2> HIDE DEF job
  <2> QED
    BY <2>2, <2>6, <2>7, <2>8, <2>9, FineGoesOn
<1> QED
  BY <1>1, <1>2

LEMMA FindFine ==
  ASSUME TypeOK, NEW p \in Procs, Fine(running[p]), NEW i \in 0..Len(rows), FindExisting(p, i)
  PROVE  Fine(running[p])'
<1> DEFINE job == running[p]
           rebarcode == job.stage = "find" /\ rows[i].barcode = Head(job.items).code
           found == [job EXCEPT !.stage = "update", !.row = i, !.rebarcode = rebarcode]
           missed == [job EXCEPT !.stage = "create"]
<1>0. DOMAIN running = Procs
  BY DEF TypeOK
<1>1. job.stage \in {"find", "refind"} /\ job.stage \in Upserting /\ job.stage \in Importing
  BY DEF FindExisting, Upserting, Importing
<1>2. job \in Upsert
  BY <1>1, StageOfRunning
<1>3. PICK next \in {found, missed} : running'[p] = next
  BY <1>0 DEF FindExisting, GoOn
<1>4. /\ next.items = job.items /\ next.session = job.session
      /\ next.stage \in {"update", "create"}
  <2> HIDE DEF rebarcode
  <2> QED
    BY <1>2 DEF Upsert
<1>5. UNCHANGED <<rows, imports, sessions, active>>
  BY DEF FindExisting
<1> HIDE DEF found, missed, job
<1>6. active /\ sessions[next.session] = "open" /\ ~Known(next.session, imports)
  BY <1>1, <1>4 DEF Fine, ClosesEmpty, ImportsOnce, job
<1>7. ImportNames(next) /\ SaveNames(next)
  BY <1>1, <1>4 DEF Fine, ImportNames, SaveNames, Upserting, job
<1>8. next.stage \notin {"drop", "close"} /\ running[p].stage # "drop"
  BY <1>1, <1>4 DEF job
<1> QED
  BY <1>3, <1>5, <1>6, <1>7, <1>8, FineGoesOn

\* Row i is written, or comes last, and the others stay.
RowWritten(i, row) ==
  \A j \in DOMAIN rows' :
    \/ j = i /\ rows'[j] = row
    \/ j # i /\ j \in DOMAIN rows /\ rows'[j] = rows[j]

\* A row is written under a name that all other rows of its code have.
LEMMA OneNameAfter ==
  ASSUME OneName, NEW i, NEW row, RowWritten(i, row),
         row.code # NoCode => Named(row.code, row.name, DOMAIN rows \ {i})
  PROVE  OneName'
<1> SUFFICES ASSUME NEW j \in DOMAIN rows', NEW k \in DOMAIN rows',
                    rows'[j].code # NoCode, rows'[k].code = rows'[j].code
             PROVE  rows'[k].name = rows'[j].name
  BY DEF OneName, Named
<1>1. CASE j = i /\ k = i
  BY <1>1
<1>2. CASE j = i /\ k # i
  BY <1>2 DEF RowWritten, Named
<1>3. CASE j # i /\ k = i
  BY <1>3 DEF RowWritten, Named
<1>4. CASE j # i /\ k # i
  BY <1>4 DEF RowWritten, OneName, Named
<1> QED
  BY <1>1, <1>2, <1>3, <1>4

\* The goods of every code keep their name, but for those of a row that is
\* written without regard to the code it had.
LEMMA NamesKept ==
  ASSUME OneName, NEW n, NEW row, RowWritten(n, row), NEW S, DOMAIN rows \ {n} \subseteq S,
         row.code # NoCode => Named(row.code, row.name, S),
         NEW i \in DOMAIN rows, NEW j \in DOMAIN rows',
         rows[i].code # NoCode, rows'[j].code = rows[i].code
  PROVE  \/ rows'[j].name = rows[i].name
         \/ i = j /\ i = n /\ i \notin S
<1>1. CASE j = n
  BY <1>1 DEF RowWritten, Named
<1>2. CASE j # n
  BY <1>2 DEF RowWritten, OneName, Named
<1> QED
  BY <1>1, <1>2

\* The first item has been written into a row.
LEMMA UpsertFine ==
  ASSUME NEW p \in Procs, Fine(running[p]), running[p] \in Upsert,
         running'[p] = Upserted(running[p]), UNCHANGED <<imports, sessions, active>>,
         NEW i, NEW row, RowWritten(i, row),
         row.code = Head(running[p].items).code, row.name = Head(running[p].items).name
  PROVE  Fine(running[p])'
<1> DEFINE job == running[p]
           next == Upserted(job)
           left == Tail(job.items)
<1>1. /\ job.items \in Seq(Item) /\ job.items # <<>>
      /\ job.stage \in Upserting /\ job.stage \in Importing /\ job.stage # "drop"
      /\ job.stage \notin {"idle", "draft", "check"}
  BY DEF Upsert, Upserting, Importing
<1>2. /\ next.stage \in {"record", "find"} /\ next.session = job.session /\ next.items = left
  BY DEF Upsert, Upserted
<1>3. /\ Head(job.items) = job.items[1] /\ 1 \in DOMAIN job.items
      /\ \A k \in DOMAIN left : k + 1 \in DOMAIN job.items /\ left[k] = job.items[k + 1]
  <2>1. /\ left \in Seq(Item) /\ Len(left) = Len(job.items) - 1
        /\ \A k \in 1..Len(left) : left[k] = job.items[k + 1]
    BY <1>1, HeadTailProperties
  <2>2. DOMAIN left = 1..Len(left) /\ DOMAIN job.items = 1..Len(job.items)
    BY <1>1, <2>1, LenProperties
  <2>3. Len(job.items) \in Nat \ {0}
    BY <1>1, EmptySeq, LenProperties
  <2> HIDE DEF left, job
  <2> QED
    BY <2>1, <2>2, <2>3
<1>4. /\ CodesAgree(job.items)
      /\ \A k \in DOMAIN job.items : Named(job.items[k].code, job.items[k].name, DOMAIN rows)
  BY <1>1 DEF Fine, ImportNames
<1> HIDE DEF next, left, job
<1>5. running'[p] = next /\ running[p] = job
  BY DEF next, job
<1>6. Named(row.code, row.name, DOMAIN rows)
  BY <1>3, <1>4, <1>5
<1>7. ClosesEmpty(running[p])' /\ SaveNames(running[p])'
  BY <1>1, <1>2, <1>5 DEF Fine, ClosesEmpty, SaveNames
<1>8. ImportsOnce(running[p])'
  BY <1>1, <1>2, <1>5 DEF Fine, ImportsOnce, Known
<1>9. OneName'
  BY <1>6, OneNameAfter DEF Fine, Named
<1>10. ImportNames(running[p])'
  <2>1. CodesAgree(left)
    BY <1>3, <1>4 DEF CodesAgree
  <2>2. ASSUME NEW k \in DOMAIN left, NEW j \in DOMAIN rows', rows'[j].code = left[k].code
        PROVE  rows'[j].name = left[k].name
    <3>1. CASE j = i
      <4>1. row.code = job.items[1].code /\ row.name = job.items[1].name
        BY <1>3, <1>5
      <4>2. k + 1 \in DOMAIN job.items /\ left[k] = job.items[k + 1]
        BY <1>3, <2>2
      <4>3. job.items[1].code = job.items[k + 1].code
        BY <2>2, <3>1, <4>1, <4>2 DEF RowWritten
      <4> QED
        BY <1>3, <1>4, <3>1, <4>1, <4>2, <4>3 DEF RowWritten, CodesAgree
    <3>2. CASE j # i
      BY <1>3, <1>4, <2>2, <3>2 DEF RowWritten, Named
    <3> QED
      BY <3>1, <3>2
  <2> QED
    BY <1>2, <1>5, <2>1, <2>2 DEF ImportNames, Named, CodesAgree
<1> QED
  BY <1>7, <1>8, <1>9, <1>10 DEF Fine

\* What an update writes, and what it is sure of.
LEMMA UpdateWrites ==
  ASSUME TypeOK, NEW p \in Procs, Fits(running[p], rows), UpdateExisting(p)
  PROVE  /\ running[p] \in Upsert /\ running'[p] = Upserted(running[p])
         /\ \E i, row : /\ RowWritten(i, row)
                        /\ row.code = Head(running[p].items).code
                        /\ row.name = Head(running[p].items).name
<1> DEFINE job == running[p]
           row == Imported(rows[job.row], Head(job.items), job.rebarcode)
<1>1. job \in Upsert
  BY StageOfRunning DEF UpdateExisting, Upserting
<1>2. running'[p] = Upserted(job) /\ rows' = [rows EXCEPT ![job.row] = row]
  BY DEF UpdateExisting, GoOn, TypeOK
<1>3. row.code = Head(job.items).code /\ row.name = Head(job.items).name
  BY DEF Imported
<1>4. RowWritten(job.row, row)
  <2>1. job.row \in DOMAIN rows
    BY DEF UpdateExisting, Fits
  <2> HIDE DEF row, job
  <2> QED
    BY <1>2, <2>1 DEF RowWritten
<1> QED
  BY <1>1, <1>2, <1>3, <1>4

LEMMA CreateWrites ==
  ASSUME TypeOK, NEW p \in Procs, CreateRow(p)
  PROVE  /\ running[p] \in Upsert
         /\ \/ rows' = rows /\ running'[p] = [running[p] EXCEPT !.stage = "refind"]
            \/ /\ running'[p] = Upserted(running[p])
               /\ \E i, row : /\ RowWritten(i, row)
                              /\ row.code = Head(running[p].items).code
                              /\ row.name = Head(running[p].items).name
<1> DEFINE job == running[p]
           item == Head(job.items)
           row == [ name |-> item.name, characteristics |-> item.characteristics,
                    code |-> item.code,
                    key |-> ItemKey(item.name, item.characteristics, item.code),
                    barcode |-> <<item.name, item.characteristics>>, quantity |-> 1 ]
<1>1. job \in Upsert
  BY StageOfRunning DEF CreateRow, Upserting
<1>2. \/ rows' = rows /\ running'[p] = [job EXCEPT !.stage = "refind"]
      \/ rows' = Append(rows, row) /\ running'[p] = Upserted(job)
  BY DEF CreateRow, GoOn, TypeOK
<1>3. row.code = item.code /\ row.name = item.name
  OBVIOUS
<1>4. rows' = Append(rows, row) => RowWritten(Len(rows) + 1, row)
  <2>1. rows \in Seq(Row)
    BY DEF TypeOK
  <2> HIDE DEF row
  <2>2. rows \in Seq(Row \cup {row})
    BY <2>1
  <2>3. /\ Len(Append(rows, row)) = Len(rows) + 1 /\ DOMAIN rows = 1..Len(rows)
        /\ DOMAIN Append(rows, row) = 1..(Len(rows) + 1) /\ Len(rows) \in Nat
        /\ \A j \in 1..Len(rows) : Append(rows, row)[j] = rows[j]
        /\ Append(rows, row)[Len(rows) + 1] = row
    BY <2>2, AppendProperties, LenProperties
  <2> QED
    BY <2>3 DEF RowWritten
<1> QED
  BY <1>1, <1>2, <1>3, <1>4

LEMMA WriteFine ==
  ASSUME TypeOK, NEW p \in Procs, Fits(running[p], rows), Fine(running[p]),
         UpdateExisting(p) \/ CreateRow(p)
  PROVE  Fine(running[p])'
<1>1. UNCHANGED <<imports, sessions, active>>
  BY DEF UpdateExisting, CreateRow
<1>2. CASE UpdateExisting(p)
  BY <1>1, <1>2, UpdateWrites, UpsertFine
<1>3. CASE CreateRow(p)
  <2> DEFINE again == [running[p] EXCEPT !.stage = "refind"]
  <2>1. running[p] \in Upsert /\ running[p].stage = "create"
    BY <1>3, CreateWrites DEF CreateRow
  <2>2. CASE rows' = rows /\ running'[p] = again
    <3>1. again.stage = "refind" /\ again.items = running[p].items
          /\ again.session = running[p].session
      BY <2>1 DEF Upsert
    <3> HIDE DEF again
    <3>2. active /\ sessions[again.session] = "open" /\ ~Known(again.session, imports)
      BY <2>1, <3>1 DEF Fine, ClosesEmpty, ImportsOnce, Importing, Upserting
    <3>3. ImportNames(again) /\ SaveNames(again)
      BY <2>1, <3>1 DEF Fine, ImportNames, SaveNames, Upserting
    <3> QED
      BY <1>1, <2>1, <2>2, <3>1, <3>2, <3>3, FineGoesOn
  <2>3. CASE running'[p] = Upserted(running[p])
             /\ \E i, row : /\ RowWritten(i, row)
                            /\ row.code = Head(running[p].items).code
                            /\ row.name = Head(running[p].items).name
    BY <1>1, <2>1, <2>3, UpsertFine
  <2> QED
    BY <1>3, <2>2, <2>3, CreateWrites
<1> QED
  BY <1>2, <1>3

LEMMA RecordFine ==
  ASSUME TypeOK, NEW p \in Procs, Fine(running[p]), CreateImport(p)
  PROVE  Fine(running[p])'
<1> DEFINE job == running[p]
           drop == [stage |-> "drop", session |-> job.session]
           import == [session |-> job.session, pieces |-> job.pieces]
<1>1. job \in Record /\ job.stage = "record"
  BY StageOfRunning DEF CreateImport
<1>2. import \in Import /\ import.session = job.session
  BY <1>1 DEF Record, Import
<1>3. drop.stage = "drop" /\ drop.session = job.session
  OBVIOUS
<1>4. /\ running'[p] = drop /\ imports' = Append(imports, import)
      /\ UNCHANGED <<rows, active, sessions>>
  BY DEF CreateImport, GoOn, TypeOK
<1>5. imports \in Seq(Import)
  BY DEF TypeOK, Import
<1> HIDE DEF drop, import, job
<1>6. /\ DOMAIN imports' = 1..(Len(imports) + 1) /\ DOMAIN imports = 1..Len(imports)
      /\ Len(imports) \in Nat
      /\ \A c \in 1..Len(imports) : imports'[c] = imports[c]
      /\ imports'[Len(imports) + 1] = import
  BY <1>2, <1>4, <1>5, AppendProperties, LenProperties
<1>7. /\ \A c, d \in DOMAIN imports : imports[c].session = imports[d].session => c = d
      /\ \A c \in DOMAIN imports : imports[c].session # job.session
      /\ \A c \in DOMAIN imports : sessions[imports[c].session] # "open"
  BY <1>1 DEF Fine, ImportsOnce, Importing, Known, job
<1>8. ImportsOnce(running[p])'
  <2>1. \A c, d \in DOMAIN imports' : imports'[c].session = imports'[d].session => c = d
    BY <1>2, <1>6, <1>7
  <2>2. \A c \in DOMAIN imports' :
          sessions[imports'[c].session] = "open" => drop.session = imports'[c].session
    BY <1>2, <1>3, <1>6, <1>7
  <2>3. drop.stage \notin Importing
    BY <1>3 DEF Importing, Upserting
  <2> QED
    BY <1>3, <1>4, <2>1, <2>2, <2>3 DEF ImportsOnce
<1>9. ClosesEmpty(running[p])'
  BY <1>1, <1>3, <1>4 DEF Fine, ClosesEmpty, job
<1>10. OneName' /\ ImportNames(running[p])' /\ SaveNames(running[p])'
  BY <1>3, <1>4 DEF Fine, OneName, Named, ImportNames, SaveNames, Upserting
<1> QED
  BY <1>8, <1>9, <1>10 DEF Fine

LEMMA DropFine ==
  ASSUME TypeOK, NEW p \in Procs, Fine(running[p]), DropSession(p)
  PROVE  Fine(running[p])'
<1> DEFINE s == running[p].session
<1>1. running[p].stage = "drop" /\ s \in Sessions
  BY StageOfRunning DEF DropSession, Drop
<1>2. /\ running'[p] = Idle /\ UNCHANGED <<rows, active, imports>>
      /\ sessions' = [sessions EXCEPT ![s] = IF @ = "open" THEN "submitted" ELSE @]
  BY DEF DropSession, GoOn, TypeOK
<1>3. sessions'[s] # "open" /\ \A r : sessions'[r] = "open" => sessions[r] = "open"
  <2> HIDE DEF s
  <2> QED
    BY <1>1, <1>2 DEF TypeOK
<1>4. ImportsOnce(running[p])'
  BY <1>1, <1>2, <1>3 DEF Fine, ImportsOnce, Idle, Importing, Upserting
<1>5. ClosesEmpty(running[p])'
  BY <1>1, <1>2 DEF Fine, ClosesEmpty, Idle
<1>6. OneName' /\ ImportNames(running[p])' /\ SaveNames(running[p])'
  BY <1>2 DEF Fine, OneName, Named, ImportNames, SaveNames, Upserting, Idle
<1> QED
  BY <1>4, <1>5, <1>6 DEF Fine

\* What a save writes.
LEMMA SaveWrites ==
  ASSUME TypeOK, NEW p \in Procs, Fine(running[p]), SaveRow(p)
  PROVE  /\ running[p].stage = "save" /\ running'[p] = Idle
         /\ \/ rows' = rows
            \/ \E i, row : /\ RowWritten(i, row)
                           /\ row.code # NoCode => Named(row.code, row.name, DOMAIN rows \ {i})
<1> DEFINE job == running[p]
           row == Written(rows[job.row], job.set)
<1>1. running'[p] = Idle /\ job.stage = "save"
      /\ (rows' = rows \/ rows' = [rows EXCEPT ![job.row] = row])
  BY DEF SaveRow, GoOn, TypeOK
<1>2. row.code # NoCode => Named(row.code, row.name, DOMAIN rows \ {job.row})
  BY <1>1 DEF Fine, SaveNames
<1>3. job.row \in DOMAIN rows
  BY <1>1, StageOfRunning DEF IsEdit
<1>4. rows' = [rows EXCEPT ![job.row] = row] => RowWritten(job.row, row)
  <2> HIDE DEF row, job
  <2> QED
    BY <1>3 DEF RowWritten
<1> QED
  BY <1>1, <1>2, <1>4

LEMMA SaveFine ==
  ASSUME TypeOK, NEW p \in Procs, Fine(running[p]), SaveRow(p)
  PROVE  Fine(running[p])'
<1>1. running[p].stage = "save" /\ running'[p] = Idle
  BY SaveWrites
<1>2. UNCHANGED <<imports, sessions, active>>
  BY DEF SaveRow
<1>3. OneName'
  <2>1. CASE rows' = rows
    BY <2>1 DEF Fine, OneName, Named
  <2>2. CASE rows' # rows
    BY <2>2, SaveWrites, OneNameAfter DEF Fine
  <2> QED
    BY <2>1, <2>2
<1>4. ImportsOnce(running[p])'
  BY <1>1, <1>2 DEF Fine, ImportsOnce, Idle, Importing, Upserting
<1>5. ClosesEmpty(running[p])'
  BY <1>1, <1>2 DEF Fine, ClosesEmpty, Idle
<1>6. ImportNames(running[p])' /\ SaveNames(running[p])'
  BY <1>1 DEF ImportNames, SaveNames, Upserting, Idle
<1> QED
  BY <1>3, <1>4, <1>5, <1>6 DEF Fine

LEMMA CloseFine ==
  ASSUME TypeOK, NEW p \in Procs, Fine(running[p]), DeleteLocation(p)
  PROVE  Fine(running[p])'
<1>1. /\ running[p].stage = "close" /\ running'[p] = Idle
      /\ UNCHANGED <<rows, imports, sessions>>
  BY DEF DeleteLocation, GoOn, TypeOK
<1>2. ClosesEmpty(running[p])'
  BY <1>1 DEF Fine, ClosesEmpty, Empty, Idle
<1>3. ImportsOnce(running[p])'
  BY <1>1 DEF Fine, ImportsOnce, Idle, Importing, Upserting
<1>4. OneName' /\ ImportNames(running[p])' /\ SaveNames(running[p])'
  BY <1>1 DEF Fine, OneName, Named, ImportNames, SaveNames, Upserting, Idle
<1> QED
  BY <1>2, <1>3, <1>4 DEF Fine

LEMMA DeductFine ==
  ASSUME TypeOK, NEW p \in Procs, Fine(running[p]), running[p] = Idle,
         NEW i \in DOMAIN rows, Deduct(i)
  PROVE  Fine(running[p])'
<1>1. /\ rows' = [rows EXCEPT ![i].quantity = @ - 1] /\ rows[i].quantity > 0
      /\ UNCHANGED <<active, imports, sessions, running>>
  BY DEF Deduct
<1>2. rows[i] \in Row
  BY DEF TypeOK
<1>3. DOMAIN rows' = DOMAIN rows
      /\ \A j \in DOMAIN rows : rows'[j].code = rows[j].code /\ rows'[j].name = rows[j].name
  BY <1>1, <1>2 DEF Row
<1>4. OneName'
  BY <1>3 DEF Fine, OneName, Named
<1>5. ClosesEmpty(running[p])'
  <2>1. active
    BY <1>1 DEF Fine, ClosesEmpty, Empty
  <2> QED
    BY <1>1, <2>1 DEF ClosesEmpty, Idle
<1>6. ImportsOnce(running[p])' /\ ImportNames(running[p])' /\ SaveNames(running[p])'
  BY <1>1 DEF Fine, ImportsOnce, Known, ImportNames, SaveNames, Upserting, Idle
<1> QED
  BY <1>4, <1>5, <1>6 DEF Fine

\* A step of one handler leaves the others waiting if they were.
LEMMA IdleStays ==
  ASSUME TypeOK, NEW p \in Procs, Begin(p) \/ Continue(p), \A q \in Others(p) : running[q] = Idle
  PROVE  \A q \in Others(p) : running'[q] = Idle
<1>1. CASE SaveActiveSession(p)
  BY <1>1 DEF SaveActiveSession, Others, Idle
<1>2. CASE ~SaveActiveSession(p)
  <2>1. running' = running \/ \E job : GoOn(p, job)
    BY <1>2 DEF Begin, Continue, DeleteActiveSession, BeginSave, BeginNomenclature, BeginEdit,
       BeginClose, AcceptImport, RefuseImport, FindExisting, UpdateExisting, CreateRow,
       CreateImport, DropSession, SaveRow, DeleteLocation
  <2> QED
    BY <2>1 DEF GoOn, Others, TypeOK
<1> QED
  BY <1>1, <1>2

LEMMA InitOrderly == Init => OrderlyInv
<1> SUFFICES ASSUME Init PROVE OrderlyInv
  OBVIOUS
<1>1. \A p \in Procs : running[p] = Idle
  BY DEF Init
<1>2. imports = <<>> /\ active
  BY DEF Init
<1>3. OneName
  <2>1. \A i, j \in DOMAIN rows : i = j
    BY DEF Init
  <2> QED
    BY <2>1 DEF OneName, Named
<1>4. Fine(Idle)
  BY <1>2, <1>3
  DEF Fine, ClosesEmpty, ImportsOnce, ImportNames, SaveNames, Importing, Upserting, Idle
<1> QED
  BY <1>1, <1>4 DEF OrderlyInv, Alone

LEMMA NextOrderly == StockInv /\ OrderlyInv /\ [Next]_vars => OrderlyInv'
<1> SUFFICES ASSUME StockInv, OrderlyInv, [Next]_vars, orderly' PROVE OrderlyInv'
  BY DEF OrderlyInv
<1>1. TypeOK /\ \A p \in Procs : Fits(running[p], rows)
  BY DEF StockInv, ImportsFit
<1>2. CASE UNCHANGED vars
  BY <1>2 DEF vars, OrderlyInv, Alone, Fine, ClosesEmpty, Empty, ImportsOnce, Known, OneName,
     Named, ImportNames, SaveNames
<1>3. ASSUME NEW p \in Procs, Begin(p) \/ Continue(p), orderly,
             \A q \in Others(p) : running[q] = Idle
      PROVE  OrderlyInv'
  <2>1. Fine(running[p])
    BY <1>3, WasFine
  <2>2. Fine(running[p])'
    BY <1>1, <1>3, <2>1, BeginFine, DraftFine, CheckFine, FindFine, WriteFine, RecordFine,
       DropFine, SaveFine, CloseFine DEF Continue
  <2> QED
    BY <1>1, <1>3, <2>2, IdleStays, StaysAlone
<1>4. ASSUME NEW i \in DOMAIN rows, Deduct(i), orderly, \A q \in Procs : running[q] = Idle
      PROVE  OrderlyInv'
  <2>1. PICK p \in Procs : TRUE
    BY ImportAssumption
  <2>2. Fine(running[p])
    BY <1>4, WasFine DEF Others
  <2>3. Fine(running[p])'
    BY <1>1, <1>4, <2>2, DeductFine
  <2>4. \A q \in Others(p) : running'[q] = Idle
    BY <1>4 DEF Deduct, Others
  <2> QED
    BY <2>3, <2>4, StaysAlone
<1> QED
  BY <1>2, <1>3, <1>4 DEF Next, Others

\* In order the books agree: nothing but what is recorded is in the rows, all of
\* it is in the overview, closed locations included, and no session is imported
\* twice.
THEOREM ImportsOnceInOrder == Spec => []ImportedOnce
<1>1. StockInv /\ OrderlyInv => ImportedOnce
  <2> SUFFICES ASSUME StockInv, OrderlyInv, Quiet, orderly
               PROVE  /\ InRows = Recorded + moved
                      /\ OverviewTotal = Recorded + moved
                      /\ \A c, d \in DOMAIN imports :
                           imports[c].session = imports[d].session => c = d
    BY DEF ImportedOnce
  <2>1. PICK p \in Procs : TRUE
    BY ImportAssumption
  <2>2. Fine(running[p])
    BY WasFine DEF Quiet, Others
  <2>3. DoneBy = 0
    <3> DEFINE f == [q \in Procs |-> Done(running[q])]
               none == {q \in Procs : FALSE}
    <3>1. \A q \in Procs : f[q] = IF q \in none THEN 1 ELSE 0
      BY DEF Quiet, Done, Idle, Importing, Upserting
    <3>2. none \in SUBSET Procs /\ Cardinality(none) = 0
      <4>1. none = {}
        OBVIOUS
      <4> QED
        BY <4>1, FS_EmptySet
    <3>3. DoneBy = SumFunctionOnSet(f, Procs)
      BY DEF DoneBy, SumFunction
    <3> HIDE DEF f, none
    <3>4. SumFunctionOnSet(f, Procs) = 1 * Cardinality(none)
      BY <3>1, <3>2, ImportAssumption, SumOfEqual
    <3> QED
      BY <3>2, <3>3, <3>4
  <2>4. InRows \in Int /\ Recorded \in Int /\ moved \in Int
    <3>1. StockIn(rows) \in Int /\ RecordedIn(imports) \in Int /\ moved \in Int
      BY StockType, RecordedType DEF StockInv, TypeOK, Import
    <3> QED
      BY <3>1 DEF InRows, Recorded, StockIn, RecordedIn
  <2>5. InRows = Recorded + moved
    BY <2>3, <2>4 DEF StockInv, Excess
  <2>6. ~active => InRows = 0
    <3> SUFFICES ASSUME ~active PROVE InRows = 0
      OBVIOUS
    <3> DEFINE S == DOMAIN rows
               f == [i \in S |-> rows[i].quantity]
               none == {i \in S : FALSE}
    <3>1. \A i \in S : f[i] = IF i \in none THEN 1 ELSE 0
      BY <2>2 DEF Fine, ClosesEmpty, Empty
    <3>2. IsFiniteSet(S)
      BY LenProperties, FS_Interval DEF StockInv, TypeOK
    <3>3. none \in SUBSET S /\ Cardinality(none) = 0
      <4>1. none = {}
        OBVIOUS
      <4> QED
        BY <4>1, FS_EmptySet
    <3>4. InRows = SumFunctionOnSet(f, S)
      BY DEF InRows, SumFunction
    <3> HIDE DEF f, none, S
    <3>5. SumFunctionOnSet(f, S) = 1 * Cardinality(none)
      BY <3>1, <3>2, <3>3, SumOfEqual
    <3> QED
      BY <3>3, <3>4, <3>5
  <2> QED
    BY <2>2, <2>5, <2>6 DEF OverviewTotal, Fine, ImportsOnce
<1> QED
  BY <1>1, InitStock, NextStock, InitOrderly, NextOrderly, PTL DEF Spec

\* In order a code that goods of the location have is never given to goods of
\* another name, whichever of the three handlers gives it, and however long the
\* sequence of edits and imports before.
THEOREM CodeKeepsName == Spec => CodeKeepsItsName
<1> DEFINE Keeps ==
      orderly' =>
        \A i \in DOMAIN rows, j \in DOMAIN rows' :
          rows[i].code # NoCode /\ rows'[j].code = rows[i].code =>
            \/ rows'[j].name = rows[i].name
            \/ i = j /\ \E p \in Procs : running[p].stage = "save" /\ running'[p] = Idle
<1>1. StockInv /\ OrderlyInv /\ [Next]_vars => [Keeps]_vars
  <2> SUFFICES ASSUME StockInv, OrderlyInv, Next, orderly',
                      NEW i \in DOMAIN rows, NEW j \in DOMAIN rows',
                      rows[i].code # NoCode, rows'[j].code = rows[i].code
               PROVE  \/ rows'[j].name = rows[i].name
                      \/ i = j /\ \E p \in Procs : running[p].stage = "save" /\ running'[p] = Idle
    OBVIOUS
  <2>1. TypeOK /\ \A p \in Procs : Fits(running[p], rows)
    BY DEF StockInv, ImportsFit
  <2>2. CASE rows' = rows
    <3>1. PICK p \in Procs : \A q \in Others(p) : running[q] = Idle
      BY ImportAssumption DEF Next, Others
    <3>2. OneName
      BY <3>1, WasFine DEF Fine, Next
    <3> QED
      BY <2>2, <3>2 DEF OneName, Named
  <2>3. ASSUME NEW p \in Procs, Begin(p) \/ Continue(p), orderly,
               \A q \in Others(p) : running[q] = Idle, rows' # rows
        PROVE  \/ rows'[j].name = rows[i].name
               \/ i = j /\ running[p].stage = "save" /\ running'[p] = Idle
    <3>1. Fine(running[p])
      BY <2>3, WasFine
    <3>2. UpdateExisting(p) \/ CreateRow(p) \/ SaveRow(p)
      BY <2>3 DEF Begin, Continue, DeleteActiveSession, BeginSave, BeginNomenclature, BeginEdit,
         BeginClose, SaveActiveSession, AcceptImport, RefuseImport, FindExisting, CreateImport,
         DropSession, DeleteLocation
    <3>3. CASE UpdateExisting(p) \/ CreateRow(p)
      <4>1. running[p] \in Upsert
            /\ \E n, row : /\ RowWritten(n, row)
                           /\ row.code = Head(running[p].items).code
                           /\ row.name = Head(running[p].items).name
        BY <2>1, <2>3, <3>3, UpdateWrites, CreateWrites
      <4>2. Named(Head(running[p].items).code, Head(running[p].items).name, DOMAIN rows)
        <5>1. running[p].items \in Seq(Item) /\ running[p].items # <<>>
              /\ running[p].stage \in Upserting
          BY <4>1 DEF Upsert
        <5>2. Head(running[p].items) = running[p].items[1] /\ 1 \in DOMAIN running[p].items
          BY <5>1, HeadTailProperties, EmptySeq, LenProperties
        <5> QED
          BY <3>1, <5>1, <5>2 DEF Fine, ImportNames
      <4>3. PICK n, row : /\ RowWritten(n, row) /\ Named(row.code, row.name, DOMAIN rows)
        BY <4>1, <4>2
      <4> QED
        BY <3>1, <4>3, NamesKept DEF Fine
    <3>4. CASE SaveRow(p)
      <4>1. PICK n, row : /\ RowWritten(n, row)
                          /\ row.code # NoCode => Named(row.code, row.name, DOMAIN rows \ {n})
        BY <2>1, <2>3, <3>1, <3>4, SaveWrites
      <4>2. running[p].stage = "save" /\ running'[p] = Idle
        BY <2>1, <3>1, <3>4, SaveWrites
      <4> QED
        BY <3>1, <4>1, <4>2, NamesKept DEF Fine
    <3> QED
      BY <3>2, <3>3, <3>4
  <2>4. ASSUME NEW n \in DOMAIN rows, Deduct(n), orderly, \A q \in Procs : running[q] = Idle
        PROVE  rows'[j].name = rows[i].name
    <3>1. rows[n] \in Row /\ rows' = [rows EXCEPT ![n].quantity = @ - 1]
      BY <2>1, <2>4 DEF TypeOK, Deduct
    <3>2. DOMAIN rows' = DOMAIN rows
          /\ \A k \in DOMAIN rows : rows'[k].code = rows[k].code /\ rows'[k].name = rows[k].name
      BY <3>1 DEF Row
    <3>3. PICK p \in Procs : TRUE
      BY ImportAssumption
    <3>4. OneName
      BY <2>4, <3>3, WasFine DEF Fine, Others
    <3> QED
      BY <3>2, <3>4 DEF OneName, Named
  <2> QED
    BY <2>2, <2>3, <2>4 DEF Next, Others
<1>2. CodeKeepsItsName <=> [][Keeps]_vars
  BY DEF CodeKeepsItsName
<1> QED
  BY <1>1, <1>2, InitStock, NextStock, InitOrderly, NextOrderly, PTL DEF Spec

================================================================================
