-------------------------- MODULE MeasurementUnits --------------------------
(***************************************************************************)
(* The measurement units a user made for himself                           *)
(* (measurement-units/measurement-units.service.ts) and the documents that *)
(* carry their names: a unit is stored as a name, so renaming it writes    *)
(* the new name into every collection, and removing it first counts where  *)
(* the name is used.  Neither is one step: the collections are written, or *)
(* counted, in parallel, and the writing may stop half way.                *)
(*                                                                         *)
(* All is about one user.  A name stands for what its lower case is; names *)
(* of the program's own units are left out.  Stock rows, dispatches and    *)
(* stocktakes carry names of units as well and are looked at by neither.   *)
(***************************************************************************)
EXTENDS Integers, FiniteSets

CONSTANTS
  UnitId,        \* the documents of custom_measurement_units
  UnitName,
  NoName,        \* no document, or a unit of the program
  Place,         \* where names are looked for: see the assumption
  Writer         \* requests of administrators under way at once

\* Assumed where the constants get their values (Office).
NoNameAssumption == NoName \notin UnitName

PlaceAssumption ==
  Place \subseteq {"requestItems", "requestSubstitutions", "sessions", "imports",
                   "importSessions"}

VARIABLES
  units,         \* the name of each unit
  documents,     \* the name of the unit in the document of each place
  writers,       \* renames and removals under way
  unsettled      \* history: a document was written while a unit changed, or with
                 \* a name that no unit has; or changes overlapped or stopped

vars == <<units, documents, writers, unsettled>>

Names == {units[i] : i \in UnitId} \ {NoName}

Idle == [op |-> "idle"]

Writing ==
  {Idle}
    \cup [op : {"update"}, id : UnitId, oldName : UnitName, newName : UnitName]
    \cup [op : {"rename"}, oldName : UnitName, newName : UnitName,
          todo : SUBSET Place]
    \cup [op : {"remove"}, id : UnitId, name : UnitName, todo : SUBSET Place]

TypeOK ==
  /\ units \in [UnitId -> UnitName \cup {NoName}]
  /\ documents \in [Place -> UnitName \cup {NoName}]
  /\ writers \in [Writer -> Writing]
  /\ unsettled \in BOOLEAN

Init ==
  /\ units = [i \in UnitId |-> NoName]
  /\ documents = [p \in Place |-> NoName]
  /\ writers = [w \in Writer |-> Idle]
  /\ unsettled = FALSE

Busy == \E w \in Writer : writers[w] # Idle

Begin(w, job) ==
  /\ writers[w] = Idle
  /\ writers' = [writers EXCEPT ![w] = job]
  /\ unsettled' = (unsettled \/ Busy)
  /\ UNCHANGED <<units, documents>>

End(w) == writers' = [writers EXCEPT ![w] = Idle]

-----------------------------------------------------------------------------
(* The user *)

\* createForUser: a name he has is answered with the unit that has it; the
\* unique index refuses the second of two at once.
CreateForUser(i, name) ==
  /\ units[i] = NoName
  /\ name \notin Names
  /\ units' = [units EXCEPT ![i] = name]
  /\ UNCHANGED <<documents, writers, unsettled>>

\* A document is saved with a unit of the program or a name.  Any name is taken:
\* the options the user chose from (getOptions) may have changed since.
WriteDocument(p, name) ==
  /\ documents[p] # name
  /\ documents' = [documents EXCEPT ![p] = name]
  /\ unsettled' = (unsettled \/ (name # NoName /\ (Busy \/ name \notin Names)))
  /\ UNCHANGED <<units, writers>>

-----------------------------------------------------------------------------
(* update *)

\* update reads the unit and looks for another one of that name.
BeginUpdate(w, i, newName) ==
  /\ units[i] # NoName
  /\ newName \notin Names
  /\ Begin(w, [op |-> "update", id |-> i, oldName |-> units[i],
               newName |-> newName])

\* The unit is saved; the unique index may refuse the name after all, and a unit
\* that was removed cannot be saved.
SaveUpdate(w) ==
  /\ writers[w].op = "update"
  /\ LET job == writers[w]
     IN  IF units[job.id] # NoName /\ job.newName \notin Names
           THEN /\ units' = [units EXCEPT ![job.id] = job.newName]
                /\ writers' = [writers EXCEPT ![w] =
                     [op |-> "rename", oldName |-> job.oldName,
                      newName |-> job.newName, todo |-> Place]]
           ELSE /\ End(w)
                /\ UNCHANGED units
  /\ UNCHANGED <<documents, unsettled>>

\* propagateUnitRename: one updateMany.
PropagateUnitRename(w, p) ==
  /\ writers[w].op = "rename"
  /\ p \in writers[w].todo
  /\ documents' = [documents EXCEPT ![p] =
       IF @ = writers[w].oldName THEN writers[w].newName ELSE @]
  /\ writers' = [writers EXCEPT ![w].todo = @ \ {p}]
  /\ UNCHANGED <<units, unsettled>>

EndRename(w) ==
  /\ writers[w].op = "rename"
  /\ writers[w].todo = {}
  /\ End(w)
  /\ UNCHANGED <<units, documents, unsettled>>

\* The process stops, or one of the updates fails.
StopRename(w) ==
  /\ writers[w].op = "rename"
  /\ writers[w].todo # {}
  /\ End(w)
  /\ unsettled' = TRUE
  /\ UNCHANGED <<units, documents>>

-----------------------------------------------------------------------------
(* remove *)

BeginRemove(w, i) ==
  /\ units[i] # NoName
  /\ Begin(w, [op |-> "remove", id |-> i, name |-> units[i], todo |-> Place])

\* Bug form: documents that are not submitted yet do not count.
UsesSubmitted(p, name) == p \in {"requestItems", "imports"} /\ documents[p] = name

Uses(p, name) == documents[p] = name

\* countUnitUsage: one of the counts.  A unit in use is not removed.
CountUnitUsage(w, p) ==
  /\ writers[w].op = "remove"
  /\ p \in writers[w].todo
  /\ IF Uses(p, writers[w].name)
       THEN End(w)
       ELSE writers' = [writers EXCEPT ![w].todo = @ \ {p}]
  /\ UNCHANGED <<units, documents, unsettled>>

Remove(w) ==
  /\ writers[w].op = "remove"
  /\ writers[w].todo = {}
  /\ units' = [units EXCEPT ![writers[w].id] = NoName]
  /\ End(w)
  /\ UNCHANGED <<documents, unsettled>>

-----------------------------------------------------------------------------
Next ==
  \/ \E i \in UnitId, name \in UnitName : CreateForUser(i, name)
  \/ \E p \in Place, name \in UnitName \cup {NoName} : WriteDocument(p, name)
  \/ \E w \in Writer :
       \/ \E i \in UnitId :
            \/ BeginRemove(w, i)
            \/ \E name \in UnitName : BeginUpdate(w, i, name)
       \/ SaveUpdate(w)
       \/ EndRename(w)
       \/ StopRename(w)
       \/ Remove(w)
       \/ \E p \in Place : PropagateUnitRename(w, p) \/ CountUnitUsage(w, p)

Spec == Init /\ [][Next]_vars

-----------------------------------------------------------------------------
\* The name of a unit in a document is the name of one of the user's units when no
\* change is under way: renames reach every document and no unit in use is removed,
\* unless changes overlapped, stopped, or met a document that was just written.
UnitsAreKnown ==
  ~unsettled /\ ~Busy =>
    \A p \in Place : documents[p] \in Names \cup {NoName}

=============================================================================
