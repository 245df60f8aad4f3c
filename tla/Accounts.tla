------------------------------ MODULE Accounts ------------------------------
(***************************************************************************)
(* One account and those who change it at once: administrators             *)
(* (users/users.service.ts), its owner, and the login that counts wrong    *)
(* passwords (auth/auth.service.ts), over the structures it may belong to  *)
(* (structures/structures.service.ts).                                     *)
(*                                                                         *)
(* Every handler loads the account, changes its copy and saves it.  The    *)
(* save writes only the fields that differ from what was loaded, so two    *)
(* handlers under way mix their fields.  Accounts are independent of each  *)
(* other; the permissions of an account are abstracted to whether it may   *)
(* open a page of the warehouse.                                           *)
(***************************************************************************)
EXTENDS Integers, FiniteSets

CONSTANTS
  Handler,       \* requests under way at once
  Structure,
  Admin,         \* who administers accounts
  None,
  Request,       \* bound: what updates ask for, among UpdateDto
  MaxAttempts    \* MAX_FAILED_LOGIN_ATTEMPTS

\* Assumed where the constants get their values (Office).
MaxAttemptsAssumption == MaxAttempts \in Nat \ {0}

VARIABLES
  account,       \* the stored account, or None once it is deleted
  withWarehouse, \* structures that have a warehouse
  handlers,      \* handler -> what it does and the copy it works on
  overlapped,    \* history: two handlers were under way at once
  unbacked       \* history: the owner moved himself, or a structure lost its
                 \* warehouse

vars == <<account, withWarehouse, handlers, overlapped, unbacked>>

Account ==
  [isActive : BOOLEAN, deactivatedBy : Admin \cup {None},
   structureId : Structure, warehouse : BOOLEAN,
   failedLoginAttempts : 0 .. MaxAttempts - 1, locked : BOOLEAN]

\* What an update may ask for; None leaves the field alone.
UpdateDto ==
  [isActive : BOOLEAN \cup {None}, structureId : Structure \cup {None},
   warehouse : BOOLEAN \cup {None}]

NoneAssumption == None \notin Structure \cup Admin /\ None \notin Account
RequestAssumption == Request \subseteq UpdateDto

Idle == [op |-> "idle"]

Operations ==
  {Idle}
    \cup [op : {"update"}, by : Admin, dto : UpdateDto, copy : Account]
    \cup [op : {"remove"}, by : Admin, copy : Account]
    \cup [op : {"profile"}, structureId : Structure, copy : Account]
    \cup [op : {"password", "wrong", "code"}, copy : Account]

TypeOK ==
  /\ account \in Account \cup {None}
  /\ withWarehouse \subseteq Structure
  /\ handlers \in [Handler -> Operations]
  /\ overlapped \in BOOLEAN
  /\ unbacked \in BOOLEAN

\* assertWarehousePermissionsAllowed
WarehousePermissionsAllowed(a) ==
  a.warehouse => a.structureId \in withWarehouse

\* createUser
Created(s, w) ==
  [isActive |-> TRUE, deactivatedBy |-> None, structureId |-> s,
   warehouse |-> w, failedLoginAttempts |-> 0, locked |-> FALSE]

Init ==
  /\ withWarehouse \in SUBSET Structure
  /\ \E s \in Structure, w \in BOOLEAN :
       /\ WarehousePermissionsAllowed(Created(s, w))
       /\ account = Created(s, w)
  /\ handlers = [h \in Handler |-> Idle]
  /\ overlapped = FALSE
  /\ unbacked = FALSE

-----------------------------------------------------------------------------
(* The save of a loaded document *)

\* Bug form: the whole copy is written back.
SavedWhole(old, new) == new

\* Only what the handler changed in its copy is written.
Saved(old, new) ==
  [f \in DOMAIN account |-> IF new[f] # old[f] THEN new[f] ELSE account[f]]

\* A save of a deleted account fails.
Save(h, new) ==
  /\ account' = IF account = None
                  THEN None ELSE Saved(handlers[h].copy, new)
  /\ handlers' = [handlers EXCEPT ![h] = Idle]
  /\ UNCHANGED <<withWarehouse, overlapped>>

\* A handler that refuses, or has nothing to write.
Answer(h) ==
  /\ handlers' = [handlers EXCEPT ![h] = Idle]
  /\ UNCHANGED <<account, withWarehouse, overlapped, unbacked>>

\* The handler loads the account.
Load(h, operation) ==
  /\ handlers[h] = Idle
  /\ account # None
  /\ handlers' = [handlers EXCEPT ![h] = operation]
  /\ overlapped' = (overlapped \/ \E g \in Handler : handlers[g] # Idle)
  /\ UNCHANGED <<account, withWarehouse, unbacked>>

-----------------------------------------------------------------------------
(* Administrators *)

LoadUpdate(h) ==
  \E by \in Admin, dto \in Request :
    Load(h, [op |-> "update", by |-> by, dto |-> dto, copy |-> account])

\* The copy with what the dto asks for.  Deactivating an inactive account keeps
\* who deactivated it first.
Updated(a, dto, by) ==
  LET flagged ==
        IF dto.isActive = TRUE
          THEN [a EXCEPT !.isActive = TRUE, !.deactivatedBy = None]
          ELSE IF dto.isActive = FALSE /\ a.isActive
                 THEN [a EXCEPT !.isActive = FALSE, !.deactivatedBy = by]
                 ELSE a
      moved == IF dto.structureId = None
                 THEN flagged
                 ELSE [flagged EXCEPT !.structureId = dto.structureId]
  IN  IF dto.warehouse = None
        THEN moved ELSE [moved EXCEPT !.warehouse = dto.warehouse]

\* Bug form: only permissions that the request brings are tested.
MayUpdateAskedOnly(dto, new) ==
  dto.warehouse # None => WarehousePermissionsAllowed(new)

MayUpdate(dto, new) == WarehousePermissionsAllowed(new)

\* updateFromDto: the permissions of the copy are tested with its structure,
\* then the copy is saved.  resolveStructureId may have refused a structure that
\* is no longer active.
UpdateFromDto(h) ==
  /\ handlers[h].op = "update"
  /\ LET dto == handlers[h].dto
         new == Updated(handlers[h].copy, dto, handlers[h].by)
     IN  \/ MayUpdate(dto, new) /\ Save(h, new) /\ UNCHANGED unbacked
         \/ ~MayUpdate(dto, new) /\ Answer(h)
         \/ dto.structureId # None /\ Answer(h)

LoadRemove(h) ==
  \E by \in Admin :
    Load(h, [op |-> "remove", by |-> by, copy |-> account])

\* remove: an account already inactive is deactivated again, by this one.
Remove(h) ==
  /\ handlers[h].op = "remove"
  /\ Save(h, [handlers[h].copy EXCEPT !.isActive = FALSE,
                                      !.deactivatedBy = handlers[h].by])
  /\ UNCHANGED unbacked

\* permanentRemove, which no handler under way can undo.
PermanentRemove ==
  /\ account # None
  /\ account' = None
  /\ UNCHANGED <<withWarehouse, handlers, overlapped, unbacked>>

-----------------------------------------------------------------------------
(* The owner *)

LoadProfile(h) ==
  \E s \in Structure :
    Load(h, [op |-> "profile", structureId |-> s, copy |-> account])

\* updateOwnProfile: the owner chooses another structure, and nobody asks
\* whether the permissions he has belong to it.
UpdateOwnProfile(h) ==
  /\ handlers[h].op = "profile"
  /\ \/ /\ handlers[h].copy.isActive
        /\ Save(h, [handlers[h].copy EXCEPT
                      !.structureId = handlers[h].structureId])
        /\ unbacked' = TRUE
     \/ Answer(h)

\* login with the password, with a wrong one, or with the global second code.
LoadLogin(h) ==
  \E entered \in {"password", "wrong", "code"} :
    Load(h, [op |-> entered, copy |-> account])

\* completeLogin: the failed attempts are cleared, whether the account turns
\* out to be active or not.
CompleteLogin(h) ==
  \/ /\ handlers[h].op = "password"
     /\ handlers[h].copy.locked
     /\ Answer(h)
  \/ /\ \/ handlers[h].op = "password" /\ ~handlers[h].copy.locked
        \/ handlers[h].op = "code"
     /\ Save(h, [handlers[h].copy EXCEPT !.failedLoginAttempts = 0,
                                         !.locked = FALSE])
     /\ UNCHANGED unbacked

\* A wrong password is counted; the last one allowed locks the account and
\* starts the count again.
FailLogin(h) ==
  /\ handlers[h].op = "wrong"
  /\ LET copy == handlers[h].copy
         nextAttempts == copy.failedLoginAttempts + 1
     IN  IF copy.locked
           THEN Answer(h)
           ELSE /\ Save(h, IF nextAttempts >= MaxAttempts
                             THEN [copy EXCEPT !.failedLoginAttempts = 0,
                                               !.locked = TRUE]
                             ELSE [copy EXCEPT
                                     !.failedLoginAttempts = nextAttempts])
                /\ UNCHANGED unbacked

\* lockUntil passes.
Unlock ==
  /\ account # None
  /\ account.locked
  /\ account' = [account EXCEPT !.locked = FALSE]
  /\ UNCHANGED <<withWarehouse, handlers, overlapped, unbacked>>

-----------------------------------------------------------------------------
(* Structures *)

\* update of a structure sets plain fields; who belongs to it and with which
\* permissions is not looked at.
UpdateStructure(s) ==
  \/ /\ s \in withWarehouse
     /\ withWarehouse' = withWarehouse \ {s}
     /\ unbacked' = TRUE
     /\ UNCHANGED <<account, handlers, overlapped>>
  \/ /\ s \notin withWarehouse
     /\ withWarehouse' = withWarehouse \cup {s}
     /\ UNCHANGED <<account, handlers, overlapped, unbacked>>

-----------------------------------------------------------------------------
Finish(h) ==
  \/ UpdateFromDto(h)
  \/ Remove(h)
  \/ UpdateOwnProfile(h)
  \/ CompleteLogin(h)
  \/ FailLogin(h)

Next ==
  \/ \E h \in Handler :
       \/ LoadUpdate(h)
       \/ LoadRemove(h)
       \/ LoadProfile(h)
       \/ LoadLogin(h)
       \/ Finish(h)
  \/ PermanentRemove
  \/ Unlock
  \/ \E s \in Structure : UpdateStructure(s)

Spec == Init /\ [][Next]_vars

-----------------------------------------------------------------------------
(* Properties *)

\* What a step may do to an account that is switched off.
KeepsDeactivation ==
  /\ account # None /\ ~account.isActive
  /\ account' # None /\ account'.isActive
  => \E h \in Handler :
       /\ handlers[h].op = "update"
       /\ handlers[h].dto.isActive = TRUE
       /\ handlers'[h] = Idle

\* A deactivation stands: an account that was switched off is switched on again
\* only by the save of an update that asks for it, never by a login, a profile
\* or another update that was under way when it was switched off.
DeactivationStands == [][KeepsDeactivation]_vars

\* A page of the warehouse is open only to an account whose structure keeps a
\* warehouse, unless the owner moved himself, the structure lost its warehouse,
\* or two changes of the account were under way at once.
WarehouseAccessIsBacked ==
  ~overlapped /\ ~unbacked /\ account # None
    => WarehousePermissionsAllowed(account)

=============================================================================
