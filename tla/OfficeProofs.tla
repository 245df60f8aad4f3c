----------------------------- MODULE OfficeProofs -----------------------------
(***************************************************************************)
(* Theorems about the parts of Office, for any people, requests and number *)
(* of handlers: the invariant of each part first, then what they give for  *)
(* Office, where one part moves and the others are switched off.           *)
(***************************************************************************)
EXTENDS Office, Sequences, FiniteSetTheorems, TLAPS

-----------------------------------------------------------------------------
(* Accounts.                                                               *)

AccountAssumptions == Account!NoneAssumption /\ Account!MaxAttemptsAssumption /\ Account!RequestAssumption

AccountBusy(h) == handlers[h].op # "idle"

\* A handler works on an account, and what it does with an update is known.
AccountHandlersOK ==
  /\ handlers = [h \in Handler |-> handlers[h]]
  /\ \A h \in Handler :
       /\ handlers[h] = Account!Idle <=> handlers[h].op = "idle"
       /\ AccountBusy(h) => handlers[h].copy \in Account!Account
       /\ handlers[h].op = "update" =>
            handlers[h].dto \in Account!UpdateDto /\ handlers[h].by \in Admin
       /\ handlers[h].op = "remove" => handlers[h].by \in Admin
       /\ handlers[h].op = "profile" => handlers[h].structureId \in Structure

\* Unless two handlers were under way at once, the only one there is works on
\* the permissions and the structure that are stored.
AccountAlone ==
  \A h \in Handler : AccountBusy(h) =>
    /\ account # None =>
         /\ handlers[h].copy.warehouse = account.warehouse
         /\ handlers[h].copy.structureId = account.structureId
    /\ \A g \in Handler : g # h => ~AccountBusy(g)

AccountInv ==
  /\ account \in Account!Account \cup {None}
  /\ AccountHandlersOK
  /\ ~overlapped => AccountAlone
  /\ Account!WarehouseAccessIsBacked

-----------------------------------------------------------------------------
(* What a handler saves *)

\* Only what differs from the copy is written, and the result is an account.
LEMMA SavedFields ==
  ASSUME account \in Account!Account, NEW old \in Account!Account, NEW new \in Account!Account
  PROVE  /\ Account!Saved(old, new) \in Account!Account
         /\ \A f \in DOMAIN account :
              Account!Saved(old, new)[f] = IF new[f] # old[f] THEN new[f] ELSE account[f]
BY DEF Account!Saved, Account!Account

LEMMA UpdatedAccount ==
  ASSUME NEW a \in Account!Account, NEW dto \in Account!UpdateDto, NEW by \in Admin
  PROVE  /\ Account!Updated(a, dto, by) \in Account!Account
         /\ Account!Updated(a, dto, by).isActive # a.isActive /\ ~a.isActive => dto.isActive = TRUE
BY DEF Account!Updated, Account!Account, Account!UpdateDto

\* One handler ends, the others and their copies stay.
LEMMA HandlerEnds ==
  ASSUME AccountHandlersOK, NEW h \in Handler, handlers' = [handlers EXCEPT ![h] = Account!Idle]
  PROVE  /\ AccountHandlersOK'
         /\ ~AccountBusy(h)'
         /\ \A g \in Handler : g # h => handlers'[g] = handlers[g]
<1>1. \A g \in Handler : handlers'[g] = IF g = h THEN Account!Idle ELSE handlers[g]
  BY DEF AccountHandlersOK
<1>2. Account!Idle.op = "idle"
  BY DEF Account!Idle
<1> QED
  BY <1>1, <1>2 DEF AccountHandlersOK, AccountBusy

\* After a handler saved, the stored account holds the permissions and the
\* structure of its copy, unless two handlers were under way at once.
LEMMA AccountSaveKeeps ==
  ASSUME AccountInv, AccountAssumptions, NEW h \in Handler, AccountBusy(h), NEW new \in Account!Account, Account!Save(h, new)
  PROVE  /\ account' \in Account!Account \cup {None}
         /\ AccountHandlersOK'
         /\ ~overlapped' => AccountAlone'
         /\ account = None => account' = None
         /\ account # None =>
              /\ account' \in Account!Account
              /\ account'.isActive # account.isActive =>
                   new.isActive # handlers[h].copy.isActive /\ new.isActive = account'.isActive
         /\ account # None /\ ~overlapped =>
              account'.warehouse = new.warehouse /\ account'.structureId = new.structureId
<1>1. /\ handlers[h].copy \in Account!Account
      /\ handlers' = [handlers EXCEPT ![h] = Account!Idle]
      /\ overlapped' = overlapped
  BY DEF AccountInv, AccountHandlersOK, Account!Save
<1>2. ASSUME account # None
      PROVE  /\ account' \in Account!Account
             /\ \A f \in {"isActive", "warehouse", "structureId"} :
                  account'[f] = IF new[f] # handlers[h].copy[f] THEN new[f] ELSE account[f]
  <2>1. account \in Account!Account /\ account' = Account!Saved(handlers[h].copy, new)
    BY <1>2 DEF AccountInv, Account!Save
  <2>2. {"isActive", "warehouse", "structureId"} \subseteq DOMAIN account
    BY <2>1 DEF Account!Account
  <2> QED
    BY <1>1, <2>1, <2>2, SavedFields
<1>3. account = None => account' = None
  BY DEF Account!Save
<1>4. ~overlapped => \A g \in Handler : ~AccountBusy(g)'
  BY <1>1, HandlerEnds DEF AccountInv, AccountAlone, AccountBusy
<1>5. account # None /\ ~overlapped =>
        account'.warehouse = new.warehouse /\ account'.structureId = new.structureId
  BY <1>2 DEF AccountInv, AccountAlone
<1> QED
  BY <1>1, <1>2, <1>3, <1>4, <1>5, HandlerEnds DEF AccountInv, AccountAlone

\* What each handler saves.
LEMMA SavedByEach ==
  ASSUME AccountInv, AccountAssumptions, NEW h \in Handler
  PROVE  /\ handlers[h].op = "remove" =>
              [handlers[h].copy EXCEPT !.isActive = FALSE,
                                       !.deactivatedBy = handlers[h].by] \in Account!Account
         /\ handlers[h].op = "profile" =>
              [handlers[h].copy EXCEPT !.structureId = handlers[h].structureId] \in Account!Account
         /\ AccountBusy(h) =>
              [handlers[h].copy EXCEPT !.failedLoginAttempts = 0, !.locked = FALSE] \in Account!Account
         /\ AccountBusy(h) =>
              [handlers[h].copy EXCEPT !.failedLoginAttempts = 0, !.locked = TRUE] \in Account!Account
         /\ AccountBusy(h) /\ handlers[h].copy.failedLoginAttempts + 1 < MaxAttempts =>
              [handlers[h].copy EXCEPT
                 !.failedLoginAttempts = handlers[h].copy.failedLoginAttempts + 1] \in Account!Account
<1> DEFINE copy == handlers[h].copy
<1>1. /\ AccountBusy(h) => copy \in Account!Account
      /\ handlers[h].op = "remove" => AccountBusy(h) /\ handlers[h].by \in Admin
      /\ handlers[h].op = "profile" => AccountBusy(h) /\ handlers[h].structureId \in Structure
  BY DEF AccountInv, AccountHandlersOK, AccountBusy
<1>2. MaxAttempts \in Nat \ {0}
  BY DEF AccountAssumptions, Account!MaxAttemptsAssumption
<1> HIDE DEF copy
<1>3. ASSUME AccountBusy(h)
      PROVE  /\ [copy EXCEPT !.failedLoginAttempts = 0, !.locked = FALSE] \in Account!Account
             /\ [copy EXCEPT !.failedLoginAttempts = 0, !.locked = TRUE] \in Account!Account
             /\ copy.failedLoginAttempts + 1 < MaxAttempts =>
                  [copy EXCEPT !.failedLoginAttempts = copy.failedLoginAttempts + 1] \in Account!Account
  <2>1. /\ copy \in Account!Account /\ 0 \in 0 .. MaxAttempts - 1
        /\ copy.failedLoginAttempts + 1 < MaxAttempts =>
             copy.failedLoginAttempts + 1 \in 0 .. MaxAttempts - 1
    BY <1>1, <1>2, <1>3 DEF Account!Account
  <2>2. \A n \in 0 .. MaxAttempts - 1 :
          /\ [copy EXCEPT !.failedLoginAttempts = n] \in Account!Account
          /\ \A b \in BOOLEAN :
               [copy EXCEPT !.failedLoginAttempts = n, !.locked = b] \in Account!Account
    BY <2>1 DEF Account!Account
  <2> QED
    BY <2>1, <2>2
<1>4. /\ handlers[h].op = "remove" =>
           [copy EXCEPT !.isActive = FALSE, !.deactivatedBy = handlers[h].by] \in Account!Account
      /\ handlers[h].op = "profile" =>
           [copy EXCEPT !.structureId = handlers[h].structureId] \in Account!Account
  BY <1>1 DEF Account!Account
<1> QED
  BY <1>3, <1>4 DEF copy

-----------------------------------------------------------------------------
(* Each step *)

LEMMA AccountLoadKeeps ==
  ASSUME AccountInv, NEW h \in Handler, NEW operation,
         operation.op # "idle", operation.copy = account, Account!Load(h, operation),
         operation.op = "update" => operation.dto \in Account!UpdateDto /\ operation.by \in Admin,
         operation.op = "remove" => operation.by \in Admin,
         operation.op = "profile" => operation.structureId \in Structure
  PROVE  AccountInv'
<1>1. /\ account \in Account!Account
      /\ \A g \in Handler : handlers'[g] = IF g = h THEN operation ELSE handlers[g]
      /\ handlers' = [g \in Handler |-> handlers'[g]]
  BY DEF Account!Load, AccountInv, AccountHandlersOK
<1>2. operation # Account!Idle
  BY DEF Account!Idle
<1>3. AccountHandlersOK'
  BY <1>1, <1>2 DEF AccountInv, AccountHandlersOK, AccountBusy
<1>4. ~overlapped' => ~overlapped /\ \A g \in Handler : ~AccountBusy(g)
  BY DEF Account!Load, AccountInv, AccountHandlersOK, AccountBusy
<1>5. ~overlapped' => AccountAlone'
  BY <1>1, <1>4 DEF AccountAlone, AccountBusy, Account!Load
<1>6. Account!WarehouseAccessIsBacked'
  BY <1>4 DEF AccountInv, Account!WarehouseAccessIsBacked, Account!Load, Account!WarehousePermissionsAllowed
<1> QED
  BY <1>1, <1>3, <1>5, <1>6 DEF AccountInv, Account!Load

LEMMA AnswerKeeps ==
  ASSUME AccountInv, NEW h \in Handler, handlers' = [handlers EXCEPT ![h] = Account!Idle],
         UNCHANGED <<account, withWarehouse, overlapped, unbacked>>
  PROVE  AccountInv'
<1>1. AccountHandlersOK' /\ ~AccountBusy(h)' /\ \A g \in Handler : g # h => handlers'[g] = handlers[g]
  BY HandlerEnds DEF AccountInv
<1> QED
  BY <1>1 DEF AccountInv, AccountAlone, AccountBusy, Account!WarehouseAccessIsBacked, Account!WarehousePermissionsAllowed

LEMMA SavingKeeps ==
  ASSUME AccountInv, AccountAssumptions, NEW h \in Handler, AccountBusy(h), NEW new \in Account!Account, Account!Save(h, new),
         \/ unbacked'
         \/ unbacked' = unbacked /\ Account!WarehousePermissionsAllowed(new)
         \/ /\ unbacked' = unbacked
            /\ new.warehouse = handlers[h].copy.warehouse
            /\ new.structureId = handlers[h].copy.structureId
  PROVE  AccountInv'
<1>1. withWarehouse' = withWarehouse /\ overlapped' = overlapped
  BY DEF Account!Save
<1>2. ASSUME ~overlapped, ~unbacked', account' # None
      PROVE  Account!WarehousePermissionsAllowed(account)'
  <2>1. account # None /\ account \in Account!Account /\ account' \in Account!Account
    BY <1>2, AccountSaveKeeps DEF AccountInv
  <2>2. account'.warehouse = new.warehouse /\ account'.structureId = new.structureId
    BY <1>2, <2>1, AccountSaveKeeps
  <2>3. /\ handlers[h].copy.warehouse = account.warehouse
        /\ handlers[h].copy.structureId = account.structureId
    BY <1>2, <2>1 DEF AccountInv, AccountAlone
  <2>4. unbacked' = unbacked => Account!WarehousePermissionsAllowed(account)
    BY <1>2, <2>1 DEF AccountInv, Account!WarehouseAccessIsBacked
  <2> QED
    BY <1>1, <1>2, <2>2, <2>3, <2>4 DEF Account!WarehousePermissionsAllowed
<1> QED
  BY <1>1, <1>2, AccountSaveKeeps DEF AccountInv, Account!WarehouseAccessIsBacked, Account!WarehousePermissionsAllowed

\* A handler that was loaded ends by answering, or by saving an account whose
\* permissions were tested or are those of its copy.
LEMMA FinishKinds ==
  ASSUME AccountInv, AccountAssumptions, NEW h \in Handler, Account!Finish(h)
  PROVE  /\ AccountBusy(h)
         /\ \/ Account!Answer(h)
            \/ \E new \in Account!Account :
                 /\ Account!Save(h, new)
                 /\ \/ unbacked'
                    \/ unbacked' = unbacked /\ Account!WarehousePermissionsAllowed(new)
                    \/ /\ unbacked' = unbacked
                       /\ new.warehouse = handlers[h].copy.warehouse
                       /\ new.structureId = handlers[h].copy.structureId
                 /\ new.isActive # handlers[h].copy.isActive /\ new.isActive =>
                      handlers[h].op = "update" /\ handlers[h].dto.isActive = TRUE
<1> DEFINE copy == handlers[h].copy
           Kind(new) ==
             /\ new \in Account!Account
             /\ Account!Save(h, new)
             /\ \/ unbacked'
                \/ unbacked' = unbacked /\ Account!WarehousePermissionsAllowed(new)
                \/ /\ unbacked' = unbacked
                   /\ new.warehouse = copy.warehouse
                   /\ new.structureId = copy.structureId
             /\ new.isActive # copy.isActive /\ new.isActive =>
                  handlers[h].op = "update" /\ handlers[h].dto.isActive = TRUE
<1> SUFFICES AccountBusy(h) /\ (Account!Answer(h) \/ \E new : Kind(new))
  OBVIOUS
<1>1. AccountBusy(h)
  BY DEF Account!Finish, Account!UpdateFromDto, Account!Remove, Account!UpdateOwnProfile, Account!CompleteLogin, Account!FailLogin, AccountBusy
<1>2. copy \in Account!Account
  BY <1>1 DEF AccountInv, AccountHandlersOK
<1>3. CASE Account!UpdateFromDto(h)
  <2>1. handlers[h].dto \in Account!UpdateDto /\ handlers[h].by \in Admin /\ handlers[h].op = "update"
    BY <1>3 DEF Account!UpdateFromDto, AccountInv, AccountHandlersOK
  <2>2. CASE Account!Answer(h)
    BY <1>1, <2>2
  <2>3. CASE ~Account!Answer(h)
    <3> DEFINE new == Account!Updated(copy, handlers[h].dto, handlers[h].by)
    <3>1. Account!Save(h, new) /\ unbacked' = unbacked /\ Account!WarehousePermissionsAllowed(new)
      BY <1>3, <2>3 DEF Account!UpdateFromDto, Account!MayUpdate
    <3>2. /\ new \in Account!Account
          /\ new.isActive # copy.isActive /\ ~copy.isActive => handlers[h].dto.isActive = TRUE
      BY <1>2, <2>1, UpdatedAccount
    <3>3. copy.isActive \in BOOLEAN /\ (new \in Account!Account => new.isActive \in BOOLEAN)
      BY <1>2 DEF Account!Account
    <3> HIDE DEF new
    <3>4. Kind(new)
      BY <2>1, <3>1, <3>2, <3>3
    <3> QED
      BY <1>1, <3>4
  <2> QED
    BY <2>2, <2>3
<1>4. CASE Account!Remove(h)
  <2> DEFINE new == [copy EXCEPT !.isActive = FALSE, !.deactivatedBy = handlers[h].by]
  <2>1. new \in Account!Account /\ Account!Save(h, new) /\ unbacked' = unbacked
    BY <1>4, SavedByEach DEF Account!Remove
  <2>2. ~new.isActive /\ new.warehouse = copy.warehouse /\ new.structureId = copy.structureId
    BY <1>2 DEF Account!Account
  <2> HIDE DEF new
  <2> QED
    BY <1>1, <2>1, <2>2
<1>5. CASE Account!UpdateOwnProfile(h)
  <2> DEFINE new == [copy EXCEPT !.structureId = handlers[h].structureId]
  <2>1. new \in Account!Account /\ new.isActive = copy.isActive
    BY <1>2, <1>5, SavedByEach DEF Account!UpdateOwnProfile, Account!Account
  <2>2. Account!Answer(h) \/ (Account!Save(h, new) /\ unbacked')
    BY <1>5 DEF Account!UpdateOwnProfile
  <2> HIDE DEF new
  <2> QED
    BY <1>1, <2>1, <2>2
<1>6. CASE Account!CompleteLogin(h) \/ Account!FailLogin(h)
  <2>1. \A new \in Account!Account :
          /\ Account!Save(h, new)
          /\ unbacked' = unbacked
          /\ new.isActive = copy.isActive
          /\ new.warehouse = copy.warehouse
          /\ new.structureId = copy.structureId
          => Kind(new)
    OBVIOUS
  <2>2. \A n, b :
          LET new == [copy EXCEPT !.failedLoginAttempts = n, !.locked = b]
              counted == [copy EXCEPT !.failedLoginAttempts = n]
          IN  /\ new.isActive = copy.isActive /\ counted.isActive = copy.isActive
              /\ new.warehouse = copy.warehouse /\ counted.warehouse = copy.warehouse
              /\ new.structureId = copy.structureId /\ counted.structureId = copy.structureId
    BY <1>2 DEF Account!Account
  <2>3. MaxAttempts \in Nat /\ copy.failedLoginAttempts \in Nat
    BY <1>2 DEF Account!Account, AccountAssumptions, Account!MaxAttemptsAssumption
  <2> HIDE DEF Kind
  <2>4. CASE Account!CompleteLogin(h)
    BY <1>1, <2>1, <2>2, <2>4, SavedByEach DEF Account!CompleteLogin
  <2>5. CASE Account!FailLogin(h)
    <3>1. CASE Account!Answer(h)
      BY <1>1, <3>1
    <3>2. CASE /\ Account!Save(h, [copy EXCEPT !.failedLoginAttempts = 0, !.locked = TRUE])
               /\ unbacked' = unbacked
      BY <1>1, <2>1, <2>2, <3>2, SavedByEach
    <3>3. CASE /\ copy.failedLoginAttempts + 1 < MaxAttempts
               /\ Account!Save(h, [copy EXCEPT !.failedLoginAttempts = copy.failedLoginAttempts + 1])
               /\ unbacked' = unbacked
      BY <1>1, <2>1, <2>2, <3>3, SavedByEach
    <3> QED
      BY <2>3, <2>5, <3>1, <3>2, <3>3 DEF Account!FailLogin
  <2> QED
    BY <1>6, <2>4, <2>5
<1> QED
  BY <1>3, <1>4, <1>5, <1>6 DEF Account!Finish

LEMMA AccountsInit ==
  ASSUME AccountAssumptions, Account!Init
  PROVE  AccountInv
<1>1. account \in Account!Account /\ Account!WarehousePermissionsAllowed(account)
  <2>1. 0 \in 0 .. MaxAttempts - 1
    BY DEF AccountAssumptions, Account!MaxAttemptsAssumption
  <2>2. \A s \in Structure, w \in BOOLEAN : Account!Created(s, w) \in Account!Account
    BY <2>1 DEF Account!Created, Account!Account
  <2> QED
    BY <2>2 DEF Account!Init
<1>2. AccountHandlersOK /\ AccountAlone
  BY DEF Account!Init, AccountHandlersOK, AccountAlone, AccountBusy, Account!Idle
<1> QED
  BY <1>1, <1>2 DEF Account!Init, AccountInv, Account!WarehouseAccessIsBacked

LEMMA LoadsKeep ==
  ASSUME AccountInv, AccountAssumptions, NEW h \in Handler,
         Account!LoadUpdate(h) \/ Account!LoadRemove(h) \/ Account!LoadProfile(h) \/ Account!LoadLogin(h)
  PROVE  AccountInv' /\ UNCHANGED account
<1>1. CASE Account!LoadUpdate(h)
  <2>1. PICK by \in Admin, dto \in Request :
          Account!Load(h, [op |-> "update", by |-> by, dto |-> dto, copy |-> account])
    BY <1>1 DEF Account!LoadUpdate
  <2>2. dto \in Account!UpdateDto
    BY DEF AccountAssumptions, Account!RequestAssumption
  <2> QED
    BY <2>1, <2>2, AccountLoadKeeps DEF Account!Load
<1>2. CASE Account!LoadRemove(h)
  BY <1>2, AccountLoadKeeps DEF Account!LoadRemove, Account!Load
<1>3. CASE Account!LoadProfile(h)
  BY <1>3, AccountLoadKeeps DEF Account!LoadProfile, Account!Load
<1>4. CASE Account!LoadLogin(h)
  <2>1. PICK entered \in {"password", "wrong", "code"} :
          Account!Load(h, [op |-> entered, copy |-> account])
    BY <1>4 DEF Account!LoadLogin
  <2> QED
    BY <2>1, AccountLoadKeeps DEF Account!Load
<1> QED
  BY <1>1, <1>2, <1>3, <1>4

LEMMA AccountsNext ==
  ASSUME AccountInv, AccountAssumptions, [Account!Next]_(Account!vars)
  PROVE  AccountInv'
<1>1. ASSUME NEW h \in Handler, Account!Finish(h)
      PROVE  AccountInv'
  <2>1. CASE Account!Answer(h)
    BY <2>1, AnswerKeeps DEF Account!Answer
  <2>2. CASE ~Account!Answer(h)
    BY <1>1, <2>2, FinishKinds, SavingKeeps
  <2> QED
    BY <2>1, <2>2
<1>2. CASE Account!PermanentRemove
  BY <1>2 DEF Account!PermanentRemove, AccountInv, AccountHandlersOK, AccountAlone, AccountBusy, Account!WarehouseAccessIsBacked
<1>3. CASE Account!Unlock
  <2>1. /\ account \in Account!Account /\ account' \in Account!Account
        /\ account'.warehouse = account.warehouse
        /\ account'.structureId = account.structureId
    BY <1>3 DEF Account!Unlock, AccountInv, Account!Account
  <2>2. UNCHANGED <<withWarehouse, handlers, overlapped, unbacked>> /\ account # None
    BY <1>3 DEF Account!Unlock
  <2> QED
    BY <2>1, <2>2 DEF AccountInv, AccountHandlersOK, AccountAlone, AccountBusy, Account!WarehouseAccessIsBacked,
                      Account!WarehousePermissionsAllowed
<1>4. ASSUME NEW s \in Structure, Account!UpdateStructure(s)
      PROVE  AccountInv'
  BY <1>4 DEF Account!UpdateStructure, AccountInv, AccountHandlersOK, AccountAlone, AccountBusy, Account!WarehouseAccessIsBacked,
              Account!WarehousePermissionsAllowed
<1>5. CASE UNCHANGED Account!vars
  BY <1>5 DEF Account!vars, AccountInv, AccountHandlersOK, AccountAlone, AccountBusy, Account!WarehouseAccessIsBacked,
              Account!WarehousePermissionsAllowed
<1> QED
  BY <1>1, <1>2, <1>3, <1>4, <1>5, LoadsKeep DEF Account!Next

\* A step that switches an account on is the save of an update that asks for it.
LEMMA KeepsStep ==
  ASSUME AccountInv, AccountAssumptions, Account!Next
  PROVE  Account!KeepsDeactivation
<1> SUFFICES ASSUME account # None, ~account.isActive,
                    account' # None, account'.isActive
             PROVE  \E h \in Handler :
                      /\ handlers[h].op = "update"
                      /\ handlers[h].dto.isActive = TRUE
                      /\ handlers'[h] = Account!Idle
  BY DEF Account!KeepsDeactivation
<1>1. account \in Account!Account
  BY DEF AccountInv
<1>2. ~UNCHANGED account /\ ~Account!PermanentRemove /\ ~Account!Unlock
  BY <1>1 DEF Account!PermanentRemove, Account!Unlock, Account!Account
<1>3. PICK h \in Handler : Account!Finish(h)
  BY <1>2, LoadsKeep DEF Account!Next, Account!UpdateStructure
<1>4. AccountBusy(h) /\ ~Account!Answer(h)
  BY <1>2, <1>3, FinishKinds DEF Account!Answer
<1>5. PICK new \in Account!Account :
        /\ Account!Save(h, new)
        /\ new.isActive # handlers[h].copy.isActive /\ new.isActive =>
             handlers[h].op = "update" /\ handlers[h].dto.isActive = TRUE
  BY <1>3, <1>4, FinishKinds
<1>6. new.isActive # handlers[h].copy.isActive /\ new.isActive
  BY <1>1, <1>4, <1>5, AccountSaveKeeps DEF Account!Account
<1>7. handlers'[h] = Account!Idle
  BY <1>5 DEF Account!Save, AccountInv, AccountHandlersOK
<1> QED
  BY <1>5, <1>6, <1>7

-----------------------------------------------------------------------------
(* Commissions.                                                            *)

\* A boss, where there is one, is no member.
Separate(members, boss) == boss # None => boss \notin members

\* Unless two updates were under way at once, the one that is under way works on
\* the commission as it is stored, which was compared with what it asks for.
CommissionAlone ==
  \A w \in Handler : writers[w].op = "update" =>
    /\ writers[w].copy.members = commission.members
    /\ writers[w].copy.boss = commission.boss
    /\ Commission!BossNotInMembers(writers[w].members, writers[w].boss, writers[w].copy)
    /\ \A v \in Handler : v # w => writers[v].op = "idle"

CommissionInv ==
  /\ Commission!TypeOK
  /\ \A w \in Handler : writers[w].op = "update" => commission \in Commission!Commission
  /\ ~concurrent =>
       /\ CommissionAlone
       /\ commission # None => Separate(commission.members, commission.boss)

-----------------------------------------------------------------------------
LEMMA CommissionsInit == Commission!Init => CommissionInv
<1> SUFFICES ASSUME Commission!Init PROVE CommissionInv
  OBVIOUS
<1>1. writers \in [Handler -> Commission!Writing] /\ \A w \in Handler : writers[w].op = "idle"
  <2>1. [op |-> "idle"] \in Commission!Writing /\ [op |-> "idle"].op = "idle"
    BY DEF Commission!Writing
  <2> QED
    BY <2>1 DEF Commission!Init
<1>2. /\ commission \in Commission!Commission \cup {None}
      /\ commission # None => commission.boss = None
  <2>1. CASE commission = None
    BY <2>1
  <2>2. ASSUME NEW m \in (SUBSET Person) \ {{}},
               commission = [members |-> m, boss |-> None, isActive |-> TRUE]
        PROVE  commission \in Commission!Commission /\ commission.boss = None
    BY <2>2 DEF Commission!Commission
  <2> QED
    BY <2>1, <2>2 DEF Commission!Init
<1> QED
  BY <1>1, <1>2 DEF Commission!Init, CommissionInv, Commission!TypeOK, CommissionAlone, Separate

LEMMA CommissionLoadKeeps ==
  ASSUME CommissionInv, NEW w \in Handler,
         NEW members \in ((SUBSET Person) \ {{}}) \cup {None},
         NEW boss \in Person \cup {None}, Commission!LoadUpdate(w, members, boss)
  PROVE  CommissionInv'
<1> DEFINE update == [op |-> "update", members |-> members, boss |-> boss,
                      copy |-> commission, current |-> TRUE]
<1>1. /\ commission \in Commission!Commission /\ writers' = [writers EXCEPT ![w] = update]
      /\ UNCHANGED commission
  BY DEF Commission!LoadUpdate, CommissionInv, Commission!TypeOK
<1>2. /\ update \in Commission!Writing /\ update.op = "update" /\ update.copy = commission
      /\ update.members = members /\ update.boss = boss
  <2>1. update \in [op : {"update"}, members : (SUBSET Person) \cup {None},
                    boss : Person \cup {None}, copy : Commission!Commission, current : BOOLEAN]
    BY <1>1
  <2> QED
    BY <2>1 DEF Commission!Writing
<1> HIDE DEF update
<1>3. Commission!TypeOK'
  BY <1>1, <1>2 DEF Commission!LoadUpdate, CommissionInv, Commission!TypeOK
<1>4. ASSUME ~concurrent'
      PROVE  CommissionAlone'
  <2>1. ~concurrent /\ \A v \in Handler : writers[v].op = "idle"
    BY <1>4 DEF Commission!LoadUpdate
  <2>2. \A v \in Handler : writers'[v] = IF v = w THEN update ELSE writers[v]
    BY <1>1 DEF CommissionInv, Commission!TypeOK
  <2>3. commission # None /\ Commission!BossNotInMembers(members, boss, commission)
    BY DEF Commission!LoadUpdate
  <2> QED
    BY <1>1, <1>2, <2>1, <2>2, <2>3 DEF CommissionAlone, Commission!BossNotInMembers, Commission!NextBoss, Commission!NextMembers
<1>5. ~concurrent' => ~concurrent
  BY DEF Commission!LoadUpdate
<1> QED
  BY <1>1, <1>3, <1>4, <1>5 DEF CommissionInv

LEMMA CommissionSaveKeeps ==
  ASSUME CommissionInv, NEW w \in Handler, Commission!SaveUpdate(w)
  PROVE  CommissionInv'
<1> DEFINE u == writers[w]
           newMembers == u.members # None /\ u.members # u.copy.members
           newBoss == u.boss # None /\ u.boss # u.copy.boss
           members == IF newMembers THEN u.members ELSE commission.members
           boss == IF newBoss THEN u.boss ELSE commission.boss
<1>1. /\ u.members \in (SUBSET Person) \cup {None} /\ u.boss \in Person \cup {None}
      /\ commission \in Commission!Commission
  BY DEF CommissionInv, Commission!TypeOK, Commission!Writing, Commission!SaveUpdate
<1>2. members \in SUBSET Person /\ boss \in Person \cup {None}
  BY <1>1 DEF Commission!Commission
<1>3. commission' = [commission EXCEPT !.members = members, !.boss = boss]
  BY <1>1 DEF Commission!SaveUpdate, Commission!Commission
<1>4. commission' \in Commission!Commission /\ commission'.members = members /\ commission'.boss = boss
  BY <1>1, <1>2, <1>3 DEF Commission!Commission
<1>5. writers' \in [Handler -> Commission!Writing] /\ writers'[w].op = "idle"
  <2>1. \A v \in Handler : writers'[v] \in Commission!Writing
    BY DEF Commission!SaveUpdate, CommissionInv, Commission!TypeOK, Commission!Writing
  <2> QED
    BY <2>1 DEF Commission!SaveUpdate
<1>6. ASSUME ~concurrent
      PROVE  CommissionAlone' /\ Separate(members, boss)
  <2>1. /\ u.copy.members = commission.members /\ u.copy.boss = commission.boss
        /\ Commission!BossNotInMembers(u.members, u.boss, u.copy)
        /\ \A v \in Handler : v # w => writers[v].op = "idle"
    BY <1>6 DEF Commission!SaveUpdate, CommissionInv, CommissionAlone
  <2>2. \A v \in Handler : writers'[v].op = "idle"
    BY <2>1 DEF Commission!SaveUpdate
  <2>3. members = Commission!NextMembers(u.members, u.copy) /\ boss = Commission!NextBoss(u.boss, u.copy)
    BY <2>1 DEF Commission!NextMembers, Commission!NextBoss
  <2>4. Separate(members, boss)
    BY <2>1, <2>3 DEF Commission!BossNotInMembers, Separate
  <2> QED
    BY <2>2, <2>4 DEF CommissionAlone
<1>7. concurrent' = concurrent
  BY DEF Commission!SaveUpdate
<1> HIDE DEF members, boss
<1> QED
  BY <1>4, <1>5, <1>6, <1>7 DEF CommissionInv, Commission!TypeOK

LEMMA CommissionsNext ==
  ASSUME Commission!NobodyAssumption, CommissionInv, [Commission!Next]_(Commission!vars)
  PROVE  CommissionInv'
<1>1. ASSUME NEW m \in (SUBSET Person) \ {{}}, NEW b \in Person, Commission!Create(m, b)
      PROVE  CommissionInv'
  <2>1. /\ commission' \in Commission!Commission
        /\ commission'.members = m /\ commission'.boss = b
    BY <1>1 DEF Commission!Create, Commission!Commission
  <2>2. \A w \in Handler : writers[w].op # "update"
    BY <1>1 DEF Commission!Create, CommissionInv, Commission!NobodyAssumption
  <2> QED
    BY <1>1, <2>1, <2>2 DEF Commission!Create, CommissionInv, Commission!TypeOK, CommissionAlone, Separate
<1>2. CASE Commission!Deactivate \/ Commission!Reactivate
  <2>1. /\ commission \in Commission!Commission /\ commission' \in Commission!Commission
        /\ commission'.members = commission.members /\ commission'.boss = commission.boss
    BY <1>2 DEF Commission!Deactivate, Commission!Reactivate, CommissionInv, Commission!TypeOK, Commission!Commission
  <2>2. UNCHANGED <<writers, concurrent>> /\ commission # None
    BY <1>2 DEF Commission!Deactivate, Commission!Reactivate
  <2> QED
    BY <2>1, <2>2 DEF CommissionInv, Commission!TypeOK, CommissionAlone
<1>3. ASSUME NEW w \in Handler, NEW m \in ((SUBSET Person) \ {{}}) \cup {None},
             NEW b \in Person \cup {None}, Commission!LoadUpdate(w, m, b)
      PROVE  CommissionInv'
  BY <1>3, CommissionLoadKeeps
<1>4. ASSUME NEW w \in Handler, Commission!SaveUpdate(w)
      PROVE  CommissionInv'
  BY <1>4, CommissionSaveKeeps
<1>5. ASSUME NEW w \in Handler, Commission!RefuseUpdate(w)
      PROVE  CommissionInv'
  <2>1. \A v \in Handler : writers'[v] = IF v = w THEN [op |-> "idle"] ELSE writers[v]
    BY <1>5 DEF Commission!RefuseUpdate, CommissionInv, Commission!TypeOK
  <2>2. writers' \in [Handler -> Commission!Writing]
    BY <1>5 DEF Commission!RefuseUpdate, CommissionInv, Commission!TypeOK, Commission!Writing
  <2> QED
    BY <1>5, <2>1, <2>2 DEF Commission!RefuseUpdate, CommissionInv, Commission!TypeOK, CommissionAlone
<1>6. CASE UNCHANGED Commission!vars
  BY <1>6 DEF Commission!vars, CommissionInv, Commission!TypeOK, CommissionAlone
<1> QED
  BY <1>1, <1>2, <1>3, <1>4, <1>5, <1>6 DEF Commission!Next

LEMMA SeparateWhenAlone ==
  ASSUME Commission!NobodyAssumption, CommissionInv
  PROVE  Commission!BossIsNoMember
<1> SUFFICES ASSUME commission # None, ~concurrent
             PROVE  commission.boss \notin commission.members
  BY DEF Commission!BossIsNoMember
<1>1. commission \in Commission!Commission
  BY DEF CommissionInv, Commission!TypeOK
<1> QED
  BY <1>1 DEF CommissionInv, Separate, Commission!Commission, Commission!NobodyAssumption

-----------------------------------------------------------------------------
(* Reactions.                                                              *)

\* A copy that may still be stored is the list that is stored.
CopiesAreCurrent ==
  \A u \in Person :
    togglers[u] # None /\ togglers[u].current => togglers[u].copy = reactions

OneEach(list) == \A r, s \in list : r.userId = s.userId => r = s

ReactionsInv ==
  /\ reactions \subseteq Reaction!Reaction
  /\ OneEach(reactions)
  /\ togglers = [u \in Person |-> togglers[u]]
  /\ CopiesAreCurrent

-----------------------------------------------------------------------------
\* A toggle leaves at most one reaction of each, and those of the others alone.
LEMMA ToggledList ==
  ASSUME NEW list \in SUBSET Reaction!Reaction, OneEach(list),
         NEW u \in Person, NEW emoji
  PROVE  /\ OneEach(Reaction!NextReactions(list, u, emoji))
         /\ \A v \in Person : v # u =>
              Reaction!Given(v, Reaction!NextReactions(list, u, emoji)) = Reaction!Given(v, list)
         /\ emoji \in Emoji => Reaction!NextReactions(list, u, emoji) \subseteq Reaction!Reaction
<1> DEFINE mine == [userId |-> u, emoji |-> emoji]
<1>1. mine.userId = u /\ (emoji \in Emoji => mine \in Reaction!Reaction)
  BY DEF Reaction!Reaction
<1>2. Reaction!NextReactions(list, u, emoji) =
        IF mine \in list THEN list \ {mine}
                         ELSE {r \in list : r.userId # u} \cup {mine}
  BY DEF Reaction!NextReactions
<1> HIDE DEF mine
<1> QED
  BY <1>1, <1>2 DEF OneEach, Reaction!Given

-----------------------------------------------------------------------------
LEMMA ReactionsInit == Reaction!Init => ReactionsInv
BY DEF Reaction!Init, ReactionsInv, OneEach, CopiesAreCurrent

\* The save of a list that is current changes the reactions of its author only.
LEMMA ReactionSaveKeeps ==
  ASSUME ReactionsInv, Reaction!TypeOK, NEW u \in Person, Reaction!SaveToggle(u)
  PROVE  /\ ReactionsInv'
         /\ \A v \in Person : v # u => Reaction!Given(v, reactions') = Reaction!Given(v, reactions)
<1>1. togglers[u].copy = reactions /\ togglers[u].emoji \in Emoji
  BY DEF Reaction!SaveToggle, Reaction!MayStore, ReactionsInv, CopiesAreCurrent, Reaction!TypeOK, Reaction!Toggle
<1>2. reactions' = Reaction!NextReactions(reactions, u, togglers[u].emoji)
  BY <1>1 DEF Reaction!SaveToggle
<1>3. /\ reactions' \subseteq Reaction!Reaction
      /\ OneEach(reactions')
      /\ \A v \in Person : v # u => Reaction!Given(v, reactions') = Reaction!Given(v, reactions)
  BY <1>1, <1>2, ToggledList DEF ReactionsInv
<1>4. CopiesAreCurrent'
  BY DEF Reaction!SaveToggle, CopiesAreCurrent, Reaction!TypeOK, Reaction!Toggle
<1> QED
  BY <1>3, <1>4 DEF ReactionsInv, Reaction!SaveToggle

LEMMA ReactionsNext == Reaction!TypeOK /\ ReactionsInv /\ [Reaction!Next]_(Reaction!vars) => Reaction!TypeOK' /\ ReactionsInv'
<1> SUFFICES ASSUME Reaction!TypeOK, ReactionsInv, [Reaction!Next]_(Reaction!vars) PROVE Reaction!TypeOK' /\ ReactionsInv'
  OBVIOUS
<1>1. ASSUME NEW u \in Person, NEW emoji \in Emoji, Reaction!LoadToggle(u, emoji)
      PROVE  Reaction!TypeOK' /\ ReactionsInv'
  BY <1>1 DEF Reaction!LoadToggle, Reaction!TypeOK, Reaction!Toggle, ReactionsInv, CopiesAreCurrent
<1>2. ASSUME NEW u \in Person, Reaction!SaveToggle(u)
      PROVE  Reaction!TypeOK' /\ ReactionsInv'
  <2>1. ReactionsInv'
    BY <1>2, ReactionSaveKeeps
  <2>2. Reaction!TypeOK'
    BY <1>2, <2>1 DEF ReactionsInv, Reaction!SaveToggle, Reaction!TypeOK, Reaction!Toggle
  <2> QED
    BY <2>1, <2>2
<1>3. ASSUME NEW u \in Person, Reaction!RefuseToggle(u)
      PROVE  Reaction!TypeOK' /\ ReactionsInv'
  BY <1>3 DEF Reaction!RefuseToggle, Reaction!TypeOK, ReactionsInv, CopiesAreCurrent
<1>4. CASE UNCHANGED Reaction!vars
  BY <1>4 DEF Reaction!vars, Reaction!TypeOK, ReactionsInv, CopiesAreCurrent
<1> QED
  BY <1>1, <1>2, <1>3, <1>4 DEF Reaction!Next

\* A step changes the reactions of the one whose toggle it stores.
LEMMA ReactionsStep ==
  ASSUME Reaction!TypeOK, ReactionsInv, ReactionsInv', Reaction!Next
  PROVE  Reaction!KeepsReactions
<1>1. \A v \in Person : \A r, s \in Reaction!Given(v, reactions') : r = s
  BY DEF ReactionsInv, OneEach, Reaction!Given
<1>2. ASSUME NEW v \in Person, Reaction!Given(v, reactions') # Reaction!Given(v, reactions)
      PROVE  togglers[v] # None /\ togglers'[v] = None
  <2>1. CASE Reaction!SaveToggle(v)
    BY <2>1 DEF Reaction!SaveToggle
  <2>2. ASSUME NEW u \in Person, u # v, Reaction!SaveToggle(u)
        PROVE  FALSE
    BY <1>2, <2>2, ReactionSaveKeeps
  <2>3. ASSUME NEW u \in Person, NEW emoji \in Emoji,
               Reaction!LoadToggle(u, emoji) \/ Reaction!RefuseToggle(u)
        PROVE  FALSE
    BY <1>2, <2>3 DEF Reaction!LoadToggle, Reaction!RefuseToggle
  <2>4. ASSUME NEW u \in Person, Reaction!RefuseToggle(u)
        PROVE  FALSE
    BY <1>2, <2>4 DEF Reaction!RefuseToggle
  <2> QED
    BY <2>1, <2>2, <2>3, <2>4 DEF Reaction!Next
<1> QED
  BY <1>1, <1>2 DEF Reaction!KeepsReactions

-----------------------------------------------------------------------------
(* AssignedTask.                                                           *)

Has(a) == tasks[a] # None

\* What the creation has done by the time it is at each of its steps.
CreationInv ==
  /\ creation.op \in {"check", "insert", "notify"} => files
  /\ creation.op \in {"idle", "files", "check", "insert"} => \A a \in Assignee : ~Has(a)
  /\ creation.op = "notify" => \A a \in creation.assignees : Has(a)
  /\ Task!TasksAreWhole

\* A request under way has a task; unless two requests changed that task at once
\* it is alone with it, holds it as it is stored and may still change it.
ManagersInv ==
  \A m \in Handler : managers[m] # Task!Idle =>
    /\ Has(managers[m].of)
    /\ managers[m].of \notin disputed =>
         /\ managers[m].copy = tasks[managers[m].of]
         /\ Task!MayChange(managers[m].op, managers[m].copy)
         /\ \A n \in Handler : managers[n] # Task!Idle /\ managers[n].of = managers[m].of => n = m

TaskInv == Task!TypeOK /\ CreationInv /\ ManagersInv

-----------------------------------------------------------------------------
LEMMA IdleIsNoChange == Task!Idle \notin Task!Change
<1>1. Task!Idle.op = "idle" /\ \A c \in Task!Change : c.op # "idle"
  BY DEF Task!Idle, Task!Change
<1> QED
  BY <1>1

LEMMA TaskInit == Task!Init => TaskInv
<1> SUFFICES ASSUME Task!Init PROVE TaskInv
  OBVIOUS
<1>1. Task!TypeOK
  BY DEF Task!Init, Task!TypeOK
<1>2. creation.op = "idle"
  BY DEF Task!Init, Task!Idle
<1> QED
  BY <1>1, <1>2 DEF Task!Init, TaskInv, CreationInv, ManagersInv, Task!TasksAreWhole, Has

\* The steps of the creation, of which only InsertTasks writes tasks.
LEMMA CreationKeeps ==
  ASSUME Task!NoTaskAssumption, TaskInv,
         \/ \E assignees \in SUBSET Assignee : Task!BeginCreate(assignees)
         \/ Task!SaveUploadedFiles
         \/ Task!BuildAssigneeSnapshots
         \/ Task!InsertTasks
         \/ Task!Notify
         \/ Task!StopCreate
  PROVE  /\ TaskInv'
         /\ \A a \in Assignee : Has(a) => tasks'[a] = tasks[a]
<1> DEFINE Running == [op : {"files", "check", "insert", "notify", "end"},
                       assignees : SUBSET Assignee]
<1>0. /\ Task!TypeOK /\ CreationInv /\ ManagersInv
      /\ creation = Task!Idle \/ creation \in Running
      /\ creation # Task!Idle => creation.assignees \subseteq Assignee
  BY DEF TaskInv, Task!TypeOK
<1>1. ASSUME NEW assignees \in SUBSET Assignee, Task!BeginCreate(assignees)
      PROVE  TaskInv' /\ UNCHANGED tasks
  BY <1>0, <1>1 DEF Task!BeginCreate, TaskInv, Task!TypeOK, CreationInv, ManagersInv, Task!TasksAreWhole, Has, Task!Idle
<1>2. ASSUME NEW step \in {"files", "check", "insert", "notify", "end"}, Task!GoTo(step),
             creation \in Running
      PROVE  creation' \in Running /\ creation'.op = step /\ creation'.assignees = creation.assignees
  BY <1>2 DEF Task!GoTo
<1>3. CASE Task!SaveUploadedFiles
  <2>1. creation \in Running /\ creation.op = "files"
    BY <1>0, <1>3 DEF Task!SaveUploadedFiles, Task!At, Task!Idle
  <2> QED
    BY <1>0, <1>2, <1>3, <2>1
    DEF Task!SaveUploadedFiles, TaskInv, Task!TypeOK, CreationInv, ManagersInv, Task!TasksAreWhole, Has
<1>4. CASE Task!BuildAssigneeSnapshots
  <2>1. creation \in Running /\ creation.op = "check"
    BY <1>0, <1>4 DEF Task!BuildAssigneeSnapshots, Task!At, Task!Idle
  <2>2. creation' \in Running /\ creation'.op \in {"insert", "end"}
    BY <1>2, <1>4, <2>1 DEF Task!BuildAssigneeSnapshots
  <2> QED
    BY <1>0, <1>4, <2>1, <2>2
    DEF Task!BuildAssigneeSnapshots, TaskInv, Task!TypeOK, CreationInv, ManagersInv, Task!TasksAreWhole, Has
<1>5. CASE Task!InsertTasks
  <2>1. creation \in Running /\ creation.op = "insert" /\ files
    BY <1>0, <1>5 DEF Task!InsertTasks, Task!At, Task!Idle, CreationInv
  <2>2. /\ creation' \in Running /\ creation'.op = "notify"
        /\ creation'.assignees = creation.assignees
    BY <1>2, <1>5, <2>1 DEF Task!InsertTasks
  <2>3. Task!Created \in Task!Task /\ Task!Created # None
    <3>1. Task!Created \in Task!Task
      BY DEF Task!Created, Task!Task
    <3> QED
      BY <3>1 DEF Task!NoTaskAssumption
  <2>4. /\ \A a \in Assignee : ~Has(a)
        /\ \A m \in Handler : managers[m] = Task!Idle
        /\ notified = {}
    BY <1>0, <2>1 DEF CreationInv, ManagersInv, Task!TasksAreWhole, Task!TypeOK, Task!Change, Has
  <2>5. /\ tasks' \in [Assignee -> Task!Task \cup {None}]
        /\ \A a \in creation.assignees : Has(a)'
    BY <1>0, <1>5, <2>1, <2>3 DEF Task!InsertTasks, Task!TypeOK, Has
  <2> QED
    BY <1>0, <1>5, <2>1, <2>2, <2>4, <2>5
    DEF Task!InsertTasks, TaskInv, Task!TypeOK, CreationInv, ManagersInv, Task!TasksAreWhole, Has
<1>6. CASE Task!Notify
  <2>1. creation \in Running /\ creation.op = "notify"
    BY <1>0, <1>6 DEF Task!Notify, Task!At, Task!Idle
  <2>2. creation' \in Running /\ creation'.op = "end"
    BY <1>2, <1>6, <2>1 DEF Task!Notify
  <2> QED
    BY <1>0, <1>6, <2>1, <2>2
    DEF Task!Notify, TaskInv, Task!TypeOK, CreationInv, ManagersInv, Task!TasksAreWhole, Has
<1>7. CASE Task!StopCreate
  <2>1. creation \in Running
    BY <1>0, <1>7 DEF Task!StopCreate, Task!Idle
  <2>2. creation' \in Running /\ creation'.op = "end"
    BY <1>2, <1>7, <2>1 DEF Task!StopCreate
  <2> QED
    BY <1>0, <1>7, <2>1, <2>2
    DEF Task!StopCreate, TaskInv, Task!TypeOK, CreationInv, ManagersInv, Task!TasksAreWhole, Has
<1> HIDE DEF Running
<1> QED
  BY <1>0, <1>1, <1>3, <1>4, <1>5, <1>6, <1>7
  DEF Task!SaveUploadedFiles, Task!BuildAssigneeSnapshots, Task!InsertTasks, Task!Notify, Task!StopCreate,
      CreationInv, Task!At

LEMMA TaskLoadKeeps ==
  ASSUME TaskInv, NEW m \in Handler, NEW op \in {"complete", "cancel"}, NEW a \in Assignee,
         Task!LoadTask(m, op, a)
  PROVE  TaskInv'
<1> DEFINE change == [op |-> op, of |-> a, copy |-> tasks[a]]
<1>1. /\ Has(a) /\ tasks[a] \in Task!Task /\ Task!MayChange(op, tasks[a])
      /\ UNCHANGED <<eligible, creation, files, tasks, notified>>
  BY DEF Task!LoadTask, TaskInv, Task!TypeOK, Has
<1>2. /\ change \in Task!Change /\ change # Task!Idle
      /\ change.op = op /\ change.of = a /\ change.copy = tasks[a]
  <2>1. change \in Task!Change
    BY <1>1 DEF Task!Change
  <2> QED
    BY <2>1, IdleIsNoChange
<1>3. \A n \in Handler : managers'[n] = IF n = m THEN change ELSE managers[n]
  BY DEF Task!LoadTask, TaskInv, Task!TypeOK
<1>4. /\ managers[m] = Task!Idle
      /\ disputed \subseteq disputed' /\ disputed' \subseteq Assignee
      /\ a \notin disputed' =>
           \A n \in Handler : managers[n] # Task!Idle => managers[n].of # a
  BY DEF Task!LoadTask, TaskInv, Task!TypeOK
<1>5. managers' \in [Handler -> Task!Change \cup {Task!Idle}]
  BY <1>2, <1>3 DEF Task!LoadTask, TaskInv, Task!TypeOK
<1> HIDE DEF change
<1>6. ManagersInv'
  BY <1>1, <1>2, <1>3, <1>4 DEF TaskInv, ManagersInv, Has
<1> QED
  BY <1>1, <1>4, <1>5, <1>6 DEF TaskInv, Task!TypeOK, CreationInv, Task!TasksAreWhole, Has

\* The save of a change leaves a task a task, and one that is completed as it is.
LEMMA TaskSaveKeeps ==
  ASSUME Task!NoTaskAssumption, TaskInv, NEW m \in Handler, Task!SaveTask(m)
  PROVE  /\ TaskInv'
         /\ \A a \in Assignee :
              Has(a) /\ tasks[a].status = "COMPLETED" /\ a \notin disputed =>
                tasks'[a] = tasks[a]
<1> DEFINE of == managers[m].of
           copy == managers[m].copy
           next == Task!Changed(managers[m].op)
           saved == [f \in DOMAIN tasks[of] |->
                       IF next[f] # copy[f] THEN next[f] ELSE tasks[of][f]]
<1>1. /\ managers[m] # Task!Idle /\ managers[m] \in Task!Change
      /\ UNCHANGED <<eligible, creation, files, notified, disputed>>
  BY DEF Task!SaveTask, TaskInv, Task!TypeOK
<1>2. /\ of \in Assignee /\ Has(of) /\ tasks[of] \in Task!Task /\ copy \in Task!Task
      /\ managers[m].op \in {"complete", "cancel"}
  BY <1>1 DEF TaskInv, Task!TypeOK, ManagersInv, Task!Change, Has
<1>3. next \in Task!Task
  BY <1>2 DEF Task!Changed, Task!Task
<1>4. saved \in Task!Task /\ saved # None
  <2>1. saved \in Task!Task
    BY <1>2, <1>3 DEF Task!Task
  <2> QED
    BY <2>1 DEF Task!NoTaskAssumption
<1>5. tasks' = [tasks EXCEPT ![of] = saved]
  BY DEF Task!SaveTask
<1> HIDE DEF saved
<1>6. /\ \A n \in Handler : managers'[n] = IF n = m THEN Task!Idle ELSE managers[n]
      /\ managers' \in [Handler -> Task!Change \cup {Task!Idle}]
  BY DEF Task!SaveTask, TaskInv, Task!TypeOK
<1>7. /\ \A a \in Assignee : tasks'[a] = IF a = of THEN saved ELSE tasks[a]
      /\ tasks' \in [Assignee -> Task!Task \cup {None}]
      /\ \A a \in Assignee : Has(a)' <=> Has(a)
  BY <1>2, <1>4, <1>5 DEF TaskInv, Task!TypeOK, Has
<1>8. ManagersInv'
  <2> SUFFICES ASSUME NEW n \in Handler, managers'[n] # Task!Idle
               PROVE  /\ Has(managers[n].of)'
                      /\ managers[n].of \notin disputed =>
                           /\ managers[n].copy = tasks'[managers[n].of]
                           /\ Task!MayChange(managers[n].op, managers[n].copy)
                           /\ \A k \in Handler :
                                managers'[k] # Task!Idle /\ managers'[k].of = managers[n].of => k = n
    BY <1>1, <1>6 DEF ManagersInv
  <2>1. n # m /\ managers[n] # Task!Idle /\ managers[n] \in Task!Change
    BY <1>6 DEF TaskInv, Task!TypeOK
  <2>2. managers[n].of \in Assignee
    BY <2>1 DEF Task!Change
  <2>3. managers[n].of \notin disputed => managers[n].of # of
    BY <1>1, <2>1 DEF TaskInv, ManagersInv
  <2> QED
    BY <1>6, <1>7, <2>1, <2>2, <2>3 DEF TaskInv, ManagersInv
<1>9. TaskInv'
  <2>1. Task!TypeOK'
    BY <1>1, <1>6, <1>7 DEF TaskInv, Task!TypeOK
  <2>2. creation.op = "notify" => creation.assignees \subseteq Assignee
    BY DEF TaskInv, Task!TypeOK, Task!Idle
  <2>3. Task!TasksAreWhole' = Task!TasksAreWhole
    BY <1>1, <1>7, <2>1 DEF Task!TasksAreWhole, Has, Task!TypeOK
  <2>4. CreationInv'
    BY <1>1, <1>7, <2>2, <2>3 DEF TaskInv, CreationInv
  <2> QED
    BY <1>8, <2>1, <2>4 DEF TaskInv
<1>10. tasks[of].status = "COMPLETED" => of \in disputed
  BY <1>1, <1>2 DEF TaskInv, ManagersInv, Task!MayChange
<1> QED
  BY <1>7, <1>9, <1>10

LEMMA TaskNext ==
  ASSUME Task!NoTaskAssumption, TaskInv, [Task!Next]_(Task!vars)
  PROVE  /\ TaskInv'
         /\ \A a \in Assignee :
              Has(a) /\ tasks[a].status = "COMPLETED" /\ a \notin disputed =>
                tasks'[a] = tasks[a]
<1>1. ASSUME NEW a \in Assignee, Task!ChangeAccount(a)
      PROVE  TaskInv' /\ UNCHANGED tasks
  BY <1>1 DEF Task!ChangeAccount, TaskInv, Task!TypeOK, CreationInv, ManagersInv, Task!TasksAreWhole, Has
<1>2. ASSUME NEW m \in Handler, NEW op \in {"complete", "cancel"}, NEW a \in Assignee,
             Task!LoadTask(m, op, a)
      PROVE  TaskInv' /\ UNCHANGED tasks
  BY <1>2, TaskLoadKeeps DEF Task!LoadTask
<1>3. CASE UNCHANGED Task!vars
  BY <1>3 DEF Task!vars, TaskInv, Task!TypeOK, CreationInv, ManagersInv, Task!TasksAreWhole, Has
<1>4. CASE \E m \in Handler : Task!SaveTask(m)
  BY <1>4, TaskSaveKeeps
<1>5. CASE \/ \E assignees \in SUBSET Assignee : Task!BeginCreate(assignees)
           \/ Task!SaveUploadedFiles
           \/ Task!BuildAssigneeSnapshots
           \/ Task!InsertTasks
           \/ Task!Notify
           \/ Task!StopCreate
  BY <1>5, CreationKeeps
<1> QED
  BY <1>1, <1>2, <1>3, <1>4, <1>5 DEF Task!Next, Task!vars

LEMMA TaskStep ==
  ASSUME Task!NoTaskAssumption, TaskInv, TaskInv', Task!Next
  PROVE  Task!KeepsTasks
BY TaskNext DEF Task!KeepsTasks, TaskInv, CreationInv, Has

-----------------------------------------------------------------------------
(* Measurement units.                                                      *)

\* What a change holds: of a unit that is there, and of a name that is.
ChangeOK(job) ==
  /\ job.op = "update" =>
       /\ job.id \in UnitId /\ job.oldName \in UnitName /\ job.newName \in UnitName
       /\ units[job.id] = job.oldName
  /\ job.op = "rename" => job.todo \subseteq Place /\ job.newName \in Unit!Names
  /\ job.op = "remove" =>
       /\ job.id \in UnitId /\ job.name \in UnitName /\ job.todo \subseteq Place
       /\ units[job.id] = job.name
       /\ \A p \in Place \ job.todo : documents[p] # job.name

\* A rename has not come to the document yet.
StillOld(p) ==
  \E w \in Handler :
    /\ renamers[w].op = "rename" /\ p \in renamers[w].todo
    /\ documents[p] = renamers[w].oldName

UnitsInv ==
  /\ Unit!TypeOK
  /\ ~unsettled =>
       /\ \A v, w \in Handler : renamers[v] # Unit!Idle /\ renamers[w] # Unit!Idle => v = w
       /\ \A w \in Handler : ChangeOK(renamers[w])
       /\ \A p \in Place : documents[p] \in Unit!Names \cup {None} \/ StillOld(p)

LEMMA UnitJobs ==
  ASSUME NEW job \in Unit!Writing
  PROVE  /\ job.op \in {"idle", "update", "rename", "remove"}
         /\ job.op = "idle" <=> job = Unit!Idle
         /\ job.op = "update" =>
              job \in [op : {"update"}, id : UnitId, oldName : UnitName, newName : UnitName]
         /\ job.op = "rename" =>
              job \in [op : {"rename"}, oldName : UnitName, newName : UnitName,
                       todo : SUBSET Place]
         /\ job.op = "remove" =>
              job \in [op : {"remove"}, id : UnitId, name : UnitName, todo : SUBSET Place]
BY DEF Unit!Writing, Unit!Idle

LEMMA UnitsInit == Unit!Init => UnitsInv
<1> SUFFICES ASSUME Unit!Init  PROVE UnitsInv
  OBVIOUS
<1>1. Unit!Idle \in Unit!Writing /\ Unit!Idle.op = "idle"
  BY DEF Unit!Writing, Unit!Idle
<1>2. Unit!TypeOK /\ \A w \in Handler : renamers[w] = Unit!Idle
  BY <1>1 DEF Unit!Init, Unit!TypeOK
<1>3. \A w \in Handler : ChangeOK(renamers[w])
  BY <1>1, <1>2 DEF ChangeOK
<1>4. \A p \in Place : documents[p] = None
  BY DEF Unit!Init
<1> QED
  BY <1>2, <1>3, <1>4 DEF UnitsInv

LEMMA UnitTypes ==
  ASSUME Unit!TypeOK, Unit!Next
  PROVE  Unit!TypeOK'
<1>1. ASSUME NEW w \in Handler, NEW job \in Unit!Writing, renamers' = [renamers EXCEPT ![w] = job],
             units' \in [UnitId -> UnitName \cup {None}],
             documents' \in [Place -> UnitName \cup {None}], unsettled' \in BOOLEAN
      PROVE  Unit!TypeOK'
  BY <1>1 DEF Unit!TypeOK
<1>2. Unit!Idle \in Unit!Writing
  BY DEF Unit!Writing
<1>3. ASSUME NEW i \in UnitId, NEW name \in UnitName, Unit!CreateForUser(i, name)
      PROVE  Unit!TypeOK'
  BY <1>3 DEF Unit!CreateForUser, Unit!TypeOK
<1>4. ASSUME NEW p \in Place, NEW name \in UnitName \cup {None}, Unit!WriteDocument(p, name)
      PROVE  Unit!TypeOK'
  BY <1>4 DEF Unit!WriteDocument, Unit!TypeOK
<1>5. ASSUME NEW w \in Handler, NEW i \in UnitId, Unit!BeginRemove(w, i)
      PROVE  Unit!TypeOK'
  <2> DEFINE job == [op |-> "remove", id |-> i, name |-> units[i], todo |-> Place]
  <2>1. job \in Unit!Writing
    BY <1>5 DEF Unit!BeginRemove, Unit!TypeOK, Unit!Writing
  <2> HIDE DEF job
  <2>2. renamers' = [renamers EXCEPT ![w] = job] /\ UNCHANGED <<units, documents>>
        /\ unsettled' \in BOOLEAN
    BY <1>5 DEF Unit!BeginRemove, Unit!Begin, job
  <2> QED
    BY <1>1, <2>1, <2>2 DEF Unit!TypeOK
<1>6. ASSUME NEW w \in Handler, NEW i \in UnitId, NEW name \in UnitName, Unit!BeginUpdate(w, i, name)
      PROVE  Unit!TypeOK'
  <2> DEFINE job == [op |-> "update", id |-> i, oldName |-> units[i], newName |-> name]
  <2>1. job \in Unit!Writing
    BY <1>6 DEF Unit!BeginUpdate, Unit!TypeOK, Unit!Writing
  <2> HIDE DEF job
  <2>2. renamers' = [renamers EXCEPT ![w] = job] /\ UNCHANGED <<units, documents>>
        /\ unsettled' \in BOOLEAN
    BY <1>6 DEF Unit!BeginUpdate, Unit!Begin, job
  <2> QED
    BY <1>1, <2>1, <2>2 DEF Unit!TypeOK
<1>7. ASSUME NEW w \in Handler, Unit!SaveUpdate(w)
      PROVE  Unit!TypeOK'
  <2>1. renamers[w] \in [op : {"update"}, id : UnitId, oldName : UnitName, newName : UnitName]
    BY <1>7, UnitJobs DEF Unit!SaveUpdate, Unit!TypeOK
  <2> DEFINE job == [op |-> "rename", oldName |-> renamers[w].oldName,
                     newName |-> renamers[w].newName, todo |-> Place]
  <2>2. job \in Unit!Writing
    BY <2>1 DEF Unit!Writing
  <2> HIDE DEF job
  <2>3. \/ /\ renamers' = [renamers EXCEPT ![w] = job]
           /\ units' = [units EXCEPT ![renamers[w].id] = renamers[w].newName]
        \/ renamers' = [renamers EXCEPT ![w] = Unit!Idle] /\ UNCHANGED units
    BY <1>7 DEF Unit!SaveUpdate, Unit!End, job
  <2>4. units' \in [UnitId -> UnitName \cup {None}]
    BY <2>1, <2>3 DEF Unit!TypeOK
  <2>5. UNCHANGED <<documents, unsettled>>
    BY <1>7 DEF Unit!SaveUpdate
  <2> QED
    BY <1>1, <1>2, <2>2, <2>3, <2>4, <2>5 DEF Unit!TypeOK
<1>8. ASSUME NEW w \in Handler, Unit!EndRename(w) \/ Unit!StopRename(w) \/ Unit!Remove(w)
      PROVE  Unit!TypeOK'
  <2>1. renamers' = [renamers EXCEPT ![w] = Unit!Idle] /\ UNCHANGED documents
        /\ unsettled' \in BOOLEAN
    BY <1>8 DEF Unit!EndRename, Unit!StopRename, Unit!Remove, Unit!End, Unit!TypeOK
  <2>2. units' = units \/ units' = [units EXCEPT ![renamers[w].id] = None]
    BY <1>8 DEF Unit!EndRename, Unit!StopRename, Unit!Remove
  <2>3. units' \in [UnitId -> UnitName \cup {None}]
    BY <2>2 DEF Unit!TypeOK
  <2> QED
    BY <1>1, <1>2, <2>1, <2>3 DEF Unit!TypeOK
<1>9. ASSUME NEW w \in Handler, NEW p \in Place, Unit!PropagateUnitRename(w, p)
      PROVE  Unit!TypeOK'
  <2>1. renamers[w] \in [op : {"rename"}, oldName : UnitName, newName : UnitName,
                         todo : SUBSET Place]
    BY <1>9, UnitJobs DEF Unit!PropagateUnitRename, Unit!TypeOK
  <2> DEFINE job == [renamers[w] EXCEPT !.todo = @ \ {p}]
  <2>2. job \in Unit!Writing
    BY <2>1 DEF Unit!Writing
  <2>3. renamers' = [renamers EXCEPT ![w] = job] /\ UNCHANGED <<units, unsettled>>
    BY <1>9 DEF Unit!PropagateUnitRename
  <2>4. documents' \in [Place -> UnitName \cup {None}]
    BY <1>9, <2>1 DEF Unit!PropagateUnitRename, Unit!TypeOK
  <2> HIDE DEF job
  <2> QED
    BY <1>1, <2>2, <2>3, <2>4 DEF Unit!TypeOK
<1>10. ASSUME NEW w \in Handler, NEW p \in Place, Unit!CountUnitUsage(w, p)
       PROVE  Unit!TypeOK'
  <2>1. renamers[w] \in [op : {"remove"}, id : UnitId, name : UnitName, todo : SUBSET Place]
    BY <1>10, UnitJobs DEF Unit!CountUnitUsage, Unit!TypeOK
  <2> DEFINE job == [renamers[w] EXCEPT !.todo = @ \ {p}]
  <2>2. job \in Unit!Writing
    BY <2>1 DEF Unit!Writing
  <2>3. /\ \/ renamers' = [renamers EXCEPT ![w] = job]
           \/ renamers' = [renamers EXCEPT ![w] = Unit!Idle]
        /\ UNCHANGED <<units, documents, unsettled>>
    BY <1>10 DEF Unit!CountUnitUsage, Unit!End
  <2> HIDE DEF job
  <2> QED
    BY <1>1, <1>2, <2>2, <2>3 DEF Unit!TypeOK
<1> QED
  BY <1>3, <1>4, <1>5, <1>6, <1>7, <1>8, <1>9, <1>10 DEF Unit!Next

\* In order one change is under way at most.
LEMMA UnitsAlone ==
  ASSUME UnitsInv, Unit!Next, ~unsettled'
  PROVE  /\ ~unsettled
         /\ \A v, w \in Handler : renamers'[v] # Unit!Idle /\ renamers'[w] # Unit!Idle => v = w
<1>1. ~unsettled
  BY DEF Unit!Next, Unit!CreateForUser, Unit!WriteDocument, Unit!BeginRemove, Unit!BeginUpdate,
         Unit!Begin, Unit!SaveUpdate, Unit!EndRename, Unit!StopRename, Unit!Remove,
         Unit!PropagateUnitRename, Unit!CountUnitUsage
<1>2. renamers \in [Handler -> Unit!Writing]
      /\ \A v, w \in Handler : renamers[v] # Unit!Idle /\ renamers[w] # Unit!Idle => v = w
  BY <1>1 DEF UnitsInv, Unit!TypeOK
<1>3. CASE renamers' = renamers
  BY <1>1, <1>2, <1>3
<1>4. ASSUME NEW w \in Handler, renamers[w] # Unit!Idle, NEW job, renamers' = [renamers EXCEPT ![w] = job]
      PROVE  \A v, u \in Handler : renamers'[v] # Unit!Idle /\ renamers'[u] # Unit!Idle => v = u
  BY <1>2, <1>4
<1>5. ASSUME NEW w \in Handler, NEW job, Unit!Begin(w, job)
      PROVE  \A v, u \in Handler : renamers'[v] # Unit!Idle /\ renamers'[u] # Unit!Idle => v = u
  BY <1>2, <1>5 DEF Unit!Begin, Unit!Busy
<1>6. ASSUME NEW w \in Handler, renamers[w].op \in {"update", "rename", "remove"}
      PROVE  renamers[w] # Unit!Idle
  BY <1>6 DEF Unit!Idle
<1>7. ASSUME NEW w \in Handler,
             \/ Unit!SaveUpdate(w) \/ Unit!EndRename(w) \/ Unit!StopRename(w) \/ Unit!Remove(w)
             \/ \E p \in Place : Unit!PropagateUnitRename(w, p) \/ Unit!CountUnitUsage(w, p)
      PROVE  /\ renamers[w].op \in {"update", "rename", "remove"}
             /\ \E job : renamers' = [renamers EXCEPT ![w] = job]
  BY <1>7 DEF Unit!SaveUpdate, Unit!EndRename, Unit!StopRename, Unit!Remove,
              Unit!PropagateUnitRename, Unit!CountUnitUsage, Unit!End
<1> QED
  BY <1>1, <1>3, <1>4, <1>5, <1>6, <1>7
  DEF Unit!Next, Unit!CreateForUser, Unit!WriteDocument, Unit!BeginRemove, Unit!BeginUpdate

\* Every name in a document is still that of a unit, or a rename has yet to come
\* to it; and the change under way knows its unit.
LEMMA UnitsStep ==
  ASSUME Unit!NoNameAssumption, UnitsInv, Unit!Next, ~unsettled'
  PROVE  /\ \A w \in Handler : ChangeOK(renamers[w])'
         /\ \A p \in Place : documents'[p] \in Unit!Names' \cup {None} \/ StillOld(p)'
<1>1. /\ ~unsettled
      /\ \A v, w \in Handler : renamers'[v] # Unit!Idle /\ renamers'[w] # Unit!Idle => v = w
  BY UnitsAlone
<1>2. /\ units \in [UnitId -> UnitName \cup {None}]
      /\ documents \in [Place -> UnitName \cup {None}]
      /\ renamers \in [Handler -> Unit!Writing]
      /\ None \notin UnitName
  BY DEF UnitsInv, Unit!TypeOK, Unit!NoNameAssumption
<1>3. /\ \A w \in Handler : ChangeOK(renamers[w])
      /\ \A p \in Place : documents[p] \in Unit!Names \cup {None} \/ StillOld(p)
      /\ \A v, w \in Handler : renamers[v] # Unit!Idle /\ renamers[w] # Unit!Idle => v = w
  BY <1>1 DEF UnitsInv
<1>4. \A w \in Handler : renamers[w] = Unit!Idle \/ renamers[w].op \in {"update", "rename", "remove"}
  BY <1>2, UnitJobs
<1>idle. Unit!Idle.op = "idle"
  BY DEF Unit!Idle
<1> DEFINE Known == \A p \in Place : documents'[p] \in Unit!Names' \cup {None} \/ StillOld(p)'
           Changes == \A w \in Handler : ChangeOK(renamers[w])'
<1>5. ASSUME NEW i \in UnitId, NEW name \in UnitName, Unit!CreateForUser(i, name)
      PROVE  Known /\ Changes
  <2>1. /\ units[i] = None /\ units' = [units EXCEPT ![i] = name]
        /\ UNCHANGED <<documents, renamers>>
    BY <1>5 DEF Unit!CreateForUser
  <2>2. Unit!Names \subseteq Unit!Names'
    BY <1>2, <2>1 DEF Unit!Names
  <2>3. Known
    BY <1>3, <2>1, <2>2 DEF StillOld
  <2>4. Changes
    BY <1>2, <1>3, <2>1, <2>2 DEF ChangeOK
  <2> QED
    BY <2>3, <2>4
<1>6. ASSUME NEW p \in Place, NEW name \in UnitName \cup {None}, Unit!WriteDocument(p, name)
      PROVE  Known /\ Changes
  <2>1. /\ documents' = [documents EXCEPT ![p] = name] /\ UNCHANGED <<units, renamers>>
        /\ name # None => ~Unit!Busy /\ name \in Unit!Names
    BY <1>6 DEF Unit!WriteDocument
  <2>2. Unit!Names' = Unit!Names
    BY <2>1 DEF Unit!Names
  <2>3. Known
    BY <1>2, <1>3, <2>1, <2>2 DEF StillOld
  <2>4. Changes
    BY <1>2, <1>3, <1>idle, <2>1, <2>2 DEF ChangeOK, Unit!Busy
  <2> QED
    BY <2>3, <2>4
<1>7. ASSUME NEW w \in Handler, NEW job, Unit!Begin(w, job), ChangeOK(job)
      PROVE  Known /\ Changes
  <2>1. /\ renamers[w] = Unit!Idle /\ renamers' = [renamers EXCEPT ![w] = job]
        /\ UNCHANGED <<units, documents>>
    BY <1>7 DEF Unit!Begin
  <2>2. Unit!Names' = Unit!Names
    BY <2>1 DEF Unit!Names
  <2>3. Known
    BY <1>2, <1>3, <1>idle, <2>1, <2>2 DEF StillOld
  <2>4. Changes
    BY <1>2, <1>3, <1>7, <2>1, <2>2 DEF ChangeOK
  <2> QED
    BY <2>3, <2>4
<1>8. ASSUME NEW w \in Handler, NEW i \in UnitId, Unit!BeginRemove(w, i)
      PROVE  Known /\ Changes
  <2> DEFINE job == [op |-> "remove", id |-> i, name |-> units[i], todo |-> Place]
  <2>1. Unit!Begin(w, job) /\ units[i] \in UnitName
    BY <1>2, <1>8 DEF Unit!BeginRemove
  <2>2. ChangeOK(job)
    BY <2>1 DEF ChangeOK
  <2> HIDE DEF job, Known, Changes
  <2> QED
    BY <1>7, <2>1, <2>2
<1>9. ASSUME NEW w \in Handler, NEW i \in UnitId, NEW name \in UnitName, Unit!BeginUpdate(w, i, name)
      PROVE  Known /\ Changes
  <2> DEFINE job == [op |-> "update", id |-> i, oldName |-> units[i], newName |-> name]
  <2>1. Unit!Begin(w, job) /\ units[i] \in UnitName
    BY <1>2, <1>9 DEF Unit!BeginUpdate
  <2>2. ChangeOK(job)
    BY <2>1 DEF ChangeOK
  <2> HIDE DEF job, Known, Changes
  <2> QED
    BY <1>7, <2>1, <2>2
<1>10. ASSUME NEW w \in Handler, NEW job, renamers[w] # Unit!Idle,
              renamers' = [renamers EXCEPT ![w] = job], ChangeOK(job)'
       PROVE  Changes
  <2>1. \A v \in Handler : v # w => renamers'[v] = Unit!Idle
    BY <1>2, <1>3, <1>10
  <2>2. renamers'[w] = job
    BY <1>2, <1>10
  <2> QED
    BY <1>10, <1>idle, <2>1, <2>2 DEF ChangeOK
<1>11. ASSUME NEW w \in Handler, Unit!SaveUpdate(w)
       PROVE  Known /\ Changes
  <2> DEFINE old == renamers[w].oldName
             new == renamers[w].newName
             id == renamers[w].id
             job == [op |-> "rename", oldName |-> old, newName |-> new, todo |-> Place]
  <2>1. renamers[w].op = "update" /\ renamers[w] # Unit!Idle /\ UNCHANGED documents
    BY <1>11, <1>idle DEF Unit!SaveUpdate
  <2>2. id \in UnitId /\ new \in UnitName /\ units[id] = old
    BY <1>3, <2>1 DEF ChangeOK
  <2>3. \A p \in Place : documents[p] \in Unit!Names \cup {None}
    BY <1>3, <1>4, <1>idle, <2>1 DEF StillOld
  <2>4. CASE renamers' = [renamers EXCEPT ![w] = job] /\ units' = [units EXCEPT ![id] = new]
    <3>1. new \in Unit!Names'
      BY <1>2, <2>2, <2>4 DEF Unit!Names
    <3>2. ASSUME NEW p \in Place
          PROVE  documents'[p] \in Unit!Names' \cup {None} \/ StillOld(p)'
      <4>1. CASE documents[p] = old
        <5>1. renamers'[w].op = "rename" /\ p \in renamers'[w].todo
              /\ documents'[p] = renamers'[w].oldName
          BY <1>2, <2>1, <2>4, <4>1
        <5> QED
          BY <5>1 DEF StillOld
      <4>2. CASE documents[p] = None
        BY <2>1, <4>2
      <4>3. CASE documents[p] # old /\ documents[p] # None
        <5>1. PICK i \in UnitId : units[i] = documents[p]
          BY <2>3, <4>3 DEF Unit!Names
        <5>2. i # id /\ units'[i] = documents[p]
          BY <1>2, <2>2, <2>4, <4>3, <5>1
        <5> QED
          BY <2>1, <4>3, <5>2 DEF Unit!Names
      <4> QED
        BY <4>1, <4>2, <4>3
    <3>3. PICK next : next = job
      OBVIOUS
    <3>4. ChangeOK(next)'
      BY <2>1, <3>1, <3>3 DEF ChangeOK
    <3> HIDE DEF job
    <3>5. Changes
      BY <1>10, <2>1, <2>4, <3>3, <3>4
    <3> QED
      BY <3>2, <3>5
  <2>5. CASE renamers' = [renamers EXCEPT ![w] = Unit!Idle] /\ UNCHANGED units
    <3>1. ChangeOK(Unit!Idle)'
      BY <1>idle DEF ChangeOK
    <3>2. Changes
      BY <1>10, <2>1, <2>5, <3>1
    <3>3. Known
      BY <2>1, <2>3, <2>5 DEF Unit!Names
    <3> QED
      BY <3>2, <3>3
  <2> QED
    BY <1>11, <2>4, <2>5 DEF Unit!SaveUpdate, Unit!End
<1>12. ASSUME NEW w \in Handler, NEW p \in Place, Unit!PropagateUnitRename(w, p)
       PROVE  Known /\ Changes
  <2> DEFINE old == renamers[w].oldName
             new == renamers[w].newName
             job == [renamers[w] EXCEPT !.todo = @ \ {p}]
  <2>1. /\ renamers[w].op = "rename" /\ renamers[w] # Unit!Idle /\ p \in renamers[w].todo
        /\ UNCHANGED units /\ renamers' = [renamers EXCEPT ![w] = job]
        /\ documents' = [documents EXCEPT ![p] = IF @ = old THEN new ELSE @]
    BY <1>12, <1>idle DEF Unit!PropagateUnitRename
  <2>2. /\ renamers[w] \in [op : {"rename"}, oldName : UnitName, newName : UnitName,
                            todo : SUBSET Place]
    BY <1>2, <2>1, UnitJobs
  <2>3. /\ job.op = "rename" /\ job.todo = renamers[w].todo \ {p}
        /\ job.oldName = old /\ job.newName = new
    BY <2>2
  <2>4. Unit!Names' = Unit!Names /\ new \in Unit!Names /\ renamers[w].todo \subseteq Place
    BY <1>3, <2>1 DEF Unit!Names, ChangeOK
  <2>5. ASSUME NEW q \in Place, StillOld(q)
        PROVE  documents[q] = old /\ q \in renamers[w].todo
    BY <1>3, <1>4, <1>idle, <2>1, <2>5 DEF StillOld
  <2> HIDE DEF job, old, new
  <2>6. renamers'[w] = job
    BY <1>2, <2>1
  <2>7. ASSUME NEW q \in Place
        PROVE  documents'[q] \in Unit!Names' \cup {None} \/ StillOld(q)'
    <3>1. CASE documents[q] \in Unit!Names \cup {None}
      BY <1>2, <2>1, <2>4, <3>1
    <3>2. CASE StillOld(q) /\ q = p
      BY <1>2, <2>1, <2>4, <2>5, <3>2
    <3>3. CASE StillOld(q) /\ q # p
      <4>1. documents'[q] = old /\ q \in job.todo
        BY <1>2, <2>1, <2>3, <2>5, <3>3
      <4> QED
        BY <2>3, <2>6, <4>1 DEF StillOld
    <3> QED
      BY <1>3, <3>1, <3>2, <3>3
  <2>8. PICK next : next = job
    OBVIOUS
  <2>9. ChangeOK(next)'
    BY <2>3, <2>4, <2>8 DEF ChangeOK
  <2>10. Changes
    BY <1>10, <2>1, <2>8, <2>9
  <2> QED
    BY <2>7, <2>10
<1>13. ASSUME NEW w \in Handler, Unit!EndRename(w)
       PROVE  Known /\ Changes
  <2>1. /\ renamers[w].op = "rename" /\ renamers[w] # Unit!Idle /\ renamers[w].todo = {}
        /\ UNCHANGED <<units, documents>> /\ renamers' = [renamers EXCEPT ![w] = Unit!Idle]
    BY <1>13, <1>idle DEF Unit!EndRename, Unit!End
  <2>2. \A p \in Place : ~StillOld(p)
    BY <1>3, <1>4, <1>idle, <2>1 DEF StillOld
  <2>3. Known
    BY <1>3, <2>1, <2>2 DEF Unit!Names
  <2>4. ChangeOK(Unit!Idle)'
    BY <1>idle DEF ChangeOK
  <2> QED
    BY <1>10, <2>1, <2>3, <2>4
<1>14. ASSUME NEW w \in Handler, NEW p \in Place, Unit!CountUnitUsage(w, p)
       PROVE  Known /\ Changes
  <2> DEFINE job == [renamers[w] EXCEPT !.todo = @ \ {p}]
  <2>1. /\ renamers[w].op = "remove" /\ renamers[w] # Unit!Idle
        /\ UNCHANGED <<units, documents>>
        /\ \/ renamers' = [renamers EXCEPT ![w] = Unit!Idle]
           \/ renamers' = [renamers EXCEPT ![w] = job] /\ documents[p] # renamers[w].name
    BY <1>14, <1>idle DEF Unit!CountUnitUsage, Unit!End, Unit!Uses
  <2>2. renamers[w] \in [op : {"remove"}, id : UnitId, name : UnitName, todo : SUBSET Place]
    BY <1>2, <2>1, UnitJobs
  <2>3. /\ job.op = "remove" /\ job.todo = renamers[w].todo \ {p}
        /\ job.id = renamers[w].id /\ job.name = renamers[w].name
    BY <2>2
  <2>4. \A q \in Place : ~StillOld(q)
    BY <1>3, <1>4, <1>idle, <2>1 DEF StillOld
  <2>5. Known
    BY <1>3, <2>1, <2>4 DEF Unit!Names
  <2>6. ChangeOK(Unit!Idle)'
    BY <1>idle DEF ChangeOK
  <2> HIDE DEF job
  <2>7. PICK next : next = job
    OBVIOUS
  <2>8. ASSUME documents[p] # renamers[w].name
        PROVE  ChangeOK(next)'
    <3>1. ChangeOK(renamers[w])
      BY <1>3
    <3> QED
      BY <2>1, <2>3, <2>7, <2>8, <3>1 DEF ChangeOK
  <2> QED
    BY <1>10, <2>1, <2>5, <2>6, <2>7, <2>8
<1>15. ASSUME NEW w \in Handler, Unit!Remove(w)
       PROVE  Known /\ Changes
  <2> DEFINE id == renamers[w].id
             name == renamers[w].name
  <2>1. /\ renamers[w].op = "remove" /\ renamers[w] # Unit!Idle /\ renamers[w].todo = {}
        /\ UNCHANGED documents /\ renamers' = [renamers EXCEPT ![w] = Unit!Idle]
        /\ units' = [units EXCEPT ![id] = None]
    BY <1>15, <1>idle DEF Unit!Remove, Unit!End
  <2>2. id \in UnitId /\ units[id] = name /\ \A p \in Place : documents[p] # name
    BY <1>3, <2>1 DEF ChangeOK
  <2>3. \A p \in Place : ~StillOld(p)
    BY <1>3, <1>4, <1>idle, <2>1 DEF StillOld
  <2> HIDE DEF id, name
  <2>4. ASSUME NEW p \in Place, documents[p] # None
        PROVE  documents'[p] \in Unit!Names'
    <3>1. PICK i \in UnitId : units[i] = documents[p]
      BY <1>3, <2>3, <2>4 DEF Unit!Names
    <3>2. units'[i] = documents[p]
      BY <1>2, <2>1, <2>2, <3>1
    <3> QED
      BY <2>1, <2>4, <3>2 DEF Unit!Names
  <2>5. Known
    BY <2>1, <2>4
  <2>6. ChangeOK(Unit!Idle)'
    BY <1>idle DEF ChangeOK
  <2> QED
    BY <1>10, <2>1, <2>5, <2>6
<1>16. ASSUME NEW w \in Handler, Unit!StopRename(w)
       PROVE  FALSE
  BY <1>16 DEF Unit!StopRename
<1> HIDE DEF Known, Changes
<1>17. Known /\ Changes
  BY <1>5, <1>6, <1>8, <1>9, <1>11, <1>12, <1>13, <1>14, <1>15, <1>16 DEF Unit!Next
<1> QED
  BY <1>17 DEF Known, Changes

LEMMA UnitsNext ==
  ASSUME Unit!NoNameAssumption, UnitsInv, [Unit!Next]_(Unit!vars)
  PROVE  UnitsInv'
<1>1. CASE Unit!Next
  <2>1. Unit!TypeOK'
    BY <1>1, UnitTypes DEF UnitsInv
  <2> QED
    BY <1>1, <2>1, UnitsAlone, UnitsStep DEF UnitsInv
<1>2. CASE UNCHANGED (Unit!vars)
  BY <1>2 DEF Unit!vars, UnitsInv, Unit!TypeOK, ChangeOK, StillOld, Unit!Names
<1> QED
  BY <1>1, <1>2

\* When no change is under way there is no rename left to do.
LEMMA UnitsAtRest == UnitsInv => Unit!UnitsAreKnown
BY DEF UnitsInv, Unit!UnitsAreKnown, Unit!Busy, StillOld, Unit!Idle

-----------------------------------------------------------------------------
(* Chat *)

\* A conversation of two is written in by the two.
TalkInv ==
  /\ messages \in Seq(Talk!Message)
  /\ \A m \in 1 .. Len(messages) :
       messages[m].room.roomType = "DIRECT" => messages[m].senderId \in messages[m].room.key

LEMMA TalkInit == ASSUME Talk!Init PROVE TalkInv
BY DEF Talk!Init, TalkInv

LEMMA RoomIsSent ==
  ASSUME NEW u \in Person, NEW room \in Talk!SendRooms(u)
  PROVE  /\ room \in Talk!Rooms
         /\ room.roomType = "DIRECT" => u \in room.key
BY DEF Talk!SendRooms, Talk!Rooms, Talk!Global, Talk!Direct, Talk!Support, Talk!DirectKey

LEMMA TalkStep == ASSUME TalkInv, Talk!Next PROVE TalkInv'
<1>1. PICK u \in Person :
        \/ \E room \in Talk!SendRooms(u) : Talk!SendMessage(u, room)
        \/ \E key \in Talk!MarkKeys(u) : Talk!MarkAsRead(u, key)
        \/ Talk!SetActive(u)
        \/ Talk!SetOperator(u)
  BY DEF Talk!Next
<1>2. CASE UNCHANGED messages
  BY <1>2 DEF TalkInv
<1>3. ASSUME NEW room \in Talk!SendRooms(u), Talk!SendMessage(u, room)
      PROVE  TalkInv'
  <2> DEFINE message == [room |-> room, senderId |-> u]
  <2>1. messages' = Append(messages, message)
    BY <1>3 DEF Talk!SendMessage
  <2>2. message \in Talk!Message /\ (room.roomType = "DIRECT" => u \in room.key)
    BY RoomIsSent DEF Talk!Message
  <2>3. messages' \in Seq(Talk!Message)
    BY <2>1, <2>2 DEF TalkInv
  <2>4. ASSUME NEW m \in 1 .. Len(messages'), messages'[m].room.roomType = "DIRECT"
        PROVE  messages'[m].senderId \in messages'[m].room.key
    <3>1. CASE m = Len(messages) + 1
      <4>1. messages'[m] = message
        BY <2>1, <3>1 DEF TalkInv
      <4> QED
        BY <2>2, <2>4, <4>1
    <3>2. CASE m # Len(messages) + 1
      <4>1. m \in 1 .. Len(messages) /\ messages'[m] = messages[m]
        BY <2>1, <3>2 DEF TalkInv
      <4> QED
        BY <2>4, <4>1 DEF TalkInv
    <3> QED
      BY <3>1, <3>2
  <2> QED
    BY <2>3, <2>4 DEF TalkInv
<1> QED
  BY <1>1, <1>2, <1>3 DEF Talk!MarkAsRead, Talk!SetActive, Talk!SetOperator

LEMMA TalkNext == ASSUME TalkInv, [Talk!Next]_(Talk!vars) PROVE TalkInv'
<1>1. CASE Talk!Next
  BY <1>1, TalkStep
<1>2. CASE UNCHANGED (Talk!vars)
  BY <1>2 DEF Talk!vars, TalkInv
<1> QED
  BY <1>1, <1>2

Apart(A, B, C) == A \cap B = {} /\ A \cap C = {} /\ B \cap C = {}

\* The three parts of the summary count different messages.
LEMMA CountedApart ==
  ASSUME NEW A, NEW B, NEW C,
         IsFiniteSet(A), IsFiniteSet(B), IsFiniteSet(C), Apart(A, B, C)
  PROVE  Cardinality(A) + Cardinality(B) + Cardinality(C) = Cardinality(A \cup B \cup C)
<1>1. Cardinality(A) \in Nat /\ Cardinality(B) \in Nat /\ Cardinality(C) \in Nat
  BY FS_CardinalityType
<1>2. Cardinality(A \cap B) = 0 /\ Cardinality((A \cup B) \cap C) = 0
  <2>1. A \cap B = {} /\ (A \cup B) \cap C = {}
    BY DEF Apart
  <2> QED
    BY <2>1, FS_EmptySet
<1>3. IsFiniteSet(A \cup B)
      /\ Cardinality(A \cup B) = Cardinality(A) + Cardinality(B) - Cardinality(A \cap B)
  BY FS_Union
<1>4. Cardinality((A \cup B) \cup C)
        = Cardinality(A \cup B) + Cardinality(C) - Cardinality((A \cup B) \cap C)
  BY <1>3, FS_Union
<1>5. Cardinality(A \cup B) = Cardinality(A) + Cardinality(B)
  BY <1>1, <1>2, <1>3
<1> QED
  BY <1>1, <1>2, <1>4, <1>5

\* Chat instantiates FiniteSets for itself.
LEMMA TalkCardinality == ASSUME NEW S PROVE Talk!Cardinality(S) = Cardinality(S)
BY DEF Talk!Cardinality, Cardinality

LEMMA RoomTypes ==
  /\ Talk!Global.roomType = "GLOBAL"
  /\ \A k : Talk!Direct(k).roomType = "DIRECT" /\ Talk!Direct(k).key = k
  /\ \A r : Talk!Support(r).roomType = "SUPPORT" /\ Talk!Support(r).supportRequesterId = r
BY DEF Talk!Global, Talk!Direct, Talk!Support

\* Each part of the summary counts the messages of rooms of one type.
LEMMA PartsOfSummary ==
  ASSUME NEW u
  PROVE  /\ \A m \in Talk!GlobalUnread(u) :
              m \in 1 .. Len(messages) /\ messages[m].room.roomType = "GLOBAL"
         /\ \A m \in Talk!SupportUnread(u) :
              m \in 1 .. Len(messages) /\ messages[m].room.roomType = "SUPPORT"
         /\ \A m \in Talk!DirectUnread(u) :
              m \in 1 .. Len(messages) /\ messages[m].room.roomType = "DIRECT"
<1>1. ASSUME NEW room, NEW n, NEW m \in Talk!Unread(u, room, n)
      PROVE  m \in 1 .. Len(messages) /\ messages[m].room = room
  BY DEF Talk!Unread
<1>2. \A m \in Talk!SupportUnread(u) :
        \E r : m \in Talk!Unread(u, Talk!Support(r), Talk!LastRead(u, Talk!Support(r)))
  BY DEF Talk!SupportUnread
<1>3. \A m \in Talk!DirectUnread(u) :
        \E p : m \in Talk!Unread(u, Talk!Direct(Talk!DirectKey(u, p)),
                                 Talk!LastRead(u, Talk!DirectPeer(p)))
  BY DEF Talk!DirectUnread
<1> QED
  BY <1>1, <1>2, <1>3, RoomTypes DEF Talk!GlobalUnread

\* The peer of a conversation is the one of its two who is not u.
LEMMA PeerOfKey ==
  ASSUME NEW u, NEW sender, sender # u
  PROVE  (CHOOSE p \in {u, sender} : {u, sender} = Talk!DirectKey(u, p)) = sender
BY DEF Talk!DirectKey

\* The room of a conversation is known by its key.
LEMMA RoomOfKey ==
  ASSUME NEW K, NEW room \in [roomType : {"DIRECT"}, key : K]
  PROVE  room.key \in K /\ room = Talk!Direct(room.key)
BY DEF Talk!Direct

\* What a room can be.
LEMMA KindsOfRoom ==
  ASSUME NEW room \in Talk!Rooms
  PROVE  \/ room = Talk!Global
         \/ \E a, b \in Person : room = Talk!Direct({a, b})
         \/ \E r \in Person : room = Talk!Support(r)
<1> DEFINE Keys == {Talk!DirectKey(a, b) : a, b \in Person}
<1>1. \/ room \in [roomType : {"GLOBAL"}]
      \/ room \in [roomType : {"DIRECT"}, key : Keys]
      \/ room \in [roomType : {"SUPPORT"}, supportRequesterId : Person]
  <2>1. Talk!Rooms = [roomType : {"GLOBAL"}]
                       \cup [roomType : {"DIRECT"}, key : Keys]
                       \cup [roomType : {"SUPPORT"}, supportRequesterId : Person]
    BY DEF Talk!Rooms
  <2> HIDE DEF Keys
  <2> QED
    BY <2>1
<1>2. CASE room \in [roomType : {"GLOBAL"}]
  BY <1>2 DEF Talk!Global
<1>3. CASE room \in [roomType : {"DIRECT"}, key : Keys]
  <2>1. \A key \in Keys : \E a, b \in Person : key = {a, b}
    BY DEF Talk!DirectKey
  <2> HIDE DEF Keys
  <2>2. room.key \in Keys /\ room = Talk!Direct(room.key)
    BY <1>3, RoomOfKey
  <2>3. PICK a \in Person, b \in Person : room.key = {a, b}
    BY <2>1, <2>2
  <2> QED
    BY <2>2, <2>3
<1>4. CASE room \in [roomType : {"SUPPORT"}, supportRequesterId : Person]
  BY <1>4 DEF Talk!Support
<1> HIDE DEF Keys
<1> QED
  BY <1>1, <1>2, <1>3, <1>4

\* What a message can be.
LEMMA MessageTypes ==
  ASSUME TalkInv, NEW m \in 1 .. Len(messages)
  PROVE  /\ messages[m].senderId \in Person
         /\ \/ messages[m].room = Talk!Global
            \/ \E a, b \in Person : /\ messages[m].room = Talk!Direct({a, b})
                                    /\ messages[m].senderId \in {a, b}
            \/ \E r \in Person : messages[m].room = Talk!Support(r)
<1>1. messages[m] \in Talk!Message
  BY DEF TalkInv
<1>2. messages[m].senderId \in Person /\ messages[m].room \in Talk!Rooms
  BY <1>1 DEF Talk!Message
<1>3. messages[m].room.roomType = "DIRECT" => messages[m].senderId \in messages[m].room.key
  BY DEF TalkInv
<1>4. \A a, b \in Person : messages[m].room = Talk!Direct({a, b}) => messages[m].senderId \in {a, b}
  BY <1>3, RoomTypes
<1>5. \/ messages[m].room = Talk!Global
      \/ \E a, b \in Person : messages[m].room = Talk!Direct({a, b})
      \/ \E r \in Person : messages[m].room = Talk!Support(r)
  BY <1>2, KindsOfRoom
<1> QED
  BY <1>2, <1>4, <1>5

\* The messages the list would show u as unread.
Shown(u) ==
  {m \in 1 .. Len(messages) :
     /\ messages[m].senderId \in Person \ {u}
     /\ Talk!CanList(u, messages[m].room)
     /\ m > Talk!ReadMark(u, messages[m].room)
     /\ messages[m].room.roomType = "DIRECT" => messages[m].senderId \in activeMembers}

LEMMA SummaryShows ==
  ASSUME TalkInv, NEW u \in activeMembers, NEW m \in 1 .. Len(messages)
  PROVE  m \in Shown(u) <=>
           m \in Talk!GlobalUnread(u) \cup Talk!SupportUnread(u) \cup Talk!DirectUnread(u)
<1> DEFINE room == messages[m].room
           sender == messages[m].senderId
<1>1. sender \in Person
  BY MessageTypes
<1>2. CASE room = Talk!Global
  <2>1. m \in Shown(u) <=> sender # u /\ m > Talk!LastRead(u, Talk!Global)
    BY <1>1, <1>2 DEF Shown, Talk!CanList, Talk!ReadMark, Talk!Global
  <2>2. m \in Talk!GlobalUnread(u) <=> sender # u /\ m > Talk!LastRead(u, Talk!Global)
    BY <1>2 DEF Talk!GlobalUnread, Talk!Unread
  <2>3. m \notin Talk!SupportUnread(u) /\ m \notin Talk!DirectUnread(u)
    BY <1>2, PartsOfSummary, RoomTypes
  <2> QED
    BY <2>1, <2>2, <2>3
<1>3. ASSUME NEW r \in Person, room = Talk!Support(r)
      PROVE  m \in Shown(u) <=>
               m \in Talk!GlobalUnread(u) \cup Talk!SupportUnread(u) \cup Talk!DirectUnread(u)
  <2>1. room.roomType = "SUPPORT" /\ room.supportRequesterId = r
    BY <1>3 DEF Talk!Support
  <2>2. m \in Shown(u) <=> /\ sender # u
                           /\ Talk!IsOperator(u) \/ r = u
                           /\ m > Talk!LastRead(u, Talk!Support(r))
    BY <1>1, <1>3, <2>1 DEF Shown, Talk!CanList, Talk!ReadMark
  <2>3. r \in Talk!SupportThreads(u) <=> Talk!IsOperator(u) \/ r = u
    BY <2>1 DEF Talk!SupportThreads
  <2>4. \A q : Talk!Support(q) = Talk!Support(r) => q = r
    <3>1. \A q : Talk!Support(q).supportRequesterId = q
      BY DEF Talk!Support
    <3> QED
      BY <3>1
  <2>5. m \in Talk!SupportUnread(u) <=> /\ r \in Talk!SupportThreads(u)
                                        /\ sender # u
                                        /\ m > Talk!LastRead(u, Talk!Support(r))
    BY <1>3, <2>4 DEF Talk!SupportUnread, Talk!Unread
  <2>6. m \notin Talk!GlobalUnread(u) /\ m \notin Talk!DirectUnread(u)
    BY <2>1, PartsOfSummary
  <2> QED
    BY <2>2, <2>3, <2>5, <2>6
<1>4. ASSUME NEW a \in Person, NEW b \in Person,
             room = Talk!Direct({a, b}), sender \in {a, b}
      PROVE  m \in Shown(u) <=>
               m \in Talk!GlobalUnread(u) \cup Talk!SupportUnread(u) \cup Talk!DirectUnread(u)
  <2>1. room.roomType = "DIRECT" /\ room.key = {a, b}
    BY <1>4 DEF Talk!Direct
  <2>2. m \notin Talk!GlobalUnread(u) /\ m \notin Talk!SupportUnread(u)
    BY <2>1, PartsOfSummary
  <2>3. \A k : Talk!Direct(k) = room => k = {a, b}
    <3>1. \A k : Talk!Direct(k).key = k
      BY DEF Talk!Direct
    <3> QED
      BY <2>1, <3>1
  <2>4. \A peer : room = Talk!Direct(Talk!DirectKey(u, peer)) /\ sender # u
                    => peer = sender /\ {a, b} = {u, sender}
    BY <1>4, <2>3 DEF Talk!DirectKey
  <2>5. m \in Talk!DirectUnread(u) <=> /\ sender # u /\ {a, b} = {u, sender}
                                       /\ sender \in activeMembers
                                       /\ m > Talk!LastRead(u, Talk!DirectPeer(sender))
    <3>1. m \in Talk!DirectUnread(u) <=>
            \E peer \in activeMembers \ {u} :
              /\ room = Talk!Direct(Talk!DirectKey(u, peer)) /\ sender # u
              /\ m > Talk!LastRead(u, Talk!DirectPeer(peer))
      BY DEF Talk!DirectUnread, Talk!DirectPeers, Talk!Unread
    <3>2. {a, b} = {u, sender} => room = Talk!Direct(Talk!DirectKey(u, sender))
      BY <1>4 DEF Talk!DirectKey
    <3> QED
      BY <2>4, <3>1, <3>2
  <2>6. m \in Shown(u) <=> /\ sender # u /\ u \in {a, b}
                           /\ sender \in activeMembers
                           /\ m > Talk!ReadMark(u, room)
    BY <1>1, <2>1 DEF Shown, Talk!CanList
  <2>7. sender # u /\ u \in {a, b} <=> sender # u /\ {a, b} = {u, sender}
    BY <1>4
  <2>8. ASSUME sender # u, {a, b} = {u, sender}
        PROVE  Talk!ReadMark(u, room) = Talk!LastRead(u, Talk!DirectPeer(sender))
    <3>1. (CHOOSE p \in {u, sender} : {u, sender} = Talk!DirectKey(u, p)) = sender
      BY <2>8, PeerOfKey
    <3> QED
      BY <2>1, <2>8, <3>1 DEF Talk!ReadMark
  <2> QED
    BY <2>2, <2>5, <2>6, <2>7, <2>8
<1> QED
  BY <1>2, <1>3, <1>4, MessageTypes

LEMMA TalkIsShown == ASSUME TalkInv PROVE Talk!UnreadIsShown
<1> SUFFICES ASSUME NEW u \in activeMembers
             PROVE  Talk!TotalUnread(u) = Cardinality(Shown(u))
  BY TalkCardinality DEF Talk!UnreadIsShown, Shown
<1> DEFINE A == Talk!GlobalUnread(u)
           B == Talk!SupportUnread(u)
           C == Talk!DirectUnread(u)
<1>1. Len(messages) \in Nat
  BY DEF TalkInv
<1>2. A \subseteq 1 .. Len(messages) /\ B \subseteq 1 .. Len(messages) /\ C \subseteq 1 .. Len(messages)
  BY PartsOfSummary
<1>3. /\ \A m \in A : messages[m].room.roomType = "GLOBAL"
      /\ \A m \in B : messages[m].room.roomType = "SUPPORT"
      /\ \A m \in C : messages[m].room.roomType = "DIRECT"
  BY PartsOfSummary
<1>4. A \cap B = {} /\ A \cap C = {} /\ B \cap C = {}
  BY <1>3
<1>5. Shown(u) = A \cup B \cup C
  BY <1>2, SummaryShows DEF Shown
<1>6. Talk!TotalUnread(u) = Cardinality(A) + Cardinality(B) + Cardinality(C)
  BY TalkCardinality DEF Talk!TotalUnread
<1> HIDE DEF A, B, C
<1>7. Cardinality(A) + Cardinality(B) + Cardinality(C) = Cardinality(A \cup B \cup C)
  <2>1. IsFiniteSet(1 .. Len(messages))
    BY <1>1, FS_Interval
  <2>2. IsFiniteSet(A) /\ IsFiniteSet(B) /\ IsFiniteSet(C)
    BY <1>2, <2>1, FS_Subset
  <2>3. Apart(A, B, C)
    BY <1>4 DEF Apart
  <2> QED
    BY <2>2, <2>3, CountedApart
<1> QED
  BY <1>5, <1>6, <1>7

-----------------------------------------------------------------------------
(* Presence: the counts of the gateway are those of the sockets that hold  *)
(* their user, and their device, online.                                   *)

LEMMA OnlineBounds == MaxSockets \in Nat /\ MaxRestarts \in Nat /\ None \notin Device
BY OfficeAssumption
DEF OfficeAssumption, Online!MaxSocketsAssumption, Online!MaxRestartsAssumption,
    Online!NoDeviceAssumption


\* s was counted and nothing has taken it back.
Holding(s) == Online!Connected(s) \/ Online!Ghost(s)
Holders == {s \in Online!Socket : Holding(s)}

\* The device of s was counted and nothing has taken it back.
HoldingDevice(s) == Holding(s) \/ leaving[s] = "writing"
DeviceHolders(d) == {s \in Online!Socket : deviceOf[s] = d /\ HoldingDevice(s)}

\* Where a socket stands with the two handlers.
SocketsOK ==
  \A s \in Online!Socket :
    /\ entering[s] \in {"new", "lost"} => leaving[s] = "no"
    /\ s \in live => leaving[s] = "no" /\ entering[s] \in Online!Counted \cup {"verify"}
    /\ leaving[s] \in {"writing", "done"} => entering[s] \in Online!Counted
    /\ entering[s] \in Online!Counted \cup {"verify"} /\ leaving[s] = "no" => s \in live
    /\ entering[s] = "register" => deviceOf[s] \in Device

CountsAdd ==
  /\ connectionCounts = Cardinality(Holders)
  /\ \A d \in Device : deviceConnectionCounts[d] = Cardinality(DeviceHolders(d))

PresenceInv == Online!TypeOK /\ SocketsOK /\ CountsAdd

-----------------------------------------------------------------------------
(* Counting sockets *)

LEMMA SocketsAreFinite ==
  ASSUME NEW S \in SUBSET Online!Socket
  PROVE  IsFiniteSet(S) /\ Cardinality(S) \in 0 .. MaxSockets
<1>1. IsFiniteSet(Online!Socket) /\ Cardinality(Online!Socket) = MaxSockets
  BY OnlineBounds, FS_Interval DEF Online!Socket
<1>2. IsFiniteSet(S) /\ Cardinality(S) <= Cardinality(Online!Socket)
  BY <1>1, FS_Subset
<1> QED
  BY <1>1, <1>2, FS_CardinalityType, OnlineBounds

\* One socket more, or one less.
LEMMA SocketMore ==
  ASSUME NEW S \in SUBSET Online!Socket, NEW s \in Online!Socket, s \notin S
  PROVE  Cardinality(S \cup {s}) = Cardinality(S) + 1
BY SocketsAreFinite, FS_AddElement

LEMMA SocketLess ==
  ASSUME NEW S \in SUBSET Online!Socket, NEW s \in S
  PROVE  Cardinality(S) > 0 /\ Cardinality(S \ {s}) = Cardinality(S) - 1
<1>1. IsFiniteSet(S) /\ Cardinality(S) \in Nat
  BY SocketsAreFinite
<1> QED
  BY <1>1, FS_RemoveElement, FS_EmptySet

\* A set of sockets is empty when its count is 0.
LEMMA NoneCounted ==
  ASSUME NEW S \in SUBSET Online!Socket
  PROVE  Cardinality(S) = 0 <=> S = {}
BY SocketsAreFinite, FS_EmptySet

\* The counts stay when nobody's hold on the user or on a device changes.
LEMMA SameHolders ==
  ASSUME CountsAdd,
         UNCHANGED <<connectionCounts, deviceConnectionCounts>>,
         \A t \in Online!Socket :
           /\ Holding(t)' <=> Holding(t)
           /\ HoldingDevice(t)' <=> HoldingDevice(t)
           /\ HoldingDevice(t) => deviceOf'[t] = deviceOf[t]
  PROVE  CountsAdd'
<1>1. Holders' = Holders
  BY DEF Holders
<1>2. ASSUME NEW d \in Device  PROVE DeviceHolders(d)' = DeviceHolders(d)
  BY DEF DeviceHolders
<1> QED
  BY <1>1, <1>2 DEF CountsAdd

\* The device of s, if it has one, gains or loses one of its holders.
LEMMA DeviceAdded ==
  ASSUME PresenceInv, NEW s \in Online!Socket, ~HoldingDevice(s), HoldingDevice(s)',
         \A t \in Online!Socket : t # s => (HoldingDevice(t)' <=> HoldingDevice(t)),
         UNCHANGED deviceOf,
         deviceConnectionCounts' = Online!AddDevice(deviceOf[s], deviceConnectionCounts)
  PROVE  \A d \in Device :
           deviceConnectionCounts'[d] = Cardinality(DeviceHolders(d)')
<1> SUFFICES ASSUME NEW d \in Device
             PROVE  deviceConnectionCounts'[d] = Cardinality(DeviceHolders(d)')
  OBVIOUS
<1>1. deviceConnectionCounts[d] = Cardinality(DeviceHolders(d))
  BY DEF PresenceInv, CountsAdd
<1>2. deviceConnectionCounts \in [Device -> Int]
  BY DEF PresenceInv, Online!TypeOK
<1>3. CASE deviceOf[s] = d
  <2>1. DeviceHolders(d)' = DeviceHolders(d) \cup {s} /\ s \notin DeviceHolders(d)
    BY <1>3 DEF DeviceHolders
  <2>2. DeviceHolders(d) \in SUBSET Online!Socket
    BY DEF DeviceHolders
  <2>3. deviceConnectionCounts'[d] = deviceConnectionCounts[d] + 1
    BY <1>2, <1>3, OnlineBounds DEF Online!AddDevice
  <2> QED
    BY <1>1, <2>1, <2>2, <2>3, SocketMore
<1>4. CASE deviceOf[s] # d
  <2>1. DeviceHolders(d)' = DeviceHolders(d)
    BY <1>4 DEF DeviceHolders
  <2>2. deviceConnectionCounts'[d] = deviceConnectionCounts[d]
    BY <1>2, <1>4 DEF Online!AddDevice
  <2> QED
    BY <1>1, <2>1, <2>2
<1> QED
  BY <1>3, <1>4

LEMMA DeviceRemoved ==
  ASSUME PresenceInv, NEW s \in Online!Socket, HoldingDevice(s), ~HoldingDevice(s)',
         \A t \in Online!Socket : t # s => (HoldingDevice(t)' <=> HoldingDevice(t)),
         UNCHANGED deviceOf,
         deviceConnectionCounts' = Online!RemoveDevice(deviceOf[s], deviceConnectionCounts)
  PROVE  \A d \in Device :
           deviceConnectionCounts'[d] = Cardinality(DeviceHolders(d)')
<1> SUFFICES ASSUME NEW d \in Device
             PROVE  deviceConnectionCounts'[d] = Cardinality(DeviceHolders(d)')
  OBVIOUS
<1>1. deviceConnectionCounts[d] = Cardinality(DeviceHolders(d))
  BY DEF PresenceInv, CountsAdd
<1>2. deviceConnectionCounts \in [Device -> Int]
  BY DEF PresenceInv, Online!TypeOK
<1>3. CASE deviceOf[s] = d
  <2>1. DeviceHolders(d)' = DeviceHolders(d) \ {s} /\ s \in DeviceHolders(d)
    BY <1>3 DEF DeviceHolders
  <2>2. DeviceHolders(d) \in SUBSET Online!Socket
    BY DEF DeviceHolders
  <2>3. deviceConnectionCounts'[d] =
          IF deviceConnectionCounts[d] - 1 <= 0 THEN 0 ELSE deviceConnectionCounts[d] - 1
    BY <1>2, <1>3, OnlineBounds DEF Online!RemoveDevice
  <2>4. Cardinality(DeviceHolders(d)') = Cardinality(DeviceHolders(d)) - 1
        /\ Cardinality(DeviceHolders(d)) > 0
    BY <2>1, <2>2, SocketLess
  <2> QED
    BY <1>1, <1>2, <2>3, <2>4
<1>4. CASE deviceOf[s] # d
  <2>1. DeviceHolders(d)' = DeviceHolders(d)
    BY <1>4 DEF DeviceHolders
  <2>2. deviceConnectionCounts'[d] = deviceConnectionCounts[d]
    BY <1>2, <1>4 DEF Online!RemoveDevice
  <2> QED
    BY <1>1, <2>1, <2>2
<1> QED
  BY <1>3, <1>4

-----------------------------------------------------------------------------
(* The invariant *)

LEMMA PresenceInit == Online!Init => PresenceInv
<1> SUFFICES ASSUME Online!Init  PROVE PresenceInv  OBVIOUS
<1>1. Online!TypeOK /\ SocketsOK
  BY OnlineBounds
  DEF Online!Init, Online!TypeOK, SocketsOK, Online!EnteringPhases, Online!LeavingPhases, Online!Counted
<1>2. Holders = {} /\ \A d \in Device : DeviceHolders(d) = {}
  BY DEF Online!Init, Holders, DeviceHolders, HoldingDevice, Holding, Online!Connected, Online!Ghost, Online!Counted
<1> QED
  BY <1>1, <1>2, FS_EmptySet DEF Online!Init, PresenceInv, CountsAdd

\* The counts are in range, being those of sockets.
LEMMA CountsInRange ==
  ASSUME CountsAdd', DOMAIN deviceConnectionCounts' = Device,
         deviceConnectionCounts' = [d \in Device |-> deviceConnectionCounts'[d]]
  PROVE  /\ connectionCounts' \in 0 .. MaxSockets
         /\ deviceConnectionCounts' \in [Device -> 0 .. MaxSockets]
<1>1. Holders' \in SUBSET Online!Socket /\ \A d \in Device : DeviceHolders(d)' \in SUBSET Online!Socket
  BY DEF Holders, DeviceHolders
<1>2. connectionCounts' \in 0 .. MaxSockets
  BY <1>1, SocketsAreFinite DEF CountsAdd
<1>3. \A d \in Device : deviceConnectionCounts'[d] \in 0 .. MaxSockets
  BY <1>1, SocketsAreFinite DEF CountsAdd
<1> QED
  BY <1>2, <1>3

\* What every step of a socket leaves typed, the counts apart.
LEMMA SocketConnects ==
  ASSUME PresenceInv, NEW s \in Online!Socket, NEW d \in Device \cup {None}, Online!Connect(s, d)
  PROVE  PresenceInv'
<1>1. Online!TypeOK' /\ SocketsOK'
  BY DEF PresenceInv, Online!TypeOK, SocketsOK, Online!Connect, Online!Enter, Online!EnteringPhases, Online!Counted
<1>2. CountsAdd'
  <2>1. \A t \in Online!Socket : entering'[t] = IF t = s THEN "verify" ELSE entering[t]
    BY DEF PresenceInv, Online!TypeOK, Online!Connect, Online!Enter
  <2>2. \A t \in Online!Socket : t # s => (t \in live' <=> t \in live)
    BY DEF Online!Connect
  <2>3. entering[s] = "new" /\ leaving[s] = "no" /\ leaving' = leaving
    BY DEF PresenceInv, SocketsOK, Online!Connect
  <2>4. \A t \in Online!Socket : t # s => deviceOf'[t] = deviceOf[t]
    BY DEF PresenceInv, Online!TypeOK, Online!Connect
  <2>5. \A t \in Online!Socket : /\ Holding(t)' <=> Holding(t)
                                 /\ HoldingDevice(t)' <=> HoldingDevice(t)
                                 /\ HoldingDevice(t) => deviceOf'[t] = deviceOf[t]
    BY <2>1, <2>2, <2>3, <2>4
    DEF HoldingDevice, Holding, Online!Connected, Online!Ghost, Online!Counted
  <2> QED
    BY <2>5, SameHolders DEF PresenceInv, Online!Connect
<1> QED
  BY <1>1, <1>2 DEF PresenceInv

LEMMA SocketRefused ==
  ASSUME PresenceInv, NEW s \in Online!Socket, Online!Refuse(s)
  PROVE  PresenceInv'
<1>1. /\ Online!TypeOK'
      /\ \A t \in Online!Socket :
           /\ entering'[t] = IF t = s THEN "refused" ELSE entering[t]
           /\ leaving'[t] = IF t = s THEN "early" ELSE leaving[t]
           /\ t \in live' <=> t \in live /\ t # s
      /\ entering[s] = "verify" /\ UNCHANGED deviceOf
  BY DEF PresenceInv, Online!TypeOK, Online!Refuse, Online!Enter, Online!Leave, Online!EnteringPhases, Online!LeavingPhases
<1>2. SocketsOK'
  BY <1>1 DEF PresenceInv, SocketsOK, Online!Counted
<1>3. \A t \in Online!Socket : /\ Holding(t)' <=> Holding(t)
                               /\ HoldingDevice(t)' <=> HoldingDevice(t)
  BY <1>1 DEF PresenceInv, SocketsOK, HoldingDevice, Holding, Online!Connected, Online!Ghost, Online!Counted
<1>4. CountsAdd'
  BY <1>1, <1>3, SameHolders DEF PresenceInv, Online!Refuse
<1> QED
  BY <1>1, <1>2, <1>4 DEF PresenceInv

\* Counting s makes it hold its user and its device, a ghost if it is closed.
LEMMA SocketCounted ==
  ASSUME PresenceInv, NEW s \in Online!Socket, Online!Count(s)
  PROVE  PresenceInv'
<1>1. /\ \A t \in Online!Socket :
           entering'[t] = IF t = s THEN (IF deviceOf[s] = None THEN "daily" ELSE "register")
                                   ELSE entering[t]
      /\ entering[s] = "verify" /\ UNCHANGED <<live, leaving, deviceOf, sessions, restarts>>
      /\ entering' \in [Online!Socket -> Online!EnteringPhases]
      /\ deviceOf[s] \in Device \cup {None}
  BY DEF PresenceInv, Online!TypeOK, Online!Count, Online!Enter, Online!EnteringPhases
<1>2. SocketsOK'
  BY <1>1 DEF PresenceInv, SocketsOK, Online!Counted
<1>3. leaving[s] \in {"no", "early"} /\ (leaving[s] = "no" => s \in live)
  BY <1>1 DEF PresenceInv, SocketsOK, Online!TypeOK, Online!LeavingPhases, Online!Counted
<1>4. /\ Holding(s)' /\ ~Holding(s)
      /\ HoldingDevice(s)' /\ ~HoldingDevice(s)
      /\ \A t \in Online!Socket : t # s => /\ Holding(t)' <=> Holding(t)
                                           /\ HoldingDevice(t)' <=> HoldingDevice(t)
  BY <1>1, <1>3 DEF HoldingDevice, Holding, Online!Connected, Online!Ghost, Online!Counted
<1>5. CountsAdd'
  <2>1. Holders' = Holders \cup {s} /\ s \notin Holders /\ Holders \in SUBSET Online!Socket
    BY <1>4 DEF Holders
  <2>2. connectionCounts' = Cardinality(Holders')
    BY <2>1, SocketMore DEF PresenceInv, CountsAdd, Online!Count
  <2>3. \A d \in Device : deviceConnectionCounts'[d] = Cardinality(DeviceHolders(d)')
    BY <1>1, <1>4, DeviceAdded DEF Online!Count
  <2> QED
    BY <2>2, <2>3 DEF CountsAdd
<1>6. deviceConnectionCounts' = [d \in Device |-> deviceConnectionCounts'[d]]
  BY DEF Online!Count, Online!AddDevice, PresenceInv, Online!TypeOK
<1>7. Online!TypeOK'
  BY <1>1, <1>5, <1>6, CountsInRange DEF PresenceInv, Online!TypeOK
<1> QED
  BY <1>2, <1>5, <1>7 DEF PresenceInv

LEMMA SocketRegisters ==
  ASSUME PresenceInv, NEW s \in Online!Socket, Online!RegisterDevice(s) \/ Online!RecordDaily(s)
  PROVE  PresenceInv'
<1>1. /\ \A t \in Online!Socket :
           t # s => entering'[t] = entering[t]
      /\ entering[s] \in Online!Counted /\ entering'[s] \in {"daily", "done"}
      /\ UNCHANGED <<live, leaving, deviceOf>>
      /\ UNCHANGED <<connectionCounts, deviceConnectionCounts>>
  BY DEF PresenceInv, Online!TypeOK, Online!RegisterDevice, Online!RecordDaily, Online!Enter, Online!Counted
<1>2. Online!TypeOK'
  BY DEF PresenceInv, Online!TypeOK, SocketsOK, Online!RegisterDevice, Online!RecordDaily, Online!Enter, Online!EnteringPhases
<1>3. SocketsOK'
  BY <1>1 DEF PresenceInv, SocketsOK, Online!Counted
<1>4. \A t \in Online!Socket : /\ Holding(t)' <=> Holding(t)
                               /\ HoldingDevice(t)' <=> HoldingDevice(t)
  BY <1>1 DEF HoldingDevice, Holding, Online!Connected, Online!Ghost, Online!Counted
<1>5. CountsAdd'
  BY <1>1, <1>4, SameHolders DEF PresenceInv
<1> QED
  BY <1>2, <1>3, <1>5 DEF PresenceInv

\* A socket that closes lets go of its user if it was counted; of its device
\* too, unless it is the last one and has to write first.
LEMMA SocketDisconnects ==
  ASSUME PresenceInv, NEW s \in Online!Socket, Online!Disconnect(s)
  PROVE  PresenceInv'
<1>1. /\ \A t \in Online!Socket : t # s => leaving'[t] = leaving[t] /\ (t \in live' <=> t \in live)
      /\ leaving[s] = "no" /\ s \in live /\ s \notin live'
      /\ entering[s] \in Online!Counted \cup {"verify"}
      /\ UNCHANGED <<entering, deviceOf, sessions, restarts>>
      /\ leaving' \in [Online!Socket -> Online!LeavingPhases]
      /\ live' \subseteq Online!Socket
      /\ deviceOf[s] \in Device \cup {None}
      /\ connectionCounts \in Int
  BY DEF PresenceInv, Online!TypeOK, SocketsOK, Online!Disconnect, Online!Leave, Online!LeavingPhases
<1>2. CASE entering[s] \notin Online!Counted
  <2>1. leaving'[s] = "early" /\ UNCHANGED <<connectionCounts, deviceConnectionCounts>>
    BY <1>2 DEF PresenceInv, Online!TypeOK, Online!Disconnect, Online!Leave
  <2>2. SocketsOK'
    BY <1>1, <1>2, <2>1 DEF PresenceInv, SocketsOK, Online!Counted
  <2>3. \A t \in Online!Socket : /\ Holding(t)' <=> Holding(t)
                                 /\ HoldingDevice(t)' <=> HoldingDevice(t)
    BY <1>1, <1>2, <2>1 DEF HoldingDevice, Holding, Online!Connected, Online!Ghost
  <2>4. CountsAdd'
    BY <1>1, <2>1, <2>3, SameHolders DEF PresenceInv
  <2> QED
    BY <1>1, <2>1, <2>2, <2>4 DEF PresenceInv, Online!TypeOK
<1>3. CASE entering[s] \in Online!Counted
  <2>1. leaving'[s] \in {"writing", "done"}
    BY <1>3 DEF PresenceInv, Online!TypeOK, Online!Disconnect, Online!Leave
  <2>2. SocketsOK'
    BY <1>1, <1>3, <2>1 DEF PresenceInv, SocketsOK, Online!Counted
  <2>3. /\ Holding(s) /\ ~Holding(s)' /\ HoldingDevice(s)
        /\ HoldingDevice(s)' <=> leaving'[s] = "writing"
        /\ \A t \in Online!Socket : t # s => /\ Holding(t)' <=> Holding(t)
                                             /\ HoldingDevice(t)' <=> HoldingDevice(t)
    BY <1>1, <1>3, <2>1 DEF HoldingDevice, Holding, Online!Connected, Online!Ghost
  <2>4. connectionCounts' = Cardinality(Holders')
    <3>1. Holders' = Holders \ {s} /\ s \in Holders /\ Holders \in SUBSET Online!Socket
      BY <2>3 DEF Holders
    <3>2. connectionCounts = Cardinality(Holders)
      BY DEF PresenceInv, CountsAdd
    <3>3. connectionCounts' = IF connectionCounts - 1 <= 0 THEN 0 ELSE connectionCounts - 1
      BY <1>3 DEF Online!Disconnect
    <3>4. Cardinality(Holders') = Cardinality(Holders) - 1 /\ Cardinality(Holders) > 0
      BY <3>1, SocketLess
    <3> QED
      BY <1>1, <3>2, <3>3, <3>4
  <2>5. \A d \in Device : deviceConnectionCounts'[d] = Cardinality(DeviceHolders(d)')
    <3>1. CASE connectionCounts - 1 <= 0
      <4>1. leaving'[s] = "writing" /\ UNCHANGED deviceConnectionCounts
        BY <1>3, <3>1 DEF PresenceInv, Online!TypeOK, Online!Disconnect, Online!Leave
      <4>2. \A d \in Device : DeviceHolders(d)' = DeviceHolders(d)
        BY <1>1, <2>3, <4>1 DEF DeviceHolders
      <4> QED
        BY <4>1, <4>2 DEF PresenceInv, CountsAdd
    <3>2. CASE ~(connectionCounts - 1 <= 0)
      <4>1. /\ leaving'[s] = "done"
            /\ deviceConnectionCounts' = Online!RemoveDevice(deviceOf[s], deviceConnectionCounts)
        BY <1>3, <3>2 DEF PresenceInv, Online!TypeOK, Online!Disconnect, Online!Leave
      <4> QED
        BY <1>1, <2>3, <4>1, DeviceRemoved
    <3> QED
      BY <3>1, <3>2
  <2>6. CountsAdd'
    BY <2>4, <2>5 DEF CountsAdd
  <2>7. deviceConnectionCounts' = [d \in Device |-> deviceConnectionCounts'[d]]
    BY DEF Online!Disconnect, Online!RemoveDevice, PresenceInv, Online!TypeOK
  <2>8. Online!TypeOK'
    BY <1>1, <2>6, <2>7, CountsInRange DEF PresenceInv, Online!TypeOK
  <2> QED
    BY <2>2, <2>6, <2>8 DEF PresenceInv
<1> QED
  BY <1>2, <1>3

LEMMA SocketForgotten ==
  ASSUME PresenceInv, NEW s \in Online!Socket, Online!ForgetDevice(s)
  PROVE  PresenceInv'
<1>1. /\ \A t \in Online!Socket : leaving'[t] = IF t = s THEN "done" ELSE leaving[t]
      /\ leaving[s] = "writing" /\ entering[s] \in Online!Counted /\ s \notin live
      /\ UNCHANGED <<live, entering, deviceOf, connectionCounts, sessions, restarts>>
      /\ leaving' \in [Online!Socket -> Online!LeavingPhases]
      /\ deviceConnectionCounts' = Online!RemoveDevice(deviceOf[s], deviceConnectionCounts)
  BY DEF PresenceInv, Online!TypeOK, SocketsOK, Online!ForgetDevice, Online!Leave, Online!LeavingPhases
<1>2. SocketsOK'
  BY <1>1 DEF PresenceInv, SocketsOK
<1>3. /\ HoldingDevice(s) /\ ~HoldingDevice(s)'
      /\ \A t \in Online!Socket : Holding(t)' <=> Holding(t)
      /\ \A t \in Online!Socket : t # s => (HoldingDevice(t)' <=> HoldingDevice(t))
  BY <1>1 DEF HoldingDevice, Holding, Online!Connected, Online!Ghost
<1>4. CountsAdd'
  <2>1. Holders' = Holders
    BY <1>3 DEF Holders
  <2>2. \A d \in Device : deviceConnectionCounts'[d] = Cardinality(DeviceHolders(d)')
    BY <1>1, <1>3, DeviceRemoved
  <2> QED
    BY <1>1, <2>1, <2>2 DEF PresenceInv, CountsAdd
<1>5. deviceConnectionCounts' = [d \in Device |-> deviceConnectionCounts'[d]]
  BY <1>1 DEF Online!RemoveDevice, PresenceInv, Online!TypeOK
<1>6. Online!TypeOK'
  BY <1>1, <1>4, <1>5, CountsInRange DEF PresenceInv, Online!TypeOK
<1> QED
  BY <1>2, <1>4, <1>6 DEF PresenceInv

LEMMA ServerRestarts == ASSUME PresenceInv, Online!Restart  PROVE PresenceInv'
<1>1. Online!TypeOK' /\ SocketsOK'
  BY OnlineBounds
  DEF PresenceInv, Online!TypeOK, SocketsOK, Online!Restart, Online!EnteringPhases, Online!LeavingPhases, Online!Counted
<1>2. Holders' = {} /\ \A d \in Device : DeviceHolders(d)' = {}
  BY DEF Online!Restart, Holders, DeviceHolders, HoldingDevice, Holding, Online!Connected, Online!Ghost
<1> QED
  BY <1>1, <1>2, FS_EmptySet DEF Online!Restart, PresenceInv, CountsAdd

LEMMA ProfileEnriched ==
  ASSUME PresenceInv, NEW d \in Device, Online!EnrichProfile(d)
  PROVE  PresenceInv'
<1>1. CountsAdd'
  BY SameHolders
  DEF PresenceInv, Online!EnrichProfile, HoldingDevice, Holding, Online!Connected, Online!Ghost
<1> QED
  BY <1>1 DEF PresenceInv, Online!TypeOK, SocketsOK, Online!EnrichProfile

LEMMA PresenceNext == PresenceInv /\ [Online!Next]_(Online!vars) => PresenceInv'
<1> SUFFICES ASSUME PresenceInv, [Online!Next]_(Online!vars)  PROVE PresenceInv'  OBVIOUS
<1>1. CASE UNCHANGED Online!vars
  <2>1. CountsAdd'
    BY <1>1, SameHolders
    DEF Online!vars, PresenceInv, HoldingDevice, Holding, Online!Connected, Online!Ghost
  <2> QED
    BY <1>1, <2>1 DEF Online!vars, PresenceInv, Online!TypeOK, SocketsOK
<1> QED
  BY <1>1, SocketConnects, SocketRefused, SocketCounted, SocketRegisters, SocketDisconnects,
     SocketForgotten, ServerRestarts, ProfileEnriched
  DEF Online!Next, Online!Advance

\* Whoever is counted is shown, and whatever is shown is counted.
LEMMA PresenceTells == PresenceInv => Online!PresenceIsTrue
<1> SUFFICES ASSUME PresenceInv  PROVE Online!PresenceIsTrue  OBVIOUS
<1>1. /\ Holders \in SUBSET Online!Socket
      /\ \A d \in Device : DeviceHolders(d) \in SUBSET Online!Socket
  BY DEF Holders, DeviceHolders
<1>2. Online!isUserOnline <=> Holders # {}
  BY <1>1, NoneCounted, SocketsAreFinite DEF PresenceInv, CountsAdd, Online!isUserOnline
<1>3. \A d \in Device : d \in Online!getOnlineDeviceIds <=> DeviceHolders(d) # {}
  BY <1>1, NoneCounted, SocketsAreFinite
  DEF PresenceInv, CountsAdd, Online!getOnlineDeviceIds
<1>4. ASSUME NEW s \in Online!Socket, Online!Connected(s)
      PROVE  /\ Online!isUserOnline
             /\ deviceOf[s] \in sessions =>
                  \A d \in Device :
                    [deviceId |-> deviceOf[s], isOnline |-> TRUE] \in Online!listDevices(d)
  <2>1. Online!isUserOnline
    BY <1>2, <1>4 DEF Holders, Holding
  <2>2. ASSUME deviceOf[s] \in sessions, NEW d \in Device
        PROVE  [deviceId |-> deviceOf[s], isOnline |-> TRUE] \in Online!listDevices(d)
    <3>1. deviceOf[s] \in Device
      BY <2>2 DEF PresenceInv, Online!TypeOK
    <3>2. deviceOf[s] \in Online!getOnlineDeviceIds
      BY <1>3, <1>4, <3>1 DEF DeviceHolders, HoldingDevice, Holding
    <3> QED
      BY <2>2, <3>2 DEF Online!listDevices
  <2> QED
    BY <2>1, <2>2
<1>5. Online!isUserOnline => \E s \in Online!Socket : Online!Connected(s) \/ Online!Ghost(s)
  BY <1>2 DEF Holders, Holding
<1>6. \A d \in Online!getOnlineDeviceIds : \E s \in Online!Socket :
        deviceOf[s] = d /\ (Online!Connected(s) \/ Online!Ghost(s) \/ leaving[s] = "writing")
  <2> SUFFICES ASSUME NEW d \in Online!getOnlineDeviceIds
               PROVE  \E s \in Online!Socket : deviceOf[s] = d /\
                        (Online!Connected(s) \/ Online!Ghost(s) \/ leaving[s] = "writing")
    OBVIOUS
  <2>1. d \in Device
    BY DEF Online!getOnlineDeviceIds
  <2> QED
    BY <1>3, <2>1 DEF DeviceHolders, HoldingDevice, Holding
<1> QED
  BY <1>4, <1>5, <1>6 DEF Online!PresenceIsTrue

-----------------------------------------------------------------------------
(* The invariant of each part, while it is the part that moves. *)

AccountPart == part = "account" => AccountInv
CommissionPart == part = "commission" => CommissionInv
ReactionPart == part = "reactions" => Reaction!TypeOK /\ ReactionsInv
TaskPart == part = "task" => TaskInv
UnitPart == part = "units" => UnitsInv
TalkPart == part = "chat" => TalkInv
OnlinePart == part = "presence" => PresenceInv

PartsInv ==
  AccountPart /\ CommissionPart /\ ReactionPart /\ TaskPart /\ UnitPart /\ TalkPart
  /\ OnlinePart

LEMMA PartsAssume ==
  /\ AccountAssumptions /\ Commission!NobodyAssumption /\ Task!NoTaskAssumption
  /\ Unit!NoNameAssumption
BY OfficeAssumption DEF OfficeAssumption, AccountAssumptions

LEMMA OfficeInit == Init => PartsInv
<1> SUFFICES ASSUME Init  PROVE PartsInv  OBVIOUS
<1>1. AccountPart
  BY PartsAssume, AccountsInit DEF Init, AccountPart
<1>2. CommissionPart
  BY CommissionsInit DEF Init, CommissionPart
<1>3. ReactionPart
  <2>1. Reaction!Init => Reaction!TypeOK
    BY DEF Reaction!Init, Reaction!TypeOK
  <2> QED
    BY <2>1, ReactionsInit DEF Init, ReactionPart
<1>4. TaskPart
  BY TaskInit DEF Init, TaskPart
<1>5. UnitPart
  BY UnitsInit DEF Init, UnitPart
<1>6. TalkPart
  BY TalkInit DEF Init, TalkPart
<1>7. OnlinePart
  BY PresenceInit DEF Init, OnlinePart
<1> QED
  BY <1>1, <1>2, <1>3, <1>4, <1>5, <1>6, <1>7 DEF PartsInv

-----------------------------------------------------------------------------
(* A step of Office is a step of the part that moves. *)

LEMMA PartsMove ==
  ASSUME [Next]_vars
  PROVE  /\ part' = part
         /\ part = "account" => [Account!Next]_(Account!vars)
         /\ part = "commission" => [Commission!Next]_(Commission!vars)
         /\ part = "reactions" => [Reaction!Next]_(Reaction!vars)
         /\ part = "task" => [Task!Next]_(Task!vars)
         /\ part = "units" => [Unit!Next]_(Unit!vars)
         /\ part = "chat" => [Talk!Next]_(Talk!vars)
         /\ part = "presence" => [Online!Next]_(Online!vars)
<1>1. CASE Next
  BY <1>1 DEF Next
<1>2. CASE UNCHANGED vars
  BY <1>2 DEF vars, accountVars, commissionVars, reactionVars, taskVars,
              unitVars, chatVars, onlineVars, Account!vars, Commission!vars, Reaction!vars,
              Task!vars, Unit!vars, Talk!vars, Online!vars
<1> QED
  BY <1>1, <1>2

LEMMA OfficeNext == PartsInv /\ [Next]_vars => PartsInv'
<1> SUFFICES ASSUME PartsInv, [Next]_vars  PROVE PartsInv'  OBVIOUS
<1>1. AccountPart'
  BY PartsMove, PartsAssume, AccountsNext DEF PartsInv, AccountPart
<1>2. CommissionPart'
  BY PartsMove, PartsAssume, CommissionsNext DEF PartsInv, CommissionPart
<1>3. ReactionPart'
  BY PartsMove, ReactionsNext DEF PartsInv, ReactionPart
<1>4. TaskPart'
  BY PartsMove, PartsAssume, TaskNext DEF PartsInv, TaskPart
<1>5. UnitPart'
  BY PartsMove, PartsAssume, UnitsNext DEF PartsInv, UnitPart
<1>6. TalkPart'
  BY PartsMove, TalkNext DEF PartsInv, TalkPart
<1>7. OnlinePart'
  BY PartsMove, PresenceNext DEF PartsInv, OnlinePart
<1> QED
  BY <1>1, <1>2, <1>3, <1>4, <1>5, <1>6, <1>7 DEF PartsInv

-----------------------------------------------------------------------------
\* A page of the warehouse is open only to an account whose structure keeps a
\* warehouse (assertWarehousePermissionsAllowed), with the exceptions
\* Accounts!WarehouseAccessIsBacked names.
THEOREM AccessBacked == Spec => []WarehouseAccessIsBacked
<1>1. PartsInv => WarehouseAccessIsBacked
  BY DEF PartsInv, AccountPart, WarehouseAccessIsBacked, AccountInv
<1> QED
  BY <1>1, OfficeInit, OfficeNext, PTL DEF Spec

\* An account that was switched off is switched on only by the save of an update
\* that asks for it (updateUserFromDto), however many handlers are under way.
THEOREM DeactivationKept == Spec => DeactivationStands
<1>1. PartsInv /\ [Next]_vars => [part = "account" => Account!KeepsDeactivation]_vars
  BY PartsAssume, KeepsStep DEF PartsInv, AccountPart, Next
<1> QED
  BY <1>1, OfficeInit, OfficeNext, PTL DEF Spec, DeactivationStands

\* The boss of a commission is none of its members unless two updates were under
\* way at once (assertBossNotInMembers in create and update).
THEOREM BossStaysApart == Spec => []BossIsNoMember
<1>1. PartsInv => BossIsNoMember
  BY PartsAssume, SeparateWhenAlone DEF PartsInv, CommissionPart, BossIsNoMember
<1> QED
  BY <1>1, OfficeInit, OfficeNext, PTL DEF Spec

\* A reaction is changed by nobody but its author, who has at most one on a
\* message (toggleReaction), for any members who toggle at once.
THEOREM ReactionsKept == Spec => ReactionsAreKept
<1>1. PartsInv /\ PartsInv' /\ [Next]_vars
        => [part = "reactions" => Reaction!KeepsReactions]_vars
  BY ReactionsStep DEF PartsInv, ReactionPart, Next
<1> QED
  BY <1>1, OfficeInit, OfficeNext, PTL DEF Spec, ReactionsAreKept

\* A task is whole from the moment somebody is told of it, and once completed it
\* stays completed unless two requests changed it at once (createAssignments,
\* completeTask, cancelTask), for any assignees and any number of requests.
THEOREM TasksKept == Spec => TasksAreKept
<1>1. PartsInv /\ PartsInv' /\ [Next]_vars => [part = "task" => Task!KeepsTasks]_vars
  BY PartsAssume, TaskStep DEF PartsInv, TaskPart, Next
<1> QED
  BY <1>1, OfficeInit, OfficeNext, PTL DEF Spec, TasksAreKept

\* A document names a unit of the user when no change is under way (update with
\* propagateUnitRename, remove with countUnitUsage), for any units, names and number
\* of requests, with the exceptions MeasurementUnits!UnitsAreKnown names.
THEOREM UnitsKnown == Spec => []UnitsAreKnown
<1>1. PartsInv => UnitsAreKnown
  BY UnitsAtRest DEF PartsInv, UnitPart, UnitsAreKnown
<1> QED
  BY <1>1, OfficeInit, OfficeNext, PTL DEF Spec

\* The number of unread messages getSummary shows an active user is that of the
\* messages listMessages would show him as unread, for any users, messages, read
\* marks and changes of accounts.
THEOREM UnreadShown == Spec => []UnreadIsShown
<1>1. PartsInv => UnreadIsShown
  BY TalkIsShown DEF PartsInv, TalkPart, UnreadIsShown
<1> QED
  BY <1>1, OfficeInit, OfficeNext, PTL DEF Spec

\* The counts tell the truth: whoever has a connected socket is shown online,
\* and whatever is shown online has a socket that holds it (handleConnection,
\* handleDisconnect), for any number of sockets, devices and restarts.
THEOREM PresenceHolds == Spec => []PresenceIsTrue
<1>1. PartsInv => PresenceIsTrue
  BY PresenceTells DEF PartsInv, OnlinePart, PresenceIsTrue
<1> QED
  BY <1>1, OfficeInit, OfficeNext, PTL DEF Spec

=============================================================================
