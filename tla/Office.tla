------------------------------- MODULE Office -------------------------------
(***************************************************************************)
(* The parts of the program that stand beside purchasing and warehouse:    *)
(* accounts, commissions, the chat and its reactions, who is online,       *)
(* measurement units and tasks.  Each has a collection of its own and none waits for another *)
(* so their interleavings are those of each by itself: a behaviour is a    *)
(* behaviour of one of them, which "part" names, while the others are      *)
(* switched off.                                                           *)
(***************************************************************************)
EXTENDS Integers, FiniteSets

CONSTANTS
  Handler,       \* requests under way at once
  None,          \* whatever is absent
  Person,
  Assignee,
  Structure, Admin, Request, MaxAttempts,   \* Accounts
  Emoji,                                    \* Reactions
  MaxMessages, MaxChanges,                  \* Chat
  MaxSockets, Device, MaxRestarts,          \* Presence
  UnitId, UnitName, Place                   \* MeasurementUnits

VARIABLES
  part,          \* the component that moves
  account, withWarehouse, handlers, overlapped, unbacked,
  commission, writers, concurrent,
  activeMembers, operators, messages, lastReadAt, changes,
  reactions, togglers,
  live, entering, leaving, deviceOf, connectionCounts, deviceConnectionCounts,
  sessions, restarts,
  units, documents, renamers, unsettled,
  eligible, creation, files, tasks, notified, managers, disputed

Account == INSTANCE Accounts
Commission == INSTANCE Commissions WITH Writer <- Handler, Nobody <- None
Talk == INSTANCE Chat WITH Member <- Person
Reaction == INSTANCE Reactions WITH Member <- Person, Absent <- None
Online == INSTANCE Presence WITH NoDevice <- None
Unit == INSTANCE MeasurementUnits
          WITH Writer <- Handler, NoName <- None, writers <- renamers
Task == INSTANCE AssignedTask
          WITH Manager <- Handler, NoTask <- None, overlapped <- disputed

ASSUME OfficeAssumption ==
  /\ Account!NoneAssumption
  /\ Account!MaxAttemptsAssumption
  /\ Account!RequestAssumption
  /\ Commission!NobodyAssumption
  /\ Talk!ChatBoundsAssumption
  /\ Reaction!AbsentAssumption
  /\ Online!MaxSocketsAssumption
  /\ Online!MaxRestartsAssumption
  /\ Online!NoDeviceAssumption
  /\ Unit!NoNameAssumption
  /\ Unit!PlaceAssumption
  /\ Task!NoTaskAssumption

accountVars == <<account, withWarehouse, handlers, overlapped, unbacked>>
commissionVars == <<commission, writers, concurrent>>
chatVars == <<activeMembers, operators, messages, lastReadAt, changes>>
reactionVars == <<reactions, togglers>>
onlineVars ==
  <<live, entering, leaving, deviceOf, connectionCounts, deviceConnectionCounts,
    sessions, restarts>>
unitVars == <<units, documents, renamers, unsettled>>
taskVars == <<eligible, creation, files, tasks, notified, managers, disputed>>

vars ==
  <<part, accountVars, commissionVars, chatVars, reactionVars, onlineVars,
    unitVars, taskVars>>

-----------------------------------------------------------------------------
Off == "off"

AccountOff ==
  /\ account = Off /\ withWarehouse = Off /\ handlers = Off
  /\ overlapped = Off /\ unbacked = Off
CommissionOff == commission = Off /\ writers = Off /\ concurrent = Off
TalkOff ==
  /\ activeMembers = Off /\ operators = Off /\ messages = Off
  /\ lastReadAt = Off /\ changes = Off
ReactionOff == reactions = Off /\ togglers = Off
OnlineOff ==
  /\ live = Off /\ entering = Off /\ leaving = Off /\ deviceOf = Off
  /\ connectionCounts = Off /\ deviceConnectionCounts = Off
  /\ sessions = Off /\ restarts = Off
UnitOff ==
  units = Off /\ documents = Off /\ renamers = Off /\ unsettled = Off
TaskOff ==
  /\ eligible = Off /\ creation = Off /\ files = Off /\ tasks = Off
  /\ notified = Off /\ managers = Off /\ disputed = Off

Init ==
  /\ part \in {"account", "commission", "chat", "reactions", "presence", "units", "task"}
  /\ IF part = "account" THEN Account!Init ELSE AccountOff
  /\ IF part = "commission" THEN Commission!Init ELSE CommissionOff
  /\ IF part = "chat" THEN Talk!Init ELSE TalkOff
  /\ IF part = "reactions" THEN Reaction!Init ELSE ReactionOff
  /\ IF part = "presence" THEN Online!Init ELSE OnlineOff
  /\ IF part = "units" THEN Unit!Init ELSE UnitOff
  /\ IF part = "task" THEN Task!Init ELSE TaskOff

Next ==
  /\ UNCHANGED part
  /\ IF part = "account" THEN Account!Next ELSE UNCHANGED accountVars
  /\ IF part = "commission" THEN Commission!Next ELSE UNCHANGED commissionVars
  /\ IF part = "chat" THEN Talk!Next ELSE UNCHANGED chatVars
  /\ IF part = "reactions" THEN Reaction!Next ELSE UNCHANGED reactionVars
  /\ IF part = "presence" THEN Online!Next ELSE UNCHANGED onlineVars
  /\ IF part = "units" THEN Unit!Next ELSE UNCHANGED unitVars
  /\ IF part = "task" THEN Task!Next ELSE UNCHANGED taskVars

Spec == Init /\ [][Next]_vars

-----------------------------------------------------------------------------
(* The properties of the parts; their comments are with their definitions. *)

\* Accounts!DeactivationStands: no save of a stale copy switches an account on.
DeactivationStands == [][part = "account" => Account!KeepsDeactivation]_vars

\* Accounts!WarehouseAccessIsBacked: the pages of the warehouse are open only to an
\* account whose structure keeps one.
WarehouseAccessIsBacked == part = "account" => Account!WarehouseAccessIsBacked

\* Commissions!BossIsNoMember: the boss is no member of the commission.
BossIsNoMember == part = "commission" => Commission!BossIsNoMember

\* Chat!UnreadIsShown: the summary counts what the list of messages shows.
UnreadIsShown == part = "chat" => Talk!UnreadIsShown

\* Reactions!ReactionsAreKept: nobody's toggle undoes another's.
ReactionsAreKept == [][part = "reactions" => Reaction!KeepsReactions]_vars

\* Presence!PresenceIsTrue: who is shown online is who has a connected socket.
PresenceIsTrue == part = "presence" => Online!PresenceIsTrue

\* MeasurementUnits!UnitsAreKnown: no document names a unit that is not there.
UnitsAreKnown == part = "units" => Unit!UnitsAreKnown

\* AssignedTask!TasksAreKept: a task has its files and its assignee, and once
\* completed it stays as it is.
TasksAreKept == [][part = "task" => Task!KeepsTasks]_vars

=============================================================================
