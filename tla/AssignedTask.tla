---------------------------- MODULE AssignedTask ----------------------------
(***************************************************************************)
(* One group of tasks (tasks/tasks.service.ts): what somebody asks several *)
(* users of a structure to do, with files, and the managers who complete   *)
(* and cancel the task of each.  createAssignments stores files, tasks and *)
(* notifications one after the other, without a transaction; a change of a *)
(* task saves plain fields of a copy, only those that differ from what was *)
(* loaded.                                                                 *)
(***************************************************************************)
EXTENDS Integers, FiniteSets

CONSTANTS
  Assignee,      \* users of the structure
  Manager,       \* requests to complete or cancel a task under way at once
  NoTask

VARIABLES
  eligible,      \* assignees who are active and belong to the structure
  creation,      \* how far createAssignments is
  files,         \* the files of the group are on disk
  tasks,         \* assignee -> his task
  notified,      \* assignees with a notification of the task
  managers,      \* requests under way, with the copy each loaded
  overlapped     \* history: assignees whose task two requests changed at once

vars == <<eligible, creation, files, tasks, notified, managers, overlapped>>

Task ==
  [status : {"PENDING", "COMPLETED", "CANCELLED"}, completedAt : BOOLEAN]

\* Assumed where the constants get their values (Office).
NoTaskAssumption == NoTask \notin Task

Created == [status |-> "PENDING", completedAt |-> FALSE]

Idle == [op |-> "idle"]

Change == [op : {"complete", "cancel"}, of : Assignee, copy : Task]

TypeOK ==
  /\ eligible \subseteq Assignee
  /\ \/ creation = Idle
     \/ creation \in [op : {"files", "check", "insert", "notify", "end"},
                      assignees : SUBSET Assignee]
  /\ files \in BOOLEAN
  /\ tasks \in [Assignee -> Task \cup {NoTask}]
  /\ notified \subseteq Assignee
  /\ managers \in [Manager -> Change \cup {Idle}]
  /\ overlapped \subseteq Assignee

Init ==
  /\ eligible \in SUBSET Assignee
  /\ creation = Idle
  /\ files = FALSE
  /\ tasks = [a \in Assignee |-> NoTask]
  /\ notified = {}
  /\ managers = [m \in Manager |-> Idle]
  /\ overlapped = {}

-----------------------------------------------------------------------------
(* createAssignments *)

At(step) == creation.op = step
GoTo(step) == creation' = [creation EXCEPT !.op = step]

BeginCreate(assignees) ==
  /\ creation = Idle
  /\ assignees # {}
  /\ creation' = [op |-> "files", assignees |-> assignees]
  /\ UNCHANGED <<eligible, files, tasks, notified, managers, overlapped>>

\* The files are stored before anybody looks at the assignees.
SaveUploadedFiles ==
  /\ At("files")
  /\ files' = TRUE
  /\ GoTo("check")
  /\ UNCHANGED <<eligible, tasks, notified, managers, overlapped>>

\* buildAssigneeSnapshot: an account that is inactive, or of another structure,
\* ends the request for all; the files stay.
BuildAssigneeSnapshots ==
  /\ At("check")
  /\ GoTo(IF creation.assignees \subseteq eligible THEN "insert" ELSE "end")
  /\ UNCHANGED <<eligible, files, tasks, notified, managers, overlapped>>

InsertTasks ==
  /\ At("insert")
  /\ tasks' = [a \in Assignee |->
                 IF a \in creation.assignees THEN Created ELSE tasks[a]]
  /\ GoTo("notify")
  /\ UNCHANGED <<eligible, files, notified, managers, overlapped>>

Notify ==
  /\ At("notify")
  /\ notified' = notified \cup creation.assignees
  /\ GoTo("end")
  /\ UNCHANGED <<eligible, files, tasks, managers, overlapped>>

\* The process stops between two steps.
StopCreate ==
  /\ creation.op \notin {"idle", "end"}
  /\ GoTo("end")
  /\ UNCHANGED <<eligible, files, tasks, notified, managers, overlapped>>

ChangeAccount(a) ==
  /\ eligible' = IF a \in eligible THEN eligible \ {a} ELSE eligible \cup {a}
  /\ UNCHANGED <<creation, files, tasks, notified, managers, overlapped>>

-----------------------------------------------------------------------------
(* completeTask and cancelTask *)

\* Bug form: a task that is completed can be cancelled.
MayChangeAny(op, task) ==
  IF op = "complete" THEN task.status # "COMPLETED" ELSE task.status # "CANCELLED"

\* A task that already is what it should become is answered as it is; one that is
\* completed is not cancelled, one that is cancelled may be completed.
MayChange(op, task) ==
  IF op = "complete" THEN task.status # "COMPLETED" ELSE task.status = "PENDING"

LoadTask(m, op, a) ==
  /\ managers[m] = Idle
  /\ tasks[a] # NoTask
  /\ MayChange(op, tasks[a])
  /\ managers' = [managers EXCEPT ![m] = [op |-> op, of |-> a, copy |-> tasks[a]]]
  /\ overlapped' = overlapped \cup
       {b \in {a} : \E n \in Manager : managers[n] # Idle /\ managers[n].of = b}
  /\ UNCHANGED <<eligible, creation, files, tasks, notified>>

Changed(op) ==
  IF op = "complete"
    THEN [status |-> "COMPLETED", completedAt |-> TRUE]
    ELSE [status |-> "CANCELLED", completedAt |-> FALSE]

\* Only the fields that differ from the copy are written.
SaveTask(m) ==
  /\ managers[m] # Idle
  /\ LET copy == managers[m].copy
         next == Changed(managers[m].op)
     IN  tasks' = [tasks EXCEPT ![managers[m].of] =
           [f \in DOMAIN @ |-> IF next[f] # copy[f] THEN next[f] ELSE @[f]]]
  /\ managers' = [managers EXCEPT ![m] = Idle]
  /\ UNCHANGED <<eligible, creation, files, notified, overlapped>>

-----------------------------------------------------------------------------
Next ==
  \/ \E assignees \in SUBSET Assignee : BeginCreate(assignees)
  \/ SaveUploadedFiles
  \/ BuildAssigneeSnapshots
  \/ InsertTasks
  \/ Notify
  \/ StopCreate
  \/ \E a \in Assignee :
       \/ ChangeAccount(a)
       \/ \E m \in Manager, op \in {"complete", "cancel"} : LoadTask(m, op, a)
  \/ \E m \in Manager : SaveTask(m)

Spec == Init /\ [][Next]_vars

-----------------------------------------------------------------------------
(* Properties *)

\* Whoever is told of a task has it, and the files a task names are stored,
\* wherever the creation stopped.
TasksAreWhole ==
  /\ \A a \in notified : tasks[a] # NoTask
  /\ (\E a \in Assignee : tasks[a] # NoTask) => files

\* What a step may do to tasks.
KeepsTasks ==
  /\ TasksAreWhole'
  /\ \A a \in Assignee :
       /\ tasks[a] # NoTask
       /\ tasks[a].status = "COMPLETED"
       /\ a \notin overlapped
       => tasks'[a] = tasks[a]

\* A task is whole from the moment somebody is told of it, and once completed it
\* stays completed and keeps its date, unless two requests changed it at once.
TasksAreKept == [][KeepsTasks]_vars

=============================================================================
