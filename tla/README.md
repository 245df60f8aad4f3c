# ZAXIRA backend: specifications

TLA+ specifications of the ZAXIRA backend (`src/`, a NestJS application over
MongoDB with Mongoose): how a purchase request travels from a draft to the
warehouse, how goods move between the stock, transfers, expenses and
stocktakes, what the pages and charts tell of it, and what stands beside it:
accounts, commissions, presence, chat, units and tasks. TLC checks the models
on small instances; TLAPS proves the main results for every instance.

    tlc -workers 2 -config MCApproval.cfg MCPurchaseRequest     # any run of PROJECT.json
    tlapm PurchaseRequestProofs.tla          # proofs; likewise RequestRacesProofs,
                                             # DraftSessionsProofs, WarehouseImportProofs,
                                             # RequestGoodsProofs, WarehouseProofs,
                                             # OfficeProofs and SumLemmas

## 1. The system

Paths are relative to `src/src/modules`. Every part is a Nest service over a
few collections. Two facts of the platform decide what can go wrong:

* **No transactions, no locks.** A handler loads documents, awaits other reads,
  and writes one document or one stock row at a time. Node runs one handler
  between two awaits, so handlers interleave at their awaits, and a stop of the
  process, or a refused write, leaves what was written before it.
* **What Mongoose checks.** `save()` sends the fields that differ from what was
  loaded. A save that sets a whole array also requires the version it loaded
  and fails with a `VersionError` otherwise; setting or pushing to an array
  increments the version. A save of plain fields does neither. Mongoose is not
  part of the repository: the models take this behaviour from how the services
  use it, and its operators are marked external in `PROJECT.json`.

| Part | State | Operations | What makes it correct |
|---|---|---|---|
| Purchase requests (`purchase-requests/`) | the request document: applicant's content, commission and its votes, boss and decision, item lines, batches, status, history | create, vote, boss decision, edit, two resubmissions, delete, purchase, give up, reject a purchase; every load repairs the status | approval needs the whole commission; nothing is bought unapproved; what was approved stays; votes are the voters'; outcomes of lines are final; pages offer what handlers accept, and work is listed |
| Draft sessions (same service, and the session documents service) | sessions, reserved codes, tokens, files on disk | open, open for an edit, prepare documents, submit, drop | documents carry the code and the token of their request; one session, one request; nothing submitted is lost |
| Dispatches and transfers (`warehouse-dispatches/`) | dispatches, transfers, inventory rows | send a purchased batch, transfer, receive, refuse, cancel; each writes the request's status | goods are neither lost nor created; statuses follow dispatches, and in the end catch up; inboxes tell the truth |
| Expenses and fixed assets (`warehouse/`) | inventory, expenses, assets | issue, delete, return, write off | the same for goods in use; an asset ends once |
| Stocktakes (`stocktakes/`) | stocktakes with their lines | start, count, complete, adjust, cancel | the stock becomes what was counted, corrections stay within the difference |
| History and charts (`warehouse/`, `dashboard/`) | none: computed from seven collections | read | they add up to the stock |
| Warehouse import, locations, prices (`warehouse/`) | import sessions, imports, locations, inventory rows with their codes | save, submit, delete a session; give a code, edit a row; close a location | rows are imported once; a code stays with its goods; what is closed is not missing |
| Users and permissions (`users/`, `structures/`) | accounts with their permissions and structure | create, update, deactivate, reactivate, remove, own profile | a deactivation stands; access to a warehouse is backed by a structure that keeps one |
| Sign-in, devices, session events (`auth/`) | attempts, locks, devices, daily events | login, logout, revoke | the lock; a login switches nobody on |
| Presence (`realtime/`) | connections per user, in memory | connect, disconnect, restart | a user is online while a socket is open, and goes offline after the last |
| Chat (`chat/`) | messages, reactions, read marks | send, react, mark read | unread counts are those of what one can read; reactions are their authors' |
| Tasks (`tasks/`) | tasks, their files and notifications | create for a structure, complete, cancel | who is told of a task has it; a task ends once |
| Notifications (`notifications/`) | notifications | written on events of the others | whoever must act is told |
| Measurement units (`measurement-units/`) | units, copied by name into other collections | create, rename, remove | every copy follows a renaming; no unit in use is removed |
| Commissions (`commissions/`) | members, boss, active or not | create, update, deactivate, reactivate | the boss is no member |
| Products, prices, media, health | reference data, files | create, update, delete, list | uniqueness of names |

How they interact: a request copies people and commissions by value when it is
created or edited; sessions become requests; dispatches read the request's
batches and write its status (`syncPurchaseRequestWarehouseStatus`); receipts,
transfers, expenses and stocktakes share the rows of `warehouse_inventory`; the
history and the charts read the documents all of these leave; a change of a
structure changes what its accounts may open. Events to browsers and
notifications go out after a save and feed nothing back.

The hard behaviours are listed with their lines as "hazards" in `PROJECT.json`:
overlapping handlers on copies of one document, stock that is changed before
the last refusal of a handler, retries of a submission, a status written by two
parts, pages and lists that compute a second time what handlers check, counters
kept across awaits, and long legal sequences of edits and reopenings.

## 2. Modules

| Module | What it is |
|---|---|
| `RequestDocument` | the request as a record, and what each handler does to one copy of it: its checks as `CanX(r, ..)`, the copy it saves as `X(r, ..)`, the repair on load as `Loaded` |
| `PurchaseRequest` | the handlers one after the other, with the dispatches of the request: one action per handler |
| `SignOff` | abstract: a panel signs, a decision, rework, withdrawal; what the request promises |
| `RequestRaces` | the same handlers overlapping: load, repair, save, second save, delete as steps of their own |
| `RequestGoods` | the goods of an approved request, piece by piece: lines split in two, batches, dispatches, receipts, and the sync of the status as steps of its own |
| `RequestViews` | extends `PurchaseRequest` by what people see: lists, buttons of a page, notifications, calendar, statistics |
| `DraftSessions` | sessions, codes, tokens, documents and their submission |
| `WarehouseImport` | the rows of a location: imports, codes, edits, closing, with and without unique indexes |
| `StockTransfer` | transfers, receipts, refusals and cancellations over stock rows |
| `Stocktake` | counting, completing, adjusting over stock rows, and the pages of the management |
| `WarehouseExpense` | expenses and fixed assets over stock rows, and their lists |
| `StockHistory` | the history of a good and the charts of warehouse and dashboard, beside the handlers whose documents they read |
| `DispatchInbox` | inbox, badge, calendar, notification and buttons of a dispatch, beside what its handlers accept |
| `Warehouse` | the five modules above side by side: `part` names the one that moves |
| `Presence` | sockets, devices and events of a user, in the steps between two awaits |
| `Accounts` | an account and its handlers with their copies; structures that gain or lose a warehouse; logins |
| `Commissions`, `Chat`, `Reactions`, `MeasurementUnits`, `AssignedTask` | one service each |
| `Office` | these seven side by side |
| `PurchaseRequestProofs` | theorems about `PurchaseRequest` and `RequestViews` |
| `RequestRacesProofs`, `DraftSessionsProofs`, `WarehouseImportProofs`, `RequestGoodsProofs` | theorems about the module of that name |
| `WarehouseProofs`, `OfficeProofs` | theorems about the parts that `Warehouse` and `Office` put together, and about the whole |
| `SumLemmas` | sums over finite sets: what changes one term, or two, and sums over days |
| `MC*` | the instances for TLC: symmetry, and constants that are records |

`PurchaseRequest` and `RequestRaces` are two schedules of one set of operators,
so what a handler does is written once. `Warehouse` and `Office` put together
parts that share no state with each other in the model (what one part does to
the rows of another is in each: the movements of `Stocktake`, the bounds of the
stock). A behaviour of them is therefore a behaviour of one part, while the
variables of the others have the value `Off`; that loses no interleaving and
keeps the number of states a sum. The assumptions on the constants of a part are
plain definitions, assumed together by `Warehouse` and `Office`.

In the modules with handlers in flight (`running`, or `handlers`, `writers`,
`togglers`, `managers`, `sync`) a variable maps each of a set of handlers to
what it holds between two awaits; an action whose name begins with `Begin` or
`Load` does the reads and checks, the others are the writes, in the order of
the code. A handler that the code refuses disappears with what it wrote so far.
`Crash` or `Stop` drops a handler anywhere.

Definitions under "A bug the runs must find" or "Bug form" are variants of the
definition beside them (a dropped check, a lost version, a wrong row); they are
not part of the model. They show that each property can fail: with the variant
in place its run reports the violation.

### Correspondence with the code

`PROJECT.json` maps each definition to its lines. The main points:

* A handler of `purchase-requests.service.ts` begins with `findByIdOrFail`,
  which repairs the status and the slots of the votes and saves the repair
  (`ensureLegacyFields`, `recomputeStatus`, `reconcileCommissionStatus`). So
  every action starts from `Stored(doc)` or `Loaded(doc)`, and `Reconcile` is
  the load of any handler that then only reads or is refused.
* `memberDecisions` is a function from users to `"NONE"` or a decision, where
  the code has an array in step with `commissionMembers`. The history is kept
  as far as properties read it: the last decision of each person and the last
  decision of the boss.
* In `RequestDocument` an item line is pending, unavailable, or carries the
  batch it was bought in, and a line that is bought in part is two lines from
  the start. `RequestGoods` has the array with its quantities instead: a partial
  purchase splices the rest in after the line (`SettledLine`), and dispatches have
  lines, known by the index of their item, with the quantities sent and settled
  (received or refused). `Legacy` and `NoBatch` are the two ways dispatches name
  goods without a batch.
* The sync after a dispatch was saved loads the request, then its dispatches,
  then saves: three steps in `RequestGoods` (two syncs may overlap), one in
  `PurchaseRequest`.
* `RequestViews` puts a query of a list (`PurchasingInbox`, `ApprovalInbox`,
  ..), a flag of `toPublic` (`OffersEdit`, ..) and the checks of the handler
  that is meant (`AcceptsEdit`, ..) side by side. Each is translated from its
  own code; none is defined by another. `DispatchInbox` does the same for a
  dispatch.
* Stock rows change by atomic `$inc`, with `$gte` in the filter of a deduction,
  and `bulkWrite` runs row by row: one row, one action. An ordered `bulkWrite`
  goes on after a row its filter does not match, and so do the models.
* In `StockHistory` handlers are whole and there is one good, one place and one
  document of each kind; each event of the history and each sum of a chart is
  taken from the query that computes it, with its dates.
* In `WarehouseImport` a row is found by its key, code, barcode, or name and
  characteristics, and the database may return any row that matches: the model
  chooses. Which unique indexes exist depends on the deployment (`autoIndex` is
  off in production, `app.module.ts:66`); `Deployments` has both cases. A write
  an index refuses ends the handler (`Fail`), or sends it back to look for the
  row. Goods leave by `Deduct`, which stands for expenses and transfers.
* In `StockTransfer`, `Stocktake`, `Commissions` and `Reactions` the version
  check is a flag of a handler in flight (`fresh`, `current`); in `RequestRaces`
  a handler whose save is bound to fail is dropped when it is overtaken. A save
  of `Accounts` writes the fields that differ from the copy (`Saved`).
* `Presence` keeps the maps of the gateway, and for each socket how far
  `handleConnection` and `handleDisconnect` have come. A restart empties the
  maps and closes every socket.
* Permissions appear where they decide a state change or a property (an
  administrator's edit, the boss, the commission, the pages of a warehouse).
  Wording, prices, files and searches are left out, as are checks of form (a
  comment that must not be empty).

## 3. Runs

Every run is in `PROJECT.json` with its properties. Nine pass; three are
expected to find a violation and check a sentence of the code's labels or
messages that what the code does contradicts.

**`MCApproval`** (`MCPurchaseRequest`): three users, two contents, one line,
one batch. Three people are the fewest with a commission of two and a boss, or
with a boss who moves to the commission; two contents tell an edit from none.
Checks what approval means, that votes and decisions agree with the history,
that a standing approval pins the request, and the refinement of `SignOff`.

**`MCProcurement`** (`MCRequestViews`): three users, two lines and one batch,
so that a request is bought in part, given up in part, and sent in part. Checks
the warehouse statuses, and on every state of the request what its page offers
(`PagesTellTheTruth`) and where it is listed (`WorkIsListed`). A person who
never sits on a commission, an applicant among the members and an administrator
are among those who look.

**`MCRaces`** (`MCRequestRaces`): every handler, two in flight at a time, each
between its read and its save. Two are enough for a lost update; a handler that
repairs, saves and saves again gives its rival three places to come in. Two
users are a commission and a boss that an edit may exchange. The
votes are `APPROVED` and `REJECTED`; a partial agreement, which counts as one of
the two for everything handlers check, is left to `MCApproval`.

**`MCGoods`** (`MCRequestGoods`): two goods, of two pieces and of one, so that
one line can be split, two batches, two dispatches, two handlers whose syncs may
overlap or stop. Checks that quantities add up, that a completed request is
delivered, and that a delivery is noticed.

**`MCWarehouse`** (`MCWarehouse`): two handlers in flight, one good of two
pieces, so that it is received and refused in part, three structures of which
one keeps no stock, two places, so that a general stocktake has to spread its
corrections and an expense takes from both, two days, stops, and the requests
that go wrong (a date that is none, a rejection that is refused, a line named
twice, a movement while goods are counted).

**`MCOffice`** (`MCOffice`): three persons (a commission of two and a boss),
two requests at once, two structures, two failed logins to a lock, two messages,
two units, three names for them and two places that carry one, so that a rename
is half done in between, a task for two assignees, and the sockets of
`MCPresence`, for what presence tells at every moment (`PresenceIsTrue`).

**`MCPresence`** (`MCPresence`): three sockets on two devices, closing at any
await, writes that fail, one restart. Three sockets are the fewest for one that
leaves while another of its device stays and a third comes. It is a run of its
own for the one property that needs fairness, `LeaverGoesOffline`.

**`MCDraft`** (`MCDraftSessions`): two sessions, edits of requests included,
two codes and two tokens, two handlers, stops.

**`MCImport`** (`MCWarehouseImport`): one location of at most two rows, two
names, two codes, one session, two handlers, two imports, one edit or deduction.
Lists have one item, or two that differ in name and code, so that an import can
stop, or be refused, half way. Two names and two codes are the fewest for a code
to meet the wrong goods. With and without the unique indexes.

History variables (`orderly`, `overlapped`, `concurrent`, `stopped`,
`unsettled`, `belated`, ..) remember whether handlers overlapped, or one
stopped, or something else interfered. They decide nothing; they let one run
state what holds always (stock is never negative, a dispatch never settles more
than was sent) and what holds until then (goods are conserved, codes match).

What the passing runs show together: the approval of a request is sound, also
when handlers overlap; its pages and lists agree with its handlers, with the
exceptions the properties name; stock never becomes negative, because each
deduction carries its condition; a document that is saved with an array is safe
from lost updates; presence recovers from failed writes. What fails is what
crosses documents, or is saved as plain fields, without a condition.

### Divergences

Three are runs of their own and are explained under "findings":
`MCRejectionStands`, `MCTransferLost`, `MCExpenseReturned`. The others below are
found the same way: put the property in place of those of the run named, with
the constants given. "Without" means without that conjunct or exception.
`Stocktake` has no configuration of its own: take `Goods = {g1}`,
`Places = {l1, l2}`, `TakeIds = {t1}`, `Procs = {p1, p2}`, `MaxStock = 2`,
`MaxRows = 1` and `Mishaps = {"move", "crash"}`.

| Property | Run | What the code says, and does |
|---|---|---|
| `EditableUntilApproved` | `MCApproval` | "until the boss approves the applicant may edit" (`purchase-requests.service.ts:1221`): after an administrator's edit took the approval back, a receipt sets `PURCHASING` from the dispatches alone and the applicant is locked out |
| `GoodsSentOnce` | `MCApproval` | "already sent to the warehouse" (`warehouse-dispatches.service.ts:958`): goods sent by batch are sent again without a batch |
| `DeliveredIsCompleted`; `DeliveryIsNoticed` without `settledLate` | `MCProcurement`; `MCGoods` | "received in the warehouse" (`purchase-request-status.enum.ts:23`): giving up the last open line after everything bought was received leaves `PURCHASED` |
| `DeliveryIsNoticed` without `overlapped` | `MCGoods` | the slower of two syncs writes the status it worked out before the other dispatch was received (`warehouse-dispatches.service.ts:875`) |
| `FullAgreementSurvives` | `MCRaces` | "an edit keeps full agreements" (`:582`): one that is saved between the two reads of `update` is lost |
| `DeletedOnlyInReview` | `MCRaces` | "only in review" (`:5321`): the delete goes by id, after the check of a copy |
| `OnlyPurchasingIsRejected` | `MCRaces` | "only while purchasing" (`:4473`): the save of plain fields compares no version |
| `NothingGained` | `MCTransferLost`, one good, one transfer, `Mishaps = {"refusal"}` or `{}` | a receipt refused at `:1717` has stored its goods; two receipts in flight both store theirs before one fails (`:1548`) |
| `CancelledWasNotReceived` | the same, `Mishaps = {}` | "not once received in part" (`:2010`): a cancellation compares no version |
| `RecordedIsApplied` without `~CutShort(p)` in `Next` | `Stocktake`, `Goods = {g1, g2}`, `MaxRows = 2`, `Procs = {p1}`, `Mishaps = {}` | a call refused at its second line has changed the stock for the first (`stocktake-line.schema.ts:26`) |
| `AdjustmentIsRelative` | `Stocktake` | "take out", "add" (`apply-excess-adjustments.dto.ts:16`): the row is set to a number as of the count |
| `CancelledLeavesStock` | `Stocktake`, `Mishaps = {}` | "already ended" (`stocktakes.service.ts:560`): cancelled while its completion runs |
| `OneActive` | `Stocktake`, `TakeIds = {t1, t2}` | "there is an active one" (`:432`): checked, then created |
| `NothingGained` | `MCExpenseReturned`, `Reasons = {"other"}`, two handlers | also by two deletions of one expense (`warehouse.service.ts:2528`) |
| `AssetEndIsFinal` without `orderly'` | `MCExpenseReturned`, two handlers | "only active assets" (`:2702`, `:2791`): returned and written off at once |
| `NothingLost` of `WarehouseExpense` without `orderly` | the same | "not enough stock" (`:2012`): the rows before the short one stay deducted |
| `ImportedOnce` without `orderly` | `MCImport` | "submitted" and deleted last (`warehouse-import.service.ts:855`): a second submission in flight, or a retry after a stop, imports the same rows again; and a location closed while goods come in keeps them out of the overview |
| an import renames no row that has a name | `MCImport` | "the code is already bound to `<name>`" (`:283`): the check looks at codes, the search also at barcodes, and an administrator may have typed a barcode that equals the code of other goods |
| `AtMostMaxSessions` | `MCDraft`, `MaxSessions = 1` | "at most 10 sessions" (`purchase-requests.service.ts:5383`): counted, then created |
| `OneRequestPerSession`, `CodeIsKept` (that is, `CodeMatchesDocuments`) without `orderly` | `MCDraft` | a submission retried after a stop makes a second request, whose documents bear the code of the first (`:6022`) |
| `DocumentsVerify` | `MCDraft` | "token to verify the applicant" (`purchase-request.schema.ts:146`): documents of an edit, or of two preparations at once, bear a token nothing stores |

Some more were met while the models were written. A property names each as an
exception, or leaves it aside; no run looks for them:

* Requests: an applicant on the own commission is never offered the vote that
  the handler accepts; who once took part is listed a request that
  `canAccessRequest` then refuses; `canResubmit` of a page is always false;
  batches left empty by an administrator's edit are listed and offered for
  dispatch, and refused; after a rejection by the buyers what was bought before
  is missing from the statistics until the next load; after an edit took the
  approval of a dispatched request back, the statistics do not count it.
* Items: indexes that history steps and `itemAmounts` keep point to other lines
  after a later split; updating the contract of the batch `legacy` renames the
  history step of the newest purchase.
* Transfers: opening one (`warehouse-dispatches.service.ts:428`) may rewrite its
  items, so that a receipt under way fails after its goods were stored; a user
  without a structure but with the plan of the warehouses is listed dispatches
  he cannot open; a sender whose account is inactive is offered a cancellation
  that is refused; a cancelled dispatch stays overdue in the calendar.
* Stocktakes: a count overwrites what was moved since; a completion that stops
  has applied some of its lines; a count of 0 is no shortage for one rule and an
  empty stock for another (`stocktakes.service.ts:121`).
* History and charts: no event tells of goods a receiver refused; deleting the
  expense of an active asset leaves a return without an expense; the history of
  a good lists receipts of the whole structure at each of its places; the charts
  ignore imports, cancellations, refusals, returns and stocktakes, and count a
  receipt on the day of its dispatch; the daily chart of the dashboard ignores
  transfers out, the monthly one expenses, transfers and all before its window
  ("only receipts increase stock", `dashboard.service.ts:336`).
* Accounts: failed logins at once read the same count; a removal that overlaps
  an activation leaves an active account with `deactivatedBy`; who moves to
  another structure himself, or whose structure loses its warehouse, keeps the
  permissions for warehouses; two updates of a commission at once can make the
  boss a member.
* Presence and chat: a socket that closes before its user is known stays counted
  until the next restart; a deactivated account keeps its open sockets; two
  connections may both record the day's `ONLINE` event; unread messages of a
  deactivated account vanish from the summary.
* Tasks: `completeTask` accepts a task that was cancelled; a cancellation that
  overlaps a completion leaves a cancelled task with a date of completion; files
  are stored before the assignees are checked.
* Units: rows of the stock, dispatches and stocktakes keep the old name and are
  not counted before a removal; any text is accepted as a unit.

### Bounds

`MaxStock`, `MaxCode`, `MaxToken`, `MaxRows`, `MaxEdits`, `MaxDay`,
`MaxDispatches`, `MaxSockets`, `MaxRestarts`, `MaxMessages`, `MaxChanges`,
`TransferIds` and `TakeIds` bound counters and numbers of documents; `Amount`
and `Requested` are the quantities at first. They are in the guards of the
actions that create or add. Because of them every model stops, so the runs say
`CHECK_DEADLOCK FALSE`; in the code no handler waits for another, so none can
deadlock. Symmetry is used for sets no definition tells apart, and in no run
with a liveness property.

The hazards are among few: two handlers, one document, one row or two. Larger
instances (three handlers, three lines) repeat the same conflicts pairwise, and
where a theorem exists it holds for all of them.

### Fairness

Two specifications state fairness, both for what the server does by itself:

* `RequestGoods`: `WF_vars(Sync(h))`. A sync that was started is resumed by the
  event loop when the database answers. `Stop` takes it away at any step all
  the same. So `DeliveryIsNoticed`: what was delivered is shown as received, in
  the end, unless syncs overlapped, one was cut short, or the last line was
  given up afterwards.
* `Presence`: `WF_vars(Advance(s))`, the same for `handleConnection` and
  `handleDisconnect`; no client is obliged to come, to stay or to leave. So
  `LeaverGoesOffline`.

Nothing else is fair: every other step is the request of some person, and
nobody is obliged to make one.

## 4. Proofs

Eight modules; every leaf is checked. Assumptions are those the models state:
`Lines` and `Contents` are not empty, goods, places and structures that are
summed over are finite sets (a request has finitely many lines), so are the
handlers of the import (there is at least one), `"NOBODY"` is not a user,
`"DIRECT"` and `"NOWHERE"` are not sessions, the tags `"PENDING"`,
`"UNAVAILABLE"`, `NO_BATCH`, `LEGACY` are no batches, the votes are the three
there are, whatever stands for "absent" is none of the values it is told from,
requests to change an account are such requests. Everything else is any set,
every bound any number.

**`PurchaseRequestProofs`**, by induction over the handlers. `TypeOK` and the
properties of `MCApproval` are not inductive as they stand: a load that found a
decided request in review would reopen it, and then it could be deleted or
voted on again. The strengthening is `Sound(doc)`, of which
`StatusFollowsDecision` is the new part: a decision of the boss takes the
request out of review. There is a lemma per operator of `RequestDocument` ("the
copy a handler saves is sound if the copy it loaded was"); `NextInv` puts them
together with `Earned`, which relates the warehouse statuses to the dispatches.
`Earned` is stronger than `WarehouseStatusIsEarned` because a sync reads the
dispatches of a request that may have been reopened. Its second half classifies
the steps: each is neutral, a vote, a decision, a rework or a removal
(`StepKinds`), and the kinds are described by what they do to votes, decision
and lines. From that follow the action properties and the refinement. Its third
part is about what people see. Pages and lists are computed from the stored
document, handlers check the loaded copy, so the proofs need what a load
changes (`LoadedInReview`) and, beside `Sound`, what no status alone tells
(`ViewInv`): the statuses from `PURCHASED` on are those of a request without a
pending line, also after edits and late syncs (`Fits`); every batch that was
bought is among the batches listed; who ever decided is a participant, although
resubmissions and dispatches save without writing participants (`DecidersListed`).

**`RequestRacesProofs`**, for any number of handlers. A handler in flight holds
the copy it saw and the copy it is about to save, so the invariant says of each
what its stage entitles it to (`JobOK`): both copies are `Good` (approved means
agreed), and a save that checks the version finds the document as it was seen in
what an approval rests on (`Core`: members, votes, decision, lines), while a
save that does not check it leaves that alone. A step of one handler either
moves the version, and then whoever checks it is dropped, or leaves `Core`
alone, and then nothing the others rely on has changed. The same induction
carries `CastInv` (what a copy holds was pushed, or is about to be) and
`FinalInv` (settled lines stay, or the whole request starts over).

**`WarehouseImportProofs`**, for any goods, codes, lists, edits, deployments and
number of handlers. One lemma per handler says that rows stay rows and what it
holds keeps its type (`RowsGrow`, `JobsOK`); rows are never removed, so an edit
in flight keeps its row (`EditKept`). `SubmittedIsRecorded` is not inductive:
the strengthening, `DroppedIsRecorded`, is that a handler about to drop its
session has recorded the import, and `NextSubmits` says what each handler does
to imports and sessions. The two properties that compare sums rest on `StockInv`:
the excess of the rows (with what is deducted and what edits added or removed)
over what is recorded, imports under way included, is never negative, because an
import adds to the rows before it records, and is 0 while one handler moves at a
time. What holds in order only rests on `OrderlyInv`: the handler that is alone
is `Fine`, that is, it closes a location that has become empty, imports what is
not yet imported, and gives a code under the one name the location has for it.

**`RequestGoodsProofs`**, for any goods, quantities, batches, dispatches and
handlers. `GoodsInv` has three parts beside the types. `TotalsOK`: the pieces of
each good in the list of lines are those asked for. A purchase replaces every
line by one or two (`FlattenSeq`, a fold that no prover unfolds, so the lemmas
speak of its prefixes, `Unfolds`) that weigh the same together, and hence so do
the lists. `DispatchesOK`: no two dispatches have the same tag, and one with
the tag of a batch carries exactly what was bought in that batch. A later split
moves the lines but gives no batch more (a batch in use is refused), so this
stays true although a dispatch names lines by an index that no longer fits.
`SyncsOK`: what a sync has read of the request is still so when it goes on,
and the status it is about to save is true: settled lines stay settled, batches
stay bought, dispatches stay and, once completed, are not touched. So two syncs
that overlap may write an older status, never one that tells too much, which is
`CompletedIsDelivered`. Nothing is sent twice because the dispatches of
different batches carry different lines.

**`DraftSessionsProofs`**, for any sessions and handlers. Nothing handed in
is lost because of whose a code and a token are. `findRequestCreatedFromSession`
trusts that a request it finds by either was made from its session; `OwnInv`
says why it may. A session that edits nothing, or a handler of it, *holds* its
code and its token; no two sessions hold the same (`CodesApart`, `TokensApart`),
and a request that has one came from the session that holds it. A step may move
a code from the session to its handler and back, or draw a new one (`MayHold`,
`MayBe`), and `OwnStep` shows once that such a step keeps the invariant; there
is then a lemma for each handler. Sessions that edit a request share its code on
purpose, so they are left out of `Holds..`, and never submit. For one request
per session, under the code it printed, `OrderlyInv` adds what is true while one
handler moves at a time: a session that made a request is gone or about to be
(`MadeIsSent`), so the reserved code of an open session is free (`CodeIsFree`)
and what it printed bears that code (`PrintedOK`).

**`WarehouseProofs`**, for any structures, places, goods, documents, quantities
and days. Each part has its invariant, and `Warehouse` is the part that moves.

* *Transfers.* What a handler holds of a dispatch is what is stored for as long
  as its version is (`StoringOK`, `ReturningOK`), so a receipt is never undone
  (`ReceiptsAreKept`). `Conserved` is a sum over stock rows and dispatches that
  changes by what one row and one dispatch change by (`SumLemmas`); while one
  handler is under way the sum is short by what it holds, and the strengthening
  says by how much at each of its stages.
* *Stocktakes.* A call that adjusts several lines is between the stock it has
  written and the lines it has not saved: the invariant has the difference.
* *Expenses.* The same for rows taken and the expense not yet written; the end
  of an asset rests on the copy a handler has of it while it is alone.
* *History.* `HistoryAddsUp` is proved for what the events of each kind of
  document add up to, document by document; `ChartsShowTheStock` by induction
  over the days of the chart, from what each day's movements sum up to.
* *Inbox.* `InboxIsTrue` from the status of a dispatch, which the handlers keep
  in step with its quantities.

All of this, and the goods of a request, need sums, and a sum over a finite set
is a fold that no prover unfolds; nor can the library's induction theorems be
used, which take an operator. **`SumLemmas`** goes around both:
`SumFunctionOnSet` is a `CHOOSE` of a function over the subsets of a set, and
that there is one, and that the order does not matter, is shown on a smallest
subset for which it fails (`MinimalSubset`, from the well-foundedness of strict
inclusion). `SeqSum` adds up what the elements of a sequence weigh, and
`SeqSumAppend` is what a sequence gains by one element more.

**`OfficeProofs`**, part by part. `Alone`: unless two updates of accounts were
under way at once, the one that is works on what is stored; `CopiesAreCurrent`:
a copy of a commission or a message that may still be stored is the list that is
stored; `CreationInv`: what the creation of tasks has done by each of its steps.
`UnitsInv`: a name in a document is that of a unit or a rename has yet to reach
the document (`StillOld`), and a removal has found no use of the name where it
has looked (`ChangeOK`). `TalkInv`: who writes in a conversation of two is one of
the two; with it the three parts of the summary are the unread messages by type
of room, so they are disjoint, and message by message the ones the list shows
(`SummaryShows`). Presence is proved for any number of sockets, devices and
restarts: the maps of the gateway count a socket from one await of
`handleConnection` to one of `handleDisconnect`. `SocketsOK` says where a socket
can stand with the two handlers, and `CountsAdd` that each count is the number of
sockets that hold the user, or the device, at these stages (`Holding`,
`HoldingDevice`); every step adds or takes one holder together with its count
(`OneMore`, `OneLess`), or leaves both. A step of `Office` is a step of the part
that moves (`PartsMove`).

| Module | Theorem | Property |
|---|---|---|
| `PurchaseRequestProofs` | `TypeCorrect` | `TypeOK` |
| | `ApprovalNeedsCommission` | `ApprovedByWholeCommission` |
| | `ProcurementNeedsApproval` | `ProcurementIsApproved` |
| | `RecordBacks` | `RecordBacksTheRequest` |
| | `WarehouseStatusEarned` | `WarehouseStatusIsEarned` |
| | `DispatchedNeverDeleted` | `DispatchedIsKept` |
| | `ApprovalPinned` | `ApprovalPinsTheRequest` |
| | `AgreementSurvives` | `FullAgreementSurvives` |
| | `OutcomeFinal` | `LineOutcomeIsFinal` |
| | `Implementation` | `ImplementsSignOff` |
| | `PagesAreTrue` | `PagesTellTheTruth` |
| | `WorkIsInSight` | `WorkIsListed` |
| `RequestRacesProofs` | `RacesTypeCorrect` | `TypeOK` |
| | `ApprovalSurvivesRaces` | `ApprovedByWholeCommission` |
| | `VotesCast` | `VotesWereCast` |
| | `OutcomeSurvivesRaces` | `LineOutcomeIsFinal` |
| `WarehouseImportProofs` | `TypeCorrect` | `TypeOK` |
| | `SubmittedRecorded` | `SubmittedIsRecorded` |
| | `RecordedStocked` | `RecordedIsStocked` |
| | `ImportsOnceInOrder` | `ImportedOnce` |
| | `CodeKeepsName` | `CodeKeepsItsName` |
| `DraftSessionsProofs` | `NothingHandedInIsLost` | `SentIsSubmitted` |
| | `OneRequestFromEach` | `OneRequestPerSession` |
| | `ReservedCodeIsKept` | `CodeIsKept` |
| `RequestGoodsProofs` | `GoodsAccounted` | `GoodsAreAccountedFor` |
| | `CompletedDelivered` | `CompletedIsDelivered` |
| `WarehouseProofs` | `StockIsNeverNegative` | `TypeOK` |
| | `GoodsAreConserved` | `Conserved` |
| | `ReceiptsKept` | `ReceiptsAreKept` |
| | `CorrectionsReachTheStock` | `RecordedIsApplied` |
| | `ExpensesLoseNothing` | `NothingLost` |
| | `AssetEndKept` | `AssetEndIsFinal` |
| | `HistoryIsComplete` | `HistoryAddsUp` |
| | `ChartsAreTrue` | `ChartsShowTheStock` |
| | `InboxHolds` | `InboxIsTrue` |
| `OfficeProofs` | `AccessBacked` | `WarehouseAccessIsBacked` |
| | `DeactivationKept` | `DeactivationStands` |
| | `BossStaysApart` | `BossIsNoMember` |
| | `ReactionsKept` | `ReactionsAreKept` |
| | `TasksKept` | `TasksAreKept` |
| | `UnitsKnown` | `UnitsAreKnown` |
| | `UnreadShown` | `UnreadIsShown` |
| | `PresenceHolds` | `PresenceIsTrue` |

Every invariant and every action property of a passing run is proved, so only
liveness is model-checked alone (`DeliveryIsNoticed`, `LeaverGoesOffline`): that
is out of the prover's reach, as is what a recursive definition computes for
every input. The sums and flattened lists of this project are no such
definition, thanks to `SumLemmas` and the lemmas on prefixes. Three findings are
counterexamples of TLC, and the divergences of section 3 were found the same way.

## 5. What is not modelled

The components with status "partly" name what is left out of each; in short:

* Amounts of money, files, texts, searches, pages of lists, and the layout of
  documents: nothing a property here could be about depends on them.
* Comments and attached files of a request, prices and details of a purchase,
  and the indexes that refer to lines.
* The automatic acceptance of old dispatches, and edits of the comment of an
  expense.
* The creation of import sessions and its limit of ten, lists, and the code
  that listing the stock fills in from dispatches
  (`syncLocationInventoryNomenclature`).
* Passwords, second codes, tokens and the comparison of device data; read marks
  of notifications; replies and attachments of the chat.
* Word, PDF and the online editor (layout and calls to other services),
  products and price lists (records no other part depends on), media and health
  (input and output), guards, pipes and start-up (wiring of the framework).

Stock rows that a transfer, a stocktake and an expense change at once are
modelled pairwise through the movements and bounds of each, not by one model
with all three.

## 6. Plan

Done: requests alone, overlapping, by the piece and as they are seen; drafts,
imports, transfers, stocktakes, expenses, history, dispatches; presence,
accounts, commissions, chat, units and tasks; the proofs of section 4. What
would come next:

1. One model of the rows of a structure with transfers, stocktakes and expenses
   under way at once.
2. Prices of received goods, and the codes filled in from dispatches.
3. The list of lines with the indexes that refer to it, and what a later split
   does to them.
