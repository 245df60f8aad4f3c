--------------------------- MODULE WarehouseProofs ---------------------------
(***************************************************************************)
(* Theorems about the parts of Warehouse, for any structures, places,      *)
(* goods, documents and number of handlers: the invariant of each part     *)
(* first, then what they give for Warehouse, where one part moves and the  *)
(* others are switched off.                                                *)
(***************************************************************************)
EXTENDS Warehouse, SumLemmas

-----------------------------------------------------------------------------
(* StockTransfer.                                                          *)

LEMMA TransferAssumed == Transfer!TransferAssumption
BY WarehouseAssumption DEF WarehouseAssumption

\* The sums, the finiteness and the sizes of an instance are those of the lemmas.
LEMMA TransferSum ==
  ASSUME NEW f
  PROVE  Transfer!SumFunction(f) = SumFunctionOnSet(f, DOMAIN f)
BY DEF Transfer!SumFunction, Transfer!SumFunctionOnSet, Transfer!FoldFunctionOnSet,
       Transfer!MapThenFoldSet, SumFunctionOnSet, FoldFunctionOnSet, MapThenFoldSet

LEMMA TransferSizes ==
  ASSUME NEW S
  PROVE  /\ Transfer!IsFiniteSet(S) <=> IsFiniteSet(S)
         /\ Transfer!Cardinality(S) = Cardinality(S)
BY DEF Transfer!IsFiniteSet, IsFiniteSet, Transfer!Cardinality, Cardinality

\* The quantities of a dispatch do not exceed what was sent.
Bounded(t) == \A g \in Goods : t.received[g] + t.rejected[g] <= t.sent[g]

\* u settles at least what t does, of the same goods.
TransferSettles(u, t) ==
  /\ u.source = t.source /\ u.target = t.target /\ u.sent = t.sent
  /\ \A g \in Goods : u.received[g] >= t.received[g] /\ u.rejected[g] >= t.rejected[g]

SameItems(t, u) ==
  /\ t.source = u.source /\ t.target = u.target
  /\ t.sent = u.sent /\ t.received = u.received /\ t.rejected = u.rejected

\* What a handler holds of a dispatch is bounded, and it is what is stored as
\* long as nothing moved the version.
StoringOK(job) ==
  /\ transfers[job.id] # Transfer!NoTransfer
  /\ Bounded(job.seen)
  /\ \A g \in Goods : job.take[g] + job.refuse[g] <= Transfer!Pending(job.seen, g)
  /\ job.fresh => SameItems(job.seen, transfers[job.id])

ReturningOK(job) ==
  /\ transfers[job.id] # Transfer!NoTransfer
  /\ ~job.cancels => /\ Bounded(job.next)
                     /\ TransferSettles(job.next, job.seen)
                     /\ job.fresh => SameItems(job.seen, transfers[job.id])

TransfersOK == \A id \in TransferIds : transfers[id] # Transfer!NoTransfer => Bounded(transfers[id])

JobsOK ==
  \A p \in Procs :
    /\ senders[p].stage = "store" => StoringOK(senders[p])
    /\ senders[p].stage = "return" => ReturningOK(senders[p])

TransferInv == Transfer!TypeOK /\ TransfersOK /\ JobsOK

\* How far a handler has moved the account of g off its balance.
TransferShift(job, g) ==
  CASE job.stage = "deduct" -> IF g \in job.done THEN - job.ask[g] ELSE 0
    [] job.stage = "store" ->
         IF job.seen.target \in Located /\ g \notin job.todo THEN job.take[g] ELSE 0
    [] job.stage = "return" ->
         (IF ~job.cancels /\ job.seen.target \in Located
            THEN job.next.received[g] - job.seen.received[g] ELSE 0)
         + (IF g \in job.todo THEN 0 ELSE job.back[g])
    [] OTHER -> 0

\* What a handler that was never overlapped holds.
TransferAloneOK(job) ==
  /\ job.stage = "deduct" => job.todo \cap job.done = {}
  /\ job.stage \in {"store", "return"} =>
       /\ job.fresh
       /\ job.seen = transfers[job.id]
       /\ job.seen.status # "CANCELLED"
  /\ job.stage = "store" =>
       /\ ~Transfer!Flawed(job)
       /\ job.seen.target \notin Located => job.todo = {}
  /\ job.stage = "return" =>
       /\ \A g \in Goods :
            job.back[g] = IF job.cancels THEN Transfer!Pending(job.seen, g)
                          ELSE job.next.rejected[g] - job.seen.rejected[g]
       /\ ~job.cancels => job.next.status # "CANCELLED"

TransferLone(p) == \A q \in Procs \ {p} : senders[q] = Transfer!Idle

OrderlyInv ==
  sendersOrderly =>
    /\ \A p \in Procs : senders[p] = Transfer!Idle \/ TransferLone(p)
    /\ \A p \in Procs : TransferAloneOK(senders[p])
    /\ Transfer!Quiet => \A g \in Goods : Transfer!Accounted(g) = Transfer!Total
    /\ \A p \in Procs : TransferLone(p) => \A g \in Goods : Transfer!Accounted(g) = Transfer!Total + TransferShift(senders[p], g)

-----------------------------------------------------------------------------
LEMMA TransferJobKinds ==
  ASSUME NEW job \in Transfer!Job
  PROVE  /\ job.stage \in {"idle", "deduct", "store", "return"}
         /\ job.stage = "idle" <=> job = Transfer!Idle
         /\ job.stage = "deduct" => job \in Transfer!Deducting
         /\ job.stage = "store" => job \in Transfer!Storing
         /\ job.stage = "return" => job \in Transfer!Returning
BY DEF Transfer!Job, Transfer!Idle, Transfer!Deducting, Transfer!Storing, Transfer!Returning

LEMMA NoTransferApart == Transfer!NoTransfer \notin Transfer!Transfer /\ Transfer!NoTransfer.status = "NONE"
BY DEF Transfer!NoTransfer, Transfer!Transfer

LEMMA TransferJobOf ==
  ASSUME Transfer!TypeOK, NEW p \in Procs
  PROVE  senders[p] \in Transfer!Job
BY DEF Transfer!TypeOK

LEMMA TransferOf ==
  ASSUME Transfer!TypeOK, NEW id \in TransferIds, transfers[id] # Transfer!NoTransfer
  PROVE  /\ transfers[id] \in Transfer!Transfer
         /\ transfers[id].sent \in [Goods -> Nat]
         /\ transfers[id].received \in [Goods -> Nat]
         /\ transfers[id].rejected \in [Goods -> Nat]
BY DEF Transfer!TypeOK, Transfer!Transfer, Transfer!Quantity

\* A handler p moves and the items of no dispatch change: the others still hold
\* what they held.
LEMMA OthersHold ==
  ASSUME TransferInv, NEW p \in Procs, Transfer!TypeOK',
         \A q \in Procs : q # p => senders'[q] = senders[q],
         \A id \in TransferIds : transfers[id] # Transfer!NoTransfer =>
           transfers'[id] # Transfer!NoTransfer /\ SameItems(transfers[id], transfers'[id]),
         senders'[p].stage = "store" => StoringOK(senders[p])',
         senders'[p].stage = "return" => ReturningOK(senders[p])'
  PROVE  JobsOK'
<1> SUFFICES ASSUME NEW q \in Procs, q # p
             PROVE  /\ senders'[q].stage = "store" => StoringOK(senders[q])'
                    /\ senders'[q].stage = "return" => ReturningOK(senders[q])'
  BY DEF JobsOK
<1>1. senders'[q] = senders[q] /\ senders[q] \in Transfer!Job
  BY TransferJobOf DEF TransferInv
<1>2. ASSUME senders[q].stage = "store"  PROVE StoringOK(senders[q])'
  <2>1. senders[q].id \in TransferIds
    BY <1>1, <1>2, TransferJobKinds DEF Transfer!Storing
  <2>2. StoringOK(senders[q])
    BY <1>2 DEF TransferInv, JobsOK
  <2> QED
    BY <1>1, <2>1, <2>2 DEF StoringOK, SameItems, Bounded, Transfer!Pending
<1>3. ASSUME senders[q].stage = "return"  PROVE ReturningOK(senders[q])'
  <2>1. senders[q].id \in TransferIds
    BY <1>1, <1>3, TransferJobKinds DEF Transfer!Returning
  <2>2. ReturningOK(senders[q])
    BY <1>3 DEF TransferInv, JobsOK
  <2> QED
    BY <1>1, <2>1, <2>2 DEF ReturningOK, SameItems, Bounded, TransferSettles
<1> QED
  BY <1>1, <1>2, <1>3

\* A step of p that changes no dispatch.
LEMMA DispatchesStay ==
  ASSUME TransferInv, NEW p \in Procs, UNCHANGED transfers,
         transferStock' \in [Structures -> [Goods -> Nat]], sendersOrderly' \in BOOLEAN,
         NEW job \in Transfer!Job, senders' = [senders EXCEPT ![p] = job],
         job.stage = "store" => StoringOK(job),
         job.stage = "return" => ReturningOK(job)
  PROVE  TransferInv'
<1>1. Transfer!TypeOK'
  BY DEF TransferInv, Transfer!TypeOK
<1>2. senders'[p] = job /\ \A q \in Procs : q # p => senders'[q] = senders[q]
  BY DEF TransferInv, Transfer!TypeOK
<1>3. StoringOK(job) <=> StoringOK(job)'
  BY DEF StoringOK, SameItems, Bounded, Transfer!Pending
<1>4. ReturningOK(job) <=> ReturningOK(job)'
  BY DEF ReturningOK, SameItems, Bounded, TransferSettles
<1>5. JobsOK'
  BY <1>1, <1>2, <1>3, <1>4, OthersHold DEF SameItems, StoringOK, ReturningOK
<1>6. TransfersOK'
  BY DEF TransferInv, TransfersOK, Bounded
<1> QED
  BY <1>1, <1>5, <1>6 DEF TransferInv

\* What a handler holds while it works off its list of goods.
LEMMA TodoShrinks ==
  ASSUME TransferInv, NEW p \in Procs, senders[p] # Transfer!Idle, NEW g \in Goods,
         NEW D \in SUBSET Goods
  PROVE  LET j == [senders[p] EXCEPT !.todo = @ \ {g}]
             k == [senders[p] EXCEPT !.todo = @ \ {g}, !.done = D]
         IN  /\ j \in Transfer!Job /\ j.stage = senders[p].stage
             /\ j.stage = "store" => StoringOK(j)
             /\ j.stage = "return" => ReturningOK(j)
             /\ senders[p].stage = "deduct" => k \in Transfer!Job /\ k.stage = "deduct"
<1>1. senders[p] \in Transfer!Deducting \cup Transfer!Storing \cup Transfer!Returning
  BY TransferJobOf DEF TransferInv, Transfer!Job
<1>2. CASE senders[p] \in Transfer!Deducting
  BY <1>2 DEF Transfer!Deducting, Transfer!Job
<1>3. CASE senders[p] \in Transfer!Storing
  <2>1. StoringOK(senders[p])
    BY <1>3 DEF TransferInv, JobsOK, Transfer!Storing
  <2> QED
    BY <1>3, <2>1 DEF Transfer!Storing, Transfer!Job, StoringOK, Bounded, Transfer!Pending,
                      SameItems
<1>4. CASE senders[p] \in Transfer!Returning
  <2>1. ReturningOK(senders[p])
    BY <1>4 DEF TransferInv, JobsOK, Transfer!Returning
  <2> QED
    BY <1>4, <2>1 DEF Transfer!Returning, Transfer!Job, ReturningOK, Bounded, TransferSettles,
                      SameItems
<1> QED
  BY <1>1, <1>2, <1>3, <1>4

LEMMA IdleIsFine == Transfer!Idle \in Transfer!Job /\ Transfer!Idle.stage = "idle"
BY DEF Transfer!Job, Transfer!Idle

LEMMA BeginTransferKeeps ==
  ASSUME TransferInv, NEW p \in Procs, NEW source \in Structures, NEW target \in Structures,
         NEW ask \in [Goods -> 0..Amount], Transfer!BeginTransfer(p, source, target, ask),
         sendersOrderly' \in BOOLEAN
  PROVE  TransferInv'
<1> DEFINE job == [ stage |-> "deduct", source |-> source, target |-> target, ask |-> ask,
                    todo |-> {g \in Goods : ask[g] > 0}, done |-> {} ]
<1>1. job \in Transfer!Job /\ job.stage = "deduct"
  BY TransferAssumed DEF Transfer!Job, Transfer!Deducting, Transfer!Quantity,
                         Transfer!TransferAssumption
<1>2. senders' = [senders EXCEPT ![p] = job] /\ UNCHANGED <<transferStock, transfers>>
  BY DEF Transfer!BeginTransfer
<1> HIDE DEF job
<1> QED
  BY <1>1, <1>2, DispatchesStay DEF TransferInv, Transfer!TypeOK

LEMMA TransferDeductKeeps ==
  ASSUME TransferInv, NEW p \in Procs, NEW g \in Goods, Transfer!Deduct(p, g),
         sendersOrderly' \in BOOLEAN
  PROVE  TransferInv'
<1> DEFINE job == senders[p]
           enough == transferStock[job.source][g] >= job.ask[g]
           D == IF enough THEN job.done \cup {g} ELSE job.done
           next == [job EXCEPT !.todo = @ \ {g}, !.done = D]
<1>1. job \in Transfer!Deducting
  BY TransferJobOf, TransferJobKinds DEF Transfer!Deduct, TransferInv
<1>2. next \in Transfer!Job /\ next.stage = "deduct"
  BY <1>1 DEF Transfer!Deducting, Transfer!Job
<1>3. transferStock' \in [Structures -> [Goods -> Nat]]
  <2>1. job.source \in Structures /\ job.ask[g] \in Nat /\ transferStock[job.source][g] \in Nat
    BY <1>1 DEF Transfer!Deducting, Transfer!Quantity, TransferInv, Transfer!TypeOK
  <2>2. enough => transferStock[job.source][g] - job.ask[g] \in Nat
    BY <2>1
  <2> QED
    BY <2>1, <2>2 DEF Transfer!Deduct, TransferInv, Transfer!TypeOK
<1>4. senders' = [senders EXCEPT ![p] = next] /\ UNCHANGED transfers
  BY <1>1 DEF Transfer!Deduct, TransferInv, Transfer!TypeOK, Transfer!Deducting
<1> HIDE DEF next
<1> QED
  BY <1>2, <1>3, <1>4, DispatchesStay

LEMMA CreateKeeps ==
  ASSUME TransferInv, NEW p \in Procs, NEW id \in TransferIds, Transfer!CreateDispatch(p, id),
         sendersOrderly' \in BOOLEAN
  PROVE  TransferInv'
<1> DEFINE t == [ source |-> senders[p].source, target |-> senders[p].target,
                  sent |-> senders[p].ask, received |-> Transfer!Nothing, rejected |-> Transfer!Nothing,
                  status |-> "PENDING_RECEIPT" ]
<1>1. senders[p] \in Transfer!Deducting
  BY TransferJobOf, TransferJobKinds DEF Transfer!CreateDispatch, TransferInv
<1>2. t \in Transfer!Transfer /\ Bounded(t)
  BY <1>1 DEF Transfer!Deducting, Transfer!Transfer, Transfer!Quantity, Transfer!Nothing, Bounded
<1>3. /\ transfers' = [transfers EXCEPT ![id] = t] /\ transfers[id] = Transfer!NoTransfer
      /\ senders' = [senders EXCEPT ![p] = Transfer!Idle] /\ UNCHANGED transferStock
  BY DEF Transfer!CreateDispatch
<1> HIDE DEF t
<1>4. Transfer!TypeOK'
  BY <1>2, <1>3, IdleIsFine DEF TransferInv, Transfer!TypeOK
<1>5. TransfersOK'
  BY <1>2, <1>3 DEF TransferInv, TransfersOK, Transfer!TypeOK, Bounded
<1>6. \A i \in TransferIds : transfers[i] # Transfer!NoTransfer =>
        transfers'[i] # Transfer!NoTransfer /\ SameItems(transfers[i], transfers'[i])
  BY <1>3 DEF TransferInv, Transfer!TypeOK, SameItems
<1>7. senders'[p].stage = "idle" /\ \A q \in Procs : q # p => senders'[q] = senders[q]
  BY <1>3, IdleIsFine DEF TransferInv, Transfer!TypeOK
<1>8. JobsOK'
  BY <1>4, <1>6, <1>7, OthersHold
<1> QED
  BY <1>4, <1>5, <1>8 DEF TransferInv

LEMMA BeginReceiveKeeps ==
  ASSUME TransferInv, NEW p \in Procs, NEW id \in TransferIds,
         NEW take \in [Goods -> 0..Amount], NEW put \in [Goods -> 0..Amount],
         NEW refuse \in [Goods -> 0..Amount], NEW refusable \in BOOLEAN,
         Transfer!BeginReceive(p, id, take, put, refuse, refusable), sendersOrderly' \in BOOLEAN
  PROVE  TransferInv'
<1> DEFINE t == transfers[id]
           job == [ stage |-> "store", id |-> id, seen |-> t, take |-> take, put |-> put,
                    refuse |-> refuse, refusable |-> refusable, fresh |-> TRUE,
                    todo |-> IF t.target \in Located THEN {g \in Goods : put[g] > 0} ELSE {} ]
<1>1. t \in Transfer!Transfer /\ t # Transfer!NoTransfer
  BY TransferOf DEF Transfer!BeginReceive, TransferInv
<1>2. \A q \in [Goods -> 0..Amount] : q \in Transfer!Quantity
  BY TransferAssumed DEF Transfer!Quantity, Transfer!TransferAssumption
<1>3. job \in Transfer!Job /\ job.stage = "store"
  BY <1>1, <1>2 DEF Transfer!Job, Transfer!Storing
<1>4. StoringOK(job)
  <2>1. \A g \in Goods : refuse[g] <= Transfer!Pending(t, g) - take[g]
    BY DEF Transfer!BeginReceive
  <2>2. \A g \in Goods : take[g] \in Int /\ refuse[g] \in Int /\ Transfer!Pending(t, g) \in Int
    BY <1>1, <1>2 DEF Transfer!Transfer, Transfer!Quantity, Transfer!Pending
  <2>3. \A g \in Goods : take[g] + refuse[g] <= Transfer!Pending(t, g)
    BY <2>1, <2>2
  <2> QED
    BY <1>1, <2>3 DEF TransferInv, TransfersOK, StoringOK, SameItems
<1>5. senders' = [senders EXCEPT ![p] = job] /\ UNCHANGED <<transferStock, transfers>>
  BY DEF Transfer!BeginReceive
<1> HIDE DEF job
<1> QED
  BY <1>3, <1>4, <1>5, DispatchesStay DEF TransferInv, Transfer!TypeOK

LEMMA StoreKeeps ==
  ASSUME TransferInv, NEW p \in Procs, NEW g \in Goods,
         Transfer!Store(p, g) \/ Transfer!ReturnGoods(p, g),
         sendersOrderly' \in BOOLEAN
  PROVE  TransferInv'
<1> DEFINE job == senders[p]
           next == [job EXCEPT !.todo = @ \ {g}]
<1>1. job # Transfer!Idle
  BY IdleIsFine DEF Transfer!Store, Transfer!ReturnGoods
<1>2. /\ next \in Transfer!Job
      /\ next.stage = "store" => StoringOK(next)
      /\ next.stage = "return" => ReturningOK(next)
  BY <1>1, TodoShrinks
<1>3. senders' = [senders EXCEPT ![p] = next] /\ UNCHANGED transfers
  BY DEF Transfer!Store, Transfer!ReturnGoods, TransferInv, Transfer!TypeOK
<1>4. transferStock' \in [Structures -> [Goods -> Nat]]
  <2>1. CASE Transfer!Store(p, g)
    <3>1. job \in Transfer!Storing
      BY <2>1, TransferJobOf, TransferJobKinds DEF Transfer!Store, TransferInv
    <3> QED
      BY <2>1, <3>1 DEF Transfer!Store, Transfer!Storing, Transfer!Transfer, Transfer!Quantity,
                        TransferInv, Transfer!TypeOK
  <2>2. CASE Transfer!ReturnGoods(p, g)
    <3>1. job \in Transfer!Returning
      BY <2>2, TransferJobOf, TransferJobKinds DEF Transfer!ReturnGoods, TransferInv
    <3> QED
      BY <2>2, <3>1 DEF Transfer!ReturnGoods, Transfer!Returning, Transfer!Transfer,
                        Transfer!Quantity, TransferInv, Transfer!TypeOK
  <2> QED
    BY <2>1, <2>2
<1> HIDE DEF next
<1> QED
  BY <1>2, <1>3, <1>4, DispatchesStay

\* Settling what is pending keeps a dispatch bounded.
LEMMA SettledDispatch ==
  ASSUME NEW t \in Transfer!Transfer, NEW take \in Transfer!Quantity,
         NEW refuse \in Transfer!Quantity
  PROVE  LET u == Transfer!Settled(t, take, refuse)
         IN  /\ u \in Transfer!Transfer
             /\ TransferSettles(u, t)
             /\ u.status # "CANCELLED"
             /\ \A g \in Goods : /\ u.received[g] = t.received[g] + take[g]
                                 /\ u.rejected[g] = t.rejected[g] + refuse[g]
             /\ (\A g \in Goods : take[g] + refuse[g] <= Transfer!Pending(t, g)) => Bounded(u)
<1> DEFINE items == [t EXCEPT !.received = [g \in Goods |-> @[g] + take[g]],
                              !.rejected = [g \in Goods |-> @[g] + refuse[g]]]
           u == [items EXCEPT !.status = Transfer!RecomputedStatus(items)]
           rec == [g \in Goods |-> t.received[g] + take[g]]
           rej == [g \in Goods |-> t.rejected[g] + refuse[g]]
<1>1. /\ items \in Transfer!Transfer
      /\ items.received = [g \in Goods |-> t.received[g] + take[g]]
      /\ items.rejected = [g \in Goods |-> t.rejected[g] + refuse[g]]
      /\ items.source = t.source /\ items.target = t.target /\ items.sent = t.sent
  <2>1. rec \in Transfer!Quantity /\ rej \in Transfer!Quantity
    BY DEF Transfer!Transfer, Transfer!Quantity
  <2>2. items = [t EXCEPT !.received = rec, !.rejected = rej]
    OBVIOUS
  <2> HIDE DEF rec, rej, items
  <2>3. /\ items \in Transfer!Transfer /\ items.received = rec /\ items.rejected = rej
        /\ items.source = t.source /\ items.target = t.target /\ items.sent = t.sent
    BY <2>1, <2>2 DEF Transfer!Transfer
  <2> QED
    BY <2>3 DEF rec, rej
<1>2. Transfer!RecomputedStatus(items) \in {"PENDING_RECEIPT", "PARTIALLY_RECEIVED", "COMPLETED"}
  BY DEF Transfer!RecomputedStatus
<1> HIDE DEF items
<1>3. /\ u \in Transfer!Transfer /\ u.status # "CANCELLED"
      /\ u.received = items.received /\ u.rejected = items.rejected
      /\ u.source = t.source /\ u.target = t.target /\ u.sent = t.sent
  BY <1>1, <1>2 DEF Transfer!Transfer
<1>4. Transfer!Settled(t, take, refuse) = u
  BY DEF Transfer!Settled, items
<1> HIDE DEF u
<1>5. \A g \in Goods :
        /\ t.sent[g] \in Nat /\ t.received[g] \in Nat /\ t.rejected[g] \in Nat
        /\ take[g] \in Nat /\ refuse[g] \in Nat
  BY DEF Transfer!Transfer, Transfer!Quantity
<1>6. \A g \in Goods : /\ u.received[g] = t.received[g] + take[g]
                       /\ u.rejected[g] = t.rejected[g] + refuse[g]
  BY <1>1, <1>3
<1>7. TransferSettles(u, t)
  BY <1>3, <1>5, <1>6 DEF TransferSettles
<1>8. (\A g \in Goods : take[g] + refuse[g] <= Transfer!Pending(t, g)) => Bounded(u)
  BY <1>3, <1>5, <1>6 DEF Bounded, Transfer!Pending
<1> QED
  BY <1>3, <1>4, <1>6, <1>7, <1>8

LEMMA CheckRefusalsKeeps ==
  ASSUME TransferInv, NEW p \in Procs, Transfer!CheckRefusals(p), sendersOrderly' \in BOOLEAN
  PROVE  TransferInv'
<1> DEFINE job == senders[p]
           u == Transfer!Settled(job.seen, job.take, job.refuse)
           next == [ stage |-> "return", id |-> job.id, seen |-> job.seen, next |-> u,
                     back |-> job.refuse, cancels |-> FALSE, fresh |-> job.fresh,
                     todo |-> {g \in Goods : job.refuse[g] > 0} ]
<1>1. job \in Transfer!Storing /\ StoringOK(job)
  BY TransferJobOf, TransferJobKinds DEF Transfer!CheckRefusals, TransferInv, JobsOK
<1>2. u \in Transfer!Transfer /\ TransferSettles(u, job.seen) /\ Bounded(u)
  BY <1>1, SettledDispatch DEF Transfer!Storing, StoringOK
<1>3. senders' = [senders EXCEPT ![p] = IF ~job.refusable THEN Transfer!Idle ELSE next]
      /\ UNCHANGED <<transferStock, transfers>>
  BY DEF Transfer!CheckRefusals
<1> HIDE DEF u
<1>4. next \in Transfer!Job /\ next.stage = "return"
  BY <1>1, <1>2 DEF Transfer!Storing, Transfer!Returning, Transfer!Job
<1>5. ReturningOK(next)
  BY <1>1, <1>2 DEF StoringOK, ReturningOK
<1> HIDE DEF next
<1> QED
  BY <1>3, <1>4, <1>5, IdleIsFine, DispatchesStay DEF TransferInv, Transfer!TypeOK

LEMMA BeginCancelKeeps ==
  ASSUME TransferInv, NEW p \in Procs, NEW id \in TransferIds, Transfer!BeginCancel(p, id),
         sendersOrderly' \in BOOLEAN
  PROVE  TransferInv'
<1> DEFINE t == transfers[id]
           job == [ stage |-> "return", id |-> id, seen |-> t,
                    next |-> [t EXCEPT !.status = "CANCELLED"],
                    back |-> [g \in Goods |-> Transfer!Pending(t, g)], cancels |-> TRUE, fresh |-> TRUE,
                    todo |-> {g \in Goods : Transfer!Pending(t, g) > 0} ]
<1>1. t \in Transfer!Transfer /\ t # Transfer!NoTransfer
  BY TransferOf, NoTransferApart DEF Transfer!BeginCancel, TransferInv
<1>2. [g \in Goods |-> Transfer!Pending(t, g)] \in Transfer!Quantity
  <2>1. \A g \in Goods : /\ t.sent[g] \in Nat /\ t.received[g] \in Nat /\ t.rejected[g] \in Nat
                         /\ t.received[g] + t.rejected[g] <= t.sent[g]
    BY <1>1 DEF TransferInv, TransfersOK, Bounded, Transfer!Transfer, Transfer!Quantity
  <2> QED
    BY <2>1 DEF Transfer!Pending, Transfer!Quantity
<1>3. [t EXCEPT !.status = "CANCELLED"] \in Transfer!Transfer
  BY <1>1 DEF Transfer!Transfer
<1>4. job \in Transfer!Job /\ job.stage = "return"
  BY <1>1, <1>2, <1>3 DEF Transfer!Job, Transfer!Returning
<1>5. ReturningOK(job)
  BY <1>1 DEF ReturningOK
<1>6. senders' = [senders EXCEPT ![p] = job] /\ UNCHANGED <<transferStock, transfers>>
  BY DEF Transfer!BeginCancel
<1> HIDE DEF job
<1> QED
  BY <1>4, <1>5, <1>6, DispatchesStay DEF TransferInv, Transfer!TypeOK

\* What a save of a receipt does.
LEMMA SaveReceiptEffect ==
  ASSUME TransferInv, NEW p \in Procs, Transfer!SaveReceipt(p), senders[p].fresh
  PROVE  LET job == senders[p]
         IN  /\ job \in Transfer!Returning /\ job.id \in TransferIds /\ ReturningOK(job)
             /\ transfers'[job.id] \in Transfer!Transfer
             /\ Bounded(transfers'[job.id])
             /\ SameItems(job.next, transfers'[job.id])
             /\ transfers'[job.id].status \in {job.next.status, transfers[job.id].status}
             /\ TransferSettles(transfers'[job.id], transfers[job.id])
             /\ \A i \in TransferIds : i # job.id => transfers'[i] = transfers[i]
             /\ transfers' \in [TransferIds -> Transfer!Transfer \cup {Transfer!NoTransfer}]
<1> DEFINE job == senders[p]
           st == IF job.next.status = job.seen.status THEN transfers[job.id].status
                 ELSE job.next.status
           u == [job.next EXCEPT !.status = st]
<1>1. job \in Transfer!Returning /\ ReturningOK(job) /\ ~job.cancels
  BY TransferJobOf, TransferJobKinds DEF Transfer!SaveReceipt, TransferInv, JobsOK
<1>2. job.id \in TransferIds /\ job.next \in Transfer!Transfer /\ transfers[job.id] \in Transfer!Transfer
  BY <1>1, TransferOf DEF Transfer!Returning, ReturningOK, TransferInv
<1>3. u \in Transfer!Transfer /\ SameItems(job.next, u) /\ u.status = st
  BY <1>2 DEF Transfer!Transfer, SameItems
<1>4. transfers' = [transfers EXCEPT ![job.id] = u]
  BY DEF Transfer!SaveReceipt
<1> HIDE DEF u
<1>5. /\ transfers'[job.id] = u
      /\ \A i \in TransferIds : i # job.id => transfers'[i] = transfers[i]
      /\ transfers' \in [TransferIds -> Transfer!Transfer \cup {Transfer!NoTransfer}]
  BY <1>2, <1>3, <1>4 DEF TransferInv, Transfer!TypeOK
<1>6. Bounded(job.next) /\ TransferSettles(job.next, job.seen) /\ SameItems(job.seen, transfers[job.id])
  BY <1>1 DEF ReturningOK
<1>7. Bounded(u) /\ TransferSettles(u, transfers[job.id])
  BY <1>3, <1>6 DEF Bounded, TransferSettles, SameItems
<1> HIDE DEF job
<1>8. st \in {job.next.status, transfers[job.id].status}
  OBVIOUS
<1> QED
  BY <1>1, <1>2, <1>3, <1>5, <1>7, <1>8 DEF job

LEMMA SaveReceiptKeeps ==
  ASSUME TransferInv, NEW p \in Procs, Transfer!SaveReceipt(p), sendersOrderly' \in BOOLEAN
  PROVE  TransferInv'
<1> DEFINE job == senders[p]
<1>1. CASE ~job.fresh
  <2>1. senders' = [senders EXCEPT ![p] = Transfer!Idle] /\ UNCHANGED <<transferStock, transfers>>
    BY <1>1 DEF Transfer!SaveReceipt
  <2> QED
    BY <2>1, IdleIsFine, DispatchesStay DEF TransferInv, Transfer!TypeOK
<1>2. CASE job.fresh
  <2>1. senders' = [q \in Procs |->
          IF q = p THEN Transfer!Idle
          ELSE IF senders[q].stage \in {"store", "return"} /\ senders[q].id = job.id
          THEN [senders[q] EXCEPT !.fresh = FALSE]
          ELSE senders[q]]
    BY <1>2 DEF Transfer!SaveReceipt
  <2>2. \A q \in Procs : senders[q] \in Transfer!Job
    BY TransferJobOf DEF TransferInv
  <2>3. ASSUME NEW q \in Procs
        PROVE  /\ senders'[q] \in Transfer!Job
               /\ senders'[q].stage = "store" => StoringOK(senders[q])'
               /\ senders'[q].stage = "return" => ReturningOK(senders[q])'
    <3>1. CASE q = p
      BY <2>1, <3>1, IdleIsFine
    <3>2. CASE q # p /\ senders[q].stage \in {"store", "return"} /\ senders[q].id = job.id
      <4>1. senders'[q] = [senders[q] EXCEPT !.fresh = FALSE]
        BY <2>1, <3>2
      <4>2. transfers'[job.id] # Transfer!NoTransfer
        BY <1>2, SaveReceiptEffect, NoTransferApart
      <4>3. CASE senders[q].stage = "store"
        <5>1. senders[q] \in Transfer!Storing /\ StoringOK(senders[q])
          BY <2>2, <4>3, TransferJobKinds DEF TransferInv, JobsOK
        <5> QED
          BY <3>2, <4>1, <4>2, <5>1 DEF Transfer!Storing, Transfer!Job, StoringOK, Bounded,
                                        Transfer!Pending
      <4>4. CASE senders[q].stage = "return"
        <5>1. senders[q] \in Transfer!Returning /\ ReturningOK(senders[q])
          BY <2>2, <4>4, TransferJobKinds DEF TransferInv, JobsOK
        <5> QED
          BY <3>2, <4>1, <4>2, <5>1 DEF Transfer!Returning, Transfer!Job, ReturningOK, Bounded,
                                        TransferSettles
      <4> QED
        BY <3>2, <4>3, <4>4
    <3>3. CASE q # p /\ ~(senders[q].stage \in {"store", "return"} /\ senders[q].id = job.id)
      <4>1. senders'[q] = senders[q]
        BY <2>1, <3>3
      <4>2. \A i \in TransferIds : i # job.id => transfers'[i] = transfers[i]
        BY <1>2, SaveReceiptEffect
      <4>3. CASE senders[q].stage = "store"
        <5>1. senders[q] \in Transfer!Storing /\ StoringOK(senders[q]) /\ senders[q].id # job.id
          BY <2>2, <3>3, <4>3, TransferJobKinds DEF TransferInv, JobsOK
        <5> QED
          BY <4>1, <4>2, <5>1 DEF Transfer!Storing, Transfer!Job, StoringOK, Bounded,
                                  Transfer!Pending, SameItems
      <4>4. CASE senders[q].stage = "return"
        <5>1. senders[q] \in Transfer!Returning /\ ReturningOK(senders[q]) /\ senders[q].id # job.id
          BY <2>2, <3>3, <4>4, TransferJobKinds DEF TransferInv, JobsOK
        <5> QED
          BY <4>1, <4>2, <5>1 DEF Transfer!Returning, Transfer!Job, ReturningOK, Bounded,
                                  TransferSettles, SameItems
      <4> QED
        BY <2>2, <4>1, <4>3, <4>4
    <3> QED
      BY <3>1, <3>2, <3>3
  <2>4. senders' \in [Procs -> Transfer!Job]
    BY <2>1, <2>3
  <2>5. transfers' \in [TransferIds -> Transfer!Transfer \cup {Transfer!NoTransfer}] /\ TransfersOK'
    BY <1>2, SaveReceiptEffect DEF TransferInv, TransfersOK, Bounded
  <2> QED
    BY <2>3, <2>4, <2>5 DEF TransferInv, Transfer!TypeOK, JobsOK, Transfer!SaveReceipt
<1> QED
  BY <1>1, <1>2 DEF TransferInv, Transfer!TypeOK

\* What a save of a cancellation does.
LEMMA SaveCancelEffect ==
  ASSUME TransferInv, NEW p \in Procs, Transfer!SaveCancel(p)
  PROVE  LET job == senders[p]
         IN  /\ job \in Transfer!Returning /\ job.id \in TransferIds /\ ReturningOK(job)
             /\ transfers[job.id] \in Transfer!Transfer
             /\ transfers' = [transfers EXCEPT ![job.id] =
                                [transfers[job.id] EXCEPT !.status = "CANCELLED"]]
             /\ transfers'[job.id] \in Transfer!Transfer
             /\ SameItems(transfers[job.id], transfers'[job.id])
             /\ transfers'[job.id].status = "CANCELLED"
<1>1. senders[p] \in Transfer!Returning /\ ReturningOK(senders[p])
  BY TransferJobOf, TransferJobKinds DEF Transfer!SaveCancel, TransferInv, JobsOK
<1>2. senders[p].id \in TransferIds /\ transfers[senders[p].id] \in Transfer!Transfer
  BY <1>1, TransferOf DEF Transfer!Returning, ReturningOK, TransferInv
<1>3. [transfers[senders[p].id] EXCEPT !.status = "CANCELLED"] \in Transfer!Transfer
  BY <1>2 DEF Transfer!Transfer
<1> QED
  BY <1>1, <1>2, <1>3 DEF Transfer!SaveCancel, TransferInv, Transfer!TypeOK, SameItems,
                          Transfer!Transfer

LEMMA SaveCancelKeeps ==
  ASSUME TransferInv, NEW p \in Procs, Transfer!SaveCancel(p), sendersOrderly' \in BOOLEAN
  PROVE  TransferInv'
<1>1. senders' = [senders EXCEPT ![p] = Transfer!Idle] /\ UNCHANGED transferStock
  BY DEF Transfer!SaveCancel
<1>2. senders'[p].stage = "idle" /\ \A q \in Procs : q # p => senders'[q] = senders[q]
  BY <1>1, IdleIsFine DEF TransferInv, Transfer!TypeOK
<1>3. Transfer!TypeOK'
  BY <1>1, SaveCancelEffect, IdleIsFine DEF TransferInv, Transfer!TypeOK
<1>4. \A id \in TransferIds : transfers[id] # Transfer!NoTransfer =>
        transfers'[id] # Transfer!NoTransfer /\ SameItems(transfers[id], transfers'[id])
  BY SaveCancelEffect, NoTransferApart DEF TransferInv, Transfer!TypeOK, SameItems
<1>5. JobsOK'
  BY <1>2, <1>3, <1>4, OthersHold
<1>6. TransfersOK'
  <2>1. \A id \in TransferIds : id # senders[p].id => transfers'[id] = transfers[id]
    BY SaveCancelEffect DEF TransferInv, Transfer!TypeOK
  <2>2. Bounded(transfers'[senders[p].id])
    BY SaveCancelEffect, NoTransferApart DEF TransferInv, TransfersOK, SameItems, Bounded
  <2> QED
    BY <2>1, <2>2 DEF TransferInv, TransfersOK, Bounded
<1> QED
  BY <1>3, <1>5, <1>6 DEF TransferInv

LEMMA StopKeeps ==
  ASSUME TransferInv, NEW p \in Procs, Transfer!Stop(p), sendersOrderly' \in BOOLEAN
  PROVE  TransferInv'
<1>1. senders' = [senders EXCEPT ![p] = Transfer!Idle] /\ UNCHANGED <<transferStock, transfers>>
  BY DEF Transfer!Stop, Transfer!TransferRefused, Transfer!Crash
<1> QED
  BY <1>1, IdleIsFine, DispatchesStay DEF TransferInv, Transfer!TypeOK

LEMMA TransferInit == Transfer!Init => TransferInv
<1> SUFFICES ASSUME Transfer!Init  PROVE TransferInv  OBVIOUS
<1>1. Transfer!TypeOK
  BY TransferAssumed, IdleIsFine DEF Transfer!Init, Transfer!TypeOK, Transfer!TransferAssumption
<1> QED
  BY <1>1, IdleIsFine DEF Transfer!Init, TransferInv, TransfersOK, JobsOK

LEMMA ContinueKeeps ==
  ASSUME TransferInv, NEW p \in Procs, Transfer!Continue(p), sendersOrderly' \in BOOLEAN
  PROVE  TransferInv'
BY TransferDeductKeeps, StoreKeeps, CreateKeeps, CheckRefusalsKeeps, SaveReceiptKeeps,
   SaveCancelKeeps
DEF Transfer!Continue

LEMMA BeginKeeps ==
  ASSUME TransferInv, NEW p \in Procs, Transfer!Begin(p), sendersOrderly' \in BOOLEAN
  PROVE  TransferInv'
BY BeginTransferKeeps, BeginCancelKeeps, BeginReceiveKeeps DEF Transfer!Begin, Transfer!Upto

LEMMA TransferNext == TransferInv /\ [Transfer!Next]_(Transfer!vars) => TransferInv'
<1> SUFFICES ASSUME TransferInv, [Transfer!Next]_(Transfer!vars)  PROVE TransferInv'  OBVIOUS
<1>1. CASE UNCHANGED Transfer!vars
  BY <1>1 DEF Transfer!vars, TransferInv, Transfer!TypeOK, TransfersOK, JobsOK, StoringOK,
              ReturningOK,
              Bounded, TransferSettles, SameItems, Transfer!Pending
<1>2. ASSUME NEW p \in Procs, Transfer!Begin(p) \/ Transfer!Continue(p),
             sendersOrderly' = /\ sendersOrderly
                               /\ \A q \in Procs \ {p} : senders[q] = Transfer!Idle
                               /\ ~Transfer!Flawed(senders'[p])
      PROVE  TransferInv'
  <2>1. sendersOrderly' \in BOOLEAN
    BY <1>2 DEF TransferInv, Transfer!TypeOK
  <2> QED
    BY <1>2, <2>1, BeginKeeps, ContinueKeeps
<1> QED
  BY <1>1, <1>2, StopKeeps DEF Transfer!Next

-----------------------------------------------------------------------------
\* No step takes back what a dispatch settled.
LEMMA ReceiptsStep ==
  ASSUME TransferInv, TransferInv', Transfer!Next
  PROVE  Transfer!KeepsReceipts
<1>1. \A id \in TransferIds : transfers[id] # Transfer!NoTransfer =>
        transfers'[id] # Transfer!NoTransfer /\ TransferSettles(transfers'[id], transfers[id])
  <2>1. CASE UNCHANGED transfers
    BY <2>1, TransferOf DEF TransferInv, TransferSettles
  <2>2. ASSUME NEW p \in Procs, NEW id \in TransferIds, Transfer!CreateDispatch(p, id)
        PROVE  \A i \in TransferIds : transfers[i] # Transfer!NoTransfer => transfers'[i] = transfers[i]
    BY <2>2 DEF Transfer!CreateDispatch, TransferInv, Transfer!TypeOK
  <2>3. \A id \in TransferIds : transfers[id] # Transfer!NoTransfer /\ transfers'[id] = transfers[id]
          => TransferSettles(transfers'[id], transfers[id])
    BY TransferOf DEF TransferInv, TransferSettles
  <2>4. ASSUME NEW p \in Procs, Transfer!SaveReceipt(p), senders[p].fresh
        PROVE  \A id \in TransferIds : transfers[id] # Transfer!NoTransfer =>
                 transfers'[id] # Transfer!NoTransfer /\ TransferSettles(transfers'[id], transfers[id])
    BY <2>3, <2>4, SaveReceiptEffect, NoTransferApart
  <2>5. ASSUME NEW p \in Procs, Transfer!SaveReceipt(p), ~senders[p].fresh
        PROVE  UNCHANGED transfers
    BY <2>5 DEF Transfer!SaveReceipt
  <2>6. ASSUME NEW p \in Procs, Transfer!SaveCancel(p)
        PROVE  \A id \in TransferIds : transfers[id] # Transfer!NoTransfer =>
                 transfers'[id] # Transfer!NoTransfer /\ TransferSettles(transfers'[id], transfers[id])
    <3>1. \A id \in TransferIds : id # senders[p].id => transfers'[id] = transfers[id]
      BY <2>6, SaveCancelEffect DEF TransferInv, Transfer!TypeOK
    <3>2. TransferSettles(transfers'[senders[p].id], transfers[senders[p].id])
      <4>1. /\ transfers[senders[p].id] \in Transfer!Transfer
            /\ SameItems(transfers[senders[p].id], transfers'[senders[p].id])
        BY <2>6, SaveCancelEffect
      <4> QED
        BY <4>1 DEF SameItems, TransferSettles, Transfer!Transfer, Transfer!Quantity
    <3> QED
      BY <2>3, <2>6, <3>1, <3>2, SaveCancelEffect, NoTransferApart
  <2>7. ASSUME NEW p \in Procs, Transfer!Continue(p), transfers' # transfers
        PROVE  \/ \E id \in TransferIds : Transfer!CreateDispatch(p, id)
               \/ Transfer!SaveReceipt(p) /\ senders[p].fresh
               \/ Transfer!SaveCancel(p)
    BY <2>5, <2>7 DEF Transfer!Continue, Transfer!Deduct, Transfer!Store, Transfer!ReturnGoods,
                      Transfer!CheckRefusals
  <2>8. ASSUME NEW p \in Procs, Transfer!Begin(p) \/ Transfer!Stop(p)
        PROVE  UNCHANGED transfers
    BY <2>8 DEF Transfer!Begin, Transfer!Stop, Transfer!BeginTransfer, Transfer!BeginCancel,
                Transfer!BeginReceive, Transfer!TransferRefused, Transfer!Crash
  <2> QED
    BY <2>1, <2>2, <2>3, <2>4, <2>6, <2>7, <2>8 DEF Transfer!Next
<1> SUFFICES ASSUME NEW id \in TransferIds, transfers[id] # Transfer!NoTransfer, NEW g \in Goods
             PROVE  /\ transfers'[id].received[g] >= transfers[id].received[g]
                    /\ transfers'[id].rejected[g] >= transfers[id].rejected[g]
                    /\ transfers'[id].received[g] + transfers'[id].rejected[g]
                         <= transfers[id].sent[g]
  BY DEF Transfer!KeepsReceipts
<1>2. transfers'[id] # Transfer!NoTransfer /\ TransferSettles(transfers'[id], transfers[id])
  BY <1>1
<1>3. Bounded(transfers[id])'
  BY <1>2 DEF TransferInv, TransfersOK
<1> QED
  BY <1>2, <1>3 DEF TransferSettles, Bounded

-----------------------------------------------------------------------------
(* The account of a good *)

\* What a dispatch adds to UnderWay and to Untracked.
Open(t, g) == IF t.status \in {"NONE", "CANCELLED"} THEN 0 ELSE Transfer!Pending(t, g)
Gone(t, g) == IF t = Transfer!NoTransfer \/ t.target \in Located THEN 0 ELSE t.received[g]

LEMMA InStockIsSum ==
  ASSUME NEW g
  PROVE  /\ Transfer!InStock(g) = SumFunctionOnSet([s \in Structures |-> transferStock[s][g]], Structures)
         /\ Transfer!InStock(g)' = SumFunctionOnSet([s \in Structures |-> transferStock'[s][g]], Structures)
BY TransferSum DEF Transfer!InStock

LEMMA UnderWayIsSum ==
  ASSUME NEW g
  PROVE  /\ Transfer!UnderWay(g) =
              SumFunctionOnSet([id \in TransferIds |-> Open(transfers[id], g)], TransferIds)
         /\ Transfer!UnderWay(g)' =
              SumFunctionOnSet([id \in TransferIds |-> Open(transfers'[id], g)], TransferIds)
BY TransferSum DEF Transfer!UnderWay, Open

LEMMA UntrackedIsSum ==
  ASSUME NEW g
  PROVE  /\ Transfer!Untracked(g) =
              SumFunctionOnSet([id \in TransferIds |-> Gone(transfers[id], g)], TransferIds)
         /\ Transfer!Untracked(g)' =
              SumFunctionOnSet([id \in TransferIds |-> Gone(transfers'[id], g)], TransferIds)
BY TransferSum DEF Transfer!Untracked, Gone

LEMMA Finite == IsFiniteSet(Structures) /\ IsFiniteSet(TransferIds)
BY TransferAssumed, TransferSizes DEF Transfer!TransferAssumption

LEMMA OpenIsInt ==
  ASSUME NEW t \in Transfer!Transfer \cup {Transfer!NoTransfer}, NEW g \in Goods
  PROVE  Open(t, g) \in Int /\ Gone(t, g) \in Int
<1>1. CASE t = Transfer!NoTransfer
  BY <1>1, NoTransferApart DEF Open, Gone
<1>2. CASE t \in Transfer!Transfer
  BY <1>2, NoTransferApart DEF Open, Gone, Transfer!Pending, Transfer!Transfer, Transfer!Quantity
<1> QED
  BY <1>1, <1>2

LEMMA AccountIsInt ==
  ASSUME Transfer!TypeOK, NEW g \in Goods
  PROVE  Transfer!InStock(g) \in Int /\ Transfer!UnderWay(g) \in Int /\ Transfer!Untracked(g) \in Int
<1> DEFINE rows == [x \in Structures |-> transferStock[x][g]]
           open == [x \in TransferIds |-> Open(transfers[x], g)]
           gone == [x \in TransferIds |-> Gone(transfers[x], g)]
<1>1. \A s \in Structures : rows[s] \in Int
  BY DEF Transfer!TypeOK
<1>2. \A id \in TransferIds : open[id] \in Int /\ gone[id] \in Int
  BY OpenIsInt DEF Transfer!TypeOK
<1>3. /\ Transfer!InStock(g) = SumFunctionOnSet(rows, Structures)
      /\ Transfer!UnderWay(g) = SumFunctionOnSet(open, TransferIds)
      /\ Transfer!Untracked(g) = SumFunctionOnSet(gone, TransferIds)
  BY InStockIsSum, UnderWayIsSum, UntrackedIsSum
<1> HIDE DEF rows, open, gone
<1> QED
  BY <1>1, <1>2, <1>3, Finite, SumIsInt

LEMMA AccountIsIntThen ==
  ASSUME Transfer!TypeOK', NEW g \in Goods
  PROVE  Transfer!InStock(g)' \in Int /\ Transfer!UnderWay(g)' \in Int /\ Transfer!Untracked(g)' \in Int
<1> DEFINE rows == [x \in Structures |-> transferStock'[x][g]]
           open == [x \in TransferIds |-> Open(transfers'[x], g)]
           gone == [x \in TransferIds |-> Gone(transfers'[x], g)]
<1>1. \A s \in Structures : rows[s] \in Int
  BY DEF Transfer!TypeOK
<1>2. \A id \in TransferIds : open[id] \in Int /\ gone[id] \in Int
  BY OpenIsInt DEF Transfer!TypeOK
<1>3. /\ Transfer!InStock(g)' = SumFunctionOnSet(rows, Structures)
      /\ Transfer!UnderWay(g)' = SumFunctionOnSet(open, TransferIds)
      /\ Transfer!Untracked(g)' = SumFunctionOnSet(gone, TransferIds)
  BY InStockIsSum, UnderWayIsSum, UntrackedIsSum
<1> HIDE DEF rows, open, gone
<1> QED
  BY <1>1, <1>2, <1>3, Finite, SumIsInt

\* One row of the stock changes by q.
LEMMA StockMoves ==
  ASSUME Transfer!TypeOK, Transfer!TypeOK', NEW s \in Structures, NEW g \in Goods, NEW q \in Int,
         transferStock' = [transferStock EXCEPT ![s][g] = @ + q], NEW h \in Goods
  PROVE  Transfer!InStock(h)' = Transfer!InStock(h) + (IF h = g THEN q ELSE 0)
<1> DEFINE old == [x \in Structures |-> transferStock[x][h]]
           new == [x \in Structures |-> transferStock'[x][h]]
<1>1. \A x \in Structures : /\ old[x] \in Int /\ new[x] \in Int
                            /\ x # s => new[x] = old[x]
  BY DEF Transfer!TypeOK
<1>2. new[s] = old[s] + (IF h = g THEN q ELSE 0)
  BY DEF Transfer!TypeOK
<1>3. Transfer!InStock(h) = SumFunctionOnSet(old, Structures)
      /\ Transfer!InStock(h)' = SumFunctionOnSet(new, Structures)
  BY InStockIsSum
<1> HIDE DEF old, new
<1>4. SumFunctionOnSet(new, Structures) = SumFunctionOnSet(old, Structures) + new[s] - old[s]
  BY <1>1, Finite, SumChangeOne
<1>5. SumFunctionOnSet(old, Structures) \in Int
  BY <1>1, Finite, SumIsInt
<1> QED
  BY <1>1, <1>2, <1>3, <1>4, <1>5

\* One dispatch changes.
LEMMA DispatchMoves ==
  ASSUME Transfer!TypeOK, Transfer!TypeOK', NEW id \in TransferIds,
         \A i \in TransferIds : i # id => transfers'[i] = transfers[i], NEW g \in Goods
  PROVE  /\ Transfer!UnderWay(g)' = Transfer!UnderWay(g) + Open(transfers'[id], g) - Open(transfers[id], g)
         /\ Transfer!Untracked(g)' = Transfer!Untracked(g) + Gone(transfers'[id], g) - Gone(transfers[id], g)
<1> DEFINE open == [x \in TransferIds |-> Open(transfers[x], g)]
           openN == [x \in TransferIds |-> Open(transfers'[x], g)]
           gone == [x \in TransferIds |-> Gone(transfers[x], g)]
           goneN == [x \in TransferIds |-> Gone(transfers'[x], g)]
<1>1. \A x \in TransferIds :
        /\ open[x] \in Int /\ openN[x] \in Int /\ gone[x] \in Int /\ goneN[x] \in Int
        /\ x # id => openN[x] = open[x] /\ goneN[x] = gone[x]
  BY OpenIsInt DEF Transfer!TypeOK
<1>2. /\ open[id] = Open(transfers[id], g) /\ openN[id] = Open(transfers'[id], g)
      /\ gone[id] = Gone(transfers[id], g) /\ goneN[id] = Gone(transfers'[id], g)
  OBVIOUS
<1>3. /\ Transfer!UnderWay(g) = SumFunctionOnSet(open, TransferIds)
      /\ Transfer!UnderWay(g)' = SumFunctionOnSet(openN, TransferIds)
      /\ Transfer!Untracked(g) = SumFunctionOnSet(gone, TransferIds)
      /\ Transfer!Untracked(g)' = SumFunctionOnSet(goneN, TransferIds)
  BY UnderWayIsSum, UntrackedIsSum
<1> HIDE DEF open, openN, gone, goneN
<1>4. SumFunctionOnSet(openN, TransferIds)
        = SumFunctionOnSet(open, TransferIds) + openN[id] - open[id]
  BY <1>1, Finite, SumChangeOne
<1>5. SumFunctionOnSet(goneN, TransferIds)
        = SumFunctionOnSet(gone, TransferIds) + goneN[id] - gone[id]
  BY <1>1, Finite, SumChangeOne
<1> QED
  BY <1>2, <1>3, <1>4, <1>5

LEMMA AccountStays ==
  ASSUME UNCHANGED <<transferStock, transfers>>, NEW g \in Goods
  PROVE  Transfer!Accounted(g)' = Transfer!Accounted(g)
BY InStockIsSum, UnderWayIsSum, UntrackedIsSum DEF Transfer!Accounted

\* What the account of g is when the shift of p is taken off.
Balance(p, g) == Transfer!Accounted(g) - TransferShift(senders[p], g)

LEMMA TransferShiftIsInt ==
  ASSUME NEW job \in Transfer!Job, NEW g \in Goods
  PROVE  TransferShift(job, g) \in Int
<1>1. CASE job = Transfer!Idle
  BY <1>1, IdleIsFine DEF TransferShift
<1>2. CASE job \in Transfer!Deducting
  BY <1>2 DEF Transfer!Deducting, TransferShift, Transfer!Quantity
<1>3. CASE job \in Transfer!Storing
  BY <1>3 DEF Transfer!Storing, TransferShift, Transfer!Quantity
<1>4. CASE job \in Transfer!Returning
  BY <1>4 DEF Transfer!Returning, TransferShift, Transfer!Quantity, Transfer!Transfer
<1> QED
  BY <1>1, <1>2, <1>3, <1>4 DEF Transfer!Job

LEMMA TransferShiftOfIdle == ASSUME NEW g  PROVE TransferShift(Transfer!Idle, g) = 0 /\ TransferAloneOK(Transfer!Idle) /\ TransferAloneOK(Transfer!Idle)'
BY IdleIsFine DEF TransferShift, TransferAloneOK

\* A handler that begins has not moved anything yet.
LEMMA BeginBalance ==
  ASSUME TransferInv, TransferInv', NEW p \in Procs, Transfer!Begin(p),
         ~Transfer!Flawed(senders'[p])
  PROVE  TransferAloneOK(senders[p])' /\ \A h \in Goods : Balance(p, h)' = Balance(p, h)
<1>1. UNCHANGED <<transferStock, transfers>> /\ senders[p] = Transfer!Idle
  BY DEF Transfer!Begin, Transfer!BeginTransfer, Transfer!BeginReceive, Transfer!BeginCancel
<1>2. SUFFICES TransferAloneOK(senders[p])' /\ \A h \in Goods : TransferShift(senders'[p], h) = 0
  BY <1>1, AccountStays, TransferShiftOfIdle DEF Balance, TransferShift
<1>3. ASSUME NEW source \in Structures, NEW target \in Structures,
             NEW ask \in [Goods -> 0..Amount], Transfer!BeginTransfer(p, source, target, ask)
      PROVE  TransferAloneOK(senders[p])' /\ \A h \in Goods : TransferShift(senders'[p], h) = 0
  <2>1. senders'[p].stage = "deduct" /\ senders'[p].done = {}
    BY <1>3 DEF Transfer!BeginTransfer, TransferInv, Transfer!TypeOK
  <2> QED
    BY <2>1 DEF TransferAloneOK, TransferShift
<1>4. ASSUME NEW id \in TransferIds, Transfer!BeginCancel(p, id)
      PROVE  TransferAloneOK(senders[p])' /\ \A h \in Goods : TransferShift(senders'[p], h) = 0
  <2>1. /\ senders'[p].stage = "return" /\ senders'[p].cancels /\ senders'[p].fresh
        /\ senders'[p].id = id
        /\ senders'[p].seen = transfers[id] /\ transfers[id].status = "PENDING_RECEIPT"
        /\ senders'[p].back = [g \in Goods |-> Transfer!Pending(transfers[id], g)]
        /\ senders'[p].todo = {g \in Goods : Transfer!Pending(transfers[id], g) > 0}
    BY <1>4 DEF Transfer!BeginCancel, TransferInv, Transfer!TypeOK
  <2>2. transfers[id] \in Transfer!Transfer /\ transfers[id] # Transfer!NoTransfer
    BY <2>1, TransferOf, NoTransferApart DEF TransferInv
  <2>3. \A g \in Goods : Transfer!Pending(transfers[id], g) \in Nat
    BY <2>2 DEF TransferInv, TransfersOK, Bounded, Transfer!Pending, Transfer!Transfer,
                Transfer!Quantity
  <2> QED
    BY <1>1, <2>1, <2>3 DEF TransferAloneOK, TransferShift, Transfer!Pending
<1>5. ASSUME NEW id \in TransferIds,
             NEW take \in [Goods -> 0..Amount], NEW put \in [Goods -> 0..Amount],
             NEW refuse \in [Goods -> 0..Amount], NEW refusable \in BOOLEAN,
             Transfer!BeginReceive(p, id, take, put, refuse, refusable)
      PROVE  TransferAloneOK(senders[p])' /\ \A h \in Goods : TransferShift(senders'[p], h) = 0
  <2>1. /\ senders'[p].stage = "store" /\ senders'[p].fresh
        /\ senders'[p].id = id
        /\ senders'[p].seen = transfers[id] /\ transfers[id].status # "CANCELLED"
        /\ senders'[p].take = take /\ senders'[p].put = put
        /\ senders'[p].todo = IF transfers[id].target \in Located
                              THEN {g \in Goods : put[g] > 0} ELSE {}
    BY <1>5 DEF Transfer!BeginReceive, TransferInv, Transfer!TypeOK
  <2>2. put = take
    BY <2>1 DEF Transfer!Flawed
  <2>3. \A g \in Goods : take[g] \in Nat
    OBVIOUS
  <2> QED
    BY <1>1, <2>1, <2>2, <2>3 DEF TransferAloneOK, TransferShift
<1> QED
  BY <1>3, <1>4, <1>5 DEF Transfer!Begin, Transfer!Upto

LEMMA DeductBalance ==
  ASSUME TransferInv, TransferInv', NEW p \in Procs, NEW g \in Goods, Transfer!Deduct(p, g),
         TransferAloneOK(senders[p])
  PROVE  TransferAloneOK(senders[p])' /\ \A h \in Goods : Balance(p, h)' = Balance(p, h)
<1> DEFINE job == senders[p]
           enough == transferStock[job.source][g] >= job.ask[g]
<1>1. job \in Transfer!Deducting /\ g \in job.todo /\ g \notin job.done
  BY TransferJobOf, TransferJobKinds DEF Transfer!Deduct, TransferInv, TransferAloneOK
<1>2. /\ senders'[p].stage = "deduct" /\ senders'[p].ask = job.ask
      /\ senders'[p].todo = job.todo \ {g}
      /\ senders'[p].done = IF enough THEN job.done \cup {g} ELSE job.done
      /\ UNCHANGED transfers
  BY <1>1 DEF Transfer!Deduct, Transfer!Deducting, TransferInv, Transfer!TypeOK
<1>3. TransferAloneOK(senders[p])'
  BY <1>1, <1>2 DEF TransferAloneOK, Transfer!Deducting
<1>4. job.source \in Structures /\ job.ask[g] \in Nat /\ \A h \in Goods : job.ask[h] \in Nat
  BY <1>1 DEF Transfer!Deducting, Transfer!Quantity
<1>5. \A h \in Goods :
        /\ TransferShift(senders[p], h) = IF h \in job.done THEN - job.ask[h] ELSE 0
        /\ TransferShift(senders[p], h)' = IF h \in senders'[p].done THEN - job.ask[h] ELSE 0
  BY <1>1, <1>2 DEF TransferShift, Transfer!Deducting
<1>6. \A h \in Goods : /\ Transfer!UnderWay(h)' = Transfer!UnderWay(h) /\ Transfer!Untracked(h)' = Transfer!Untracked(h)
                       /\ Transfer!InStock(h) \in Int /\ Transfer!UnderWay(h) \in Int /\ Transfer!Untracked(h) \in Int
  BY <1>2, UnderWayIsSum, UntrackedIsSum, AccountIsInt DEF TransferInv
<1>7. CASE enough
  <2>1. transferStock' = [transferStock EXCEPT ![job.source][g] = @ + (- job.ask[g])]
    BY <1>4, <1>7 DEF Transfer!Deduct, TransferInv, Transfer!TypeOK
  <2>2. - job.ask[g] \in Int
    BY <1>4
  <2>3. \A h \in Goods : Transfer!InStock(h)' = Transfer!InStock(h) + (IF h = g THEN - job.ask[g] ELSE 0)
    BY <1>4, <2>1, <2>2, StockMoves DEF TransferInv
  <2> QED
    BY <1>1, <1>2, <1>3, <1>4, <1>5, <1>6, <1>7, <2>3 DEF Balance, Transfer!Accounted
<1>8. CASE ~enough
  <2>1. \A h \in Goods : Transfer!InStock(h)' = Transfer!InStock(h)
    BY <1>8, InStockIsSum DEF Transfer!Deduct
  <2> QED
    BY <1>1, <1>2, <1>3, <1>5, <1>6, <1>8, <2>1 DEF Balance, Transfer!Accounted
<1> QED
  BY <1>7, <1>8

LEMMA StoreBalance ==
  ASSUME TransferInv, TransferInv', NEW p \in Procs, NEW g \in Goods, Transfer!Store(p, g),
         TransferAloneOK(senders[p])
  PROVE  TransferAloneOK(senders[p])' /\ \A h \in Goods : Balance(p, h)' = Balance(p, h)
<1> DEFINE job == senders[p]
<1>1. job \in Transfer!Storing /\ g \in job.todo /\ UNCHANGED transfers
  BY TransferJobOf, TransferJobKinds DEF Transfer!Store, TransferInv
<1>2. senders'[p] = [job EXCEPT !.todo = @ \ {g}]
  BY <1>1 DEF Transfer!Store, TransferInv, Transfer!TypeOK
<1>3. /\ job.put = job.take /\ job.seen.target \in Located
      /\ job.take[g] \in Int /\ job.seen.target \in Structures
  BY <1>1 DEF TransferAloneOK, Transfer!Flawed, Transfer!Storing, Transfer!Quantity,
              Transfer!Transfer
<1>4. TransferAloneOK(senders[p])'
  BY <1>1, <1>2 DEF TransferAloneOK, Transfer!Storing, Transfer!Flawed
<1>5. \A h \in Goods :
        /\ TransferShift(senders[p], h) = IF h \in job.todo THEN 0 ELSE job.take[h]
        /\ TransferShift(senders[p], h)' = IF h \in job.todo \ {g} THEN 0 ELSE job.take[h]
  BY <1>1, <1>2, <1>3 DEF TransferShift, Transfer!Storing
<1>6. \A h \in Goods : /\ Transfer!UnderWay(h)' = Transfer!UnderWay(h) /\ Transfer!Untracked(h)' = Transfer!Untracked(h)
                       /\ Transfer!InStock(h) \in Int /\ Transfer!UnderWay(h) \in Int /\ Transfer!Untracked(h) \in Int
  BY <1>1, UnderWayIsSum, UntrackedIsSum, AccountIsInt DEF TransferInv
<1>7. \A h \in Goods : Transfer!InStock(h)' = Transfer!InStock(h) + (IF h = g THEN job.take[g] ELSE 0)
  <2> DEFINE s == job.seen.target
             q == job.take[g]
  <2>1. transferStock' = [transferStock EXCEPT ![s][g] = @ + q] /\ s \in Structures /\ q \in Int
    BY <1>3 DEF Transfer!Store
  <2>2. Transfer!TypeOK /\ Transfer!TypeOK'
    BY DEF TransferInv
  <2> HIDE DEF s, q
  <2>3. \A h \in Goods : Transfer!InStock(h)' = Transfer!InStock(h) + (IF h = g THEN q ELSE 0)
    BY <2>1, <2>2, StockMoves
  <2> QED
    BY <2>3 DEF q
<1>8. \A h \in Goods : job.take[h] \in Int
  BY <1>1 DEF Transfer!Storing, Transfer!Quantity
<1> QED
  BY <1>1, <1>4, <1>5, <1>6, <1>7, <1>8 DEF Balance, Transfer!Accounted

LEMMA ReturnBalance ==
  ASSUME TransferInv, TransferInv', NEW p \in Procs, NEW g \in Goods, Transfer!ReturnGoods(p, g),
         TransferAloneOK(senders[p])
  PROVE  TransferAloneOK(senders[p])' /\ \A h \in Goods : Balance(p, h)' = Balance(p, h)
<1> DEFINE job == senders[p]
           base(h) == IF ~job.cancels /\ job.seen.target \in Located
                      THEN job.next.received[h] - job.seen.received[h] ELSE 0
<1>1. job \in Transfer!Returning /\ g \in job.todo /\ UNCHANGED transfers
  BY TransferJobOf, TransferJobKinds DEF Transfer!ReturnGoods, TransferInv
<1>2. senders'[p] = [job EXCEPT !.todo = @ \ {g}]
  BY <1>1 DEF Transfer!ReturnGoods, TransferInv, Transfer!TypeOK
<1>3. job.seen.source \in Structures /\ \A h \in Goods : job.back[h] \in Int /\ base(h) \in Int
  BY <1>1 DEF Transfer!Returning, Transfer!Quantity, Transfer!Transfer
<1>4. TransferAloneOK(senders[p])'
  BY <1>1, <1>2 DEF TransferAloneOK, Transfer!Returning, Transfer!Pending
<1>5. \A h \in Goods :
        /\ TransferShift(senders[p], h) = base(h) + (IF h \in job.todo THEN 0 ELSE job.back[h])
        /\ TransferShift(senders[p], h)' = base(h) + (IF h \in job.todo \ {g} THEN 0 ELSE job.back[h])
  BY <1>1, <1>2 DEF TransferShift, Transfer!Returning
<1>6. \A h \in Goods : /\ Transfer!UnderWay(h)' = Transfer!UnderWay(h) /\ Transfer!Untracked(h)' = Transfer!Untracked(h)
                       /\ Transfer!InStock(h) \in Int /\ Transfer!UnderWay(h) \in Int /\ Transfer!Untracked(h) \in Int
  BY <1>1, UnderWayIsSum, UntrackedIsSum, AccountIsInt DEF TransferInv
<1>7. \A h \in Goods : Transfer!InStock(h)' = Transfer!InStock(h) + (IF h = g THEN job.back[g] ELSE 0)
  <2> DEFINE s == job.seen.source
             q == job.back[g]
  <2>1. transferStock' = [transferStock EXCEPT ![s][g] = @ + q] /\ s \in Structures /\ q \in Int
    BY <1>3 DEF Transfer!ReturnGoods
  <2>2. Transfer!TypeOK /\ Transfer!TypeOK'
    BY DEF TransferInv
  <2> HIDE DEF s, q
  <2>3. \A h \in Goods : Transfer!InStock(h)' = Transfer!InStock(h) + (IF h = g THEN q ELSE 0)
    BY <2>1, <2>2, StockMoves
  <2> QED
    BY <2>3 DEF q
<1> HIDE DEF base
<1> QED
  BY <1>1, <1>3, <1>4, <1>5, <1>6, <1>7 DEF Balance, Transfer!Accounted

LEMMA CheckBalance ==
  ASSUME TransferInv, TransferInv', NEW p \in Procs, Transfer!CheckRefusals(p),
         TransferAloneOK(senders[p])
  PROVE  TransferAloneOK(senders[p])' /\ \A h \in Goods : Balance(p, h)' = Balance(p, h)
<1> DEFINE job == senders[p]
           u == Transfer!Settled(job.seen, job.take, job.refuse)
<1>1. /\ job \in Transfer!Storing /\ job.todo = {} /\ UNCHANGED <<transferStock, transfers>>
      /\ job.refusable /\ job.fresh /\ job.seen = transfers[job.id]
      /\ job.seen.status # "CANCELLED"
  BY TransferJobOf, TransferJobKinds DEF Transfer!CheckRefusals, TransferInv, TransferAloneOK,
                                         Transfer!Flawed
<1>2. senders'[p] = [ stage |-> "return", id |-> job.id, seen |-> job.seen, next |-> u,
                      back |-> job.refuse, cancels |-> FALSE, fresh |-> job.fresh,
                      todo |-> {g \in Goods : job.refuse[g] > 0} ]
  BY <1>1 DEF Transfer!CheckRefusals, TransferInv, Transfer!TypeOK
<1>3. /\ u.status # "CANCELLED"
      /\ \A h \in Goods : /\ u.received[h] = job.seen.received[h] + job.take[h]
                          /\ u.rejected[h] = job.seen.rejected[h] + job.refuse[h]
                          /\ job.seen.received[h] \in Nat /\ job.seen.rejected[h] \in Nat
                          /\ job.take[h] \in Nat /\ job.refuse[h] \in Nat
  <2>1. job.seen \in Transfer!Transfer /\ job.take \in Transfer!Quantity /\ job.refuse \in Transfer!Quantity
    BY <1>1 DEF Transfer!Storing
  <2>2. /\ u.status # "CANCELLED"
        /\ \A h \in Goods : /\ u.received[h] = job.seen.received[h] + job.take[h]
                            /\ u.rejected[h] = job.seen.rejected[h] + job.refuse[h]
    BY <2>1, SettledDispatch
  <2> QED
    BY <2>1, <2>2 DEF Transfer!Transfer, Transfer!Quantity
<1> HIDE DEF u
<1>4. TransferAloneOK(senders[p])'
  BY <1>1, <1>2, <1>3 DEF TransferAloneOK
<1>5. \A h \in Goods :
        /\ TransferShift(senders[p], h) = IF job.seen.target \in Located THEN job.take[h] ELSE 0
        /\ TransferShift(senders[p], h)' = IF job.seen.target \in Located THEN job.take[h] ELSE 0
  BY <1>1, <1>2, <1>3 DEF TransferShift, Transfer!Storing
<1> QED
  BY <1>1, <1>4, <1>5, AccountStays DEF Balance

\* The pieces that were taken from the stock are under way.
LEMMA CreateBalance ==
  ASSUME TransferInv, TransferInv', NEW p \in Procs, NEW id \in TransferIds,
         Transfer!CreateDispatch(p, id)
  PROVE  TransferAloneOK(senders[p])' /\ \A h \in Goods : Balance(p, h)' = Balance(p, h)
<1> DEFINE job == senders[p]
           t == [ source |-> job.source, target |-> job.target, sent |-> job.ask,
                  received |-> Transfer!Nothing, rejected |-> Transfer!Nothing, status |-> "PENDING_RECEIPT" ]
<1>1. /\ job \in Transfer!Deducting /\ job.done = {g \in Goods : job.ask[g] > 0}
      /\ transfers[id] = Transfer!NoTransfer /\ UNCHANGED transferStock
  BY TransferJobOf, TransferJobKinds DEF Transfer!CreateDispatch, TransferInv
<1>2. /\ transfers'[id] = t
      /\ \A i \in TransferIds : i # id => transfers'[i] = transfers[i]
      /\ senders'[p] = Transfer!Idle
  BY DEF Transfer!CreateDispatch, TransferInv, Transfer!TypeOK
<1>3. \A h \in Goods : job.ask[h] \in Nat
  BY <1>1 DEF Transfer!Deducting, Transfer!Quantity
<1>4. \A h \in Goods : /\ Open(t, h) = job.ask[h] /\ Gone(t, h) = 0
                       /\ Open(Transfer!NoTransfer, h) = 0 /\ Gone(Transfer!NoTransfer, h) = 0
  BY <1>3, NoTransferApart DEF Open, Gone, Transfer!Pending, Transfer!Nothing
<1> HIDE DEF t
<1>5. \A h \in Goods : /\ Transfer!UnderWay(h)' = Transfer!UnderWay(h) + job.ask[h] - 0
                       /\ Transfer!Untracked(h)' = Transfer!Untracked(h) + 0 - 0
                       /\ Transfer!InStock(h)' = Transfer!InStock(h)
  BY <1>1, <1>2, <1>4, DispatchMoves, InStockIsSum DEF TransferInv
<1>6. \A h \in Goods : Transfer!InStock(h) \in Int /\ Transfer!UnderWay(h) \in Int /\ Transfer!Untracked(h) \in Int
  BY AccountIsInt DEF TransferInv
<1>7. \A h \in Goods : TransferShift(senders[p], h) = - job.ask[h] /\ TransferShift(senders[p], h)' = 0
  BY <1>1, <1>2, <1>3, IdleIsFine DEF TransferShift, Transfer!Deducting
<1> QED
  BY <1>2, <1>3, <1>5, <1>6, <1>7, TransferShiftOfIdle DEF Balance, Transfer!Accounted

\* What a receipt took and refused is under way no more.
LEMMA ReceiptBalance ==
  ASSUME TransferInv, TransferInv', NEW p \in Procs, Transfer!SaveReceipt(p),
         TransferAloneOK(senders[p])
  PROVE  TransferAloneOK(senders[p])' /\ \A h \in Goods : Balance(p, h)' = Balance(p, h)
<1> DEFINE job == senders[p]
           id == job.id
           t == transfers[id]
           u == transfers'[id]
<1>1. /\ job \in Transfer!Returning /\ job.todo = {} /\ ~job.cancels /\ job.fresh
      /\ job.seen = t /\ t.status # "CANCELLED" /\ job.next.status # "CANCELLED"
      /\ UNCHANGED transferStock
      /\ senders'[p] = Transfer!Idle
  BY TransferJobOf, TransferJobKinds DEF Transfer!SaveReceipt, TransferInv, Transfer!TypeOK,
                                         TransferAloneOK
<1>2. /\ id \in TransferIds /\ u \in Transfer!Transfer /\ SameItems(job.next, u) /\ ReturningOK(job)
      /\ u.status \in {job.next.status, t.status}
      /\ \A i \in TransferIds : i # id => transfers'[i] = transfers[i]
  BY <1>1, SaveReceiptEffect
<1>3. t \in Transfer!Transfer /\ t # Transfer!NoTransfer /\ u # Transfer!NoTransfer
  BY <1>2, TransferOf, NoTransferApart DEF TransferInv, ReturningOK
<1>4. /\ u.sent = t.sent /\ u.target = t.target
      /\ u.received = job.next.received /\ u.rejected = job.next.rejected
  BY <1>1, <1>2 DEF ReturningOK, TransferSettles, SameItems
<1>5. \A h \in Goods :
        /\ t.sent[h] \in Nat /\ t.received[h] \in Nat /\ t.rejected[h] \in Nat
        /\ u.received[h] \in Nat /\ u.rejected[h] \in Nat
  BY <1>2, <1>3 DEF Transfer!Transfer, Transfer!Quantity
<1>6. \A h \in Goods :
        TransferShift(senders[p], h) = (IF t.target \in Located THEN u.received[h] - t.received[h] ELSE 0)
                                       + (u.rejected[h] - t.rejected[h])
        /\ TransferShift(senders[p], h)' = 0
  BY <1>1, <1>4, IdleIsFine DEF TransferShift, TransferAloneOK, Transfer!Returning
<1>7. t.status \in {"PENDING_RECEIPT", "PARTIALLY_RECEIVED", "COMPLETED"}
      /\ u.status \in {"PENDING_RECEIPT", "PARTIALLY_RECEIVED", "COMPLETED"}
  BY <1>1, <1>2, <1>3 DEF Transfer!Transfer
<1>8. \A h \in Goods :
        /\ Open(t, h) = t.sent[h] - t.received[h] - t.rejected[h]
        /\ Open(u, h) = t.sent[h] - u.received[h] - u.rejected[h]
        /\ Gone(t, h) = IF t.target \in Located THEN 0 ELSE t.received[h]
        /\ Gone(u, h) = IF t.target \in Located THEN 0 ELSE u.received[h]
  BY <1>3, <1>4, <1>7 DEF Open, Gone, Transfer!Pending
<1>9. \A h \in Goods : /\ Transfer!UnderWay(h)' = Transfer!UnderWay(h) + Open(u, h) - Open(t, h)
                       /\ Transfer!Untracked(h)' = Transfer!Untracked(h) + Gone(u, h) - Gone(t, h)
                       /\ Transfer!InStock(h)' = Transfer!InStock(h)
  <2>1. Transfer!TypeOK /\ Transfer!TypeOK'
    BY DEF TransferInv
  <2>2. id \in TransferIds /\ \A i \in TransferIds : i # id => transfers'[i] = transfers[i]
    BY <1>2
  <2>3. \A h \in Goods : Transfer!InStock(h)' = Transfer!InStock(h)
    BY <1>1, InStockIsSum
  <2> HIDE DEF id
  <2>4. \A h \in Goods :
          /\ Transfer!UnderWay(h)' = Transfer!UnderWay(h) + Open(transfers'[id], h) - Open(transfers[id], h)
          /\ Transfer!Untracked(h)' = Transfer!Untracked(h) + Gone(transfers'[id], h) - Gone(transfers[id], h)
    BY <2>1, <2>2, DispatchMoves
  <2> QED
    BY <2>3, <2>4
<1>10. \A h \in Goods : Transfer!InStock(h) \in Int /\ Transfer!UnderWay(h) \in Int /\ Transfer!Untracked(h) \in Int
  BY AccountIsInt DEF TransferInv
<1>11. TransferAloneOK(senders[p])'
  BY <1>1, TransferShiftOfIdle
<1> HIDE DEF t, u
<1> QED
  BY <1>5, <1>6, <1>8, <1>9, <1>10, <1>11 DEF Balance, Transfer!Accounted

\* What a cancellation gave back is under way no more.
LEMMA CancelBalance ==
  ASSUME TransferInv, TransferInv', NEW p \in Procs, Transfer!SaveCancel(p),
         TransferAloneOK(senders[p])
  PROVE  TransferAloneOK(senders[p])' /\ \A h \in Goods : Balance(p, h)' = Balance(p, h)
<1> DEFINE job == senders[p]
           id == job.id
           t == transfers[id]
           u == transfers'[id]
<1>1. /\ job \in Transfer!Returning /\ job.todo = {} /\ job.cancels
      /\ job.seen = t /\ t.status # "CANCELLED" /\ UNCHANGED transferStock
      /\ \A h \in Goods : job.back[h] = Transfer!Pending(t, h)
      /\ senders'[p] = Transfer!Idle
  BY TransferJobOf, TransferJobKinds DEF Transfer!SaveCancel, TransferInv, Transfer!TypeOK,
                                         TransferAloneOK
<1>2. /\ id \in TransferIds /\ t \in Transfer!Transfer /\ u \in Transfer!Transfer /\ u.status = "CANCELLED"
      /\ SameItems(t, u)
      /\ \A i \in TransferIds : i # id => transfers'[i] = transfers[i]
  BY SaveCancelEffect DEF TransferInv, Transfer!TypeOK
<1>3. t # Transfer!NoTransfer /\ u # Transfer!NoTransfer /\ t.status # "NONE"
  BY <1>2, NoTransferApart DEF Transfer!Transfer
<1>4. \A h \in Goods : Open(u, h) = 0 /\ Open(t, h) = Transfer!Pending(t, h) /\ Gone(u, h) = Gone(t, h)
  BY <1>1, <1>2, <1>3 DEF Open, Gone, SameItems
<1>5. \A h \in Goods : TransferShift(senders[p], h) = Transfer!Pending(t, h) /\ TransferShift(senders[p], h)' = 0
  <2>1. \A h \in Goods : Transfer!Pending(t, h) \in Int
    BY <1>2 DEF Transfer!Pending, Transfer!Transfer, Transfer!Quantity
  <2> QED
    BY <1>1, <2>1, IdleIsFine DEF TransferShift, Transfer!Returning
<1>6. \A h \in Goods : /\ Transfer!UnderWay(h)' = Transfer!UnderWay(h) + Open(u, h) - Open(t, h)
                       /\ Transfer!Untracked(h)' = Transfer!Untracked(h) + Gone(u, h) - Gone(t, h)
                       /\ Transfer!InStock(h)' = Transfer!InStock(h)
  <2>1. Transfer!TypeOK /\ Transfer!TypeOK'
    BY DEF TransferInv
  <2>2. id \in TransferIds /\ \A i \in TransferIds : i # id => transfers'[i] = transfers[i]
    BY <1>2
  <2>3. \A h \in Goods : Transfer!InStock(h)' = Transfer!InStock(h)
    BY <1>1, InStockIsSum
  <2> HIDE DEF id
  <2>4. \A h \in Goods :
          /\ Transfer!UnderWay(h)' = Transfer!UnderWay(h) + Open(transfers'[id], h) - Open(transfers[id], h)
          /\ Transfer!Untracked(h)' = Transfer!Untracked(h) + Gone(transfers'[id], h) - Gone(transfers[id], h)
    BY <2>1, <2>2, DispatchMoves
  <2> QED
    BY <2>3, <2>4
<1>7. \A h \in Goods : /\ Transfer!InStock(h) \in Int /\ Transfer!UnderWay(h) \in Int /\ Transfer!Untracked(h) \in Int
                       /\ Gone(t, h) \in Int /\ Transfer!Pending(t, h) \in Int
  BY <1>2, AccountIsInt, OpenIsInt DEF TransferInv, Transfer!Pending, Transfer!Transfer,
                                       Transfer!Quantity
<1>8. TransferAloneOK(senders[p])'
  BY <1>1, TransferShiftOfIdle
<1> HIDE DEF t, u
<1> QED
  BY <1>4, <1>5, <1>6, <1>7, <1>8 DEF Balance, Transfer!Accounted

-----------------------------------------------------------------------------
LEMMA TotalIsInt == Transfer!Total \in Int
<1>1. IsFiniteSet(Located)
  BY TransferAssumed, Finite, FS_Subset DEF Transfer!TransferAssumption
<1>2. Cardinality(Located) \in Int /\ Amount \in Int
  BY <1>1, TransferAssumed, FS_CardinalityType DEF Transfer!TransferAssumption
<1> QED
  BY <1>2, TransferSizes DEF Transfer!Total

LEMMA OrderlyNext ==
  ASSUME TransferInv, TransferInv', OrderlyInv, [Transfer!Next]_(Transfer!vars)
  PROVE  OrderlyInv'
<1>1. CASE UNCHANGED Transfer!vars
  <2>1. \A g \in Goods : Transfer!Accounted(g)' = Transfer!Accounted(g)
    BY <1>1, AccountStays DEF Transfer!vars
  <2> QED
    BY <1>1, <2>1 DEF Transfer!vars, OrderlyInv, TransferLone, TransferAloneOK, Transfer!Quiet,
                      Transfer!Flawed
<1>2. ASSUME NEW p \in Procs, Transfer!Begin(p) \/ Transfer!Continue(p), sendersOrderly, sendersOrderly',
             \A q \in Procs \ {p} : senders[q] = Transfer!Idle, ~Transfer!Flawed(senders'[p])
      PROVE  OrderlyInv'
  <2>1. TransferAloneOK(senders[p]) /\ \A h \in Goods : Balance(p, h) = Transfer!Total
    <3>1. \A h \in Goods : TransferShift(senders[p], h) \in Int
      BY TransferShiftIsInt, TransferJobOf DEF TransferInv
    <3> QED
      BY <1>2, <3>1, TotalIsInt DEF OrderlyInv, TransferLone, Balance
  <2>2. TransferAloneOK(senders[p])' /\ \A h \in Goods : Balance(p, h)' = Balance(p, h)
    BY <1>2, <2>1, BeginBalance, DeductBalance, StoreBalance, ReturnBalance, CheckBalance,
       CreateBalance, ReceiptBalance, CancelBalance
    DEF Transfer!Continue
  <2>3. \A q \in Procs : q # p => senders'[q] = Transfer!Idle
    <3>1. ~Transfer!SaveReceipt(p) => \A q \in Procs : q # p => senders'[q] = senders[q]
      <4>1. ASSUME ~Transfer!SaveReceipt(p)
            PROVE  \E job : senders' = [senders EXCEPT ![p] = job]
        <5>1. CASE Transfer!Begin(p)
          BY <5>1 DEF Transfer!Begin, Transfer!BeginTransfer, Transfer!BeginCancel,
                      Transfer!BeginReceive
        <5>2. ASSUME NEW g \in Goods, Transfer!Deduct(p, g) \/ Transfer!Store(p, g) \/ Transfer!ReturnGoods(p, g)
              PROVE  \E job : senders' = [senders EXCEPT ![p] = job]
          BY <5>2 DEF Transfer!Deduct, Transfer!Store, Transfer!ReturnGoods
        <5>3. CASE \E id \in TransferIds : Transfer!CreateDispatch(p, id)
          BY <5>3 DEF Transfer!CreateDispatch
        <5>4. CASE Transfer!CheckRefusals(p) \/ Transfer!SaveCancel(p)
          BY <5>4 DEF Transfer!CheckRefusals, Transfer!SaveCancel
        <5> QED
          BY <1>2, <4>1, <5>1, <5>2, <5>3, <5>4 DEF Transfer!Continue
      <4> QED
        BY <4>1 DEF TransferInv, Transfer!TypeOK
    <3>2. Transfer!SaveReceipt(p) => \A q \in Procs : q # p => senders'[q] = senders[q]
      BY <1>2, IdleIsFine DEF Transfer!SaveReceipt, TransferInv, Transfer!TypeOK
    <3> QED
      BY <1>2, <3>1, <3>2
  <2>4. \A h \in Goods : /\ TransferShift(senders[p], h)' \in Int
                         /\ Transfer!Accounted(h)' \in Int
    <3>1. senders'[p] \in Transfer!Job
      BY TransferJobOf DEF TransferInv, Transfer!TypeOK
    <3>2. \A h \in Goods : TransferShift(senders'[p], h) \in Int
      BY <3>1, TransferShiftIsInt
    <3>4. \A h \in Goods : Transfer!InStock(h)' \in Int /\ Transfer!UnderWay(h)' \in Int /\ Transfer!Untracked(h)' \in Int
      BY AccountIsIntThen DEF TransferInv
    <3> QED
      BY <3>2, <3>4 DEF Transfer!Accounted, TransferShift
  <2>5. \A h \in Goods : Transfer!Accounted(h)' = Transfer!Total + TransferShift(senders[p], h)'
    BY <2>1, <2>2, <2>4, TotalIsInt DEF Balance
  <2>6. \A h \in Goods : senders'[p] = Transfer!Idle => TransferShift(senders[p], h)' = 0
    BY TransferShiftOfIdle DEF TransferShift
  <2>7. \A q \in Procs : q # p => TransferAloneOK(senders[q])' /\ \A h \in Goods : TransferShift(senders[q], h)' = 0
    BY <2>3, TransferShiftOfIdle DEF TransferShift
  <2> QED
    BY <2>2, <2>3, <2>5, <2>6, <2>7, TotalIsInt DEF OrderlyInv, TransferLone, Transfer!Quiet
<1> QED
  BY <1>1, <1>2 DEF Transfer!Next, OrderlyInv

-----------------------------------------------------------------------------
\* At first every good is in stock, and no handler has moved anything.
LEMMA OrderlyInit ==
  ASSUME Transfer!Init
  PROVE  OrderlyInv
<1>1. ASSUME NEW g \in Goods  PROVE Transfer!Accounted(g) = Transfer!Total
  <2> DEFINE rows == [s \in Structures |-> transferStock[s][g]]
             open == [id \in TransferIds |-> Open(transfers[id], g)]
             gone == [id \in TransferIds |-> Gone(transfers[id], g)]
  <2>1. \A s \in Structures : rows[s] = IF s \in Located THEN Amount ELSE 0
    BY DEF Transfer!Init
  <2>2. \A id \in TransferIds : open[id] = 0 /\ gone[id] = 0
    BY NoTransferApart DEF Transfer!Init, Open, Gone
  <2>3. /\ Transfer!InStock(g) = SumFunctionOnSet(rows, Structures)
        /\ Transfer!UnderWay(g) = SumFunctionOnSet(open, TransferIds)
        /\ Transfer!Untracked(g) = SumFunctionOnSet(gone, TransferIds)
    BY InStockIsSum, UnderWayIsSum, UntrackedIsSum
  <2>4. Located \in SUBSET Structures /\ Amount \in Int
    BY TransferAssumed DEF Transfer!TransferAssumption
  <2> HIDE DEF rows, open, gone
  <2>5. SumFunctionOnSet(rows, Structures) = Transfer!Total
    BY <2>1, <2>4, Finite, SumOfEqual, TransferSizes DEF Transfer!Total
  <2>6. SumFunctionOnSet(open, TransferIds) = 0 /\ SumFunctionOnSet(gone, TransferIds) = 0
    <3>1. {} \in SUBSET TransferIds /\ Cardinality({}) = 0 /\ 0 \in Int
      BY FS_EmptySet
    <3>2. \A id \in TransferIds : /\ open[id] = IF id \in {} THEN 0 ELSE 0
                                  /\ gone[id] = IF id \in {} THEN 0 ELSE 0
      BY <2>2
    <3>3. /\ SumFunctionOnSet(open, TransferIds) = 0 * Cardinality({})
          /\ SumFunctionOnSet(gone, TransferIds) = 0 * Cardinality({})
      BY <3>1, <3>2, Finite, SumOfEqual
    <3> QED
      BY <3>1, <3>3
  <2> QED
    BY <2>3, <2>5, <2>6, TotalIsInt DEF Transfer!Accounted
<1>2. \A p \in Procs : senders[p] = Transfer!Idle
  BY DEF Transfer!Init
<1> QED
  BY <1>1, <1>2, TransferShiftOfIdle, TotalIsInt DEF OrderlyInv

LEMMA OrderlyConserves ==
  ASSUME OrderlyInv
  PROVE  Transfer!Conserved
BY DEF OrderlyInv, Transfer!Conserved


-----------------------------------------------------------------------------
(* Stocktake.                                                              *)

LEMMA CountAssumed == Count!StocktakeAssumption
BY WarehouseAssumption DEF WarehouseAssumption

\* The operators of an instance are those the lemmas are about.
LEMMA CountSizes ==
  ASSUME NEW S
  PROVE  /\ Count!IsFiniteSet(S) <=> IsFiniteSet(S)
         /\ Count!Cardinality(S) = Cardinality(S)
BY DEF Count!IsFiniteSet, IsFiniteSet, Count!Cardinality, Cardinality

LEMMA CountSums ==
  ASSUME NEW f, NEW S
  PROVE  /\ Count!SumFunctionOnSet(f, S) = SumFunctionOnSet(f, S)
         /\ Count!SumFunction(f) = SumFunctionOnSet(f, DOMAIN f)
BY DEF Count!SumFunction, Count!SumFunctionOnSet, Count!FoldFunctionOnSet,
       Count!MapThenFoldSet, SumFunctionOnSet, FoldFunctionOnSet, MapThenFoldSet

\* What is recorded does not exceed what the count found.
LinesOK(lines) ==
  \A g \in Goods : /\ lines.excessDeduct[g] <= Count!Excess(lines, g)
                   /\ lines.shortageAdd[g] <= Count!Shortage(lines, g)

Unadjusted(lines) == \A g \in Goods : lines.excessDeduct[g] = 0 /\ lines.shortageAdd[g] = 0

TakesOK ==
  \A id \in TakeIds : takes[id] # Count!NoTake =>
    /\ LinesOK(takes[id].lines)
    /\ takes[id].status = "IN_PROGRESS" => Unadjusted(takes[id].lines)

\* A handler that adjusts lines has found the stocktake completed; its invalid
\* lines are still to come.
CountingOK(job) ==
  /\ job.stage \in {"count", "cancel", "apply"} => takes[job.id] # Count!NoTake
  /\ job.stage = "count" => Unadjusted(job.lines)
  /\ job.stage = "apply" =>
       /\ job.invalid \subseteq job.todo
       /\ \A g \in Goods \ job.invalid :
            /\ job.lines.excessDeduct[g] <= Count!Excess(job.lines, g)
            /\ job.lines.shortageAdd[g] <= Count!Shortage(job.lines, g)
       /\ ~job.completes => takes[job.id].status # "IN_PROGRESS"

CountInv == Count!TypeOK /\ TakesOK /\ \A p \in Procs : CountingOK(counters[p])

-----------------------------------------------------------------------------
(* What a handler holds *)

Scopes == Places \cup {"GENERAL"}
Creating == [stage : {"create"}, scope : Scopes]
Cancelling == [stage : {"cancel"}, id : TakeIds]
Counting == [stage : {"count"}, id : TakeIds, lines : Count!Lines, fresh : BOOLEAN]
Applying ==
  [ stage : {"apply"}, id : TakeIds, lines : Count!Lines, fresh : BOOLEAN,
    completes : BOOLEAN, todo : SUBSET Goods, invalid : SUBSET Goods,
    writes : SUBSET Count!Write ]

LEMMA CountJobKinds ==
  ASSUME NEW job \in Count!Job
  PROVE  /\ job.stage \in {"idle", "create", "cancel", "count", "apply"}
         /\ job.stage = "idle" <=> job = Count!Idle
         /\ job.stage = "create" => job \in Creating
         /\ job.stage = "cancel" => job \in Cancelling
         /\ job.stage = "count" => job \in Counting
         /\ job.stage = "apply" => job \in Applying
BY DEF Count!Job, Count!Idle, Creating, Cancelling, Counting, Applying, Scopes

LEMMA CountJobsAre ==
  /\ Count!Idle \in Count!Job /\ Count!Idle.stage = "idle"
  /\ Creating \subseteq Count!Job /\ Cancelling \subseteq Count!Job /\ Counting \subseteq Count!Job
  /\ Applying \subseteq Count!Job
BY DEF Count!Job, Count!Idle, Creating, Cancelling, Counting, Applying, Scopes

LEMMA CountJobOf == ASSUME Count!TypeOK, NEW p \in Procs  PROVE counters[p] \in Count!Job
BY DEF Count!TypeOK

LEMMA NoTakeApart == Count!NoTake \notin Count!Take /\ Count!NoTake.status = "NONE"
BY DEF Count!NoTake, Count!Take

LEMMA TakeOf ==
  ASSUME Count!TypeOK, NEW id \in TakeIds, takes[id] # Count!NoTake
  PROVE  takes[id] \in Count!Take /\ takes[id].lines \in Count!Lines /\ takes[id].scope \in Scopes
BY DEF Count!TypeOK, Count!Take, Scopes

LEMMA MaxOfTwo ==
  ASSUME NEW a \in Int, NEW b \in Int
  PROVE  Count!Max({a, b}) = IF a >= b THEN a ELSE b
<1> DEFINE m == IF a >= b THEN a ELSE b
<1>1. m \in {a, b} /\ \A y \in {a, b} : m >= y
  OBVIOUS
<1>2. Count!Max({a, b}) \in {a, b} /\ \A y \in {a, b} : Count!Max({a, b}) >= y
  BY <1>1 DEF Count!Max
<1> QED
  BY <1>1, <1>2

LEMMA MinOfTwo ==
  ASSUME NEW a \in Int, NEW b \in Int
  PROVE  Count!Min({a, b}) = IF a <= b THEN a ELSE b
<1> DEFINE m == IF a <= b THEN a ELSE b
<1>1. m \in {a, b} /\ \A y \in {a, b} : m <= y
  OBVIOUS
<1>2. Count!Min({a, b}) \in {a, b} /\ \A y \in {a, b} : Count!Min({a, b}) <= y
  BY <1>1 DEF Count!Min
<1> QED
  BY <1>1, <1>2

LEMMA LineNumbers ==
  ASSUME NEW lines \in Count!Lines, NEW g \in Goods
  PROVE  /\ lines.book[g] \in Nat /\ lines.counted[g] \in Nat
         /\ lines.excessDeduct[g] \in Nat /\ lines.shortageAdd[g] \in Nat
BY DEF Count!Lines, Count!Quantity

\* What a line has too much and too little of.
LEMMA ExcessIs ==
  ASSUME NEW lines \in Count!Lines, NEW g \in Goods
  PROVE  /\ Count!Excess(lines, g) = IF lines.counted[g] > lines.book[g]
                                     THEN lines.counted[g] - lines.book[g] ELSE 0
         /\ Count!Shortage(lines, g) = IF lines.counted[g] # 0 /\ lines.counted[g] < lines.book[g]
                                       THEN lines.book[g] - lines.counted[g] ELSE 0
         /\ Count!Excess(lines, g) \in Nat /\ Count!Shortage(lines, g) \in Nat
<1>1. lines.book[g] \in Nat /\ lines.counted[g] \in Nat
  BY LineNumbers
<1>2. /\ Count!Max({0, lines.counted[g] - lines.book[g]}) =
           IF 0 >= lines.counted[g] - lines.book[g] THEN 0 ELSE lines.counted[g] - lines.book[g]
      /\ Count!Max({0, lines.book[g] - lines.counted[g]}) =
           IF 0 >= lines.book[g] - lines.counted[g] THEN 0 ELSE lines.book[g] - lines.counted[g]
  BY <1>1, MaxOfTwo
<1> QED
  BY <1>1, <1>2 DEF Count!Excess, Count!Shortage

\* The stock a line asks for is a natural number.
LEMMA TargetIsNat ==
  ASSUME NEW lines \in Count!Lines, NEW g \in Goods,
         lines.excessDeduct[g] <= Count!Excess(lines, g)
  PROVE  Count!Target(lines, g) \in Nat
BY LineNumbers, ExcessIs DEF Count!Target

LEMMA UnadjustedIsOK ==
  ASSUME NEW lines \in Count!Lines, Unadjusted(lines)
  PROVE  LinesOK(lines)
BY ExcessIs DEF LinesOK, Unadjusted

LEMMA CountFinite == IsFiniteSet(Goods) /\ IsFiniteSet(Places) /\ "GENERAL" \notin Places
                     /\ Places # {}
BY CountAssumed, CountSizes DEF Count!StocktakeAssumption

LEMMA TotalIsNat ==
  ASSUME NEW row \in [Places -> Nat]
  PROVE  Count!TotalOf(row) = SumFunctionOnSet(row, Places) /\ Count!TotalOf(row) \in Nat
<1>1. DOMAIN row = Places /\ \A l \in Places : row[l] \in Nat
  OBVIOUS
<1>2. SumFunctionOnSet(row, Places) \in Nat
  BY <1>1, CountFinite, SumIsNat
<1> QED
  BY <1>1, <1>2, CountSums DEF Count!TotalOf

LEMMA InScopeIsNat ==
  ASSUME Count!TypeOK, NEW g \in Goods, NEW scope \in Scopes
  PROVE  Count!InScope(g, scope) \in Nat
<1>1. countedStock[g] \in [Places -> Nat]
  BY DEF Count!TypeOK
<1> QED
  BY <1>1, TotalIsNat, CountFinite DEF Count!InScope, Scopes

-----------------------------------------------------------------------------
(* Bringing the stock of a good to a target *)

\* What a row holds in a scope.
Held(row, scope) == IF scope = "GENERAL" THEN Count!TotalOf(row) ELSE row[scope]

\* An order lists every place once.
LEMMA OrdersList ==
  ASSUME NEW row, NEW order \in Count!Orders(row)
  PROVE  /\ order \in [1 .. Cardinality(Places) -> Places]
         /\ Cardinality(Places) \in Nat /\ Cardinality(Places) > 0
         /\ \A i, j \in 1 .. Cardinality(Places) : i # j => order[i] # order[j]
         /\ {order[i] : i \in 1 .. Cardinality(Places)} = Places
<1> DEFINE D == 1 .. Cardinality(Places)
<1>1. order \in [D -> Places] /\ \A i, j \in D : i # j => order[i] # order[j]
  BY CountSizes DEF Count!Orders, Count!SetToSeqs
<1>2. Cardinality(Places) \in Nat /\ Cardinality(Places) > 0
  <2>1. Cardinality(Places) \in Nat /\ Cardinality(Places) = 0 <=> Places = {}
    BY CountFinite, FS_CardinalityType, FS_EmptySet
  <2> QED
    BY <2>1, CountFinite, FS_CardinalityType
<1>3. Cardinality(D) = Cardinality(Places) /\ IsFiniteSet(D)
  BY <1>2, FS_Interval
<1> HIDE DEF D
<1>4. order \in Injection(D, Places)
  BY <1>1 DEF Injection, IsInjective
<1>5. order \in Surjection(D, Places)
  BY <1>3, <1>4, CountFinite, FS_Injection
<1> QED
  BY <1>1, <1>2, <1>5 DEF Surjection, D

\* The updates bring row to what new says.
Brings(writes, g, row, new) ==
  /\ \A w \in writes : /\ w \in Count!Write /\ w.good = g
                       /\ new[w.place] = IF w.kind = "set" THEN w.value
                                         ELSE row[w.place] + w.value
                       /\ w.kind = "inc" => writes = {w}
  /\ \A l \in Places : (\A w \in writes : w.place # l) => new[l] = row[l]

\* The rows give up toRemove pieces altogether.
LEMMA RemovalsReach ==
  ASSUME Count!TypeOK, NEW g \in Goods, NEW order \in Count!Orders(countedStock[g]),
         NEW toRemove \in Nat,
         toRemove > 0, toRemove <= Count!TotalOf(countedStock[g])
  PROVE  \E new \in [Places -> Nat] :
           /\ Brings(Count!Removals(g, order, toRemove), g, countedStock[g], new)
           /\ Count!TotalOf(new) = Count!TotalOf(countedStock[g]) - toRemove
<1> DEFINE n == Cardinality(Places)
           D == 1 .. n
           row == countedStock[g]
           h == [j \in D |-> row[order[j]]]
           before(i) == SumFunctionOnSet(h, 1 .. (i - 1))
           after == [i \in D |-> IF before(i) < toRemove
                                 THEN h[i] - Count!Min({h[i], toRemove - before(i)}) ELSE h[i]]
           at(l) == CHOOSE i \in D : order[i] = l
           new == [l \in Places |-> after[at(l)]]
<1>1. /\ order \in [D -> Places] /\ n \in Nat
      /\ \A i, j \in D : i # j => order[i] # order[j]
      /\ {order[i] : i \in D} = Places
  BY OrdersList
<1>2. row \in [Places -> Nat] /\ \A i \in D : h[i] \in Nat
  BY <1>1 DEF Count!TypeOK
<1>3. DOMAIN order = D
  BY <1>1
<1>4. \A i \in D : before(i) \in Nat
  <2>1. ASSUME NEW i \in D  PROVE before(i) \in Nat
    <3>1. \A j \in 1 .. (i - 1) : j \in D
      BY <1>1
    <3>2. \A j \in 1 .. (i - 1) : h[j] \in Nat
      BY <1>2, <3>1
    <3>3. IsFiniteSet(1 .. (i - 1))
      BY FS_Interval, <1>1
    <3> HIDE DEF h
    <3> QED
      BY <3>2, <3>3, SumIsNat
  <2> QED
    BY <2>1
<1>5. \A i \in D : after[i] \in Nat /\ after[i] = IF before(i) < toRemove
                     THEN IF h[i] <= toRemove - before(i) THEN 0
                          ELSE h[i] - (toRemove - before(i))
                     ELSE h[i]
  <2>1. ASSUME NEW i \in D
        PROVE  /\ after[i] \in Nat
               /\ after[i] = IF before(i) < toRemove
                     THEN IF h[i] <= toRemove - before(i) THEN 0
                          ELSE h[i] - (toRemove - before(i))
                     ELSE h[i]
    <3> DEFINE b == before(i)
               x == h[i]
    <3>1. b \in Nat /\ x \in Nat
      BY <1>2, <1>4
    <3>2. after[i] = IF b < toRemove THEN x - Count!Min({x, toRemove - b}) ELSE x
      OBVIOUS
    <3> HIDE DEF b, x, after
    <3>3. Count!Min({x, toRemove - b}) = IF x <= toRemove - b THEN x ELSE toRemove - b
      BY <3>1, MinOfTwo
    <3> QED
      BY <3>1, <3>2, <3>3 DEF b, x
  <2> QED
    BY <2>1
<1>6. \A i \in D : at(order[i]) = i
  BY <1>1
<1>7. \A l \in Places : at(l) \in D /\ order[at(l)] = l
  BY <1>1
<1>8. new \in [Places -> Nat] /\ \A i \in D : new[order[i]] = after[i]
  BY <1>1, <1>5, <1>6, <1>7
<1>9. Count!Removals(g, order, toRemove) =
        {[good |-> g, place |-> order[i], kind |-> "set",
          value |-> h[i] - Count!Min({h[i], toRemove - before(i)})] :
           i \in {j \in D : before(j) < toRemove}}
  BY <1>3, CountSums DEF Count!Removals
<1> HIDE DEF h, at, new, before
<1>10. Brings(Count!Removals(g, order, toRemove), g, row, new)
  <2>1. ASSUME NEW i \in D, before(i) < toRemove
        PROVE  LET w == [good |-> g, place |-> order[i], kind |-> "set",
                         value |-> h[i] - Count!Min({h[i], toRemove - before(i)})]
               IN  w \in Count!Write /\ new[w.place] = w.value
    <3>1. after[i] = h[i] - Count!Min({h[i], toRemove - before(i)})
      BY <2>1
    <3>2. after[i] \in Nat /\ order[i] \in Places /\ new[order[i]] = after[i]
      BY <1>1, <1>5, <1>8
    <3> QED
      BY <3>1, <3>2 DEF Count!Write
  <2>2. ASSUME NEW l \in Places, \A w \in Count!Removals(g, order, toRemove) : w.place # l
        PROVE  new[l] = row[l]
    <3>1. PICK i \in D : order[i] = l
      BY <1>7
    <3>2. ~(before(i) < toRemove)
      <4> SUFFICES ASSUME before(i) < toRemove  PROVE FALSE
        OBVIOUS
      <4> DEFINE w == [good |-> g, place |-> order[i], kind |-> "set",
                       value |-> h[i] - Count!Min({h[i], toRemove - before(i)})]
      <4>1. w \in Count!Removals(g, order, toRemove)
        BY <1>9
      <4>2. w.place = l
        BY <3>1
      <4> QED
        BY <2>2, <4>1, <4>2
    <3>3. after[i] = h[i] /\ h[i] = row[l]
      BY <3>1, <3>2 DEF h
    <3> QED
      BY <1>8, <3>1, <3>3
  <2>3. ASSUME NEW w \in Count!Removals(g, order, toRemove)
        PROVE  w \in Count!Write /\ w.good = g /\ new[w.place] = w.value /\ w.kind = "set"
    <3>1. PICK i \in D : /\ before(i) < toRemove
                         /\ w = [good |-> g, place |-> order[i], kind |-> "set",
                                 value |-> h[i] - Count!Min({h[i], toRemove - before(i)})]
      BY <1>9
    <3> QED
      BY <2>1, <3>1
  <2> HIDE DEF row
  <2> QED
    BY <2>2, <2>3 DEF Brings
<1> HIDE DEF after
<1>11. Count!TotalOf(new) = SumFunctionOnSet(after, D) /\ Count!TotalOf(row) = SumFunctionOnSet(h, D)
  <2>1. /\ \A l \in Places : new[l] \in Int /\ row[l] \in Int
        /\ \A i \in D : after[i] = new[order[i]] /\ h[i] = row[order[i]]
    BY <1>2, <1>8 DEF h
  <2>2. /\ SumFunctionOnSet(after, D) = SumFunctionOnSet(new, Places)
        /\ SumFunctionOnSet(h, D) = SumFunctionOnSet(row, Places)
    <3>1. /\ order \in [1 .. n -> Places] /\ n \in Nat
          /\ \A i, j \in 1 .. n : i # j => order[i] # order[j]
          /\ \A i \in 1 .. n : after[i] = new[order[i]] /\ h[i] = row[order[i]]
          /\ \A l \in Places : new[l] \in Int /\ row[l] \in Int
          /\ \A l \in Places : \E i \in 1 .. n : order[i] = l
      BY <1>1, <1>7, <2>1
    <3> HIDE DEF row, n
    <3>2. SumFunctionOnSet(after, 1 .. n) = SumFunctionOnSet(new, Places)
      BY <3>1, SumInOrder
    <3>3. SumFunctionOnSet(h, 1 .. n) = SumFunctionOnSet(row, Places)
      BY <3>1, SumInOrder
    <3> QED
      BY <3>2, <3>3
  <2> QED
    BY <1>2, <1>8, <2>2, TotalIsNat
<1>12. SumFunctionOnSet(after, D) = SumFunctionOnSet(h, D) - toRemove
  <2> DEFINE S(k) == SumFunctionOnSet(h, 1 .. k)
             A(k) == SumFunctionOnSet(after, 1 .. k)
             T == {k \in 0 .. n : A(k) = IF S(k) <= toRemove THEN 0 ELSE S(k) - toRemove}
  <2>1. 0 \in T
    <3>1. 1 .. 0 = {} /\ 0 \in 0 .. n
      BY <1>1
    <3>2. S(0) = 0 /\ A(0) = 0
      BY <3>1, SumOfNone
    <3> HIDE DEF S, A
    <3> QED
      BY <3>1, <3>2
  <2>2. ASSUME NEW k \in 0 .. n, k \in T, k < n  PROVE k + 1 \in T
    <3>1. k \in Nat /\ k + 1 \in D /\ k + 1 \in 0 .. n /\ \A i \in 1 .. (k + 1) : i \in D
      BY <1>1, <2>2
    <3>2. \A i \in 1 .. (k + 1) : h[i] \in Int /\ after[i] \in Int
      BY <1>2, <1>5, <3>1
    <3>3. /\ S(k + 1) = S(k) + h[k + 1] /\ S(k) \in Int
          /\ A(k + 1) = A(k) + after[k + 1] /\ A(k) \in Int
      BY <3>1, <3>2, SumNext
    <3>4. before(k + 1) = S(k)
      <4>1. (k + 1) - 1 = k
        BY <3>1
      <4> QED
        BY <4>1 DEF before
    <3>5. S(k) \in Nat
      BY <1>4, <3>1, <3>4
    <3>6. h[k + 1] \in Nat
      BY <1>2, <3>1
    <3>7. after[k + 1] = IF S(k) < toRemove
                         THEN IF h[k + 1] <= toRemove - S(k) THEN 0
                              ELSE h[k + 1] - (toRemove - S(k))
                         ELSE h[k + 1]
      BY <1>5, <3>1, <3>4
    <3>8. A(k) = IF S(k) <= toRemove THEN 0 ELSE S(k) - toRemove
      BY <2>2
    <3> HIDE DEF S, A
    <3>9. A(k + 1) = IF S(k + 1) <= toRemove THEN 0 ELSE S(k + 1) - toRemove
      BY <3>3, <3>5, <3>6, <3>7, <3>8
    <3> QED
      BY <3>1, <3>9
  <2>3. T = 0 .. n
    <3>1. T \in SUBSET (0 .. n)
      OBVIOUS
    <3> HIDE DEF T, n
    <3> QED
      BY <1>1, <2>1, <2>2, <3>1, UpTo
  <2>4. n \in T
    BY <1>1, <2>3
  <2>5. S(n) >= toRemove /\ S(n) \in Int
    BY <1>2, <1>11, TotalIsNat
  <2> HIDE DEF S, A
  <2>6. A(n) = S(n) - toRemove
    BY <2>4, <2>5
  <2> QED
    BY <2>6 DEF S, A
<1> QED
  BY <1>8, <1>10, <1>11, <1>12

LEMMA WritesReach ==
  ASSUME Count!TypeOK, NEW g \in Goods, NEW scope \in Scopes,
         NEW order \in Count!Orders(countedStock[g]),
         NEW target \in Nat
  PROVE  \E new \in [Places -> Nat] :
           /\ Brings(Count!LineWrites(g, scope, order, target), g, countedStock[g], new)
           /\ Held(new, scope) = target
<1> DEFINE row == countedStock[g]
           delta == target - Count!TotalOf(row)
<1>1. row \in [Places -> Nat] /\ Count!TotalOf(row) \in Nat /\ \A l \in Places : row[l] \in Nat
  BY TotalIsNat DEF Count!TypeOK
<1>2. CASE scope # "GENERAL"
  <2> DEFINE w == [good |-> g, place |-> scope, kind |-> "set", value |-> target]
             new == [row EXCEPT ![scope] = target]
  <2>1. scope \in Places /\ Count!LineWrites(g, scope, order, target) = {w}
    BY <1>2 DEF Scopes, Count!LineWrites
  <2>2. new \in [Places -> Nat] /\ new[scope] = target /\ \A l \in Places : l # scope => new[l] = row[l]
    BY <1>1, <2>1
  <2>3. w \in Count!Write /\ w.good = g /\ w.place = scope /\ w.kind = "set" /\ w.value = target
    BY <2>1 DEF Count!Write
  <2> HIDE DEF w, new, row
  <2>4. Brings({w}, g, row, new)
    BY <2>2, <2>3 DEF Brings
  <2> QED
    BY <1>2, <2>1, <2>2, <2>4 DEF Held, row
<1>3. CASE scope = "GENERAL" /\ target = 0
  <2> DEFINE writes == {[good |-> g, place |-> l, kind |-> "set", value |-> 0] : l \in Places}
             new == [l \in Places |-> 0]
  <2>1. Count!LineWrites(g, scope, order, target) = writes
    BY <1>3 DEF Count!LineWrites, Count!GeneralWrites
  <2>2. new \in [Places -> Nat] /\ \A l \in Places : new[l] = IF l \in {} THEN 0 ELSE 0
    OBVIOUS
  <2>3. \A w \in writes : w \in Count!Write /\ w.good = g /\ w.kind = "set" /\ w.value = 0
                          /\ w.place \in Places
    BY DEF Count!Write
  <2>4. ASSUME NEW l \in Places  PROVE \E w \in writes : w.place = l
    <3> DEFINE w == [good |-> g, place |-> l, kind |-> "set", value |-> 0]
    <3>1. w \in writes /\ w.place = l
      OBVIOUS
    <3> QED
      BY <3>1
  <2> HIDE DEF writes, row
  <2>5. Brings(writes, g, row, new)
    BY <2>3, <2>4 DEF Brings
  <2> HIDE DEF new
  <2>6. Count!TotalOf(new) = 0
    <3>1. {} \in SUBSET Places /\ Cardinality({}) = 0 /\ 0 \in Int
      BY FS_EmptySet
    <3>2. SumFunctionOnSet(new, Places) = 0 * Cardinality({})
      BY <2>2, <3>1, CountFinite, SumOfEqual
    <3> QED
      BY <2>2, <3>1, <3>2, TotalIsNat
  <2> QED
    BY <1>3, <2>1, <2>2, <2>5, <2>6 DEF Held, row
<1>4. CASE scope = "GENERAL" /\ target # 0 /\ delta < 0
  <2>1. Count!LineWrites(g, scope, order, target) = Count!Removals(g, order, - delta)
    BY <1>4 DEF Count!LineWrites, Count!GeneralWrites
  <2>2. - delta \in Nat /\ - delta > 0 /\ - delta <= Count!TotalOf(countedStock[g])
        /\ Count!TotalOf(countedStock[g]) - (- delta) = target
    BY <1>1, <1>4
  <2> HIDE DEF delta
  <2>3. PICK new \in [Places -> Nat] :
          /\ Brings(Count!Removals(g, order, - delta), g, countedStock[g], new)
          /\ Count!TotalOf(new) = Count!TotalOf(countedStock[g]) - (- delta)
    BY <2>2, RemovalsReach
  <2> QED
    BY <1>4, <2>1, <2>2, <2>3 DEF Held
<1>5. CASE scope = "GENERAL" /\ target # 0 /\ delta > 0
  <2> DEFINE first == order[1]
             w == [good |-> g, place |-> first, kind |-> "inc", value |-> delta]
             new == [row EXCEPT ![first] = @ + delta]
  <2>1. Count!LineWrites(g, scope, order, target) = {w}
    BY <1>1, <1>5 DEF Count!LineWrites, Count!GeneralWrites
  <2>2. first \in Places /\ delta \in Nat
    <3>1. 1 \in 1 .. Cardinality(Places)
      BY OrdersList
    <3> QED
      BY <1>1, <1>5, <3>1, OrdersList
  <2> HIDE DEF first, delta
  <2>3. /\ new \in [Places -> Nat] /\ new[first] = row[first] + delta
        /\ \A l \in Places : l # first => new[l] = row[l]
    BY <1>1, <2>2
  <2>4. w \in Count!Write /\ w.good = g /\ w.place = first /\ w.kind = "inc" /\ w.value = delta
    BY <2>2 DEF Count!Write
  <2> HIDE DEF w, new, row
  <2>5. Brings({w}, g, row, new)
    BY <2>3, <2>4 DEF Brings
  <2>6. SumFunctionOnSet(new, Places) = SumFunctionOnSet(row, Places) + new[first] - row[first]
    <3>1. \A l \in Places : row[l] \in Int /\ new[l] \in Int
      BY <1>1, <2>3
    <3> QED
      BY <2>2, <2>3, <3>1, CountFinite, SumChangeOne
  <2>7. Count!TotalOf(new) = target
    <3>1. Count!TotalOf(new) = Count!TotalOf(row) + delta
      <4>1. Count!TotalOf(new) = Count!TotalOf(row) + new[first] - row[first]
        BY <1>1, <2>3, <2>6, TotalIsNat
      <4>2. row[first] \in Nat
        BY <1>1, <2>2
      <4> QED
        BY <1>1, <2>2, <2>3, <4>1, <4>2
    <3> QED
      BY <1>1, <3>1 DEF delta
  <2> QED
    BY <1>5, <2>1, <2>3, <2>5, <2>7 DEF Held, row
<1>6. CASE scope = "GENERAL" /\ target # 0 /\ delta = 0
  <2>1. Count!LineWrites(g, scope, order, target) = {}
    BY <1>1, <1>6 DEF Count!LineWrites, Count!GeneralWrites
  <2>2. Brings({}, g, row, row)
    BY DEF Brings
  <2> QED
    BY <1>1, <1>6, <2>1, <2>2 DEF Held
<1> QED
  BY <1>1, <1>2, <1>3, <1>4, <1>5, <1>6

-----------------------------------------------------------------------------
(* Steps that leave the stocktakes and the handlers consistent *)

\* What a step of another handler does to what q holds.
Left(q) ==
  \/ counters'[q] = counters[q]
  \/ /\ counters[q].stage \in {"count", "apply"}
     /\ counters'[q] = [counters[q] EXCEPT !.fresh = FALSE]

LEMMA LeftIs ==
  ASSUME Count!TypeOK, NEW q \in Procs, Left(q)
  PROVE  /\ counters'[q] \in Count!Job /\ counters'[q].stage = counters[q].stage
         /\ counters[q].stage \in {"cancel", "count", "apply"} => counters'[q].id = counters[q].id
         /\ counters[q].stage \in {"count", "apply"} => counters'[q].lines = counters[q].lines
         /\ counters[q].stage = "apply" => /\ counters'[q].invalid = counters[q].invalid
                                           /\ counters'[q].todo = counters[q].todo
                                           /\ counters'[q].writes = counters[q].writes
                                           /\ counters'[q].completes = counters[q].completes
<1>1. CASE counters'[q] = counters[q]
  BY <1>1, CountJobOf
<1>2. CASE counters[q].stage = "count" /\ counters'[q] = [counters[q] EXCEPT !.fresh = FALSE]
  <2>1. counters[q] \in Counting
    BY <1>2, CountJobOf, CountJobKinds
  <2>2. counters'[q] \in Counting
    BY <1>2, <2>1 DEF Counting
  <2> QED
    BY <1>2, <2>1, <2>2, CountJobsAre DEF Counting
<1>3. CASE counters[q].stage = "apply" /\ counters'[q] = [counters[q] EXCEPT !.fresh = FALSE]
  <2>1. counters[q] \in Applying
    BY <1>3, CountJobOf, CountJobKinds
  <2>2. counters'[q] \in Applying
    BY <1>3, <2>1 DEF Applying
  <2> QED
    BY <1>3, <2>1, <2>2, CountJobsAre DEF Applying
<1> QED
  BY <1>1, <1>2, <1>3 DEF Left

\* A step of p, of which the others see at most that their lines are outdated.
StepOf(p, job) ==
  /\ DOMAIN counters' = Procs /\ counters' = [q \in Procs |-> counters'[q]]
  /\ counters'[p] = job
  /\ \A q \in Procs \ {p} : Left(q)

LEMMA StepByExcept ==
  ASSUME Count!TypeOK, NEW p \in Procs, NEW job, counters' = [counters EXCEPT ![p] = job]
  PROVE  StepOf(p, job)
BY DEF StepOf, Count!TypeOK, Left

LEMMA CountStep ==
  ASSUME CountInv, NEW p \in Procs, NEW job \in Count!Job, StepOf(p, job),
         countedStock' \in [Goods -> [Places -> Nat]], countersOrderly' \in BOOLEAN,
         takes' \in [TakeIds -> Count!Take \cup {Count!NoTake}], TakesOK', CountingOK(job)',
         \A id \in TakeIds : takes[id] # Count!NoTake =>
           /\ takes'[id] # Count!NoTake
           /\ takes'[id].status = "IN_PROGRESS" => takes[id].status = "IN_PROGRESS"
  PROVE  CountInv'
<1>1. \A q \in Procs : counters'[q] \in Count!Job
  BY LeftIs DEF StepOf, CountInv
<1>2. Count!TypeOK'
  BY <1>1 DEF StepOf, Count!TypeOK
<1>3. CountingOK(counters[p])'
  <2>1. counters'[p] = job
    BY DEF StepOf
  <2> QED
    BY <2>1 DEF CountingOK
<1>4. ASSUME NEW q \in Procs, q # p  PROVE CountingOK(counters[q])'
  <2>1. CountingOK(counters[q]) /\ Left(q) /\ Count!TypeOK
    BY <1>4 DEF CountInv, StepOf
  <2>2. counters[q].stage \in {"count", "cancel", "apply"} => counters[q].id \in TakeIds
    BY <2>1, CountJobOf, CountJobKinds DEF Counting, Cancelling, Applying
  <2> QED
    BY <2>1, <2>2, LeftIs DEF CountingOK
<1> QED
  BY <1>2, <1>3, <1>4 DEF CountInv

LEMMA CountInit == Count!Init => CountInv
<1> SUFFICES ASSUME Count!Init  PROVE CountInv  OBVIOUS
<1>1. \A p \in Procs : counters[p] = Count!Idle
  BY DEF Count!Init
<1>2. Count!TypeOK
  BY CountJobsAre DEF Count!Init, Count!TypeOK
<1>3. TakesOK
  BY DEF Count!Init, TakesOK
<1> QED
  BY <1>1, <1>2, <1>3, CountJobsAre DEF CountInv, CountingOK

LEMMA LinesOfAre ==
  ASSUME Count!TypeOK, NEW scope \in Scopes
  PROVE  Count!LinesOf(scope) \in Count!Lines /\ Unadjusted(Count!LinesOf(scope))
BY InScopeIsNat DEF Count!LinesOf, Count!Lines, Count!Quantity, Unadjusted

LEMMA CreateCounts ==
  ASSUME CountInv, NEW p \in Procs, NEW id \in TakeIds, Count!Create(p, id),
         countersOrderly' \in BOOLEAN
  PROVE  CountInv'
<1> DEFINE scope == counters[p].scope
           lines == Count!LinesOf(scope)
           take == [status |-> "IN_PROGRESS", scope |-> scope, lines |-> lines]
<1>1. scope \in Scopes /\ Count!TypeOK
  BY CountJobOf, CountJobKinds DEF Count!Create, CountInv, Creating
<1>2. lines \in Count!Lines /\ Unadjusted(lines) /\ LinesOK(lines)
  BY <1>1, LinesOfAre, UnadjustedIsOK
<1>3. takes' = [takes EXCEPT ![id] = take] /\ takes[id] = Count!NoTake
      /\ counters' = [counters EXCEPT ![p] = Count!Idle] /\ countedStock' = countedStock
  BY DEF Count!Create
<1> HIDE DEF lines, scope
<1>4. take \in Count!Take /\ take # Count!NoTake /\ take.lines = lines
  BY <1>1, <1>2 DEF Count!Take, Scopes, Count!NoTake
<1> HIDE DEF take
<1>5. \A i \in TakeIds : takes'[i] = IF i = id THEN take ELSE takes[i]
  BY <1>1, <1>3 DEF Count!TypeOK
<1>6. takes' \in [TakeIds -> Count!Take \cup {Count!NoTake}]
  BY <1>1, <1>3, <1>4 DEF Count!TypeOK
<1>7. TakesOK'
  BY <1>2, <1>4, <1>5 DEF CountInv, TakesOK
<1>8. CountingOK(Count!Idle)'
  BY CountJobsAre DEF CountingOK
<1>9. \A i \in TakeIds : takes[i] # Count!NoTake => takes'[i] = takes[i]
  BY <1>3, <1>5
<1> QED
  BY <1>1, <1>3, <1>4, <1>5, <1>6, <1>7, <1>8, <1>9, CountJobsAre, StepByExcept, CountStep
  DEF Count!TypeOK

\* The stocktakes stay as they are.
LEMMA TakesStayOK ==
  ASSUME CountInv, takes' = takes
  PROVE  /\ TakesOK' /\ takes' \in [TakeIds -> Count!Take \cup {Count!NoTake}]
         /\ \A id \in TakeIds : takes[id] # Count!NoTake =>
              /\ takes'[id] # Count!NoTake
              /\ takes'[id].status = "IN_PROGRESS" => takes[id].status = "IN_PROGRESS"
BY DEF CountInv, TakesOK, Count!TypeOK

\* A handler ends, or begins, and nothing else changes.
LEMMA PhaseCounts ==
  ASSUME CountInv, NEW p \in Procs, NEW job \in Count!Job,
         counters' = [counters EXCEPT ![p] = job],
         CountingOK(job), UNCHANGED <<countedStock, takes>>, countersOrderly' \in BOOLEAN
  PROVE  CountInv'
<1>1. StepOf(p, job)
  BY StepByExcept DEF CountInv
<1>2. CountingOK(job)'
  BY DEF CountingOK
<1> QED
  BY <1>1, <1>2, TakesStayOK, CountStep DEF CountInv, Count!TypeOK

\* A row of the stock changes.
LEMMA StockCounts ==
  ASSUME CountInv, UNCHANGED <<takes, counters>>, countedStock' \in [Goods -> [Places -> Nat]],
         countersOrderly' \in BOOLEAN
  PROVE  CountInv'
BY DEF CountInv, CountingOK, TakesOK, Count!TypeOK

LEMMA BeginCounts ==
  ASSUME CountInv, NEW p \in Procs, Count!Begin(p), countersOrderly' \in BOOLEAN
  PROVE  CountInv'
<1>0. Count!TypeOK /\ TakesOK
  BY DEF CountInv
<1>1. ASSUME NEW scope \in Places \cup {"GENERAL"}, Count!BeginCreate(p, scope)  PROVE CountInv'
  <2> DEFINE job == [stage |-> "create", scope |-> scope]
  <2>1. job \in Count!Job /\ job.stage = "create"
    BY CountJobsAre DEF Creating, Scopes
  <2>2. counters' = [counters EXCEPT ![p] = job] /\ UNCHANGED <<countedStock, takes>>
    BY <1>1 DEF Count!BeginCreate
  <2> HIDE DEF job
  <2>3. CountingOK(job)
    BY <2>1 DEF CountingOK
  <2> QED
    BY <2>1, <2>2, <2>3, PhaseCounts
<1>2. ASSUME NEW id \in TakeIds, NEW g \in Goods, NEW n \in 0..MaxStock, Count!BeginCount(p, id, g, n)
      PROVE  CountInv'
  <2> DEFINE lines == [takes[id].lines EXCEPT !.counted[g] = n]
             job == [stage |-> "count", id |-> id, fresh |-> TRUE, lines |-> lines]
  <2>1. takes[id] # Count!NoTake /\ takes[id].status = "IN_PROGRESS" /\ takes[id].lines \in Count!Lines
        /\ Unadjusted(takes[id].lines)
    BY <1>0, <1>2, NoTakeApart, TakeOf DEF Count!BeginCount, TakesOK
  <2>2. n \in Nat
    BY CountAssumed DEF Count!StocktakeAssumption
  <2>3. lines \in Count!Lines /\ Unadjusted(lines)
    BY <2>1, <2>2 DEF Count!Lines, Count!Quantity, Unadjusted
  <2>4. counters' = [counters EXCEPT ![p] = job] /\ UNCHANGED <<countedStock, takes>>
    BY <1>2 DEF Count!BeginCount
  <2> HIDE DEF lines
  <2>5. job \in Count!Job /\ job.stage = "count" /\ job.id = id /\ job.lines = lines
    BY <2>3, CountJobsAre DEF Counting
  <2> HIDE DEF job
  <2>6. CountingOK(job)
    BY <2>1, <2>3, <2>5 DEF CountingOK
  <2> QED
    BY <2>4, <2>5, <2>6, PhaseCounts
<1>3. ASSUME NEW id \in TakeIds, Count!BeginComplete(p, id)  PROVE CountInv'
  <2> DEFINE job == [ stage |-> "apply", id |-> id, lines |-> takes[id].lines, fresh |-> TRUE,
                      completes |-> TRUE, todo |-> takes[id].lines.of, invalid |-> {},
                      writes |-> {} ]
  <2>1. takes[id] # Count!NoTake /\ takes[id].lines \in Count!Lines /\ LinesOK(takes[id].lines)
    BY <1>0, <1>3, NoTakeApart, TakeOf DEF Count!BeginComplete, TakesOK
  <2>2. counters' = [counters EXCEPT ![p] = job] /\ UNCHANGED <<countedStock, takes>>
    BY <1>3 DEF Count!BeginComplete
  <2>3. job \in Count!Job /\ job.stage = "apply" /\ job.id = id /\ job.lines = takes[id].lines
        /\ job.completes = TRUE /\ job.invalid = {}
    BY <2>1, CountJobsAre DEF Applying, Count!Lines
  <2> HIDE DEF job
  <2>4. CountingOK(job)
    BY <2>1, <2>3 DEF CountingOK, LinesOK
  <2> QED
    BY <2>2, <2>3, <2>4, PhaseCounts
<1>4. ASSUME NEW id \in TakeIds, Count!BeginCancel(p, id)  PROVE CountInv'
  <2> DEFINE job == [stage |-> "cancel", id |-> id]
  <2>1. takes[id] # Count!NoTake
    BY <1>4, NoTakeApart DEF Count!BeginCancel
  <2>2. counters' = [counters EXCEPT ![p] = job] /\ UNCHANGED <<countedStock, takes>>
    BY <1>4 DEF Count!BeginCancel
  <2>3. job \in Count!Job /\ job.stage = "cancel" /\ job.id = id
    BY CountJobsAre DEF Cancelling
  <2> HIDE DEF job
  <2>4. CountingOK(job)
    BY <2>1, <2>3 DEF CountingOK
  <2> QED
    BY <2>2, <2>3, <2>4, PhaseCounts
<1>5. ASSUME NEW id \in TakeIds, NEW asked \in SUBSET Goods, NEW ask \in [asked -> 0..MaxStock],
             Count!BeginAdjust(p, id, ask)
      PROVE  CountInv'
  <2> DEFINE lines == takes[id].lines
             next == Count!Adjusted(lines, ask)
             invalid == Count!Invalid(lines, ask)
             todo == {g \in asked : g \in invalid \/ Count!Target(next, g) # Count!Target(lines, g)}
             job == [ stage |-> "apply", id |-> id, lines |-> next, fresh |-> TRUE,
                      completes |-> FALSE, invalid |-> invalid, writes |-> {}, todo |-> todo ]
  <2>1. takes[id] # Count!NoTake /\ takes[id].status = "COMPLETED" /\ lines \in Count!Lines /\ LinesOK(lines)
    BY <1>0, <1>5, NoTakeApart, TakeOf DEF Count!BeginAdjust, TakesOK
  <2>2. DOMAIN ask = asked /\ \A g \in asked : ask[g] \in Nat
    BY CountAssumed DEF Count!StocktakeAssumption
  <2>3. counters' = [counters EXCEPT ![p] = job] /\ UNCHANGED <<countedStock, takes>>
    BY <1>5, <2>2 DEF Count!BeginAdjust
  <2>4. invalid \in SUBSET asked
    BY <2>2 DEF Count!Invalid
  <2> HIDE DEF lines
  <2>5. /\ next \in Count!Lines
        /\ next.book = lines.book /\ next.counted = lines.counted
        /\ \A g \in Goods :
             /\ next.excessDeduct[g] = IF g \in asked /\ Count!Excess(lines, g) > 0 THEN ask[g]
                                       ELSE lines.excessDeduct[g]
             /\ next.shortageAdd[g] = IF g \in asked /\ Count!Shortage(lines, g) > 0 THEN ask[g]
                                      ELSE lines.shortageAdd[g]
    BY <2>1, <2>2 DEF Count!Adjusted, Count!Lines, Count!Quantity
  <2> HIDE DEF next
  <2>6. \A g \in Goods : Count!Excess(next, g) = Count!Excess(lines, g) /\ Count!Shortage(next, g) = Count!Shortage(lines, g)
    BY <2>5 DEF Count!Excess, Count!Shortage
  <2>7. ASSUME NEW g \in Goods \ invalid
        PROVE  next.excessDeduct[g] <= Count!Excess(next, g) /\ next.shortageAdd[g] <= Count!Shortage(next, g)
    <3>1. g \in asked => ask[g] <= Count!Excess(lines, g) + Count!Shortage(lines, g)
      BY <2>1, <2>2, <2>7, ExcessIs DEF Count!Invalid
    <3>2. lines.excessDeduct[g] <= Count!Excess(lines, g) /\ lines.shortageAdd[g] <= Count!Shortage(lines, g)
      BY <2>1 DEF LinesOK
    <3>3. /\ Count!Excess(lines, g) \in Nat /\ Count!Shortage(lines, g) \in Nat
          /\ Count!Excess(lines, g) = 0 \/ Count!Shortage(lines, g) = 0
      BY <2>1, ExcessIs, LineNumbers
    <3> QED
      BY <2>2, <2>5, <2>6, <3>1, <3>2, <3>3
  <2>8. todo \in SUBSET Goods /\ invalid \subseteq todo
    BY <2>4
  <2> HIDE DEF invalid, todo
  <2>9. job \in Count!Job /\ job.stage = "apply" /\ job.id = id /\ job.lines = next
        /\ job.completes = FALSE /\ job.invalid = invalid /\ job.todo = todo
    BY <2>4, <2>5, <2>8, CountJobsAre DEF Applying
  <2> HIDE DEF job
  <2>10. CountingOK(job)
    BY <2>1, <2>7, <2>8, <2>9 DEF CountingOK
  <2> QED
    BY <2>3, <2>9, <2>10, PhaseCounts
<1> QED
  BY <1>1, <1>2, <1>3, <1>4, <1>5 DEF Count!Begin

\* The lines of a stocktake are replaced.
LEMMA SaveLinesCounts ==
  ASSUME CountInv, NEW p \in Procs, Count!SaveLines(p), countedStock' = countedStock,
         countersOrderly' \in BOOLEAN,
         counters[p] \in Counting \cup Applying, takes[counters[p].id] # Count!NoTake,
         LinesOK(counters[p].lines),
         takes[counters[p].id].status = "IN_PROGRESS" => Unadjusted(counters[p].lines)
  PROVE  CountInv'
<1> DEFINE job == counters[p]
<1>0. Count!TypeOK /\ TakesOK
  BY DEF CountInv
<1>1. job.id \in TakeIds /\ job.lines \in Count!Lines
  BY DEF Counting, Applying
<1>2. CASE ~job.fresh
  BY <1>2, CountJobsAre, PhaseCounts DEF Count!SaveLines, CountingOK
<1>3. CASE job.fresh
  <2> DEFINE take == [takes[job.id] EXCEPT !.lines = job.lines]
  <2>1. takes' = [takes EXCEPT ![job.id] = take] /\ counters' = Count!Outdated(p, job.id)
    BY <1>3 DEF Count!SaveLines
  <2>2. takes[job.id] \in Count!Take
    BY <1>0, <1>1, TakeOf
  <2>3. take \in Count!Take /\ take # Count!NoTake /\ take.lines = job.lines
        /\ take.status = takes[job.id].status
    BY <1>1, <2>2 DEF Count!Take, Count!NoTake
  <2> HIDE DEF take
  <2>4. \A i \in TakeIds : takes'[i] = IF i = job.id THEN take ELSE takes[i]
    BY <1>0, <2>1 DEF Count!TypeOK
  <2>5. takes' \in [TakeIds -> Count!Take \cup {Count!NoTake}]
    BY <1>0, <2>1, <2>3 DEF Count!TypeOK
  <2>6. TakesOK'
    BY <1>0, <2>3, <2>4 DEF TakesOK
  <2>7. StepOf(p, Count!Idle)
    BY <2>1 DEF Count!Outdated, StepOf, Left
  <2>8. CountingOK(Count!Idle)'
    BY CountJobsAre DEF CountingOK
  <2> QED
    BY <1>0, <2>3, <2>4, <2>5, <2>6, <2>7, <2>8, CountJobsAre, CountStep DEF Count!TypeOK
<1> QED
  BY <1>2, <1>3

\* The status of a stocktake is saved.
LEMMA StatusCounts ==
  ASSUME CountInv, NEW p \in Procs, NEW id \in TakeIds, NEW status \in {"COMPLETED", "CANCELLED"},
         takes[id] # Count!NoTake, takes' = [takes EXCEPT ![id].status = status],
         counters' = [counters EXCEPT ![p] = Count!Idle], countedStock' = countedStock, countersOrderly' \in BOOLEAN
  PROVE  CountInv'
<1> DEFINE take == [takes[id] EXCEPT !.status = status]
<1>0. Count!TypeOK /\ TakesOK
  BY DEF CountInv
<1>1. takes[id] \in Count!Take
  BY <1>0, TakeOf
<1>2. take \in Count!Take /\ take # Count!NoTake /\ take.lines = takes[id].lines /\ take.status = status
  BY <1>1 DEF Count!Take, Count!NoTake
<1>3. takes' = [takes EXCEPT ![id] = take]
  OBVIOUS
<1> HIDE DEF take
<1>4. \A i \in TakeIds : takes'[i] = IF i = id THEN take ELSE takes[i]
  BY <1>0, <1>3 DEF Count!TypeOK
<1>5. takes' \in [TakeIds -> Count!Take \cup {Count!NoTake}]
  BY <1>0, <1>2, <1>3 DEF Count!TypeOK
<1>6. TakesOK'
  BY <1>0, <1>2, <1>4 DEF TakesOK
<1>7. CountingOK(Count!Idle)'
  BY CountJobsAre DEF CountingOK
<1>8. StepOf(p, Count!Idle)
  BY <1>0, StepByExcept
<1>9. \A i \in TakeIds : takes[i] # Count!NoTake =>
        /\ takes'[i] # Count!NoTake
        /\ takes'[i].status = "IN_PROGRESS" => takes[i].status = "IN_PROGRESS"
  BY <1>2, <1>4
<1>10. countedStock' \in [Goods -> [Places -> Nat]]
  BY <1>0 DEF Count!TypeOK
<1> QED
  BY <1>5, <1>6, <1>7, <1>8, <1>9, <1>10, CountJobsAre, CountStep

LEMMA NextLineCounts ==
  ASSUME CountInv, NEW p \in Procs, NEW g \in Goods, Count!NextLine(p, g),
         countersOrderly' \in BOOLEAN
  PROVE  CountInv'
<1> DEFINE job == counters[p]
           scope == takes[job.id].scope
<1>0. Count!TypeOK /\ CountingOK(job)
  BY DEF CountInv
<1>1. job \in Applying /\ job.stage = "apply" /\ job.id \in TakeIds /\ scope \in Scopes
  <2>1. job \in Applying /\ job.stage = "apply" /\ takes[job.id] # Count!NoTake
    BY <1>0, CountJobOf, CountJobKinds DEF Count!NextLine, CountingOK
  <2> QED
    BY <1>0, <2>1, TakeOf DEF Applying
<1>2. CASE g \in job.invalid
  BY <1>2, CountJobsAre, PhaseCounts DEF Count!NextLine, CountingOK
<1>3. CASE g \notin job.invalid
  <2>1. PICK order \in Count!Orders(countedStock[g]) :
          counters' = [counters EXCEPT ![p] =
            [job EXCEPT !.todo = @ \ {g},
                        !.writes = Count!LineWrites(g, scope, order, Count!Target(job.lines, g))]]
    BY <1>3 DEF Count!NextLine
  <2> DEFINE target == Count!Target(job.lines, g)
             writes == Count!LineWrites(g, scope, order, target)
             next == [job EXCEPT !.todo = @ \ {g}, !.writes = writes]
  <2>2. target \in Nat
    BY <1>0, <1>1, <1>3, TargetIsNat DEF CountingOK, Applying
  <2> HIDE DEF target
  <2>3. PICK new \in [Places -> Nat] : Brings(writes, g, countedStock[g], new)
    BY <1>0, <1>1, <2>2, WritesReach
  <2> HIDE DEF writes
  <2>4. writes \in SUBSET Count!Write
    BY <2>3 DEF Brings
  <2>5. next \in Count!Job /\ next.stage = "apply" /\ next.id = job.id /\ next.lines = job.lines
        /\ next.completes = job.completes /\ next.invalid = job.invalid
        /\ next.todo = job.todo \ {g}
    BY <1>1, <2>4, CountJobsAre DEF Applying
  <2>6. counters' = [counters EXCEPT ![p] = next] /\ UNCHANGED <<countedStock, takes>>
    BY <2>1 DEF Count!NextLine, writes, target
  <2> HIDE DEF next
  <2>7. CountingOK(next)
    BY <1>0, <1>1, <1>3, <2>5 DEF CountingOK
  <2> QED
    BY <2>5, <2>6, <2>7, PhaseCounts
<1> QED
  BY <1>2, <1>3

LEMMA WriteRowCounts ==
  ASSUME CountInv, NEW p \in Procs, NEW w, Count!WriteRow(p, w), countersOrderly' \in BOOLEAN
  PROVE  CountInv'
<1> DEFINE job == counters[p]
<1>0. Count!TypeOK /\ TakesOK /\ CountingOK(job)
  BY DEF CountInv
<1>1. job \in Applying /\ job.stage = "apply" /\ w \in Count!Write
  BY <1>0, CountJobOf, CountJobKinds DEF Count!WriteRow, Applying
<1>2. PICK next \in Count!Job : next = [job EXCEPT !.writes = @ \ {w}]
  BY <1>1, CountJobsAre DEF Applying
<1>7. next.stage = "apply" /\ next.id = job.id /\ next.lines = job.lines
      /\ next.completes = job.completes /\ next.invalid = job.invalid /\ next.todo = job.todo
  BY <1>1, <1>2 DEF Applying
<1>3. counters' = [counters EXCEPT ![p] = next] /\ takes' = takes
  BY <1>2 DEF Count!WriteRow
<1>4. CountingOK(next)'
  BY <1>0, <1>1, <1>3, <1>7 DEF CountingOK
<1>5. countedStock' \in [Goods -> [Places -> Nat]]
  <2>1. /\ w.good \in Goods /\ w.place \in Places /\ w.value \in Nat
        /\ countedStock[w.good][w.place] \in Nat
    BY <1>0, <1>1 DEF Count!Write, Count!TypeOK
  <2> QED
    BY <1>0, <2>1 DEF Count!WriteRow, Count!TypeOK
<1>6. StepOf(p, next)
  BY <1>0, <1>3, StepByExcept
<1> QED
  BY <1>2, <1>3, <1>4, <1>5, <1>6, TakesStayOK, CountStep

LEMMA CountNext ==
  ASSUME CountInv, [Count!Next]_(Count!vars)
  PROVE  CountInv'
<1>0. Count!TypeOK
  BY DEF CountInv
<1>1. CASE UNCHANGED Count!vars
  BY <1>1 DEF Count!vars, CountInv, CountingOK, TakesOK, Count!TypeOK
<1>2. ASSUME NEW p \in Procs, Count!Begin(p) \/ Count!Continue(p), countersOrderly' \in BOOLEAN
      PROVE  CountInv'
  <2> DEFINE job == counters[p]
  <2>1. CountingOK(job) /\ job \in Count!Job
    BY CountJobOf DEF CountInv
  <2>2. CASE Count!SaveCount(p)
    <3>1. job \in Counting /\ takes[job.id] # Count!NoTake /\ Unadjusted(job.lines)
      BY <2>1, <2>2, CountJobKinds DEF Count!SaveCount, CountingOK
    <3>2. LinesOK(job.lines)
      BY <3>1, UnadjustedIsOK DEF Counting
    <3> QED
      BY <1>2, <2>2, <3>1, <3>2, SaveLinesCounts DEF Count!SaveCount
  <2>3. CASE Count!SaveAdjust(p)
    <3>1. job \in Applying /\ takes[job.id] # Count!NoTake /\ job.invalid = {}
          /\ takes[job.id].status # "IN_PROGRESS"
      BY <2>1, <2>3, CountJobKinds DEF Count!SaveAdjust, CountingOK
    <3>2. LinesOK(job.lines)
      BY <2>1, <2>3, <3>1 DEF Count!SaveAdjust, CountingOK, LinesOK
    <3> QED
      BY <1>2, <2>3, <3>1, <3>2, SaveLinesCounts DEF Count!SaveAdjust
  <2>4. CASE Count!SaveComplete(p)
    <3>1. job.id \in TakeIds /\ takes[job.id] # Count!NoTake
      BY <2>1, <2>4, CountJobKinds DEF Count!SaveComplete, CountingOK, Applying
    <3> QED
      BY <1>2, <2>4, <3>1, StatusCounts DEF Count!SaveComplete
  <2>5. CASE Count!SaveCancel(p)
    <3>1. job.id \in TakeIds /\ takes[job.id] # Count!NoTake
      BY <2>1, <2>5, CountJobKinds DEF Count!SaveCancel, CountingOK, Cancelling
    <3> QED
      BY <1>2, <2>5, <3>1, StatusCounts DEF Count!SaveCancel
  <2> QED
    BY <1>2, <2>2, <2>3, <2>4, <2>5, BeginCounts, CreateCounts, NextLineCounts, WriteRowCounts
    DEF Count!Continue
<1>3. ASSUME NEW p \in Procs, Count!Crash(p), countersOrderly' \in BOOLEAN  PROVE CountInv'
  <2>1. CountingOK(Count!Idle)
    BY CountJobsAre DEF CountingOK
  <2> QED
    BY <1>3, <2>1, CountJobsAre, PhaseCounts DEF Count!Crash
<1>4. ASSUME NEW g \in Goods, NEW l \in Places, Count!Move(g, l), countersOrderly' \in BOOLEAN  PROVE CountInv'
  <2>1. countedStock[g][l] \in Nat
    BY <1>0 DEF Count!TypeOK
  <2>2. countedStock' \in [Goods -> [Places -> Nat]]
    BY <1>0, <1>4, <2>1 DEF Count!Move, Count!TypeOK
  <2> QED
    BY <1>4, <2>2, StockCounts DEF Count!Move
<1> QED
  BY <1>0, <1>1, <1>2, <1>3, <1>4 DEF Count!Next, Count!Mishap, Count!TypeOK

-----------------------------------------------------------------------------
(* The account of a handler that nothing overlapped: T stands for the        *)
(* stocktakes, S for the stock.                                              *)

\* The stocktakes whose count the stock was, or is being, set to.
Touched(job, T, id) ==
  T[id].status = "COMPLETED" \/ (job.stage = "apply" /\ job.id = id)

\* The goods whose stock should be what a stocktake says: no other one has touched
\* the good, and its line was reached.
Due(job, T, id, g) ==
  /\ T[id] # Count!NoTake /\ Touched(job, T, id) /\ g \in T[id].lines.of
  /\ \A other \in TakeIds \ {id} : Touched(job, T, other) => g \notin T[other].lines.of
  /\ ~(job.stage = "apply" /\ job.id = id /\ job.completes /\ g \in job.todo)

Wanted(job, T, id, g) ==
  IF job.stage = "apply" /\ job.id = id /\ g \notin job.todo THEN Count!Target(job.lines, g)
  ELSE Count!Target(T[id].lines, g)

\* The updates still to be made bring the row of g to new.
Reaches(job, g, row, new) ==
  IF job.stage = "apply"
  THEN /\ \A w \in job.writes : w.good = g =>
            new[w.place] = IF w.kind = "set" THEN w.value ELSE row[w.place] + w.value
       /\ \A l \in Places :
            (\A w \in job.writes : w.good = g => w.place # l) => new[l] = row[l]
  ELSE new = row

CountSettles(job, T, S) ==
  \A id \in TakeIds, g \in Goods : Due(job, T, id, g) =>
    \E new \in [Places -> Nat] :
      Reaches(job, g, S[g], new) /\ Held(new, T[id].scope) = Wanted(job, T, id, g)

\* The same, between two lines.
Agrees(job, T, S) ==
  \A id \in TakeIds, g \in Goods :
    Due(job, T, id, g) => Held(S[g], T[id].scope) = Wanted(job, T, id, g)

CountAloneOK(job, T) ==
  /\ job.stage \in {"count", "cancel"} => T[job.id].status = "IN_PROGRESS"
  /\ job.stage \in {"count", "apply"} => job.fresh
  /\ job.stage = "apply" =>
       /\ job.completes => /\ T[job.id].status = "IN_PROGRESS"
                           /\ job.lines = T[job.id].lines
                           /\ job.invalid = {}
       /\ ~job.completes => T[job.id].status = "COMPLETED"
       /\ job.lines.of = T[job.id].lines.of
       /\ job.todo \ job.invalid \subseteq job.lines.of
       /\ \A w \in job.writes : /\ w.good \in job.lines.of \ job.todo
                                /\ w.kind = "inc" => job.writes = {w}
       /\ \A w, v \in job.writes : w.good = v.good

CountSound(job, T, S) == CountAloneOK(job, T) /\ CountSettles(job, T, S)

CountLone(p) == \A q \in Procs \ {p} : counters[q] = Count!Idle

OrderlyCount ==
  countersOrderly => /\ \A p \in Procs : counters[p] = Count!Idle \/ CountLone(p)
                     /\ Count!Quiet => CountSound(Count!Idle, takes, countedStock)
                     /\ \A p \in Procs : CountLone(p) => CountSound(counters[p], takes, countedStock)

\* Between two lines, and when no line is under way, no update is pending.
LEMMA SettlesBetween ==
  ASSUME NEW job, NEW T, NEW S \in [Goods -> [Places -> Nat]],
         job.stage = "apply" => job.writes = {}
  PROVE  CountSettles(job, T, S) <=> Agrees(job, T, S)
<1>1. ASSUME NEW g \in Goods, NEW new \in [Places -> Nat]
      PROVE  Reaches(job, g, S[g], new) <=> new = S[g]
  <2>1. S[g] \in [Places -> Nat]
    OBVIOUS
  <2>2. CASE job.stage = "apply"
    <3>1. Reaches(job, g, S[g], new) <=> \A l \in Places : new[l] = S[g][l]
      BY <2>2 DEF Reaches
    <3>2. (\A l \in Places : new[l] = S[g][l]) <=> new = S[g]
      BY <2>1
    <3> QED
      BY <3>1, <3>2
  <2>3. CASE job.stage # "apply"
    BY <2>3 DEF Reaches
  <2> QED
    BY <2>2, <2>3
<1>2. \A g \in Goods : S[g] \in [Places -> Nat]
  OBVIOUS
<1> QED
  BY <1>1, <1>2 DEF CountSettles, Agrees

\* A handler that changes no stock owes what an idle one does.
LEMMA AgreesAsIdle ==
  ASSUME NEW job, NEW T, NEW S, job.stage # "apply"
  PROVE  Agrees(job, T, S) <=> Agrees(Count!Idle, T, S)
BY CountJobsAre DEF Agrees, Due, Touched, Wanted

LEMMA SettlesAsIdle ==
  ASSUME NEW job, NEW T, NEW S \in [Goods -> [Places -> Nat]], job.stage # "apply"
  PROVE  CountSettles(job, T, S) <=> Agrees(Count!Idle, T, S)
BY SettlesBetween, AgreesAsIdle

\* Stocktakes change that are not completed, before and after.
LEMMA OtherTakes ==
  ASSUME NEW T, NEW U, NEW S, Agrees(Count!Idle, T, S),
         \A id \in TakeIds : U[id] = T[id] \/ (/\ T[id].status # "COMPLETED"
                                               /\ U[id].status # "COMPLETED")
  PROVE  Agrees(Count!Idle, U, S)
<1> SUFFICES ASSUME NEW id \in TakeIds, NEW g \in Goods, Due(Count!Idle, U, id, g)
             PROVE  Held(S[g], U[id].scope) = Wanted(Count!Idle, U, id, g)
  BY DEF Agrees
<1>1. \A i \in TakeIds : Touched(Count!Idle, U, i) <=> Touched(Count!Idle, T, i)
  BY CountJobsAre DEF Touched
<1>2. Touched(Count!Idle, U, id) /\ U[id].status = "COMPLETED" /\ U[id] = T[id]
  BY CountJobsAre DEF Due, Touched
<1>3. \A i \in TakeIds : Touched(Count!Idle, T, i) => U[i] = T[i]
  BY CountJobsAre DEF Touched
<1>4. Due(Count!Idle, T, id, g)
  BY <1>1, <1>2, <1>3, CountJobsAre DEF Due
<1> QED
  BY <1>2, <1>4, CountJobsAre DEF Agrees, Wanted

\* The next step of p, as far as the account goes.
LEMMA SoundBegin ==
  ASSUME CountInv, NEW p \in Procs, CountSound(counters[p], takes, countedStock), Count!Begin(p)
  PROVE  CountSound(counters[p], takes, countedStock)'
<1>0. Count!TypeOK /\ countedStock \in [Goods -> [Places -> Nat]] /\ counters[p] = Count!Idle
  BY DEF CountInv, Count!TypeOK, Count!Begin, Count!BeginCreate, Count!BeginCount,
         Count!BeginComplete, Count!BeginCancel, Count!BeginAdjust
<1>1. Agrees(Count!Idle, takes, countedStock)
  BY <1>0, CountJobsAre, SettlesAsIdle DEF CountSound
<1>2. ASSUME NEW next, counters' = [counters EXCEPT ![p] = next], UNCHANGED <<countedStock, takes>>,
             CountAloneOK(next, takes), next.stage = "apply" => next.writes = {},
             Agrees(next, takes, countedStock)
      PROVE  CountSound(counters[p], takes, countedStock)'
  <2>1. counters'[p] = next
    BY <1>0, <1>2 DEF Count!TypeOK
  <2>2. CountSettles(next, takes, countedStock)
    BY <1>0, <1>2, SettlesBetween
  <2>3. CountSound(next, takes', countedStock')
    BY <1>2, <2>2 DEF CountSound
  <2> QED
    BY <2>1, <2>3
<1>3. ASSUME NEW scope \in Places \cup {"GENERAL"}, Count!BeginCreate(p, scope)
      PROVE  CountSound(counters[p], takes, countedStock)'
  <2> DEFINE next == [stage |-> "create", scope |-> scope]
  <2>1. counters' = [counters EXCEPT ![p] = next] /\ UNCHANGED <<countedStock, takes>>
    BY <1>3 DEF Count!BeginCreate
  <2>2. next.stage = "create"
    OBVIOUS
  <2> HIDE DEF next
  <2>3. CountAloneOK(next, takes) /\ Agrees(next, takes, countedStock)
    BY <1>1, <2>2, AgreesAsIdle DEF CountAloneOK
  <2> QED
    BY <1>2, <2>1, <2>2, <2>3
<1>4. ASSUME NEW id \in TakeIds, NEW g \in Goods, NEW n \in 0..MaxStock, Count!BeginCount(p, id, g, n)
      PROVE  CountSound(counters[p], takes, countedStock)'
  <2> DEFINE next == [ stage |-> "count", id |-> id, fresh |-> TRUE,
                       lines |-> [takes[id].lines EXCEPT !.counted[g] = n] ]
  <2>1. /\ counters' = [counters EXCEPT ![p] = next] /\ UNCHANGED <<countedStock, takes>>
        /\ takes[id].status = "IN_PROGRESS"
    BY <1>4 DEF Count!BeginCount
  <2>2. next.stage = "count" /\ next.id = id /\ next.fresh
    OBVIOUS
  <2> HIDE DEF next
  <2>3. CountAloneOK(next, takes) /\ Agrees(next, takes, countedStock)
    BY <1>1, <2>1, <2>2, AgreesAsIdle DEF CountAloneOK
  <2> QED
    BY <1>2, <2>1, <2>2, <2>3
<1>5. ASSUME NEW id \in TakeIds, Count!BeginCancel(p, id)  PROVE CountSound(counters[p], takes, countedStock)'
  <2> DEFINE next == [stage |-> "cancel", id |-> id]
  <2>1. /\ counters' = [counters EXCEPT ![p] = next] /\ UNCHANGED <<countedStock, takes>>
        /\ takes[id].status = "IN_PROGRESS"
    BY <1>5 DEF Count!BeginCancel
  <2>2. next.stage = "cancel" /\ next.id = id
    OBVIOUS
  <2> HIDE DEF next
  <2>3. CountAloneOK(next, takes) /\ Agrees(next, takes, countedStock)
    BY <1>1, <2>1, <2>2, AgreesAsIdle DEF CountAloneOK
  <2> QED
    BY <1>2, <2>1, <2>2, <2>3
<1>6. ASSUME NEW id \in TakeIds, Count!BeginComplete(p, id)  PROVE CountSound(counters[p], takes, countedStock)'
  <2> DEFINE next == [ stage |-> "apply", id |-> id, lines |-> takes[id].lines, fresh |-> TRUE,
                       completes |-> TRUE, todo |-> takes[id].lines.of, invalid |-> {},
                       writes |-> {} ]
  <2>1. /\ counters' = [counters EXCEPT ![p] = next] /\ UNCHANGED <<countedStock, takes>>
        /\ takes[id].status = "IN_PROGRESS"
    BY <1>6 DEF Count!BeginComplete
  <2>2. /\ next.stage = "apply" /\ next.id = id /\ next.fresh /\ next.completes
        /\ next.lines = takes[id].lines /\ next.todo = takes[id].lines.of
        /\ next.invalid = {} /\ next.writes = {}
    OBVIOUS
  <2> HIDE DEF next
  <2>3. CountAloneOK(next, takes)
    BY <2>1, <2>2 DEF CountAloneOK
  <2>4. ASSUME NEW i \in TakeIds, NEW g \in Goods, Due(next, takes, i, g)
        PROVE  Held(countedStock[g], takes[i].scope) = Wanted(next, takes, i, g)
    <3>1. i # id
      BY <2>2, <2>4 DEF Due
    <3>2. Due(Count!Idle, takes, i, g)
      BY <2>2, <2>4, <3>1, CountJobsAre DEF Due, Touched
    <3>3. Wanted(next, takes, i, g) = Wanted(Count!Idle, takes, i, g)
      BY <2>2, <3>1, CountJobsAre DEF Wanted
    <3> QED
      BY <1>1, <3>2, <3>3 DEF Agrees
  <2> QED
    BY <1>2, <2>1, <2>2, <2>3, <2>4 DEF Agrees
<1>7. ASSUME NEW id \in TakeIds, NEW asked \in SUBSET Goods, NEW ask \in [asked -> 0..MaxStock], Count!BeginAdjust(p, id, ask)
      PROVE  CountSound(counters[p], takes, countedStock)'
  <2> DEFINE lines == takes[id].lines
             adjusted == Count!Adjusted(lines, ask)
             invalid == Count!Invalid(lines, ask)
             todo == {g \in asked : g \in invalid \/ Count!Target(adjusted, g) # Count!Target(lines, g)}
             next == [ stage |-> "apply", id |-> id, lines |-> adjusted, fresh |-> TRUE,
                       completes |-> FALSE, invalid |-> invalid, writes |-> {}, todo |-> todo ]
  <2>1. takes[id] # Count!NoTake /\ takes[id].status = "COMPLETED" /\ lines \in Count!Lines
    BY <1>0, <1>7, NoTakeApart, TakeOf DEF Count!BeginAdjust
  <2>2. DOMAIN ask = asked
    OBVIOUS
  <2>3. counters' = [counters EXCEPT ![p] = next] /\ UNCHANGED <<countedStock, takes>>
    BY <1>7, <2>2 DEF Count!BeginAdjust
  <2>4. invalid \in SUBSET asked /\ \A g \in asked \ invalid : g \in lines.of
    BY <2>2 DEF Count!Invalid
  <2> HIDE DEF lines
  <2>6. /\ adjusted.of = lines.of
        /\ \A g \in Goods \ asked : Count!Target(adjusted, g) = Count!Target(lines, g)
    BY <2>1, <2>2 DEF Count!Adjusted, Count!Lines, Count!Quantity, Count!Target
  <2> HIDE DEF adjusted, invalid
  <2>7. /\ \A g \in Goods \ todo : Count!Target(adjusted, g) = Count!Target(lines, g)
        /\ todo \ invalid \subseteq lines.of
    <3>1. ASSUME NEW g \in Goods \ todo  PROVE Count!Target(adjusted, g) = Count!Target(lines, g)
      BY <2>6
    <3>2. todo \ invalid \subseteq lines.of
      BY <2>4
    <3> QED
      BY <3>1, <3>2
  <2> HIDE DEF todo
  <2>8. /\ next.stage = "apply" /\ next.id = id /\ next.fresh /\ next.completes = FALSE
        /\ next.lines = adjusted /\ next.todo = todo
        /\ next.invalid = invalid /\ next.writes = {}
    OBVIOUS
  <2> HIDE DEF next
  <2>9. CountAloneOK(next, takes)
    BY <2>1, <2>6, <2>7, <2>8 DEF CountAloneOK, lines
  <2>10. ASSUME NEW i \in TakeIds, NEW g \in Goods, Due(next, takes, i, g)
        PROVE  Held(countedStock[g], takes[i].scope) = Wanted(next, takes, i, g)
    <3>1. \A j \in TakeIds : Touched(next, takes, j) <=> Touched(Count!Idle, takes, j)
      BY <2>1, <2>8, CountJobsAre DEF Touched
    <3>2. Due(Count!Idle, takes, i, g)
      BY <2>10, <3>1, CountJobsAre DEF Due
    <3>3. Wanted(next, takes, i, g) = Wanted(Count!Idle, takes, i, g)
      BY <2>7, <2>8, CountJobsAre DEF Wanted, lines
    <3> QED
      BY <1>1, <3>2, <3>3 DEF Agrees
  <2> QED
    BY <1>2, <2>3, <2>8, <2>9, <2>10 DEF Agrees
<1> QED
  BY <1>3, <1>4, <1>5, <1>6, <1>7 DEF Count!Begin

\* The handler ends: what is left is the account of an idle one.
LEMMA SoundAtEnd ==
  ASSUME CountInv, NEW p \in Procs, counters'[p] = Count!Idle, countedStock' = countedStock,
         Agrees(Count!Idle, takes', countedStock)
  PROVE  CountSound(counters[p], takes, countedStock)'
<1>1. countedStock \in [Goods -> [Places -> Nat]]
  BY DEF CountInv, Count!TypeOK
<1> DEFINE T == takes'
<1>2. Agrees(Count!Idle, T, countedStock)
  OBVIOUS
<1> HIDE DEF T
<1>3. CountSettles(Count!Idle, T, countedStock)
  BY <1>1, <1>2, CountJobsAre, SettlesAsIdle
<1>4. CountAloneOK(Count!Idle, T)
  BY CountJobsAre DEF CountAloneOK
<1>5. CountSound(Count!Idle, T, countedStock)
  BY <1>3, <1>4 DEF CountSound
<1> QED
  BY <1>5 DEF T

LEMMA IdleAfterSave ==
  ASSUME CountInv, NEW p \in Procs, Count!SaveLines(p)
  PROVE  counters'[p] = Count!Idle
BY DEF Count!SaveLines, Count!Outdated, CountInv, Count!TypeOK

LEMMA SoundSave ==
  ASSUME CountInv, NEW p \in Procs, CountSound(counters[p], takes, countedStock),
         \/ \E id \in TakeIds : Count!Create(p, id)
         \/ Count!SaveCount(p) \/ Count!SaveComplete(p) \/ Count!SaveCancel(p) \/ Count!SaveAdjust(p)
  PROVE  CountSound(counters[p], takes, countedStock)'
<1> DEFINE job == counters[p]
           T == takes'
<1>0. Count!TypeOK /\ job \in Count!Job /\ countedStock \in [Goods -> [Places -> Nat]] /\ CountAloneOK(job, takes)
      /\ CountingOK(job)
  BY CountJobOf DEF CountInv, Count!TypeOK, CountSound
<1>1. counters'[p] = Count!Idle /\ countedStock' = countedStock
  <2>1. CASE Count!SaveCount(p) \/ Count!SaveAdjust(p)
    BY <2>1, IdleAfterSave DEF Count!SaveCount, Count!SaveAdjust
  <2>2. CASE (\E id \in TakeIds : Count!Create(p, id)) \/ Count!SaveComplete(p) \/ Count!SaveCancel(p)
    BY <1>0, <2>2 DEF Count!Create, Count!SaveComplete, Count!SaveCancel, Count!TypeOK
  <2> QED
    BY <2>1, <2>2
<1>2. CASE job.stage # "apply"
  <2>1. Agrees(Count!Idle, takes, countedStock)
    BY <1>0, <1>2, SettlesAsIdle DEF CountSound
  <2>2. ASSUME NEW id \in TakeIds
        PROVE  T[id] = takes[id] \/ (takes[id].status # "COMPLETED" /\ T[id].status # "COMPLETED")
    <3>1. ASSUME NEW i \in TakeIds, Count!Create(p, i)
          PROVE  T[id] = takes[id] \/ (takes[id].status # "COMPLETED" /\ T[id].status # "COMPLETED")
      BY <1>0, <3>1, NoTakeApart DEF Count!Create, Count!TypeOK
    <3>2. CASE Count!SaveCount(p)
      <4>1. job \in Counting /\ takes[job.id].status = "IN_PROGRESS" /\ job.fresh
            /\ takes[job.id] # Count!NoTake
        BY <1>0, <3>2, CountJobKinds DEF Count!SaveCount, CountAloneOK, CountingOK
      <4>2. takes[job.id] \in Count!Take
        BY <1>0, <4>1, TakeOf DEF Counting
      <4>3. T = [takes EXCEPT ![job.id].lines = job.lines]
        BY <3>2, <4>1 DEF Count!SaveCount, Count!SaveLines
      <4> QED
        BY <1>0, <4>1, <4>2, <4>3 DEF Count!TypeOK, Count!Take
    <3>3. CASE Count!SaveCancel(p)
      <4>1. job \in Cancelling /\ takes[job.id].status = "IN_PROGRESS" /\ takes[job.id] # Count!NoTake
        BY <1>0, <3>3, CountJobKinds DEF Count!SaveCancel, CountAloneOK, CountingOK
      <4>2. takes[job.id] \in Count!Take
        BY <1>0, <4>1, TakeOf DEF Cancelling
      <4>3. T = [takes EXCEPT ![job.id].status = "CANCELLED"]
        BY <3>3 DEF Count!SaveCancel
      <4> QED
        BY <1>0, <4>1, <4>2, <4>3 DEF Count!TypeOK, Count!Take
    <3> QED
      BY <1>2, <3>1, <3>2, <3>3 DEF Count!SaveComplete, Count!SaveAdjust
  <2> HIDE DEF T
  <2>3. Agrees(Count!Idle, T, countedStock)
    BY <2>1, <2>2, OtherTakes
  <2> QED
    BY <1>1, <2>3, SoundAtEnd DEF T
<1>3. CASE job.stage = "apply"
  <2> DEFINE id == job.id
  <2>1. job \in Applying /\ id \in TakeIds /\ takes[id] # Count!NoTake /\ job.fresh
    BY <1>0, <1>3, CountJobKinds DEF CountingOK, CountAloneOK, Applying
  <2>2. takes[id] \in Count!Take
    BY <1>0, <2>1, TakeOf
  <2>3. job.todo = {} /\ job.writes = {} /\ (Count!SaveComplete(p) \/ Count!SaveAdjust(p))
    BY <1>3 DEF Count!Create, Count!SaveCount, Count!SaveComplete, Count!SaveCancel,
                Count!SaveAdjust
  <2>4. /\ T[id] # Count!NoTake /\ T[id].status = "COMPLETED" /\ T[id].scope = takes[id].scope
        /\ T[id].lines = job.lines /\ job.lines.of = takes[id].lines.of
        /\ \A i \in TakeIds \ {id} : T[i] = takes[i]
    <3>1. CASE Count!SaveComplete(p)
      <4>1. job.completes /\ T = [takes EXCEPT ![id].status = "COMPLETED"]
            /\ job.lines = takes[id].lines
        BY <1>0, <1>3, <3>1 DEF Count!SaveComplete, CountAloneOK
      <4> QED
        BY <1>0, <2>1, <2>2, <4>1 DEF Count!TypeOK, Count!Take, Count!NoTake
    <3>2. CASE Count!SaveAdjust(p)
      <4>1. ~job.completes /\ T = [takes EXCEPT ![id].lines = job.lines]
            /\ takes[id].status = "COMPLETED" /\ job.lines.of = takes[id].lines.of
        BY <1>0, <1>3, <2>1, <3>2 DEF Count!SaveAdjust, Count!SaveLines, CountAloneOK
      <4> QED
        BY <1>0, <2>1, <2>2, <4>1 DEF Count!TypeOK, Count!Take, Count!NoTake
    <3> QED
      BY <2>3, <3>1, <3>2
  <2>5. Agrees(job, takes, countedStock)
    BY <1>0, <2>3, SettlesBetween DEF CountSound
  <2> HIDE DEF T, id, job
  <2>6. ASSUME NEW i \in TakeIds, NEW g \in Goods, Due(Count!Idle, T, i, g)
        PROVE  Held(countedStock[g], T[i].scope) = Wanted(Count!Idle, T, i, g)
    <3>1. \A j \in TakeIds : Touched(Count!Idle, T, j) <=> Touched(job, takes, j)
      BY <1>3, <2>4, CountJobsAre DEF Touched, id
    <3>2. \A j \in TakeIds : T[j].lines.of = takes[j].lines.of
      BY <2>4
    <3>3. takes[i] # Count!NoTake
      BY <2>1, <2>4, <2>6 DEF Due
    <3>4. Due(job, takes, i, g)
      BY <2>3, <2>6, <3>1, <3>2, <3>3 DEF Due
    <3>5. Wanted(Count!Idle, T, i, g) = Wanted(job, takes, i, g)
      BY <1>3, <2>3, <2>4, CountJobsAre DEF Wanted, id
    <3>6. T[i].scope = takes[i].scope
      BY <2>4
    <3> QED
      BY <2>5, <3>4, <3>5, <3>6 DEF Agrees
  <2>7. Agrees(Count!Idle, T, countedStock)
    BY <2>6 DEF Agrees
  <2> QED
    BY <1>1, <2>7, SoundAtEnd DEF T
<1> QED
  BY <1>2, <1>3

LEMMA SoundNextLine ==
  ASSUME CountInv, NEW p \in Procs, CountSound(counters[p], takes, countedStock), NEW g \in Goods,
         Count!NextLine(p, g), ~Count!CutShort(p)
  PROVE  CountSound(counters[p], takes, countedStock)'
<1> DEFINE job == counters[p]
           id == job.id
           scope == takes[id].scope
<1>0. Count!TypeOK /\ job \in Count!Job /\ countedStock \in [Goods -> [Places -> Nat]] /\ CountAloneOK(job, takes)
      /\ CountingOK(job)
  BY CountJobOf DEF CountInv, Count!TypeOK, CountSound
<1>1. job.stage = "apply" /\ job.writes = {} /\ g \in job.todo /\ UNCHANGED <<countedStock, takes>>
  BY DEF Count!NextLine
<1>2. job \in Applying /\ id \in TakeIds /\ takes[id] # Count!NoTake /\ scope \in Scopes
  <2>1. job \in Applying /\ id \in TakeIds /\ takes[id] # Count!NoTake
    BY <1>0, <1>1, CountJobKinds DEF CountingOK, Applying
  <2> QED
    BY <1>0, <2>1, TakeOf
<1>3. Agrees(job, takes, countedStock)
  BY <1>0, <1>1, SettlesBetween DEF CountSound
<1>4. CASE g \in job.invalid
  <2>1. counters'[p] = Count!Idle
    BY <1>0, <1>4 DEF Count!NextLine, Count!TypeOK
  <2>2. /\ takes[id].status = "COMPLETED"
        /\ \A h \in Goods \ job.todo : Count!Target(job.lines, h) = Count!Target(takes[id].lines, h)
    <3>1. ~job.completes
      BY <1>0, <1>1, <1>2, <1>4 DEF CountAloneOK, Applying
    <3> QED
      BY <1>0, <1>1, <2>1, <3>1 DEF CountAloneOK, Count!CutShort
  <2> HIDE DEF job
  <2>3. ASSUME NEW i \in TakeIds, NEW h \in Goods, Due(Count!Idle, takes, i, h)
        PROVE  Held(countedStock[h], takes[i].scope) = Wanted(Count!Idle, takes, i, h)
    <3>1. \A j \in TakeIds : Touched(Count!Idle, takes, j) <=> Touched(job, takes, j)
      BY <2>2, CountJobsAre DEF Touched
    <3>2. Due(job, takes, i, h)
      <4>1. ~job.completes
        BY <1>0, <1>1, <1>4, <2>2 DEF CountAloneOK
      <4> QED
        BY <2>3, <3>1, <4>1, CountJobsAre DEF Due
    <3>3. Wanted(Count!Idle, takes, i, h) = Wanted(job, takes, i, h)
      BY <2>2, CountJobsAre DEF Wanted
    <3> QED
      BY <1>3, <3>2, <3>3 DEF Agrees
  <2>4. Agrees(Count!Idle, takes', countedStock)
    BY <1>1, <2>3 DEF Agrees
  <2> QED
    BY <1>1, <2>1, <2>4, SoundAtEnd
<1>5. CASE g \notin job.invalid
  <2>1. g \in takes[id].lines.of
    BY <1>0, <1>1, <1>5 DEF CountAloneOK
  <2>2. PICK order \in Count!Orders(countedStock[g]) :
          counters' = [counters EXCEPT ![p] =
            [job EXCEPT !.todo = @ \ {g},
                        !.writes = Count!LineWrites(g, scope, order, Count!Target(job.lines, g))]]
    BY <1>5 DEF Count!NextLine
  <2> DEFINE target == Count!Target(job.lines, g)
             writes == Count!LineWrites(g, scope, order, target)
  <2>3. target \in Nat
    BY <1>0, <1>1, <1>2, <1>5, TargetIsNat DEF CountingOK, Applying
  <2> HIDE DEF target
  <2>4. PICK new \in [Places -> Nat] : Brings(writes, g, countedStock[g], new) /\ Held(new, scope) = target
    BY <1>0, <1>2, <2>3, WritesReach
  <2>5. PICK next : next = [job EXCEPT !.todo = @ \ {g}, !.writes = writes]
    OBVIOUS
  <2>6. counters'[p] = next
    BY <1>0, <2>2, <2>5 DEF Count!TypeOK, target
  <2> HIDE DEF writes
  <2>7. /\ next.stage = "apply" /\ next.id = id /\ next.lines = job.lines /\ next.fresh = job.fresh
        /\ next.completes = job.completes /\ next.invalid = job.invalid
        /\ next.todo = job.todo \ {g}
        /\ next.writes = writes
    BY <1>1, <1>2, <2>1, <2>5 DEF Applying
  <2> HIDE DEF job, id, scope
  <2>8. \A w \in writes : w.good = g /\ (w.kind = "inc" => writes = {w})
    BY <2>4 DEF Brings
  <2>9. CountAloneOK(next, takes)
    BY <1>0, <1>1, <2>1, <2>7, <2>8 DEF CountAloneOK, id
  <2>10. ASSUME NEW i \in TakeIds, NEW h \in Goods, Due(next, takes, i, h)
         PROVE  \E row \in [Places -> Nat] :
                  /\ Reaches(next, h, countedStock[h], row)
                  /\ Held(row, takes[i].scope) = Wanted(next, takes, i, h)
    <3>1. \A j \in TakeIds : Touched(next, takes, j) <=> Touched(job, takes, j)
      BY <1>1, <2>7 DEF Touched, id
    <3>2. CASE h # g
      <4>1. Due(job, takes, i, h)
        BY <1>1, <2>7, <2>10, <3>1, <3>2 DEF Due, id
      <4>2. Wanted(next, takes, i, h) = Wanted(job, takes, i, h)
        BY <1>1, <2>7, <3>2 DEF Wanted, id
      <4>3. Reaches(next, h, countedStock[h], countedStock[h])
        BY <2>7, <2>8, <3>2 DEF Reaches
      <4>4. countedStock[h] \in [Places -> Nat]
        BY <1>0
      <4> QED
        BY <1>3, <4>1, <4>2, <4>3, <4>4 DEF Agrees
    <3>3. CASE h = g
      <4>1. Touched(next, takes, id)
        BY <2>7 DEF Touched
      <4>2. i = id
        BY <1>2, <2>1, <2>10, <3>3, <4>1 DEF Due, id
      <4>3. Wanted(next, takes, i, h) = target
        BY <2>7, <3>3, <4>2 DEF Wanted, target
      <4>4. Reaches(next, h, countedStock[h], new)
        BY <2>4, <2>7, <2>8, <3>3 DEF Reaches, Brings
      <4> QED
        BY <2>4, <4>2, <4>3, <4>4 DEF scope
    <3> QED
      BY <3>2, <3>3
  <2>11. CountSound(next, takes', countedStock')
    BY <1>1, <2>9, <2>10 DEF CountSound, CountSettles
  <2> QED
    BY <2>6, <2>11
<1> QED
  BY <1>4, <1>5

LEMMA SoundWriteRow ==
  ASSUME CountInv, NEW p \in Procs, CountSound(counters[p], takes, countedStock),
         NEW w \in counters[p].writes,
         Count!WriteRow(p, w)
  PROVE  CountSound(counters[p], takes, countedStock)'
<1> DEFINE job == counters[p]
           id == job.id
<1>0. Count!TypeOK /\ job \in Count!Job /\ countedStock \in [Goods -> [Places -> Nat]] /\ CountAloneOK(job, takes)
  BY CountJobOf DEF CountInv, Count!TypeOK, CountSound
<1>1. job.stage = "apply" /\ takes' = takes /\ job \in Applying /\ w \in Count!Write
  BY <1>0, CountJobKinds DEF Count!WriteRow, Applying
<1>2. PICK S \in [Goods -> [Places -> Nat]] :
        S = [countedStock EXCEPT ![w.good][w.place] = IF w.kind = "set" THEN w.value ELSE @ + w.value]
  <2>1. w.good \in Goods /\ w.place \in Places /\ w.value \in Nat
        /\ countedStock[w.good][w.place] \in Nat
    BY <1>0, <1>1 DEF Count!Write
  <2> DEFINE value == IF w.kind = "set" THEN w.value ELSE countedStock[w.good][w.place] + w.value
             row == [countedStock[w.good] EXCEPT ![w.place] = value]
  <2>2. value \in Nat /\ countedStock[w.good] \in [Places -> Nat]
    BY <1>0, <2>1
  <2> HIDE DEF value
  <2>3. row \in [Places -> Nat]
    BY <2>1, <2>2
  <2>4. [countedStock EXCEPT ![w.good] = row] \in [Goods -> [Places -> Nat]]
    BY <1>0, <2>1, <2>3
  <2>5. [countedStock EXCEPT ![w.good] = row] =
          [countedStock EXCEPT ![w.good][w.place] = IF w.kind = "set" THEN w.value ELSE @ + w.value]
    BY <1>0, <2>1 DEF value
  <2> QED
    BY <2>4, <2>5
<1>3. countedStock' = S
  BY <1>2 DEF Count!WriteRow
<1>4. PICK next : next = [job EXCEPT !.writes = @ \ {w}]
  OBVIOUS
<1>5. counters'[p] = next
  BY <1>0, <1>4 DEF Count!WriteRow, Count!TypeOK
<1>6. /\ next.stage = "apply" /\ next.id = id /\ next.lines = job.lines /\ next.fresh = job.fresh
      /\ next.completes = job.completes /\ next.invalid = job.invalid /\ next.todo = job.todo
      /\ next.writes = job.writes \ {w}
  BY <1>1, <1>4 DEF Applying
<1>7. /\ \A h \in Goods : h # w.good => S[h] = countedStock[h]
      /\ \A l \in Places : S[w.good][l] =
           IF l = w.place THEN IF w.kind = "set" THEN w.value ELSE countedStock[w.good][l] + w.value
           ELSE countedStock[w.good][l]
  BY <1>0, <1>1, <1>2 DEF Count!Write
<1>8. w \in job.writes
  OBVIOUS
<1> HIDE DEF job, id
<1>9. CountAloneOK(next, takes)
  BY <1>0, <1>1, <1>6, <1>8 DEF CountAloneOK, id
<1>10. ASSUME NEW i \in TakeIds, NEW h \in Goods, Due(next, takes, i, h)
       PROVE  \E row \in [Places -> Nat] :
                /\ Reaches(next, h, S[h], row)
                /\ Held(row, takes[i].scope) = Wanted(next, takes, i, h)
  <2>1. \A j \in TakeIds : Touched(next, takes, j) <=> Touched(job, takes, j)
    BY <1>1, <1>6 DEF Touched, id
  <2>2. Due(job, takes, i, h) /\ Wanted(next, takes, i, h) = Wanted(job, takes, i, h)
    BY <1>1, <1>6, <1>10, <2>1 DEF Due, Wanted, id
  <2>3. PICK row \in [Places -> Nat] :
          Reaches(job, h, countedStock[h], row) /\ Held(row, takes[i].scope) = Wanted(job, takes, i, h)
    BY <2>2 DEF CountSound, CountSettles, job
  <2>4. Reaches(next, h, S[h], row)
    <3>1. CASE h # w.good
      BY <1>1, <1>6, <1>7, <2>3, <3>1 DEF Reaches
    <3>2. CASE h = w.good
      <4>1. ASSUME NEW v \in next.writes, v.good = h
            PROVE  row[v.place] = IF v.kind = "set" THEN v.value ELSE S[h][v.place] + v.value
        <5>1. v \in job.writes /\ v # w
          BY <1>6
        <5>2. v.kind # "inc" /\ v \in Count!Write
          BY <1>0, <1>1, <1>8, <5>1 DEF CountAloneOK, Applying
        <5>3. v.kind = "set"
          BY <5>2 DEF Count!Write
        <5>4. row[v.place] = v.value
          BY <1>1, <2>3, <4>1, <5>1, <5>3 DEF Reaches
        <5> QED
          BY <5>3, <5>4
      <4>2. ASSUME NEW l \in Places, \A v \in next.writes : v.good = h => v.place # l
            PROVE  row[l] = S[h][l]
        <5>1. CASE l = w.place
          <6>1. row[l] = IF w.kind = "set" THEN w.value ELSE countedStock[h][l] + w.value
            BY <1>1, <1>8, <2>3, <3>2, <5>1 DEF Reaches
          <6> QED
            BY <1>7, <3>2, <5>1, <6>1
        <5>2. CASE l # w.place
          <6>1. \A v \in job.writes : v.good = h => v.place # l
            BY <1>6, <4>2, <5>2
          <6>2. row[l] = countedStock[h][l]
            BY <1>1, <2>3, <6>1 DEF Reaches
          <6> QED
            BY <1>7, <3>2, <5>2, <6>2
        <5> QED
          BY <5>1, <5>2
      <4> QED
        BY <1>6, <4>1, <4>2 DEF Reaches
    <3> QED
      BY <3>1, <3>2
  <2> QED
    BY <2>2, <2>3, <2>4
<1>11. CountSound(next, takes', S)
  BY <1>1, <1>9, <1>10 DEF CountSound, CountSettles
<1> QED
  BY <1>3, <1>5, <1>11

LEMMA OrderlyCountInit ==
  ASSUME Count!Init
  PROVE  OrderlyCount
<1>1. /\ \A p \in Procs : counters[p] = Count!Idle
      /\ \A id \in TakeIds : takes[id] = Count!NoTake
  BY DEF Count!Init
<1>2. countedStock \in [Goods -> [Places -> Nat]]
  BY DEF Count!Init
<1>3. Agrees(Count!Idle, takes, countedStock)
  BY <1>1 DEF Agrees, Due
<1>4. CountSound(Count!Idle, takes, countedStock)
  BY <1>2, <1>3, CountJobsAre, SettlesAsIdle DEF CountSound, CountAloneOK
<1> QED
  BY <1>1, <1>4 DEF OrderlyCount

LEMMA OthersStayIdle ==
  ASSUME Count!TypeOK, NEW p \in Procs, Count!Begin(p) \/ Count!Continue(p),
         NEW q \in Procs \ {p},
         counters[q] = Count!Idle
  PROVE  counters'[q] = Count!Idle
<1>1. ASSUME NEW job, counters' = [counters EXCEPT ![p] = job]  PROVE counters'[q] = Count!Idle
  BY <1>1 DEF Count!TypeOK
<1>2. CASE Count!Begin(p)
  BY <1>1, <1>2 DEF Count!Begin, Count!BeginCreate, Count!BeginCount, Count!BeginComplete,
                    Count!BeginCancel, Count!BeginAdjust
<1>3. CASE Count!SaveCount(p) \/ Count!SaveAdjust(p)
  <2>1. \/ counters' = Count!Outdated(p, counters[p].id)
        \/ counters' = [counters EXCEPT ![p] = Count!Idle]
    BY <1>3 DEF Count!SaveCount, Count!SaveAdjust, Count!SaveLines
  <2> QED
    BY <1>1, <2>1, CountJobsAre DEF Count!Outdated
<1>4. ASSUME NEW g \in Goods, Count!NextLine(p, g)  PROVE counters'[q] = Count!Idle
  BY <1>4 DEF Count!NextLine, Count!TypeOK
<1>5. ASSUME NEW w, Count!WriteRow(p, w)  PROVE counters'[q] = Count!Idle
  BY <1>5 DEF Count!WriteRow, Count!TypeOK
<1>6. CASE (\E id \in TakeIds : Count!Create(p, id)) \/ Count!SaveComplete(p) \/ Count!SaveCancel(p)
  BY <1>1, <1>6 DEF Count!Create, Count!SaveComplete, Count!SaveCancel
<1> QED
  BY <1>2, <1>3, <1>4, <1>5, <1>6 DEF Count!Continue

LEMMA OrderlyCountNext ==
  ASSUME CountInv, OrderlyCount, [Count!Next]_(Count!vars)
  PROVE  OrderlyCount'
<1>1. CASE UNCHANGED Count!vars
  <2>1. UNCHANGED <<countedStock, takes, counters, countersOrderly>>
    BY <1>1 DEF Count!vars
  <2>2. Count!Quiet' <=> Count!Quiet
    BY <2>1 DEF Count!Quiet
  <2>3. \A p \in Procs : CountLone(p)' <=> CountLone(p)
    BY <2>1 DEF CountLone
  <2> QED
    BY <2>1, <2>2, <2>3 DEF OrderlyCount
<1>2. ASSUME NEW p \in Procs, Count!Begin(p) \/ Count!Continue(p),
             countersOrderly' = (countersOrderly /\ (\A q \in Procs \ {p} : counters[q] = Count!Idle) /\ ~Count!CutShort(p))
      PROVE  OrderlyCount'
  <2> SUFFICES ASSUME countersOrderly'
               PROVE  /\ \A q \in Procs : (counters[q] = Count!Idle \/ CountLone(q))'
                      /\ Count!Quiet' => CountSound(Count!Idle, takes, countedStock)'
                      /\ \A q \in Procs : CountLone(q)' => CountSound(counters[q], takes, countedStock)'
    BY DEF OrderlyCount
  <2>1. /\ CountSound(counters[p], takes, countedStock) /\ ~Count!CutShort(p)
        /\ \A q \in Procs \ {p} : counters[q] = Count!Idle
    BY <1>2 DEF OrderlyCount, CountLone
  <2>2. CountSound(counters[p], takes, countedStock)'
    <3>1. ASSUME NEW w \in counters[p].writes, Count!WriteRow(p, w)
          PROVE  CountSound(counters[p], takes, countedStock)'
      BY <2>1, <3>1, SoundWriteRow
    <3> QED
      BY <1>2, <2>1, <3>1, SoundBegin, SoundSave, SoundNextLine DEF Count!Continue
  <2>3. \A q \in Procs \ {p} : counters'[q] = Count!Idle
    BY <1>2, <2>1, OthersStayIdle DEF CountInv
  <2>4. counters'[p] = Count!Idle => CountSound(Count!Idle, takes, countedStock)'
    BY <2>2
  <2>5. Count!Quiet' => CountSound(Count!Idle, takes, countedStock)'
    BY <2>4 DEF Count!Quiet
  <2>6. ASSUME NEW q \in Procs, CountLone(q)'  PROVE CountSound(counters[q], takes, countedStock)'
    <3>1. CASE q = p
      BY <2>2, <3>1
    <3>2. CASE q # p
      <4>1. counters'[p] = Count!Idle /\ counters'[q] = Count!Idle
        BY <2>3, <2>6, <3>2 DEF CountLone
      <4> QED
        BY <2>4, <4>1
    <3> QED
      BY <3>1, <3>2
  <2> QED
    BY <2>3, <2>5, <2>6 DEF CountLone
<1> QED
  BY <1>1, <1>2 DEF Count!Next, OrderlyCount

-----------------------------------------------------------------------------
(* What the pages show of a stocktake *)

\* A line is too much, or too little, or neither.
LEMMA LineIs ==
  ASSUME NEW lines \in Count!Lines, LinesOK(lines), NEW g \in Goods
  PROVE  /\ Count!Excess(lines, g) \in Nat /\ Count!Shortage(lines, g) \in Nat
         /\ lines.excessDeduct[g] \in Nat /\ lines.shortageAdd[g] \in Nat
         /\ lines.book[g] \in Nat /\ lines.counted[g] \in Nat
         /\ lines.excessDeduct[g] <= Count!Excess(lines, g)
         /\ lines.shortageAdd[g] <= Count!Shortage(lines, g)
         /\ Count!Excess(lines, g) = 0 \/ Count!Shortage(lines, g) = 0
         /\ Count!Excess(lines, g) > 0 <=> lines.counted[g] > lines.book[g]
         /\ Count!Excess(lines, g) > 0 => Count!Excess(lines, g) = lines.counted[g] - lines.book[g]
         /\ Count!Shortage(lines, g) > 0 <=> lines.counted[g] > 0 /\ lines.counted[g] < lines.book[g]
         /\ Count!Shortage(lines, g) > 0 => Count!Shortage(lines, g) = lines.book[g] - lines.counted[g]
BY LineNumbers, ExcessIs DEF LinesOK

\* An adjustment that would take more.
Adjustable(lines, g) ==
  Count!Excess(lines, g) + Count!Shortage(lines, g) > lines.excessDeduct[g] + lines.shortageAdd[g]

LEMMA OpenIsPending ==
  ASSUME NEW lines \in Count!Lines, LinesOK(lines), NEW g \in Goods
  PROVE  Adjustable(lines, g) <=> \/ lines.counted[g] - lines.book[g] > lines.excessDeduct[g]
                            \/ /\ lines.counted[g] > 0
                               /\ lines.book[g] - lines.counted[g] > lines.shortageAdd[g]
<1> DEFINE e == Count!Excess(lines, g)
           s == Count!Shortage(lines, g)
           d == lines.excessDeduct[g]
           a == lines.shortageAdd[g]
           b == lines.book[g]
           c == lines.counted[g]
<1>1. /\ e \in Nat /\ s \in Nat /\ d \in Nat /\ a \in Nat /\ b \in Nat /\ c \in Nat
      /\ d <= e /\ a <= s /\ (e = 0 \/ s = 0)
      /\ e > 0 <=> c > b
      /\ e > 0 => e = c - b
      /\ s > 0 <=> c > 0 /\ c < b
      /\ s > 0 => s = b - c
  BY LineIs
<1>2. Adjustable(lines, g) <=> e + s > d + a
  BY DEF Adjustable
<1> HIDE DEF e, s, d, a, b, c
<1>3. e + s > d + a <=> \/ c - b > d
                        \/ c > 0 /\ b - c > a
  BY <1>1
<1> QED
  BY <1>2, <1>3 DEF d, a, b, c

LEMMA OpenTakesMore ==
  ASSUME NEW lines \in Count!Lines, LinesOK(lines), NEW g \in lines.of
  PROVE  Adjustable(lines, g) <=> \E n \in 1..(lines.book[g] + lines.counted[g]) :
                              /\ Count!Invalid(lines, [one \in {g} |-> n]) = {}
                              /\ n > lines.excessDeduct[g] + lines.shortageAdd[g]
<1>0. g \in Goods
  BY DEF Count!Lines
<1>1. ASSUME NEW n \in Nat
      PROVE  Count!Invalid(lines, [one \in {g} |-> n]) = {} <=>
               /\ Count!Excess(lines, g) # 0 \/ Count!Shortage(lines, g) # 0
               /\ ~(n > Count!Excess(lines, g) + Count!Shortage(lines, g))
  <2>1. DOMAIN [one \in {g} |-> n] = {g} /\ [one \in {g} |-> n][g] = n
    OBVIOUS
  <2> QED
    BY <2>1 DEF Count!Invalid
<1>2. CASE Adjustable(lines, g)
  <2> DEFINE n == Count!Excess(lines, g) + Count!Shortage(lines, g)
  <2>1. n \in 1..(lines.book[g] + lines.counted[g]) /\ n > lines.excessDeduct[g] + lines.shortageAdd[g]
    BY <1>0, <1>2, LineIs DEF Adjustable
  <2>2. Count!Invalid(lines, [one \in {g} |-> n]) = {}
    <3>1. n \in Nat /\ n > 0 /\ ~(n > n)
      BY <1>0, <1>2, LineIs DEF Adjustable
    <3>2. Count!Excess(lines, g) # 0 \/ Count!Shortage(lines, g) # 0
      BY <1>0, <3>1, LineIs
    <3> QED
      BY <1>1, <3>1, <3>2
  <2> QED
    BY <1>2, <2>1, <2>2
<1>3. ASSUME NEW n \in 1..(lines.book[g] + lines.counted[g]), Count!Invalid(lines, [one \in {g} |-> n]) = {},
             n > lines.excessDeduct[g] + lines.shortageAdd[g]
      PROVE  Adjustable(lines, g)
  <2>1. n \in Nat
    BY <1>0, LineNumbers
  <2>2. ~(n > Count!Excess(lines, g) + Count!Shortage(lines, g))
    BY <1>1, <1>3, <2>1
  <2> QED
    BY <1>0, <1>3, <2>1, <2>2, LineIs DEF Adjustable
<1> QED
  BY <1>2, <1>3

LEMMA OpenIsShown ==
  ASSUME NEW lines \in Count!Lines, LinesOK(lines), NEW g \in Goods
  PROVE  LET line == Count!PublicLine(lines, g)
         IN  /\ Adjustable(lines, g) <=> /\ line.tab # "hammasi"
                                   /\ line.excessRemaining + line.shortageRemaining > 0
             /\ line.warehouseQuantity = Count!Target(lines, g)
<1> DEFINE e == Count!Excess(lines, g)
           s == Count!Shortage(lines, g)
           d == lines.excessDeduct[g]
           a == lines.shortageAdd[g]
           b == lines.book[g]
           c == lines.counted[g]
           line == Count!PublicLine(lines, g)
<1>1. /\ e \in Nat /\ s \in Nat /\ d \in Nat /\ a \in Nat /\ b \in Nat /\ c \in Nat
      /\ d <= e /\ a <= s /\ (e = 0 \/ s = 0)
      /\ e > 0 <=> c > b
      /\ e > 0 => e = c - b
      /\ s > 0 <=> c > 0 /\ c < b
      /\ s > 0 => s = b - c
  BY LineIs
<1>2. /\ line.tab = Count!Tab(lines, g)
      /\ line.excessRemaining = Count!Max({0, e - d}) /\ line.shortageRemaining = Count!Max({0, s - a})
      /\ line.warehouseQuantity = IF e > 0 THEN c - d ELSE IF s > 0 THEN c + a ELSE c
  BY DEF Count!PublicLine
<1>3. Count!Tab(lines, g) # "hammasi" <=> (c > b \/ (c > 0 /\ c < b))
  BY DEF Count!Tab
<1>4. Adjustable(lines, g) <=> e + s > d + a
  BY DEF Adjustable
<1>5. Count!Target(lines, g) = c - d + a
  BY DEF Count!Target
<1> HIDE DEF e, s, d, a, b, c, line
<1>6. Count!Max({0, e - d}) = e - d /\ Count!Max({0, s - a}) = s - a
  BY <1>1, MaxOfTwo
<1>7. line.warehouseQuantity = c - d + a
  BY <1>1, <1>2
<1>8. (line.tab # "hammasi" /\ line.excessRemaining + line.shortageRemaining > 0) <=> e + s > d + a
  BY <1>1, <1>2, <1>3, <1>6
<1> QED
  BY <1>4, <1>5, <1>7, <1>8 DEF line

LEMMA CountIsRecorded ==
  ASSUME CountInv, OrderlyCount
  PROVE  Count!RecordedIsApplied
<1> SUFFICES ASSUME NEW id \in TakeIds, takes[id] # Count!NoTake
    PROVE /\ \A g \in Goods :
               /\ takes[id].lines.excessDeduct[g] <= Count!Excess(takes[id].lines, g)
               /\ takes[id].lines.shortageAdd[g] <= Count!Shortage(takes[id].lines, g)
          /\ Count!Quiet /\ countersOrderly /\ takes[id].status = "COMPLETED" =>
               \A g \in takes[id].lines.of :
                 /\ Count!CountedOnce(id, g) =>
                      Count!InScope(g, takes[id].scope) = Count!Target(takes[id].lines, g)
                 /\ Count!PublicLine(takes[id].lines, g).warehouseQuantity = Count!Target(takes[id].lines, g)
          /\ Count!ManagementLists(id) <=> Count!DetailOpens(id)
          /\ takes[id].status = "COMPLETED" =>
               LET lines == takes[id].lines
                   takesMore == {g \in lines.of :
                                   \E n \in 1..(lines.book[g] + lines.counted[g]) :
                                     /\ Count!Invalid(lines, [one \in {g} |-> n]) = {}
                                     /\ n > lines.excessDeduct[g] + lines.shortageAdd[g]}
                   shownOpen == {g \in lines.of :
                                   LET line == Count!PublicLine(lines, g)
                                   IN  /\ line.tab # "hammasi"
                                       /\ line.excessRemaining + line.shortageRemaining > 0}
               IN  /\ Count!PendingCount(lines) = Count!Cardinality(takesMore)
                   /\ takesMore = shownOpen
                   /\ takesMore # {} => Count!ManagementLists(id)
  BY DEF Count!RecordedIsApplied
<1> DEFINE lines == takes[id].lines
<1>1. lines \in Count!Lines /\ LinesOK(lines) /\ Count!TypeOK
  BY TakeOf DEF CountInv, TakesOK
<1>2. \A g \in lines.of : g \in Goods
  BY <1>1 DEF Count!Lines
<1>3. \A g \in Goods : lines.excessDeduct[g] <= Count!Excess(lines, g)
                       /\ lines.shortageAdd[g] <= Count!Shortage(lines, g)
  BY <1>1 DEF LinesOK
<1>4. ASSUME Count!Quiet, countersOrderly, takes[id].status = "COMPLETED", NEW g \in lines.of
      PROVE  /\ Count!CountedOnce(id, g) => Count!InScope(g, takes[id].scope) = Count!Target(lines, g)
             /\ Count!PublicLine(lines, g).warehouseQuantity = Count!Target(lines, g)
  <2>1. Agrees(Count!Idle, takes, countedStock)
    <3>1. countedStock \in [Goods -> [Places -> Nat]]
      BY <1>1 DEF Count!TypeOK
    <3> QED
      BY <1>4, <3>1, CountJobsAre, SettlesAsIdle DEF OrderlyCount, CountSound
  <2>2. ASSUME Count!CountedOnce(id, g)
        PROVE  Held(countedStock[g], takes[id].scope) = Count!Target(lines, g)
    <3>1. Due(Count!Idle, takes, id, g)
      BY <1>4, <2>2, CountJobsAre DEF Due, Touched, Count!CountedOnce
    <3> QED
      BY <1>2, <2>1, <3>1, CountJobsAre DEF Agrees, Wanted
  <2>3. Count!PublicLine(lines, g).warehouseQuantity = Count!Target(lines, g)
    BY <1>1, <1>2, OpenIsShown
  <2> QED
    BY <2>2, <2>3 DEF Held, Count!InScope
<1>5. Count!ManagementLists(id) <=> Count!DetailOpens(id)
  <2>1. ASSUME NEW g \in lines.of
        PROVE  (Count!Excess(lines, g) > 0 \/ Count!Shortage(lines, g) > 0) <=>
               (\/ lines.counted[g] - lines.book[g] > 0
                \/ lines.counted[g] > 0 /\ lines.counted[g] < lines.book[g])
    BY <1>1, <1>2, LineIs
  <2> QED
    BY <2>1 DEF Count!ManagementLists, Count!DetailOpens
<1>6. ASSUME takes[id].status = "COMPLETED", NEW g \in lines.of, Adjustable(lines, g)
      PROVE  Count!DetailOpens(id)
  <2>1. Count!Excess(lines, g) > 0 \/ Count!Shortage(lines, g) > 0
    BY <1>1, <1>2, <1>6, LineIs DEF Adjustable
  <2> QED
    BY <1>6, <2>1 DEF Count!DetailOpens
<1> DEFINE takesMore == {g \in lines.of :
                           \E n \in 1..(lines.book[g] + lines.counted[g]) :
                             /\ Count!Invalid(lines, [one \in {g} |-> n]) = {}
                             /\ n > lines.excessDeduct[g] + lines.shortageAdd[g]}
           shownOpen == {g \in lines.of :
                           LET line == Count!PublicLine(lines, g)
                           IN  /\ line.tab # "hammasi"
                               /\ line.excessRemaining + line.shortageRemaining > 0}
           open == {g \in lines.of : Adjustable(lines, g)}
<1>7. takesMore = open
  BY <1>1, OpenTakesMore
<1>8. shownOpen = open
  BY <1>1, <1>2, OpenIsShown
<1>9. Count!PendingCount(lines) = Count!Cardinality(open)
  <2>1. open = {g \in lines.of : \/ lines.counted[g] - lines.book[g] > lines.excessDeduct[g]
                                 \/ /\ lines.counted[g] > 0
                                    /\ lines.book[g] - lines.counted[g] > lines.shortageAdd[g]}
    BY <1>1, <1>2, OpenIsPending
  <2> HIDE DEF open
  <2> QED
    BY <2>1 DEF Count!PendingCount
<1>10. takes[id].status = "COMPLETED" => (open # {} => Count!ManagementLists(id))
  BY <1>5, <1>6
<1>11. /\ Count!PendingCount(lines) = Count!Cardinality(takesMore)
       /\ takesMore = shownOpen
       /\ takes[id].status = "COMPLETED" => (takesMore # {} => Count!ManagementLists(id))
  <2> HIDE DEF takesMore, shownOpen, open
  <2> QED
    BY <1>7, <1>8, <1>9, <1>10
<1> QED
  BY <1>3, <1>4, <1>5, <1>11


-----------------------------------------------------------------------------
(* WarehouseExpense.                                                       *)

LEMMA IssueAssumed == Issue!ExpenseAssumption
BY WarehouseAssumption DEF WarehouseAssumption

\* What a handler that was never overlapped holds.
IssueAloneOK(job) ==
  /\ job.stage \in {"deduct", "document"} =>
       \A r \in Places : assets[job.code][r] = Issue!NoAsset
  /\ job.stage = "deduct" =>
       /\ expenses[job.code] = Issue!Nothing
       /\ job.write = {[l \in Places |-> l][r] : r \in Issue!Of(job.ask)}
       /\ job.todo \cap job.done = {} /\ job.todo \cup job.done = Issue!Of(job.ask)
       /\ \A r \in job.todo : job.ask[r] <= issuedStock[r]
  /\ job.stage = "document" =>
       \A r \in Places : expenses[job.code][r] = IF [l \in Places |-> l][r] \in job.write THEN 0 ELSE job.ask[r]
  /\ job.stage = "restore" => job.back = expenses[job.code] /\ job.todo \subseteq Issue!Of(job.back)
  /\ job.stage \in {"return", "save"} =>
       /\ assets[job.code][job.row].status = "active"
       /\ job.stage = "return" => job.status = "returned"
       /\ job.status = "returned" => job.back = assets[job.code][job.row].quantity
  /\ job.stage # "idle" => job.code <= lastCode

\* How many pieces of row r a handler has yet to account for.
IssueShift(job, r) ==
  CASE job.stage = "deduct" -> IF r \in job.done THEN job.ask[r] ELSE 0
    [] job.stage = "document" -> IF [l \in Places |-> l][r] \in job.write THEN job.ask[r] ELSE 0
    [] job.stage = "restore" -> IF r \in job.todo THEN 0 ELSE - job.back[r]
    [] job.stage = "deleted" -> IF assets[job.code][r].status = "active"
                                THEN - assets[job.code][r].quantity ELSE 0
    [] job.stage = "save" -> IF job.status = "returned" /\ job.row = r THEN - job.back ELSE 0
    [] OTHER -> 0

\* A code that was not given out has no documents.
Untouched ==
  \A code \in Issue!Codes : code > lastCode =>
    expenses[code] = Issue!Nothing /\ \A r \in Places : assets[code][r] = Issue!NoAsset

\* An active asset has its expense, unless the handler has just deleted that.
ListedOK(job) ==
  \A code \in Issue!Codes, r \in Places :
    assets[code][r].status = "active" /\ ~(job.stage = "deleted" /\ job.code = code) =>
      expenses[code][r] = assets[code][r].quantity /\ expenses[code][r] > 0

IssueSound(job) ==
  /\ IssueAloneOK(job) /\ Untouched /\ ListedOK(job)
  /\ \A r \in Places : Issue!Accounted(r) + IssueShift(job, r) >= 1

IssueLone(p) == \A q \in Procs \ {p} : issuers[q] = Issue!Idle

OrderlyIssue ==
  issuersOrderly => /\ \A p \in Procs : issuers[p] = Issue!Idle \/ IssueLone(p)
                    /\ Issue!Quiet => IssueSound(Issue!Idle)
                    /\ \A p \in Procs : IssueLone(p) => IssueSound(issuers[p])

-----------------------------------------------------------------------------
(* What a handler holds *)

Spending ==
  [ stage : {"deduct", "document", "asset"}, code : Issue!Codes, reason : Reasons,
    ask : Issue!Quantity, todo : SUBSET Places, done : SUBSET Places, write : SUBSET Issue!Locations ]
Restoring == [stage : {"restore"}, code : Issue!Codes, back : Issue!Quantity, todo : SUBSET Places]
Deleted == [stage : {"deleted"}, code : Issue!Codes]
Settling ==
  [ stage : {"return", "save"}, code : Issue!Codes, row : Places, back : Nat,
    status : {"returned", "discarded"} ]

LEMMA IssueJobKinds ==
  ASSUME NEW job \in Issue!Job
  PROVE  /\ job.stage \in {"idle", "deduct", "document", "asset", "restore", "deleted",
                           "return", "save"}
         /\ job.stage = "idle" <=> job = Issue!Idle
         /\ job.stage \in {"deduct", "document", "asset"} => job \in Spending
         /\ job.stage = "restore" => job \in Restoring
         /\ job.stage = "deleted" => job \in Deleted
         /\ job.stage \in {"return", "save"} => job \in Settling
         /\ job.stage # "idle" => job.code \in Issue!Codes
BY DEF Issue!Job, Issue!Idle, Spending, Restoring, Deleted, Settling

LEMMA IssueJobsAre ==
  /\ Issue!Idle \in Issue!Job /\ Issue!Idle.stage = "idle"
  /\ Spending \subseteq Issue!Job /\ Restoring \subseteq Issue!Job /\ Deleted \subseteq Issue!Job
  /\ Settling \subseteq Issue!Job
BY DEF Issue!Job, Issue!Idle, Spending, Restoring, Deleted, Settling

LEMMA IssueJobOf == ASSUME Issue!TypeOK, NEW p \in Procs  PROVE issuers[p] \in Issue!Job
BY DEF Issue!TypeOK

LEMMA WentOn ==
  ASSUME Issue!TypeOK, NEW p \in Procs, NEW job, Issue!GoOn(p, job)
  PROVE  issuers'[p] = job /\ \A q \in Procs : q # p => issuers'[q] = issuers[q]
BY DEF Issue!GoOn, Issue!TypeOK

\* The types after a step of p.
LEMMA TypeStep ==
  ASSUME Issue!TypeOK, NEW p \in Procs, NEW job \in Issue!Job, Issue!GoOn(p, job),
         issuedStock' \in [Places -> Nat], lastCode' \in 0 .. MaxCode, expenses' \in [Issue!Codes -> Issue!Quantity],
         assets' \in [Issue!Codes -> [Places -> Issue!Asset]], issuersOrderly' \in BOOLEAN
  PROVE  Issue!TypeOK'
BY DEF Issue!GoOn, Issue!TypeOK

LEMMA NothingIsQuantity == Issue!Nothing \in Issue!Quantity /\ Issue!NoAsset \in Issue!Asset /\ Issue!NoAsset.status = "none"
BY DEF Issue!Nothing, Issue!Quantity, Issue!NoAsset, Issue!Asset

LEMMA IssueInit == Issue!Init => Issue!TypeOK
BY IssueAssumed, NothingIsQuantity, IssueJobsAre DEF Issue!Init, Issue!TypeOK,
   Issue!ExpenseAssumption

LEMMA BeginExpenseKeeps ==
  ASSUME Issue!TypeOK, NEW p \in Procs, NEW reason \in Reasons, NEW ask \in [Places -> 0..1],
         Issue!BeginExpense(p, reason, ask), issuersOrderly' \in BOOLEAN
  PROVE  Issue!TypeOK'
<1> DEFINE job == [ stage |-> "deduct", code |-> lastCode + 1, reason |-> reason,
                    ask |-> ask, todo |-> Issue!Of(ask), done |-> {},
                    write |-> {[l \in Places |-> l][r] : r \in Issue!Of(ask)} ]
<1>1. lastCode + 1 \in Issue!Codes /\ lastCode' \in 0 .. MaxCode
  BY IssueAssumed DEF Issue!BeginExpense, Issue!TypeOK, Issue!Codes, Issue!ExpenseAssumption
<1>2. ask \in Issue!Quantity /\ Issue!Of(ask) \in SUBSET Places
      /\ {[l \in Places |-> l][r] : r \in Issue!Of(ask)} \in SUBSET Issue!Locations
  BY IssueAssumed DEF Issue!Quantity, Issue!Of, Issue!Locations, Issue!ExpenseAssumption
<1>3. job \in Issue!Job
  BY <1>1, <1>2, IssueJobsAre DEF Spending
<1>4. Issue!GoOn(p, job) /\ UNCHANGED <<issuedStock, expenses, assets>>
  BY DEF Issue!BeginExpense
<1> HIDE DEF job
<1> QED
  BY <1>1, <1>3, <1>4, TypeStep DEF Issue!TypeOK

LEMMA IssueDeductKeeps ==
  ASSUME Issue!TypeOK, NEW p \in Procs, NEW r \in Places, Issue!Deduct(p, r),
         issuersOrderly' \in BOOLEAN
  PROVE  Issue!TypeOK'
<1> DEFINE job == issuers[p]
           enough == issuedStock[r] >= job.ask[r]
           D == IF enough THEN job.done \cup {r} ELSE job.done
           next == [job EXCEPT !.todo = @ \ {r}, !.done = D]
<1>1. job \in Spending
  BY IssueJobOf, IssueJobKinds DEF Issue!Deduct
<1>2. next \in Issue!Job
  BY <1>1, IssueJobsAre DEF Spending
<1>3. issuedStock' \in [Places -> Nat]
  <2>1. job.ask[r] \in Nat /\ issuedStock[r] \in Nat
    BY <1>1 DEF Spending, Issue!Quantity, Issue!TypeOK
  <2>2. enough => issuedStock[r] - job.ask[r] \in Nat
    BY <2>1
  <2> QED
    BY <2>1, <2>2 DEF Issue!Deduct, Issue!TypeOK
<1>4. Issue!GoOn(p, next) /\ UNCHANGED <<lastCode, expenses, assets>>
  BY <1>1 DEF Issue!Deduct, Spending, Issue!GoOn
<1> HIDE DEF next
<1> QED
  BY <1>2, <1>3, <1>4, TypeStep DEF Issue!TypeOK

LEMMA CheckModifiedKeeps ==
  ASSUME Issue!TypeOK, NEW p \in Procs, Issue!CheckModified(p), issuersOrderly' \in BOOLEAN
  PROVE  Issue!TypeOK'
<1> DEFINE job == issuers[p]
           next == IF job.done = Issue!Of(job.ask) THEN [job EXCEPT !.stage = "document"] ELSE Issue!Idle
<1>1. job \in Spending
  BY IssueJobOf, IssueJobKinds DEF Issue!CheckModified
<1>2. next \in Issue!Job
  BY <1>1, IssueJobsAre DEF Spending
<1>3. Issue!GoOn(p, next) /\ UNCHANGED <<issuedStock, lastCode, expenses, assets>>
  BY DEF Issue!CheckModified
<1> HIDE DEF next
<1> QED
  BY <1>2, <1>3, TypeStep DEF Issue!TypeOK

LEMMA DocumentKeeps ==
  ASSUME Issue!TypeOK, NEW p \in Procs, NEW location \in Issue!Locations,
         Issue!CreateDocument(p, location),
         issuersOrderly' \in BOOLEAN
  PROVE  Issue!TypeOK'
<1> DEFINE job == issuers[p]
           next == [job EXCEPT !.write = @ \ {location}]
           e == [r \in Places |-> IF [l \in Places |-> l][r] = location THEN job.ask[r]
                                  ELSE expenses[job.code][r]]
<1>1. job \in Spending
  BY IssueJobOf, IssueJobKinds DEF Issue!CreateDocument
<1>2. next \in Issue!Job /\ job.code \in Issue!Codes
  BY <1>1, IssueJobsAre DEF Spending
<1>3. e \in Issue!Quantity
  BY <1>1 DEF Spending, Issue!Quantity, Issue!TypeOK
<1>4. expenses' = [expenses EXCEPT ![job.code] = e]
  BY <1>2 DEF Issue!CreateDocument, Issue!TypeOK
<1>5. Issue!GoOn(p, next) /\ UNCHANGED <<issuedStock, lastCode, assets>>
  BY DEF Issue!CreateDocument
<1> HIDE DEF next, e
<1>6. expenses' \in [Issue!Codes -> Issue!Quantity]
  BY <1>3, <1>4 DEF Issue!TypeOK
<1> QED
  BY <1>2, <1>5, <1>6, TypeStep DEF Issue!TypeOK

LEMMA CreateAssetsKeeps ==
  ASSUME Issue!TypeOK, NEW p \in Procs, Issue!CreateAssets(p), issuersOrderly' \in BOOLEAN
  PROVE  Issue!TypeOK'
<1> DEFINE job == issuers[p]
           a == [r \in Places |-> IF r \in Issue!Of(job.ask)
                                  THEN [quantity |-> job.ask[r], status |-> "active"]
                                  ELSE Issue!NoAsset]
<1>1. job \in Spending
  BY IssueJobOf, IssueJobKinds DEF Issue!CreateAssets
<1>2. a \in [Places -> Issue!Asset]
  BY <1>1, NothingIsQuantity DEF Spending, Issue!Quantity, Issue!Asset
<1>3. /\ assets' = IF job.reason # "fixed_asset" THEN assets
                  ELSE [assets EXCEPT ![job.code] = a]
      /\ Issue!GoOn(p, Issue!Idle) /\ UNCHANGED <<issuedStock, lastCode, expenses>>
  BY DEF Issue!CreateAssets
<1> HIDE DEF a
<1>4. assets' \in [Issue!Codes -> [Places -> Issue!Asset]]
  BY <1>2, <1>3 DEF Issue!TypeOK
<1> QED
  BY <1>3, <1>4, TypeStep, IssueJobsAre DEF Issue!TypeOK

LEMMA BeginDeleteKeeps ==
  ASSUME Issue!TypeOK, NEW p \in Procs, NEW code \in Issue!Codes, Issue!BeginDelete(p, code),
         issuersOrderly' \in BOOLEAN
  PROVE  Issue!TypeOK'
<1> DEFINE job == [ stage |-> "restore", code |-> code, back |-> expenses[code],
                    todo |-> Issue!Of(expenses[code]) ]
<1>1. job \in Issue!Job
  BY IssueJobsAre DEF Restoring, Issue!TypeOK, Issue!Of
<1>2. Issue!GoOn(p, job) /\ UNCHANGED <<issuedStock, lastCode, expenses, assets>>
  BY DEF Issue!BeginDelete
<1> HIDE DEF job
<1> QED
  BY <1>1, <1>2, TypeStep DEF Issue!TypeOK

LEMMA RestoreKeeps ==
  ASSUME Issue!TypeOK, NEW p \in Procs, NEW r \in Places, Issue!Restore(p, r),
         issuersOrderly' \in BOOLEAN
  PROVE  Issue!TypeOK'
<1> DEFINE job == issuers[p]
           next == [job EXCEPT !.todo = @ \ {r}]
<1>1. job \in Restoring
  BY IssueJobOf, IssueJobKinds DEF Issue!Restore
<1>2. next \in Issue!Job /\ job.back[r] \in Nat
  BY <1>1, IssueJobsAre DEF Restoring, Issue!Quantity
<1>3. Issue!GoOn(p, next) /\ UNCHANGED <<lastCode, expenses, assets>>
  BY DEF Issue!Restore
<1>4. issuedStock' \in [Places -> Nat]
  BY <1>2 DEF Issue!Restore, Issue!TypeOK
<1> HIDE DEF next
<1> QED
  BY <1>2, <1>3, <1>4, TypeStep DEF Issue!TypeOK

LEMMA DeleteDocumentsKeeps ==
  ASSUME Issue!TypeOK, NEW p \in Procs, Issue!DeleteDocuments(p), issuersOrderly' \in BOOLEAN
  PROVE  Issue!TypeOK'
<1> DEFINE job == issuers[p]
           next == IF expenses[job.code] = Issue!Nothing THEN Issue!Idle
                   ELSE [stage |-> "deleted", code |-> job.code]
<1>1. job \in Restoring
  BY IssueJobOf, IssueJobKinds DEF Issue!DeleteDocuments
<1>2. next \in Issue!Job
  BY <1>1, IssueJobsAre DEF Restoring, Deleted
<1>3. Issue!GoOn(p, next) /\ UNCHANGED <<issuedStock, lastCode, assets>>
      /\ expenses' = [expenses EXCEPT ![job.code] = Issue!Nothing]
  BY DEF Issue!DeleteDocuments
<1>4. expenses' \in [Issue!Codes -> Issue!Quantity]
  BY <1>3, NothingIsQuantity DEF Issue!TypeOK
<1> HIDE DEF next
<1> QED
  BY <1>2, <1>3, <1>4, TypeStep DEF Issue!TypeOK

\* What becomes of the assets of an expense that was deleted.
LEMMA ReturnedAssets ==
  ASSUME Issue!TypeOK, NEW p \in Procs, Issue!ReturnActiveAssets(p)
  PROVE  LET code == issuers[p].code
         IN  /\ issuers[p] \in Deleted /\ code \in Issue!Codes
             /\ assets' \in [Issue!Codes -> [Places -> Issue!Asset]]
             /\ \A c \in Issue!Codes : c # code => assets'[c] = assets[c]
             /\ \A r \in Places :
                  /\ assets[code][r].status = "active" =>
                       assets'[code][r].status = "returned"
                  /\ assets[code][r].status # "active" => assets'[code][r] = assets[code][r]
<1> DEFINE code == issuers[p].code
           b == [r \in Places |-> [assets[code][r] EXCEPT !.status = "returned"]]
           a == [r \in Places |-> IF assets[code][r].status = "active" THEN b[r]
                                  ELSE assets[code][r]]
<1>1. issuers[p] \in Deleted /\ code \in Issue!Codes
  BY IssueJobOf, IssueJobKinds DEF Issue!ReturnActiveAssets
<1>2. \A r \in Places : b[r] \in Issue!Asset /\ b[r].status = "returned"
  BY <1>1 DEF Issue!TypeOK, Issue!Asset
<1>3. assets' = [assets EXCEPT ![code] = a]
  BY <1>1 DEF Issue!ReturnActiveAssets, Issue!TypeOK
<1> HIDE DEF b
<1>4. a \in [Places -> Issue!Asset]
  BY <1>1, <1>2 DEF Issue!TypeOK
<1>5. \A r \in Places : a[r] = IF assets[code][r].status = "active" THEN b[r]
                               ELSE assets[code][r]
  OBVIOUS
<1> HIDE DEF a
<1>6. assets'[code] = a /\ assets' \in [Issue!Codes -> [Places -> Issue!Asset]]
      /\ \A c \in Issue!Codes : c # code => assets'[c] = assets[c]
  BY <1>1, <1>3, <1>4 DEF Issue!TypeOK
<1> QED
  BY <1>1, <1>2, <1>5, <1>6

LEMMA ReturnActiveAssetsKeeps ==
  ASSUME Issue!TypeOK, NEW p \in Procs, Issue!ReturnActiveAssets(p), issuersOrderly' \in BOOLEAN
  PROVE  Issue!TypeOK'
<1>1. Issue!GoOn(p, Issue!Idle) /\ UNCHANGED <<issuedStock, lastCode, expenses>>
  BY DEF Issue!ReturnActiveAssets
<1> QED
  BY <1>1, ReturnedAssets, TypeStep, IssueJobsAre DEF Issue!TypeOK

LEMMA BeginReturnKeeps ==
  ASSUME Issue!TypeOK, NEW p \in Procs, NEW code \in Issue!Codes, NEW r \in Places,
         Issue!BeginReturn(p, code, r) \/ Issue!BeginDiscard(p, code, r), issuersOrderly' \in BOOLEAN
  PROVE  Issue!TypeOK'
<1> DEFINE ret == [ stage |-> "return", code |-> code, row |-> r,
                    back |-> assets[code][r].quantity, status |-> "returned" ]
           dis == [ stage |-> "save", code |-> code, row |-> r,
                    back |-> 0, status |-> "discarded" ]
<1>1. ret \in Issue!Job /\ dis \in Issue!Job
  BY IssueJobsAre DEF Settling, Issue!TypeOK, Issue!Asset
<1>2. Issue!GoOn(p, ret) \/ Issue!GoOn(p, dis)
  BY DEF Issue!BeginReturn, Issue!BeginDiscard
<1>3. UNCHANGED <<issuedStock, lastCode, expenses, assets>>
  BY DEF Issue!BeginReturn, Issue!BeginDiscard
<1> HIDE DEF ret, dis
<1> QED
  BY <1>1, <1>2, <1>3, TypeStep DEF Issue!TypeOK

LEMMA RestoreAssetKeeps ==
  ASSUME Issue!TypeOK, NEW p \in Procs, Issue!RestoreAsset(p), issuersOrderly' \in BOOLEAN
  PROVE  Issue!TypeOK'
<1> DEFINE job == issuers[p]
           next == [job EXCEPT !.stage = "save"]
<1>1. job \in Settling
  BY IssueJobOf, IssueJobKinds DEF Issue!RestoreAsset
<1>2. next \in Issue!Job /\ job.back \in Nat
  BY <1>1, IssueJobsAre DEF Settling
<1>3. Issue!GoOn(p, next) /\ UNCHANGED <<lastCode, expenses, assets>>
  BY DEF Issue!RestoreAsset
<1>4. issuedStock' \in [Places -> Nat]
  BY <1>1, <1>2 DEF Issue!RestoreAsset, Settling, Issue!TypeOK
<1> HIDE DEF next
<1> QED
  BY <1>2, <1>3, <1>4, TypeStep DEF Issue!TypeOK

\* What a save does to an asset.
LEMMA SavedAsset ==
  ASSUME Issue!TypeOK, NEW p \in Procs, Issue!SaveAsset(p)
  PROVE  LET job == issuers[p]
         IN  /\ job \in Settling
             /\ assets' \in [Issue!Codes -> [Places -> Issue!Asset]]
             /\ assets'[job.code][job.row].status = job.status
             /\ assets'[job.code][job.row].quantity = assets[job.code][job.row].quantity
             /\ \A c \in Issue!Codes, r \in Places :
                  c # job.code \/ r # job.row => assets'[c][r] = assets[c][r]
<1> DEFINE job == issuers[p]
           a == [assets[job.code][job.row] EXCEPT !.status = job.status]
<1>1. job \in Settling
  BY IssueJobOf, IssueJobKinds DEF Issue!SaveAsset
<1>2. job.code \in Issue!Codes /\ job.row \in Places /\ assets[job.code][job.row] \in Issue!Asset
      /\ job.status \in {"returned", "discarded"}
  BY <1>1 DEF Settling, Issue!TypeOK
<1>3. a \in Issue!Asset /\ a.status = job.status /\ a.quantity = assets[job.code][job.row].quantity
  BY <1>2 DEF Issue!Asset
<1>4. assets' = [assets EXCEPT ![job.code][job.row] = a]
  BY DEF Issue!SaveAsset
<1> HIDE DEF a
<1> QED
  BY <1>1, <1>2, <1>3, <1>4 DEF Issue!TypeOK

LEMMA SaveAssetKeeps ==
  ASSUME Issue!TypeOK, NEW p \in Procs, Issue!SaveAsset(p), issuersOrderly' \in BOOLEAN
  PROVE  Issue!TypeOK'
<1>1. Issue!GoOn(p, Issue!Idle) /\ UNCHANGED <<issuedStock, lastCode, expenses>>
  BY DEF Issue!SaveAsset
<1> QED
  BY <1>1, SavedAsset, TypeStep, IssueJobsAre DEF Issue!TypeOK

LEMMA IssueType ==
  ASSUME Issue!TypeOK, [Issue!Next]_(Issue!vars)
  PROVE  Issue!TypeOK'
<1>1. CASE UNCHANGED Issue!vars
  BY <1>1 DEF Issue!vars, Issue!TypeOK
<1>2. ASSUME NEW p \in Procs, Issue!Begin(p) \/ Issue!Continue(p), issuersOrderly' \in BOOLEAN
      PROVE  Issue!TypeOK'
  BY <1>2, BeginExpenseKeeps, BeginDeleteKeeps, BeginReturnKeeps, IssueDeductKeeps, RestoreKeeps,
     CheckModifiedKeeps, DocumentKeeps, CreateAssetsKeeps, DeleteDocumentsKeeps,
     ReturnActiveAssetsKeeps, RestoreAssetKeeps, SaveAssetKeeps
  DEF Issue!Begin, Issue!Continue
<1>3. ASSUME NEW p \in Procs, Issue!Crash(p), issuersOrderly' = FALSE
      PROVE  Issue!TypeOK'
  BY <1>3, TypeStep, IssueJobsAre DEF Issue!Crash, Issue!TypeOK
<1>4. ASSUME NEW p \in Procs, issuersOrderly' = (issuersOrderly /\ \A q \in Procs \ {p} : issuers[q] = Issue!Idle)
      PROVE  issuersOrderly' \in BOOLEAN
  BY <1>4 DEF Issue!TypeOK
<1> QED
  BY <1>1, <1>2, <1>3, <1>4 DEF Issue!Next

-----------------------------------------------------------------------------
(* The account of a row *)

\* What an expense of e pieces with asset a has in use.
Use(a, e) ==
  CASE a.status \in {"active", "discarded"} -> a.quantity
    [] a.status = "returned" -> 0
    [] OTHER -> e

LEMMA IssueSum ==
  ASSUME NEW f
  PROVE  Issue!SumFunction(f) = SumFunctionOnSet(f, DOMAIN f)
BY DEF Issue!SumFunction, Issue!SumFunctionOnSet, Issue!FoldFunctionOnSet,
       Issue!MapThenFoldSet, SumFunctionOnSet, FoldFunctionOnSet, MapThenFoldSet

LEMMA UseIsInt ==
  ASSUME NEW a \in Issue!Asset, NEW e \in Nat
  PROVE  Use(a, e) \in Int
BY DEF Use, Issue!Asset

LEMMA AccountedIsSum ==
  ASSUME NEW r
  PROVE  /\ Issue!Accounted(r) = issuedStock[r] +
              SumFunctionOnSet([c \in Issue!Codes |-> Use(assets[c][r], expenses[c][r])], Issue!Codes)
         /\ Issue!Accounted(r)' = issuedStock'[r] +
              SumFunctionOnSet([c \in Issue!Codes |-> Use(assets'[c][r], expenses'[c][r])], Issue!Codes)
BY IssueSum DEF Issue!Accounted, Issue!InUse, Use

LEMMA CodesAreFinite == IsFiniteSet(Issue!Codes)
BY IssueAssumed, FS_Interval DEF Issue!Codes, Issue!ExpenseAssumption

LEMMA AccountedIsInt ==
  ASSUME Issue!TypeOK, NEW r \in Places
  PROVE  Issue!Accounted(r) \in Int
<1> DEFINE use == [c \in Issue!Codes |-> Use(assets[c][r], expenses[c][r])]
<1>1. \A c \in Issue!Codes : use[c] \in Int
  BY UseIsInt DEF Issue!TypeOK, Issue!Quantity
<1>2. Issue!Accounted(r) = issuedStock[r] + SumFunctionOnSet(use, Issue!Codes)
  BY AccountedIsSum
<1>3. issuedStock[r] \in Int
  BY DEF Issue!TypeOK
<1> HIDE DEF use
<1> QED
  BY <1>1, <1>2, <1>3, CodesAreFinite, SumIsInt

\* One expense changes, and the row.
LEMMA AccountMoves ==
  ASSUME Issue!TypeOK, Issue!TypeOK', NEW code \in Issue!Codes, NEW r \in Places,
         \A c \in Issue!Codes : c # code => /\ assets'[c][r] = assets[c][r]
                                            /\ expenses'[c][r] = expenses[c][r]
  PROVE  /\ Issue!Accounted(r)' = Issue!Accounted(r) + (issuedStock'[r] - issuedStock[r])
              + Use(assets'[code][r], expenses'[code][r]) - Use(assets[code][r], expenses[code][r])
         /\ Issue!Accounted(r) \in Int /\ issuedStock[r] \in Int /\ issuedStock'[r] \in Int
         /\ Use(assets'[code][r], expenses'[code][r]) \in Int
         /\ Use(assets[code][r], expenses[code][r]) \in Int
<1> DEFINE use == [c \in Issue!Codes |-> Use(assets[c][r], expenses[c][r])]
           useN == [c \in Issue!Codes |-> Use(assets'[c][r], expenses'[c][r])]
<1>1. \A c \in Issue!Codes : /\ use[c] \in Int /\ useN[c] \in Int
                             /\ c # code => useN[c] = use[c]
  BY UseIsInt DEF Issue!TypeOK, Issue!Quantity
<1>2. /\ Issue!Accounted(r) = issuedStock[r] + SumFunctionOnSet(use, Issue!Codes)
      /\ Issue!Accounted(r)' = issuedStock'[r] + SumFunctionOnSet(useN, Issue!Codes)
  BY AccountedIsSum
<1>6. issuedStock[r] \in Int /\ issuedStock'[r] \in Int
  BY DEF Issue!TypeOK
<1>3. /\ use[code] = Use(assets[code][r], expenses[code][r])
      /\ useN[code] = Use(assets'[code][r], expenses'[code][r])
  OBVIOUS
<1> HIDE DEF use, useN
<1>4. SumFunctionOnSet(useN, Issue!Codes) = SumFunctionOnSet(use, Issue!Codes) + useN[code] - use[code]
  BY <1>1, CodesAreFinite, SumChangeOne
<1>5. SumFunctionOnSet(use, Issue!Codes) \in Int
  BY <1>1, CodesAreFinite, SumIsInt
<1> QED
  BY <1>1, <1>2, <1>3, <1>4, <1>5, <1>6

\* Only the row changes.
LEMMA AccountOfStock ==
  ASSUME Issue!TypeOK, Issue!TypeOK', UNCHANGED <<expenses, assets>>, NEW r \in Places
  PROVE  /\ Issue!Accounted(r)' = Issue!Accounted(r) + (issuedStock'[r] - issuedStock[r])
         /\ Issue!Accounted(r) \in Int /\ issuedStock[r] \in Int /\ issuedStock'[r] \in Int
<1> DEFINE use == [c \in Issue!Codes |-> Use(assets[c][r], expenses[c][r])]
<1>1. \A c \in Issue!Codes : use[c] \in Int
  BY UseIsInt DEF Issue!TypeOK, Issue!Quantity
<1>2. /\ Issue!Accounted(r) = issuedStock[r] + SumFunctionOnSet(use, Issue!Codes)
      /\ Issue!Accounted(r)' = issuedStock'[r] + SumFunctionOnSet(use, Issue!Codes)
      /\ issuedStock[r] \in Int /\ issuedStock'[r] \in Int
  BY AccountedIsSum DEF Issue!TypeOK
<1> HIDE DEF use
<1>3. SumFunctionOnSet(use, Issue!Codes) \in Int
  BY <1>1, CodesAreFinite, SumIsInt
<1> QED
  BY <1>2, <1>3

LEMMA IssueShiftOfIdle == \A r : IssueShift(Issue!Idle, r) = 0
BY IssueJobsAre DEF IssueShift

LEMMA AloneIdle == IssueAloneOK(Issue!Idle)
BY IssueJobsAre DEF IssueAloneOK

LEMMA IssueShiftIsInt ==
  ASSUME Issue!TypeOK, NEW job \in Issue!Job, NEW r \in Places
  PROVE  IssueShift(job, r) \in Int
<1>1. CASE job = Issue!Idle
  BY <1>1, IssueShiftOfIdle
<1>2. CASE job \in Spending
  BY <1>2 DEF IssueShift, Spending, Issue!Quantity
<1>3. CASE job \in Restoring
  BY <1>3 DEF IssueShift, Restoring, Issue!Quantity
<1>4. CASE job \in Deleted
  BY <1>4 DEF IssueShift, Deleted, Issue!TypeOK, Issue!Asset
<1>5. CASE job \in Settling
  BY <1>5 DEF IssueShift, Settling
<1> QED
  BY <1>1, <1>2, <1>3, <1>4, <1>5 DEF Issue!Job, Issue!Idle, Spending, Restoring, Deleted,
                                      Settling

LEMMA AmountIsNat == 1 \in Nat
BY IssueAssumed DEF Issue!ExpenseAssumption

\* A step that shifts the account of every row by as much as it moves it.
LEMMA SoundStep ==
  ASSUME Issue!TypeOK, Issue!TypeOK', NEW p \in Procs, IssueSound(issuers[p]),
         IssueAloneOK(issuers[p])', Untouched', ListedOK(issuers[p])',
         \A r \in Places :
           Issue!Accounted(r)' + IssueShift(issuers[p], r)' >= Issue!Accounted(r) + IssueShift(issuers[p], r)
  PROVE  IssueSound(issuers[p])'
<1>1. \A r \in Places : Issue!Accounted(r) \in Int /\ IssueShift(issuers[p], r) \in Int
  BY AccountedIsInt, IssueShiftIsInt, IssueJobOf
<1>2. ASSUME NEW r \in Places  PROVE Issue!Accounted(r)' \in Int
  <2> DEFINE useN == [c \in Issue!Codes |-> Use(assets'[c][r], expenses'[c][r])]
  <2>1. \A c \in Issue!Codes : useN[c] \in Int
    BY UseIsInt DEF Issue!TypeOK, Issue!Quantity
  <2>2. Issue!Accounted(r)' = issuedStock'[r] + SumFunctionOnSet(useN, Issue!Codes)
    BY AccountedIsSum
  <2>3. issuedStock'[r] \in Int
    BY DEF Issue!TypeOK
  <2> HIDE DEF useN
  <2> QED
    BY <2>1, <2>2, <2>3, CodesAreFinite, SumIsInt
<1>3. ASSUME NEW r \in Places  PROVE IssueShift(issuers[p], r)' \in Int
  <2>1. issuers'[p] \in Issue!Job
    BY DEF Issue!TypeOK
  <2>2. CASE issuers'[p] = Issue!Idle
    BY <2>2, IssueJobsAre DEF IssueShift
  <2>3. CASE issuers'[p] \in Spending
    BY <2>3 DEF IssueShift, Spending, Issue!Quantity
  <2>4. CASE issuers'[p] \in Restoring
    BY <2>4 DEF IssueShift, Restoring, Issue!Quantity
  <2>5. CASE issuers'[p] \in Deleted
    BY <2>5 DEF IssueShift, Deleted, Issue!TypeOK, Issue!Asset
  <2>6. CASE issuers'[p] \in Settling
    BY <2>6 DEF IssueShift, Settling
  <2> QED
    BY <2>1, <2>2, <2>3, <2>4, <2>5, <2>6
    DEF Issue!Job, Issue!Idle, Spending, Restoring, Deleted, Settling
<1>4. /\ \A r \in Places : Issue!Accounted(r) + IssueShift(issuers[p], r) >= 1
  BY DEF IssueSound
<1>5. \A r \in Places : Issue!Accounted(r)' + IssueShift(issuers[p], r)' >= 1
  BY <1>1, <1>2, <1>3, <1>4, AmountIsNat
<1> QED
  BY <1>5 DEF IssueSound

LEMMA BeginExpenseSound ==
  ASSUME Issue!TypeOK, Issue!TypeOK', NEW p \in Procs, IssueSound(issuers[p]),
         NEW reason \in Reasons, NEW ask \in [Places -> 0..1], Issue!BeginExpense(p, reason, ask)
  PROVE  IssueSound(issuers[p])'
<1> DEFINE code == lastCode + 1
<1>1. /\ issuers[p] = Issue!Idle /\ UNCHANGED <<issuedStock, expenses, assets>> /\ lastCode' = lastCode + 1
      /\ \A r \in Places : ask[r] <= issuedStock[r]
      /\ issuers'[p] = [ stage |-> "deduct", code |-> code, reason |-> reason,
                         ask |-> ask, todo |-> Issue!Of(ask), done |-> {},
                         write |-> {[l \in Places |-> l][r] : r \in Issue!Of(ask)} ]
  BY WentOn DEF Issue!BeginExpense
<1>2. lastCode \in Int /\ code \in Issue!Codes /\ \A c \in Issue!Codes : c \in Int
  BY IssueAssumed DEF Issue!BeginExpense, Issue!TypeOK, Issue!Codes, Issue!ExpenseAssumption
<1>3. expenses[code] = Issue!Nothing /\ \A r \in Places : assets[code][r] = Issue!NoAsset
  BY <1>2 DEF IssueSound, Untouched
<1>4. IssueAloneOK(issuers[p])'
  BY <1>1, <1>2, <1>3 DEF IssueAloneOK, Issue!Of
<1>5. Untouched'
  BY <1>1, <1>2 DEF IssueSound, Untouched
<1>6. ListedOK(issuers[p])'
  BY <1>1, IssueJobsAre DEF IssueSound, ListedOK
<1>7. \A r \in Places : Issue!Accounted(r)' + IssueShift(issuers[p], r)' >= Issue!Accounted(r) + IssueShift(issuers[p], r)
  <2>1. \A r \in Places : IssueShift(issuers[p], r)' = 0 /\ IssueShift(issuers[p], r) = 0
    BY <1>1, IssueJobsAre DEF IssueShift
  <2>2. \A r \in Places : Issue!Accounted(r)' = Issue!Accounted(r) /\ Issue!Accounted(r) \in Int
    BY <1>1, AccountOfStock, AccountedIsInt
  <2> QED
    BY <2>1, <2>2
<1> QED
  BY <1>4, <1>5, <1>6, <1>7, SoundStep

LEMMA DeductSound ==
  ASSUME Issue!TypeOK, Issue!TypeOK', NEW p \in Procs, IssueSound(issuers[p]), NEW r \in Places,
         Issue!Deduct(p, r)
  PROVE  IssueSound(issuers[p])'
<1> DEFINE job == issuers[p]
<1>1. /\ job \in Spending /\ job.stage = "deduct" /\ r \in job.todo /\ r \notin job.done
      /\ job.ask[r] <= issuedStock[r]
  BY IssueJobOf, IssueJobKinds DEF Issue!Deduct, IssueSound, IssueAloneOK
<1>2. job.ask[r] \in Nat /\ issuedStock[r] \in Nat /\ \A s \in Places : job.ask[s] \in Nat
  BY <1>1 DEF Spending, Issue!Quantity, Issue!TypeOK
<1>3. /\ issuedStock' = [issuedStock EXCEPT ![r] = @ - job.ask[r]]
      /\ UNCHANGED <<lastCode, expenses, assets>>
      /\ issuers'[p] = [job EXCEPT !.todo = @ \ {r}, !.done = @ \cup {r}]
  BY <1>1, <1>2, WentOn DEF Issue!Deduct
<1>4. /\ issuers'[p].stage = "deduct" /\ issuers'[p].code = job.code /\ issuers'[p].ask = job.ask
      /\ issuers'[p].todo = job.todo \ {r} /\ issuers'[p].done = job.done \cup {r}
      /\ issuers'[p].write = job.write
  BY <1>1, <1>3 DEF Spending
<1>5. /\ r \in Issue!Of(job.ask) /\ \A s \in job.todo : s \in Places
  BY <1>1 DEF IssueSound, IssueAloneOK, Issue!Of
<1>6. \A s \in Places : s # r => issuedStock'[s] = issuedStock[s]
  BY <1>3 DEF Issue!TypeOK
<1>7. IssueAloneOK(issuers[p])'
  BY <1>1, <1>3, <1>4, <1>5, <1>6 DEF IssueSound, IssueAloneOK, Issue!Of
<1>8. Untouched' /\ ListedOK(issuers[p])'
  BY <1>1, <1>3, <1>4 DEF IssueSound, Untouched, ListedOK
<1>9. \A s \in Places : Issue!Accounted(s)' + IssueShift(issuers[p], s)' >= Issue!Accounted(s) + IssueShift(issuers[p], s)
  <2>1. \A s \in Places : /\ IssueShift(issuers[p], s) = IF s \in job.done THEN job.ask[s] ELSE 0
                          /\ IssueShift(issuers[p], s)' = IF s \in job.done \cup {r} THEN job.ask[s] ELSE 0
    BY <1>1, <1>4 DEF IssueShift
  <2>2. \A s \in Places : /\ Issue!Accounted(s)' = Issue!Accounted(s) + (issuedStock'[s] - issuedStock[s])
                          /\ Issue!Accounted(s) \in Int /\ issuedStock[s] \in Int /\ issuedStock'[s] \in Int
    BY <1>3, AccountOfStock
  <2>3. issuedStock'[r] = issuedStock[r] - job.ask[r]
    BY <1>3 DEF Issue!TypeOK
  <2> QED
    BY <1>1, <1>2, <1>6, <2>1, <2>2, <2>3
<1> QED
  BY <1>7, <1>8, <1>9, SoundStep

LEMMA CheckModifiedSound ==
  ASSUME Issue!TypeOK, Issue!TypeOK', NEW p \in Procs, IssueSound(issuers[p]),
         Issue!CheckModified(p)
  PROVE  IssueSound(issuers[p])'
<1> DEFINE job == issuers[p]
<1>1. /\ job \in Spending /\ job.stage = "deduct" /\ job.todo = {} /\ job.done = Issue!Of(job.ask)
      /\ UNCHANGED <<issuedStock, lastCode, expenses, assets>>
  BY IssueJobOf, IssueJobKinds DEF Issue!CheckModified, IssueSound, IssueAloneOK
<1>2. issuers'[p] = [job EXCEPT !.stage = "document"]
  BY <1>1, WentOn DEF Issue!CheckModified
<1>3. /\ issuers'[p].stage = "document" /\ issuers'[p].code = job.code
      /\ issuers'[p].ask = job.ask /\ issuers'[p].write = job.write
  BY <1>1, <1>2 DEF Spending
<1>4. \A s \in Places : job.ask[s] \in Nat
  BY <1>1 DEF Spending, Issue!Quantity
<1>5. \A s \in Places : [l \in Places |-> l][s] \notin job.write => job.ask[s] = 0
  BY <1>1, <1>4 DEF IssueSound, IssueAloneOK, Issue!Of
<1>6. expenses[job.code] = Issue!Nothing /\ job.code <= lastCode
      /\ \A s \in Places : assets[job.code][s] = Issue!NoAsset
  BY <1>1 DEF IssueSound, IssueAloneOK
<1>7. IssueAloneOK(issuers[p])'
  BY <1>1, <1>3, <1>5, <1>6 DEF IssueAloneOK, Issue!Nothing
<1>8. Untouched' /\ ListedOK(issuers[p])'
  BY <1>1, <1>3 DEF IssueSound, Untouched, ListedOK
<1>9. \A s \in Places : Issue!Accounted(s)' + IssueShift(issuers[p], s)' >= Issue!Accounted(s) + IssueShift(issuers[p], s)
  <2>1. \A s \in Places : Issue!Accounted(s)' = Issue!Accounted(s) /\ Issue!Accounted(s) \in Int
    BY <1>1, AccountOfStock
  <2>2. \A s \in Places : /\ IssueShift(issuers[p], s) = job.ask[s]
                          /\ IssueShift(issuers[p], s)' = job.ask[s]
    BY <1>1, <1>3, <1>4, <1>5 DEF IssueShift, Issue!Of
  <2> QED
    BY <1>4, <2>1, <2>2
<1> QED
  BY <1>7, <1>8, <1>9, SoundStep

LEMMA DocumentSound ==
  ASSUME Issue!TypeOK, Issue!TypeOK', NEW p \in Procs, IssueSound(issuers[p]),
         NEW location \in Issue!Locations,
         Issue!CreateDocument(p, location)
  PROVE  IssueSound(issuers[p])'
<1> DEFINE job == issuers[p]
           e == [r \in Places |-> IF [l \in Places |-> l][r] = location THEN job.ask[r]
                                  ELSE expenses[job.code][r]]
<1>1. /\ job \in Spending /\ job.stage = "document" /\ location \in job.write
      /\ UNCHANGED <<issuedStock, lastCode, assets>> /\ job.code \in Issue!Codes
  BY IssueJobOf, IssueJobKinds DEF Issue!CreateDocument
<1>2. expenses' = [expenses EXCEPT ![job.code] = e]
  BY <1>1 DEF Issue!CreateDocument, Issue!TypeOK
<1>3. issuers'[p] = [job EXCEPT !.write = @ \ {location}]
  BY WentOn DEF Issue!CreateDocument
<1>4. /\ issuers'[p].stage = "document" /\ issuers'[p].code = job.code
      /\ issuers'[p].ask = job.ask /\ issuers'[p].write = job.write \ {location}
  BY <1>1, <1>3 DEF Spending
<1>5. /\ \A s \in Places : assets[job.code][s] = Issue!NoAsset
      /\ \A s \in Places : expenses[job.code][s] = IF [l \in Places |-> l][s] \in job.write THEN 0
                                                    ELSE job.ask[s]
      /\ job.code <= lastCode
  BY <1>1 DEF IssueSound, IssueAloneOK
<1>6. \A s \in Places : e[s] = IF [l \in Places |-> l][s] \in job.write \ {location} THEN 0 ELSE job.ask[s]
  BY <1>1, <1>5
<1> HIDE DEF e
<1>7. /\ expenses'[job.code] = e
      /\ \A c \in Issue!Codes : c # job.code => expenses'[c] = expenses[c]
  BY <1>1, <1>2 DEF Issue!TypeOK
<1>8. IssueAloneOK(issuers[p])'
  BY <1>1, <1>4, <1>5, <1>6, <1>7 DEF IssueAloneOK
<1>9. Untouched'
  BY <1>1, <1>5, <1>7 DEF IssueSound, Untouched, Issue!TypeOK, Issue!Codes
<1>10. ListedOK(issuers[p])'
  BY <1>1, <1>4, <1>5, <1>7, NothingIsQuantity DEF IssueSound, ListedOK
<1>11. \A s \in Places : Issue!Accounted(s)' + IssueShift(issuers[p], s)' >= Issue!Accounted(s) + IssueShift(issuers[p], s)
  <2> SUFFICES ASSUME NEW s \in Places
               PROVE  Issue!Accounted(s)' + IssueShift(issuers[p], s)' >= Issue!Accounted(s) + IssueShift(issuers[p], s)
    OBVIOUS
  <2>1. /\ Issue!Accounted(s)' = Issue!Accounted(s) + (issuedStock'[s] - issuedStock[s])
             + Use(assets'[job.code][s], expenses'[job.code][s])
             - Use(assets[job.code][s], expenses[job.code][s])
        /\ Issue!Accounted(s) \in Int /\ issuedStock[s] \in Int
    <3> DEFINE code == job.code
    <3>1. code \in Issue!Codes /\ \A c \in Issue!Codes : c # code => /\ assets'[c][s] = assets[c][s]
                                                                     /\ expenses'[c][s] = expenses[c][s]
      BY <1>1, <1>7
    <3> HIDE DEF code
    <3>2. /\ Issue!Accounted(s)' = Issue!Accounted(s) + (issuedStock'[s] - issuedStock[s])
               + Use(assets'[code][s], expenses'[code][s]) - Use(assets[code][s], expenses[code][s])
          /\ Issue!Accounted(s) \in Int /\ issuedStock[s] \in Int
      BY <3>1, AccountMoves
    <3> QED
      BY <3>2 DEF code
  <2>2. /\ Use(assets'[job.code][s], expenses'[job.code][s]) = e[s]
        /\ Use(assets[job.code][s], expenses[job.code][s]) = expenses[job.code][s]
    BY <1>1, <1>5, <1>7, NothingIsQuantity DEF Use
  <2>3. /\ IssueShift(issuers[p], s) = IF [l \in Places |-> l][s] \in job.write THEN job.ask[s] ELSE 0
        /\ IssueShift(issuers[p], s)' = IF [l \in Places |-> l][s] \in job.write \ {location}
                                        THEN job.ask[s] ELSE 0
    BY <1>1, <1>4 DEF IssueShift
  <2>4. job.ask[s] \in Nat /\ issuedStock'[s] = issuedStock[s]
    BY <1>1 DEF Spending, Issue!Quantity
  <2> QED
    BY <1>5, <1>6, <2>1, <2>2, <2>3, <2>4
<1> QED
  BY <1>8, <1>9, <1>10, <1>11, SoundStep

LEMMA CreateAssetsSound ==
  ASSUME Issue!TypeOK, Issue!TypeOK', NEW p \in Procs, IssueSound(issuers[p]),
         Issue!CreateAssets(p)
  PROVE  IssueSound(issuers[p])'
<1> DEFINE job == issuers[p]
           a == [r \in Places |-> IF r \in Issue!Of(job.ask)
                                  THEN [quantity |-> job.ask[r], status |-> "active"]
                                  ELSE Issue!NoAsset]
<1>1. /\ job \in Spending /\ job.stage = "document" /\ job.write = {}
      /\ UNCHANGED <<issuedStock, lastCode, expenses>> /\ job.code \in Issue!Codes
  BY IssueJobOf, IssueJobKinds DEF Issue!CreateAssets
<1>2. /\ \A s \in Places : assets[job.code][s] = Issue!NoAsset
      /\ \A s \in Places : expenses[job.code][s] = job.ask[s] /\ job.ask[s] \in Nat
      /\ job.code <= lastCode
  BY <1>1 DEF IssueSound, IssueAloneOK, Spending, Issue!Quantity
<1>3. issuers'[p] = Issue!Idle
  BY WentOn DEF Issue!CreateAssets
<1>4. \/ UNCHANGED assets
      \/ assets' = [assets EXCEPT ![job.code] = a]
  BY DEF Issue!CreateAssets
<1>5. \A s \in Places : /\ a[s].status \in {"active", "none"}
                        /\ a[s].status = "active" => a[s].quantity = job.ask[s] /\ job.ask[s] > 0
                        /\ a[s].status = "none" => job.ask[s] = 0
  BY <1>2, NothingIsQuantity DEF Issue!Of
<1> HIDE DEF a
<1>6. /\ \A c \in Issue!Codes : c # job.code => assets'[c] = assets[c]
      /\ assets'[job.code] = a \/ assets'[job.code] = assets[job.code]
  BY <1>1, <1>4 DEF Issue!TypeOK
<1>7. IssueAloneOK(issuers[p])'
  BY <1>3, IssueJobsAre DEF IssueAloneOK
<1>8. Untouched'
  BY <1>1, <1>2, <1>6 DEF IssueSound, Untouched, Issue!TypeOK, Issue!Codes
<1>9. ListedOK(issuers[p])'
  BY <1>1, <1>2, <1>3, <1>5, <1>6, NothingIsQuantity, IssueJobsAre DEF IssueSound, ListedOK
<1>10. \A s \in Places : Issue!Accounted(s)' + IssueShift(issuers[p], s)' >= Issue!Accounted(s) + IssueShift(issuers[p], s)
  <2> SUFFICES ASSUME NEW s \in Places
               PROVE  Issue!Accounted(s)' + IssueShift(issuers[p], s)' >= Issue!Accounted(s) + IssueShift(issuers[p], s)
    OBVIOUS
  <2>1. /\ Issue!Accounted(s)' = Issue!Accounted(s) + (issuedStock'[s] - issuedStock[s])
             + Use(assets'[job.code][s], expenses'[job.code][s])
             - Use(assets[job.code][s], expenses[job.code][s])
        /\ Issue!Accounted(s) \in Int /\ issuedStock[s] \in Int
    <3> DEFINE code == job.code
    <3>1. code \in Issue!Codes /\ \A c \in Issue!Codes : c # code => /\ assets'[c][s] = assets[c][s]
                                                                     /\ expenses'[c][s] = expenses[c][s]
      BY <1>1, <1>6
    <3> HIDE DEF code
    <3>2. /\ Issue!Accounted(s)' = Issue!Accounted(s) + (issuedStock'[s] - issuedStock[s])
               + Use(assets'[code][s], expenses'[code][s]) - Use(assets[code][s], expenses[code][s])
          /\ Issue!Accounted(s) \in Int /\ issuedStock[s] \in Int
      BY <3>1, AccountMoves
    <3> QED
      BY <3>2 DEF code
  <2>2. /\ Use(assets'[job.code][s], expenses'[job.code][s]) = job.ask[s]
        /\ Use(assets[job.code][s], expenses[job.code][s]) = job.ask[s]
    BY <1>1, <1>2, <1>5, <1>6, NothingIsQuantity DEF Use
  <2>3. IssueShift(issuers[p], s) = 0 /\ IssueShift(issuers[p], s)' = 0
    BY <1>1, <1>3, IssueJobsAre DEF IssueShift
  <2> QED
    BY <1>1, <1>2, <2>1, <2>2, <2>3
<1> QED
  BY <1>7, <1>8, <1>9, <1>10, SoundStep

LEMMA BeginDeleteSound ==
  ASSUME Issue!TypeOK, Issue!TypeOK', NEW p \in Procs, IssueSound(issuers[p]),
         NEW code \in Issue!Codes,
         Issue!BeginDelete(p, code)
  PROVE  IssueSound(issuers[p])'
<1>1. /\ issuers[p] = Issue!Idle /\ UNCHANGED <<issuedStock, lastCode, expenses, assets>>
      /\ expenses[code] # Issue!Nothing
      /\ issuers'[p] = [ stage |-> "restore", code |-> code, back |-> expenses[code],
                         todo |-> Issue!Of(expenses[code]) ]
  BY WentOn DEF Issue!BeginDelete
<1>2. code <= lastCode
  <2>1. code \in Int /\ lastCode \in Int
    BY DEF Issue!TypeOK, Issue!Codes
  <2> QED
    BY <1>1, <2>1 DEF IssueSound, Untouched
<1>3. IssueAloneOK(issuers[p])'
  BY <1>1, <1>2 DEF IssueAloneOK
<1>4. Untouched' /\ ListedOK(issuers[p])'
  BY <1>1, IssueJobsAre DEF IssueSound, Untouched, ListedOK
<1>5. \A s \in Places : Issue!Accounted(s)' + IssueShift(issuers[p], s)' >= Issue!Accounted(s) + IssueShift(issuers[p], s)
  <2> SUFFICES ASSUME NEW s \in Places
               PROVE  Issue!Accounted(s)' + IssueShift(issuers[p], s)' >= Issue!Accounted(s) + IssueShift(issuers[p], s)
    OBVIOUS
  <2>1. Issue!Accounted(s)' = Issue!Accounted(s) /\ Issue!Accounted(s) \in Int
    BY <1>1, AccountOfStock
  <2>2. expenses[code][s] \in Nat
    BY DEF Issue!TypeOK, Issue!Quantity
  <2>3. IssueShift(issuers[p], s) = 0 /\ IssueShift(issuers[p], s)' = 0
    BY <1>1, <2>2, IssueJobsAre DEF IssueShift, Issue!Of
  <2> QED
    BY <2>1, <2>3
<1> QED
  BY <1>3, <1>4, <1>5, SoundStep

LEMMA RestoreSound ==
  ASSUME Issue!TypeOK, Issue!TypeOK', NEW p \in Procs, IssueSound(issuers[p]), NEW r \in Places,
         Issue!Restore(p, r)
  PROVE  IssueSound(issuers[p])'
<1> DEFINE job == issuers[p]
<1>1. /\ job \in Restoring /\ job.stage = "restore" /\ r \in job.todo
      /\ UNCHANGED <<lastCode, expenses, assets>>
      /\ issuedStock' = [issuedStock EXCEPT ![r] = @ + job.back[r]]
  BY IssueJobOf, IssueJobKinds DEF Issue!Restore
<1>2. issuers'[p] = [job EXCEPT !.todo = @ \ {r}]
  BY WentOn DEF Issue!Restore
<1>3. /\ issuers'[p].stage = "restore" /\ issuers'[p].code = job.code
      /\ issuers'[p].back = job.back /\ issuers'[p].todo = job.todo \ {r}
  BY <1>1, <1>2 DEF Restoring
<1>4. IssueAloneOK(issuers[p])'
  BY <1>1, <1>3 DEF IssueSound, IssueAloneOK
<1>5. Untouched' /\ ListedOK(issuers[p])'
  BY <1>1, <1>3 DEF IssueSound, Untouched, ListedOK
<1>6. \A s \in Places : Issue!Accounted(s)' + IssueShift(issuers[p], s)' >= Issue!Accounted(s) + IssueShift(issuers[p], s)
  <2> SUFFICES ASSUME NEW s \in Places
               PROVE  Issue!Accounted(s)' + IssueShift(issuers[p], s)' >= Issue!Accounted(s) + IssueShift(issuers[p], s)
    OBVIOUS
  <2>1. Issue!Accounted(s)' = Issue!Accounted(s) + (issuedStock'[s] - issuedStock[s]) /\ Issue!Accounted(s) \in Int
    BY <1>1, AccountOfStock
  <2>2. job.back[s] \in Nat /\ issuedStock[s] \in Int
    BY <1>1 DEF Restoring, Issue!TypeOK, Issue!Quantity
  <2>3. issuedStock'[s] = IF s = r THEN issuedStock[s] + job.back[s] ELSE issuedStock[s]
    BY <1>1 DEF Issue!TypeOK
  <2>4. /\ IssueShift(issuers[p], s) = IF s \in job.todo THEN 0 ELSE - job.back[s]
        /\ IssueShift(issuers[p], s)' = IF s \in job.todo \ {r} THEN 0 ELSE - job.back[s]
    BY <1>1, <1>3 DEF IssueShift
  <2> QED
    BY <1>1, <2>1, <2>2, <2>3, <2>4
<1> QED
  BY <1>4, <1>5, <1>6, SoundStep

LEMMA DeleteDocumentsSound ==
  ASSUME Issue!TypeOK, Issue!TypeOK', NEW p \in Procs, IssueSound(issuers[p]),
         Issue!DeleteDocuments(p)
  PROVE  IssueSound(issuers[p])'
<1> DEFINE job == issuers[p]
<1>1. /\ job \in Restoring /\ job.stage = "restore" /\ job.todo = {} /\ job.code \in Issue!Codes
      /\ UNCHANGED <<issuedStock, lastCode, assets>>
      /\ expenses' = [expenses EXCEPT ![job.code] = Issue!Nothing]
  BY IssueJobOf, IssueJobKinds DEF Issue!DeleteDocuments
<1>2. job.back = expenses[job.code] /\ job.code <= lastCode
  BY <1>1 DEF IssueSound, IssueAloneOK
<1>3. issuers'[p] = IF expenses[job.code] = Issue!Nothing THEN Issue!Idle
                    ELSE [stage |-> "deleted", code |-> job.code]
  BY WentOn DEF Issue!DeleteDocuments
<1>4. /\ expenses'[job.code] = Issue!Nothing
      /\ \A c \in Issue!Codes : c # job.code => expenses'[c] = expenses[c]
  BY <1>1 DEF Issue!TypeOK
<1>5. IssueAloneOK(issuers[p])'
  BY <1>1, <1>2, <1>3, IssueJobsAre DEF IssueAloneOK
<1>6. Untouched'
  BY <1>1, <1>4 DEF IssueSound, Untouched
<1>7. \A s \in Places : assets[job.code][s].status = "active" =>
        expenses[job.code][s] = assets[job.code][s].quantity /\ expenses[job.code][s] > 0
  BY <1>1 DEF IssueSound, ListedOK
<1>8. ListedOK(issuers[p])'
  <2>1. CASE expenses[job.code] = Issue!Nothing
    BY <1>1, <1>3, <1>4, <1>7, <2>1, IssueJobsAre DEF IssueSound, ListedOK
  <2>2. CASE expenses[job.code] # Issue!Nothing
    BY <1>1, <1>3, <1>4, <2>2 DEF IssueSound, ListedOK
  <2> QED
    BY <2>1, <2>2
<1>9. \A s \in Places : Issue!Accounted(s)' + IssueShift(issuers[p], s)' >= Issue!Accounted(s) + IssueShift(issuers[p], s)
  <2> SUFFICES ASSUME NEW s \in Places
               PROVE  Issue!Accounted(s)' + IssueShift(issuers[p], s)' >= Issue!Accounted(s) + IssueShift(issuers[p], s)
    OBVIOUS
  <2>1. /\ Issue!Accounted(s)' = Issue!Accounted(s) + (issuedStock'[s] - issuedStock[s])
             + Use(assets'[job.code][s], expenses'[job.code][s])
             - Use(assets[job.code][s], expenses[job.code][s])
        /\ Issue!Accounted(s) \in Int /\ issuedStock[s] \in Int
    <3> DEFINE code == job.code
    <3>1. code \in Issue!Codes /\ \A c \in Issue!Codes : c # code => /\ assets'[c][s] = assets[c][s]
                                                                     /\ expenses'[c][s] = expenses[c][s]
      BY <1>1, <1>4
    <3> HIDE DEF code
    <3>2. /\ Issue!Accounted(s)' = Issue!Accounted(s) + (issuedStock'[s] - issuedStock[s])
               + Use(assets'[code][s], expenses'[code][s]) - Use(assets[code][s], expenses[code][s])
          /\ Issue!Accounted(s) \in Int /\ issuedStock[s] \in Int
      BY <3>1, AccountMoves
    <3> QED
      BY <3>2 DEF code
  <2>2. /\ expenses[job.code][s] \in Nat /\ assets[job.code][s] \in Issue!Asset
        /\ expenses'[job.code][s] = 0 /\ issuedStock'[s] = issuedStock[s] /\ assets' = assets
    BY <1>1, <1>4 DEF Issue!TypeOK, Issue!Quantity, Issue!Nothing
  <2>3. IssueShift(issuers[p], s) = - expenses[job.code][s]
    BY <1>1, <1>2 DEF IssueShift
  <2>4. IssueShift(issuers[p], s)' = IF expenses[job.code] # Issue!Nothing
                                        /\ assets[job.code][s].status = "active"
                                     THEN - assets[job.code][s].quantity ELSE 0
    BY <1>1, <1>3, IssueJobsAre DEF IssueShift
  <2>5. expenses[job.code] = Issue!Nothing => expenses[job.code][s] = 0
    BY DEF Issue!Nothing
  <2>6. CASE assets[job.code][s].status = "active"
    <3>1. /\ Use(assets'[job.code][s], expenses'[job.code][s]) = assets[job.code][s].quantity
          /\ Use(assets[job.code][s], expenses[job.code][s]) = assets[job.code][s].quantity
      BY <2>2, <2>6 DEF Use
    <3>2. expenses[job.code][s] = assets[job.code][s].quantity /\ expenses[job.code] # Issue!Nothing
      BY <1>7, <2>5, <2>6
    <3> QED
      BY <2>1, <2>2, <2>3, <2>4, <2>6, <3>1, <3>2
  <2>7. CASE assets[job.code][s].status = "none"
    <3>1. /\ Use(assets'[job.code][s], expenses'[job.code][s]) = 0
          /\ Use(assets[job.code][s], expenses[job.code][s]) = expenses[job.code][s]
      BY <2>2, <2>7 DEF Use
    <3> QED
      BY <2>1, <2>2, <2>3, <2>4, <2>7, <3>1
  <2>8. CASE assets[job.code][s].status \in {"returned", "discarded"}
    <3>1. /\ Use(assets'[job.code][s], expenses'[job.code][s])
               = Use(assets[job.code][s], expenses[job.code][s])
          /\ Use(assets[job.code][s], expenses[job.code][s]) \in Int
      BY <2>2, <2>8 DEF Use, Issue!Asset
    <3> QED
      BY <2>1, <2>2, <2>3, <2>4, <2>8, <3>1
  <2> QED
    BY <2>2, <2>6, <2>7, <2>8 DEF Issue!Asset
<1> QED
  BY <1>5, <1>6, <1>8, <1>9, SoundStep

LEMMA ReturnActiveAssetsSound ==
  ASSUME Issue!TypeOK, Issue!TypeOK', NEW p \in Procs, IssueSound(issuers[p]),
         Issue!ReturnActiveAssets(p)
  PROVE  IssueSound(issuers[p])'
<1> DEFINE job == issuers[p]
<1>1. /\ job \in Deleted /\ job.stage = "deleted" /\ job.code \in Issue!Codes
      /\ UNCHANGED <<issuedStock, lastCode, expenses>> /\ issuers'[p] = Issue!Idle
      /\ job.code <= lastCode
  BY ReturnedAssets, WentOn DEF Issue!ReturnActiveAssets, Deleted, IssueSound, IssueAloneOK
<1>2. /\ \A c \in Issue!Codes : c # job.code => assets'[c] = assets[c]
      /\ \A r \in Places :
           /\ assets[job.code][r].status = "active" => assets'[job.code][r].status = "returned"
           /\ assets[job.code][r].status # "active" => assets'[job.code][r] = assets[job.code][r]
  BY ReturnedAssets
<1>3. IssueAloneOK(issuers[p])'
  BY <1>1, IssueJobsAre DEF IssueAloneOK
<1>4. Untouched'
  BY <1>1, <1>2 DEF IssueSound, Untouched, Issue!TypeOK, Issue!Codes
<1>5. ListedOK(issuers[p])'
  <2>1. \A r \in Places : assets'[job.code][r].status # "active"
    BY <1>2
  <2> QED
    BY <1>1, <1>2, <2>1 DEF IssueSound, ListedOK
<1>6. \A s \in Places : Issue!Accounted(s)' + IssueShift(issuers[p], s)' >= Issue!Accounted(s) + IssueShift(issuers[p], s)
  <2> SUFFICES ASSUME NEW s \in Places
               PROVE  Issue!Accounted(s)' + IssueShift(issuers[p], s)' >= Issue!Accounted(s) + IssueShift(issuers[p], s)
    OBVIOUS
  <2>1. /\ Issue!Accounted(s)' = Issue!Accounted(s) + (issuedStock'[s] - issuedStock[s])
             + Use(assets'[job.code][s], expenses'[job.code][s])
             - Use(assets[job.code][s], expenses[job.code][s])
        /\ Issue!Accounted(s) \in Int /\ issuedStock[s] \in Int
    <3> DEFINE code == job.code
    <3>1. code \in Issue!Codes /\ \A c \in Issue!Codes : c # code => /\ assets'[c][s] = assets[c][s]
                                                                     /\ expenses'[c][s] = expenses[c][s]
      BY <1>1, <1>2
    <3> HIDE DEF code
    <3>2. /\ Issue!Accounted(s)' = Issue!Accounted(s) + (issuedStock'[s] - issuedStock[s])
               + Use(assets'[code][s], expenses'[code][s]) - Use(assets[code][s], expenses[code][s])
          /\ Issue!Accounted(s) \in Int /\ issuedStock[s] \in Int
      BY <3>1, AccountMoves
    <3> QED
      BY <3>2 DEF code
  <2>2. assets[job.code][s] \in Issue!Asset /\ issuedStock'[s] = issuedStock[s] /\ expenses' = expenses
        /\ expenses[job.code][s] \in Nat
    BY <1>1 DEF Issue!TypeOK, Issue!Quantity
  <2>3. /\ IssueShift(issuers[p], s) = IF assets[job.code][s].status = "active"
                                       THEN - assets[job.code][s].quantity ELSE 0
        /\ IssueShift(issuers[p], s)' = 0
    BY <1>1, IssueJobsAre DEF IssueShift
  <2>4. CASE assets[job.code][s].status = "active"
    <3>1. /\ Use(assets'[job.code][s], expenses'[job.code][s]) = 0
          /\ Use(assets[job.code][s], expenses[job.code][s]) = assets[job.code][s].quantity
          /\ assets[job.code][s].quantity \in Nat
      BY <1>2, <2>2, <2>4 DEF Use, Issue!Asset
    <3> QED
      BY <2>1, <2>2, <2>3, <2>4, <3>1
  <2>5. CASE assets[job.code][s].status # "active"
    <3>1. /\ Use(assets'[job.code][s], expenses'[job.code][s])
               = Use(assets[job.code][s], expenses[job.code][s])
          /\ Use(assets[job.code][s], expenses[job.code][s]) \in Int
      BY <1>2, <2>2, <2>5, UseIsInt
    <3> QED
      BY <2>1, <2>2, <2>3, <2>5, <3>1
  <2> QED
    BY <2>4, <2>5
<1> QED
  BY <1>3, <1>4, <1>5, <1>6, SoundStep

LEMMA BeginReturnSound ==
  ASSUME Issue!TypeOK, Issue!TypeOK', NEW p \in Procs, IssueSound(issuers[p]),
         NEW code \in Issue!Codes, NEW r \in Places,
         Issue!BeginReturn(p, code, r) \/ Issue!BeginDiscard(p, code, r)
  PROVE  IssueSound(issuers[p])'
<1>1. /\ issuers[p] = Issue!Idle /\ UNCHANGED <<issuedStock, lastCode, expenses, assets>>
      /\ assets[code][r].status = "active"
  BY DEF Issue!BeginReturn, Issue!BeginDiscard
<1>2. \/ issuers'[p] = [ stage |-> "return", code |-> code, row |-> r,
                         back |-> assets[code][r].quantity, status |-> "returned" ]
      \/ issuers'[p] = [ stage |-> "save", code |-> code, row |-> r,
                         back |-> 0, status |-> "discarded" ]
  BY WentOn DEF Issue!BeginReturn, Issue!BeginDiscard
<1>3. code <= lastCode
  <2>1. code \in Int /\ lastCode \in Int
    BY DEF Issue!TypeOK, Issue!Codes
  <2> QED
    BY <1>1, <2>1, NothingIsQuantity DEF IssueSound, Untouched
<1>4. IssueAloneOK(issuers[p])'
  BY <1>1, <1>2, <1>3 DEF IssueAloneOK
<1>5. Untouched' /\ ListedOK(issuers[p])'
  BY <1>1, <1>2, IssueJobsAre DEF IssueSound, Untouched, ListedOK
<1>6. \A s \in Places : Issue!Accounted(s)' + IssueShift(issuers[p], s)' >= Issue!Accounted(s) + IssueShift(issuers[p], s)
  <2> SUFFICES ASSUME NEW s \in Places
               PROVE  Issue!Accounted(s)' + IssueShift(issuers[p], s)' >= Issue!Accounted(s) + IssueShift(issuers[p], s)
    OBVIOUS
  <2>1. Issue!Accounted(s)' = Issue!Accounted(s) /\ Issue!Accounted(s) \in Int
    BY <1>1, AccountOfStock
  <2>2. IssueShift(issuers[p], s) = 0 /\ IssueShift(issuers[p], s)' = 0
    BY <1>1, <1>2, IssueJobsAre DEF IssueShift
  <2> QED
    BY <2>1, <2>2
<1> QED
  BY <1>4, <1>5, <1>6, SoundStep

LEMMA RestoreAssetSound ==
  ASSUME Issue!TypeOK, Issue!TypeOK', NEW p \in Procs, IssueSound(issuers[p]),
         Issue!RestoreAsset(p)
  PROVE  IssueSound(issuers[p])'
<1> DEFINE job == issuers[p]
<1>1. /\ job \in Settling /\ job.stage = "return"
      /\ UNCHANGED <<lastCode, expenses, assets>>
      /\ issuedStock' = [issuedStock EXCEPT ![job.row] = @ + job.back]
  BY IssueJobOf, IssueJobKinds DEF Issue!RestoreAsset
<1>2. issuers'[p] = [job EXCEPT !.stage = "save"]
  BY WentOn DEF Issue!RestoreAsset
<1>3. /\ issuers'[p].stage = "save" /\ issuers'[p].code = job.code
      /\ issuers'[p].row = job.row /\ issuers'[p].back = job.back
      /\ issuers'[p].status = job.status
  BY <1>1, <1>2 DEF Settling
<1>4. job.status = "returned" /\ job.row \in Places /\ job.back \in Nat
  BY <1>1 DEF IssueSound, IssueAloneOK, Settling
<1>5. IssueAloneOK(issuers[p])'
  BY <1>1, <1>3 DEF IssueSound, IssueAloneOK
<1>6. Untouched' /\ ListedOK(issuers[p])'
  BY <1>1, <1>3 DEF IssueSound, Untouched, ListedOK
<1>7. \A s \in Places : Issue!Accounted(s)' + IssueShift(issuers[p], s)' >= Issue!Accounted(s) + IssueShift(issuers[p], s)
  <2> SUFFICES ASSUME NEW s \in Places
               PROVE  Issue!Accounted(s)' + IssueShift(issuers[p], s)' >= Issue!Accounted(s) + IssueShift(issuers[p], s)
    OBVIOUS
  <2>1. Issue!Accounted(s)' = Issue!Accounted(s) + (issuedStock'[s] - issuedStock[s]) /\ Issue!Accounted(s) \in Int
    BY <1>1, AccountOfStock
  <2>2. issuedStock'[s] = (IF s = job.row THEN issuedStock[s] + job.back ELSE issuedStock[s]) /\ issuedStock[s] \in Int
    BY <1>1 DEF Issue!TypeOK
  <2>3. /\ IssueShift(issuers[p], s) = 0
        /\ IssueShift(issuers[p], s)' = IF job.row = s THEN - job.back ELSE 0
    BY <1>1, <1>3, <1>4 DEF IssueShift
  <2> QED
    BY <1>4, <2>1, <2>2, <2>3
<1> QED
  BY <1>5, <1>6, <1>7, SoundStep

LEMMA SaveAssetSound ==
  ASSUME Issue!TypeOK, Issue!TypeOK', NEW p \in Procs, IssueSound(issuers[p]), Issue!SaveAsset(p)
  PROVE  IssueSound(issuers[p])'
<1> DEFINE job == issuers[p]
<1>1. /\ job \in Settling /\ job.stage = "save" /\ UNCHANGED <<issuedStock, lastCode, expenses>>
      /\ issuers'[p] = Issue!Idle
  BY IssueJobOf, IssueJobKinds, WentOn DEF Issue!SaveAsset
<1>2. /\ job.code \in Issue!Codes /\ job.row \in Places /\ job.back \in Nat
      /\ job.status \in {"returned", "discarded"}
  BY <1>1 DEF Settling
<1>3. /\ assets[job.code][job.row].status = "active" /\ job.code <= lastCode
      /\ job.status = "returned" => job.back = assets[job.code][job.row].quantity
  BY <1>1 DEF IssueSound, IssueAloneOK
<1>4. /\ assets'[job.code][job.row].status = job.status
      /\ assets'[job.code][job.row].quantity = assets[job.code][job.row].quantity
      /\ \A c \in Issue!Codes, r \in Places :
           c # job.code \/ r # job.row => assets'[c][r] = assets[c][r]
  BY SavedAsset
<1>5. IssueAloneOK(issuers[p])'
  BY <1>1, IssueJobsAre DEF IssueAloneOK
<1>6. Untouched'
  <2>1. \A c \in Issue!Codes : c > lastCode => c # job.code
    BY <1>2, <1>3 DEF Issue!TypeOK, Issue!Codes
  <2> QED
    BY <1>1, <1>4, <2>1 DEF IssueSound, Untouched
<1>7. ListedOK(issuers[p])'
  <2> SUFFICES ASSUME NEW c \in Issue!Codes, NEW r \in Places, assets'[c][r].status = "active"
               PROVE  expenses'[c][r] = assets'[c][r].quantity /\ expenses'[c][r] > 0
    BY DEF ListedOK
  <2>1. assets'[c][r] = assets[c][r]
    BY <1>2, <1>4
  <2> QED
    BY <1>1, <2>1 DEF IssueSound, ListedOK
<1>8. \A s \in Places : Issue!Accounted(s)' + IssueShift(issuers[p], s)' >= Issue!Accounted(s) + IssueShift(issuers[p], s)
  <2> SUFFICES ASSUME NEW s \in Places
               PROVE  Issue!Accounted(s)' + IssueShift(issuers[p], s)' >= Issue!Accounted(s) + IssueShift(issuers[p], s)
    OBVIOUS
  <2>1. CASE s # job.row
    <3>1. /\ Issue!Accounted(s)' = Issue!Accounted(s) + (issuedStock'[s] - issuedStock[s])
               + Use(assets'[job.code][s], expenses'[job.code][s])
               - Use(assets[job.code][s], expenses[job.code][s])
          /\ Issue!Accounted(s) \in Int /\ issuedStock[s] \in Int
          /\ Use(assets[job.code][s], expenses[job.code][s]) \in Int
      <4> DEFINE code == job.code
      <4>1. code \in Issue!Codes /\ \A c \in Issue!Codes : c # code => /\ assets'[c][s] = assets[c][s]
                                                                       /\ expenses'[c][s] = expenses[c][s]
        BY <1>1, <1>2, <1>4
      <4> HIDE DEF code
      <4>2. /\ Issue!Accounted(s)' = Issue!Accounted(s) + (issuedStock'[s] - issuedStock[s])
                 + Use(assets'[code][s], expenses'[code][s])
                 - Use(assets[code][s], expenses[code][s])
            /\ Issue!Accounted(s) \in Int /\ issuedStock[s] \in Int
            /\ Use(assets[code][s], expenses[code][s]) \in Int
        BY <4>1, AccountMoves
      <4> QED
        BY <4>2 DEF code
    <3>2. assets'[job.code][s] = assets[job.code][s] /\ expenses' = expenses /\ issuedStock' = issuedStock
      BY <1>1, <1>2, <1>4, <2>1
    <3>3. IssueShift(issuers[p], s) = 0 /\ IssueShift(issuers[p], s)' = 0
      BY <1>1, <2>1, IssueJobsAre DEF IssueShift
    <3> QED
      BY <3>1, <3>2, <3>3
  <2>2. CASE s = job.row
    <3>1. /\ Issue!Accounted(s)' = Issue!Accounted(s) + (issuedStock'[s] - issuedStock[s])
               + Use(assets'[job.code][s], expenses'[job.code][s])
               - Use(assets[job.code][s], expenses[job.code][s])
          /\ Issue!Accounted(s) \in Int /\ issuedStock[s] \in Int
      <4> DEFINE code == job.code
      <4>1. code \in Issue!Codes /\ \A c \in Issue!Codes : c # code => /\ assets'[c][s] = assets[c][s]
                                                                       /\ expenses'[c][s] = expenses[c][s]
        BY <1>1, <1>2, <1>4
      <4> HIDE DEF code
      <4>2. /\ Issue!Accounted(s)' = Issue!Accounted(s) + (issuedStock'[s] - issuedStock[s])
                 + Use(assets'[code][s], expenses'[code][s])
                 - Use(assets[code][s], expenses[code][s])
            /\ Issue!Accounted(s) \in Int /\ issuedStock[s] \in Int
        BY <4>1, AccountMoves
      <4> QED
        BY <4>2 DEF code
    <3>2. /\ assets[job.code][s].quantity \in Nat
          /\ Use(assets[job.code][s], expenses[job.code][s]) = assets[job.code][s].quantity
          /\ Use(assets'[job.code][s], expenses'[job.code][s]) =
               IF job.status = "returned" THEN 0 ELSE assets[job.code][s].quantity
      BY <1>2, <1>3, <1>4, <2>2 DEF Use, Issue!TypeOK, Issue!Asset
    <3>3. /\ IssueShift(issuers[p], s) = IF job.status = "returned" THEN - job.back ELSE 0
          /\ IssueShift(issuers[p], s)' = 0
      BY <1>1, <2>2, IssueJobsAre DEF IssueShift
    <3>4. job.status = "returned" => job.back = assets[job.code][s].quantity
      BY <1>3, <2>2
    <3> QED
      BY <1>1, <1>2, <3>1, <3>2, <3>3, <3>4
  <2> QED
    BY <2>1, <2>2
<1> QED
  BY <1>5, <1>6, <1>7, <1>8, SoundStep

LEMMA SoundOfIdle ==
  ASSUME NEW q \in Procs, issuers'[q] = Issue!Idle
  PROVE  IssueSound(issuers[q])' <=> IssueSound(Issue!Idle)'
<1>1. IssueAloneOK(issuers[q])' /\ IssueAloneOK(Issue!Idle)'
  BY IssueJobsAre DEF IssueAloneOK
<1>2. ListedOK(issuers[q])' <=> ListedOK(Issue!Idle)'
  BY IssueJobsAre DEF ListedOK
<1>3. \A r \in Places : IssueShift(issuers[q], r)' = 0 /\ IssueShift(Issue!Idle, r)' = 0
  BY IssueJobsAre DEF IssueShift
<1> QED
  BY <1>1, <1>2, <1>3 DEF IssueSound

LEMMA SoundAfter ==
  ASSUME Issue!TypeOK, Issue!TypeOK', NEW p \in Procs, IssueSound(issuers[p]),
         Issue!Begin(p) \/ Issue!Continue(p)
  PROVE  IssueSound(issuers[p])'
<1>1. CASE Issue!Begin(p)
  BY <1>1, BeginExpenseSound, BeginDeleteSound, BeginReturnSound DEF Issue!Begin
<1>2. CASE Issue!Continue(p)
  BY <1>2, DeductSound, RestoreSound, CheckModifiedSound, DocumentSound, CreateAssetsSound,
     DeleteDocumentsSound, ReturnActiveAssetsSound, RestoreAssetSound, SaveAssetSound
  DEF Issue!Continue
<1> QED
  BY <1>1, <1>2

LEMMA OthersStay ==
  ASSUME Issue!TypeOK, NEW p \in Procs, Issue!Begin(p) \/ Issue!Continue(p)
  PROVE  \A q \in Procs : q # p => issuers'[q] = issuers[q]
<1>1. \E job : Issue!GoOn(p, job)
  BY DEF Issue!Begin, Issue!Continue, Issue!BeginExpense, Issue!BeginDelete, Issue!BeginReturn,
         Issue!BeginDiscard, Issue!Deduct, Issue!Restore,
         Issue!CheckModified, Issue!CreateDocument, Issue!CreateAssets, Issue!DeleteDocuments, Issue!ReturnActiveAssets,
         Issue!RestoreAsset, Issue!SaveAsset
<1> QED
  BY <1>1, WentOn

LEMMA OrderlyIssueNext ==
  ASSUME Issue!TypeOK, OrderlyIssue, [Issue!Next]_(Issue!vars)
  PROVE  OrderlyIssue'
<1>1. Issue!TypeOK'
  BY IssueType
<1>2. CASE UNCHANGED Issue!vars
  <2>1. UNCHANGED <<issuedStock, lastCode, expenses, assets, issuers, issuersOrderly>>
    BY <1>2 DEF Issue!vars
  <2>2. ASSUME NEW job \in Issue!Job  PROVE IssueSound(job)' <=> IssueSound(job)
    <3>1. IssueAloneOK(job)' <=> IssueAloneOK(job)
      BY <2>1 DEF IssueAloneOK
    <3>2. Untouched' <=> Untouched
      BY <2>1 DEF Untouched
    <3>3. ListedOK(job)' <=> ListedOK(job)
      BY <2>1 DEF ListedOK
    <3>4. \A r \in Places : Issue!Accounted(r)' = Issue!Accounted(r) /\ IssueShift(job, r)' = IssueShift(job, r)
      BY <2>1 DEF Issue!Accounted, Issue!InUse, IssueShift
    <3> QED
      BY <3>1, <3>2, <3>3, <3>4 DEF IssueSound
  <2>3. ASSUME NEW p \in Procs  PROVE IssueSound(issuers[p])' <=> IssueSound(issuers[p])
    <3>1. IssueAloneOK(issuers[p])' <=> IssueAloneOK(issuers[p])
      BY <2>1 DEF IssueAloneOK
    <3>2. Untouched' <=> Untouched
      BY <2>1 DEF Untouched
    <3>3. ListedOK(issuers[p])' <=> ListedOK(issuers[p])
      BY <2>1 DEF ListedOK
    <3>4. \A r \in Places : /\ Issue!Accounted(r)' = Issue!Accounted(r)
                            /\ IssueShift(issuers[p], r)' = IssueShift(issuers[p], r)
      BY <2>1 DEF Issue!Accounted, Issue!InUse, IssueShift
    <3> QED
      BY <3>1, <3>2, <3>3, <3>4 DEF IssueSound
  <2> QED
    BY <2>1, <2>2, <2>3, IssueJobsAre DEF OrderlyIssue, Issue!Quiet, IssueLone
<1>3. ASSUME NEW p \in Procs, Issue!Begin(p) \/ Issue!Continue(p),
             issuersOrderly' = (issuersOrderly /\ \A q \in Procs \ {p} : issuers[q] = Issue!Idle)
      PROVE  OrderlyIssue'
  <2> SUFFICES ASSUME issuersOrderly'
               PROVE  /\ \A q \in Procs : (issuers[q] = Issue!Idle \/ IssueLone(q))'
                      /\ Issue!Quiet' => IssueSound(Issue!Idle)'
                      /\ \A q \in Procs : IssueLone(q)' => IssueSound(issuers[q])'
    BY DEF OrderlyIssue
  <2>1. IssueSound(issuers[p]) /\ \A q \in Procs \ {p} : issuers[q] = Issue!Idle
    BY <1>3 DEF OrderlyIssue, IssueLone
  <2>2. IssueSound(issuers[p])'
    BY <1>1, <1>3, <2>1, SoundAfter
  <2>3. \A q \in Procs \ {p} : issuers'[q] = Issue!Idle
    BY <1>3, <2>1, OthersStay
  <2>4. Issue!Quiet' => IssueSound(Issue!Idle)'
    BY <2>2, SoundOfIdle DEF Issue!Quiet
  <2>5. ASSUME NEW q \in Procs, IssueLone(q)'  PROVE IssueSound(issuers[q])'
    <3>1. CASE q = p
      BY <2>2, <3>1
    <3>2. CASE q # p
      <4>1. issuers'[p] = Issue!Idle /\ issuers'[q] = Issue!Idle
        BY <2>3, <2>5, <3>2 DEF IssueLone
      <4>2. IssueSound(Issue!Idle)'
        BY <2>2, <4>1, SoundOfIdle
      <4> QED
        BY <4>1, <4>2, SoundOfIdle
    <3> QED
      BY <3>1, <3>2
  <2> QED
    BY <2>3, <2>4, <2>5 DEF IssueLone
<1> QED
  BY <1>2, <1>3 DEF Issue!Next, OrderlyIssue

LEMMA OrderlyIssueInit ==
  ASSUME Issue!Init
  PROVE  OrderlyIssue
<1>1. ASSUME NEW r \in Places  PROVE Issue!Accounted(r) = 1
  <2> DEFINE use == [c \in Issue!Codes |-> Use(assets[c][r], expenses[c][r])]
  <2>1. \A c \in Issue!Codes : use[c] = IF c \in {} THEN 0 ELSE 0
    BY NothingIsQuantity DEF Issue!Init, Use, Issue!Nothing
  <2>2. Issue!Accounted(r) = 1 + SumFunctionOnSet(use, Issue!Codes)
    BY AccountedIsSum DEF Issue!Init
  <2>3. {} \in SUBSET Issue!Codes /\ Cardinality({}) = 0 /\ 0 \in Int
    BY FS_EmptySet
  <2> HIDE DEF use
  <2>4. SumFunctionOnSet(use, Issue!Codes) = 0 * Cardinality({})
    BY <2>1, <2>3, CodesAreFinite, SumOfEqual
  <2> QED
    BY <2>2, <2>3, <2>4, AmountIsNat
<1>2. \A p \in Procs : issuers[p] = Issue!Idle
  BY DEF Issue!Init
<1>3. Untouched /\ ListedOK(Issue!Idle)
  BY NothingIsQuantity DEF Issue!Init, Untouched, ListedOK
<1>4. IssueSound(Issue!Idle)
  BY <1>1, <1>3, IssueShiftOfIdle, AloneIdle, AmountIsNat DEF IssueSound
<1> QED
  BY <1>2, <1>4 DEF OrderlyIssue

LEMMA OrderlyLosesNothing ==
  ASSUME Issue!TypeOK, OrderlyIssue
  PROVE  Issue!NothingLost
<1> SUFFICES ASSUME Issue!Quiet, issuersOrderly
             PROVE  /\ \A r \in Places : Issue!Accounted(r) >= 1
                    /\ \A code \in Issue!Codes, r \in Places : Issue!Listed(code, r) =>
                         /\ code \in Issue!ListedExpenses
                         /\ expenses[code][r] = assets[code][r].quantity
  BY DEF Issue!NothingLost
<1>1. IssueSound(Issue!Idle)
  BY DEF OrderlyIssue
<1>2. \A r \in Places : Issue!Accounted(r) >= 1
  BY <1>1, IssueShiftOfIdle, AccountedIsInt DEF IssueSound
<1>3. ASSUME NEW code \in Issue!Codes, NEW r \in Places, Issue!Listed(code, r)
      PROVE  code \in Issue!ListedExpenses /\ expenses[code][r] = assets[code][r].quantity
  <2>1. expenses[code][r] = assets[code][r].quantity /\ expenses[code][r] > 0
    BY <1>1, <1>3, IssueJobsAre DEF IssueSound, ListedOK, Issue!Listed
  <2> QED
    BY <2>1 DEF Issue!ListedExpenses, Issue!ExpenseShown, Issue!Of
<1> QED
  BY <1>2, <1>3

LEMMA AssetEndStep ==
  ASSUME Issue!TypeOK, OrderlyIssue, Issue!Next, issuersOrderly'
  PROVE  Issue!KeepsAssetEnd
<1>1. PICK p \in Procs : /\ Issue!Begin(p) \/ Issue!Continue(p)
                         /\ issuersOrderly /\ \A q \in Procs \ {p} : issuers[q] = Issue!Idle
  BY DEF Issue!Next
<1>2. IssueSound(issuers[p])
  BY <1>1 DEF OrderlyIssue, IssueLone
<1>3. CASE Issue!CreateAssets(p)
  <2>1. /\ issuers[p].code \in Issue!Codes
        /\ \A r \in Places : assets[issuers[p].code][r] = Issue!NoAsset
    BY <1>2, <1>3, IssueJobOf, IssueJobKinds DEF Issue!CreateAssets, IssueSound, IssueAloneOK
  <2>2. \A c \in Issue!Codes : c # issuers[p].code => assets'[c] = assets[c]
    BY <1>3 DEF Issue!CreateAssets, Issue!TypeOK
  <2> QED
    BY <2>1, <2>2, NothingIsQuantity DEF Issue!KeepsAssetEnd
<1>4. CASE Issue!ReturnActiveAssets(p)
  BY <1>4, ReturnedAssets DEF Issue!KeepsAssetEnd
<1>5. CASE Issue!SaveAsset(p)
  <2>1. assets[issuers[p].code][issuers[p].row].status = "active"
    BY <1>2, <1>5 DEF Issue!SaveAsset, IssueSound, IssueAloneOK
  <2> QED
    BY <1>5, <2>1, SavedAsset DEF Issue!KeepsAssetEnd
<1>6. CASE UNCHANGED assets
  BY <1>6 DEF Issue!KeepsAssetEnd
<1> QED
  BY <1>1, <1>3, <1>4, <1>5, <1>6
  DEF Issue!Begin, Issue!Continue, Issue!BeginExpense, Issue!BeginDelete, Issue!BeginReturn, Issue!BeginDiscard, Issue!Deduct, Issue!Restore,
      Issue!CheckModified, Issue!CreateDocument, Issue!DeleteDocuments, Issue!RestoreAsset


-----------------------------------------------------------------------------
(* StockHistory.                                                           *)

LEMMA HistoryAssumed == History!HistoryBoundsAssumption
BY WarehouseAssumption DEF WarehouseAssumption

\* The sums of the instance are those of the lemmas.
LEMMA HistorySums ==
  ASSUME NEW f, NEW S
  PROVE  History!SumFunctionOnSet(f, S) = SumFunctionOnSet(f, S)
BY DEF History!SumFunctionOnSet, History!FoldFunctionOnSet, History!MapThenFoldSet,
       SumFunctionOnSet, FoldFunctionOnSet, MapThenFoldSet

\* What a dispatch settles is at most what was sent, and nothing was received of
\* one that still waits.
DispatchOK(d) ==
  d # History!None => /\ d.received + d.rejected <= d.sent
                      /\ d.status = "PENDING_RECEIPT" => d.received = 0

\* The management corrects an excess or a shortage, and no more than that.
StocktakeOK(t) ==
  t # History!None => /\ t.excessDeductQuantity > 0 => /\ t.shortageAddQuantity = 0
                                                       /\ t.excessDeductQuantity
                                                            <= t.countedQuantity - t.bookQuantity
                      /\ t.shortageAddQuantity > 0 => t.shortageAddQuantity
                                                        <= t.bookQuantity - t.countedQuantity
                      /\ t.status = "IN_PROGRESS" => /\ t.excessDeductQuantity = 0
                                                     /\ t.shortageAddQuantity = 0

\* While nothing moved since the good was listed, the stock is what the lines say.
StockIsCounted ==
  ~counted /\ stocktake # History!None =>
    stock = IF stocktake.status = "IN_PROGRESS" THEN stocktake.bookQuantity
            ELSE stocktake.countedQuantity - stocktake.excessDeductQuantity
                   + stocktake.shortageAddQuantity

HistoryInv ==
  /\ History!TypeOK
  /\ DispatchOK(inbound) /\ DispatchOK(outbound) /\ StocktakeOK(stocktake)
  /\ StockIsCounted
  /\ History!HistoryAddsUp

-----------------------------------------------------------------------------
LEMMA NoneApart ==
  /\ History!None \notin History!Dispatch /\ History!None \notin History!Expense /\ History!None \notin History!Stocktake
  /\ History!None.status = "NONE"
BY DEF History!None, History!Dispatch, History!Expense, History!Stocktake

LEMMA QuantityIsNat == \A n \in History!Quantity : n \in Nat /\ n <= MaxStock /\ MaxStock \in Nat
BY HistoryAssumed DEF History!Quantity, History!HistoryBoundsAssumption

LEMMA Zero == 0 \in History!Quantity /\ 1 \in History!Days
BY HistoryAssumed DEF History!Quantity, History!Days, History!HistoryBoundsAssumption

LEMMA HistoryInit == History!Init => HistoryInv
<1> SUFFICES ASSUME History!Init  PROVE HistoryInv  OBVIOUS
<1>1. closing \in [1 .. today - 1 -> History!Quantity]
  BY DEF History!Init
<1>2. History!TypeOK
  BY <1>1, Zero DEF History!Init, History!TypeOK
<1>3. History!HistoryAddsUp
  BY NoneApart DEF History!Init, History!HistoryAddsUp, History!HistoryBalance,
                   History!PurchaseReceiptOrTransferIn, History!TransferOut,
     History!TransferCancelled, History!ExpenseMade, History!FixedAssetReturn, History!StocktakeDifference, History!RefusedBack
<1> QED
  BY <1>2, <1>3 DEF History!Init, HistoryInv, DispatchOK, StocktakeOK, StockIsCounted

\* The values the events are made of.
LEMMA HistoryParts ==
  ASSUME HistoryInv
  PROVE  /\ stock \in Int /\ imported \in Int
         /\ History!PurchaseReceiptOrTransferIn \in Int /\ History!TransferOut \in Int
         /\ History!TransferCancelled \in Int /\ History!ExpenseMade \in Int /\ History!FixedAssetReturn \in Int
         /\ History!StocktakeDifference \in Int /\ History!RefusedBack \in Int
<1>1. stock \in Int /\ imported \in Int
  BY QuantityIsNat DEF HistoryInv, History!TypeOK
<1>2. History!PurchaseReceiptOrTransferIn \in Int
  BY NoneApart, QuantityIsNat DEF HistoryInv, History!TypeOK, History!Dispatch,
                                  History!PurchaseReceiptOrTransferIn
<1>3. History!TransferOut \in Int /\ History!TransferCancelled \in Int /\ History!RefusedBack \in Int
  BY NoneApart, QuantityIsNat
  DEF HistoryInv, History!TypeOK, History!Dispatch, History!TransferOut, History!TransferCancelled, History!RefusedBack
<1>4. History!ExpenseMade \in Int /\ History!FixedAssetReturn \in Int
  BY NoneApart, QuantityIsNat DEF HistoryInv, History!TypeOK, History!Expense,
                                  History!ExpenseMade, History!FixedAssetReturn
<1>5. History!StocktakeDifference \in Int
  BY NoneApart, QuantityIsNat DEF HistoryInv, History!TypeOK, History!Stocktake,
                                  History!StocktakeDifference
<1> QED
  BY <1>1, <1>2, <1>3, <1>4, <1>5

\* The stock moves by n, and the events by as much.
LEMMA MoveAdds ==
  ASSUME HistoryInv, NEW n \in Int, History!Move(n), UNCHANGED stocktake,
         deletedInUse' \in BOOLEAN,
         deletedInUse => deletedInUse',
         inbound' \in History!Dispatch \cup {History!None}, outbound' \in History!Dispatch \cup {History!None},
         expense' \in History!Expense \cup {History!None}, imported' \in History!Quantity, belated' \in BOOLEAN,
         DispatchOK(inbound'), DispatchOK(outbound'),
         ~deletedInUse' =>
           (History!PurchaseReceiptOrTransferIn' - History!TransferOut' + History!TransferCancelled' - History!ExpenseMade'
              + History!FixedAssetReturn' + imported' + History!RefusedBack')
           = (History!PurchaseReceiptOrTransferIn - History!TransferOut + History!TransferCancelled - History!ExpenseMade
                + History!FixedAssetReturn + imported + History!RefusedBack) + n
  PROVE  HistoryInv'
<1>1. History!TypeOK'
  BY DEF History!Move, HistoryInv, History!TypeOK
<1>2. StocktakeOK(stocktake') /\ History!StocktakeDifference' = History!StocktakeDifference
  BY DEF HistoryInv, History!StocktakeDifference
<1>3. StockIsCounted'
  <2>1. stock' = stock + n /\ stock \in Int
    BY HistoryParts DEF History!Move
  <2>2. ~counted' /\ stocktake' # History!None => n = 0 /\ ~counted
    BY DEF History!Move
  <2> QED
    BY <2>1, <2>2 DEF HistoryInv, StockIsCounted
<1>4. History!HistoryAddsUp'
  <2>1. stock' = stock + n /\ (counted => counted')
    BY DEF History!Move
  <2>2. SUFFICES ASSUME ~counted', ~deletedInUse'
                 PROVE  stock' = History!HistoryBalance' + History!RefusedBack'
    BY DEF History!HistoryAddsUp
  <2>3. stock = History!HistoryBalance + History!RefusedBack
    BY <2>1, <2>2 DEF HistoryInv, History!HistoryAddsUp
  <2>4. /\ History!PurchaseReceiptOrTransferIn' \in Int /\ History!TransferOut' \in Int
        /\ History!TransferCancelled' \in Int /\ History!ExpenseMade' \in Int /\ History!FixedAssetReturn' \in Int
        /\ History!RefusedBack' \in Int /\ imported' \in Int
    <3>1. History!PurchaseReceiptOrTransferIn' \in Int /\ imported' \in Int
      BY QuantityIsNat DEF History!PurchaseReceiptOrTransferIn, History!Dispatch, History!None
    <3>2. History!TransferOut' \in Int /\ History!TransferCancelled' \in Int /\ History!RefusedBack' \in Int
      BY QuantityIsNat, NoneApart DEF History!TransferOut, History!TransferCancelled,
                                      History!RefusedBack, History!Dispatch
    <3>3. History!ExpenseMade' \in Int /\ History!FixedAssetReturn' \in Int
      BY QuantityIsNat, NoneApart DEF History!ExpenseMade, History!FixedAssetReturn,
                                      History!Expense
    <3> QED
      BY <3>1, <3>2, <3>3
  <2> QED
    BY <1>2, <2>1, <2>2, <2>3, <2>4, HistoryParts DEF History!HistoryBalance
<1> QED
  BY <1>1, <1>2, <1>3, <1>4 DEF HistoryInv

\* The settled dispatch.
LEMMA SettledOK ==
  ASSUME NEW d \in History!Dispatch, NEW take \in History!Quantity,
         NEW refuse \in History!Quantity, DispatchOK(d),
         d.status \in {"PENDING_RECEIPT", "PARTIALLY_RECEIVED"},
         take + refuse <= d.sent - d.received - d.rejected
  PROVE  LET e == History!Settled(d, take, refuse)
         IN  /\ e \in History!Dispatch /\ DispatchOK(e)
             /\ e.status \in {"PENDING_RECEIPT", "PARTIALLY_RECEIVED", "COMPLETED"}
             /\ e.status = "PENDING_RECEIPT" => e.received = 0
             /\ e.sent = d.sent
             /\ e.received = d.received + take /\ e.rejected = d.rejected + refuse
<1> DEFINE received == d.received + take
           rejected == d.rejected + refuse
           status == IF received + rejected >= d.sent THEN "COMPLETED"
                     ELSE IF received > 0 THEN "PARTIALLY_RECEIVED" ELSE "PENDING_RECEIPT"
           e == [d EXCEPT !.received = received, !.rejected = rejected, !.status = status]
<1>1. /\ d.received \in 0 .. MaxStock /\ d.rejected \in 0 .. MaxStock /\ d.sent \in 0 .. MaxStock
      /\ MaxStock \in Nat /\ take \in Nat /\ refuse \in Nat
  BY QuantityIsNat, HistoryAssumed DEF History!Dispatch, History!Quantity,
                                       History!HistoryBoundsAssumption
<1>2. received \in History!Quantity /\ rejected \in History!Quantity /\ received + rejected <= d.sent
  BY <1>1 DEF History!Quantity
<1>3. /\ status \in {"PENDING_RECEIPT", "PARTIALLY_RECEIVED", "COMPLETED"}
      /\ status = "PENDING_RECEIPT" => received = 0
  BY <1>1
<1> HIDE DEF received, rejected, status
<1>4. /\ e \in History!Dispatch /\ e.received = received /\ e.rejected = rejected /\ e.sent = d.sent
      /\ e.status = status
  BY <1>2, <1>3 DEF History!Dispatch
<1>5. History!Settled(d, take, refuse) = e
  BY DEF History!Settled, received, rejected, status
<1> HIDE DEF e
<1>6. DispatchOK(e)
  BY <1>2, <1>3, <1>4 DEF DispatchOK
<1> QED
  BY <1>3, <1>4, <1>5, <1>6 DEF received, rejected

LEMMA NewDispatchOK ==
  ASSUME NEW n \in History!Quantity, today \in History!Days
  PROVE  /\ History!NewDispatch(n) \in History!Dispatch /\ DispatchOK(History!NewDispatch(n)) /\ History!NewDispatch(n) # History!None
         /\ History!NewDispatch(n).sent = n /\ History!NewDispatch(n).received = 0
         /\ History!NewDispatch(n).rejected = 0 /\ History!NewDispatch(n).status = "PENDING_RECEIPT"
BY Zero, QuantityIsNat DEF History!NewDispatch, History!Dispatch, DispatchOK, History!None

LEMMA ReceiveHistory ==
  ASSUME HistoryInv, NEW take \in History!Quantity, NEW refuse \in History!Quantity,
         inbound # History!None,
         History!Receive(take, refuse)
  PROVE  HistoryInv'
<1>1. inbound \in History!Dispatch /\ DispatchOK(inbound)
  BY DEF HistoryInv, History!TypeOK
<1> DEFINE e == History!Settled(inbound, take, refuse)
<1>2. /\ e \in History!Dispatch /\ DispatchOK(e)
      /\ e.status \in {"PENDING_RECEIPT", "PARTIALLY_RECEIVED", "COMPLETED"}
      /\ e.status = "PENDING_RECEIPT" => e.received = 0
      /\ e.received = inbound.received + take
  BY <1>1, SettledOK DEF History!Receive
<1>3. inbound' = e
  BY DEF History!Receive
<1> HIDE DEF e
<1>4. inbound.received \in Nat /\ take \in Int
  BY <1>1, QuantityIsNat DEF History!Dispatch
<1>5. /\ History!PurchaseReceiptOrTransferIn' = e.received
      /\ History!PurchaseReceiptOrTransferIn = inbound.received
  BY <1>1, <1>2, <1>3, <1>4 DEF History!PurchaseReceiptOrTransferIn, History!Receive, DispatchOK,
                                History!Dispatch
<1>6. /\ History!TransferOut' = History!TransferOut /\ History!TransferCancelled' = History!TransferCancelled
      /\ History!ExpenseMade' = History!ExpenseMade /\ History!FixedAssetReturn' = History!FixedAssetReturn
      /\ imported' = imported /\ History!RefusedBack' = History!RefusedBack
  BY DEF History!Receive, History!TransferOut, History!TransferCancelled, History!ExpenseMade,
         History!FixedAssetReturn, History!RefusedBack
<1>7. /\ History!Move(take) /\ UNCHANGED stocktake /\ deletedInUse' = deletedInUse
      /\ outbound' = outbound /\ expense' = expense /\ belated' \in BOOLEAN
  BY DEF History!Receive, History!Late, HistoryInv, History!TypeOK
<1>8. (History!PurchaseReceiptOrTransferIn' - History!TransferOut' + History!TransferCancelled' - History!ExpenseMade'
         + History!FixedAssetReturn' + imported' + History!RefusedBack')
      = (History!PurchaseReceiptOrTransferIn - History!TransferOut + History!TransferCancelled - History!ExpenseMade
           + History!FixedAssetReturn + imported + History!RefusedBack) + take
  BY <1>2, <1>4, <1>5, <1>6, HistoryParts
<1> QED
  BY <1>2, <1>3, <1>4, <1>6, <1>7, <1>8, MoveAdds DEF HistoryInv, History!TypeOK

LEMMA CreateTransferHistory ==
  ASSUME HistoryInv, NEW n \in History!Quantity, History!CreateTransfer(n)
  PROVE  HistoryInv'
<1> DEFINE e == History!NewDispatch(n)
<1>1. /\ outbound' = e /\ outbound = History!None /\ e \in History!Dispatch /\ DispatchOK(e) /\ e # History!None
      /\ e.sent = n /\ e.rejected = 0 /\ e.status = "PENDING_RECEIPT"
  BY NewDispatchOK DEF History!CreateTransfer, HistoryInv, History!TypeOK
<1> HIDE DEF e
<1>2. n \in Nat
  BY QuantityIsNat
<1>3. /\ History!TransferOut' = n /\ History!TransferCancelled' = 0 /\ History!RefusedBack' = 0
      /\ History!TransferOut = 0 /\ History!TransferCancelled = 0 /\ History!RefusedBack = 0
  BY <1>1, NoneApart DEF History!TransferOut, History!TransferCancelled, History!RefusedBack
<1>4. /\ History!PurchaseReceiptOrTransferIn' = History!PurchaseReceiptOrTransferIn
      /\ History!ExpenseMade' = History!ExpenseMade /\ History!FixedAssetReturn' = History!FixedAssetReturn /\ imported' = imported
  BY DEF History!CreateTransfer, History!PurchaseReceiptOrTransferIn, History!ExpenseMade,
         History!FixedAssetReturn
<1>5. /\ History!Move(0 - n) /\ UNCHANGED <<stocktake, deletedInUse, belated, inbound, expense>>
  BY DEF History!CreateTransfer
<1>6. (History!PurchaseReceiptOrTransferIn' - History!TransferOut' + History!TransferCancelled' - History!ExpenseMade'
         + History!FixedAssetReturn' + imported' + History!RefusedBack')
      = (History!PurchaseReceiptOrTransferIn - History!TransferOut + History!TransferCancelled - History!ExpenseMade
           + History!FixedAssetReturn + imported + History!RefusedBack) + (0 - n)
  BY <1>2, <1>3, <1>4, HistoryParts
<1>7. 0 - n \in Int
  BY <1>2
<1> QED
  BY <1>1, <1>4, <1>5, <1>6, <1>7, MoveAdds DEF HistoryInv, History!TypeOK

LEMMA ReceiveThereHistory ==
  ASSUME HistoryInv, NEW take \in History!Quantity, NEW refuse \in History!Quantity,
         outbound # History!None,
         History!ReceiveThere(take, refuse)
  PROVE  HistoryInv'
<1>1. outbound \in History!Dispatch /\ DispatchOK(outbound)
  BY DEF HistoryInv, History!TypeOK
<1> DEFINE e == History!Settled(outbound, take, refuse)
<1>2. /\ e \in History!Dispatch /\ DispatchOK(e) /\ e.sent = outbound.sent
      /\ e.status \in {"PENDING_RECEIPT", "PARTIALLY_RECEIVED", "COMPLETED"}
      /\ e.rejected = outbound.rejected + refuse
  BY <1>1, SettledOK DEF History!ReceiveThere
<1>3. outbound' = e /\ e # History!None
  BY <1>2, NoneApart DEF History!ReceiveThere
<1> HIDE DEF e
<1>4. outbound.rejected \in Nat /\ refuse \in Int /\ outbound.sent \in Nat
  BY <1>1, QuantityIsNat DEF History!Dispatch
<1>5. outbound.status # "CANCELLED"
  BY DEF History!ReceiveThere
<1>6. /\ History!TransferOut' = History!TransferOut /\ History!TransferCancelled' = 0 /\ History!TransferCancelled = 0
      /\ History!RefusedBack' = History!RefusedBack + refuse
  BY <1>2, <1>3, <1>4, <1>5 DEF History!TransferOut, History!TransferCancelled,
                                History!RefusedBack
<1>7. /\ History!PurchaseReceiptOrTransferIn' = History!PurchaseReceiptOrTransferIn
      /\ History!ExpenseMade' = History!ExpenseMade /\ History!FixedAssetReturn' = History!FixedAssetReturn /\ imported' = imported
  BY DEF History!ReceiveThere, History!PurchaseReceiptOrTransferIn, History!ExpenseMade,
         History!FixedAssetReturn
<1>8. /\ History!Move(refuse) /\ UNCHANGED <<stocktake, deletedInUse, belated, inbound, expense>>
  BY DEF History!ReceiveThere
<1>9. (History!PurchaseReceiptOrTransferIn' - History!TransferOut' + History!TransferCancelled' - History!ExpenseMade'
         + History!FixedAssetReturn' + imported' + History!RefusedBack')
      = (History!PurchaseReceiptOrTransferIn - History!TransferOut + History!TransferCancelled - History!ExpenseMade
           + History!FixedAssetReturn + imported + History!RefusedBack) + refuse
  BY <1>4, <1>6, <1>7, HistoryParts
<1> QED
  BY <1>2, <1>3, <1>4, <1>7, <1>8, <1>9, MoveAdds DEF HistoryInv, History!TypeOK

LEMMA CancelTransferHistory ==
  ASSUME HistoryInv, outbound # History!None, History!CancelTransfer
  PROVE  HistoryInv'
<1>1. outbound \in History!Dispatch /\ DispatchOK(outbound)
  BY DEF HistoryInv, History!TypeOK
<1> DEFINE e == [outbound EXCEPT !.status = "CANCELLED"]
           n == outbound.sent - outbound.rejected
<1>2. /\ e \in History!Dispatch /\ e.sent = outbound.sent /\ e.status = "CANCELLED"
      /\ e.received = outbound.received /\ e.rejected = outbound.rejected
  BY <1>1 DEF History!Dispatch
<1>3. outbound' = e /\ e # History!None
  BY <1>2, NoneApart DEF History!CancelTransfer
<1> HIDE DEF e
<1>4. DispatchOK(e)
  BY <1>1, <1>2 DEF DispatchOK, History!CancelTransfer
<1>5. outbound.rejected \in Nat /\ outbound.sent \in Nat /\ n \in Int
  BY <1>1, QuantityIsNat DEF History!Dispatch
<1>6. /\ History!TransferOut' = outbound.sent /\ History!TransferCancelled' = outbound.sent /\ History!RefusedBack' = 0
      /\ History!TransferOut = outbound.sent /\ History!TransferCancelled = 0
      /\ History!RefusedBack = outbound.rejected
  BY <1>2, <1>3 DEF History!TransferOut, History!TransferCancelled, History!RefusedBack,
                    History!CancelTransfer
<1>7. /\ History!PurchaseReceiptOrTransferIn' = History!PurchaseReceiptOrTransferIn
      /\ History!ExpenseMade' = History!ExpenseMade /\ History!FixedAssetReturn' = History!FixedAssetReturn /\ imported' = imported
  BY DEF History!CancelTransfer, History!PurchaseReceiptOrTransferIn, History!ExpenseMade,
         History!FixedAssetReturn
<1>8. /\ History!Move(n) /\ UNCHANGED <<stocktake, deletedInUse, belated, inbound, expense>>
  BY DEF History!CancelTransfer
<1>9. (History!PurchaseReceiptOrTransferIn' - History!TransferOut' + History!TransferCancelled' - History!ExpenseMade'
         + History!FixedAssetReturn' + imported' + History!RefusedBack')
      = (History!PurchaseReceiptOrTransferIn - History!TransferOut + History!TransferCancelled - History!ExpenseMade
           + History!FixedAssetReturn + imported + History!RefusedBack) + n
  BY <1>5, <1>6, <1>7, HistoryParts
<1> HIDE DEF n
<1> QED
  BY <1>2, <1>3, <1>4, <1>5, <1>7, <1>8, <1>9, MoveAdds DEF HistoryInv, History!TypeOK

\* What the dispatches and imports tell when the expense alone changes.
LEMMA ExpenseStep ==
  ASSUME HistoryInv, NEW n \in Int, History!Move(n), UNCHANGED <<inbound, outbound, imported,
         stocktake>>,
         expense' \in History!Expense, belated' \in BOOLEAN, deletedInUse' \in BOOLEAN,
         deletedInUse => deletedInUse',
         ~deletedInUse' =>
           History!FixedAssetReturn' - History!ExpenseMade' = History!FixedAssetReturn - History!ExpenseMade + n,
         History!FixedAssetReturn' \in Int, History!ExpenseMade' \in Int
  PROVE  HistoryInv'
<1>1. /\ History!PurchaseReceiptOrTransferIn' = History!PurchaseReceiptOrTransferIn /\ History!TransferOut' = History!TransferOut
      /\ History!TransferCancelled' = History!TransferCancelled /\ History!RefusedBack' = History!RefusedBack
  BY DEF History!PurchaseReceiptOrTransferIn, History!TransferOut, History!TransferCancelled,
         History!RefusedBack
<1>2. ~deletedInUse' =>
        (History!PurchaseReceiptOrTransferIn' - History!TransferOut' + History!TransferCancelled' - History!ExpenseMade'
           + History!FixedAssetReturn' + imported' + History!RefusedBack')
        = (History!PurchaseReceiptOrTransferIn - History!TransferOut + History!TransferCancelled - History!ExpenseMade
             + History!FixedAssetReturn + imported + History!RefusedBack) + n
  BY <1>1, HistoryParts
<1> QED
  BY <1>2, MoveAdds DEF HistoryInv, History!TypeOK

LEMMA CreateExpenseHistory ==
  ASSUME HistoryInv, NEW n \in History!Quantity, NEW asset \in {"none", "active"},
         History!CreateExpense(n, asset)
  PROVE  HistoryInv'
<1> DEFINE e == [status |-> "made", quantity |-> n, createdAt |-> today, asset |-> asset]
<1>1. n \in Nat
  BY QuantityIsNat
<1>2. e \in History!Expense /\ e # History!None
  BY DEF History!Expense, History!None, HistoryInv, History!TypeOK
<1>3. expense' = e /\ expense = History!None
  BY DEF History!CreateExpense
<1>4. /\ History!FixedAssetReturn' = 0 /\ History!ExpenseMade' = n /\ History!FixedAssetReturn = 0 /\ History!ExpenseMade = 0
  BY <1>3, NoneApart DEF History!FixedAssetReturn, History!ExpenseMade
<1>5. /\ History!Move(0 - n) /\ UNCHANGED <<inbound, outbound, imported, stocktake, deletedInUse, belated>>
  BY DEF History!CreateExpense
<1> HIDE DEF e
<1>6. History!FixedAssetReturn' - History!ExpenseMade' = History!FixedAssetReturn - History!ExpenseMade + (0 - n)
      /\ 0 - n \in Int /\ History!FixedAssetReturn' \in Int /\ History!ExpenseMade' \in Int
  BY <1>1, <1>4
<1> QED
  BY <1>2, <1>3, <1>5, <1>6, ExpenseStep DEF HistoryInv, History!TypeOK

LEMMA DeleteExpenseHistory ==
  ASSUME HistoryInv, expense # History!None, History!DeleteExpense
  PROVE  HistoryInv'
<1>1. expense \in History!Expense /\ expense.status = "made"
  BY DEF HistoryInv, History!TypeOK, History!DeleteExpense
<1> DEFINE a == IF expense.asset = "active" THEN "returned" ELSE expense.asset
           e == [expense EXCEPT !.status = "deleted", !.asset = a]
<1>2. a \in {"none", "active", "returned", "discarded"}
  BY <1>1 DEF History!Expense
<1>3. expense' = e
  BY DEF History!DeleteExpense
<1>4. a = "returned" => (expense.asset = "returned" \/ expense.asset = "active")
  OBVIOUS
<1> HIDE DEF a
<1>5. /\ e \in History!Expense /\ e.status = "deleted" /\ e.asset = a /\ e.quantity = expense.quantity
  BY <1>1, <1>2 DEF History!Expense
<1> HIDE DEF e
<1>6. e # History!None /\ expense.quantity \in Nat
  BY <1>1, <1>5, NoneApart, QuantityIsNat DEF History!Expense
<1>7. /\ History!ExpenseMade' = 0 /\ History!ExpenseMade = expense.quantity
      /\ History!FixedAssetReturn' = IF a = "returned" THEN expense.quantity ELSE 0
      /\ History!FixedAssetReturn = IF expense.asset = "returned" THEN expense.quantity ELSE 0
  BY <1>1, <1>3, <1>5, <1>6 DEF History!ExpenseMade, History!FixedAssetReturn
<1>8. /\ History!Move(expense.quantity) /\ UNCHANGED <<inbound, outbound, imported, stocktake>>
      /\ deletedInUse' = (deletedInUse \/ expense.asset = "active") /\ belated' \in BOOLEAN
  BY DEF History!DeleteExpense, History!Late, HistoryInv, History!TypeOK
<1>9. ~deletedInUse' => History!FixedAssetReturn' - History!ExpenseMade'
                          = History!FixedAssetReturn - History!ExpenseMade + expense.quantity
  <2>1. SUFFICES ASSUME ~deletedInUse'
                 PROVE  History!FixedAssetReturn' - History!ExpenseMade'
                          = History!FixedAssetReturn - History!ExpenseMade + expense.quantity
    OBVIOUS
  <2>2. a = expense.asset
    BY <1>8, <2>1 DEF a
  <2>3. History!FixedAssetReturn' = History!FixedAssetReturn /\ History!FixedAssetReturn \in Int
    BY <1>6, <1>7, <2>2
  <2> QED
    BY <1>6, <1>7, <2>3
<1>10. History!FixedAssetReturn' \in Int /\ History!ExpenseMade' \in Int /\ expense.quantity \in Int
  BY <1>6, <1>7
<1> QED
  BY <1>3, <1>5, <1>8, <1>9, <1>10, ExpenseStep

LEMMA ReturnHistory ==
  ASSUME HistoryInv, History!ReturnFixedAsset
  PROVE  HistoryInv'
<1>1. expense \in History!Expense /\ expense.asset = "active"
  BY DEF HistoryInv, History!TypeOK, History!ReturnFixedAsset
<1> DEFINE e == [expense EXCEPT !.asset = "returned"]
<1>2. /\ e \in History!Expense /\ e.status = expense.status /\ e.asset = "returned"
      /\ e.quantity = expense.quantity
  BY <1>1 DEF History!Expense
<1>3. expense' = e
  BY DEF History!ReturnFixedAsset
<1> HIDE DEF e
<1>4. e # History!None /\ expense.quantity \in Nat
  BY <1>1, <1>2, NoneApart, QuantityIsNat DEF History!Expense
<1>5. /\ History!ExpenseMade' = History!ExpenseMade /\ History!FixedAssetReturn' = expense.quantity
      /\ History!FixedAssetReturn = 0
  BY <1>1, <1>2, <1>3, <1>4 DEF History!ExpenseMade, History!FixedAssetReturn
<1>6. /\ History!Move(expense.quantity)
      /\ UNCHANGED <<inbound, outbound, imported, stocktake, deletedInUse, belated>>
  BY DEF History!ReturnFixedAsset
<1>7. History!FixedAssetReturn' - History!ExpenseMade' = History!FixedAssetReturn - History!ExpenseMade + expense.quantity
      /\ History!FixedAssetReturn' \in Int /\ History!ExpenseMade' \in Int /\ expense.quantity \in Int
  BY <1>4, <1>5, HistoryParts
<1> QED
  BY <1>2, <1>3, <1>6, <1>7, ExpenseStep DEF HistoryInv, History!TypeOK

LEMMA ImportHistory ==
  ASSUME HistoryInv, NEW n \in History!Quantity, History!Import(n)
  PROVE  HistoryInv'
<1>1. n \in Nat /\ imported' = imported + n /\ imported' \in History!Quantity
  BY QuantityIsNat DEF History!Import
<1>2. /\ History!PurchaseReceiptOrTransferIn' = History!PurchaseReceiptOrTransferIn /\ History!TransferOut' = History!TransferOut
      /\ History!TransferCancelled' = History!TransferCancelled /\ History!RefusedBack' = History!RefusedBack
      /\ History!ExpenseMade' = History!ExpenseMade /\ History!FixedAssetReturn' = History!FixedAssetReturn
  BY DEF History!Import, History!PurchaseReceiptOrTransferIn, History!TransferOut,
         History!TransferCancelled, History!RefusedBack,
         History!ExpenseMade, History!FixedAssetReturn
<1>3. /\ History!Move(n) /\ UNCHANGED <<inbound, outbound, expense, stocktake, deletedInUse, belated>>
  BY DEF History!Import
<1>4. (History!PurchaseReceiptOrTransferIn' - History!TransferOut' + History!TransferCancelled' - History!ExpenseMade'
         + History!FixedAssetReturn' + imported' + History!RefusedBack')
      = (History!PurchaseReceiptOrTransferIn - History!TransferOut + History!TransferCancelled - History!ExpenseMade
           + History!FixedAssetReturn + imported + History!RefusedBack) + n
  BY <1>1, <1>2, HistoryParts
<1> QED
  BY <1>1, <1>3, <1>4, MoveAdds DEF HistoryInv, History!TypeOK

\* Nothing moves, and no event tells otherwise.
LEMMA NothingMoves ==
  ASSUME HistoryInv, UNCHANGED <<stock, imported, counted, deletedInUse, stocktake, outbound>>,
         History!TypeOK', DispatchOK(inbound'),
         History!PurchaseReceiptOrTransferIn' = History!PurchaseReceiptOrTransferIn,
         History!ExpenseMade' = History!ExpenseMade, History!FixedAssetReturn' = History!FixedAssetReturn
  PROVE  HistoryInv'
<1>1. /\ History!TransferOut' = History!TransferOut /\ History!TransferCancelled' = History!TransferCancelled
      /\ History!RefusedBack' = History!RefusedBack /\ History!StocktakeDifference' = History!StocktakeDifference
  BY DEF History!TransferOut, History!TransferCancelled, History!RefusedBack,
         History!StocktakeDifference
<1> QED
  BY <1>1 DEF HistoryInv, DispatchOK, StocktakeOK, StockIsCounted, History!HistoryAddsUp,
              History!HistoryBalance

LEMMA SendHereHistory ==
  ASSUME HistoryInv, NEW n \in History!Quantity, History!SendHere(n)
  PROVE  HistoryInv'
<1>1. /\ inbound' = History!NewDispatch(n) /\ inbound = History!None
      /\ History!NewDispatch(n) \in History!Dispatch /\ DispatchOK(History!NewDispatch(n))
      /\ History!NewDispatch(n).status = "PENDING_RECEIPT"
  BY NewDispatchOK DEF History!SendHere, HistoryInv, History!TypeOK
<1>2. History!TypeOK'
  BY <1>1 DEF History!SendHere, HistoryInv, History!TypeOK
<1>3. /\ History!PurchaseReceiptOrTransferIn' = 0 /\ History!PurchaseReceiptOrTransferIn = 0
      /\ History!ExpenseMade' = History!ExpenseMade /\ History!FixedAssetReturn' = History!FixedAssetReturn
  BY <1>1, NoneApart
  DEF History!SendHere, History!PurchaseReceiptOrTransferIn, History!ExpenseMade, History!FixedAssetReturn
<1> QED
  BY <1>1, <1>2, <1>3, NothingMoves DEF History!SendHere

LEMMA DiscardHistory ==
  ASSUME HistoryInv, History!DiscardFixedAsset
  PROVE  HistoryInv'
<1>1. expense \in History!Expense /\ expense.asset = "active"
  BY DEF HistoryInv, History!TypeOK, History!DiscardFixedAsset
<1> DEFINE e == [expense EXCEPT !.asset = "discarded"]
<1>2. /\ e \in History!Expense /\ e.status = expense.status /\ e.asset = "discarded"
      /\ e.quantity = expense.quantity
  BY <1>1 DEF History!Expense
<1>3. expense' = e
  BY DEF History!DiscardFixedAsset
<1> HIDE DEF e
<1>4. /\ History!ExpenseMade' = History!ExpenseMade /\ History!FixedAssetReturn' = History!FixedAssetReturn
      /\ History!PurchaseReceiptOrTransferIn' = History!PurchaseReceiptOrTransferIn
  BY <1>1, <1>2, <1>3
  DEF History!ExpenseMade, History!FixedAssetReturn, History!PurchaseReceiptOrTransferIn, History!DiscardFixedAsset
<1>5. History!TypeOK'
  BY <1>2, <1>3 DEF History!DiscardFixedAsset, HistoryInv, History!TypeOK
<1> QED
  BY <1>4, <1>5, NothingMoves DEF History!DiscardFixedAsset, HistoryInv, DispatchOK

LEMMA NextDayHistory ==
  ASSUME HistoryInv, History!NextDay
  PROVE  HistoryInv'
<1>1. closing' \in [1 .. today' - 1 -> History!Quantity] /\ today' \in History!Days
  BY HistoryAssumed DEF History!NextDay, HistoryInv, History!TypeOK, History!Days,
                        History!HistoryBoundsAssumption
<1>2. History!TypeOK'
  BY <1>1 DEF History!NextDay, HistoryInv, History!TypeOK
<1>3. /\ History!ExpenseMade' = History!ExpenseMade /\ History!FixedAssetReturn' = History!FixedAssetReturn
      /\ History!PurchaseReceiptOrTransferIn' = History!PurchaseReceiptOrTransferIn
  BY DEF History!ExpenseMade, History!FixedAssetReturn, History!PurchaseReceiptOrTransferIn,
         History!NextDay
<1> QED
  BY <1>2, <1>3, NothingMoves DEF History!NextDay, HistoryInv, DispatchOK

\* The stocktake changes, and the stock with its difference.
LEMMA StocktakeMoves ==
  ASSUME HistoryInv,
         UNCHANGED <<inbound, outbound, expense, imported, counted, deletedInUse, belated,
                     today, closing>>,
         stocktake' \in History!Stocktake, stock' \in History!Quantity, StocktakeOK(stocktake'), StockIsCounted',
         ~counted => stock' - History!StocktakeDifference' = stock - History!StocktakeDifference
  PROVE  HistoryInv'
<1>1. History!TypeOK'
  BY DEF HistoryInv, History!TypeOK
<1>2. /\ History!PurchaseReceiptOrTransferIn' = History!PurchaseReceiptOrTransferIn /\ History!TransferOut' = History!TransferOut
      /\ History!TransferCancelled' = History!TransferCancelled /\ History!RefusedBack' = History!RefusedBack
      /\ History!ExpenseMade' = History!ExpenseMade /\ History!FixedAssetReturn' = History!FixedAssetReturn
  BY DEF History!PurchaseReceiptOrTransferIn, History!TransferOut, History!TransferCancelled,
         History!RefusedBack,
         History!ExpenseMade, History!FixedAssetReturn
<1>3. stock' \in Int /\ History!StocktakeDifference' \in Int
  BY QuantityIsNat DEF History!Stocktake, History!StocktakeDifference
<1>4. History!HistoryAddsUp'
  BY <1>2, <1>3, HistoryParts DEF HistoryInv, History!HistoryAddsUp, History!HistoryBalance
<1> QED
  BY <1>1, <1>4 DEF HistoryInv, DispatchOK

LEMMA CreateStocktakeHistory ==
  ASSUME HistoryInv, NEW n \in History!Quantity, History!CreateStocktake(n)
  PROVE  HistoryInv'
<1> DEFINE t == [status |-> "IN_PROGRESS", bookQuantity |-> stock, countedQuantity |-> n,
                 excessDeductQuantity |-> 0, shortageAddQuantity |-> 0]
<1>1. t \in History!Stocktake /\ StocktakeOK(t)
  BY Zero DEF History!Stocktake, StocktakeOK, HistoryInv, History!TypeOK
<1>2. stocktake' = t /\ stocktake = History!None /\ stock' = stock /\ stock \in History!Quantity
  BY DEF History!CreateStocktake, HistoryInv, History!TypeOK
<1>3. StockIsCounted'
  BY <1>2 DEF StockIsCounted
<1>4. History!StocktakeDifference' = 0 /\ History!StocktakeDifference = 0
  BY <1>2, NoneApart DEF History!StocktakeDifference
<1> HIDE DEF t
<1> QED
  BY <1>1, <1>2, <1>3, <1>4, StocktakeMoves DEF History!CreateStocktake

LEMMA CompleteHistory ==
  ASSUME HistoryInv, stocktake # History!None, History!CompleteStocktake
  PROVE  HistoryInv'
<1>1. stocktake \in History!Stocktake /\ stocktake.status = "IN_PROGRESS" /\ StocktakeOK(stocktake)
  BY DEF HistoryInv, History!TypeOK, History!CompleteStocktake
<1> DEFINE t == [stocktake EXCEPT !.status = "COMPLETED"]
<1>2. /\ t \in History!Stocktake /\ t.status = "COMPLETED" /\ t.bookQuantity = stocktake.bookQuantity
      /\ t.countedQuantity = stocktake.countedQuantity
      /\ t.excessDeductQuantity = 0 /\ t.shortageAddQuantity = 0
  BY <1>1 DEF History!Stocktake, StocktakeOK
<1>3. stocktake' = t /\ stock' = stocktake.countedQuantity
  BY DEF History!CompleteStocktake
<1> HIDE DEF t
<1>4. stocktake.countedQuantity \in History!Quantity /\ stocktake.countedQuantity \in Nat
      /\ stocktake.bookQuantity \in Nat /\ stock \in Int
  BY <1>1, QuantityIsNat, HistoryParts DEF History!Stocktake
<1>5. StocktakeOK(t)
  BY <1>2 DEF StocktakeOK
<1>6. StockIsCounted'
  BY <1>2, <1>3, <1>4 DEF StockIsCounted
<1>7. /\ History!StocktakeDifference = 0
      /\ History!StocktakeDifference' = stocktake.countedQuantity - stocktake.bookQuantity
  BY <1>1, <1>2, <1>3, <1>4 DEF History!StocktakeDifference
<1>8. ~counted => stock = stocktake.bookQuantity
  BY <1>1 DEF HistoryInv, StockIsCounted
<1>9. ~counted => stock' - History!StocktakeDifference' = stock - History!StocktakeDifference
  BY <1>3, <1>4, <1>7, <1>8
<1> QED
  BY <1>2, <1>3, <1>4, <1>5, <1>6, <1>9, StocktakeMoves DEF History!CompleteStocktake

LEMMA AdjustHistory ==
  ASSUME HistoryInv, NEW n \in History!Quantity, stocktake # History!None, History!Adjust(n)
  PROVE  HistoryInv'
<1>1. stocktake \in History!Stocktake /\ stocktake.status = "COMPLETED" /\ StocktakeOK(stocktake)
  BY DEF HistoryInv, History!TypeOK, History!Adjust
<1> DEFINE excess == stocktake.countedQuantity - stocktake.bookQuantity
           t == IF excess > 0
                  THEN [stocktake EXCEPT !.excessDeductQuantity = n]
                  ELSE [stocktake EXCEPT !.shortageAddQuantity = n]
<1>2. /\ stocktake' = t
      /\ stock' = t.countedQuantity - t.excessDeductQuantity + t.shortageAddQuantity
      /\ \/ excess > 0 /\ n <= excess
         \/ excess < 0 /\ n <= 0 - excess
  BY DEF History!Adjust
<1>3. /\ stocktake.countedQuantity \in 0 .. MaxStock /\ stocktake.bookQuantity \in 0 .. MaxStock
      /\ stocktake.excessDeductQuantity \in 0 .. MaxStock
      /\ stocktake.shortageAddQuantity \in 0 .. MaxStock
      /\ n \in 0 .. MaxStock /\ MaxStock \in Nat
  BY <1>1, HistoryAssumed DEF History!Stocktake, History!Quantity, History!HistoryBoundsAssumption
<1>4. /\ t \in History!Stocktake /\ t.status = "COMPLETED"
      /\ t.countedQuantity = stocktake.countedQuantity
      /\ t.bookQuantity = stocktake.bookQuantity
      /\ t.excessDeductQuantity = IF excess > 0 THEN n ELSE stocktake.excessDeductQuantity
      /\ t.shortageAddQuantity = IF excess > 0 THEN stocktake.shortageAddQuantity ELSE n
  BY <1>1 DEF History!Stocktake
<1> HIDE DEF t
<1>5. /\ excess > 0 => stocktake.shortageAddQuantity = 0
      /\ excess < 0 => stocktake.excessDeductQuantity = 0
  BY <1>1, <1>3 DEF StocktakeOK
<1>6. StocktakeOK(t)
  BY <1>2, <1>3, <1>4, <1>5 DEF StocktakeOK
<1>7. stock' \in History!Quantity
  BY <1>2, <1>3, <1>4, <1>5 DEF History!Quantity
<1>8. StockIsCounted'
  BY <1>2, <1>4 DEF StockIsCounted
<1>9. /\ History!StocktakeDifference = excess - stocktake.excessDeductQuantity
                                         + stocktake.shortageAddQuantity
      /\ History!StocktakeDifference' = excess - t.excessDeductQuantity + t.shortageAddQuantity
  BY <1>1, <1>2, <1>4 DEF History!StocktakeDifference
<1>10. ~counted => stock = stocktake.countedQuantity - stocktake.excessDeductQuantity
                             + stocktake.shortageAddQuantity
  BY <1>1 DEF HistoryInv, StockIsCounted
<1>11. ~counted => stock' - History!StocktakeDifference' = stock - History!StocktakeDifference
  BY <1>2, <1>3, <1>4, <1>9, <1>10
<1> QED
  BY <1>2, <1>4, <1>6, <1>7, <1>8, <1>11, StocktakeMoves DEF History!Adjust

LEMMA HistoryNext ==
  ASSUME HistoryInv, [History!Next]_(History!vars)
  PROVE  HistoryInv'
<1>1. CASE UNCHANGED History!vars
  <2>1. /\ History!ExpenseMade' = History!ExpenseMade /\ History!FixedAssetReturn' = History!FixedAssetReturn
        /\ History!PurchaseReceiptOrTransferIn' = History!PurchaseReceiptOrTransferIn
    BY <1>1 DEF History!vars, History!ExpenseMade, History!FixedAssetReturn,
                History!PurchaseReceiptOrTransferIn
  <2> QED
    BY <1>1, <2>1, NothingMoves DEF History!vars, HistoryInv, History!TypeOK
<1> QED
  BY <1>1, SendHereHistory, CreateTransferHistory, CreateExpenseHistory, ImportHistory,
     CreateStocktakeHistory, AdjustHistory, ReceiveHistory, ReceiveThereHistory,
     CancelTransferHistory, DeleteExpenseHistory, ReturnHistory, DiscardHistory,
     CompleteHistory, NextDayHistory
  DEF History!Next

-----------------------------------------------------------------------------
(* The charts: one dispatch and one expense each count on one day. *)

InDay == IF inbound = History!None THEN 0 ELSE inbound.dispatchedAt
OutDay == IF outbound = History!None THEN 0 ELSE outbound.dispatchedAt
SpentDay == IF expense = History!None THEN 0 ELSE expense.createdAt

BalanceOn(d) ==
  By(InDay, History!PurchaseReceiptOrTransferIn, d) - By(OutDay, History!TransferOut, d)
    - By(SpentDay, History!ExpenseMade, d)

ChartInv ==
  /\ InDay <= today /\ OutDay <= today /\ SpentDay <= today
  /\ History!OnlyReceiptsAndExpenses => \A d \in 0 .. today : History!AtEnd(d) = BalanceOn(d)

LEMMA ChartParts ==
  ASSUME HistoryInv
  PROVE  /\ InDay \in Nat /\ OutDay \in Nat /\ SpentDay \in Nat /\ today \in Nat /\ today > 0
         /\ InDay = 0 => History!PurchaseReceiptOrTransferIn = 0
         /\ OutDay = 0 => History!TransferOut = 0
         /\ SpentDay = 0 => History!ExpenseMade = 0
         /\ History!PurchaseReceiptOrTransferIn \in Int /\ History!TransferOut \in Int /\ History!ExpenseMade \in Int
         /\ stock \in Int
<1>1. \A d \in History!Days : d \in Nat /\ d > 0
  BY HistoryAssumed DEF History!Days, History!HistoryBoundsAssumption
<1>2. /\ inbound # History!None => inbound.dispatchedAt \in History!Days
      /\ outbound # History!None => outbound.dispatchedAt \in History!Days
      /\ expense # History!None => expense.createdAt \in History!Days
      /\ today \in History!Days
  BY DEF HistoryInv, History!TypeOK, History!Dispatch, History!Expense
<1>3. /\ inbound = History!None => History!PurchaseReceiptOrTransferIn = 0
      /\ outbound = History!None => History!TransferOut = 0
      /\ expense = History!None => History!ExpenseMade = 0
  BY NoneApart DEF History!PurchaseReceiptOrTransferIn, History!TransferOut, History!ExpenseMade
<1> QED
  BY <1>1, <1>2, <1>3, HistoryParts DEF InDay, OutDay, SpentDay

LEMMA BalanceIsInt ==
  ASSUME HistoryInv, NEW d \in Int
  PROVE  /\ By(InDay, History!PurchaseReceiptOrTransferIn, d) \in Int
         /\ By(OutDay, History!TransferOut, d) \in Int
         /\ By(SpentDay, History!ExpenseMade, d) \in Int
         /\ BalanceOn(d) \in Int
BY ChartParts DEF By, BalanceOn

LEMMA ChartInit ==
  ASSUME History!Init, HistoryInv
  PROVE  ChartInv
<1>1. InDay = 0 /\ OutDay = 0 /\ SpentDay = 0 /\ today = 1 /\ stock = 0
  BY DEF History!Init, InDay, OutDay, SpentDay
<1>2. History!PurchaseReceiptOrTransferIn = 0 /\ History!TransferOut = 0 /\ History!ExpenseMade = 0
  BY <1>1, ChartParts
<1>3. \A d \in 0 .. today : BalanceOn(d) = 0
  BY <1>2 DEF BalanceOn, By
<1>4. \A d \in 0 .. today : History!AtEnd(d) = 0
  BY <1>1 DEF History!AtEnd
<1> QED
  BY <1>1, <1>3, <1>4 DEF ChartInv

\* A step of the same day changes the balance of that day as it changes the stock.
LEMMA ChartStep ==
  ASSUME HistoryInv, HistoryInv', ChartInv, UNCHANGED <<today, closing>>,
         InDay' <= today, OutDay' <= today, SpentDay' <= today,
         History!OnlyReceiptsAndExpenses' =>
           /\ History!OnlyReceiptsAndExpenses
           /\ \A d \in 0 .. today :
                BalanceOn(d)' = BalanceOn(d) + (IF d = today THEN stock' - stock ELSE 0)
  PROVE  ChartInv'
<1> SUFFICES ASSUME History!OnlyReceiptsAndExpenses', NEW d \in 0 .. today
             PROVE  History!AtEnd(d)' = BalanceOn(d)'
  BY DEF ChartInv
<1>1. History!AtEnd(d) = BalanceOn(d) /\ BalanceOn(d)' = BalanceOn(d) + (IF d = today THEN stock' - stock ELSE 0)
  BY DEF ChartInv
<1>2. d \in Int /\ today \in Nat /\ today > 0 /\ stock \in Int /\ stock' \in Int
  BY ChartParts, QuantityIsNat DEF HistoryInv, History!TypeOK
<1>3. BalanceOn(d) \in Int
  BY <1>2, BalanceIsInt
<1>4. CASE d = today
  <2>1. History!AtEnd(d) = stock /\ History!AtEnd(d)' = stock'
    BY <1>2, <1>4 DEF History!AtEnd
  <2>2. (IF d = today THEN stock' - stock ELSE 0) = stock' - stock
    BY <1>4
  <2>3. BalanceOn(d)' = stock + (stock' - stock)
    BY <1>1, <2>1, <2>2
  <2>4. stock + (stock' - stock) = stock'
    <3>1. \A a, b \in Int : a + (b - a) = b
      OBVIOUS
    <3> QED
      BY <1>2, <3>1
  <2>5. BalanceOn(d)' = stock'
    BY <2>3, <2>4
  <2> QED
    BY <2>1, <2>5
<1>5. CASE d # today
  <2>1. History!AtEnd(d)' = History!AtEnd(d)
    BY <1>5 DEF History!AtEnd
  <2> QED
    BY <1>1, <1>3, <1>5, <2>1
<1> QED
  BY <1>4, <1>5

LEMMA SendHereCharts ==
  ASSUME HistoryInv, HistoryInv', ChartInv, NEW n \in History!Quantity, History!SendHere(n)
  PROVE  ChartInv'
<1>1. /\ inbound' = History!NewDispatch(n) /\ inbound = History!None /\ History!NewDispatch(n) # History!None
      /\ History!NewDispatch(n).dispatchedAt = today /\ History!NewDispatch(n).status = "PENDING_RECEIPT"
      /\ UNCHANGED <<stock, outbound, expense, imported, stocktake, today, closing,
                     counted, deletedInUse, belated>>
  BY NewDispatchOK DEF History!SendHere, HistoryInv, History!TypeOK, History!NewDispatch
<1>2. /\ InDay' = today /\ OutDay' = OutDay /\ SpentDay' = SpentDay
      /\ History!PurchaseReceiptOrTransferIn' = 0 /\ History!PurchaseReceiptOrTransferIn = 0
      /\ History!TransferOut' = History!TransferOut /\ History!ExpenseMade' = History!ExpenseMade
  BY <1>1, NoneApart
  DEF InDay, OutDay, SpentDay, History!PurchaseReceiptOrTransferIn, History!TransferOut, History!ExpenseMade
<1>3. \A d \in 0 .. today : BalanceOn(d)' = BalanceOn(d) + (IF d = today THEN stock' - stock ELSE 0)
  <2>1. \A d \in 0 .. today : BalanceOn(d)' = BalanceOn(d) /\ BalanceOn(d) \in Int
    BY <1>2, BalanceIsInt, ChartParts DEF BalanceOn, By
  <2> QED
    BY <1>1, <2>1, ChartParts
<1>4. History!OnlyReceiptsAndExpenses' <=> History!OnlyReceiptsAndExpenses
  BY <1>1 DEF History!OnlyReceiptsAndExpenses
<1> QED
  BY <1>1, <1>2, <1>3, <1>4, ChartStep, ChartParts DEF ChartInv

LEMMA ReceiveCharts ==
  ASSUME HistoryInv, HistoryInv', ChartInv, NEW take \in History!Quantity,
         NEW refuse \in History!Quantity,
         inbound # History!None, History!Receive(take, refuse)
  PROVE  ChartInv'
<1>1. inbound \in History!Dispatch /\ DispatchOK(inbound) /\ take \in Nat /\ stock \in Int
  BY QuantityIsNat, HistoryParts DEF HistoryInv, History!TypeOK
<1> DEFINE e == History!Settled(inbound, take, refuse)
<1>2. /\ e \in History!Dispatch /\ e # History!None
      /\ e.status \in {"PENDING_RECEIPT", "PARTIALLY_RECEIVED", "COMPLETED"}
      /\ e.status = "PENDING_RECEIPT" => e.received = 0
      /\ e.received = inbound.received + take
  BY <1>1, SettledOK, NoneApart DEF History!Receive
<1>3. e.dispatchedAt = inbound.dispatchedAt
  BY <1>1 DEF History!Settled, History!Dispatch
<1>4. inbound' = e
  BY DEF History!Receive
<1> HIDE DEF e
<1>5. inbound.received \in Nat
  BY <1>1, QuantityIsNat DEF History!Dispatch
<1>6. /\ History!PurchaseReceiptOrTransferIn' = History!PurchaseReceiptOrTransferIn + take
      /\ InDay' = InDay /\ InDay = inbound.dispatchedAt
  <2>1. History!PurchaseReceiptOrTransferIn' = e.received
    BY <1>2, <1>4, <1>5 DEF History!PurchaseReceiptOrTransferIn
  <2>2. History!PurchaseReceiptOrTransferIn = inbound.received
    BY <1>1, <1>5 DEF History!PurchaseReceiptOrTransferIn, History!Receive, DispatchOK,
                      History!Dispatch
  <2> QED
    BY <1>2, <1>3, <1>4, <2>1, <2>2 DEF InDay
<1>7. /\ stock' = stock + take /\ UNCHANGED <<today, closing>>
      /\ UNCHANGED <<outbound, expense, imported, stocktake, deletedInUse>>
      /\ belated' = (belated \/ inbound.dispatchedAt # today)
  BY DEF History!Receive, History!Move, History!Late
<1>8. /\ OutDay' = OutDay /\ SpentDay' = SpentDay
      /\ History!TransferOut' = History!TransferOut /\ History!ExpenseMade' = History!ExpenseMade
  BY <1>7 DEF OutDay, SpentDay, History!TransferOut, History!ExpenseMade
<1>9. ASSUME History!OnlyReceiptsAndExpenses'
      PROVE  /\ History!OnlyReceiptsAndExpenses
             /\ \A d \in 0 .. today :
                  BalanceOn(d)' = BalanceOn(d) + (IF d = today THEN stock' - stock ELSE 0)
  <2>1. History!OnlyReceiptsAndExpenses /\ inbound.dispatchedAt = today
    BY <1>7, <1>9 DEF History!OnlyReceiptsAndExpenses
  <2>2. ASSUME NEW d \in 0 .. today
        PROVE  BalanceOn(d)' = BalanceOn(d) + (IF d = today THEN stock' - stock ELSE 0)
    <3>1. By(InDay, History!PurchaseReceiptOrTransferIn + take, d)
            = By(InDay, History!PurchaseReceiptOrTransferIn, d) + (IF d = today THEN take ELSE 0)
      <4>1. History!PurchaseReceiptOrTransferIn \in Int /\ today \in Nat /\ InDay = today
        BY <1>6, <2>1, ChartParts
      <4>2. d <= today /\ d \in Nat /\ (today <= d <=> d = today)
        BY <4>1
      <4> QED
        BY <1>1, <4>1, <4>2 DEF By
    <3>2. stock' - stock = take
      BY <1>1, <1>7
    <3>3. BalanceOn(d)' = By(InDay, History!PurchaseReceiptOrTransferIn + take, d)
                          - By(OutDay, History!TransferOut, d) - By(SpentDay, History!ExpenseMade, d)
      BY <1>6, <1>8 DEF BalanceOn, By
    <3>4. d \in Int
      OBVIOUS
    <3> QED
      BY <1>1, <3>1, <3>2, <3>3, <3>4, BalanceIsInt DEF BalanceOn
  <2> QED
    BY <2>1, <2>2
<1> QED
  BY <1>6, <1>7, <1>8, <1>9, ChartStep DEF ChartInv

LEMMA CreateTransferCharts ==
  ASSUME HistoryInv, HistoryInv', ChartInv, NEW n \in History!Quantity, History!CreateTransfer(n)
  PROVE  ChartInv'
<1>1. /\ outbound' = History!NewDispatch(n) /\ outbound = History!None /\ History!NewDispatch(n) # History!None
      /\ History!NewDispatch(n).dispatchedAt = today /\ History!NewDispatch(n).sent = n
      /\ UNCHANGED <<inbound, expense, imported, stocktake, deletedInUse, belated, today, closing>>
      /\ stock' = stock + (0 - n) /\ n \in Nat /\ stock \in Int
  BY NewDispatchOK, QuantityIsNat, HistoryParts
  DEF History!CreateTransfer, History!Move, HistoryInv, History!TypeOK, History!NewDispatch
<1>2. /\ InDay' = InDay /\ OutDay' = today /\ SpentDay' = SpentDay
      /\ History!PurchaseReceiptOrTransferIn' = History!PurchaseReceiptOrTransferIn /\ History!ExpenseMade' = History!ExpenseMade
      /\ History!TransferOut' = n /\ History!TransferOut = 0
  BY <1>1 DEF InDay, OutDay, SpentDay, History!PurchaseReceiptOrTransferIn, History!TransferOut,
              History!ExpenseMade
<1>3. ASSUME NEW d \in 0 .. today
      PROVE  BalanceOn(d)' = BalanceOn(d) + (IF d = today THEN stock' - stock ELSE 0)
  <2>1. By(today, n, d) = By(OutDay, 0, d) + (IF d = today THEN n ELSE 0)
    <3>1. today \in Nat /\ d \in Nat /\ (today <= d <=> d = today)
      BY ChartParts
    <3> QED
      BY <1>1, <3>1 DEF By
  <2>2. By(OutDay, 0, d) = 0
    BY DEF By
  <2>3. BalanceOn(d)' = By(InDay, History!PurchaseReceiptOrTransferIn, d) - By(today, n, d)
                        - By(SpentDay, History!ExpenseMade, d)
    BY <1>1, <1>2 DEF BalanceOn, By
  <2>4. BalanceOn(d) = By(InDay, History!PurchaseReceiptOrTransferIn, d) - 0 - By(SpentDay, History!ExpenseMade, d)
    BY <1>2, <2>2 DEF BalanceOn
  <2>5. stock' - stock = - n
    BY <1>1
  <2> QED
    BY <1>1, <2>1, <2>2, <2>3, <2>4, <2>5, BalanceIsInt
<1>4. History!OnlyReceiptsAndExpenses' => History!OnlyReceiptsAndExpenses
  BY <1>1 DEF History!OnlyReceiptsAndExpenses
<1> QED
  BY <1>1, <1>2, <1>3, <1>4, ChartStep, ChartParts DEF ChartInv

LEMMA ReceiveThereCharts ==
  ASSUME HistoryInv, HistoryInv', ChartInv, NEW take \in History!Quantity,
         NEW refuse \in History!Quantity,
         outbound # History!None, History!ReceiveThere(take, refuse)
  PROVE  ChartInv'
<1>1. /\ outbound \in History!Dispatch /\ DispatchOK(outbound) /\ refuse \in Nat /\ stock \in Int
      /\ outbound.rejected \in Nat
  BY QuantityIsNat, HistoryParts DEF HistoryInv, History!TypeOK, History!Dispatch
<1> DEFINE e == History!Settled(outbound, take, refuse)
<1>2. /\ e \in History!Dispatch /\ e # History!None /\ e.sent = outbound.sent
      /\ e.rejected = outbound.rejected + refuse
  BY <1>1, SettledOK, NoneApart DEF History!ReceiveThere
<1>3. e.dispatchedAt = outbound.dispatchedAt
  BY <1>1 DEF History!Settled, History!Dispatch
<1>4. outbound' = e /\ outbound.status # "CANCELLED"
  BY DEF History!ReceiveThere
<1> HIDE DEF e
<1>5. /\ stock' = stock + refuse /\ UNCHANGED <<today, closing>>
      /\ UNCHANGED <<inbound, expense, imported, stocktake, deletedInUse, belated>>
  BY DEF History!ReceiveThere, History!Move
<1>6. /\ InDay' = InDay /\ OutDay' = OutDay /\ SpentDay' = SpentDay
      /\ History!PurchaseReceiptOrTransferIn' = History!PurchaseReceiptOrTransferIn
      /\ History!TransferOut' = History!TransferOut /\ History!ExpenseMade' = History!ExpenseMade
  BY <1>2, <1>3, <1>4, <1>5
  DEF InDay, OutDay, SpentDay, History!PurchaseReceiptOrTransferIn, History!TransferOut, History!ExpenseMade
<1>7. ASSUME History!OnlyReceiptsAndExpenses'
      PROVE  History!OnlyReceiptsAndExpenses /\ stock' = stock
  <2>1. e.rejected = 0
    BY <1>2, <1>4, <1>7 DEF History!OnlyReceiptsAndExpenses
  <2>2. outbound.rejected = 0 /\ refuse = 0
    BY <1>1, <1>2, <2>1
  <2> QED
    BY <1>1, <1>4, <1>5, <1>7, <2>2 DEF History!OnlyReceiptsAndExpenses
<1>8. \A d \in 0 .. today : BalanceOn(d)' = BalanceOn(d) /\ BalanceOn(d) \in Int
  BY <1>6, BalanceIsInt DEF BalanceOn, By
<1>9. stock' = stock => \A d \in 0 .. today :
        BalanceOn(d)' = BalanceOn(d) + (IF d = today THEN stock' - stock ELSE 0)
  BY <1>1, <1>8
<1> QED
  BY <1>5, <1>6, <1>7, <1>9, ChartStep DEF ChartInv

LEMMA CreateExpenseCharts ==
  ASSUME HistoryInv, HistoryInv', ChartInv, NEW n \in History!Quantity,
         NEW asset \in {"none", "active"},
         History!CreateExpense(n, asset)
  PROVE  ChartInv'
<1> DEFINE e == [status |-> "made", quantity |-> n, createdAt |-> today, asset |-> asset]
<1>1. e # History!None /\ e.status = "made" /\ e.quantity = n /\ e.createdAt = today
  BY DEF History!None
<1>2. /\ expense' = e /\ expense = History!None
      /\ UNCHANGED <<inbound, outbound, imported, stocktake, deletedInUse, belated, today, closing>>
      /\ stock' = stock + (0 - n) /\ n \in Nat /\ stock \in Int
  BY QuantityIsNat, HistoryParts DEF History!CreateExpense, History!Move
<1> HIDE DEF e
<1>3. /\ InDay' = InDay /\ OutDay' = OutDay /\ SpentDay' = today
      /\ History!PurchaseReceiptOrTransferIn' = History!PurchaseReceiptOrTransferIn /\ History!TransferOut' = History!TransferOut
      /\ History!ExpenseMade' = n /\ History!ExpenseMade = 0
  BY <1>1, <1>2, NoneApart
  DEF InDay, OutDay, SpentDay, History!PurchaseReceiptOrTransferIn, History!TransferOut, History!ExpenseMade
<1>4. ASSUME NEW d \in 0 .. today
      PROVE  BalanceOn(d)' = BalanceOn(d) + (IF d = today THEN stock' - stock ELSE 0)
  <2>1. By(today, n, d) = By(SpentDay, 0, d) + (IF d = today THEN n ELSE 0)
    <3>1. today \in Nat /\ d \in Nat /\ (today <= d <=> d = today)
      BY ChartParts
    <3> QED
      BY <1>2, <3>1 DEF By
  <2>2. By(SpentDay, 0, d) = 0
    BY DEF By
  <2>3. BalanceOn(d)' = By(InDay, History!PurchaseReceiptOrTransferIn, d) - By(OutDay, History!TransferOut, d)
                        - By(today, n, d)
    BY <1>2, <1>3 DEF BalanceOn, By
  <2>4. BalanceOn(d) = By(InDay, History!PurchaseReceiptOrTransferIn, d) - By(OutDay, History!TransferOut, d) - 0
    BY <1>3, <2>2 DEF BalanceOn
  <2>5. stock' - stock = - n
    BY <1>2
  <2> QED
    BY <1>2, <2>1, <2>2, <2>3, <2>4, <2>5, BalanceIsInt
<1>5. History!OnlyReceiptsAndExpenses' => History!OnlyReceiptsAndExpenses
  BY <1>2 DEF History!OnlyReceiptsAndExpenses
<1> QED
  BY <1>2, <1>3, <1>4, <1>5, ChartStep, ChartParts DEF ChartInv

LEMMA DeleteExpenseCharts ==
  ASSUME HistoryInv, HistoryInv', ChartInv, expense # History!None, History!DeleteExpense
  PROVE  ChartInv'
<1>1. /\ expense \in History!Expense /\ expense.status = "made" /\ expense.quantity \in Nat
      /\ stock \in Int
  BY QuantityIsNat, HistoryParts DEF HistoryInv, History!TypeOK, History!DeleteExpense,
                                     History!Expense
<1> DEFINE a == IF expense.asset = "active" THEN "returned" ELSE expense.asset
           e == [expense EXCEPT !.status = "deleted", !.asset = a]
<1>2. expense' = e
  BY DEF History!DeleteExpense
<1>3. e.status = "deleted" /\ e.createdAt = expense.createdAt /\ e.asset = a
  BY <1>1 DEF History!Expense
<1> HIDE DEF e
<1>4. e # History!None
  BY <1>3 DEF History!None
<1>5. /\ stock' = stock + expense.quantity /\ UNCHANGED <<today, closing>>
      /\ UNCHANGED <<inbound, outbound, imported, stocktake>>
      /\ deletedInUse' = (deletedInUse \/ expense.asset = "active")
      /\ belated' = (belated \/ expense.createdAt # today)
  BY DEF History!DeleteExpense, History!Move, History!Late
<1>6. /\ InDay' = InDay /\ OutDay' = OutDay /\ SpentDay' = SpentDay
      /\ SpentDay = expense.createdAt
      /\ History!PurchaseReceiptOrTransferIn' = History!PurchaseReceiptOrTransferIn /\ History!TransferOut' = History!TransferOut
      /\ History!ExpenseMade' = 0 /\ History!ExpenseMade = expense.quantity
  BY <1>1, <1>2, <1>3, <1>4, <1>5
  DEF InDay, OutDay, SpentDay, History!PurchaseReceiptOrTransferIn, History!TransferOut, History!ExpenseMade
<1>7. ASSUME History!OnlyReceiptsAndExpenses'
      PROVE  /\ History!OnlyReceiptsAndExpenses
             /\ \A d \in 0 .. today :
                  BalanceOn(d)' = BalanceOn(d) + (IF d = today THEN stock' - stock ELSE 0)
  <2>1. History!OnlyReceiptsAndExpenses /\ expense.createdAt = today
    BY <1>2, <1>3, <1>4, <1>5, <1>7 DEF History!OnlyReceiptsAndExpenses
  <2>2. ASSUME NEW d \in 0 .. today
        PROVE  BalanceOn(d)' = BalanceOn(d) + (IF d = today THEN stock' - stock ELSE 0)
    <3>1. By(SpentDay, 0, d) = By(SpentDay, expense.quantity, d)
                                 + (IF d = today THEN - expense.quantity ELSE 0)
      <4>1. today \in Nat /\ d \in Nat /\ (today <= d <=> d = today) /\ SpentDay = today
        BY <1>6, <2>1, ChartParts
      <4> QED
        BY <1>1, <4>1 DEF By
    <3>2. stock' - stock = expense.quantity
      BY <1>1, <1>5
    <3>3. BalanceOn(d)' = By(InDay, History!PurchaseReceiptOrTransferIn, d) - By(OutDay, History!TransferOut, d)
                          - By(SpentDay, 0, d)
      BY <1>6 DEF BalanceOn, By
    <3>4. BalanceOn(d) = By(InDay, History!PurchaseReceiptOrTransferIn, d) - By(OutDay, History!TransferOut, d)
                         - By(SpentDay, expense.quantity, d)
      BY <1>6 DEF BalanceOn
    <3>5. By(SpentDay, expense.quantity, d) \in Int
      BY <1>1 DEF By
    <3> QED
      BY <1>1, <3>1, <3>2, <3>3, <3>4, <3>5, BalanceIsInt
  <2> QED
    BY <2>1, <2>2
<1> QED
  BY <1>5, <1>6, <1>7, ChartStep DEF ChartInv

\* Steps after which something happened that the charts do not know.
LEMMA UnknownCharts ==
  ASSUME HistoryInv, HistoryInv', ChartInv, UNCHANGED <<today, closing>>,
         ~History!OnlyReceiptsAndExpenses',
         InDay' = InDay, OutDay' = OutDay, SpentDay' = SpentDay
  PROVE  ChartInv'
BY DEF ChartInv

LEMMA CancelTransferCharts ==
  ASSUME HistoryInv, HistoryInv', ChartInv, outbound # History!None, History!CancelTransfer
  PROVE  ChartInv'
<1> DEFINE e == [outbound EXCEPT !.status = "CANCELLED"]
<1>1. outbound \in History!Dispatch
  BY DEF HistoryInv, History!TypeOK
<1>2. e \in History!Dispatch /\ e.status = "CANCELLED" /\ e.dispatchedAt = outbound.dispatchedAt
  BY <1>1 DEF History!Dispatch
<1>3. /\ outbound' = e /\ UNCHANGED <<inbound, expense, today, closing>>
  BY DEF History!CancelTransfer, History!Move
<1> HIDE DEF e
<1>4. e # History!None
  BY <1>2, NoneApart
<1> QED
  BY <1>2, <1>3, <1>4, UnknownCharts DEF InDay, OutDay, SpentDay, History!OnlyReceiptsAndExpenses

LEMMA ReturnCharts ==
  ASSUME HistoryInv, HistoryInv', ChartInv, History!ReturnFixedAsset
  PROVE  ChartInv'
<1> DEFINE e == [expense EXCEPT !.asset = "returned"]
<1>1. expense \in History!Expense /\ expense # History!None
  BY DEF HistoryInv, History!TypeOK, History!ReturnFixedAsset
<1>2. e \in History!Expense /\ e.asset = "returned" /\ e.createdAt = expense.createdAt
  BY <1>1 DEF History!Expense
<1>3. /\ expense' = e /\ UNCHANGED <<inbound, outbound, today, closing>>
  BY DEF History!ReturnFixedAsset, History!Move
<1> HIDE DEF e
<1>4. e # History!None
  BY <1>2, NoneApart
<1> QED
  BY <1>1, <1>2, <1>3, <1>4, UnknownCharts DEF InDay, OutDay, SpentDay,
     History!OnlyReceiptsAndExpenses

LEMMA ImportCharts ==
  ASSUME HistoryInv, HistoryInv', ChartInv, NEW n \in History!Quantity, History!Import(n)
  PROVE  ChartInv'
<1>1. imported' # 0 /\ UNCHANGED <<inbound, outbound, expense, today, closing>>
  BY QuantityIsNat DEF History!Import, History!Move, HistoryInv, History!TypeOK
<1> QED
  BY <1>1, UnknownCharts DEF InDay, OutDay, SpentDay, History!OnlyReceiptsAndExpenses

LEMMA StocktakeCharts ==
  ASSUME HistoryInv, HistoryInv', ChartInv,
         \/ \E n \in History!Quantity : History!CreateStocktake(n)
         \/ stocktake # History!None /\ \E n \in History!Quantity : History!Adjust(n)
         \/ stocktake # History!None /\ History!CompleteStocktake
  PROVE  ChartInv'
<1>1. UNCHANGED <<inbound, outbound, expense, today, closing>>
  BY DEF History!CreateStocktake, History!Adjust, History!CompleteStocktake
<1>2. stocktake' # History!None
  <2>1. CASE \E n \in History!Quantity : History!CreateStocktake(n)
    BY <2>1 DEF History!CreateStocktake, History!None
  <2>2. CASE stocktake # History!None /\ \E n \in History!Quantity : History!Adjust(n)
    <3>1. stocktake \in History!Stocktake
      BY <2>2 DEF HistoryInv, History!TypeOK
    <3>2. PICK n \in History!Quantity : \/ stocktake' = [stocktake EXCEPT !.excessDeductQuantity = n]
                                        \/ stocktake' = [stocktake EXCEPT !.shortageAddQuantity = n]
      BY <2>2 DEF History!Adjust
    <3>3. stocktake' \in History!Stocktake
      BY <3>1, <3>2 DEF History!Stocktake
    <3> QED
      BY <3>3, NoneApart
  <2>3. CASE stocktake # History!None /\ History!CompleteStocktake
    <3>1. stocktake \in History!Stocktake
      BY <2>3 DEF HistoryInv, History!TypeOK
    <3>2. stocktake' \in History!Stocktake
      BY <2>3, <3>1 DEF History!CompleteStocktake, History!Stocktake
    <3> QED
      BY <3>2, NoneApart
  <2> QED
    BY <2>1, <2>2, <2>3
<1> QED
  BY <1>1, <1>2, UnknownCharts DEF InDay, OutDay, SpentDay, History!OnlyReceiptsAndExpenses

LEMMA DiscardCharts ==
  ASSUME HistoryInv, HistoryInv', ChartInv, History!DiscardFixedAsset
  PROVE  ChartInv'
<1> DEFINE e == [expense EXCEPT !.asset = "discarded"]
<1>1. expense \in History!Expense /\ expense # History!None /\ expense.asset = "active" /\ stock \in Int
  BY HistoryParts DEF HistoryInv, History!TypeOK, History!DiscardFixedAsset
<1>2. /\ e \in History!Expense /\ e.createdAt = expense.createdAt /\ e.status = expense.status
      /\ e.quantity = expense.quantity
  BY <1>1 DEF History!Expense
<1>3. /\ expense' = e
      /\ UNCHANGED <<stock, inbound, outbound, imported, stocktake, today, closing,
                     counted, deletedInUse, belated>>
  BY DEF History!DiscardFixedAsset
<1> HIDE DEF e
<1>4. e # History!None
  BY <1>2, NoneApart
<1>5. /\ InDay' = InDay /\ OutDay' = OutDay /\ SpentDay' = SpentDay
      /\ History!PurchaseReceiptOrTransferIn' = History!PurchaseReceiptOrTransferIn
      /\ History!TransferOut' = History!TransferOut /\ History!ExpenseMade' = History!ExpenseMade
  BY <1>1, <1>2, <1>3, <1>4
  DEF InDay, OutDay, SpentDay, History!PurchaseReceiptOrTransferIn, History!TransferOut, History!ExpenseMade
<1>6. History!OnlyReceiptsAndExpenses' => History!OnlyReceiptsAndExpenses
  BY <1>1, <1>3, <1>4 DEF History!OnlyReceiptsAndExpenses
<1>7. \A d \in 0 .. today : BalanceOn(d)' = BalanceOn(d) /\ BalanceOn(d) \in Int
  BY <1>5, BalanceIsInt DEF BalanceOn, By
<1>8. \A d \in 0 .. today : BalanceOn(d)' = BalanceOn(d) + (IF d = today THEN stock' - stock ELSE 0)
  BY <1>1, <1>3, <1>7
<1> QED
  BY <1>3, <1>5, <1>6, <1>8, ChartStep DEF ChartInv

LEMMA NextDayCharts ==
  ASSUME HistoryInv, HistoryInv', ChartInv, History!NextDay
  PROVE  ChartInv'
<1>1. /\ today' = today + 1
      /\ closing' = [d \in 1 .. today |-> IF d = today THEN stock ELSE closing[d]]
      /\ UNCHANGED <<stock, inbound, outbound, expense, imported, stocktake, counted,
                     deletedInUse, belated>>
  BY DEF History!NextDay
<1>2. /\ InDay' = InDay /\ OutDay' = OutDay /\ SpentDay' = SpentDay
      /\ History!PurchaseReceiptOrTransferIn' = History!PurchaseReceiptOrTransferIn
      /\ History!TransferOut' = History!TransferOut /\ History!ExpenseMade' = History!ExpenseMade
      /\ History!OnlyReceiptsAndExpenses' = History!OnlyReceiptsAndExpenses
  BY <1>1
  DEF InDay, OutDay, SpentDay, History!PurchaseReceiptOrTransferIn, History!TransferOut, History!ExpenseMade,
      History!OnlyReceiptsAndExpenses
<1>3. today \in Nat /\ today > 0 /\ InDay \in Nat /\ OutDay \in Nat /\ SpentDay \in Nat
  BY ChartParts
<1>4. ASSUME History!OnlyReceiptsAndExpenses, NEW d \in 0 .. today + 1
      PROVE  History!AtEnd(d)' = BalanceOn(d)'
  <2>1. BalanceOn(d)' = BalanceOn(d)
    BY <1>2 DEF BalanceOn, By
  <2>2. CASE d \in 0 .. today
    <3>1. History!AtEnd(d)' = History!AtEnd(d)
      BY <1>1, <1>3, <2>2 DEF History!AtEnd
    <3> QED
      BY <1>4, <2>1, <2>2, <3>1 DEF ChartInv
  <2>3. CASE d = today + 1
    <3>1. History!AtEnd(d)' = stock /\ History!AtEnd(today) = stock
      BY <1>1, <1>3, <2>3 DEF History!AtEnd
    <3>2. BalanceOn(d) = BalanceOn(today)
      BY <1>3, <2>3 DEF BalanceOn, By, ChartInv
    <3>3. History!AtEnd(today) = BalanceOn(today)
      BY <1>3, <1>4 DEF ChartInv
    <3> QED
      BY <2>1, <3>1, <3>2, <3>3
  <2> QED
    BY <1>3, <2>2, <2>3
<1>5. InDay' <= today' /\ OutDay' <= today' /\ SpentDay' <= today'
  BY <1>1, <1>2, <1>3 DEF ChartInv
<1> QED
  BY <1>1, <1>2, <1>4, <1>5 DEF ChartInv

LEMMA ChartNext ==
  ASSUME HistoryInv, ChartInv, [History!Next]_(History!vars)
  PROVE  ChartInv'
<1>1. HistoryInv'
  BY HistoryNext
<1>2. CASE UNCHANGED History!vars
  BY <1>2 DEF History!vars, ChartInv, InDay, OutDay, SpentDay, History!OnlyReceiptsAndExpenses,
              History!AtEnd, BalanceOn, By,
              History!PurchaseReceiptOrTransferIn, History!TransferOut, History!ExpenseMade
<1> QED
  BY <1>1, <1>2, SendHereCharts, CreateTransferCharts, CreateExpenseCharts, ImportCharts,
     StocktakeCharts, ReceiveCharts, ReceiveThereCharts, CancelTransferCharts,
     DeleteExpenseCharts, ReturnCharts, DiscardCharts, NextDayCharts
  DEF History!Next

-----------------------------------------------------------------------------
(* The sums of the charts. *)

\* Each of the three accounts counts on one day.
LEMMA OnOneDay ==
  ASSUME HistoryInv, NEW d \in History!Days
  PROVE  /\ History!ReceivedOn[d] = IF d = InDay THEN History!PurchaseReceiptOrTransferIn ELSE 0
         /\ History!DispatchedOutOn[d] = IF d = OutDay THEN History!TransferOut ELSE 0
         /\ History!ExpensedOn[d] = IF d = SpentDay THEN History!ExpenseMade ELSE 0
         /\ History!OutgoingOn[d] = History!DispatchedOutOn[d] + History!ExpensedOn[d]
         /\ History!ReceivedOn[d] \in Int /\ History!DispatchedOutOn[d] \in Int /\ History!ExpensedOn[d] \in Int
<1>1. d # 0
  BY HistoryAssumed DEF History!Days, History!HistoryBoundsAssumption
<1>2. History!ReceivedOn[d] = IF d = InDay THEN History!PurchaseReceiptOrTransferIn ELSE 0
  BY <1>1 DEF History!ReceivedOn, InDay
<1>3. History!DispatchedOutOn[d] = IF d = OutDay THEN History!TransferOut ELSE 0
  BY <1>1 DEF History!DispatchedOutOn, OutDay, History!TransferOut
<1>4. History!ExpensedOn[d] = IF d = SpentDay THEN History!ExpenseMade ELSE 0
  BY <1>1, NoneApart DEF History!ExpensedOn, SpentDay, History!ExpenseMade
<1>5. History!OutgoingOn[d] = History!DispatchedOutOn[d] + History!ExpensedOn[d]
  BY DEF History!OutgoingOn
<1> QED
  BY <1>2, <1>3, <1>4, <1>5, ChartParts

\* What they add up to between two days.
LEMMA SumsOfDays ==
  ASSUME HistoryInv, NEW a \in 1 .. today, NEW b \in a - 1 .. today
  PROVE  /\ SumFunctionOnSet(History!ReceivedOn, a .. b)
              = By(InDay, History!PurchaseReceiptOrTransferIn, b)
                  - By(InDay, History!PurchaseReceiptOrTransferIn, a - 1)
         /\ SumFunctionOnSet(History!DispatchedOutOn, a .. b)
              = By(OutDay, History!TransferOut, b) - By(OutDay, History!TransferOut, a - 1)
         /\ SumFunctionOnSet(History!ExpensedOn, a .. b)
              = By(SpentDay, History!ExpenseMade, b) - By(SpentDay, History!ExpenseMade, a - 1)
<1>1. a \in Int /\ b \in Int /\ a - 1 <= b /\ a .. b \subseteq History!Days
  BY ChartParts, HistoryAssumed DEF HistoryInv, History!TypeOK, History!Days,
                                    History!HistoryBoundsAssumption
<1>2. /\ InDay \in Int /\ OutDay \in Int /\ SpentDay \in Int
      /\ History!PurchaseReceiptOrTransferIn \in Int /\ History!TransferOut \in Int /\ History!ExpenseMade \in Int
  BY ChartParts
<1>3. \A d \in a .. b :
        /\ History!ReceivedOn[d] = IF d = InDay THEN History!PurchaseReceiptOrTransferIn ELSE 0
        /\ History!DispatchedOutOn[d] = IF d = OutDay THEN History!TransferOut ELSE 0
        /\ History!ExpensedOn[d] = IF d = SpentDay THEN History!ExpenseMade ELSE 0
  BY <1>1, OnOneDay
<1>4. SumFunctionOnSet(History!ReceivedOn, a .. b)
        = By(InDay, History!PurchaseReceiptOrTransferIn, b) - By(InDay, History!PurchaseReceiptOrTransferIn, a - 1)
  BY <1>1, <1>2, <1>3, SumOfDay
<1>5. SumFunctionOnSet(History!DispatchedOutOn, a .. b)
        = By(OutDay, History!TransferOut, b) - By(OutDay, History!TransferOut, a - 1)
  BY <1>1, <1>2, <1>3, SumOfDay
<1>6. SumFunctionOnSet(History!ExpensedOn, a .. b)
        = By(SpentDay, History!ExpenseMade, b) - By(SpentDay, History!ExpenseMade, a - 1)
  BY <1>1, <1>2, <1>3, SumOfDay
<1> QED
  BY <1>4, <1>5, <1>6

\* What goes out is what was dispatched and what was spent.
LEMMA SumOfOutgoing ==
  ASSUME HistoryInv, NEW a \in 1 .. today, NEW b \in a - 1 .. today
  PROVE  /\ SumFunctionOnSet(History!OutgoingOn, a .. b)
              = SumFunctionOnSet(History!DispatchedOutOn, a .. b) + SumFunctionOnSet(History!ExpensedOn, a .. b)
         /\ SumFunctionOnSet(History!ReceivedOn, a .. b)
              = SumFunctionOnSet([e \in History!Days |-> History!ReceivedOn[e] - History!ExpensedOn[e]], a .. b)
                  + SumFunctionOnSet(History!ExpensedOn, a .. b)
         /\ SumFunctionOnSet([e \in History!Days |-> History!ReceivedOn[e] - History!ExpensedOn[e]], a .. b) \in Int
<1> DEFINE S == a .. b
           left == [e \in History!Days |-> History!ReceivedOn[e] - History!ExpensedOn[e]]
<1>1. IsFiniteSet(S) /\ S \subseteq History!Days
  <2>1. a \in Int /\ b \in Int /\ S \subseteq History!Days
    BY ChartParts, HistoryAssumed DEF HistoryInv, History!TypeOK, History!Days,
                                      History!HistoryBoundsAssumption
  <2> QED
    BY <2>1, FS_Interval
<1>2. \A d \in S : left[d] = History!ReceivedOn[d] - History!ExpensedOn[d]
  BY <1>1
<1> HIDE DEF S, left
<1>3. \A d \in S : /\ History!DispatchedOutOn[d] \in Int /\ History!ExpensedOn[d] \in Int
                   /\ History!OutgoingOn[d] = History!DispatchedOutOn[d] + History!ExpensedOn[d]
                   /\ left[d] \in Int /\ History!ReceivedOn[d] = left[d] + History!ExpensedOn[d]
  <2>1. \A d \in S : /\ History!ReceivedOn[d] \in Int /\ History!DispatchedOutOn[d] \in Int /\ History!ExpensedOn[d] \in Int
                     /\ History!OutgoingOn[d] = History!DispatchedOutOn[d] + History!ExpensedOn[d]
    BY <1>1, OnOneDay
  <2> QED
    BY <1>2, <2>1
<1>4. SumFunctionOnSet(History!OutgoingOn, S)
        = SumFunctionOnSet(History!DispatchedOutOn, S) + SumFunctionOnSet(History!ExpensedOn, S)
  BY <1>1, <1>3, SumPlus
<1>5. SumFunctionOnSet(History!ReceivedOn, S) = SumFunctionOnSet(left, S) + SumFunctionOnSet(History!ExpensedOn, S)
  BY <1>1, <1>3, SumPlus
<1>6. SumFunctionOnSet(left, S) \in Int
  BY <1>1, <1>3, SumIsInt
<1> QED
  BY <1>4, <1>5, <1>6 DEF S, left

\* Nothing happened before the first day.
LEMMA NothingAtFirst ==
  ASSUME HistoryInv
  PROVE  /\ By(InDay, History!PurchaseReceiptOrTransferIn, 0) = 0
         /\ By(OutDay, History!TransferOut, 0) = 0
         /\ By(SpentDay, History!ExpenseMade, 0) = 0
BY ChartParts DEF By

LEMMA BalanceBefore ==
  ASSUME HistoryInv, NEW from \in 1 .. today
  PROVE  History!NetBalanceBefore(from) = BalanceOn(from - 1)
<1>1. 1 \in 1 .. today /\ from - 1 \in 1 - 1 .. today /\ 1 - 1 = 0 /\ from - 1 \in Int
  BY ChartParts
<1>2. /\ SumFunctionOnSet(History!ReceivedOn, 1 .. from - 1)
           = By(InDay, History!PurchaseReceiptOrTransferIn, from - 1) - 0
      /\ SumFunctionOnSet(History!DispatchedOutOn, 1 .. from - 1) = By(OutDay, History!TransferOut, from - 1) - 0
      /\ SumFunctionOnSet(History!ExpensedOn, 1 .. from - 1) = By(SpentDay, History!ExpenseMade, from - 1) - 0
  BY <1>1, SumsOfDays, NothingAtFirst
<1>3. /\ By(InDay, History!PurchaseReceiptOrTransferIn, from - 1) \in Int
      /\ By(OutDay, History!TransferOut, from - 1) \in Int
      /\ By(SpentDay, History!ExpenseMade, from - 1) \in Int
  BY <1>1, BalanceIsInt
<1> QED
  BY <1>2, <1>3, HistorySums DEF History!NetBalanceBefore, BalanceOn

\* The balance of a day is the one before it and what moved that day.
LEMMA BalanceOfDay ==
  ASSUME HistoryInv, NEW d \in 1 .. today
  PROVE  BalanceOn(d) = BalanceOn(d - 1) + History!ReceivedOn[d] - History!OutgoingOn[d]
<1>1. d \in History!Days /\ d \in Nat /\ d - 1 \in Int
  BY ChartParts, HistoryAssumed DEF HistoryInv, History!TypeOK, History!Days,
                                    History!HistoryBoundsAssumption
<1>2. /\ History!ReceivedOn[d] = IF d = InDay THEN History!PurchaseReceiptOrTransferIn ELSE 0
      /\ History!OutgoingOn[d] = (IF d = OutDay THEN History!TransferOut ELSE 0)
                                   + (IF d = SpentDay THEN History!ExpenseMade ELSE 0)
  BY <1>1, OnOneDay
<1>3. \A day \in Nat, n \in Int : By(day, n, d) = By(day, n, d - 1) + (IF d = day THEN n ELSE 0)
  BY <1>1 DEF By
<1>4. /\ By(InDay, History!PurchaseReceiptOrTransferIn, d)
           = By(InDay, History!PurchaseReceiptOrTransferIn, d - 1)
               + (IF d = InDay THEN History!PurchaseReceiptOrTransferIn ELSE 0)
      /\ By(OutDay, History!TransferOut, d)
           = By(OutDay, History!TransferOut, d - 1) + (IF d = OutDay THEN History!TransferOut ELSE 0)
      /\ By(SpentDay, History!ExpenseMade, d)
           = By(SpentDay, History!ExpenseMade, d - 1) + (IF d = SpentDay THEN History!ExpenseMade ELSE 0)
  BY <1>3, ChartParts
<1>5. /\ By(InDay, History!PurchaseReceiptOrTransferIn, d - 1) \in Int
      /\ By(OutDay, History!TransferOut, d - 1) \in Int
      /\ By(SpentDay, History!ExpenseMade, d - 1) \in Int
  BY <1>1, BalanceIsInt
<1>6. /\ (IF d = InDay THEN History!PurchaseReceiptOrTransferIn ELSE 0) \in Int
      /\ (IF d = OutDay THEN History!TransferOut ELSE 0) \in Int
      /\ (IF d = SpentDay THEN History!ExpenseMade ELSE 0) \in Int
  BY ChartParts
<1> QED
  BY <1>2, <1>4, <1>5, <1>6 DEF BalanceOn

\* A function that runs through the days of the chart as the code does.
Runs(r, from) ==
  r = [d \in from - 1 .. today |->
         IF d < from THEN History!NetBalanceBefore(from)
         ELSE r[d - 1] + History!ReceivedOn[d] - History!OutgoingOn[d]]

\* The running balance of the chart is the balance of the day.
LEMMA DailyPointsAre ==
  ASSUME HistoryInv, NEW from \in 1 .. today, NEW e \in from - 1 .. today
  PROVE  History!DailyPoints(from)[e] = BalanceOn(e)
<1> DEFINE b == [d \in from - 1 .. today |-> BalanceOn(d)]
           r == History!DailyPoints(from)
           c == [d \in from - 1 .. today |->
                   IF d < from THEN History!NetBalanceBefore(from)
                   ELSE b[d - 1] + History!ReceivedOn[d] - History!OutgoingOn[d]]
<1>1. from \in Nat /\ today \in Nat /\ from > 0 /\ from <= today
  BY ChartParts
<1>2. ASSUME NEW d \in from - 1 .. today  PROVE b[d] = c[d]
  <2>1. CASE d < from
    <3>1. d = from - 1
      BY <1>1, <2>1
    <3>2. b[d] = BalanceOn(from - 1) /\ c[d] = History!NetBalanceBefore(from)
      BY <2>1, <3>1
    <3> QED
      BY <3>2, BalanceBefore
  <2>2. CASE ~ (d < from)
    <3>1. d \in 1 .. today /\ d - 1 \in from - 1 .. today
      BY <1>1, <2>2
    <3>2. b[d] = BalanceOn(d) /\ c[d] = BalanceOn(d - 1) + History!ReceivedOn[d] - History!OutgoingOn[d]
      BY <2>2, <3>1
    <3> QED
      BY <3>1, <3>2, BalanceOfDay
  <2> QED
    BY <2>1, <2>2
<1>3. b = c
  BY <1>2
<1>4. Runs(b, from)
  BY <1>3 DEF Runs
<1>5. Runs(r, from)
  <2>1. r = CHOOSE f : Runs(f, from)
    BY DEF History!DailyPoints, Runs
  <2> HIDE DEF r, b
  <2> QED
    BY <1>4, <2>1
<1> HIDE DEF r
<1>6. \A d \in from - 1 .. today :
        r[d] = IF d < from THEN History!NetBalanceBefore(from) ELSE r[d - 1] + History!ReceivedOn[d] - History!OutgoingOn[d]
  <2> DEFINE q == [d \in from - 1 .. today |->
                     IF d < from THEN History!NetBalanceBefore(from)
                     ELSE r[d - 1] + History!ReceivedOn[d] - History!OutgoingOn[d]]
  <2>1. r = q
    BY <1>5 DEF Runs
  <2>2. \A d \in from - 1 .. today :
          q[d] = IF d < from THEN History!NetBalanceBefore(from) ELSE r[d - 1] + History!ReceivedOn[d] - History!OutgoingOn[d]
    OBVIOUS
  <2> HIDE DEF q
  <2> QED
    BY <2>1, <2>2
<1> DEFINE n == today - (from - 1)
           T == {k \in 0 .. n : r[from - 1 + k] = BalanceOn(from - 1 + k)}
<1>7. n \in Nat /\ T \in SUBSET (0 .. n)
  BY <1>1
<1>8. 0 \in T
  <2>1. from - 1 \in from - 1 .. today /\ from - 1 < from /\ from - 1 + 0 = from - 1 /\ 0 \in 0 .. n
    BY <1>1
  <2>2. r[from - 1] = History!NetBalanceBefore(from)
    BY <1>6, <2>1
  <2>3. r[from - 1] = BalanceOn(from - 1)
    BY <2>2, BalanceBefore
  <2> QED
    BY <2>1, <2>3
<1>9. ASSUME NEW k \in 0 .. n, k \in T, k < n  PROVE k + 1 \in T
  <2> DEFINE d == from - 1 + (k + 1)
  <2>1. /\ d \in from - 1 .. today /\ ~ (d < from) /\ d \in 1 .. today
        /\ d - 1 = from - 1 + k /\ k + 1 \in 0 .. n
    BY <1>1, <1>9
  <2>2. r[d - 1] = BalanceOn(d - 1)
    BY <1>9, <2>1
  <2>3. SUFFICES r[d] = BalanceOn(d)
    BY <2>1
  <2> HIDE DEF d
  <2>4. r[d] = r[d - 1] + History!ReceivedOn[d] - History!OutgoingOn[d]
    BY <1>6, <2>1
  <2>5. BalanceOn(d) = BalanceOn(d - 1) + History!ReceivedOn[d] - History!OutgoingOn[d]
    BY <2>1, BalanceOfDay
  <2> QED
    BY <2>2, <2>4, <2>5
<1>10. T = 0 .. n
  <2> HIDE DEF T, n
  <2> QED
    BY <1>7, <1>8, <1>9, UpTo
<1>11. e - (from - 1) \in 0 .. n /\ from - 1 + (e - (from - 1)) = e
  BY <1>1
<1>12. e - (from - 1) \in T
  <2> HIDE DEF T
  <2> QED
    BY <1>10, <1>11
<1>13. r[e] = BalanceOn(e)
  BY <1>11, <1>12
<1> QED
  BY <1>13 DEF r

\* A bar of the chart accounts for the change of the balance.
LEMMA BarsAre ==
  ASSUME HistoryInv, NEW from \in 1 .. today, NEW d \in from .. today, NEW last \in d .. MaxDay,
         NEW end, end = IF last > today THEN today ELSE last
  PROVE  /\ end \in d .. today
         /\ History!Bucket(from, d, last).balance = BalanceOn(end)
         /\ BalanceOn(d - 1) + History!Bucket(from, d, last).received - History!Bucket(from, d, last).outgoing
              = BalanceOn(end)
<1>1. today \in Nat /\ d \in 1 .. today /\ MaxDay \in Nat
  BY ChartParts, HistoryAssumed DEF History!HistoryBoundsAssumption
<1>2. end \in d .. today /\ end \in d - 1 .. today /\ end \in from - 1 .. today
      /\ end \in Int /\ d - 1 \in Int
  BY <1>1
<1>3. /\ History!Bucket(from, d, last).received = SumFunctionOnSet(History!ReceivedOn, d .. end)
      /\ History!Bucket(from, d, last).outgoing = SumFunctionOnSet(History!OutgoingOn, d .. end)
      /\ History!Bucket(from, d, last).balance = History!DailyPoints(from)[end]
  BY HistorySums DEF History!Bucket
<1>4. History!DailyPoints(from)[end] = BalanceOn(end)
  BY <1>2, DailyPointsAre
<1>5. /\ SumFunctionOnSet(History!ReceivedOn, d .. end)
           = By(InDay, History!PurchaseReceiptOrTransferIn, end)
               - By(InDay, History!PurchaseReceiptOrTransferIn, d - 1)
      /\ SumFunctionOnSet(History!OutgoingOn, d .. end)
           = (By(OutDay, History!TransferOut, end) - By(OutDay, History!TransferOut, d - 1))
               + (By(SpentDay, History!ExpenseMade, end) - By(SpentDay, History!ExpenseMade, d - 1))
  BY <1>1, <1>2, SumsOfDays, SumOfOutgoing
<1>6. /\ By(InDay, History!PurchaseReceiptOrTransferIn, end) \in Int
      /\ By(OutDay, History!TransferOut, end) \in Int /\ By(SpentDay, History!ExpenseMade, end) \in Int
      /\ By(InDay, History!PurchaseReceiptOrTransferIn, d - 1) \in Int
      /\ By(OutDay, History!TransferOut, d - 1) \in Int /\ By(SpentDay, History!ExpenseMade, d - 1) \in Int
  BY <1>2, BalanceIsInt
<1>7. BalanceOn(d - 1) + SumFunctionOnSet(History!ReceivedOn, d .. end) - SumFunctionOnSet(History!OutgoingOn, d .. end)
        = BalanceOn(end)
  BY <1>5, <1>6 DEF BalanceOn
<1> QED
  BY <1>2, <1>3, <1>4, <1>7

\* The charts of the dashboard, without transfers.
LEMMA DashboardIs ==
  ASSUME HistoryInv, NEW from \in 1 .. today, NEW d \in from .. today, outbound = History!None
  PROVE  /\ History!DailyMaxQuantity(from, d) = BalanceOn(d)
         /\ expense = History!None /\ BalanceOn(from - 1) = 0 => History!MonthlyMaxQuantity(from, d) = BalanceOn(d)
<1> DEFINE Had(e) == By(InDay, History!PurchaseReceiptOrTransferIn, e)
           Spent(e) == By(SpentDay, History!ExpenseMade, e)
           left == [e \in History!Days |-> History!ReceivedOn[e] - History!ExpensedOn[e]]
<1>1. /\ 1 \in 1 .. today /\ from - 1 \in 1 - 1 .. today /\ 1 - 1 = 0
      /\ d \in from - 1 .. today /\ d \in Int /\ from - 1 \in Int
  BY ChartParts
<1>2. /\ SumFunctionOnSet(History!ReceivedOn, 1 .. from - 1) = Had(from - 1) - 0
      /\ SumFunctionOnSet(History!ExpensedOn, 1 .. from - 1) = Spent(from - 1) - 0
  BY <1>1, SumsOfDays, NothingAtFirst
<1>3. /\ SumFunctionOnSet(History!ReceivedOn, from .. d) = Had(d) - Had(from - 1)
      /\ SumFunctionOnSet(History!ExpensedOn, from .. d) = Spent(d) - Spent(from - 1)
  BY <1>1, SumsOfDays
<1>4. /\ SumFunctionOnSet(History!ReceivedOn, from .. d)
           = SumFunctionOnSet(left, from .. d) + SumFunctionOnSet(History!ExpensedOn, from .. d)
      /\ SumFunctionOnSet(left, from .. d) \in Int
  BY <1>1, SumOfOutgoing
<1>5. Had(d) \in Int /\ Had(from - 1) \in Int /\ Spent(d) \in Int /\ Spent(from - 1) \in Int
  BY <1>1, BalanceIsInt
<1>6. \A e : By(OutDay, History!TransferOut, e) = 0
  BY DEF History!TransferOut, By
<1>7. BalanceOn(d) = Had(d) - 0 - Spent(d) /\ BalanceOn(from - 1) = Had(from - 1) - 0 - Spent(from - 1)
  BY <1>6 DEF BalanceOn
<1>8. History!DailyMaxQuantity(from, d)
        = SumFunctionOnSet(History!ReceivedOn, 1 .. from - 1) - SumFunctionOnSet(History!ExpensedOn, 1 .. from - 1)
            + SumFunctionOnSet(left, from .. d)
  BY HistorySums DEF History!DailyMaxQuantity
<1>9. expense = History!None => \A e : Spent(e) = 0
  BY NoneApart DEF History!ExpenseMade, By
<1> HIDE DEF left, Had, Spent
<1>10. History!DailyMaxQuantity(from, d) = BalanceOn(d)
  <2>1. \A h1, h2, s1, s2, l \in Int :
          h2 - h1 = l + (s2 - s1) => (h1 - 0) - (s1 - 0) + l = h2 - 0 - s2
    OBVIOUS
  <2>2. Had(d) - Had(from - 1) = SumFunctionOnSet(left, from .. d) + (Spent(d) - Spent(from - 1))
    BY <1>3, <1>4
  <2>3. (Had(from - 1) - 0) - (Spent(from - 1) - 0) + SumFunctionOnSet(left, from .. d)
          = Had(d) - 0 - Spent(d)
    BY <1>4, <1>5, <2>1, <2>2
  <2> QED
    BY <1>2, <1>7, <1>8, <2>3
<1>11. ASSUME expense = History!None, BalanceOn(from - 1) = 0  PROVE History!MonthlyMaxQuantity(from, d) = BalanceOn(d)
  <2>1. Spent(d) = 0 /\ Spent(from - 1) = 0
    BY <1>9, <1>11
  <2>2. History!MonthlyMaxQuantity(from, d) = Had(d) - Had(from - 1)
    BY <1>3, HistorySums DEF History!MonthlyMaxQuantity
  <2> QED
    BY <1>5, <1>7, <1>11, <2>1, <2>2
<1> QED
  BY <1>10, <1>11

LEMMA ChartsAre ==
  ASSUME HistoryInv, ChartInv
  PROVE  History!ChartsShowTheStock
<1> SUFFICES ASSUME History!OnlyReceiptsAndExpenses, NEW from \in 1 .. today, NEW d \in from .. today
             PROVE  /\ History!DailyPoints(from)[d] = History!AtEnd(d)
                    /\ \A last \in d .. MaxDay :
                         LET bar == History!Bucket(from, d, last)
                         IN  /\ bar.balance = History!AtEnd(IF last > today THEN today ELSE last)
                             /\ History!AtEnd(d - 1) + bar.received - bar.outgoing = bar.balance
                    /\ outbound = History!None => History!DailyMaxQuantity(from, d) = History!AtEnd(d)
                    /\ outbound = History!None /\ expense = History!None /\ History!AtEnd(from - 1) = 0 =>
                         History!MonthlyMaxQuantity(from, d) = History!AtEnd(d)
  BY DEF History!ChartsShowTheStock
<1>1. \A e \in 0 .. today : History!AtEnd(e) = BalanceOn(e)
  BY DEF ChartInv
<1>2. today \in Nat /\ d \in from - 1 .. today /\ d \in 0 .. today /\ d - 1 \in 0 .. today
      /\ from - 1 \in 0 .. today
  BY ChartParts
<1>3. History!DailyPoints(from)[d] = History!AtEnd(d)
  BY <1>1, <1>2, DailyPointsAre
<1>4. ASSUME NEW last \in d .. MaxDay
      PROVE  /\ History!Bucket(from, d, last).balance = History!AtEnd(IF last > today THEN today ELSE last)
             /\ History!AtEnd(d - 1) + History!Bucket(from, d, last).received - History!Bucket(from, d, last).outgoing
                  = History!Bucket(from, d, last).balance
  <2> DEFINE end == IF last > today THEN today ELSE last
  <2>1. end \in d .. today /\ History!Bucket(from, d, last).balance = BalanceOn(end)
        /\ BalanceOn(d - 1) + History!Bucket(from, d, last).received - History!Bucket(from, d, last).outgoing
             = BalanceOn(end)
    BY BarsAre
  <2> HIDE DEF end
  <2>2. end \in 0 .. today
    BY <1>2, <2>1
  <2>3. History!AtEnd(end) = BalanceOn(end) /\ History!AtEnd(d - 1) = BalanceOn(d - 1)
    BY <1>1, <1>2, <2>2
  <2>4. History!Bucket(from, d, last).balance = History!AtEnd(end)
    BY <2>1, <2>3
  <2>5. History!AtEnd(d - 1) + History!Bucket(from, d, last).received - History!Bucket(from, d, last).outgoing
          = History!Bucket(from, d, last).balance
    BY <2>1, <2>3
  <2> QED
    BY <2>4, <2>5 DEF end
<1>5. History!AtEnd(d) = BalanceOn(d) /\ History!AtEnd(from - 1) = BalanceOn(from - 1)
  BY <1>1, <1>2
<1>6. /\ outbound = History!None => History!DailyMaxQuantity(from, d) = History!AtEnd(d)
      /\ outbound = History!None /\ expense = History!None /\ History!AtEnd(from - 1) = 0 =>
           History!MonthlyMaxQuantity(from, d) = History!AtEnd(d)
  BY <1>5, DashboardIs
<1> QED
  BY <1>3, <1>4, <1>6


-----------------------------------------------------------------------------
(* DispatchInbox.                                                          *)

LEMMA InboxAssumed == Inbox!NoStructureAssumption /\ Inbox!AmountAssumption
BY WarehouseAssumption DEF WarehouseAssumption

\* The status of a dispatch is what its quantities say, unless it was cancelled.
StatusOf(d) ==
  /\ d.received + d.rejected <= d.sent
  /\ d.status # "CANCELLED" => d.status = Inbox!RecomputedStatus(d)
  /\ d.status = "CANCELLED" => d.kind = "transfer"

InboxInv == Inbox!TypeOK /\ (dispatch # Inbox!NoDispatch => StatusOf(dispatch))

-----------------------------------------------------------------------------
LEMMA NoDispatchApart == Inbox!NoDispatch \notin Inbox!Dispatch /\ Inbox!NoDispatch.status = "NONE"
BY DEF Inbox!NoDispatch, Inbox!Dispatch

LEMMA InboxInit == Inbox!Init => InboxInv
BY DEF Inbox!Init, InboxInv, Inbox!TypeOK

LEMMA CreateInbox ==
  ASSUME InboxInv, NEW kind \in {"purchase", "transfer"},
         NEW source \in Located \cup {NoStructure},
         NEW target \in Located, NEW byUser \in BOOLEAN, NEW n \in 1 .. Amount,
         Inbox!Create(kind, source, target, byUser, n)
  PROVE  InboxInv'
<1> DEFINE d == [kind |-> kind, source |-> source, target |-> target,
                 byUser |-> byUser, seen |-> FALSE, status |-> "PENDING_RECEIPT",
                 sent |-> n, received |-> 0, rejected |-> 0]
<1>1. d \in Inbox!Dispatch /\ StatusOf(d)
  BY InboxAssumed DEF Inbox!Dispatch, StatusOf, Inbox!RecomputedStatus, Inbox!AmountAssumption
<1>2. dispatch' = d /\ user' = user
  BY DEF Inbox!Create
<1> HIDE DEF d
<1> QED
  BY <1>1, <1>2 DEF InboxInv, Inbox!TypeOK

LEMMA FindInbox ==
  ASSUME InboxInv, Inbox!FindById
  PROVE  InboxInv'
<1>1. dispatch \in Inbox!Dispatch /\ StatusOf(dispatch)
  BY DEF Inbox!FindById, InboxInv, Inbox!TypeOK
<1> DEFINE d == [dispatch EXCEPT !.seen = TRUE]
<1>2. d \in Inbox!Dispatch /\ StatusOf(d)
  BY <1>1 DEF Inbox!Dispatch, StatusOf, Inbox!RecomputedStatus
<1>3. dispatch' = d /\ user' = user
  BY DEF Inbox!FindById
<1> HIDE DEF d
<1> QED
  BY <1>2, <1>3 DEF InboxInv, Inbox!TypeOK

LEMMA ReceiveInbox ==
  ASSUME InboxInv, NEW take \in 0 .. Amount, NEW refuse \in 0 .. Amount,
         Inbox!Receive(take, refuse)
  PROVE  InboxInv'
<1>1. dispatch \in Inbox!Dispatch /\ StatusOf(dispatch) /\ dispatch.status # "CANCELLED"
  BY NoDispatchApart DEF Inbox!Receive, InboxInv, Inbox!TypeOK
<1> DEFINE items == [dispatch EXCEPT !.received = @ + take, !.rejected = @ + refuse]
           status == Inbox!RecomputedStatus(items)
           d == [items EXCEPT !.status = status]
<1>2. /\ dispatch.sent \in 1 .. Amount /\ dispatch.received \in 0 .. Amount
      /\ dispatch.rejected \in 0 .. Amount /\ Amount \in Nat
      /\ take + refuse <= dispatch.sent - dispatch.received - dispatch.rejected
  BY <1>1, InboxAssumed DEF Inbox!Dispatch, Inbox!Receive, Inbox!Pending, Inbox!AmountAssumption
<1>3. /\ dispatch.received + take \in 0 .. Amount /\ dispatch.rejected + refuse \in 0 .. Amount
      /\ (dispatch.received + take) + (dispatch.rejected + refuse) <= dispatch.sent
  BY <1>2
<1>4. /\ items \in Inbox!Dispatch
      /\ items.received = dispatch.received + take /\ items.rejected = dispatch.rejected + refuse
      /\ items.sent = dispatch.sent
  BY <1>1, <1>3 DEF Inbox!Dispatch
<1>5. status \in {"PENDING_RECEIPT", "PARTIALLY_RECEIVED", "COMPLETED"}
  BY DEF Inbox!RecomputedStatus
<1> HIDE DEF items
<1>6. d \in Inbox!Dispatch /\ d.status = status /\ d.received = items.received
      /\ d.rejected = items.rejected /\ d.sent = items.sent
  BY <1>4, <1>5 DEF Inbox!Dispatch
<1>7. dispatch' = d /\ user' = user
  BY DEF Inbox!Receive, items
<1> HIDE DEF d
<1>8. StatusOf(d)
  BY <1>3, <1>4, <1>5, <1>6 DEF StatusOf, Inbox!RecomputedStatus
<1> QED
  BY <1>6, <1>7, <1>8 DEF InboxInv, Inbox!TypeOK

LEMMA CancelInbox ==
  ASSUME InboxInv, Inbox!Cancel
  PROVE  InboxInv'
<1>1. dispatch \in Inbox!Dispatch /\ StatusOf(dispatch) /\ dispatch.kind = "transfer"
  BY NoDispatchApart DEF Inbox!Cancel, InboxInv, Inbox!TypeOK
<1> DEFINE d == [dispatch EXCEPT !.status = "CANCELLED"]
<1>2. d \in Inbox!Dispatch /\ StatusOf(d)
  BY <1>1 DEF Inbox!Dispatch, StatusOf
<1>3. dispatch' = d /\ user' = user
  BY DEF Inbox!Cancel
<1> HIDE DEF d
<1> QED
  BY <1>2, <1>3 DEF InboxInv, Inbox!TypeOK

LEMMA InboxNext ==
  ASSUME InboxInv, [Inbox!Next]_(Inbox!vars)
  PROVE  InboxInv'
<1>1. CASE UNCHANGED Inbox!vars
  BY <1>1 DEF Inbox!vars, InboxInv, Inbox!TypeOK, StatusOf, Inbox!RecomputedStatus
<1>2. ASSUME NEW account \in Inbox!Account, Inbox!ChangeAccount(account)
      PROVE  InboxInv'
  BY <1>2 DEF Inbox!ChangeAccount, InboxInv, Inbox!TypeOK, StatusOf, Inbox!RecomputedStatus
<1> QED
  BY <1>1, <1>2, CreateInbox, FindInbox, ReceiveInbox, CancelInbox DEF Inbox!Next

LEMMA InboxTells ==
  ASSUME InboxInv
  PROVE  Inbox!InboxIsTrue
<1> SUFFICES ASSUME dispatch # Inbox!NoDispatch, user.isActive, user.structureId # NoStructure
             PROVE  /\ Inbox!InboxLists(dispatch.kind) => Inbox!MayView
                    /\ dispatch.kind \in user.receiptPages =>
                         (Inbox!MayReceive <=> Inbox!InboxLists(dispatch.kind) /\ Inbox!CanReceive)
                    /\ Inbox!CanCancel <=> Inbox!MayCancel
                    /\ Inbox!PendingCounts => Inbox!InboxLists("purchase") /\ Inbox!CanReceive
                    /\ Inbox!InboxLists(dispatch.kind) =>
                         Inbox!CalendarShows /\ (Inbox!ArrivalOverdue <=> Inbox!CanReceive)
                    /\ dispatch.status = "PENDING_RECEIPT" =>
                         (Inbox!Told <=> Inbox!InboxLists(dispatch.kind) /\ Inbox!MayReceive)
  BY DEF Inbox!InboxIsTrue
<1>1. dispatch \in Inbox!Dispatch /\ StatusOf(dispatch)
  BY DEF InboxInv, Inbox!TypeOK
<1>2. /\ dispatch.sent \in Nat /\ dispatch.received \in Nat /\ dispatch.rejected \in Nat
      /\ dispatch.status \in {"PENDING_RECEIPT", "PARTIALLY_RECEIVED", "COMPLETED", "CANCELLED"}
  BY <1>1 DEF Inbox!Dispatch
\* The status tells whether something is pending.
<1>3. /\ Inbox!Pending \in Int
      /\ dispatch.status \in {"PENDING_RECEIPT", "PARTIALLY_RECEIVED"} => Inbox!Pending > 0
      /\ dispatch.status = "COMPLETED" => Inbox!Pending <= 0
  BY <1>1, <1>2 DEF StatusOf, Inbox!RecomputedStatus, Inbox!Pending
<1>4. Inbox!InboxLists(dispatch.kind) => Inbox!MayView
  BY DEF Inbox!InboxLists, Inbox!MayView
<1>5. dispatch.kind \in user.receiptPages =>
        (Inbox!MayReceive <=> Inbox!InboxLists(dispatch.kind) /\ Inbox!CanReceive)
  BY <1>2, <1>3 DEF Inbox!MayReceive, Inbox!IsReceiver, Inbox!InboxLists, Inbox!CanReceive,
                    Inbox!Open
<1>6. Inbox!CanCancel <=> Inbox!MayCancel
  BY <1>3 DEF Inbox!CanCancel, Inbox!MayCancel, Inbox!IsSender
<1>7. Inbox!PendingCounts => Inbox!InboxLists("purchase") /\ Inbox!CanReceive
  BY <1>2, <1>3 DEF Inbox!PendingCounts, Inbox!InboxLists, Inbox!CanReceive, Inbox!Open
<1>8. Inbox!InboxLists(dispatch.kind) => Inbox!CalendarShows /\ (Inbox!ArrivalOverdue <=> Inbox!CanReceive)
  BY <1>2, <1>3 DEF Inbox!InboxLists, Inbox!CalendarShows, Inbox!ArrivalOverdue, Inbox!CanReceive,
                    Inbox!Open
<1>9. dispatch.status = "PENDING_RECEIPT" =>
        (Inbox!Told <=> Inbox!InboxLists(dispatch.kind) /\ Inbox!MayReceive)
  BY <1>3 DEF Inbox!Told, Inbox!HasActivePageAccess, Inbox!InboxLists, Inbox!MayReceive,
              Inbox!IsReceiver, Inbox!Open
<1> QED
  BY <1>4, <1>5, <1>6, <1>7, <1>8, <1>9


-----------------------------------------------------------------------------
(* The invariant of each part, which holds while that part moves.          *)

TransferPart == part = "transfer" => TransferInv /\ OrderlyInv
CountPart == part = "stocktake" => CountInv /\ OrderlyCount
IssuePart == part = "expense" => Issue!TypeOK /\ OrderlyIssue
HistoryPart == part = "history" => HistoryInv /\ ChartInv
InboxPart == part = "inbox" => InboxInv

PartsInv == TransferPart /\ CountPart /\ IssuePart /\ HistoryPart /\ InboxPart

LEMMA WarehouseInit == Init => PartsInv
<1> SUFFICES ASSUME Init  PROVE PartsInv  OBVIOUS
<1>1. TransferPart
  BY TransferInit, OrderlyInit DEF Init, TransferPart
<1>2. IssuePart
  BY IssueInit, OrderlyIssueInit DEF Init, IssuePart
<1>3. HistoryPart
  BY HistoryInit, ChartInit DEF Init, HistoryPart
<1>4. InboxPart
  BY InboxInit DEF Init, InboxPart
<1>5. CountPart
  BY CountInit, OrderlyCountInit DEF Init, CountPart
<1> QED
  BY <1>1, <1>2, <1>3, <1>4, <1>5 DEF PartsInv

-----------------------------------------------------------------------------
(* A step of Warehouse is a step of the part that moves. *)

LEMMA PartsMove ==
  ASSUME [Next]_vars
  PROVE  /\ part' = part
         /\ part = "transfer" => [Transfer!Next]_(Transfer!vars)
         /\ part = "stocktake" => [Count!Next]_(Count!vars)
         /\ part = "expense" => [Issue!Next]_(Issue!vars)
         /\ part = "history" => [History!Next]_(History!vars)
         /\ part = "inbox" => [Inbox!Next]_(Inbox!vars)
<1>1. CASE Next
  BY <1>1 DEF Next
<1>2. CASE UNCHANGED vars
  BY <1>2 DEF vars, transferVars, countVars, issueVars, historyVars, inboxVars,
              Transfer!vars, Count!vars, Issue!vars, History!vars, Inbox!vars
<1> QED
  BY <1>1, <1>2

LEMMA WarehouseNext == PartsInv /\ [Next]_vars => PartsInv'
<1> SUFFICES ASSUME PartsInv, [Next]_vars  PROVE PartsInv'  OBVIOUS
<1>1. TransferPart'
  <2>1. CASE part = "transfer"
    <3>1. TransferInv /\ OrderlyInv /\ [Transfer!Next]_(Transfer!vars)
      BY <2>1, PartsMove DEF PartsInv, TransferPart
    <3>2. TransferInv'
      BY <3>1, TransferNext
    <3>3. OrderlyInv'
      BY <3>1, <3>2, OrderlyNext
    <3> QED
      BY <3>2, <3>3 DEF TransferPart
  <2> QED
    BY <2>1, PartsMove DEF TransferPart
<1>2. IssuePart'
  <2>1. CASE part = "expense"
    <3>1. Issue!TypeOK /\ OrderlyIssue /\ [Issue!Next]_(Issue!vars)
      BY <2>1, PartsMove DEF PartsInv, IssuePart
    <3> QED
      BY <3>1, IssueType, OrderlyIssueNext DEF IssuePart
  <2> QED
    BY <2>1, PartsMove DEF IssuePart
<1>3. HistoryPart'
  BY PartsMove, HistoryNext, ChartNext DEF PartsInv, HistoryPart
<1>4. InboxPart'
  BY PartsMove, InboxNext DEF PartsInv, InboxPart
<1>5. CountPart'
  BY PartsMove, CountNext, OrderlyCountNext DEF PartsInv, CountPart
<1> QED
  BY <1>1, <1>2, <1>3, <1>4, <1>5 DEF PartsInv

-----------------------------------------------------------------------------
\* No part stores anything of another type: above all, no row of the stock falls
\* below zero, however many transfers, expenses and counts of the last piece
\* overlap (the $gte of createTransfer and createExpense, the $set of a count).
THEOREM StockIsNeverNegative == Spec => []TypeOK
<1>1. PartsInv => TypeOK
  BY DEF PartsInv, TransferPart, CountPart, IssuePart, InboxPart, TransferInv, CountInv, InboxInv,
         TypeOK
<1> QED
  BY <1>1, WarehouseInit, WarehouseNext, PTL DEF Spec

\* Goods only move: while handlers do not overlap and none goes wrong, what is in
\* stock, under way and with receivers adds up to what there was (createTransfer,
\* receive, cancelTransfer), for any structures, goods and number of transfers.
THEOREM GoodsAreConserved == Spec => []Conserved
<1>1. PartsInv => Conserved
  BY OrderlyConserves DEF PartsInv, TransferPart, Conserved
<1> QED
  BY <1>1, WarehouseInit, WarehouseNext, PTL DEF Spec

\* What a receiver has taken or sent back is never undone, and never more than
\* was sent, however the receipts of a dispatch overlap (receive of
\* WarehouseDispatchesService).
THEOREM ReceiptsKept == Spec => ReceiptsAreKept
<1>1. PartsInv /\ PartsInv' /\ [Next]_vars
        => [part = "transfer" => Transfer!KeepsReceipts]_vars
  <2> SUFFICES ASSUME PartsInv, PartsInv', Next, part = "transfer"
               PROVE  Transfer!KeepsReceipts
    OBVIOUS
  <2>1. TransferInv /\ TransferInv' /\ Transfer!Next
    BY DEF PartsInv, TransferPart, Next
  <2> QED
    BY <2>1, ReceiptsStep
<1> QED
  BY <1>1, WarehouseInit, WarehouseNext, PTL DEF Spec, ReceiptsAreKept

\* The quantity a stocktake records as deducted or added is what the stock was
\* changed by since the count, for one place or spread over all of them, as long
\* as handlers did not overlap and none was cut short; it never exceeds what the
\* count found, and the pages show exactly that (complete, applyExcessAdjustments,
\* toPublicLine and listForManagement of StocktakesService).
THEOREM CorrectionsReachTheStock == Spec => []RecordedIsApplied
<1>1. PartsInv => RecordedIsApplied
  BY CountIsRecorded DEF PartsInv, CountPart, RecordedIsApplied
<1> QED
  BY <1>1, WarehouseInit, WarehouseNext, PTL DEF Spec

\* What left the stock is in use, written off or back, and a listed fixed asset
\* has its expense, while handlers do not overlap and none stops (createExpense,
\* deleteExpenseByCode, returnFixedAssetToWarehouse, discardFixedAsset).
THEOREM ExpensesLoseNothing == Spec => []NothingLost
<1>1. PartsInv => NothingLost
  BY OrderlyLosesNothing DEF PartsInv, IssuePart, NothingLost
<1> QED
  BY <1>1, WarehouseInit, WarehouseNext, PTL DEF Spec

\* A fixed asset that was returned or written off stays so until handlers overlap.
THEOREM AssetEndKept == Spec => AssetEndIsFinal
<1>1. PartsInv /\ [Next]_vars
        => [part = "expense" /\ issuersOrderly' => Issue!KeepsAssetEnd]_vars
  <2> SUFFICES ASSUME PartsInv, Next, part = "expense", issuersOrderly'
               PROVE  Issue!KeepsAssetEnd
    OBVIOUS
  <2>1. Issue!TypeOK /\ OrderlyIssue /\ Issue!Next
    BY DEF PartsInv, IssuePart, Next
  <2> QED
    BY <2>1, AssetEndStep
<1> QED
  BY <1>1, WarehouseInit, WarehouseNext, PTL DEF Spec, AssetEndIsFinal

\* The events the history of a good shows add up to its stock, with the
\* exceptions HistoryAddsUp names (inventoryHistory of WarehouseService).
THEOREM HistoryIsComplete == Spec => []HistoryAddsUp
<1>1. PartsInv => HistoryAddsUp
  BY DEF PartsInv, HistoryPart, HistoryInv, HistoryAddsUp
<1> QED
  BY <1>1, WarehouseInit, WarehouseNext, PTL DEF Spec

\* While only receipts, transfers and expenses move the stock, its charts have it
\* at the end of every day, week and month, and each bar accounts for the change,
\* for any quantities and number of days (getStructureWarehouseAnalytics and
\* buildWarehouseAnalyticsPoints of WarehouseService, getDailyMaxInventory and
\* getMonthlyMaxInventory of DashboardService).
THEOREM ChartsAreTrue == Spec => []ChartsShowTheStock
<1>1. PartsInv => ChartsShowTheStock
  BY ChartsAre DEF PartsInv, HistoryPart, ChartsShowTheStock
<1> QED
  BY <1>1, WarehouseInit, WarehouseNext, PTL DEF Spec

\* The pages of a dispatch offer what its handlers accept, and every dispatch is
\* on the pages its parties are sent to (list, unread and receive of
\* WarehouseDispatchesService).
THEOREM InboxHolds == Spec => []InboxIsTrue
<1>1. PartsInv => InboxIsTrue
  BY InboxTells DEF PartsInv, InboxPart, InboxIsTrue
<1> QED
  BY <1>1, WarehouseInit, WarehouseNext, PTL DEF Spec

=============================================================================
