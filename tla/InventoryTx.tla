---------------------------- MODULE InventoryTx -----------------------------
(***************************************************************************)
(* inventory-rpc statement by statement: consumers of several instances    *)
(* run the transactions of InventoryService concurrently against InnoDB at *)
(* REPEATABLE READ (repository/inventory.go, svc/order_event_consumer.go,  *)
(* xevent/idempotent.go, xdb/retry.go).                                    *)
(*                                                                         *)
(* A transaction's writes are kept with the transaction until it commits:  *)
(* the rows are locked, so nobody can see them earlier. The tables are the *)
(* variables of InventoryService, and this module is shown to implement    *)
(* InvSpec on them.                                                        *)
(***************************************************************************)
EXTENDS InventoryService

CONSTANTS
  Workers,        \* consumer goroutines of all instances
  Inbox,          \* order-events: event_id -> event
  MaxAttempts,    \* RetryOptions.MaxAttempts (3 in the code)
  MaxTimeouts,    \* bound: lock waits that time out (1205)
  MaxCrashes      \* bound: crashes and lost connections

ASSUME InboxAssumption == Inbox \in [OrderEventIds -> OrderEvents]
ASSUME OrderIdsAssumption == Orders \subseteq Nat
ASSUME TxBoundsAssumption ==
  MaxAttempts \in Nat \ {0} /\ MaxTimeouts \in Nat /\ MaxCrashes \in Nat

VARIABLES
  tx,             \* per worker: the handler call and its transaction
  timeouts,       \* lock wait timeouts so far
  crashes         \* crashes so far

txVars  == <<tx, timeouts, crashes>>
allVars == <<invVars, txVars>>

PCs == {"idle", "start", "locate", "decrement", "insert", "giveback", "answer", "record"}

\* locks: the record lock on the order's reservation, the row lock on its
\* product. gap: the order ids no other transaction may insert. writes: the
\* uncommitted changes. live: FALSE once the server has ended the transaction
\* behind the handler's back.
NoTx == [pc |-> "idle", event |-> 0, attempt |-> 0, locks |-> {}, gap |-> {},
         writes |-> {}, answer |-> "", live |-> TRUE]

Answers == InventoryEventTypes \cup {""}

Transactions ==
  [pc : PCs, event : OrderEventIds \cup {0}, attempt : 0..MaxAttempts,
   locks : SUBSET {"record", "product"}, gap : SUBSET Orders,
   writes : SUBSET {"decrement", "insert", "flip", "giveback"},
   answer : Answers, live : BOOLEAN]

TxTypeOK ==
  /\ InvTypeOK
  /\ tx \in [Workers -> Transactions]
  /\ timeouts \in 0..MaxTimeouts
  /\ crashes \in 0..MaxCrashes

TxInit ==
  /\ InvInit
  /\ tx = [w \in Workers |-> NoTx]
  /\ timeouts = 0
  /\ crashes = 0

-----------------------------------------------------------------------------
(* Locks *)

orderOf(w) == Inbox[tx[w].event].order
typeOf(w)  == Inbox[tx[w].event].type

Busy(w) == tx[w].pc # "idle"

\* Transactions other than w's that are on w's order, or on its product.
OnOrder(w)   == {v \in Workers \ {w} : Busy(v) /\ orderOf(v) = orderOf(w)}
OnProduct(w) == {v \in Workers \ {w} : Busy(v) /\ SkuOf[orderOf(v)] = SkuOf[orderOf(w)]}

HoldsRecord(v) == "record" \in tx[v].locks \/ "insert" \in tx[v].writes

\* Whom the next statement of w waits for. An insert also waits for the gap
\* locks that cover its key; a gap lock itself is granted at once.
Blockers(w) ==
  CASE tx[w].pc = "locate" -> {v \in OnOrder(w) : HoldsRecord(v)}
    [] tx[w].pc \in {"decrement", "giveback"} -> {v \in OnProduct(w) : "product" \in tx[v].locks}
    [] tx[w].pc = "insert" -> {v \in OnOrder(w) : HoldsRecord(v)}
         \cup {v \in Workers \ {w} : orderOf(w) \in tx[v].gap}
    [] OTHER -> {}

At(w, pc) == tx[w].pc = pc /\ Blockers(w) = {}

\* A deadlock: the smallest sets of transactions that wait only for each other.
Stuck(S) == S # {} /\ \A w \in S : Blockers(w) \cap S # {}
Deadlock(S) == Stuck(S) /\ \A T \in SUBSET S : Stuck(T) => T = S

\* Keys in the order_id index, uncommitted ones included.
IndexKeys == {o \in Orders : reservation[o] # "none"}
               \cup {orderOf(w) : w \in {v \in Workers : "insert" \in tx[v].writes}}

\* The keys that fall into the same gap of the index as a missing key o.
GapAround(o) == {p \in Orders : \A k \in IndexKeys : (k < o <=> k < p) /\ k # p}

-----------------------------------------------------------------------------
(* The statements *)

Step(w, t) == tx' = [tx EXCEPT ![w] = t]

\* A fresh transaction for an event.
Attempt(id, n) == [NoTx EXCEPT !.pc = "start", !.event = id, !.attempt = n]

\* A message is delivered, possibly to two consumers after a rebalance.
Begin(w, id) ==
  /\ ~Busy(w)
  /\ id \notin invProcessed
  /\ Step(w, Attempt(id, 1))
  /\ UNCHANGED <<invVars, timeouts, crashes>>

Finish(w) == Step(w, NoTx)

\* Mutant: reservations start with the product, as reserveReversed does in
\* the deadlock lab.
firstStatement_Reversed(w) ==
  IF typeOf(w) = "OrderCreated" THEN "decrement" ELSE "locate"

\* Both handlers start with the locking read of the reservation; the lab's
\* BUG_DB_DEADLOCK switch, off by default, is taken to be off.
firstStatement(w) == "locate"

\* Process opens the transaction and looks the event up, without a lock.
CheckProcessed(w) ==
  /\ At(w, "start")
  /\ IF tx[w].event \in invProcessed THEN Finish(w)
     ELSE Step(w, [tx[w] EXCEPT !.pc = firstStatement(w)])
  /\ UNCHANGED <<invVars, timeouts, crashes>>

\* SELECT ... WHERE order_id = ? FOR UPDATE, the first statement of both
\* reserveOrdered and Release: it locks the row, or the gap where it would be.
Located(w) ==
  IF reservation[orderOf(w)] = "none"
  THEN [tx[w] EXCEPT !.gap = GapAround(orderOf(w))]
  ELSE [tx[w] EXCEPT !.locks = {"record"}]

\* reserveOrdered goes on to the decrement whether or not the row exists.
LocateForReserve(w) ==
  /\ At(w, "locate")
  /\ typeOf(w) = "OrderCreated"
  /\ Step(w, [Located(w) EXCEPT !.pc = "decrement"])
  /\ UNCHANGED <<invVars, timeouts, crashes>>

\* Release flips an active reservation; without one the handler is done.
LocateForRelease(w) ==
  /\ At(w, "locate")
  /\ typeOf(w) = "OrderCancelled"
  /\ Step(w, IF reservation[orderOf(w)] = "reserved"
             THEN [Located(w) EXCEPT !.pc = "giveback", !.writes = {"flip"}]
             ELSE [Located(w) EXCEPT !.pc = "record"])
  /\ UNCHANGED <<invVars, timeouts, crashes>>

\* decrementAvailable has updated the row, or there was none to update.
Decremented(t) == [t EXCEPT !.pc = "insert", !.writes = {"decrement"}]
Rejected(t)    == [t EXCEPT !.pc = "answer", !.answer = "ReservationFailed"]

\* Mutant: available is read without a lock and written back.
Decrement_NoLock(w) ==
  /\ At(w, "decrement")
  /\ Step(w, IF InStock(orderOf(w)) THEN Decremented(tx[w]) ELSE Rejected(tx[w]))
  /\ UNCHANGED <<invVars, timeouts, crashes>>

\* UPDATE products ... WHERE available >= quantity. The row lock is taken
\* even when the condition fails.
Decrement(w) ==
  /\ At(w, "decrement")
  /\ LET t == [tx[w] EXCEPT !.locks = @ \cup {"product"}]
     IN Step(w, IF InStock(orderOf(w)) THEN Decremented(t) ELSE Rejected(t))
  /\ UNCHANGED <<invVars, timeouts, crashes>>

\* INSERT INTO inventory_reservations.
InsertReservation(w) ==
  /\ At(w, "insert")
  /\ reservation[orderOf(w)] = "none"
  /\ Step(w, [tx[w] EXCEPT !.pc = "answer", !.writes = @ \cup {"insert"},
                           !.answer = "InventoryReserved"])
  /\ UNCHANGED <<invVars, timeouts, crashes>>

\* UNIQUE(order_id): not a lock error, so WithRetry returns it at once.
DuplicateReservation(w) ==
  /\ At(w, "insert")
  /\ reservation[orderOf(w)] # "none"
  /\ Finish(w)
  /\ UNCHANGED <<invVars, timeouts, crashes>>

\* UPDATE products SET available = available + quantity.
GiveBack(w) ==
  /\ At(w, "giveback")
  /\ Step(w, [tx[w] EXCEPT !.pc = "record", !.locks = @ \cup {"product"},
                           !.writes = @ \cup {"giveback"}])
  /\ UNCHANGED <<invVars, timeouts, crashes>>

\* INSERT INTO outbox_events, in the transaction or, if the server has ended
\* it, committed on its own.
Answer(w) ==
  /\ At(w, "answer")
  /\ Step(w, [tx[w] EXCEPT !.pc = "record"])
  /\ IF tx[w].live THEN UNCHANGED invVars
                   ELSE RejectUnrecorded(tx[w].event, orderOf(w))
  /\ UNCHANGED <<timeouts, crashes>>

\* A rejection without having seen the product row.
Spurious(w) == tx[w].answer = "ReservationFailed" /\ "product" \notin tx[w].locks

\* INSERT INTO processed_events and COMMIT.
Commit(w) ==
  LET o == orderOf(w)
      W == tx[w].writes
  IN /\ At(w, "record")
     /\ tx[w].live
     /\ Process(tx[w].event)
     /\ available' = [available EXCEPT ![SkuOf[o]] =
          CASE "decrement" \in W -> @ - Quantity[o]
            [] "giveback" \in W  -> @ + Quantity[o]
            [] OTHER -> @]
     /\ reservation' = [reservation EXCEPT ![o] =
          CASE "insert" \in W -> "reserved"
            [] "flip" \in W   -> "released"
            [] OTHER -> @]
     /\ IF tx[w].answer = "" THEN UNCHANGED invOutbox ELSE writeOutbox(tx[w].answer, o)
     /\ IF Spurious(w) THEN LockError ELSE UNCHANGED lockErrors
     /\ Finish(w)
     /\ UNCHANGED <<timeouts, crashes>>

\* The same two statements when the server has ended the transaction.
CommitTorn(w) ==
  /\ At(w, "record")
  /\ ~tx[w].live
  /\ RecordTorn(tx[w].event)
  /\ Finish(w)
  /\ UNCHANGED <<timeouts, crashes>>

\* The primary key of processed_events: another consumer was faster. The
\* error is not a lock error and the transaction rolls back.
DuplicateEvent(w) ==
  /\ At(w, "record")
  /\ tx[w].event \in invProcessed
  /\ Finish(w)
  /\ UNCHANGED <<invVars, timeouts, crashes>>

-----------------------------------------------------------------------------
(* Lock errors, retries, crashes *)

\* Mutants: one attempt too many; no limit.
Retry_OffByOne(w) ==
  IF tx[w].attempt <= MaxAttempts
  THEN Step(w, Attempt(tx[w].event, tx[w].attempt + 1))
  ELSE Finish(w)
Retry_ForEver(w) == Step(w, Attempt(tx[w].event, tx[w].attempt))

\* WithRetry starts a fresh transaction, or gives up after MaxAttempts.
Retry(w) ==
  IF tx[w].attempt < MaxAttempts
  THEN Step(w, Attempt(tx[w].event, tx[w].attempt + 1))
  ELSE Finish(w)

\* InnoDB rolls back one transaction of a cycle (1213). The error of the
\* decrement is lost (decrementErr): the handler carries on.
DeadlockVictim(w) ==
  /\ \E S \in SUBSET Workers : w \in S /\ Deadlock(S)
  /\ IF tx[w].pc = "decrement"
     THEN Step(w, Rejected([tx[w] EXCEPT !.locks = {}, !.gap = {}, !.writes = {},
                                         !.live = FALSE]))
     ELSE Retry(w)
  /\ UNCHANGED <<invVars, timeouts, crashes>>

\* innodb_lock_wait_timeout ends the statement, not the transaction (1205). The
\* INSERT into outbox_events waits for nobody here but for the poller, which
\* keeps the gaps of its scan locked while it publishes.
LockWaitTimeout(w) ==
  /\ Blockers(w) # {} \/ tx[w].pc = "answer"
  /\ timeouts < MaxTimeouts
  /\ timeouts' = timeouts + 1
  /\ IF tx[w].pc = "decrement" THEN Step(w, Rejected(tx[w])) ELSE Retry(w)
  /\ UNCHANGED <<invVars, crashes>>

\* The process or its connection dies; the server rolls back.
Crash(w) ==
  /\ Busy(w)
  /\ crashes < MaxCrashes
  /\ crashes' = crashes + 1
  /\ Finish(w)
  /\ UNCHANGED <<invVars, timeouts>>

-----------------------------------------------------------------------------
WorkerStep(w) ==
  \/ CheckProcessed(w) \/ LocateForReserve(w) \/ LocateForRelease(w)
  \/ Decrement(w) \/ InsertReservation(w) \/ DuplicateReservation(w)
  \/ GiveBack(w) \/ Answer(w)
  \/ Commit(w) \/ CommitTorn(w) \/ DuplicateEvent(w)
  \/ DeadlockVictim(w)

TxNext == \E w \in Workers :
  \/ \E id \in OrderEventIds : Begin(w, id)
  \/ WorkerStep(w) \/ LockWaitTimeout(w) \/ Crash(w)

TxSpec == TxInit /\ [][TxNext]_allVars

\* A handler that has started runs on; a lock that is free again and again is
\* granted (InnoDB queues its waiters), hence strong fairness.
FairTxSpec == TxSpec /\ \A w \in Workers : SF_allVars(WorkerStep(w))

-----------------------------------------------------------------------------
(* Properties *)

\* Concurrent transactions with their locks, rollbacks, retries and torn
\* commits implement the one-step transactions of InventoryService.
ImplementsInventory == InvSpec

\* reserveOrdered and Release take their locks in the same order, so the two
\* never form a cycle (the comment on reserveOrdered): a deadlock is always
\* among reservations.
NoReserveReleaseCycle == \A S \in SUBSET Workers :
  Deadlock(S) => \A w \in S : typeOf(w) = "OrderCreated"

\* Every handler call ends: no lock wait, deadlock or retry lasts for ever.
HandlersTerminate == \A w \in Workers : Busy(w) ~> ~Busy(w)

\* ReservationFailed is sent when stock is short (comment on
\* handleOrderCreated: "out of stock: send ReservationFailed").
RejectsOnlyOutOfStock == [][\A o \in Orders :
  Len(invOutbox') > Len(invOutbox)
    /\ invOutbox'[Len(invOutbox')] = Event("ReservationFailed", o) => ~InStock(o)]_allVars
=============================================================================
