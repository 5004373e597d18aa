---------------------------- MODULE OrderService ----------------------------
(***************************************************************************)
(* order-api: the orders table, the order-events outbox written in the     *)
(* same transactions, the HTTP requests that change an order and the       *)
(* consumer of inventory-events (service/order/api/internal).              *)
(*                                                                         *)
(* Requests and consumer both read an order first and change it later with *)
(* UPDATE ... WHERE status = ? AND version = ?; other transactions commit  *)
(* in between. The module is open: any inventory event may arrive at any   *)
(* time. Saga.tla connects it to the real inventory service.               *)
(***************************************************************************)
EXTENDS XEvent, Naturals, Sequences

CONSTANTS
  Requests,            \* HTTP requests in flight (PUT /orders/:id/status)
  OrderHandlers,       \* consumer goroutines of inventory-events
  InventoryEventIds,   \* event_id of the inventory-events that may arrive
  Nil                  \* no request or transaction in flight

ASSUME InventoryEventIdsAssumption == InventoryEventIds \subseteq Nat

VARIABLES
  order,               \* orders table: status, version, cancel_reason
  orderOutbox,         \* outbox_events of orders_db, in insertion order
  orderProcessed,      \* processed_events of orders_db
  request,             \* per request: what it read and what it is asked to do
  handling             \* per consumer: the transaction in flight

orderVars == <<order, orderOutbox, orderProcessed, request, handling>>

Statuses == {"none", "pending", "paid", "cancelled"}
OrderRow == [status : Statuses, version : Nat, reason : Reasons]

\* An order that does not exist yet, and one as createOrder inserts it.
NoOrder  == [status |-> "none", version |-> 0, reason |-> ""]
NewOrder == [status |-> "pending", version |-> 0, reason |-> ""]

OrderTypeOK ==
  /\ order \in [Orders -> OrderRow]
  /\ orderOutbox \in Seq(OrderEvents)
  /\ orderProcessed \subseteq Nat
  /\ request \in [Requests ->
       {Nil} \cup [order : Orders, seen : OrderRow, target : {"paid", "cancelled"}]]
  /\ handling \in [OrderHandlers ->
       {Nil} \cup [event : Nat, type : InventoryEventTypes,
                   order : Orders, seen : OrderRow]]

OrderInit ==
  /\ order = [o \in Orders |-> NoOrder]
  /\ orderOutbox = <<>>
  /\ orderProcessed = {}
  /\ request = [r \in Requests |-> Nil]
  /\ handling = [h \in OrderHandlers |-> Nil]

-----------------------------------------------------------------------------
(* HTTP requests *)

\* createOrder: one transaction inserts the order and its OrderCreated row.
CreateOrder(o) ==
  /\ order[o].status = "none"
  /\ order' = [order EXCEPT ![o] = NewOrder]
  /\ orderOutbox' = Append(orderOutbox, Event("OrderCreated", o))
  /\ UNCHANGED <<orderProcessed, request, handling>>

validTransitions == [pending |-> {"paid", "cancelled"}, paid |-> {}, cancelled |-> {}]

isValidTransition(from, to) ==
  from \in DOMAIN validTransitions /\ to \in validTransitions[from]

\* UpdateStatus, first half: read the order and check the transition. A
\* missing order or an invalid transition returns an error and changes nothing.
ReadOrder(r, o, target) ==
  /\ request[r] = Nil
  /\ isValidTransition(order[o].status, target)
  /\ request' = [request EXCEPT
       ![r] = [order |-> o, seen |-> order[o], target |-> target]]
  /\ UNCHANGED <<order, orderOutbox, orderProcessed, handling>>

\* Mutant: WHERE id = ?.
Unchanged_ById(o, status, version) == order[o].status # "none"

\* WHERE status = ? AND version = ?: the row is still the one that was read.
Unchanged(o, status, version) == order[o].status = status /\ order[o].version = version

\* Mutant: a misspelt status.
Cancelled_Misspelt(o, reason) ==
  [status |-> "canceled", version |-> order[o].version + 1, reason |-> reason]

\* repository Cancel: the row a successful conditional UPDATE leaves behind.
Cancelled(o, reason) ==
  [status |-> "cancelled", version |-> order[o].version + 1, reason |-> reason]

\* repository UpdateStatus likewise.
Paid(o) == [status |-> "paid", version |-> order[o].version + 1, reason |-> order[o].reason]

\* Mutant: the event is not written.
CancelOrder_Silent(r) ==
  LET o == request[r].order
  IN /\ request[r] # Nil
     /\ request[r].target = "cancelled"
     /\ Unchanged(o, "pending", request[r].seen.version)
     /\ order' = [order EXCEPT ![o] = Cancelled(o, "USER_CANCELLED")]
     /\ request' = [request EXCEPT ![r] = Nil]
     /\ UNCHANGED <<orderOutbox, orderProcessed, handling>>

\* cancelOrder: one transaction cancels the order and writes OrderCancelled.
CancelOrder(r) ==
  LET o == request[r].order
  IN /\ request[r] # Nil
     /\ request[r].target = "cancelled"
     /\ Unchanged(o, "pending", request[r].seen.version)
     /\ order' = [order EXCEPT ![o] = Cancelled(o, "USER_CANCELLED")]
     /\ orderOutbox' = Append(orderOutbox, Event("OrderCancelled", o))
     /\ request' = [request EXCEPT ![r] = Nil]
     /\ UNCHANGED <<orderProcessed, handling>>

\* paidOrder: a single conditional UPDATE, no event.
PayOrder(r) ==
  LET o == request[r].order
  IN /\ request[r] # Nil
     /\ request[r].target = "paid"
     /\ Unchanged(o, request[r].seen.status, request[r].seen.version)
     /\ order' = [order EXCEPT ![o] = Paid(o)]
     /\ request' = [request EXCEPT ![r] = Nil]
     /\ UNCHANGED <<orderOutbox, orderProcessed, handling>>

\* affected = 0 (ErrOptimisticConflict), a database error, a cancelled
\* context or a crash: the transaction leaves nothing behind.
RequestFails(r) ==
  /\ request[r] # Nil
  /\ request' = [request EXCEPT ![r] = Nil]
  /\ UNCHANGED <<order, orderOutbox, orderProcessed, handling>>

-----------------------------------------------------------------------------
(* The consumer of inventory-events *)

\* Process opens its transaction: its first SELECT finds the event new, and
\* fixes the snapshot in which handleReservationFailed reads the order. An
\* event found in processed_events is skipped: nothing changes.
BeginInventoryEvent(h, id, type, o) ==
  /\ handling[h] = Nil
  /\ id \notin orderProcessed
  /\ handling' = [handling EXCEPT
       ![h] = [event |-> id, type |-> type, order |-> o, seen |-> order[o]]]
  /\ UNCHANGED <<order, orderOutbox, orderProcessed, request>>

\* handleReservationFailed reaches Cancel: the order was found and was not
\* cancelled. (A paid order reaches it too.)
ReachesCancel(tx) ==
  tx.type = "ReservationFailed" /\ tx.seen.status \notin {"none", "cancelled"}

CancelApplies(tx) ==
  ReachesCancel(tx) /\ Unchanged(tx.order, "pending", tx.seen.version)

\* INSERT INTO processed_events and COMMIT; a second transaction of the same
\* event fails on the primary key (HandlerFails).
MarkProcessed(h) ==
  /\ handling[h] # Nil
  /\ handling[h].event \notin orderProcessed
  /\ orderProcessed' = orderProcessed \cup {handling[h].event}
  /\ handling' = [handling EXCEPT ![h] = Nil]
  /\ UNCHANGED request

\* Mutant: RowsAffected is not looked at.
AutoCancel_Unchecked(h) ==
  LET o == handling[h].order
  IN /\ MarkProcessed(h)
     /\ handling[h].type = "ReservationFailed"
     /\ order' = [order EXCEPT ![o] =
          IF CancelApplies(handling[h]) THEN Cancelled(o, "OUT_OF_STOCK") ELSE @]
     /\ orderOutbox' = Append(orderOutbox, Event("OrderCancelled", o))

\* ReservationFailed cancels the order and writes OrderCancelled.
AutoCancel(h) ==
  LET o == handling[h].order
  IN /\ MarkProcessed(h)
     /\ CancelApplies(handling[h])
     /\ order' = [order EXCEPT ![o] = Cancelled(o, "OUT_OF_STOCK")]
     /\ orderOutbox' = Append(orderOutbox, Event("OrderCancelled", o))

\* InventoryReserved, an order that is missing or already cancelled, or a
\* conditional UPDATE that affects no row: only the event is recorded.
IgnoreInventoryEvent(h) ==
  /\ MarkProcessed(h)
  /\ ~CancelApplies(handling[h])
  /\ UNCHANGED <<order, orderOutbox>>

\* Rollback: a database error, the primary key of processed_events, a crash.
HandlerFails(h) ==
  /\ handling[h] # Nil
  /\ handling' = [handling EXCEPT ![h] = Nil]
  /\ UNCHANGED <<order, orderOutbox, orderProcessed, request>>

-----------------------------------------------------------------------------
RequestStep(r) ==
  \/ \E o \in Orders, target \in {"paid", "cancelled"} : ReadOrder(r, o, target)
  \/ CancelOrder(r)
  \/ PayOrder(r)
  \/ RequestFails(r)

BeginAny(h) ==
  \E id \in InventoryEventIds, type \in InventoryEventTypes, o \in Orders :
    BeginInventoryEvent(h, id, type, o)

OrderNext ==
  \/ \E o \in Orders : CreateOrder(o)
  \/ \E r \in Requests : RequestStep(r)
  \/ \E h \in OrderHandlers :
       BeginAny(h) \/ AutoCancel(h) \/ IgnoreInventoryEvent(h) \/ HandlerFails(h)

OrderSpec == OrderInit /\ [][OrderNext]_orderVars

-----------------------------------------------------------------------------
(* Properties *)

\* The events in the outbox and the orders agree although orders change in
\* requests and in the consumer: an order has an OrderCreated row exactly when
\* it exists and an OrderCancelled row exactly when it is cancelled.
EventsMatchOrders == \A o \in Orders :
  /\ order[o].status # "none" <=>
       \E i \in DOMAIN orderOutbox : orderOutbox[i] = Event("OrderCreated", o)
  /\ order[o].status = "cancelled" <=>
       \E i \in DOMAIN orderOutbox : orderOutbox[i] = Event("OrderCancelled", o)

\* No order is announced or cancelled twice, not even when a user cancels it
\* while the consumer cancels it for want of stock: inventory would otherwise
\* be asked to release the same reservation under two event ids.
NoDuplicateEvents == \A i, j \in DOMAIN orderOutbox :
  orderOutbox[i] = orderOutbox[j] => i = j

\* Creation is announced before cancellation.
CreatedBeforeCancelled == \A o \in Orders, i, j \in DOMAIN orderOutbox :
  orderOutbox[i] = Event("OrderCreated", o) /\
  orderOutbox[j] = Event("OrderCancelled", o) => i < j

\* paid and cancelled are final (validTransitions): no request or event that
\* read the order before may overwrite the decision, its version or reason.
DecisionsAreFinal == [][\A o \in Orders :
  order[o].status \in {"paid", "cancelled"} => order'[o] = order[o]]_orderVars
=============================================================================
