----------------------------- MODULE SagaProofs -----------------------------
(***************************************************************************)
(* Proofs about OrderService and Saga for any orders, users, requests,     *)
(* stock, partitions and faults. What OrderService and InventoryService    *)
(* promise survives the composition over topics that delay, reorder,       *)
(* repeat and lose events, and the two services agree with each other.     *)
(*                                                                         *)
(* The steps of OrderService are proved for event ids from all of Nat, so  *)
(* that they also serve the composition, whose ids are outbox positions.   *)
(***************************************************************************)
EXTENDS Saga, InventoryProofs

-----------------------------------------------------------------------------
(* OrderService *)

\* A request in flight saw a pending order: validTransitions leaves nothing
\* else. Without it PayOrder could move an order from any status it had read.
RequestsSawPending == \A r \in Requests :
  request[r] # Nil => request[r].seen.status = "pending"

OrderInv == OrderTypeOK /\ RequestsSawPending
              /\ EventsMatchOrders /\ NoDuplicateEvents /\ CreatedBeforeCancelled

AnyOrderNext ==
  \/ \E o \in Orders : CreateOrder(o)
  \/ \E r \in Requests : RequestStep(r)
  \/ \E h \in OrderHandlers :
       \/ \E id \in Nat, type \in InventoryEventTypes, o \in Orders :
            BeginInventoryEvent(h, id, type, o)
       \/ AutoCancel(h) \/ IgnoreInventoryEvent(h) \/ HandlerFails(h)

\* The steps of the specification are among them.
LEMMA OrderNextIsAny == OrderNext => AnyOrderNext
BY InventoryEventIdsAssumption DEF OrderNext, AnyOrderNext, BeginAny

-----------------------------------------------------------------------------
\* The initial state satisfies the invariant: no order, no event, no request.
LEMMA OrderInitInv == OrderInit => OrderInv
<1> SUFFICES ASSUME OrderInit PROVE OrderInv
    OBVIOUS
<1>1. NoOrder \in OrderRow /\ NoOrder.status = "none"
    BY DEF NoOrder, OrderRow, Statuses, Reasons
<1>2. \A o \in Orders : order[o].status = "none"
    BY <1>1 DEF OrderInit
<1>3. OrderTypeOK
    BY <1>1 DEF OrderInit, OrderTypeOK
<1>4. EventsMatchOrders
  <2>1. orderOutbox = <<>> /\ DOMAIN orderOutbox = {}
      BY DEF OrderInit
  <2> QED
      BY <1>2, <2>1 DEF EventsMatchOrders
<1>5. NoDuplicateEvents /\ CreatedBeforeCancelled /\ RequestsSawPending
    BY DEF OrderInit, NoDuplicateEvents, CreatedBeforeCancelled, RequestsSawPending
<1> QED
    BY <1>3, <1>4, <1>5 DEF OrderInv

\* A conditional UPDATE of an order, and the event of an order, are well typed.
LEMMA OrderRowTyping ==
  ASSUME order \in [Orders -> OrderRow], NEW o \in Orders
  PROVE  /\ NewOrder \in OrderRow
         /\ Paid(o) \in OrderRow
         /\ Cancelled(o, "USER_CANCELLED") \in OrderRow
         /\ Cancelled(o, "OUT_OF_STOCK") \in OrderRow
         /\ Event("OrderCreated", o) \in OrderEvents
         /\ Event("OrderCancelled", o) \in OrderEvents
<1>1. order[o].version + 1 \in Nat /\ order[o].reason \in Reasons
    BY DEF OrderRow
<1>2. "USER_CANCELLED" \in Reasons /\ "OUT_OF_STOCK" \in Reasons
    BY DEF Reasons
<1>3. /\ Cancelled(o, "USER_CANCELLED") \in OrderRow
      /\ Cancelled(o, "OUT_OF_STOCK") \in OrderRow
      /\ Paid(o) \in OrderRow
    BY <1>1, <1>2 DEF OrderRow, Cancelled, Paid, Statuses
<1>4. NewOrder \in OrderRow
    BY DEF NewOrder, OrderRow, Statuses, Reasons
<1>5. Event("OrderCreated", o) \in OrderEvents /\ Event("OrderCancelled", o) \in OrderEvents
    BY DEF Event, OrderEvents, OrderEventTypes
<1> QED
    BY <1>3, <1>4, <1>5

\* Every step keeps the types, and requests keep having read a pending order.
LEMMA OrderTyping ==
  ASSUME OrderInv, [AnyOrderNext]_orderVars
  PROVE  OrderTypeOK' /\ RequestsSawPending'
<1> USE DEF OrderInv, OrderTypeOK, RequestsSawPending
<1>1. ASSUME NEW o \in Orders, CreateOrder(o) PROVE OrderTypeOK' /\ RequestsSawPending'
  <2>1. order' \in [Orders -> OrderRow] /\ orderOutbox' \in Seq(OrderEvents)
      BY <1>1, OrderRowTyping DEF CreateOrder
  <2> QED
      BY <1>1, <2>1 DEF CreateOrder
<1>2. ASSUME NEW r \in Requests, NEW o \in Orders, NEW target \in {"paid", "cancelled"},
             ReadOrder(r, o, target)
      PROVE OrderTypeOK' /\ RequestsSawPending'
  <2>1. order[o] \in OrderRow /\ order[o].status = "pending"
      BY <1>2 DEF ReadOrder, isValidTransition, validTransitions
  <2> DEFINE asked == [order |-> o, seen |-> order[o], target |-> target]
  <2>2. /\ asked \in [order : Orders, seen : OrderRow, target : {"paid", "cancelled"}]
        /\ asked.seen.status = "pending"
      BY <2>1
  <2>3. request' = [request EXCEPT ![r] = asked]
      BY <1>2 DEF ReadOrder
  <2> HIDE DEF asked
  <2> QED
      BY <1>2, <2>2, <2>3 DEF ReadOrder
<1>3. ASSUME NEW r \in Requests, CancelOrder(r) PROVE OrderTypeOK' /\ RequestsSawPending'
  <2>1. request[r].order \in Orders
      BY <1>3 DEF CancelOrder
  <2>2. order' \in [Orders -> OrderRow] /\ orderOutbox' \in Seq(OrderEvents)
      BY <1>3, <2>1, OrderRowTyping DEF CancelOrder
  <2> QED
      BY <1>3, <2>2 DEF CancelOrder
<1>4. ASSUME NEW r \in Requests, PayOrder(r) PROVE OrderTypeOK' /\ RequestsSawPending'
  <2>1. request[r].order \in Orders
      BY <1>4 DEF PayOrder
  <2>2. order' \in [Orders -> OrderRow]
      BY <1>4, <2>1, OrderRowTyping DEF PayOrder
  <2> QED
      BY <1>4, <2>2 DEF PayOrder
<1>5. ASSUME NEW r \in Requests, RequestFails(r) PROVE OrderTypeOK' /\ RequestsSawPending'
    BY <1>5 DEF RequestFails
<1>6. ASSUME NEW h \in OrderHandlers, NEW id \in Nat, NEW type \in InventoryEventTypes,
             NEW o \in Orders, BeginInventoryEvent(h, id, type, o)
      PROVE OrderTypeOK' /\ RequestsSawPending'
  <2> DEFINE tx == [event |-> id, type |-> type, order |-> o, seen |-> order[o]]
  <2>1. tx \in [event : Nat, type : InventoryEventTypes, order : Orders, seen : OrderRow]
      OBVIOUS
  <2>2. handling' = [handling EXCEPT ![h] = tx]
      BY <1>6 DEF BeginInventoryEvent
  <2> HIDE DEF tx
  <2> QED
      BY <1>6, <2>1, <2>2 DEF BeginInventoryEvent
<1>7. ASSUME NEW h \in OrderHandlers, AutoCancel(h)
      PROVE OrderTypeOK' /\ RequestsSawPending'
  <2>1. handling[h].order \in Orders /\ handling[h].event \in Nat
      BY <1>7 DEF AutoCancel, MarkProcessed
  <2>2. order' \in [Orders -> OrderRow] /\ orderOutbox' \in Seq(OrderEvents)
      BY <1>7, <2>1, OrderRowTyping DEF AutoCancel
  <2> QED
      BY <1>7, <2>1, <2>2 DEF AutoCancel, MarkProcessed
<1>8. ASSUME NEW h \in OrderHandlers, IgnoreInventoryEvent(h) \/ HandlerFails(h)
      PROVE OrderTypeOK' /\ RequestsSawPending'
  <2>1. handling[h].event \in Nat
      BY <1>8 DEF IgnoreInventoryEvent, MarkProcessed, HandlerFails
  <2>2. orderProcessed' \subseteq Nat
      BY <1>8, <2>1 DEF IgnoreInventoryEvent, MarkProcessed, HandlerFails
  <2> QED
      BY <1>8, <2>2 DEF IgnoreInventoryEvent, MarkProcessed, HandlerFails
<1>9. CASE UNCHANGED orderVars
    BY <1>9 DEF orderVars
<1> HIDE DEF OrderInv, OrderTypeOK, RequestsSawPending
<1> QED
    BY <1>1, <1>2, <1>3, <1>4, <1>5, <1>6, <1>7, <1>8, <1>9 DEF AnyOrderNext, RequestStep

\* A step leaves orders and outbox alone, creates an order that did not exist,
\* pays one that was pending, or cancels one that was pending.
LEMMA OrderCases ==
  ASSUME OrderInv, [AnyOrderNext]_orderVars
  PROVE  \/ UNCHANGED <<order, orderOutbox>>
         \/ \E o \in Orders : CreateOrder(o)
         \/ \E o \in Orders :
              /\ order[o].status = "pending"
              /\ order' = [order EXCEPT ![o] = Paid(o)]
              /\ UNCHANGED orderOutbox
         \/ \E o \in Orders, reason \in Reasons :
              /\ order[o].status = "pending"
              /\ order' = [order EXCEPT ![o] = Cancelled(o, reason)]
              /\ orderOutbox' = Append(orderOutbox, Event("OrderCancelled", o))
<1> USE DEF OrderInv, OrderTypeOK, RequestsSawPending, Unchanged
<1>1. ASSUME NEW r \in Requests, CancelOrder(r)
      PROVE \E o \in Orders, reason \in Reasons :
              /\ order[o].status = "pending"
              /\ order' = [order EXCEPT ![o] = Cancelled(o, reason)]
              /\ orderOutbox' = Append(orderOutbox, Event("OrderCancelled", o))
    BY <1>1 DEF CancelOrder, Reasons
<1>2. ASSUME NEW r \in Requests, PayOrder(r)
      PROVE \E o \in Orders :
              /\ order[o].status = "pending"
              /\ order' = [order EXCEPT ![o] = Paid(o)]
              /\ UNCHANGED orderOutbox
    BY <1>2 DEF PayOrder
<1>3. ASSUME NEW h \in OrderHandlers, AutoCancel(h)
      PROVE \E o \in Orders, reason \in Reasons :
              /\ order[o].status = "pending"
              /\ order' = [order EXCEPT ![o] = Cancelled(o, reason)]
              /\ orderOutbox' = Append(orderOutbox, Event("OrderCancelled", o))
    BY <1>3 DEF AutoCancel, MarkProcessed, CancelApplies, Reasons
<1>4. ASSUME NEW r \in Requests, RequestFails(r) PROVE UNCHANGED <<order, orderOutbox>>
    BY <1>4 DEF RequestFails
<1>5. ASSUME NEW r \in Requests, NEW o \in Orders, NEW target \in {"paid", "cancelled"},
             ReadOrder(r, o, target)
      PROVE UNCHANGED <<order, orderOutbox>>
    BY <1>5 DEF ReadOrder
<1>6. ASSUME NEW h \in OrderHandlers, NEW id \in Nat, NEW type \in InventoryEventTypes,
             NEW o \in Orders, BeginInventoryEvent(h, id, type, o)
      PROVE UNCHANGED <<order, orderOutbox>>
    BY <1>6 DEF BeginInventoryEvent
<1>7. ASSUME NEW h \in OrderHandlers, IgnoreInventoryEvent(h) \/ HandlerFails(h)
      PROVE UNCHANGED <<order, orderOutbox>>
    BY <1>7 DEF IgnoreInventoryEvent, HandlerFails
<1>8. CASE UNCHANGED orderVars
    BY <1>8 DEF orderVars
<1> HIDE DEF OrderInv, OrderTypeOK, RequestsSawPending, Unchanged
<1> QED
    BY <1>1, <1>2, <1>3, <1>4, <1>5, <1>6, <1>7, <1>8 DEF AnyOrderNext, RequestStep

\* What appending one event does to a sequence.
LEMMA Appended ==
  ASSUME NEW S, NEW q \in Seq(S), NEW e \in S
  PROVE  /\ DOMAIN Append(q, e) = DOMAIN q \cup {Len(q) + 1}
         /\ \A i \in DOMAIN q : i < Len(q) + 1 /\ Append(q, e)[i] = q[i]
         /\ Append(q, e)[Len(q) + 1] = e
OBVIOUS

\* Events of different types or orders differ.
LEMMA EventsDiffer ==
  \A o, p : /\ Event("OrderCreated", o) # Event("OrderCancelled", p)
            /\ Event("OrderCreated", o) = Event("OrderCreated", p) => o = p
            /\ Event("OrderCancelled", o) = Event("OrderCancelled", p) => o = p
BY DEF Event

\* Every step keeps orders and outbox in agreement.
LEMMA OrderEventsStep ==
  ASSUME OrderInv, [AnyOrderNext]_orderVars
  PROVE  EventsMatchOrders' /\ NoDuplicateEvents' /\ CreatedBeforeCancelled'
<1> USE DEF OrderInv, OrderTypeOK
<1>1. CASE UNCHANGED <<order, orderOutbox>>
    BY <1>1 DEF EventsMatchOrders, NoDuplicateEvents, CreatedBeforeCancelled
<1>2. ASSUME NEW o \in Orders, CreateOrder(o)
      PROVE EventsMatchOrders' /\ NoDuplicateEvents' /\ CreatedBeforeCancelled'
  <2> DEFINE e == Event("OrderCreated", o)
             last == Len(orderOutbox) + 1
  <2>1. /\ order[o].status = "none"
        /\ order' = [order EXCEPT ![o] = NewOrder]
        /\ orderOutbox' = Append(orderOutbox, e)
      BY <1>2 DEF CreateOrder
  <2>2. NewOrder.status = "pending"
      BY DEF NewOrder
  <2>3. e \in OrderEvents
      BY OrderRowTyping
  <2> HIDE DEF e
  <2>4. /\ DOMAIN orderOutbox' = DOMAIN orderOutbox \cup {last}
        /\ \A i \in DOMAIN orderOutbox : i < last /\ orderOutbox'[i] = orderOutbox[i]
        /\ orderOutbox'[last] = e
        /\ last \in Nat
      BY <2>1, <2>3, Appended
  <2> HIDE DEF last
  <2>5. /\ \A p \in Orders : Event("OrderCreated", p) = e <=> p = o
        /\ \A p \in Orders : Event("OrderCancelled", p) # e
      BY EventsDiffer DEF e
  <2>6. /\ order'[o].status = "pending"
        /\ \A p \in Orders : p # o => order'[p].status = order[p].status
      BY <2>1, <2>2
  <2>7. \A i \in DOMAIN orderOutbox : orderOutbox[i] # Event("OrderCreated", o)
      BY <2>1 DEF EventsMatchOrders
  <2>8. \A i \in DOMAIN orderOutbox : orderOutbox[i] # Event("OrderCancelled", o)
      BY <2>1 DEF EventsMatchOrders
  <2>9. EventsMatchOrders'
      BY <2>4, <2>5, <2>6, <2>7, <2>8 DEF EventsMatchOrders
  <2>10. NoDuplicateEvents'
      BY <2>4, <2>7 DEF NoDuplicateEvents, e
  <2>11. CreatedBeforeCancelled'
      BY <2>4, <2>5, <2>8 DEF CreatedBeforeCancelled
  <2> QED
      BY <2>9, <2>10, <2>11
<1>3. ASSUME NEW o \in Orders, order[o].status = "pending",
             order' = [order EXCEPT ![o] = Paid(o)], UNCHANGED orderOutbox
      PROVE EventsMatchOrders' /\ NoDuplicateEvents' /\ CreatedBeforeCancelled'
  <2>1. Paid(o).status = "paid"
      BY DEF Paid
  <2>2. /\ order'[o].status = "paid"
        /\ \A p \in Orders : p # o => order'[p].status = order[p].status
      BY <1>3, <2>1
  <2> QED
      BY <1>3, <2>2 DEF EventsMatchOrders, NoDuplicateEvents, CreatedBeforeCancelled
<1>4. ASSUME NEW o \in Orders, NEW reason \in Reasons, order[o].status = "pending",
             order' = [order EXCEPT ![o] = Cancelled(o, reason)],
             orderOutbox' = Append(orderOutbox, Event("OrderCancelled", o))
      PROVE EventsMatchOrders' /\ NoDuplicateEvents' /\ CreatedBeforeCancelled'
  <2> DEFINE e == Event("OrderCancelled", o)
             last == Len(orderOutbox) + 1
  <2>1. Cancelled(o, reason).status = "cancelled"
      BY DEF Cancelled
  <2>2. e \in OrderEvents
      BY OrderRowTyping
  <2>3. orderOutbox' = Append(orderOutbox, e)
      BY <1>4
  <2> HIDE DEF e
  <2>4. /\ DOMAIN orderOutbox' = DOMAIN orderOutbox \cup {last}
        /\ \A i \in DOMAIN orderOutbox : i < last /\ orderOutbox'[i] = orderOutbox[i]
        /\ orderOutbox'[last] = e
        /\ last \in Nat
      BY <2>2, <2>3, Appended
  <2> HIDE DEF last
  <2>5. /\ \A p \in Orders : Event("OrderCancelled", p) = e <=> p = o
        /\ \A p \in Orders : Event("OrderCreated", p) # e
      BY EventsDiffer DEF e
  <2>6. /\ order'[o].status = "cancelled"
        /\ \A p \in Orders : p # o => order'[p].status = order[p].status
      BY <1>4, <2>1
  <2>7. \A i \in DOMAIN orderOutbox : orderOutbox[i] # Event("OrderCancelled", o)
      BY <1>4 DEF EventsMatchOrders
  <2>8. \E i \in DOMAIN orderOutbox : orderOutbox[i] = Event("OrderCreated", o)
      BY <1>4 DEF EventsMatchOrders
  <2>9. EventsMatchOrders'
      BY <2>4, <2>5, <2>6, <2>7, <2>8 DEF EventsMatchOrders
  <2>10. NoDuplicateEvents'
      BY <2>4, <2>7 DEF NoDuplicateEvents, e
  <2>11. CreatedBeforeCancelled'
      BY <2>4, <2>5 DEF CreatedBeforeCancelled
  <2> QED
      BY <2>9, <2>10, <2>11
<1> HIDE DEF OrderInv, OrderTypeOK
<1> QED
    BY <1>1, <1>2, <1>3, <1>4, OrderCases

\* One step of the order service keeps its invariant.
LEMMA OrderInvStep == OrderInv /\ [AnyOrderNext]_orderVars => OrderInv'
BY OrderTyping, OrderEventsStep DEF OrderInv

\* No step changes an order that is paid or cancelled.
LEMMA DecisionStep ==
  ASSUME OrderInv, [AnyOrderNext]_orderVars
  PROVE  \A o \in Orders : order[o].status \in {"paid", "cancelled"} => order'[o] = order[o]
<1>1. order \in [Orders -> OrderRow]
    BY DEF OrderInv, OrderTypeOK
<1>2. ASSUME NEW o \in Orders, CreateOrder(o)
      PROVE \A p \in Orders : order[p].status \in {"paid", "cancelled"} => order'[p] = order[p]
    BY <1>1, <1>2 DEF CreateOrder
<1> QED
    BY <1>1, <1>2, OrderCases

-----------------------------------------------------------------------------
\* The inductive invariant holds throughout.
THEOREM OrderInvariant == OrderSpec => []OrderInv
<1>1. OrderInv /\ [OrderNext]_orderVars => OrderInv'
    BY OrderInvStep, OrderNextIsAny
<1> QED
    BY <1>1, OrderInitInv, PTL DEF OrderSpec

\* Orders and the outbox rows that announce them agree, whatever requests and
\* consumers interleave: created and cancelled are announced exactly when they
\* happened, once each, and in that order.
THEOREM EventsTellTheOrders ==
  OrderSpec => [](EventsMatchOrders /\ NoDuplicateEvents /\ CreatedBeforeCancelled)
<1>1. OrderInv => EventsMatchOrders /\ NoDuplicateEvents /\ CreatedBeforeCancelled
    BY DEF OrderInv
<1> QED
    BY <1>1, OrderInvariant, PTL

\* The version check makes paid and cancelled final against every request and
\* event that read the order earlier.
THEOREM FinalDecisions == OrderSpec => DecisionsAreFinal
<1>1. OrderInv /\ [OrderNext]_orderVars =>
        [\A o \in Orders : order[o].status \in {"paid", "cancelled"} =>
           order'[o] = order[o]]_orderVars
    BY DecisionStep, OrderNextIsAny
<1> QED
    BY <1>1, OrderInvariant, PTL DEF OrderSpec, DecisionsAreFinal

-----------------------------------------------------------------------------
(* The composition *)

orderLog(q)     == topic["order-events"][q]
inventoryLog(q) == topic["inventory-events"][q]

\* A message is a row of the outbox it comes from, however often it was
\* published; a handler in flight works on such a row.
MessagesAreRows == \A q \in Partitions :
  /\ \A k \in DOMAIN orderLog(q) : orderLog(q)[k] \in DOMAIN orderOutbox
  /\ \A k \in DOMAIN inventoryLog(q) : inventoryLog(q)[k] \in DOMAIN invOutbox
  /\ handling[q] # Nil =>
       /\ handling[q].event \in DOMAIN invOutbox
       /\ invOutbox[handling[q].event] = Event(handling[q].type, handling[q].order)

\* An order is cancelled for want of stock only if inventory has said so.
OutOfStockIsAnswered == \A o \in Orders :
  order[o].reason = "OUT_OF_STOCK" => Says(invOutbox, "ReservationFailed", o)

SagaInv == OrderInv /\ InventoryInv /\ NetTypeOK /\ MessagesAreRows
             /\ ReservationsFollowOrders /\ AnswersMatchReservations /\ OutOfStockIsAnswered

\* What a single partition key for both events of an order would give.
SameKey == \A o \in Orders : PartitionOfUser[UserOf[o]] = PartitionOfOrder[o]

\* What one key does not give: a row of order-events is appended to its log
\* only when every older row has been sent, and none is passed over. Batches of
\* two instances under SKIP LOCKED, the continue after a failed publish and a
\* handler that fails all break this. Nothing else is excluded: rows may still
\* be appended twice and delivered again.
InTurn ==
  /\ \A i \in DOMAIN orderOutbox : AppendToTopic("order-events", i) =>
       \A j \in 1..(i - 1) : j \in sent["order-events"]
  /\ \A q \in Partitions : ~PassOver("order-events", q)

\* A row marked sent is in the log its key belongs to.
SentAreInLog == \A i \in sent["order-events"] :
  /\ i \in DOMAIN orderOutbox
  /\ LET q == PartitionOf(orderOutbox[i])
     IN \E l \in DOMAIN orderLog(q) : orderLog(q)[l] = i

\* Before a row lie all older rows of its partition.
LogsComplete == \A q \in Partitions : \A k \in DOMAIN orderLog(q) :
  /\ PartitionOf(orderOutbox[orderLog(q)[k]]) = q
  /\ \A j \in 1..(orderLog(q)[k] - 1) :
       PartitionOf(orderOutbox[j]) = q => \E l \in 1..(k - 1) : orderLog(q)[l] = j

\* What lies below a consumer's position has been processed.
HandledBelow == \A q \in Partitions :
  /\ position["order-events"][q] <= Len(orderLog(q)) + 1
  /\ \A k \in 1..(position["order-events"][q] - 1) : orderLog(q)[k] \in invProcessed

\* No cancellation is processed before the creation of its order.
CancelledAfterCreated == \A c \in invProcessed :
  /\ c \in DOMAIN orderOutbox
  /\ orderOutbox[c].type = "OrderCancelled" =>
       \E i \in invProcessed : orderOutbox[i] = Event("OrderCreated", orderOutbox[c].order)

TornAreCreations == \A i \in torn :
  i \in DOMAIN orderOutbox /\ orderOutbox[i].type = "OrderCreated"

InOrder == SentAreInLog /\ LogsComplete /\ HandledBelow /\ CancelledAfterCreated
             /\ TornAreCreations

\* A cancellation that inventory has handled is final: no reservation of the
\* order is active, then or later.
NoLateReservation == \A o \in Orders : \A j \in invProcessed :
  j \in DOMAIN orderOutbox /\ orderOutbox[j] = Event("OrderCancelled", o)
    => reservation[o] # "reserved"

-----------------------------------------------------------------------------
\* A partition at which a consumer finds a message yields a row of the outbox.
LEMMA OrderMessage ==
  ASSUME NetTypeOK, MessagesAreRows, OrderTypeOK,
         NEW q \in Partitions, HasMessage("order-events", q)
  PROVE  /\ position["order-events"][q] \in DOMAIN orderLog(q)
         /\ Message("order-events", q) = orderLog(q)[position["order-events"][q]]
         /\ Message("order-events", q) \in DOMAIN orderOutbox
         /\ Message("order-events", q) \in Nat
         /\ orderOutbox[Message("order-events", q)] \in OrderEvents
<1>1. /\ orderLog(q) \in Seq(Nat \ {0})
      /\ position["order-events"][q] \in Nat \ {0}
  BY DEF NetTypeOK, Topics, orderLog
<1>2. position["order-events"][q] \in DOMAIN orderLog(q)
  BY <1>1 DEF HasMessage, orderLog
<1>3. Message("order-events", q) \in DOMAIN orderOutbox
  BY <1>2 DEF MessagesAreRows, Message, orderLog
<1> QED
  BY <1>2, <1>3 DEF OrderTypeOK, Message, orderLog

\* The same on the way back.
LEMMA InventoryMessage ==
  ASSUME NetTypeOK, MessagesAreRows, InvTypeOK,
         NEW q \in Partitions, HasMessage("inventory-events", q)
  PROVE  /\ Message("inventory-events", q) \in DOMAIN invOutbox
         /\ Message("inventory-events", q) \in Nat
         /\ invOutbox[Message("inventory-events", q)] \in InventoryEvents
<1>1. /\ inventoryLog(q) \in Seq(Nat \ {0})
      /\ position["inventory-events"][q] \in Nat \ {0}
  BY DEF NetTypeOK, Topics, inventoryLog
<1>2. position["inventory-events"][q] \in DOMAIN inventoryLog(q)
  BY <1>1 DEF HasMessage, inventoryLog
<1>3. Message("inventory-events", q) \in DOMAIN invOutbox
  BY <1>2 DEF MessagesAreRows, Message, inventoryLog
<1> QED
  BY <1>3 DEF InvTypeOK

\* Steps that move messages only.
NetStep ==
  \/ \E t \in Topics : Poll(t) \/ FaultStep(t)

\* The composition makes no step its parts could not make.
LEMMA StepOfParts ==
  ASSUME OrderTypeOK, InvTypeOK, NetTypeOK, MessagesAreRows, [Next]_vars
  PROVE  [AnyOrderNext]_orderVars /\ [AnyInvNext]_invVars
<1>1. CASE ClientStep
  BY <1>1 DEF ClientStep, AnyOrderNext
<1>2. CASE NetStep
  BY <1>2 DEF NetStep, Poll, FaultStep, Publish, PublishOutOfOrder, PublishUnmarked,
              PassOver, Redeliver
<1>3. ASSUME NEW q \in Partitions, ConsumeOrderEvent(q) \/ TearOrderEvent(q)
      PROVE  [AnyOrderNext]_orderVars /\ [AnyInvNext]_invVars
  <2> DEFINE i == Message("order-events", q)
  <2>1. HasMessage("order-events", q) /\ UNCHANGED orderVars
    BY <1>3 DEF ConsumeOrderEvent, TearOrderEvent
  <2>2. i \in Nat /\ orderOutbox[i].order \in Orders
    BY <2>1, OrderMessage DEF OrderEvents
  <2>3. \/ UNCHANGED invVars
        \/ handleOrderCreated(i, orderOutbox[i].order)
        \/ RecordTorn(i)
        \/ handleOrderCancelled(i, orderOutbox[i].order)
        \/ RejectUnrecorded(i, orderOutbox[i].order)
    BY <1>3 DEF ConsumeOrderEvent, TearOrderEvent
  <2> HIDE DEF i
  <2> QED
    BY <2>1, <2>2, <2>3 DEF AnyInvNext
<1>4. ASSUME NEW q \in Partitions, BeginDelivery(q)
      PROVE  [AnyOrderNext]_orderVars /\ [AnyInvNext]_invVars
  <2> DEFINE i == Message("inventory-events", q)
  <2>1. /\ HasMessage("inventory-events", q) /\ UNCHANGED invVars
        /\ BeginInventoryEvent(q, i, invOutbox[i].type, invOutbox[i].order)
    BY <1>4 DEF BeginDelivery
  <2>2. /\ i \in Nat /\ invOutbox[i].type \in InventoryEventTypes
        /\ invOutbox[i].order \in Orders
    BY <2>1, InventoryMessage DEF InventoryEvents
  <2> HIDE DEF i
  <2> QED
    BY <2>1, <2>2, HandlersAssumption DEF AnyOrderNext
<1>5. ASSUME NEW q \in Partitions, EndDelivery(q) \/ AbortDelivery(q)
      PROVE  [AnyOrderNext]_orderVars /\ [AnyInvNext]_invVars
  BY <1>5, HandlersAssumption DEF EndDelivery, AbortDelivery, AnyOrderNext
<1>6. CASE UNCHANGED vars
  BY <1>6 DEF vars
<1> QED
  BY <1>1, <1>2, <1>3, <1>4, <1>5, <1>6 DEF Next, NetStep, Deliver

\* What a step does to reservations and to the outbox of inventory-rpc: nothing,
\* a reservation for an order that exists, a rejection, or a release for an
\* order that is cancelled.
LEMMA InventoryCases ==
  ASSUME SagaInv, [Next]_vars
  PROVE  \/ UNCHANGED <<reservation, invOutbox>>
         \/ \E o \in Orders :
              /\ order[o].status # "none" /\ reservation[o] = "none"
              /\ reservation' = [reservation EXCEPT ![o] = "reserved"]
              /\ invOutbox' = Append(invOutbox, Event("InventoryReserved", o))
              /\ UNCHANGED order
         \/ \E o \in Orders :
              /\ invOutbox' = Append(invOutbox, Event("ReservationFailed", o))
              /\ UNCHANGED <<reservation, order>>
         \/ \E o \in Orders :
              /\ order[o].status = "cancelled" /\ reservation[o] = "reserved"
              /\ reservation' = [reservation EXCEPT ![o] = "released"]
              /\ UNCHANGED <<invOutbox, order>>
<1> USE DEF SagaInv
<1>1. ASSUME NEW q \in Partitions, ConsumeOrderEvent(q) \/ TearOrderEvent(q)
      PROVE  \/ UNCHANGED <<reservation, invOutbox>>
             \/ \E o \in Orders :
                  /\ order[o].status # "none" /\ reservation[o] = "none"
                  /\ reservation' = [reservation EXCEPT ![o] = "reserved"]
                  /\ invOutbox' = Append(invOutbox, Event("InventoryReserved", o))
                  /\ UNCHANGED order
             \/ \E o \in Orders :
                  /\ invOutbox' = Append(invOutbox, Event("ReservationFailed", o))
                  /\ UNCHANGED <<reservation, order>>
             \/ \E o \in Orders :
                  /\ order[o].status = "cancelled" /\ reservation[o] = "reserved"
                  /\ reservation' = [reservation EXCEPT ![o] = "released"]
                  /\ UNCHANGED <<invOutbox, order>>
  <2> DEFINE i == Message("order-events", q)
             o == orderOutbox[i].order
  <2>1. HasMessage("order-events", q) /\ UNCHANGED order
    BY <1>1 DEF ConsumeOrderEvent, TearOrderEvent, orderVars
  <2>2. i \in DOMAIN orderOutbox /\ orderOutbox[i] \in OrderEvents
    BY <2>1, OrderMessage DEF OrderInv, InventoryInv
  <2>3. o \in Orders /\ orderOutbox[i] = Event(orderOutbox[i].type, o)
    BY <2>2 DEF OrderEvents, Event
  <2>4. \/ UNCHANGED invVars
        \/ orderOutbox[i].type = "OrderCreated" /\ handleOrderCreated(i, o)
        \/ RecordTorn(i)
        \/ orderOutbox[i].type = "OrderCancelled" /\ handleOrderCancelled(i, o)
        \/ RejectUnrecorded(i, o)
    BY <1>1 DEF ConsumeOrderEvent, TearOrderEvent
  <2>5. orderOutbox[i].type = "OrderCreated" => order[o].status # "none"
    BY <2>2, <2>3 DEF OrderInv, EventsMatchOrders
  <2>6. orderOutbox[i].type = "OrderCancelled" => order[o].status = "cancelled"
    BY <2>2, <2>3 DEF OrderInv, EventsMatchOrders
  <2> HIDE DEF i, o
  <2> QED
    BY <2>1, <2>3, <2>4, <2>5, <2>6
    DEF handleOrderCreated, handleOrderCancelled, RecordTorn, RejectUnrecorded, Reserve,
        RejectOutOfStock, RejectOnLockError, Release, ReleaseNothing, writeOutbox, invVars
<1>2. ASSUME NEW q \in Partitions, BeginDelivery(q) \/ EndDelivery(q) \/ AbortDelivery(q)
      PROVE  UNCHANGED invVars
  BY <1>2 DEF BeginDelivery, EndDelivery, AbortDelivery
<1>3. CASE ClientStep \/ NetStep
  BY <1>3 DEF ClientStep, NetStep, Poll, FaultStep, Publish, PublishOutOfOrder,
              PublishUnmarked, PassOver, Redeliver, invVars
<1>4. CASE UNCHANGED vars
  BY <1>4 DEF vars, invVars
<1> QED
  BY <1>1, <1>2, <1>3, <1>4 DEF Next, NetStep, Deliver, invVars

-----------------------------------------------------------------------------
\* Every event has a partition ...
LEMMA EventPartition ==
  ASSUME NEW ev, ev.order \in Orders
  PROVE  PartitionOf(ev) \in Partitions
BY PartitionAssumption, UserOfAssumption DEF PartitionOf

\* ... and so has every row of an outbox.
LEMMA PartitionTyping ==
  ASSUME OrderTypeOK, InvTypeOK, NEW t \in Topics, NEW i \in DOMAIN outbox(t)
  PROVE  PartitionOf(outbox(t)[i]) \in Partitions /\ i \in Nat \ {0}
<1>1. CASE t = "order-events"
  <2>1. outbox(t) = orderOutbox
    BY <1>1 DEF outbox
  <2>2. orderOutbox[i] \in OrderEvents /\ i \in Nat \ {0}
    BY <2>1 DEF OrderTypeOK
  <2>3. orderOutbox[i].order \in Orders
    BY <2>2 DEF OrderEvents
  <2> QED
    BY <2>1, <2>2, <2>3, EventPartition
<1>2. CASE t = "inventory-events"
  <2>1. outbox(t) = invOutbox
    BY <1>2 DEF outbox
  <2>2. invOutbox[i] \in InventoryEvents /\ i \in Nat \ {0}
    BY <2>1 DEF InvTypeOK
  <2>3. invOutbox[i].order \in Orders
    BY <2>2 DEF InventoryEvents
  <2> QED
    BY <2>1, <2>2, <2>3, EventPartition
<1> QED
  BY <1>1, <1>2 DEF Topics

\* A publication appends one row to one partition of one topic.
LEMMA PublishTyping ==
  ASSUME OrderTypeOK, InvTypeOK, NetTypeOK,
         NEW t \in Topics, NEW i \in DOMAIN outbox(t), AppendToTopic(t, i)
  PROVE  /\ topic' \in [Topics -> [Partitions -> Seq(Nat \ {0})]]
         /\ \A u \in Topics, q \in Partitions :
              topic'[u][q] = IF u = t /\ q = PartitionOf(outbox(t)[i])
                             THEN Append(topic[u][q], i) ELSE topic[u][q]
<1> DEFINE p == PartitionOf(outbox(t)[i])
<1>1. p \in Partitions /\ i \in Nat \ {0}
  BY PartitionTyping
<1>2. topic' = [topic EXCEPT ![t] = [topic[t] EXCEPT ![p] = Append(topic[t][p], i)]]
  BY DEF AppendToTopic, NetTypeOK
<1>3. topic \in [Topics -> [Partitions -> Seq(Nat \ {0})]]
  BY DEF NetTypeOK
<1> HIDE DEF p
<1>4. [topic[t] EXCEPT ![p] = Append(topic[t][p], i)] \in [Partitions -> Seq(Nat \ {0})]
  BY <1>1, <1>3
<1>5. topic' \in [Topics -> [Partitions -> Seq(Nat \ {0})]]
  BY <1>2, <1>3, <1>4
<1>6. \A u \in Topics, q \in Partitions :
        topic'[u][q] = IF u = t /\ q = p THEN Append(topic[u][q], i) ELSE topic[u][q]
  BY <1>1, <1>2, <1>3
<1> QED
  BY <1>5, <1>6 DEF p

\* A consumer's position changes in one partition of one topic.
LEMMA PositionTyping ==
  ASSUME NetTypeOK, NEW t \in Topics, NEW q \in Partitions, NEW k \in Nat \ {0},
         position' = [position EXCEPT ![t][q] = k]
  PROVE  /\ position' \in [Topics -> [Partitions -> Nat \ {0}]]
         /\ \A u \in Topics, p \in Partitions :
              position'[u][p] = IF u = t /\ p = q THEN k ELSE position[u][p]
<1>1. position' = [position EXCEPT ![t] = [position[t] EXCEPT ![q] = k]]
  BY DEF NetTypeOK
<1>2. position \in [Topics -> [Partitions -> Nat \ {0}]]
  BY DEF NetTypeOK
<1>3. [position[t] EXCEPT ![q] = k] \in [Partitions -> Nat \ {0}]
  BY <1>2
<1> QED
  BY <1>1, <1>2, <1>3

\* Advance moves it by one.
LEMMA AdvanceTyping ==
  ASSUME NetTypeOK, NEW t \in Topics, NEW q \in Partitions, Advance(t, q)
  PROVE  /\ position' \in [Topics -> [Partitions -> Nat \ {0}]]
         /\ \A u \in Topics, p \in Partitions :
              position'[u][p] = IF u = t /\ p = q THEN position[u][p] + 1 ELSE position[u][p]
<1>1. position[t][q] + 1 \in Nat \ {0}
  BY DEF NetTypeOK
<1>2. position' = [position EXCEPT ![t][q] = position[t][q] + 1]
  BY DEF Advance, NetTypeOK
<1> QED
  BY <1>1, <1>2, PositionTyping

\* Publications and deliveries keep the types of topics and offsets.
LEMMA NetTyping ==
  ASSUME OrderTypeOK, InvTypeOK, NetTypeOK, [Next]_vars
  PROVE  NetTypeOK'
<1> USE MaxFaultsAssumption DEF Fault
<1>1. ASSUME NEW t \in Topics, NEW i \in DOMAIN outbox(t),
             Publish(t, i) \/ PublishOutOfOrder(t, i) \/ PublishUnmarked(t, i)
      PROVE  NetTypeOK'
  <2>1. AppendToTopic(t, i) /\ position' = position
    BY <1>1 DEF Publish, PublishOutOfOrder, PublishUnmarked
  <2>2. topic' \in [Topics -> [Partitions -> Seq(Nat \ {0})]]
    BY <2>1, PublishTyping
  <2>3. sent' \in [Topics -> SUBSET (Nat \ {0})]
    <3>1. i \in Nat \ {0} /\ sent \in [Topics -> SUBSET (Nat \ {0})]
      BY PartitionTyping DEF NetTypeOK
    <3>2. sent' = sent \/ sent' = [sent EXCEPT ![t] = @ \cup {i}]
      BY <1>1 DEF Publish, PublishOutOfOrder, PublishUnmarked
    <3> QED
      BY <3>1, <3>2
  <2>4. faults' \in 0..MaxFaults
    BY <1>1 DEF NetTypeOK, Publish, PublishOutOfOrder, PublishUnmarked
  <2> QED
    BY <2>1, <2>2, <2>3, <2>4 DEF NetTypeOK
<1>2. ASSUME NEW t \in Topics, NEW q \in Partitions, PassOver(t, q) \/ Redeliver(t, q)
      PROVE  NetTypeOK'
  <2>1. position' \in [Topics -> [Partitions -> Nat \ {0}]]
    <3>1. CASE PassOver(t, q)
      BY <3>1, AdvanceTyping DEF PassOver
    <3>2. CASE Redeliver(t, q)
      <4>1. PICK k \in 1..(position[t][q] - 1) : position' = [position EXCEPT ![t][q] = k]
        BY <3>2 DEF Redeliver
      <4>2. k \in Nat \ {0}
        BY <4>1 DEF NetTypeOK
      <4> QED
        BY <4>1, <4>2, PositionTyping
    <3> QED
      BY <1>2, <3>1, <3>2
  <2> QED
    BY <1>2, <2>1 DEF NetTypeOK, PassOver, Redeliver
<1>3. ASSUME NEW q \in Partitions, ConsumeOrderEvent(q) \/ EndDelivery(q)
      PROVE  NetTypeOK'
  <2>1. position' \in [Topics -> [Partitions -> Nat \ {0}]]
    BY <1>3, AdvanceTyping DEF ConsumeOrderEvent, EndDelivery, Topics
  <2> QED
    BY <1>3, <2>1 DEF NetTypeOK, ConsumeOrderEvent, EndDelivery
<1>4. ASSUME NEW q \in Partitions, BeginDelivery(q) \/ TearOrderEvent(q) \/ AbortDelivery(q)
      PROVE  NetTypeOK'
  BY <1>4 DEF NetTypeOK, BeginDelivery, TearOrderEvent, AbortDelivery, netVars
<1>5. CASE ClientStep \/ UNCHANGED vars
  BY <1>5 DEF NetTypeOK, ClientStep, vars, netVars
<1> QED
  BY <1>1, <1>2, <1>3, <1>4, <1>5 DEF Next, Poll, FaultStep, Deliver

\* Outboxes only grow: a row keeps its position and its event.
LEMMA OutboxesGrow ==
  ASSUME SagaInv, [Next]_vars
  PROVE  /\ \A i \in DOMAIN orderOutbox :
              i \in DOMAIN orderOutbox' /\ orderOutbox'[i] = orderOutbox[i]
         /\ \A i \in DOMAIN invOutbox :
              i \in DOMAIN invOutbox' /\ invOutbox'[i] = invOutbox[i]
<1>1. [AnyOrderNext]_orderVars
  BY StepOfParts DEF SagaInv, OrderInv, InventoryInv
<1>2. orderOutbox' = orderOutbox \/ \E e \in OrderEvents : orderOutbox' = Append(orderOutbox, e)
  <2>1. OrderInv /\ order \in [Orders -> OrderRow]
    BY DEF SagaInv, OrderInv, OrderTypeOK
  <2> QED
    BY <1>1, <2>1, OrderCases, OrderRowTyping DEF CreateOrder
<1>3. invOutbox' = invOutbox \/ \E e \in InventoryEvents : invOutbox' = Append(invOutbox, e)
  <2>1. \A o \in Orders : /\ Event("InventoryReserved", o) \in InventoryEvents
                          /\ Event("ReservationFailed", o) \in InventoryEvents
    BY DEF Event, InventoryEvents, InventoryEventTypes
  <2> QED
    BY <2>1, InventoryCases
<1>4. orderOutbox \in Seq(OrderEvents) /\ invOutbox \in Seq(InventoryEvents)
  BY DEF SagaInv, OrderInv, OrderTypeOK, InventoryInv, InvTypeOK
<1> QED
  BY <1>2, <1>3, <1>4, Appended

\* Appending an element of a set to a sequence over it.
LEMMA AppendedIn ==
  ASSUME NEW S, NEW s \in Seq(S), NEW e \in S, NEW D, e \in D,
         \A k \in DOMAIN s : s[k] \in D
  PROVE  \A k \in DOMAIN Append(s, e) : Append(s, e)[k] \in D
BY Appended

\* Every message still is a row after a step ...
LEMMA LogStep ==
  ASSUME SagaInv, [Next]_vars, NEW q \in Partitions
  PROVE  /\ \A k \in DOMAIN orderLog(q)' : orderLog(q)'[k] \in DOMAIN orderOutbox'
         /\ \A k \in DOMAIN inventoryLog(q)' : inventoryLog(q)'[k] \in DOMAIN invOutbox'
<1> USE DEF SagaInv, OrderInv, InventoryInv
<1>1. /\ \A k \in DOMAIN orderLog(q) : orderLog(q)[k] \in DOMAIN orderOutbox'
      /\ \A k \in DOMAIN inventoryLog(q) : inventoryLog(q)[k] \in DOMAIN invOutbox'
  BY OutboxesGrow DEF MessagesAreRows
<1>2. ASSUME NEW t \in Topics, NEW i \in DOMAIN outbox(t), AppendToTopic(t, i),
             UNCHANGED <<orderOutbox, invOutbox>>
      PROVE  /\ \A k \in DOMAIN orderLog(q)' : orderLog(q)'[k] \in DOMAIN orderOutbox'
             /\ \A k \in DOMAIN inventoryLog(q)' : inventoryLog(q)'[k] \in DOMAIN invOutbox'
  <2>1. i \in Nat \ {0}
    BY PartitionTyping
  <2>2. orderLog(q) \in Seq(Nat \ {0}) /\ inventoryLog(q) \in Seq(Nat \ {0})
    BY DEF NetTypeOK, Topics, orderLog, inventoryLog
  <2>3. /\ orderLog(q)' = orderLog(q) \/ (orderLog(q)' = Append(orderLog(q), i) /\ t = "order-events")
        /\ \/ inventoryLog(q)' = inventoryLog(q)
           \/ inventoryLog(q)' = Append(inventoryLog(q), i) /\ t = "inventory-events"
    BY <1>2, PublishTyping DEF orderLog, inventoryLog, Topics
  <2>4. /\ t = "order-events" => i \in DOMAIN orderOutbox'
        /\ t = "inventory-events" => i \in DOMAIN invOutbox'
    BY <1>2 DEF outbox
  <2>5. \A k \in DOMAIN orderLog(q)' : orderLog(q)'[k] \in DOMAIN orderOutbox'
    BY <1>1, <2>1, <2>2, <2>3, <2>4, AppendedIn
  <2>6. \A k \in DOMAIN inventoryLog(q)' : inventoryLog(q)'[k] \in DOMAIN invOutbox'
    BY <1>1, <2>1, <2>2, <2>3, <2>4, AppendedIn
  <2> QED
    BY <2>5, <2>6
<1>3. CASE topic' = topic
  BY <1>1, <1>3 DEF orderLog, inventoryLog
<1> QED
  BY <1>2, <1>3
  DEF Next, Poll, FaultStep, Deliver, Publish, PublishOutOfOrder, PublishUnmarked, PassOver,
      Redeliver, ConsumeOrderEvent, TearOrderEvent, BeginDelivery, EndDelivery, AbortDelivery,
      ClientStep, orderVars, invVars, netVars, vars

\* ... and handlers in flight work on rows.
LEMMA HandlingStep ==
  ASSUME SagaInv, [Next]_vars, NEW q \in Partitions, handling'[q] # Nil
  PROVE  /\ handling'[q].event \in DOMAIN invOutbox'
         /\ invOutbox'[handling'[q].event] = Event(handling'[q].type, handling'[q].order)
<1> USE DEF SagaInv, OrderInv, InventoryInv
<1>1. CASE handling'[q] = handling[q]
  BY <1>1, OutboxesGrow DEF MessagesAreRows
<1>2. CASE BeginDelivery(q)
  <2> DEFINE i == Message("inventory-events", q)
  <2>1. /\ HasMessage("inventory-events", q)
        /\ handling' = [handling EXCEPT ![q] = [event |-> i, type |-> invOutbox[i].type,
                           order |-> invOutbox[i].order, seen |-> order[invOutbox[i].order]]]
        /\ invOutbox' = invOutbox
    BY <1>2 DEF BeginDelivery, BeginInventoryEvent, invVars
  <2>2. i \in DOMAIN invOutbox /\ invOutbox[i] \in InventoryEvents
    BY <2>1, InventoryMessage
  <2>3. invOutbox[i] = Event(invOutbox[i].type, invOutbox[i].order)
    BY <2>2 DEF InventoryEvents, Event
  <2> HIDE DEF i
  <2>4. handling'[q].event = i /\ handling'[q].type = invOutbox[i].type
          /\ handling'[q].order = invOutbox[i].order
    BY <2>1, HandlersAssumption DEF OrderTypeOK
  <2> QED
    BY <2>1, <2>2, <2>3, <2>4
<1>3. handling' = handling \/ \E p \in Partitions :
        BeginDelivery(p) \/ handling' = [handling EXCEPT ![p] = Nil]
  BY DEF Next, Poll, FaultStep, Deliver, Publish, PublishOutOfOrder, PublishUnmarked, PassOver,
      Redeliver, ConsumeOrderEvent, TearOrderEvent, EndDelivery, AbortDelivery, ClientStep,
      CreateOrder, RequestStep, ReadOrder, CancelOrder, PayOrder, RequestFails, AutoCancel,
      IgnoreInventoryEvent, MarkProcessed, HandlerFails, orderVars, vars
<1>4. handling' = handling \/ \E p \in Partitions :
        \/ BeginDelivery(p) /\ (p = q \/ handling'[q] = handling[q])
        \/ handling'[q] \in {handling[q], Nil}
  BY <1>3, HandlersAssumption DEF BeginDelivery, BeginInventoryEvent, OrderTypeOK
<1> QED
  BY <1>1, <1>2, <1>4

\* Reservations follow the orders: stock is taken for orders that exist, given
\* back for cancelled ones, and neither status is ever left.
LEMMA FollowStep ==
  ASSUME SagaInv, [Next]_vars
  PROVE  ReservationsFollowOrders'
<1> USE DEF SagaInv
<1>1. [AnyOrderNext]_orderVars
  BY StepOfParts DEF OrderInv, InventoryInv
<1>2. /\ order \in [Orders -> OrderRow]
      /\ reservation \in [Orders -> {"none", "reserved", "released"}]
  BY DEF OrderInv, OrderTypeOK, InventoryInv, InvTypeOK
<1>3. \A o \in Orders : order[o].status = "cancelled" => order'[o].status = "cancelled"
  BY <1>1, DecisionStep
<1>4. \A o \in Orders : order[o].status # "none" => order'[o].status # "none"
  <2>1. /\ NewOrder.status = "pending"
        /\ \A o \in Orders : Paid(o).status = "paid"
        /\ \A o \in Orders, reason \in Reasons : Cancelled(o, reason).status = "cancelled"
    BY DEF NewOrder, Paid, Cancelled
  <2>2. \A p \in Orders : CreateOrder(p) => order' = [order EXCEPT ![p] = NewOrder]
    BY DEF CreateOrder
  <2> QED
    BY <1>1, <1>2, <2>1, <2>2, OrderCases
<1>5. CASE UNCHANGED reservation
  BY <1>3, <1>4, <1>5 DEF ReservationsFollowOrders
<1>6. ASSUME NEW o \in Orders, order[o].status # "none",
             reservation' = [reservation EXCEPT ![o] = "reserved"], UNCHANGED order
      PROVE  ReservationsFollowOrders'
  BY <1>2, <1>6 DEF ReservationsFollowOrders
<1>7. ASSUME NEW o \in Orders, order[o].status = "cancelled",
             reservation' = [reservation EXCEPT ![o] = "released"], UNCHANGED order
      PROVE  ReservationsFollowOrders'
  BY <1>2, <1>7 DEF ReservationsFollowOrders
<1> QED
  BY <1>5, <1>6, <1>7, InventoryCases

\* Events of inventory-rpc of different types or orders differ.
LEMMA AnswersDiffer ==
  \A o, p : /\ Event("InventoryReserved", o) # Event("ReservationFailed", p)
            /\ Event("InventoryReserved", o) = Event("InventoryReserved", p) => o = p
            /\ Event("InventoryReserved", o).type = "InventoryReserved"
            /\ Event("ReservationFailed", o).type # "InventoryReserved"
BY DEF Event

\* Answers are given with reservations: a transaction writes both or neither.
LEMMA AnswersStep ==
  ASSUME SagaInv, [Next]_vars
  PROVE  AnswersMatchReservations'
<1> USE DEF SagaInv, Says
<1>1. /\ invOutbox \in Seq(InventoryEvents)
      /\ reservation \in [Orders -> {"none", "reserved", "released"}]
  BY DEF InventoryInv, InvTypeOK
<1>2. \A o \in Orders : /\ Event("InventoryReserved", o) \in InventoryEvents
                        /\ Event("ReservationFailed", o) \in InventoryEvents
  BY DEF Event, InventoryEvents, InventoryEventTypes
<1>3. CASE UNCHANGED <<reservation, invOutbox>>
  BY <1>3 DEF AnswersMatchReservations
<1>4. ASSUME NEW o \in Orders, reservation[o] = "none",
             reservation' = [reservation EXCEPT ![o] = "reserved"],
             invOutbox' = Append(invOutbox, Event("InventoryReserved", o))
      PROVE  AnswersMatchReservations'
  <2> DEFINE e == Event("InventoryReserved", o)
             last == Len(invOutbox) + 1
  <2>1. /\ DOMAIN invOutbox' = DOMAIN invOutbox \cup {last}
        /\ \A i \in DOMAIN invOutbox : i < last /\ invOutbox'[i] = invOutbox[i]
        /\ invOutbox'[last] = e
    BY <1>1, <1>2, <1>4, Appended
  <2>2. \A i \in DOMAIN invOutbox : invOutbox[i] # e
    BY <1>4 DEF AnswersMatchReservations
  <2>3. \A p \in Orders : Event("InventoryReserved", p) = e <=> p = o
    BY AnswersDiffer
  <2> HIDE DEF e, last
  <2>4. \A p \in Orders : reservation'[p] # "none" <=> (p = o \/ reservation[p] # "none")
    BY <1>1, <1>4
  <2>5. \A p \in Orders : reservation'[p] # "none" <=>
          \E i \in DOMAIN invOutbox' : invOutbox'[i] = Event("InventoryReserved", p)
    BY <2>1, <2>3, <2>4 DEF AnswersMatchReservations
  <2>6. \A i, j \in DOMAIN invOutbox' :
          invOutbox'[i] = invOutbox'[j] /\ invOutbox'[i].type = "InventoryReserved" => i = j
    BY <2>1, <2>2 DEF AnswersMatchReservations
  <2> QED
    BY <2>5, <2>6 DEF AnswersMatchReservations
<1>5. ASSUME NEW o \in Orders, UNCHANGED reservation,
             invOutbox' = Append(invOutbox, Event("ReservationFailed", o))
      PROVE  AnswersMatchReservations'
  <2> DEFINE e == Event("ReservationFailed", o)
             last == Len(invOutbox) + 1
  <2>1. /\ DOMAIN invOutbox' = DOMAIN invOutbox \cup {last}
        /\ \A i \in DOMAIN invOutbox : i < last /\ invOutbox'[i] = invOutbox[i]
        /\ invOutbox'[last] = e
    BY <1>1, <1>2, <1>5, Appended
  <2>2. e.type # "InventoryReserved" /\ \A p \in Orders : Event("InventoryReserved", p) # e
    BY AnswersDiffer
  <2> HIDE DEF e, last
  <2>3. \A i \in DOMAIN invOutbox' :
          invOutbox'[i].type = "InventoryReserved" => i \in DOMAIN invOutbox
    BY <2>1, <2>2
  <2>4. \A i, j \in DOMAIN invOutbox' :
          invOutbox'[i] = invOutbox'[j] /\ invOutbox'[i].type = "InventoryReserved" => i = j
    BY <2>1, <2>3 DEF AnswersMatchReservations
  <2>5. \A p \in Orders : reservation'[p] # "none" <=>
          \E i \in DOMAIN invOutbox' : invOutbox'[i] = Event("InventoryReserved", p)
    BY <1>5, <2>1, <2>2 DEF AnswersMatchReservations
  <2> QED
    BY <2>4, <2>5 DEF AnswersMatchReservations
<1>6. ASSUME NEW o \in Orders, reservation[o] = "reserved", UNCHANGED invOutbox,
             reservation' = [reservation EXCEPT ![o] = "released"]
      PROVE  AnswersMatchReservations'
  <2>1. \A p \in Orders : reservation'[p] # "none" <=> reservation[p] # "none"
    BY <1>1, <1>6
  <2> QED
    BY <1>6, <2>1 DEF AnswersMatchReservations
<1> QED
  BY <1>3, <1>4, <1>5, <1>6, InventoryCases

\* Only AutoCancel writes the reason OUT_OF_STOCK, and it handles a rejection.
LEMMA ReasonStep ==
  ASSUME SagaInv, [Next]_vars
  PROVE  OutOfStockIsAnswered'
<1> USE DEF SagaInv, Says
<1>1. order \in [Orders -> OrderRow]
  BY DEF OrderInv, OrderTypeOK
<1>2. \A o \in Orders : Says(invOutbox, "ReservationFailed", o) =>
                         Says(invOutbox, "ReservationFailed", o)'
  BY OutboxesGrow
<1>3. CASE \A o \in Orders : order'[o].reason = "OUT_OF_STOCK" =>
                              order[o].reason = "OUT_OF_STOCK"
  BY <1>2, <1>3 DEF OutOfStockIsAnswered
<1>4. ASSUME NEW q \in Partitions, AutoCancel(q)
      PROVE  OutOfStockIsAnswered'
  <2>1. /\ handling[q] # Nil /\ handling[q].type = "ReservationFailed"
        /\ order' = [order EXCEPT ![handling[q].order] =
                        Cancelled(handling[q].order, "OUT_OF_STOCK")]
    BY <1>4 DEF AutoCancel, MarkProcessed, CancelApplies, ReachesCancel
  <2>2. Says(invOutbox, "ReservationFailed", handling[q].order)
    BY <2>1 DEF MessagesAreRows
  <2>3. \A p \in Orders : p # handling[q].order => order'[p] = order[p]
    BY <1>1, <2>1
  <2> QED
    BY <1>2, <2>2, <2>3 DEF OutOfStockIsAnswered
<1>5. ASSUME NEW o \in Orders, CreateOrder(o)
      PROVE  \A p \in Orders : order'[p].reason = "OUT_OF_STOCK" =>
                                order[p].reason = "OUT_OF_STOCK"
  BY <1>1, <1>5 DEF CreateOrder, NewOrder
<1>6. ASSUME NEW r \in Requests, CancelOrder(r) \/ PayOrder(r)
      PROVE  \A p \in Orders : order'[p].reason = "OUT_OF_STOCK" =>
                                order[p].reason = "OUT_OF_STOCK"
  <2> DEFINE o == request[r].order
  <2>1. order' = [order EXCEPT ![o] = Cancelled(o, "USER_CANCELLED")] \/
        order' = [order EXCEPT ![o] = Paid(o)]
    BY <1>6 DEF CancelOrder, PayOrder
  <2>2. Cancelled(o, "USER_CANCELLED").reason = "USER_CANCELLED" /\ Paid(o).reason = order[o].reason
    BY DEF Cancelled, Paid
  <2> HIDE DEF o
  <2> QED
    BY <1>1, <2>1, <2>2
<1>7. \/ order' = order
      \/ \E o \in Orders : CreateOrder(o)
      \/ \E r \in Requests : CancelOrder(r) \/ PayOrder(r)
      \/ \E q \in Partitions : AutoCancel(q)
  BY DEF Next, Poll, FaultStep, Deliver, Publish, PublishOutOfOrder, PublishUnmarked, PassOver,
      Redeliver, ConsumeOrderEvent, TearOrderEvent, BeginDelivery, EndDelivery, AbortDelivery,
      ClientStep, RequestStep, ReadOrder, RequestFails, BeginInventoryEvent,
      IgnoreInventoryEvent, HandlerFails, orderVars, vars
<1> QED
  BY <1>3, <1>4, <1>5, <1>6, <1>7

\* One step of the saga keeps the invariant.
LEMMA SagaStep == SagaInv /\ [Next]_vars => SagaInv'
<1> SUFFICES ASSUME SagaInv, [Next]_vars PROVE SagaInv'
  OBVIOUS
<1>1. [AnyOrderNext]_orderVars /\ [AnyInvNext]_invVars
  BY StepOfParts DEF SagaInv, OrderInv, InventoryInv
<1>2. OrderInv' /\ InventoryInv'
  BY <1>1, OrderInvStep, InvStep DEF SagaInv
<1>3. NetTypeOK'
  BY NetTyping DEF SagaInv, OrderInv, InventoryInv
<1>4. MessagesAreRows'
  BY LogStep, HandlingStep DEF MessagesAreRows
<1> QED
  BY <1>2, <1>3, <1>4, FollowStep, AnswersStep, ReasonStep DEF SagaInv

\* Empty tables and topics satisfy the invariant.
LEMMA SagaInit == Init => SagaInv
<1> SUFFICES ASSUME Init PROVE SagaInv
  OBVIOUS
<1>1. OrderInv /\ InventoryInv
  BY OrderInitInv, InvInitInv DEF Init
<1>2. NetTypeOK
  <2>1. [q \in Partitions |-> <<>>] \in [Partitions -> Seq(Nat \ {0})]
    OBVIOUS
  <2>2. topic \in [Topics -> [Partitions -> Seq(Nat \ {0})]]
    BY <2>1 DEF Init
  <2> QED
    BY <2>2, MaxFaultsAssumption DEF Init, NetTypeOK
<1>3. MessagesAreRows
  BY HandlersAssumption DEF Init, MessagesAreRows, OrderInit, orderLog, inventoryLog, Topics
<1>4. /\ \A o \in Orders : reservation[o] = "none" /\ order[o].reason = ""
      /\ DOMAIN invOutbox = {}
  <2>1. invOutbox = <<>> /\ reservation = [o \in Orders |-> "none"]
    BY DEF Init, InvInit
  <2>2. \A o \in Orders : order[o].reason = ""
    BY DEF Init, OrderInit, NoOrder
  <2>3. DOMAIN invOutbox = {}
    BY <2>1
  <2>4. \A o \in Orders : reservation[o] = "none"
    BY <2>1
  <2> QED
    BY <2>2, <2>3, <2>4
<1>5. ReservationsFollowOrders /\ AnswersMatchReservations /\ OutOfStockIsAnswered
  BY <1>4 DEF ReservationsFollowOrders, AnswersMatchReservations, OutOfStockIsAnswered, Says
<1> QED
  BY <1>1, <1>2, <1>3, <1>5 DEF SagaInv

-----------------------------------------------------------------------------
\* The inductive invariant of the saga.
THEOREM SagaInvariant == Spec => []SagaInv
BY SagaInit, SagaStep, PTL DEF Spec

\* Type correctness of both services, the topics and the consumers' positions.
THEOREM SagaTypes == Spec => []TypeOK
<1>1. SagaInv => TypeOK
  BY DEF SagaInv, OrderInv, InventoryInv, TypeOK
<1> QED
  BY <1>1, SagaInvariant, PTL

\* Inventory acts on orders: it reserves for orders that exist and gives back
\* for cancelled ones only, however order-events are delayed, reordered,
\* repeated or passed over.
THEOREM StockFollowsOrders == Spec => []ReservationsFollowOrders
<1>1. SagaInv => ReservationsFollowOrders
  BY DEF SagaInv
<1> QED
  BY <1>1, SagaInvariant, PTL

\* InventoryReserved is announced exactly for the orders with a reservation,
\* and once for each, through lock errors, torn transactions and redelivery.
THEOREM AnswersTellReservations == Spec => []AnswersMatchReservations
<1>1. SagaInv => AnswersMatchReservations
  BY DEF SagaInv
<1> QED
  BY <1>1, SagaInvariant, PTL

\* order-api cancels for want of stock only orders that inventory has rejected.
THEOREM OnlyRejectedOutOfStock == Spec => []OutOfStockIsAnswered
<1>1. SagaInv => OutOfStockIsAnswered
  BY DEF SagaInv
<1> QED
  BY <1>1, SagaInvariant, PTL

\* What the services promise alone they keep in the saga: orders and outbox
\* agree without duplicates, and stock is conserved.
THEOREM PartsKeepPromises == Spec => [](EventsMatchOrders /\ NoDuplicateEvents /\ StockConserved)
<1>1. SagaInv => EventsMatchOrders /\ NoDuplicateEvents /\ StockConserved
  BY DEF SagaInv, OrderInv, InventoryInv
<1> QED
  BY <1>1, SagaInvariant, PTL

\* Paid and cancelled stay final against every delivery.
THEOREM SagaDecisionsFinal == Spec => DecisionsAreFinal
<1>1. SagaInv /\ [Next]_vars =>
        [\A o \in Orders : order[o].status \in {"paid", "cancelled"} =>
           order'[o] = order[o]]_orderVars
  <2> SUFFICES ASSUME SagaInv, [Next]_vars
               PROVE  \A o \in Orders : order[o].status \in {"paid", "cancelled"} =>
                        order'[o] = order[o]
    OBVIOUS
  <2> QED
    BY StepOfParts, DecisionStep DEF SagaInv, OrderInv, InventoryInv
<1> QED
  BY <1>1, SagaInvariant, PTL DEF Spec, DecisionsAreFinal

-----------------------------------------------------------------------------
(* One partition key for all events of an order *)

\* Steps that leave the log of order-events and inventory-rpc alone; a
\* consumer may go back to an older position.
LEMMA QuietStep ==
  ASSUME SagaInv, InOrder, NoLateReservation, [Next]_vars,
         \A q \in Partitions : orderLog(q)' = orderLog(q),
         sent'["order-events"] = sent["order-events"],
         \A q \in Partitions : position'["order-events"][q] <= position["order-events"][q],
         \A q \in Partitions : position'["order-events"][q] \in Nat,
         UNCHANGED <<invProcessed, torn, reservation>>
  PROVE  InOrder' /\ NoLateReservation'
<1>1. \A i \in DOMAIN orderOutbox :
        /\ i \in DOMAIN orderOutbox' /\ orderOutbox'[i] = orderOutbox[i]
        /\ PartitionOf(orderOutbox[i]) \in Partitions
        /\ PartitionOf(orderOutbox[i])' = PartitionOf(orderOutbox[i])
  <2>1. \A i \in DOMAIN orderOutbox : i \in DOMAIN orderOutbox' /\ orderOutbox'[i] = orderOutbox[i]
    BY OutboxesGrow
  <2>2. \A i \in DOMAIN orderOutbox : PartitionOf(orderOutbox[i]) \in Partitions
    BY PartitionTyping DEF SagaInv, OrderInv, InventoryInv, Topics, outbox
  <2> QED
    BY <2>1, <2>2 DEF PartitionOf
<1>2. /\ \A q \in Partitions : \A k \in DOMAIN orderLog(q) :
           /\ orderLog(q)[k] \in DOMAIN orderOutbox
           /\ \A j \in 1..(orderLog(q)[k] - 1) : j \in DOMAIN orderOutbox
      /\ \A q \in Partitions : orderLog(q) \in Seq(Nat \ {0})
      /\ \A q \in Partitions : position["order-events"][q] \in Nat
  <2>1. /\ \A q \in Partitions : \A k \in DOMAIN orderLog(q) :
             orderLog(q)[k] \in DOMAIN orderOutbox
        /\ \A q \in Partitions : orderLog(q) \in Seq(Nat \ {0})
        /\ \A q \in Partitions : position["order-events"][q] \in Nat
    BY DEF SagaInv, MessagesAreRows, NetTypeOK, Topics, orderLog
  <2>2. \A i \in DOMAIN orderOutbox : i \in Nat /\ \A j \in 1..(i - 1) : j \in DOMAIN orderOutbox
    BY DEF SagaInv, OrderInv, OrderTypeOK
  <2> QED
    BY <2>1, <2>2
<1>3. SentAreInLog'
  BY <1>1 DEF InOrder, SentAreInLog
<1>4. LogsComplete'
  <2> SUFFICES ASSUME NEW q \in Partitions, NEW k \in DOMAIN orderLog(q)
               PROVE  /\ PartitionOf(orderOutbox[orderLog(q)[k]])' = q
                      /\ \A j \in 1..(orderLog(q)[k] - 1) : PartitionOf(orderOutbox[j])' = q =>
                           \E l \in 1..(k - 1) : orderLog(q)[l] = j
    BY DEF LogsComplete
  <2>1. PartitionOf(orderOutbox[orderLog(q)[k]])' = PartitionOf(orderOutbox[orderLog(q)[k]])
    BY <1>1, <1>2 DEF PartitionOf, orderLog
  <2>2. \A j \in 1..(orderLog(q)[k] - 1) :
          PartitionOf(orderOutbox[j])' = PartitionOf(orderOutbox[j])
    BY <1>1, <1>2
  <2> QED
    BY <2>1, <2>2 DEF InOrder, LogsComplete
<1>5. HandledBelow'
  BY <1>2 DEF InOrder, HandledBelow
<1>6. CancelledAfterCreated'
  BY <1>1 DEF InOrder, CancelledAfterCreated
<1>7. TornAreCreations'
  BY <1>1 DEF InOrder, TornAreCreations
<1>8. NoLateReservation'
  BY <1>1 DEF InOrder, CancelledAfterCreated, NoLateReservation
<1> QED
  BY <1>3, <1>4, <1>5, <1>6, <1>7, <1>8 DEF InOrder

\* A row is appended, for the first time or again, after all older rows.
LEMMA AppendInTurn ==
  ASSUME SagaInv, InOrder, NoLateReservation, NEW i \in DOMAIN orderOutbox,
         AppendToTopic("order-events", i),
         \A j \in 1..(i - 1) : j \in sent["order-events"],
         sent'["order-events"] \subseteq sent["order-events"] \cup {i},
         UNCHANGED <<orderOutbox, invProcessed, torn, reservation, position>>
  PROVE  InOrder' /\ NoLateReservation'
<1> DEFINE p == PartitionOf(orderOutbox[i])
<1>1. /\ "order-events" \in Topics /\ outbox("order-events") = orderOutbox
      /\ p \in Partitions /\ i \in Nat \ {0}
  BY PartitionTyping DEF SagaInv, OrderInv, InventoryInv, Topics, outbox
<1>2. \A q \in Partitions : orderLog(q) \in Seq(Nat \ {0})
  BY <1>1 DEF SagaInv, NetTypeOK, orderLog
<1>3. \A q \in Partitions : orderLog(q)' = IF q = p THEN Append(orderLog(q), i) ELSE orderLog(q)
  BY <1>1, PublishTyping DEF SagaInv, OrderInv, InventoryInv, orderLog
<1>4. ASSUME NEW q \in Partitions
      PROVE  /\ \A k \in DOMAIN orderLog(q) :
                  k \in DOMAIN orderLog(q)' /\ orderLog(q)'[k] = orderLog(q)[k]
             /\ Len(orderLog(q)) <= Len(orderLog(q)') /\ Len(orderLog(q)') \in Nat
  <2>1. orderLog(q) \in Seq(Nat \ {0}) /\ i \in Nat \ {0}
    BY <1>1, <1>2
  <2>2. CASE orderLog(q)' = Append(orderLog(q), i)
    BY <2>1, <2>2, Appended
  <2>3. CASE orderLog(q)' = orderLog(q)
    BY <2>1, <2>3
  <2> QED
    BY <1>3, <2>2, <2>3
<1>5. /\ DOMAIN orderLog(p)' = DOMAIN orderLog(p) \cup {Len(orderLog(p)) + 1}
      /\ orderLog(p)'[Len(orderLog(p)) + 1] = i
  <2>1. orderLog(p) \in Seq(Nat \ {0}) /\ orderLog(p)' = Append(orderLog(p), i)
    BY <1>1, <1>2, <1>3
  <2> QED
    BY <1>1, <2>1, Appended
<1>6. /\ \A q \in Partitions : \A k \in DOMAIN orderLog(q)' :
           k \in DOMAIN orderLog(q) \/ (q = p /\ k = Len(orderLog(p)) + 1)
      /\ \A j : PartitionOf(orderOutbox[j])' = PartitionOf(orderOutbox[j])
  BY <1>3, <1>5 DEF PartitionOf
<1>7. \A q \in Partitions : \A k \in DOMAIN orderLog(q) : \A l \in 1..(k - 1) : l \in DOMAIN orderLog(q)
  BY <1>2
<1>8. SentAreInLog'
  <2> SUFFICES ASSUME NEW e \in sent'["order-events"]
               PROVE  /\ e \in DOMAIN orderOutbox
                      /\ \E l \in DOMAIN orderLog(PartitionOf(orderOutbox[e]))' :
                           orderLog(PartitionOf(orderOutbox[e]))'[l] = e
    BY <1>6 DEF SentAreInLog, orderLog
  <2>1. CASE e = i
    BY <1>5, <2>1
  <2>2. CASE e \in sent["order-events"]
    <3>1. e \in DOMAIN orderOutbox
      BY <2>2 DEF InOrder, SentAreInLog
    <3>2. PICK q \in Partitions : q = PartitionOf(orderOutbox[e])
      BY <1>1, <3>1, PartitionTyping DEF SagaInv, OrderInv, InventoryInv
    <3>3. PICK l \in DOMAIN orderLog(q) : orderLog(q)[l] = e
      BY <2>2, <3>2 DEF InOrder, SentAreInLog
    <3> QED
      BY <1>4, <3>1, <3>2, <3>3
  <2> QED
    BY <2>1, <2>2
<1> HIDE DEF p
<1>9. LogsComplete'
  <2> SUFFICES ASSUME NEW q \in Partitions, NEW k \in DOMAIN orderLog(q)'
               PROVE  /\ PartitionOf(orderOutbox[orderLog(q)'[k]]) = q
                      /\ \A j \in 1..(orderLog(q)'[k] - 1) : PartitionOf(orderOutbox[j]) = q =>
                           \E l \in 1..(k - 1) : orderLog(q)'[l] = j
    BY <1>6 DEF LogsComplete
  <2>1. CASE k \in DOMAIN orderLog(q)
    BY <1>4, <1>7, <2>1 DEF InOrder, LogsComplete
  <2>2. CASE q = p /\ k = Len(orderLog(p)) + 1
    <3>1. orderLog(q)'[k] = i /\ PartitionOf(orderOutbox[i]) = q
      BY <1>5, <2>2 DEF p
    <3>2. ASSUME NEW j \in 1..(i - 1), PartitionOf(orderOutbox[j]) = q
          PROVE  \E l \in 1..(k - 1) : orderLog(q)'[l] = j
      <4>1. PICK l \in DOMAIN orderLog(q) : orderLog(q)[l] = j
        BY <3>2 DEF InOrder, SentAreInLog
      <4>2. l \in 1..(k - 1)
        BY <1>2, <2>2
      <4> QED
        BY <1>4, <4>1, <4>2
    <3> QED
      BY <3>1, <3>2
  <2> QED
    BY <1>6, <2>1, <2>2
<1>10. HandledBelow'
  <2> SUFFICES ASSUME NEW q \in Partitions
               PROVE  /\ position["order-events"][q] <= Len(orderLog(q)') + 1
                      /\ \A k \in 1..(position["order-events"][q] - 1) :
                           orderLog(q)'[k] \in invProcessed
    BY DEF HandledBelow
  <2>1. /\ position["order-events"][q] \in Nat
        /\ position["order-events"][q] <= Len(orderLog(q)) + 1
        /\ \A k \in 1..(position["order-events"][q] - 1) :
             k \in DOMAIN orderLog(q) /\ orderLog(q)[k] \in invProcessed
    BY <1>1, <1>2 DEF InOrder, HandledBelow, SagaInv, NetTypeOK
  <2>2. Len(orderLog(q)) <= Len(orderLog(q)') /\ Len(orderLog(q)') \in Nat
    BY <1>4
  <2>3. Len(orderLog(q)) \in Nat
    BY <1>2
  <2> QED
    BY <1>4, <2>1, <2>2, <2>3
<1>11. CancelledAfterCreated' /\ TornAreCreations' /\ NoLateReservation'
  BY DEF InOrder, CancelledAfterCreated, TornAreCreations, NoLateReservation
<1> QED
  BY <1>8, <1>9, <1>10, <1>11 DEF InOrder

\* inventory-rpc takes the next message of a partition. If it records a
\* cancellation, the creation lies before it in the same log and has been
\* processed; if it reserves, the creation has not been, so neither has the
\* cancellation.
LEMMA ConsumeInOrder ==
  ASSUME SameKey, SagaInv, InOrder, NoLateReservation, NEW q \in Partitions,
         ConsumeOrderEvent(q)
  PROVE  InOrder' /\ NoLateReservation'
<1> DEFINE n == position["order-events"][q]
<1>1. PICK i \in DOMAIN orderOutbox :
        /\ i = Message("order-events", q) /\ i \in Nat
        /\ n \in DOMAIN orderLog(q) /\ i = orderLog(q)[n]
        /\ orderOutbox[i] \in OrderEvents
  BY OrderMessage DEF ConsumeOrderEvent, SagaInv, OrderInv, InventoryInv
<1>2. PICK o \in Orders : o = orderOutbox[i].order
  BY <1>1 DEF OrderEvents
<1>3. orderOutbox[i] = Event(orderOutbox[i].type, o)
  BY <1>1, <1>2 DEF OrderEvents, Event
<1>4. /\ UNCHANGED <<orderOutbox, topic, sent>> /\ Advance("order-events", q)
      /\ \/ i \in invProcessed /\ UNCHANGED invVars
         \/ orderOutbox[i].type = "OrderCreated" /\ handleOrderCreated(i, o)
         \/ RecordTorn(i)
         \/ orderOutbox[i].type = "OrderCancelled" /\ handleOrderCancelled(i, o)
  BY <1>1, <1>2 DEF ConsumeOrderEvent, orderVars
<1>5. \A p \in Partitions : orderLog(p)' = orderLog(p) /\ orderLog(p) \in Seq(Nat \ {0})
  BY <1>4 DEF orderLog, SagaInv, NetTypeOK, Topics
<1>6. /\ \A p \in Partitions : position["order-events"][p] \in Nat
      /\ \A p \in Partitions : position'["order-events"][p] =
           IF p = q THEN position["order-events"][p] + 1 ELSE position["order-events"][p]
  BY <1>4, AdvanceTyping DEF SagaInv, NetTypeOK, Topics
<1>7. invProcessed' = invProcessed \cup {i} /\ torn' \subseteq torn
  BY <1>4 DEF handleOrderCreated, handleOrderCancelled, RecordTorn, Reserve, RejectOutOfStock,
              RejectOnLockError, Release, ReleaseNothing, Process, invVars
<1>8. PartitionOf(orderOutbox[i]) = q
  BY <1>1 DEF InOrder, LogsComplete
<1>9. SentAreInLog' /\ LogsComplete' /\ TornAreCreations'
  <2>1. SentAreInLog' /\ LogsComplete'
    BY <1>4 DEF InOrder, SentAreInLog, LogsComplete, orderLog, PartitionOf
  <2>2. TornAreCreations'
    BY <1>4, <1>7 DEF InOrder, TornAreCreations
  <2> QED
    BY <2>1, <2>2
<1>10. HandledBelow'
  <2> SUFFICES ASSUME NEW p \in Partitions
               PROVE  /\ position'["order-events"][p] <= Len(orderLog(p)) + 1
                      /\ \A k \in 1..(position'["order-events"][p] - 1) :
                           orderLog(p)[k] \in invProcessed'
    BY <1>5 DEF HandledBelow
  <2>1. CASE p # q
    BY <1>6, <1>7, <2>1 DEF InOrder, HandledBelow
  <2>2. CASE p = q
    <3>1. n <= Len(orderLog(q)) /\ n \in Nat /\ Len(orderLog(q)) \in Nat
      BY <1>1, <1>5, <1>6
    <3>2. \A k \in 1..(n - 1) : orderLog(q)[k] \in invProcessed
      BY DEF InOrder, HandledBelow
    <3>3. position'["order-events"][p] = n + 1
      BY <1>6, <2>2
    <3> HIDE DEF n
    <3> QED
      BY <1>1, <1>7, <2>2, <3>1, <3>2, <3>3
  <2> QED
    BY <2>1, <2>2
\* the creation of a cancelled order lies before the cancellation
<1>11. ASSUME orderOutbox[i] = Event("OrderCancelled", o)
       PROVE  \E j \in invProcessed : orderOutbox[j] = Event("OrderCreated", o)
  <2>1. order[o].status = "cancelled"
    BY <1>1, <1>11 DEF SagaInv, OrderInv, EventsMatchOrders
  <2>2. PICK j \in DOMAIN orderOutbox : orderOutbox[j] = Event("OrderCreated", o)
    BY <2>1 DEF SagaInv, OrderInv, EventsMatchOrders
  <2>3. j \in 1..(i - 1)
    <3>1. j < i
      BY <1>11, <2>2 DEF SagaInv, OrderInv, CreatedBeforeCancelled
    <3>2. j \in Nat \ {0} /\ i \in Nat
      BY DEF SagaInv, OrderInv, OrderTypeOK
    <3> QED
      BY <3>1, <3>2
  <2>4. PartitionOf(orderOutbox[j]) = q
    <3>1. PartitionOf(orderOutbox[i]) = PartitionOfOrder[o]
      BY <1>11 DEF PartitionOf, Event
    <3>2. PartitionOf(orderOutbox[j]) = PartitionOfUser[UserOf[o]]
      BY <2>2 DEF PartitionOf, Event
    <3> QED
      BY <1>8, <3>1, <3>2 DEF SameKey
  <2>5. PICK l \in 1..(n - 1) : orderLog(q)[l] = j
    BY <1>1, <2>3, <2>4 DEF InOrder, LogsComplete
  <2>6. j \in invProcessed
    BY <2>5 DEF InOrder, HandledBelow
  <2> QED
    BY <2>2, <2>6
<1>12. CancelledAfterCreated'
  <2> SUFFICES ASSUME NEW c \in invProcessed'
               PROVE  /\ c \in DOMAIN orderOutbox
                      /\ orderOutbox[c].type = "OrderCancelled" =>
                           \E j \in invProcessed' :
                             orderOutbox[j] = Event("OrderCreated", orderOutbox[c].order)
    BY <1>4 DEF CancelledAfterCreated
  <2>1. CASE c \in invProcessed
    BY <1>7, <2>1 DEF InOrder, CancelledAfterCreated
  <2>2. CASE c = i
    BY <1>2, <1>3, <1>7, <1>11, <2>2
  <2> QED
    BY <1>7, <2>1, <2>2
<1>13. NoLateReservation'
  <2> SUFFICES ASSUME NEW c \in Orders, NEW j \in invProcessed', j \in DOMAIN orderOutbox,
                      orderOutbox[j] = Event("OrderCancelled", c)
               PROVE  reservation'[c] # "reserved"
    BY <1>4 DEF NoLateReservation
  <2>1. reservation \in [Orders -> {"none", "reserved", "released"}]
    BY DEF SagaInv, InventoryInv, InvTypeOK
  <2>2. CASE Reserve(i, o) /\ orderOutbox[i].type = "OrderCreated"
    <3>1. reservation' = [reservation EXCEPT ![o] = "reserved"] /\ i \notin invProcessed
      BY <2>2 DEF Reserve, Process
    <3>2. orderOutbox[i] = Event("OrderCreated", o)
      BY <1>3, <2>2
    <3>3. j # i /\ j \in invProcessed
      BY <1>7, <3>2, EventsDiffer
    <3>4. c # o
      <4> SUFFICES ASSUME c = o PROVE FALSE
        OBVIOUS
      <4>1. orderOutbox[j].type = "OrderCancelled" /\ orderOutbox[j].order = o
        BY DEF Event
      <4>2. PICK k \in invProcessed : orderOutbox[k] = Event("OrderCreated", o)
        BY <3>3, <4>1 DEF InOrder, CancelledAfterCreated
      <4>3. k \in DOMAIN orderOutbox
        BY DEF InOrder, CancelledAfterCreated
      <4> QED
        BY <1>1, <3>1, <3>2, <4>2, <4>3 DEF SagaInv, OrderInv, NoDuplicateEvents
    <3> QED
      BY <2>1, <3>1, <3>3, <3>4 DEF NoLateReservation
  <2>3. CASE Release(i, o)
    <3>1. reservation' = [reservation EXCEPT ![o] = "released"]
      BY <2>3 DEF Release
    <3>2. c = o \/ j # i
      BY <1>2 DEF Event
    <3> QED
      BY <1>7, <2>1, <3>1, <3>2 DEF NoLateReservation
  <2>4. CASE ReleaseNothing(i, o)
    <3>1. reservation' = reservation /\ reservation[o] # "reserved"
      BY <2>4 DEF ReleaseNothing
    <3>2. c = o \/ j # i
      BY <1>2 DEF Event
    <3> QED
      BY <1>7, <3>1, <3>2 DEF NoLateReservation
  <2>5. CASE reservation' = reservation /\ (i \in invProcessed \/ orderOutbox[i].type = "OrderCreated")
    <3>1. j = i => orderOutbox[i].type # "OrderCreated"
      BY DEF Event
    <3> QED
      BY <1>7, <2>5, <3>1 DEF NoLateReservation
  <2>6. CASE RecordTorn(i)
    BY <2>5, <2>6 DEF RecordTorn, InOrder, TornAreCreations
  <2> QED
    BY <1>4, <2>2, <2>3, <2>4, <2>5, <2>6
    DEF handleOrderCreated, handleOrderCancelled, RejectOutOfStock, RejectOnLockError, invVars
<1> QED
  BY <1>9, <1>10, <1>12, <1>13 DEF InOrder

\* A torn transaction rejects a creation.
LEMMA TearInOrder ==
  ASSUME SagaInv, InOrder, NoLateReservation, NEW q \in Partitions, TearOrderEvent(q)
  PROVE  InOrder' /\ NoLateReservation'
<1>1. PICK i \in DOMAIN orderOutbox :
        /\ i = Message("order-events", q)
        /\ orderOutbox[i].type = "OrderCreated"
        /\ RejectUnrecorded(i, orderOutbox[i].order)
  BY OrderMessage DEF TearOrderEvent, SagaInv, OrderInv, InventoryInv
<1>2. /\ UNCHANGED <<orderOutbox, topic, sent, position, invProcessed, reservation>>
      /\ torn' = torn \cup {i}
  BY <1>1 DEF TearOrderEvent, RejectUnrecorded, orderVars, netVars
<1>3. SentAreInLog' /\ LogsComplete' /\ HandledBelow' /\ CancelledAfterCreated'
      /\ NoLateReservation'
  BY <1>2 DEF InOrder, SentAreInLog, LogsComplete, HandledBelow, CancelledAfterCreated,
     NoLateReservation, PartitionOf, orderLog
<1>4. TornAreCreations'
  BY <1>1, <1>2 DEF InOrder, TornAreCreations
<1> QED
  BY <1>3, <1>4 DEF InOrder

\* Every step of a saga that publishes in turn keeps the order.
LEMMA InOrderStep ==
  ASSUME SameKey, SagaInv, InOrder, NoLateReservation, [Next]_vars, [InTurn]_vars
  PROVE  InOrder' /\ NoLateReservation'
<1>t. /\ \A q \in Partitions : position["order-events"][q] \in Nat
      /\ "order-events" \in Topics /\ "inventory-events" \in Topics
  BY DEF SagaInv, NetTypeOK, Topics
<1>1. CASE UNCHANGED <<topic, sent, position, invProcessed, torn, reservation>>
  BY <1>1, <1>t, QuietStep DEF orderLog
<1>2. CASE UNCHANGED vars
  BY <1>1, <1>2 DEF vars, invVars, netVars
<1>3. CASE ClientStep
  BY <1>1, <1>3 DEF ClientStep, invVars, netVars
<1>4. ASSUME NEW i \in DOMAIN invOutbox,
             \/ Publish("inventory-events", i) \/ PublishOutOfOrder("inventory-events", i)
             \/ PublishUnmarked("inventory-events", i)
      PROVE  InOrder' /\ NoLateReservation'
  <2>1. /\ AppendToTopic("inventory-events", i) /\ i \in DOMAIN outbox("inventory-events")
        /\ UNCHANGED <<position, invVars>>
    BY <1>4 DEF Publish, PublishOutOfOrder, PublishUnmarked, outbox
  <2>2. \A q \in Partitions : orderLog(q)' = orderLog(q)
    BY <1>t, <2>1, PublishTyping DEF orderLog, SagaInv, OrderInv, InventoryInv
  <2>3. sent'["order-events"] = sent["order-events"]
    BY <1>4, <1>t DEF Publish, PublishOutOfOrder, PublishUnmarked, SagaInv, NetTypeOK
  <2> QED
    BY <1>t, <2>1, <2>2, <2>3, QuietStep DEF invVars
<1>5. ASSUME NEW i \in DOMAIN orderOutbox, InTurn,
             \/ Publish("order-events", i) \/ PublishOutOfOrder("order-events", i)
             \/ PublishUnmarked("order-events", i)
      PROVE  InOrder' /\ NoLateReservation'
  <2>1. /\ AppendToTopic("order-events", i)
        /\ UNCHANGED <<orderOutbox, invProcessed, torn, reservation, position>>
    BY <1>5 DEF Publish, PublishOutOfOrder, PublishUnmarked, orderVars, invVars
  <2>2. sent'["order-events"] \subseteq sent["order-events"] \cup {i}
    BY <1>5, <1>t DEF Publish, PublishOutOfOrder, PublishUnmarked, SagaInv, NetTypeOK
  <2> QED
    BY <1>5, <2>1, <2>2, AppendInTurn DEF InTurn
<1>6. ASSUME NEW q \in Partitions, PassOver("inventory-events", q) \/ EndDelivery(q)
      PROVE  InOrder' /\ NoLateReservation'
  <2>1. /\ position'["order-events"] = position["order-events"]
        /\ UNCHANGED <<topic, sent, invVars>>
    BY <1>6, <1>t DEF PassOver, EndDelivery, Advance, SagaInv, NetTypeOK
  <2> QED
    BY <1>t, <2>1, QuietStep DEF invVars, orderLog
<1>7. ASSUME NEW t \in Topics, NEW q \in Partitions, Redeliver(t, q)
      PROVE  InOrder' /\ NoLateReservation'
  <2>1. PICK k \in 1..(position[t][q] - 1) : position' = [position EXCEPT ![t][q] = k]
    BY <1>7 DEF Redeliver
  <2>2. k \in Nat \ {0} /\ k <= position[t][q] /\ position[t][q] \in Nat
    BY <2>1 DEF SagaInv, NetTypeOK
  <2>3. \A p \in Partitions : /\ position'["order-events"][p] <= position["order-events"][p]
                              /\ position'["order-events"][p] \in Nat
    BY <1>t, <2>1, <2>2, PositionTyping DEF SagaInv
  <2> QED
    BY <1>7, <2>3, QuietStep DEF Redeliver, invVars, orderLog
<1>8. ASSUME NEW q \in Partitions, BeginDelivery(q) \/ AbortDelivery(q)
      PROVE  InOrder' /\ NoLateReservation'
  BY <1>1, <1>8 DEF BeginDelivery, AbortDelivery, invVars, netVars
<1>9. ASSUME InTurn, NEW t \in Topics, Poll(t) \/ FaultStep(t)
      PROVE  InOrder' /\ NoLateReservation'
  <2>1. ASSUME NEW q \in Partitions, PassOver(t, q) PROVE InOrder' /\ NoLateReservation'
    BY <1>6, <1>9, <2>1 DEF InTurn, Topics
  <2>2. ASSUME NEW i \in DOMAIN outbox(t),
               Publish(t, i) \/ PublishOutOfOrder(t, i) \/ PublishUnmarked(t, i)
        PROVE  InOrder' /\ NoLateReservation'
    BY <1>4, <1>5, <1>9, <2>2 DEF Topics, outbox
  <2> QED
    BY <1>7, <1>9, <2>1, <2>2 DEF Poll, FaultStep
<1> QED
  BY <1>2, <1>3, <1>6, <1>8, <1>9, ConsumeInOrder, TearInOrder DEF Next, Deliver

\* What it would take to close the race between creation and cancellation: if
\* both events of an order had the same partition key, and their rows were
\* published in turn and none passed over, a cancellation that inventory has
\* handled would leave no reservation behind, whatever is published twice or
\* delivered again and in however many partitions. One key alone is not enough:
\* the poller does publish out of turn. With the keys of the code the race is
\* open even in turn (CancelledHoldsNoStock).
THEOREM OneKeyClosesRace ==
  ASSUME SameKey
  PROVE  Spec /\ [][InTurn]_vars => []NoLateReservation
<1>1. Init => InOrder /\ NoLateReservation
  <2> SUFFICES ASSUME Init PROVE InOrder /\ NoLateReservation
    OBVIOUS
  <2>1. invProcessed = {} /\ torn = {}
    BY DEF Init, InvInit
  <2>2. \A q \in Partitions : orderLog(q) = <<>> /\ position["order-events"][q] = 1
    BY DEF Init, Topics, orderLog
  <2>3. sent["order-events"] = {}
    BY DEF Init, Topics
  <2> QED
    BY <2>1, <2>2, <2>3
    DEF InOrder, SentAreInLog, LogsComplete, HandledBelow, CancelledAfterCreated,
        TornAreCreations, NoLateReservation
<1>2. SagaInv /\ InOrder /\ NoLateReservation /\ [Next]_vars /\ [InTurn]_vars
        => InOrder' /\ NoLateReservation'
  BY InOrderStep
<1> QED
  BY <1>1, <1>2, SagaInvariant, PTL DEF Spec
=============================================================================
