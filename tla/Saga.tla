-------------------------------- MODULE Saga --------------------------------
(***************************************************************************)
(* The choreographed saga between order-api and inventory-rpc: the two     *)
(* services of OrderService and InventoryService, connected by the topics  *)
(* order-events and inventory-events (docs/saga-distributed-transaction).  *)
(*                                                                         *)
(* An event leaves its outbox through a poller, lands in the partition its *)
(* key hashes to, and is handled in partition order by the consumer group  *)
(* of the other service. Outbox.tla and Consumer.tla look inside those two *)
(* steps; here only what they can do to an event is kept: publish it late, *)
(* out of order or twice, deliver it again, or pass over it.               *)
(***************************************************************************)
EXTENDS OrderService, InventoryService

CONSTANTS
  Users,              \* user_id
  UserOf,             \* the user who places an order
  Partitions,         \* partitions of each topic
  PartitionOfUser,    \* where kafka.Hash sends a key that is a user_id
  PartitionOfOrder,   \* where it sends a key that is an order_id
  MaxFaults           \* bound: publishing and delivery faults

ASSUME UserOfAssumption == UserOf \in [Orders -> Users]
ASSUME PartitionAssumption ==
  /\ PartitionOfUser \in [Users -> Partitions]
  /\ PartitionOfOrder \in [Orders -> Partitions]
ASSUME MaxFaultsAssumption == MaxFaults \in Nat
\* A partition is handled by one goroutine at a time. After a rebalance the old
\* owner may overlap with the new one: Consumer.tla shows that the effects are
\* still those of one of them, and Redeliver what is left for this module.
ASSUME HandlersAssumption == OrderHandlers = Partitions

VARIABLES
  topic,      \* per topic and partition: the event ids in log order
  position,   \* per topic and partition: index of the message to handle next
  sent,       \* per topic: the outbox rows that are marked sent
  faults      \* faults so far

netVars == <<topic, position, sent, faults>>
vars    == <<orderVars, invVars, netVars>>

Topics == {"order-events", "inventory-events"}

NetTypeOK ==
  /\ topic \in [Topics -> [Partitions -> Seq(Nat \ {0})]]
  /\ position \in [Topics -> [Partitions -> Nat \ {0}]]
  /\ sent \in [Topics -> SUBSET (Nat \ {0})]
  /\ faults \in 0..MaxFaults

TypeOK == OrderTypeOK /\ InvTypeOK /\ NetTypeOK

Init ==
  /\ OrderInit
  /\ InvInit
  /\ topic = [t \in Topics |-> [q \in Partitions |-> <<>>]]
  /\ position = [t \in Topics |-> [q \in Partitions |-> 1]]
  /\ sent = [t \in Topics |-> {}]
  /\ faults = 0

-----------------------------------------------------------------------------
(* From the outbox to the topic *)

outbox(t) == IF t = "order-events" THEN orderOutbox ELSE invOutbox

\* EventKey: OrderCreated is keyed by the user, every other event by the order.
PartitionOf(ev) ==
  IF ev.type = "OrderCreated" THEN PartitionOfUser[UserOf[ev.order]]
                              ELSE PartitionOfOrder[ev.order]

Fault == faults < MaxFaults /\ faults' = faults + 1

AppendToTopic(t, i) ==
  topic' = [topic EXCEPT ![t][PartitionOf(outbox(t)[i])] = Append(@, i)]

\* The poller publishes the oldest row that is not sent.
Publish(t, i) ==
  /\ i \in DOMAIN outbox(t) \ sent[t]
  /\ \A j \in 1..(i - 1) : j \in sent[t]
  /\ AppendToTopic(t, i)
  /\ sent' = [sent EXCEPT ![t] = @ \cup {i}]
  /\ UNCHANGED <<orderVars, invVars, position, faults>>

\* An older row failed to publish, or is locked by another instance: the
\* poller continues with the next one.
PublishOutOfOrder(t, i) ==
  /\ i \in DOMAIN outbox(t) \ sent[t]
  /\ \E j \in 1..(i - 1) : j \notin sent[t]
  /\ Fault
  /\ AppendToTopic(t, i)
  /\ sent' = [sent EXCEPT ![t] = @ \cup {i}]
  /\ UNCHANGED <<orderVars, invVars, position>>

\* The message is in the log but the transaction that should mark the row
\* sent is rolled back, and the row will be published again; or kafka.Writer
\* writes the message a second time after a lost acknowledgement; or a poller
\* that lost its connection publishes a row another has marked sent.
PublishUnmarked(t, i) ==
  /\ i \in DOMAIN outbox(t)
  /\ Fault
  /\ AppendToTopic(t, i)
  /\ UNCHANGED <<orderVars, invVars, position, sent>>

-----------------------------------------------------------------------------
(* From the topic to the other service *)

HasMessage(t, q) == position[t][q] <= Len(topic[t][q])
Message(t, q)    == topic[t][q][position[t][q]]

Advance(t, q) == position' = [position EXCEPT ![t][q] = @ + 1]

\* inventory-rpc: the handler runs and the offset is committed.
ConsumeOrderEvent(q) ==
  LET i  == Message("order-events", q)
      ev == orderOutbox[i]
  IN /\ HasMessage("order-events", q)
     /\ \/ i \in invProcessed /\ UNCHANGED invVars
        \/ ev.type = "OrderCreated" /\ handleOrderCreated(i, ev.order)
        \/ RecordTorn(i)
        \/ ev.type = "OrderCancelled" /\ handleOrderCancelled(i, ev.order)
     /\ Advance("order-events", q)
     /\ UNCHANGED <<orderVars, topic, sent, faults>>

\* inventory-rpc: a deadlock tears the transaction of an OrderCreated apart.
TearOrderEvent(q) ==
  LET i  == Message("order-events", q)
      ev == orderOutbox[i]
  IN /\ HasMessage("order-events", q)
     /\ ev.type = "OrderCreated"
     /\ i \notin invProcessed
     /\ RejectUnrecorded(i, ev.order)
     /\ UNCHANGED <<orderVars, netVars>>

\* order-api: the handler's transaction begins ...
BeginDelivery(q) ==
  LET i == Message("inventory-events", q)
  IN /\ HasMessage("inventory-events", q)
     /\ BeginInventoryEvent(q, i, invOutbox[i].type, invOutbox[i].order)
     /\ UNCHANGED <<invVars, netVars>>

\* ... and ends with a commit of the offset; an event seen before is skipped.
EndDelivery(q) ==
  /\ \/ AutoCancel(q) \/ IgnoreInventoryEvent(q)
     \/ /\ handling[q] = Nil
        /\ HasMessage("inventory-events", q)
        /\ Message("inventory-events", q) \in orderProcessed
        /\ UNCHANGED orderVars
  /\ Advance("inventory-events", q)
  /\ UNCHANGED <<invVars, topic, sent, faults>>

\* order-api: the transaction is rolled back and the message stays.
AbortDelivery(q) ==
  /\ HandlerFails(q)
  /\ Fault
  /\ UNCHANGED <<invVars, topic, position, sent>>

NotHandling(t, q) == t = "inventory-events" => handling[q] = Nil

\* The handler returns an error: the offset is not committed, but the loop
\* fetches the next message and commits past the failed one.
PassOver(t, q) ==
  /\ HasMessage(t, q)
  /\ NotHandling(t, q)
  /\ Fault
  /\ Advance(t, q)
  /\ UNCHANGED <<orderVars, invVars, topic, sent>>

\* A restart or a rebalance resumes from an older committed offset.
Redeliver(t, q) ==
  /\ NotHandling(t, q)
  /\ Fault
  /\ \E k \in 1..(position[t][q] - 1) : position' = [position EXCEPT ![t][q] = k]
  /\ UNCHANGED <<orderVars, invVars, topic, sent>>

-----------------------------------------------------------------------------
ClientStep ==
  /\ \/ \E o \in Orders : CreateOrder(o)
     \/ \E r \in Requests : RequestStep(r)
  /\ UNCHANGED <<invVars, netVars>>

Poll(t) == \E i \in DOMAIN outbox(t) : Publish(t, i)

Deliver(q) == ConsumeOrderEvent(q) \/ BeginDelivery(q) \/ EndDelivery(q)

FaultStep(t) ==
  \/ \E i \in DOMAIN outbox(t) : PublishOutOfOrder(t, i) \/ PublishUnmarked(t, i)
  \/ \E q \in Partitions : PassOver(t, q) \/ Redeliver(t, q)

Next ==
  \/ ClientStep
  \/ \E t \in Topics : Poll(t) \/ FaultStep(t)
  \/ \E q \in Partitions : Deliver(q) \/ TearOrderEvent(q) \/ AbortDelivery(q)

Spec == Init /\ [][Next]_vars

\* Pollers tick and consumers loop for ever (poller.go, stream.go).
FairSpec ==
  /\ Spec
  /\ \A t \in Topics : WF_vars(Poll(t))
  /\ \A q \in Partitions :
       /\ WF_vars(ConsumeOrderEvent(q))
       /\ WF_vars(BeginDelivery(q) \/ EndDelivery(q))

-----------------------------------------------------------------------------
(* Properties *)

Says(box, type, o) == \E i \in DOMAIN box : box[i] = Event(type, o)

\* Stock is given back for cancelled orders only: whatever is redelivered or
\* reordered, no pending or paid order loses its reservation, and stock is
\* only ever taken for an order that exists.
ReservationsFollowOrders == \A o \in Orders :
  /\ reservation[o] = "released" => order[o].status = "cancelled"
  /\ reservation[o] # "none" => order[o].status # "none"

\* The answer InventoryReserved is given once and only with a reservation,
\* however often the OrderCreated event is delivered.
AnswersMatchReservations ==
  /\ \A o \in Orders : reservation[o] # "none" <=> Says(invOutbox, "InventoryReserved", o)
  /\ \A i, j \in DOMAIN invOutbox :
       invOutbox[i] = invOutbox[j] /\ invOutbox[i].type = "InventoryReserved" => i = j

\* The order has been answered, reserved or rejected, and holds no stock if it
\* is cancelled.
Settled(o) ==
  /\ Says(invOutbox, "InventoryReserved", o) \/ Says(invOutbox, "ReservationFailed", o)
  /\ ~(order[o].status = "cancelled" /\ reservation[o] = "reserved")

\* inventory-rpc has moved past no order event it has not handled.
NothingPassedOver == \A q \in Partitions :
  \A k \in 1..(position["order-events"][q] - 1) :
    topic["order-events"][q][k] \in invProcessed

\* No cancellation has been handled before the creation of its order.
NothingOvertaken == \A j \in invProcessed : orderOutbox[j].type = "OrderCancelled" =>
  \E i \in invProcessed : orderOutbox[i] = Event("OrderCreated", orderOutbox[j].order)


\* Compensation completes: a cancelled order ends up holding no stock, for
\* ever. The design document closes the race of creation and cancellation
\* with "no-ops at both ends and idempotent consumption" (decision Q6).
CancelledHoldsNoStock == \A o \in Orders :
  order[o].status = "cancelled" ~> [](reservation[o] # "reserved")
=============================================================================
