------------------------------- MODULE XEvent -------------------------------
(***************************************************************************)
(* The events services exchange (common/xevent/event.go), with the orders  *)
(* they are about. A payload is reduced to the order it names; the rest of *)
(* it (SKU, quantity, user) is a function of the order.                    *)
(***************************************************************************)
CONSTANT Orders          \* order_id; orders are never deleted or reused

OrderEventTypes     == {"OrderCreated", "OrderCancelled"}
InventoryEventTypes == {"InventoryReserved", "ReservationFailed"}

\* A row of an outbox. Its event_id is its position in the outbox.
Event(type, o) == [type |-> type, order |-> o]

OrderEvents     == [type : OrderEventTypes, order : Orders]
InventoryEvents == [type : InventoryEventTypes, order : Orders]

Reasons == {"", "USER_CANCELLED", "OUT_OF_STOCK"}
=============================================================================
