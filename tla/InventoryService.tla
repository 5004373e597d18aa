-------------------------- MODULE InventoryService --------------------------
(***************************************************************************)
(* inventory-rpc: the products and inventory_reservations tables, the      *)
(* inventory-events outbox written in the same transactions, and the       *)
(* consumer of order-events (service/inventory/rpc/internal).              *)
(*                                                                         *)
(* Each event is handled by one transaction of IdempotentRepository.       *)
(* Process, here one step. The module is open: any order event may arrive. *)
(***************************************************************************)
EXTENDS XEvent, Naturals, Sequences, FiniteSets

CONSTANTS
  Skus,            \* an unknown SKU behaves as one whose Total is 0
  SkuOf,           \* SKU of an order
  Quantity,        \* quantity of an order, at least 1 (validate:"min=1")
  Total,           \* products.total, also the initial products.available
  OrderEventIds,   \* event_id of the order-events that may arrive
  MaxLockErrors    \* bound: lock errors at the decrement

ASSUME SkuOfAssumption    == SkuOf \in [Orders -> Skus]
ASSUME QuantityAssumption == Quantity \in [Orders -> Nat \ {0}]
ASSUME TotalAssumption    == Total \in [Skus -> Nat]
ASSUME OrderEventIdsAssumption  == OrderEventIds \subseteq Nat
ASSUME MaxLockErrorsAssumption == MaxLockErrors \in Nat

VARIABLES
  available,       \* products.available
  reservation,     \* inventory_reservations.status, none without a row
  invOutbox,       \* outbox_events of inventory_db, in insertion order
  invProcessed,    \* processed_events of inventory_db
  torn,            \* events rejected by a torn transaction, not yet recorded
  lockErrors       \* lock errors so far

invVars == <<available, reservation, invOutbox, invProcessed, torn, lockErrors>>

InvTypeOK ==
  /\ available \in [Skus -> Nat]
  /\ reservation \in [Orders -> {"none", "reserved", "released"}]
  /\ invOutbox \in Seq(InventoryEvents)
  /\ invProcessed \subseteq Nat
  /\ torn \subseteq Nat
  /\ lockErrors \in 0..MaxLockErrors

InvInit ==
  /\ available = Total
  /\ reservation = [o \in Orders |-> "none"]
  /\ invOutbox = <<>>
  /\ invProcessed = {}
  /\ torn = {}
  /\ lockErrors = 0

-----------------------------------------------------------------------------
\* Process commits: the event is recorded with everything the handler wrote.
\* An event already recorded is skipped, and changes nothing.
Process(id) ==
  /\ id \notin invProcessed
  /\ invProcessed' = invProcessed \cup {id}
  /\ torn' = torn \ {id}

writeOutbox(type, o) == invOutbox' = Append(invOutbox, Event(type, o))

\* decrementAvailable: UPDATE ... WHERE available >= quantity.
InStock(o) == available[SkuOf[o]] >= Quantity[o]

\* OrderCreated, in stock: available goes down and the reservation is
\* inserted. A second row for the order violates UNIQUE(order_id): the whole
\* transaction rolls back and the step does not happen.
Reserve(id, o) ==
  /\ Process(id)
  /\ InStock(o)
  /\ reservation[o] = "none"
  /\ available' = [available EXCEPT ![SkuOf[o]] = @ - Quantity[o]]
  /\ reservation' = [reservation EXCEPT ![o] = "reserved"]
  /\ writeOutbox("InventoryReserved", o)
  /\ UNCHANGED lockErrors

\* Mutant: RowsAffected is not looked at.
RejectOutOfStock_Reserved(id, o) ==
  /\ Process(id)
  /\ ~InStock(o)
  /\ writeOutbox("InventoryReserved", o)
  /\ UNCHANGED <<available, reservation, lockErrors>>

\* OrderCreated, no row updated: the order cannot be served.
RejectOutOfStock(id, o) ==
  /\ Process(id)
  /\ ~InStock(o)
  /\ writeOutbox("ReservationFailed", o)
  /\ UNCHANGED <<available, reservation, lockErrors>>

LockError == lockErrors < MaxLockErrors /\ lockErrors' = lockErrors + 1

\* OrderCreated, the decrement fails with a lock error (1213 or 1205).
\* decrementErr reads the error of the transaction handle, which a failed
\* statement does not set, so Reserve returns (0, nil) and the handler goes
\* on as if the SKU were out of stock.
RejectOnLockError(id, o) ==
  /\ Process(id)
  /\ LockError
  /\ writeOutbox("ReservationFailed", o)
  /\ UNCHANGED <<available, reservation>>

\* The same after a deadlock (1213): the server has already rolled the
\* transaction back, so the two INSERTs that follow commit one by one, and
\* the second may fail or never run. InventoryTx.tla shows the steps. Another
\* consumer may have recorded the event in the meantime.
RejectUnrecorded(id, o) ==
  /\ LockError
  /\ writeOutbox("ReservationFailed", o)
  /\ torn' = torn \cup {id}
  /\ UNCHANGED <<available, reservation, invProcessed>>

RecordTorn(id) ==
  /\ id \in torn
  /\ Process(id)
  /\ UNCHANGED <<available, reservation, invOutbox, lockErrors>>

\* Mutant: the units are not given back.
Release_UnitsLost(id, o) ==
  /\ Process(id)
  /\ reservation[o] = "reserved"
  /\ reservation' = [reservation EXCEPT ![o] = "released"]
  /\ UNCHANGED <<available, invOutbox, lockErrors>>

\* OrderCancelled: the reservation is released and the units are given back.
Release(id, o) ==
  /\ Process(id)
  /\ reservation[o] = "reserved"
  /\ reservation' = [reservation EXCEPT ![o] = "released"]
  /\ available' = [available EXCEPT ![SkuOf[o]] = @ + Quantity[o]]
  /\ UNCHANGED <<invOutbox, lockErrors>>

\* OrderCancelled without an active reservation: no-op, but recorded.
ReleaseNothing(id, o) ==
  /\ Process(id)
  /\ reservation[o] # "reserved"
  /\ UNCHANGED <<available, reservation, invOutbox, lockErrors>>

handleOrderCreated(id, o) ==
  Reserve(id, o) \/ RejectOutOfStock(id, o) \/ RejectOnLockError(id, o)


handleOrderCancelled(id, o) == Release(id, o) \/ ReleaseNothing(id, o)

InvNext == \E id \in OrderEventIds, o \in Orders :
  \/ handleOrderCreated(id, o)
  \/ RejectUnrecorded(id, o) \/ RecordTorn(id)
  \/ handleOrderCancelled(id, o)

InvSpec == InvInit /\ [][InvNext]_invVars

-----------------------------------------------------------------------------
(* Properties *)

\* The units that active reservations hold, one element per unit.
Units(o)     == {o} \X (1..Quantity[o])
HeldUnits(s) == UNION {Units(o) : o \in
                  {p \in Orders : SkuOf[p] = s /\ reservation[p] = "reserved"}}

\* products.available is a redundant column (model/product.go): it equals
\* total minus the quantities of the active reservations after any sequence of
\* reservations, rejections, releases and repeated events. As available is a
\* natural number, no SKU is ever oversold.
StockConserved == \A s \in Skus :
  available[s] + Cardinality(HeldUnits(s)) = Total[s]

\* A released reservation is never reserved again, and a row never vanishes.
ReservationsOnlyAdvance == [][\A o \in Orders :
  /\ reservation[o] = "released" => reservation'[o] = "released"
  /\ reservation[o] = "reserved" => reservation'[o] # "none"]_invVars
=============================================================================
