--------------------------- MODULE InventoryProofs ---------------------------
(***************************************************************************)
(* Proofs about InventoryService for any orders, SKUs, quantities, stock   *)
(* and order events. Orders need not be finite: a SKU with Total[s] units  *)
(* only ever has finitely many of them held, which is part of the          *)
(* invariant because Cardinality says nothing of an infinite set.          *)
(***************************************************************************)
EXTENDS InventoryService, FiniteSetTheorems, TLAPS

HeldFinite == \A s \in Skus : IsFiniteSet(HeldUnits(s))

InventoryInv == InvTypeOK /\ HeldFinite /\ StockConserved

\* The steps of the service with any event ids.
AnyInvNext == \E id \in Nat, o \in Orders :
  \/ handleOrderCreated(id, o)
  \/ RejectUnrecorded(id, o) \/ RecordTorn(id)
  \/ handleOrderCancelled(id, o)

\* The steps of the specification are among them.
LEMMA InvNextIsAny == InvNext => AnyInvNext
BY OrderEventIdsAssumption DEF InvNext, AnyInvNext

-----------------------------------------------------------------------------
\* An order has as many units as its quantity says, and no unit of another.
LEMMA UnitsOfOrder ==
  ASSUME NEW o \in Orders
  PROVE  /\ IsFiniteSet(Units(o)) /\ Cardinality(Units(o)) = Quantity[o]
         /\ \A p \in Orders : \A u : u \in Units(o) /\ u \in Units(p) => p = o
<1>1. Quantity[o] \in Nat \ {0}
    BY QuantityAssumption
<1>2. IsFiniteSet(1..Quantity[o]) /\ Cardinality(1..Quantity[o]) = Quantity[o]
    BY <1>1, FS_Interval
<1>3. IsFiniteSet({o}) /\ Cardinality({o}) = 1
    BY FS_Singleton
<1>4. /\ IsFiniteSet(Units(o))
      /\ Cardinality(Units(o)) = Cardinality({o}) * Cardinality(1..Quantity[o])
    BY <1>2, <1>3, FS_Product DEF Units
<1>5. \A p \in Orders : \A u : u \in Units(o) /\ u \in Units(p) => p = o
    BY DEF Units
<1> QED
    BY <1>1, <1>2, <1>3, <1>4, <1>5

\* Adding a disjoint set adds the cardinalities; so does taking one away.
LEMMA DisjointUnion ==
  ASSUME NEW S, NEW T, IsFiniteSet(S), IsFiniteSet(T), S \cap T = {}
  PROVE  IsFiniteSet(S \cup T) /\ Cardinality(S \cup T) = Cardinality(S) + Cardinality(T)
<1>1. Cardinality(S) \in Nat /\ Cardinality(T) \in Nat
    BY FS_CardinalityType
<1> QED
    BY <1>1, FS_Union, FS_EmptySet

\* Nothing is held at the start.
LEMMA InvInitInv == InvInit => InventoryInv
<1> SUFFICES ASSUME InvInit PROVE InventoryInv
    OBVIOUS
<1>1. InvTypeOK
    BY TotalAssumption, MaxLockErrorsAssumption DEF InvInit, InvTypeOK
<1>2. \A s \in Skus : HeldUnits(s) = {}
    BY DEF InvInit, HeldUnits
<1>3. HeldFinite
    BY <1>2, FS_EmptySet DEF HeldFinite
<1>4. StockConserved
  <2> SUFFICES ASSUME NEW s \in Skus PROVE available[s] + Cardinality(HeldUnits(s)) = Total[s]
      BY DEF StockConserved
  <2>1. Cardinality(HeldUnits(s)) = 0
      BY <1>2, FS_EmptySet
  <2> QED
      BY <2>1, TotalAssumption DEF InvInit
<1> QED
    BY <1>1, <1>3, <1>4 DEF InventoryInv

\* A step that changes neither stock nor reservations keeps their balance.
LEMMA StockUntouched ==
  ASSUME InventoryInv, UNCHANGED <<available, reservation>>
  PROVE  HeldFinite' /\ StockConserved'
<1>1. \A s \in Skus : HeldUnits(s)' = HeldUnits(s)
    BY DEF HeldUnits
<1> QED
    BY <1>1 DEF InventoryInv, HeldFinite, StockConserved

\* A reservation moves the units of one order from the shelf to the order.
LEMMA ReserveStep ==
  ASSUME InventoryInv, NEW id \in Nat, NEW o \in Orders, Reserve(id, o)
  PROVE  InvTypeOK' /\ HeldFinite' /\ StockConserved'
<1> USE DEF InventoryInv
<1>1. /\ SkuOf[o] \in Skus /\ Quantity[o] \in Nat
      /\ available \in [Skus -> Nat]
      /\ available[SkuOf[o]] >= Quantity[o]
      /\ available' = [available EXCEPT ![SkuOf[o]] = @ - Quantity[o]]
      /\ reservation \in [Orders -> {"none", "reserved", "released"}]
      /\ reservation[o] = "none"
      /\ reservation' = [reservation EXCEPT ![o] = "reserved"]
    BY SkuOfAssumption, QuantityAssumption DEF InvTypeOK, Reserve, InStock
<1>2. InvTypeOK'
  <2>1. available' \in [Skus -> Nat] /\ reservation' \in [Orders -> {"none", "reserved", "released"}]
      BY <1>1
  <2>2. Event("InventoryReserved", o) \in InventoryEvents
      BY DEF Event, InventoryEvents, InventoryEventTypes
  <2> QED
      BY <2>1, <2>2 DEF InvTypeOK, Reserve, Process, writeOutbox
<1>3. HeldUnits(SkuOf[o])' = HeldUnits(SkuOf[o]) \cup Units(o)
    BY <1>1 DEF HeldUnits
<1>4. \A s \in Skus : s # SkuOf[o] => HeldUnits(s)' = HeldUnits(s)
    BY <1>1 DEF HeldUnits
<1>5. HeldUnits(SkuOf[o]) \cap Units(o) = {}
  <2> SUFFICES ASSUME NEW u \in HeldUnits(SkuOf[o]), u \in Units(o) PROVE FALSE
      OBVIOUS
  <2>1. PICK p \in Orders : reservation[p] = "reserved" /\ u \in Units(p)
      BY DEF HeldUnits
  <2> QED
      BY <1>1, <2>1, UnitsOfOrder
<1>6. /\ IsFiniteSet(HeldUnits(SkuOf[o])')
      /\ Cardinality(HeldUnits(SkuOf[o])') = Cardinality(HeldUnits(SkuOf[o])) + Quantity[o]
    BY <1>1, <1>3, <1>5, UnitsOfOrder, DisjointUnion DEF HeldFinite
<1>7. HeldFinite'
    BY <1>4, <1>6 DEF HeldFinite
<1>8. StockConserved'
  <2> SUFFICES ASSUME NEW s \in Skus
               PROVE (available[s] + Cardinality(HeldUnits(s)))' = Total[s]
      BY DEF StockConserved
  <2>1. available[s] + Cardinality(HeldUnits(s)) = Total[s]
      BY DEF StockConserved
  <2>2. Cardinality(HeldUnits(s)) \in Nat
      BY FS_CardinalityType DEF HeldFinite
  <2>3. CASE s = SkuOf[o]
    <3>1. available'[s] = available[s] - Quantity[o]
        BY <1>1, <2>3
    <3>2. Cardinality(HeldUnits(s)') = Cardinality(HeldUnits(s)) + Quantity[o]
        BY <1>6, <2>3
    <3> QED
        BY <1>1, <2>1, <2>2, <3>1, <3>2
  <2>4. CASE s # SkuOf[o]
      BY <1>1, <1>4, <2>1, <2>4
  <2> QED
      BY <2>3, <2>4
<1> QED
    BY <1>2, <1>7, <1>8

\* A release moves the units of one order back.
LEMMA ReleaseStep ==
  ASSUME InventoryInv, NEW id \in Nat, NEW o \in Orders, Release(id, o)
  PROVE  InvTypeOK' /\ HeldFinite' /\ StockConserved'
<1> USE DEF InventoryInv
<1>1. /\ SkuOf[o] \in Skus /\ Quantity[o] \in Nat
      /\ available \in [Skus -> Nat]
      /\ available' = [available EXCEPT ![SkuOf[o]] = @ + Quantity[o]]
      /\ reservation \in [Orders -> {"none", "reserved", "released"}]
      /\ reservation[o] = "reserved"
      /\ reservation' = [reservation EXCEPT ![o] = "released"]
    BY SkuOfAssumption, QuantityAssumption DEF InvTypeOK, Release
<1>2. InvTypeOK'
    BY <1>1 DEF InvTypeOK, Release, Process
<1>3. HeldUnits(SkuOf[o]) = HeldUnits(SkuOf[o])' \cup Units(o)
    BY <1>1 DEF HeldUnits
<1>4. \A s \in Skus : s # SkuOf[o] => HeldUnits(s)' = HeldUnits(s)
    BY <1>1 DEF HeldUnits
<1>5. HeldUnits(SkuOf[o])' \cap Units(o) = {}
  <2> SUFFICES ASSUME NEW u \in HeldUnits(SkuOf[o])', u \in Units(o) PROVE FALSE
      OBVIOUS
  <2>1. PICK p \in Orders : reservation'[p] = "reserved" /\ u \in Units(p)
      BY DEF HeldUnits
  <2> QED
      BY <1>1, <2>1, UnitsOfOrder
<1>6. IsFiniteSet(HeldUnits(SkuOf[o])')
    BY <1>1, <1>3, FS_Subset DEF HeldFinite
<1>7. Cardinality(HeldUnits(SkuOf[o])) = Cardinality(HeldUnits(SkuOf[o])') + Quantity[o]
    BY <1>3, <1>5, <1>6, UnitsOfOrder, DisjointUnion
<1>8. HeldFinite'
    BY <1>4, <1>6 DEF HeldFinite
<1>9. StockConserved'
  <2> SUFFICES ASSUME NEW s \in Skus
               PROVE (available[s] + Cardinality(HeldUnits(s)))' = Total[s]
      BY DEF StockConserved
  <2>1. available[s] + Cardinality(HeldUnits(s)) = Total[s]
      BY DEF StockConserved
  <2>2. Cardinality(HeldUnits(s)') \in Nat
      BY <1>8, FS_CardinalityType DEF HeldFinite
  <2>3. CASE s = SkuOf[o]
    <3>1. available'[s] = available[s] + Quantity[o]
        BY <1>1, <2>3
    <3>2. Cardinality(HeldUnits(s)) = Cardinality(HeldUnits(s)') + Quantity[o]
        BY <1>7, <2>3
    <3> QED
        BY <1>1, <2>1, <2>2, <3>1, <3>2
  <2>4. CASE s # SkuOf[o]
      BY <1>1, <1>4, <2>1, <2>4
  <2> QED
      BY <2>3, <2>4
<1> QED
    BY <1>2, <1>8, <1>9

\* The other steps write the outbox, processed_events and torn only.
LEMMA OtherSteps ==
  ASSUME InventoryInv, NEW id \in Nat, NEW o \in Orders,
         \/ RejectOutOfStock(id, o) \/ RejectOnLockError(id, o)
         \/ RejectUnrecorded(id, o) \/ RecordTorn(id) \/ ReleaseNothing(id, o)
  PROVE  InvTypeOK' /\ UNCHANGED <<available, reservation>>
<1>1. Event("ReservationFailed", o) \in InventoryEvents
    BY DEF Event, InventoryEvents, InventoryEventTypes
<1> USE <1>1, MaxLockErrorsAssumption DEF InventoryInv, InvTypeOK, Process, writeOutbox, LockError
<1>2. CASE RejectOutOfStock(id, o)
    BY <1>2 DEF RejectOutOfStock
<1>3. CASE RejectOnLockError(id, o)
    BY <1>3 DEF RejectOnLockError
<1>4. CASE RejectUnrecorded(id, o)
    BY <1>4 DEF RejectUnrecorded
<1>5. CASE RecordTorn(id)
    BY <1>5 DEF RecordTorn
<1>6. CASE ReleaseNothing(id, o)
    BY <1>6 DEF ReleaseNothing
<1> QED
    BY <1>2, <1>3, <1>4, <1>5, <1>6

\* One step of the inventory service keeps its invariant.
LEMMA InvStep == InventoryInv /\ [AnyInvNext]_invVars => InventoryInv'
<1> SUFFICES ASSUME InventoryInv, [AnyInvNext]_invVars PROVE InventoryInv'
    OBVIOUS
<1>1. CASE UNCHANGED invVars
  <2>1. InvTypeOK'
      BY <1>1 DEF InventoryInv, InvTypeOK, invVars
  <2> QED
      BY <1>1, <2>1, StockUntouched DEF InventoryInv, invVars
<1>2. ASSUME NEW id \in Nat, NEW o \in Orders,
             \/ handleOrderCreated(id, o)
             \/ RejectUnrecorded(id, o) \/ RecordTorn(id)
             \/ handleOrderCancelled(id, o)
      PROVE InventoryInv'
    BY <1>2, ReserveStep, ReleaseStep, OtherSteps, StockUntouched
       DEF InventoryInv, handleOrderCreated, handleOrderCancelled
<1> QED
    BY <1>1, <1>2 DEF AnyInvNext

\* No step takes a reservation back.
LEMMA ReservationStep ==
  ASSUME InventoryInv, [AnyInvNext]_invVars
  PROVE  \A o \in Orders :
           /\ reservation[o] = "released" => reservation'[o] = "released"
           /\ reservation[o] = "reserved" => reservation'[o] # "none"
<1>1. reservation \in [Orders -> {"none", "reserved", "released"}]
    BY DEF InventoryInv, InvTypeOK
<1>2. ASSUME NEW id \in Nat, NEW p \in Orders, Reserve(id, p) \/ Release(id, p)
      PROVE \A o \in Orders :
              /\ reservation[o] = "released" => reservation'[o] = "released"
              /\ reservation[o] = "reserved" => reservation'[o] # "none"
    BY <1>1, <1>2 DEF Reserve, Release
<1>3. CASE UNCHANGED reservation
    BY <1>1, <1>3
<1> QED
    BY <1>2, <1>3, OtherSteps DEF AnyInvNext, handleOrderCreated, handleOrderCancelled, invVars

-----------------------------------------------------------------------------
\* The inductive invariant holds throughout.
THEOREM InventoryInvariant == InvSpec => []InventoryInv
<1>1. InventoryInv /\ [InvNext]_invVars => InventoryInv'
    BY InvStep, InvNextIsAny
<1> QED
    BY <1>1, InvInitInv, PTL DEF InvSpec

\* For every SKU, products.available is at every moment the total less what
\* active reservations hold, whatever order events arrive and however often.
THEOREM StockIsConserved == InvSpec => []StockConserved
<1>1. InventoryInv => StockConserved
    BY DEF InventoryInv
<1> QED
    BY <1>1, InventoryInvariant, PTL

\* products.available never goes below zero: no SKU is oversold.
THEOREM NeverOversold ==
  InvSpec => [](\A s \in Skus : available[s] \in Nat /\ Cardinality(HeldUnits(s)) <= Total[s])
<1>1. ASSUME InventoryInv, NEW s \in Skus
      PROVE available[s] \in Nat /\ Cardinality(HeldUnits(s)) <= Total[s]
  <2>1. Cardinality(HeldUnits(s)) \in Nat
      BY <1>1, FS_CardinalityType DEF InventoryInv, HeldFinite
  <2> QED
      BY <1>1, <2>1 DEF InventoryInv, InvTypeOK, StockConserved
<1>2. InventoryInv =>
        \A s \in Skus : available[s] \in Nat /\ Cardinality(HeldUnits(s)) <= Total[s]
    BY <1>1
<1> QED
    BY <1>2, InventoryInvariant, PTL

\* A reservation only goes from reserved to released.
THEOREM ReservationsAdvance == InvSpec => ReservationsOnlyAdvance
<1>1. InventoryInv /\ [InvNext]_invVars =>
        [\A o \in Orders :
           /\ reservation[o] = "released" => reservation'[o] = "released"
           /\ reservation[o] = "reserved" => reservation'[o] # "none"]_invVars
    BY ReservationStep, InvNextIsAny
<1> QED
    BY <1>1, InventoryInvariant, PTL DEF InvSpec, ReservationsOnlyAdvance
=============================================================================
