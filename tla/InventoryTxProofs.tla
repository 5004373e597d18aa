------------------------- MODULE InventoryTxProofs --------------------------
(***************************************************************************)
(* Proofs about InventoryTx, for any workers, orders, products and order   *)
(* events, and any number of lock errors, retries and crashes: the locks   *)
(* of the transactions make the one-step transactions of InventoryService  *)
(* out of them, and the only deadlocks are among reservations.             *)
(***************************************************************************)
EXTENDS InventoryTx, InventoryProofs

-----------------------------------------------------------------------------
(* The invariant *)

\* The locking read has locked the order's row, or the gap where it would be.
LocksOrder(w) == "record" \in tx[w].locks \/ orderOf(w) \in tx[w].gap

\* Nothing is locked, written or answered yet.
Fresh(w) == /\ tx[w].locks = {} /\ tx[w].gap = {} /\ tx[w].writes = {}
            /\ tx[w].answer = "" /\ tx[w].live

\* What a reservation has done when it comes to its answer.
Reserved(w) == /\ tx[w].writes = {"decrement", "insert"}
               /\ tx[w].answer = "InventoryReserved"
               /\ "product" \in tx[w].locks
               /\ tx[w].live

Refused(w) == tx[w].writes = {} /\ tx[w].answer = "ReservationFailed"

\* What a release has done when it is about to be recorded.
Released(w) == /\ tx[w].writes = {"flip", "giveback"}
               /\ {"record", "product"} \subseteq tx[w].locks
               /\ tx[w].answer = "" /\ tx[w].live

NoRelease(w) == /\ tx[w].writes = {} /\ tx[w].answer = "" /\ tx[w].live
                /\ LocksOrder(w) /\ reservation[orderOf(w)] # "reserved"

\* How far a transaction is, statement by statement.
Progress(w) ==
  /\ tx[w].pc # "idle" => tx[w].event \in OrderEventIds
  /\ tx[w].pc \in {"idle", "start", "locate"} => Fresh(w)
  /\ tx[w].pc = "decrement" =>
       /\ typeOf(w) = "OrderCreated" /\ tx[w].writes = {} /\ tx[w].answer = ""
       /\ tx[w].live /\ "product" \notin tx[w].locks /\ LocksOrder(w)
  /\ tx[w].pc = "insert" =>
       /\ typeOf(w) = "OrderCreated" /\ tx[w].writes = {"decrement"} /\ tx[w].answer = ""
       /\ tx[w].live /\ "product" \in tx[w].locks /\ LocksOrder(w)
  /\ tx[w].pc = "giveback" =>
       /\ typeOf(w) = "OrderCancelled" /\ tx[w].writes = {"flip"} /\ tx[w].answer = ""
       /\ tx[w].live /\ tx[w].locks = {"record"} /\ tx[w].gap = {}
  /\ tx[w].pc = "answer" => Reserved(w) \/ Refused(w)
  /\ tx[w].pc = "record" => Reserved(w) \/ Refused(w) \/ Released(w) \/ NoRelease(w)

\* What a transaction has read under its locks is still so.
StillSo(w) ==
  LET o == orderOf(w)
  IN /\ "decrement" \in tx[w].writes => InStock(o)
     /\ Refused(w) /\ "product" \in tx[w].locks => ~InStock(o)
     /\ "insert" \in tx[w].writes => reservation[o] = "none"
     /\ "flip" \in tx[w].writes => reservation[o] = "reserved"
     /\ "record" \in tx[w].locks => reservation[o] # "none"
     /\ \A p \in tx[w].gap : reservation[p] = "none"

\* Row locks exclude each other, and a gap lock keeps others from inserting.
Excluded(v, w) ==
  /\ HoldsRecord(v) /\ HoldsRecord(w) => orderOf(v) # orderOf(w)
  /\ "product" \in tx[v].locks /\ "product" \in tx[w].locks =>
       SkuOf[orderOf(v)] # SkuOf[orderOf(w)]
  /\ "insert" \in tx[w].writes => orderOf(w) \notin tx[v].gap

LocksHold ==
  /\ \A w \in Workers : Progress(w) /\ StillSo(w)
  /\ \A v, w \in Workers : v # w => Excluded(v, w)

TxInv == InventoryInv /\ TxTypeOK /\ LocksHold

-----------------------------------------------------------------------------
(* Facts about the operators *)

\* Only the transaction that takes the step changes.
LEMMA StepEffect ==
  ASSUME TxTypeOK, NEW w \in Workers, NEW t, Step(w, t)
  PROVE  tx'[w] = t /\ \A v \in Workers : v # w => tx'[v] = tx[v]
BY DEF TxTypeOK, Step

\* A transaction in progress is about an event that names an order.
LEMMA EventOfBusy ==
  ASSUME NEW w \in Workers, Progress(w), Busy(w)
  PROVE  /\ tx[w].event \in OrderEventIds /\ orderOf(w) \in Orders
         /\ typeOf(w) \in {"OrderCreated", "OrderCancelled"}
         /\ SkuOf[orderOf(w)] \in Skus /\ Quantity[orderOf(w)] \in Nat
<1>1. tx[w].event \in OrderEventIds
    BY DEF Progress, Busy
<1>2. Inbox[tx[w].event] \in OrderEvents
    BY <1>1, InboxAssumption
<1> QED
    BY <1>1, <1>2, SkuOfAssumption, QuantityAssumption
    DEF OrderEvents, OrderEventTypes, orderOf, typeOf

\* Whoever holds a lock or has written something is in progress.
LEMMA HoldersAreBusy ==
  ASSUME NEW v \in Workers, Progress(v),
         HoldsRecord(v) \/ tx[v].locks # {} \/ tx[v].gap # {} \/ tx[v].writes # {}
  PROVE  Busy(v)
BY DEF Progress, Fresh, HoldsRecord, Busy

\* Whom the statements wait for, one by one.
LEMMA BlockersAt ==
  ASSUME NEW w \in Workers
  PROVE  /\ tx[w].pc = "locate" => Blockers(w) = {v \in OnOrder(w) : HoldsRecord(v)}
         /\ tx[w].pc \in {"decrement", "giveback"} =>
              Blockers(w) = {v \in OnProduct(w) : "product" \in tx[v].locks}
         /\ tx[w].pc = "insert" =>
              Blockers(w) = {v \in OnOrder(w) : HoldsRecord(v)}
                              \cup {v \in Workers \ {w} : orderOf(w) \in tx[v].gap}
         /\ tx[w].pc \notin {"locate", "decrement", "giveback", "insert"} => Blockers(w) = {}
<1>1. CASE tx[w].pc = "locate"
    BY <1>1 DEF Blockers
<1>2. CASE tx[w].pc = "decrement"
    BY <1>2 DEF Blockers
<1>3. CASE tx[w].pc = "giveback"
    BY <1>3 DEF Blockers
<1>4. CASE tx[w].pc = "insert"
    BY <1>4 DEF Blockers
<1>5. CASE tx[w].pc \notin {"locate", "decrement", "giveback", "insert"}
    BY <1>5 DEF Blockers
<1> QED
    BY <1>1, <1>2, <1>3, <1>4, <1>5

\* No statement waits for its own transaction.
LEMMA NotOwnBlocker ==
  ASSUME NEW w \in Workers
  PROVE  Blockers(w) \subseteq Workers \ {w}
<1>1. OnOrder(w) \subseteq Workers \ {w} /\ OnProduct(w) \subseteq Workers \ {w}
    BY DEF OnOrder, OnProduct
<1> QED
    BY <1>1, BlockersAt

-----------------------------------------------------------------------------
(* What a step leaves alone *)

\* A transaction that takes no step, while the tables stay as they are.
LEMMA OthersKeep ==
  ASSUME NEW v \in Workers, Progress(v), StillSo(v), tx'[v] = tx[v],
         UNCHANGED <<available, reservation>>
  PROVE  Progress(v)' /\ StillSo(v)'
<1>1. orderOf(v)' = orderOf(v) /\ typeOf(v)' = typeOf(v)
    BY DEF orderOf, typeOf
<1>2. /\ Fresh(v)' <=> Fresh(v)
      /\ Reserved(v)' <=> Reserved(v)
      /\ Refused(v)' <=> Refused(v)
      /\ Released(v)' <=> Released(v)
      /\ LocksOrder(v)' <=> LocksOrder(v)
    BY <1>1 DEF Fresh, Reserved, Refused, Released, LocksOrder
<1>3. NoRelease(v)' <=> NoRelease(v)
    BY <1>1, <1>2 DEF NoRelease
<1>4. Progress(v)'
    BY <1>1, <1>2, <1>3 DEF Progress
<1>5. StillSo(v)'
    BY <1>1, <1>2 DEF StillSo, InStock
<1> QED
    BY <1>4, <1>5

\* Two transactions exclude each other as long as neither takes more.
LEMMA ExcludedKept ==
  ASSUME NEW v \in Workers, NEW w \in Workers, Excluded(v, w),
         tx'[v] = tx[v],
         \/ tx'[w].event = tx[w].event
         \/ tx'[w].locks = {} /\ tx'[w].gap = {} /\ tx'[w].writes = {},
         tx'[w].locks \subseteq tx[w].locks, tx'[w].gap \subseteq tx[w].gap,
         tx'[w].writes \subseteq tx[w].writes
  PROVE  Excluded(v, w)'
BY DEF Excluded, HoldsRecord, orderOf

\* Steps after which one transaction holds no more than before: it is enough
\* to look at that transaction itself.
LEMMA TakesNoMore ==
  ASSUME TxTypeOK, LocksHold, NEW w \in Workers, NEW t, Step(w, t),
         UNCHANGED <<available, reservation>>,
         Progress(w)', StillSo(w)',
         \/ t.event = tx[w].event
         \/ t.locks = {} /\ t.gap = {} /\ t.writes = {},
         t.locks \subseteq tx[w].locks, t.gap \subseteq tx[w].gap,
         t.writes \subseteq tx[w].writes
  PROVE  LocksHold'
<1>1. tx'[w] = t /\ \A v \in Workers : v # w => tx'[v] = tx[v]
    BY StepEffect
<1>2. \A v \in Workers : Progress(v)' /\ StillSo(v)'
    BY <1>1, OthersKeep DEF LocksHold
<1>3. ASSUME NEW u \in Workers, NEW v \in Workers, u # v PROVE Excluded(u, v)'
  <2>1. Excluded(u, v)
      BY <1>3 DEF LocksHold
  <2>2. CASE u # w /\ v # w
      BY <1>1, <2>1, <2>2 DEF Excluded, HoldsRecord, orderOf
  <2>3. CASE v = w
      BY <1>1, <1>3, <2>1, <2>3, ExcludedKept
  <2>4. CASE u = w
      BY <1>1, <1>3, <2>1, <2>4 DEF Excluded, HoldsRecord, orderOf
  <2> QED
      BY <2>2, <2>3, <2>4
<1> QED
    BY <1>2, <1>3 DEF LocksHold

\* A transaction that ends or starts afresh gives up everything.
LEMMA ResetKeeps ==
  ASSUME TxTypeOK, LocksHold, NEW w \in Workers, NEW t, Step(w, t),
         UNCHANGED <<available, reservation>>,
         t = NoTx \/ \E id \in OrderEventIds : \E n \in Nat : t = Attempt(id, n)
  PROVE  LocksHold'
<1>1. tx'[w] = t
    BY StepEffect
<1>2. /\ t.locks = {} /\ t.gap = {} /\ t.writes = {} /\ t.answer = "" /\ t.live
      /\ t.pc = "idle" \/ (t.pc = "start" /\ t.event \in OrderEventIds)
  <2>1. CASE t = NoTx
      BY <2>1 DEF NoTx
  <2>2. ASSUME NEW id \in OrderEventIds, NEW n \in Nat, t = Attempt(id, n)
        PROVE  /\ t.locks = {} /\ t.gap = {} /\ t.writes = {} /\ t.answer = "" /\ t.live
               /\ t.pc = "start" /\ t.event \in OrderEventIds
      BY <2>2 DEF NoTx, Attempt
  <2> QED
      BY <2>1, <2>2
<1>3. Progress(w)' /\ StillSo(w)'
    BY <1>1, <1>2 DEF Progress, StillSo, Fresh, Refused
<1>4. t.locks \subseteq tx[w].locks /\ t.gap \subseteq tx[w].gap /\ t.writes \subseteq tx[w].writes
    BY <1>2
<1> QED
    BY <1>2, <1>3, <1>4, TakesNoMore

\* Steps that take a lock or write: the transaction that takes the step has to
\* be looked at from both sides of every pair.
LEMMA TakesMore ==
  ASSUME TxTypeOK, LocksHold, NEW w \in Workers, NEW t, Step(w, t),
         UNCHANGED <<available, reservation>>,
         Progress(w)', StillSo(w)',
         \A v \in Workers : v # w => Excluded(v, w)' /\ Excluded(w, v)'
  PROVE  LocksHold'
<1>1. tx'[w] = t /\ \A v \in Workers : v # w => tx'[v] = tx[v]
    BY StepEffect
<1>2. \A v \in Workers : Progress(v)' /\ StillSo(v)'
    BY <1>1, OthersKeep DEF LocksHold
<1>3. ASSUME NEW u \in Workers, NEW v \in Workers, u # v, u # w, v # w
      PROVE Excluded(u, v)'
    BY <1>1, <1>3 DEF LocksHold, Excluded, HoldsRecord, orderOf
<1> QED
    BY <1>2, <1>3 DEF LocksHold

-----------------------------------------------------------------------------
(* The statements *)

\* The locking read gets the row, and then nobody else holds it, or the gap,
\* and then no key in the gap is there or is being inserted.
LEMMA LocatedLocks ==
  ASSUME TxTypeOK, LocksHold, NEW w \in Workers, At(w, "locate")
  PROVE  LET L == Located(w)
             o == orderOf(w)
         IN /\ L.event = tx[w].event /\ L.pc = "locate"
            /\ L.writes = {} /\ L.answer = "" /\ L.live
            /\ \/ L.locks = {} /\ o \in L.gap /\ reservation[o] = "none"
               \/ /\ L.locks = {"record"} /\ L.gap = {} /\ reservation[o] # "none"
                  /\ \A v \in Workers : v # w /\ HoldsRecord(v) => orderOf(v) # o
            /\ \A p \in L.gap :
                 /\ reservation[p] = "none"
                 /\ \A v \in Workers : "insert" \in tx[v].writes => orderOf(v) # p
<1> DEFINE o == orderOf(w)
<1>1. tx[w] \in Transactions /\ tx[w].pc = "locate" /\ Fresh(w) /\ o \in Orders
    BY EventOfBusy DEF TxTypeOK, LocksHold, At, Busy, Progress
<1>2. ASSUME NEW v \in Workers, v # w, HoldsRecord(v) PROVE orderOf(v) # o
  <2>1. Busy(v)
      BY <1>2, HoldersAreBusy DEF LocksHold
  <2>2. v \notin {u \in OnOrder(w) : HoldsRecord(u)}
      BY <1>1, BlockersAt DEF At
  <2> QED
      BY <1>2, <2>1, <2>2 DEF OnOrder
<1>3. ASSUME NEW p \in GapAround(o)
      PROVE  /\ p \in Orders /\ reservation[p] = "none"
             /\ \A v \in Workers : "insert" \in tx[v].writes => orderOf(v) # p
    BY DEF GapAround, IndexKeys
<1>4. CASE reservation[o] = "none"
  <2>1. Located(w) = [tx[w] EXCEPT !.gap = GapAround(o)]
      BY <1>4 DEF Located
  <2>2. o \in GapAround(o)
    <3>1. \A v \in Workers : "insert" \in tx[v].writes => orderOf(v) # o
        BY <1>1, <1>2 DEF HoldsRecord, Fresh
    <3> QED
        BY <1>1, <1>4, <3>1 DEF GapAround, IndexKeys
  <2> QED
      BY <1>1, <1>3, <1>4, <2>1, <2>2 DEF Transactions, Fresh
<1>5. CASE reservation[o] # "none"
  <2>1. Located(w) = [tx[w] EXCEPT !.locks = {"record"}]
      BY <1>5 DEF Located
  <2> QED
      BY <1>1, <1>2, <1>5, <2>1 DEF Transactions, Fresh
<1> QED
    BY <1>4, <1>5

\* After the locking read a transaction excludes what it has to.
LEMMA LocateKeeps ==
  ASSUME TxTypeOK, LocksHold, NEW w \in Workers, LocateForReserve(w) \/ LocateForRelease(w)
  PROVE  LocksHold'
<1> DEFINE L == Located(w)
           o == orderOf(w)
           t == tx'[w]
<1>1. At(w, "locate") /\ UNCHANGED <<available, reservation>>
    BY DEF LocateForReserve, LocateForRelease, invVars
<1>2. /\ L.event = tx[w].event /\ L.pc = "locate"
      /\ L.writes = {} /\ L.answer = "" /\ L.live
      /\ \/ L.locks = {} /\ o \in L.gap /\ reservation[o] = "none"
         \/ /\ L.locks = {"record"} /\ L.gap = {} /\ reservation[o] # "none"
            /\ \A v \in Workers : v # w /\ HoldsRecord(v) => orderOf(v) # o
      /\ \A p \in L.gap :
           /\ reservation[p] = "none"
           /\ \A v \in Workers : "insert" \in tx[v].writes => orderOf(v) # p
    BY <1>1, LocatedLocks
<1>3. tx[w] \in Transactions /\ L \in Transactions /\ tx[w].event \in OrderEventIds
  <2>1. tx[w] \in Transactions
      BY DEF TxTypeOK
  <2>2. \A p \in GapAround(o) : p \in Orders
      BY DEF GapAround
  <2>3. L \in Transactions
      BY <2>1, <2>2 DEF Located, Transactions
  <2> QED
      BY <1>1, <2>1, <2>3 DEF LocksHold, Progress, At
<1> HIDE DEF L
<1>4. /\ Step(w, t)
      /\ t.event = tx[w].event /\ t.answer = "" /\ t.live
      /\ t.locks = L.locks /\ t.gap = L.gap
      /\ \/ typeOf(w) = "OrderCreated" /\ t.pc = "decrement" /\ t.writes = {}
         \/ /\ typeOf(w) = "OrderCancelled" /\ t.pc = "giveback" /\ t.writes = {"flip"}
            /\ reservation[o] = "reserved"
         \/ t.pc = "record" /\ t.writes = {} /\ reservation[o] # "reserved"
  <2>1. CASE LocateForReserve(w)
    <3>1. Step(w, [L EXCEPT !.pc = "decrement"]) /\ typeOf(w) = "OrderCreated"
        BY <2>1 DEF LocateForReserve, L
    <3>2. t = [L EXCEPT !.pc = "decrement"]
        BY <3>1, StepEffect
    <3> QED
        BY <1>2, <1>3, <3>1, <3>2 DEF Transactions
  <2>2. CASE LocateForRelease(w) /\ reservation[o] = "reserved"
    <3>1. Step(w, [L EXCEPT !.pc = "giveback", !.writes = {"flip"}]) /\ typeOf(w) = "OrderCancelled"
        BY <2>2 DEF LocateForRelease, L
    <3>2. t = [L EXCEPT !.pc = "giveback", !.writes = {"flip"}]
        BY <3>1, StepEffect
    <3> QED
        BY <1>2, <1>3, <2>2, <3>1, <3>2 DEF Transactions
  <2>3. CASE LocateForRelease(w) /\ reservation[o] # "reserved"
    <3>1. Step(w, [L EXCEPT !.pc = "record"])
        BY <2>3 DEF LocateForRelease, L
    <3>2. t = [L EXCEPT !.pc = "record"]
        BY <3>1, StepEffect
    <3> QED
        BY <1>2, <1>3, <2>3, <3>1, <3>2 DEF Transactions
  <2> QED
      BY <2>1, <2>2, <2>3
<1>5. \A v \in Workers : v # w => tx'[v] = tx[v]
    BY <1>4, StepEffect
<1>6. orderOf(w)' = o /\ typeOf(w)' = typeOf(w) /\ LocksOrder(w)'
    BY <1>2, <1>4, <1>5 DEF orderOf, typeOf, LocksOrder
<1>7. Progress(w)'
  <2>1. CASE t.pc = "decrement"
    <3>1. "product" \notin t.locks /\ typeOf(w) = "OrderCreated" /\ t.writes = {}
        BY <1>2, <1>4, <2>1
    <3> QED
        BY <1>3, <1>4, <1>6, <2>1, <3>1 DEF Progress
  <2>2. CASE t.pc = "giveback"
    <3>1. t.locks = {"record"} /\ t.gap = {}
        BY <1>2, <1>4, <2>2
    <3> QED
        BY <1>3, <1>4, <1>6, <2>2, <3>1 DEF Progress
  <2>3. CASE t.pc = "record"
    <3>1. NoRelease(w)'
        BY <1>1, <1>4, <1>6, <2>3 DEF NoRelease
    <3> QED
        BY <1>3, <1>4, <2>3, <3>1 DEF Progress
  <2> QED
      BY <1>4, <2>1, <2>2, <2>3
<1>8. StillSo(w)'
    BY <1>1, <1>2, <1>4, <1>5, <1>6 DEF StillSo, Refused
<1>9. ASSUME NEW v \in Workers, v # w PROVE Excluded(v, w)' /\ Excluded(w, v)'
  <2>1. "insert" \notin tx'[w].writes /\ "product" \notin tx'[w].locks
      BY <1>2, <1>4, <1>5
  <2>2. orderOf(v)' = orderOf(v) /\ (HoldsRecord(v)' <=> HoldsRecord(v)) /\ tx'[v] = tx[v]
      BY <1>5, <1>9 DEF orderOf, HoldsRecord
  <2>3. HoldsRecord(w)' /\ HoldsRecord(v)' => orderOf(v)' # o
      BY <1>2, <1>4, <1>5, <1>9, <2>1, <2>2 DEF HoldsRecord
  <2>4. "insert" \in tx'[v].writes => orderOf(v)' \notin tx'[w].gap
      BY <1>2, <1>4, <1>5, <2>2
  <2> QED
      BY <1>6, <2>1, <2>2, <2>3, <2>4 DEF Excluded
<1> QED
    BY <1>1, <1>4, <1>7, <1>8, <1>9, TakesMore

\* The row lock of the product: what was free is now held by one.
LEMMA ProductFree ==
  ASSUME LocksHold, NEW w \in Workers, At(w, "decrement") \/ At(w, "giveback")
  PROVE  \A v \in Workers : v # w /\ "product" \in tx[v].locks =>
           SkuOf[orderOf(v)] # SkuOf[orderOf(w)]
<1> SUFFICES ASSUME NEW v \in Workers, v # w, "product" \in tx[v].locks
             PROVE SkuOf[orderOf(v)] # SkuOf[orderOf(w)]
    OBVIOUS
<1>1. Busy(v)
    BY HoldersAreBusy DEF LocksHold
<1>2. v \notin {u \in OnProduct(w) : "product" \in tx[u].locks}
    BY BlockersAt DEF At
<1> QED
    BY <1>1, <1>2 DEF OnProduct

\* Taking the product's lock excludes no more than that.
LEMMA ProductExcludes ==
  ASSUME TxTypeOK, LocksHold, NEW w \in Workers, At(w, "decrement") \/ At(w, "giveback"),
         NEW t, Step(w, t), t.event = tx[w].event, t.gap = tx[w].gap,
         t.locks = tx[w].locks \cup {"product"},
         "insert" \notin t.writes, "insert" \notin tx[w].writes,
         NEW v \in Workers, v # w
  PROVE  Excluded(v, w)' /\ Excluded(w, v)'
<1>1. tx'[w] = t /\ tx'[v] = tx[v]
    BY StepEffect
<1>2. orderOf(v)' = orderOf(v) /\ orderOf(w)' = orderOf(w)
    BY <1>1 DEF orderOf
<1>3. (HoldsRecord(v)' <=> HoldsRecord(v)) /\ (HoldsRecord(w)' <=> HoldsRecord(w))
    BY <1>1 DEF HoldsRecord
<1>4. Excluded(v, w) /\ Excluded(w, v)
    BY DEF LocksHold
<1> QED
    BY <1>1, <1>2, <1>3, <1>4, ProductFree DEF Excluded

\* The decrement sees the stock under the product's lock, and so does the
\* rejection.
LEMMA DecrementKeeps ==
  ASSUME TxTypeOK, LocksHold, NEW w \in Workers, Decrement(w)
  PROVE  LocksHold'
<1> DEFINE o == orderOf(w)
           t == tx'[w]
           l == [tx[w] EXCEPT !.locks = @ \cup {"product"}]
<1>1. At(w, "decrement") /\ tx[w].pc = "decrement" /\ UNCHANGED <<available, reservation>>
    BY DEF Decrement, At, invVars
<1>2. Progress(w) /\ StillSo(w) /\ tx[w] \in Transactions
    BY DEF LocksHold, TxTypeOK
<1>3. /\ tx[w].event \in OrderEventIds /\ typeOf(w) = "OrderCreated" /\ tx[w].writes = {}
      /\ tx[w].answer = "" /\ tx[w].live /\ LocksOrder(w)
    BY <1>1, <1>2 DEF Progress
<1>4. /\ Step(w, t)
      /\ t.event = tx[w].event /\ t.live /\ t.gap = tx[w].gap
      /\ t.locks = tx[w].locks \cup {"product"}
      /\ \/ InStock(o) /\ t.pc = "insert" /\ t.writes = {"decrement"} /\ t.answer = ""
         \/ ~InStock(o) /\ t.pc = "answer" /\ t.writes = {} /\ t.answer = "ReservationFailed"
  <2>1. CASE InStock(o)
    <3>1. Step(w, Decremented(l)) /\ t = Decremented(l)
        BY <2>1, StepEffect DEF Decrement
    <3> QED
        BY <1>2, <1>3, <2>1, <3>1 DEF Decremented, Transactions
  <2>2. CASE ~InStock(o)
    <3>1. Step(w, Rejected(l)) /\ t = Rejected(l)
        BY <2>2, StepEffect DEF Decrement
    <3>2. /\ l \in Transactions /\ l.event = tx[w].event /\ l.live /\ l.gap = tx[w].gap
          /\ l.writes = {} /\ l.locks = tx[w].locks \cup {"product"}
        BY <1>2, <1>3 DEF Transactions
    <3> HIDE DEF l
    <3>3. /\ t.event = l.event /\ t.live /\ t.gap = l.gap /\ t.writes = {}
          /\ t.locks = l.locks /\ t.pc = "answer" /\ t.answer = "ReservationFailed"
        BY <3>1, <3>2 DEF Rejected, Transactions
    <3> QED
        BY <2>2, <3>1, <3>2, <3>3
  <2> QED
      BY <2>1, <2>2
<1>6. orderOf(w)' = o /\ typeOf(w)' = typeOf(w) /\ LocksOrder(w)'
    BY <1>3, <1>4 DEF orderOf, typeOf, LocksOrder
<1>7. Progress(w)'
    BY <1>3, <1>4, <1>6 DEF Progress, Refused
<1>8. StillSo(w)'
    BY <1>1, <1>2, <1>4, <1>6 DEF StillSo, Refused, InStock
<1>9. \A v \in Workers : v # w => Excluded(v, w)' /\ Excluded(w, v)'
    BY <1>1, <1>3, <1>4, ProductExcludes
<1> QED
    BY <1>1, <1>4, <1>7, <1>8, <1>9, TakesMore

\* The units are given back under the product's lock.
LEMMA GiveBackKeeps ==
  ASSUME TxTypeOK, LocksHold, NEW w \in Workers, GiveBack(w)
  PROVE  LocksHold'
<1> DEFINE o == orderOf(w)
           t == tx'[w]
<1>1. At(w, "giveback") /\ tx[w].pc = "giveback" /\ UNCHANGED <<available, reservation>>
    BY DEF GiveBack, At, invVars
<1>2. Progress(w) /\ StillSo(w) /\ tx[w] \in Transactions
    BY DEF LocksHold, TxTypeOK
<1>3. /\ tx[w].event \in OrderEventIds /\ tx[w].writes = {"flip"} /\ tx[w].answer = ""
      /\ tx[w].live /\ tx[w].locks = {"record"} /\ tx[w].gap = {}
    BY <1>1, <1>2 DEF Progress
<1>4. /\ Step(w, t) /\ t.pc = "record" /\ t.event = tx[w].event /\ t.live /\ t.gap = tx[w].gap
      /\ t.locks = tx[w].locks \cup {"product"} /\ t.writes = {"flip", "giveback"}
      /\ t.answer = ""
  <2>1. Step(w, t) /\ t = [tx[w] EXCEPT !.pc = "record", !.locks = @ \cup {"product"},
                                        !.writes = @ \cup {"giveback"}]
      BY StepEffect DEF GiveBack
  <2>2. /\ t.pc = "record" /\ t.event = tx[w].event /\ t.live = tx[w].live /\ t.gap = tx[w].gap
        /\ t.locks = tx[w].locks \cup {"product"}
        /\ t.writes = tx[w].writes \cup {"giveback"} /\ t.answer = tx[w].answer
      BY <1>2, <2>1 DEF Transactions
  <2> QED
      BY <1>3, <2>1, <2>2
<1>5. orderOf(w)' = o
    BY <1>4 DEF orderOf
<1>6. Progress(w)'
  <2>1. Released(w)'
      BY <1>3, <1>4 DEF Released
  <2> QED
      BY <1>3, <1>4, <2>1 DEF Progress
<1>7. StillSo(w)'
    BY <1>1, <1>2, <1>3, <1>4, <1>5 DEF StillSo, Refused
<1>8. \A v \in Workers : v # w => Excluded(v, w)' /\ Excluded(w, v)'
    BY <1>1, <1>3, <1>4, ProductExcludes
<1> QED
    BY <1>1, <1>4, <1>6, <1>7, <1>8, TakesMore

\* The insert waits until nobody else has the row or a gap around it.
LEMMA InsertKeeps ==
  ASSUME TxTypeOK, LocksHold, NEW w \in Workers, InsertReservation(w)
  PROVE  LocksHold'
<1> DEFINE o == orderOf(w)
           t == tx'[w]
<1>1. /\ At(w, "insert") /\ tx[w].pc = "insert" /\ reservation[o] = "none"
      /\ UNCHANGED <<available, reservation>>
    BY DEF InsertReservation, At, invVars
<1>2. Progress(w) /\ StillSo(w) /\ tx[w] \in Transactions
    BY DEF LocksHold, TxTypeOK
<1>3. /\ tx[w].event \in OrderEventIds /\ tx[w].writes = {"decrement"}
      /\ tx[w].live /\ "product" \in tx[w].locks
    BY <1>1, <1>2 DEF Progress
<1>4. /\ Step(w, t) /\ t.pc = "answer" /\ t.event = tx[w].event /\ t.live /\ t.gap = tx[w].gap
      /\ t.locks = tx[w].locks /\ t.writes = {"decrement", "insert"}
      /\ t.answer = "InventoryReserved"
  <2>1. Step(w, t) /\ t = [tx[w] EXCEPT !.pc = "answer", !.writes = @ \cup {"insert"},
                                        !.answer = "InventoryReserved"]
      BY StepEffect DEF InsertReservation
  <2> QED
      BY <1>2, <1>3, <2>1 DEF Transactions
<1>5. orderOf(w)' = o
    BY <1>4 DEF orderOf
<1>6. Progress(w)'
  <2>1. Reserved(w)'
      BY <1>3, <1>4 DEF Reserved
  <2> QED
      BY <1>3, <1>4, <2>1 DEF Progress
<1>7. StillSo(w)'
  <2>1. InStock(o)'
      BY <1>1, <1>2, <1>3, <1>5 DEF StillSo, InStock
  <2> QED
      BY <1>1, <1>2, <1>3, <1>4, <1>5, <2>1 DEF StillSo, Refused, InStock
<1>8. ASSUME NEW v \in Workers, v # w PROVE Excluded(v, w)' /\ Excluded(w, v)'
  <2>1. tx'[v] = tx[v]
      BY <1>4, <1>8, StepEffect
  <2>2. orderOf(v)' = orderOf(v) /\ (HoldsRecord(v)' <=> HoldsRecord(v))
      BY <2>1 DEF orderOf, HoldsRecord
  <2>3. HoldsRecord(v) => orderOf(v) # o
    <3>1. HoldsRecord(v) => Busy(v)
        BY HoldersAreBusy DEF LocksHold
    <3>2. v \notin {u \in OnOrder(w) : HoldsRecord(u)}
        BY <1>1, BlockersAt DEF At
    <3> QED
        BY <1>8, <3>1, <3>2 DEF OnOrder
  <2>4. o \notin tx[v].gap
      BY <1>1, <1>8, BlockersAt DEF At
  <2>5. Excluded(v, w) /\ Excluded(w, v)
      BY <1>8 DEF LocksHold
  <2>6. Excluded(v, w)'
      BY <1>4, <1>5, <2>1, <2>2, <2>3, <2>4, <2>5 DEF Excluded
  <2>7. Excluded(w, v)'
      BY <1>4, <1>5, <2>1, <2>2, <2>3, <2>5 DEF Excluded
  <2> QED
      BY <2>6, <2>7
<1> QED
    BY <1>1, <1>4, <1>6, <1>7, <1>8, TakesMore

\* Steps that only go on to the next statement.
LEMMA GoOnKeeps ==
  ASSUME TxTypeOK, LocksHold, NEW w \in Workers, NEW pc,
         Step(w, [tx[w] EXCEPT !.pc = pc]), UNCHANGED <<available, reservation>>,
         \/ tx[w].pc = "start" /\ pc = "locate"
         \/ tx[w].pc = "answer" /\ pc = "record"
  PROVE  LocksHold'
<1> DEFINE t == tx'[w]
<1>1. Progress(w) /\ StillSo(w) /\ tx[w] \in Transactions
    BY DEF LocksHold, TxTypeOK
<1>2. Step(w, t) /\ t = [tx[w] EXCEPT !.pc = pc]
    BY StepEffect
<1>3. /\ t.pc = pc /\ t.event = tx[w].event /\ t.locks = tx[w].locks /\ t.gap = tx[w].gap
      /\ t.writes = tx[w].writes /\ t.answer = tx[w].answer /\ t.live = tx[w].live
    BY <1>1, <1>2 DEF Transactions
<1>4. orderOf(w)' = orderOf(w)
    BY <1>3 DEF orderOf
<1>5. /\ Fresh(w)' <=> Fresh(w)
      /\ Reserved(w)' <=> Reserved(w)
      /\ Refused(w)' <=> Refused(w)
    BY <1>3 DEF Fresh, Reserved, Refused
<1>6. Progress(w)'
    BY <1>1, <1>3, <1>5 DEF Progress
<1>7. StillSo(w)'
    BY <1>1, <1>3, <1>4, <1>5 DEF StillSo, InStock
<1> QED
    BY <1>2, <1>3, <1>6, <1>7, TakesNoMore

\* A decrement that fails with a lock error goes on as a rejection, with or
\* without the transaction it was in.
LEMMA LockErrorKeeps ==
  ASSUME TxTypeOK, LocksHold, NEW w \in Workers, tx[w].pc = "decrement",
         UNCHANGED <<available, reservation>>,
         \/ Step(w, Rejected([tx[w] EXCEPT !.locks = {}, !.gap = {}, !.writes = {},
                                           !.live = FALSE]))
         \/ Step(w, Rejected(tx[w]))
  PROVE  LocksHold'
<1> DEFINE t == tx'[w]
           l == [tx[w] EXCEPT !.locks = {}, !.gap = {}, !.writes = {}, !.live = FALSE]
<1>1. Progress(w) /\ StillSo(w) /\ tx[w] \in Transactions
    BY DEF LocksHold, TxTypeOK
<1>2. tx[w].event \in OrderEventIds /\ tx[w].writes = {} /\ "product" \notin tx[w].locks
    BY <1>1 DEF Progress
<1>3. /\ Step(w, t) /\ t.pc = "answer" /\ t.answer = "ReservationFailed"
      /\ t.event = tx[w].event /\ t.writes = {}
      /\ t.locks \subseteq tx[w].locks /\ t.gap \subseteq tx[w].gap
  <2>1. CASE Step(w, Rejected(l))
    <3>1. Step(w, t) /\ t = Rejected(l)
        BY <2>1, StepEffect
    <3>2. /\ l \in Transactions /\ l.event = tx[w].event
          /\ l.writes = {} /\ l.locks = {} /\ l.gap = {}
        BY <1>1 DEF Transactions
    <3> HIDE DEF l
    <3> QED
        BY <3>1, <3>2 DEF Rejected, Transactions
  <2>2. CASE Step(w, Rejected(tx[w]))
    <3>1. Step(w, t) /\ t = Rejected(tx[w])
        BY <2>2, StepEffect
    <3> QED
        BY <1>1, <1>2, <3>1 DEF Rejected, Transactions
  <2> QED
      BY <2>1, <2>2
<1>4. orderOf(w)' = orderOf(w)
    BY <1>3 DEF orderOf
<1>5. Progress(w)'
  <2>1. Refused(w)'
      BY <1>3 DEF Refused
  <2> QED
      BY <1>2, <1>3, <2>1 DEF Progress
<1>6. StillSo(w)'
    BY <1>1, <1>2, <1>3, <1>4 DEF StillSo, Refused
<1> QED
    BY <1>2, <1>3, <1>5, <1>6, TakesNoMore

-----------------------------------------------------------------------------
(* The commit *)

\* What the four kinds of transactions that commit do to the tables: each is a
\* step of InventoryService, and it changes only rows that are locked.
LEMMA CommitImplements ==
  ASSUME TxInv, NEW w \in Workers, Commit(w)
  PROVE  LET o == orderOf(w)
         IN /\ InvNext
            /\ "product" \in tx[w].locks \/ available' = available
            /\ \A s \in Skus : s # SkuOf[o] => available'[s] = available[s]
            /\ \/ reservation' = reservation
               \/ "insert" \in tx[w].writes
               \/ "record" \in tx[w].locks /\ reservation[o] # "none"
            /\ \A p \in Orders : p # o => reservation'[p] = reservation[p]
<1> DEFINE o == orderOf(w)
           id == tx[w].event
           W == tx[w].writes
<1>1. Progress(w) /\ StillSo(w) /\ tx[w].pc = "record" /\ tx[w].live
    BY DEF TxInv, LocksHold, Commit, At
<1>2. id \in OrderEventIds /\ o \in Orders /\ SkuOf[o] \in Skus /\ Quantity[o] \in Nat
    BY <1>1, EventOfBusy DEF Busy
<1>3. /\ available \in [Skus -> Nat]
      /\ reservation \in [Orders -> {"none", "reserved", "released"}]
    BY DEF TxInv, TxTypeOK, InvTypeOK
<1>4. /\ Process(id)
      /\ available' = [available EXCEPT ![SkuOf[o]] =
           CASE "decrement" \in W -> @ - Quantity[o]
             [] "giveback" \in W  -> @ + Quantity[o]
             [] OTHER -> @]
      /\ reservation' = [reservation EXCEPT ![o] =
           CASE "insert" \in W -> "reserved"
             [] "flip" \in W   -> "released"
             [] OTHER -> @]
      /\ IF tx[w].answer = "" THEN UNCHANGED invOutbox ELSE writeOutbox(tx[w].answer, o)
      /\ IF Spurious(w) THEN LockError ELSE UNCHANGED lockErrors
    BY DEF Commit
<1> HIDE DEF W, o, id
<1>5. /\ \A s \in Skus : s # SkuOf[o] => available'[s] = available[s]
      /\ \A p \in Orders : p # o => reservation'[p] = reservation[p]
    BY <1>3, <1>4
<1>6. CASE Reserved(w)
  <2>1. /\ "decrement" \in W /\ "insert" \in W /\ "flip" \notin W /\ "giveback" \notin W
        /\ "product" \in tx[w].locks /\ tx[w].answer = "InventoryReserved"
      BY <1>6 DEF Reserved, W
  <2>2. available' = [available EXCEPT ![SkuOf[o]] = @ - Quantity[o]]
      BY <1>4, <2>1
  <2>3. reservation' = [reservation EXCEPT ![o] = "reserved"]
      BY <1>4, <2>1
  <2>4. InStock(o) /\ reservation[o] = "none"
      BY <1>1, <2>1 DEF StillSo, o, W
  <2>5. writeOutbox("InventoryReserved", o) /\ UNCHANGED lockErrors
      BY <1>4, <2>1 DEF Spurious
  <2>6. Reserve(id, o)
      BY <1>4, <2>2, <2>3, <2>4, <2>5 DEF Reserve
  <2> QED
      BY <1>2, <1>5, <2>1, <2>6 DEF InvNext, handleOrderCreated, o, W
<1>7. CASE Refused(w)
  <2>1. W = {} /\ tx[w].answer = "ReservationFailed"
      BY <1>7 DEF Refused, W
  <2>2. UNCHANGED <<available, reservation>>
      BY <1>2, <1>3, <1>4, <2>1
  <2>3. writeOutbox("ReservationFailed", o)
      BY <1>4, <2>1
  <2>4. CASE "product" \in tx[w].locks
    <3>1. ~InStock(o)
        BY <1>1, <1>7, <2>4 DEF StillSo, o
    <3>2. UNCHANGED lockErrors
        BY <1>4, <2>4 DEF Spurious
    <3> QED
        BY <1>2, <1>4, <2>2, <2>3, <3>1, <3>2 DEF InvNext, handleOrderCreated, RejectOutOfStock, o
  <2>5. CASE "product" \notin tx[w].locks
    <3>1. LockError
        BY <1>4, <2>1, <2>5 DEF Spurious
    <3> QED
        BY <1>2, <1>4, <2>2, <2>3, <3>1 DEF InvNext, handleOrderCreated, RejectOnLockError, o
  <2> QED
      BY <2>4, <2>5
<1>8. CASE Released(w)
  <2>1. /\ "flip" \in W /\ "giveback" \in W /\ "decrement" \notin W /\ "insert" \notin W
        /\ "product" \in tx[w].locks /\ "record" \in tx[w].locks /\ tx[w].answer = ""
      BY <1>8 DEF Released, W
  <2>2. available' = [available EXCEPT ![SkuOf[o]] = @ + Quantity[o]]
      BY <1>4, <2>1
  <2>3. reservation' = [reservation EXCEPT ![o] = "released"]
      BY <1>4, <2>1
  <2>4. reservation[o] = "reserved"
      BY <1>1, <2>1 DEF StillSo, o, W
  <2>5. UNCHANGED <<invOutbox, lockErrors>>
      BY <1>4, <2>1 DEF Spurious
  <2>6. Release(id, o)
      BY <1>4, <2>2, <2>3, <2>4, <2>5 DEF Release
  <2> QED
      BY <1>2, <1>5, <2>1, <2>4, <2>6 DEF InvNext, handleOrderCancelled, o
<1>9. CASE NoRelease(w)
  <2>1. W = {} /\ tx[w].answer = "" /\ reservation[o] # "reserved"
      BY <1>9 DEF NoRelease, W, o
  <2>2. UNCHANGED <<available, reservation>>
      BY <1>2, <1>3, <1>4, <2>1
  <2>3. UNCHANGED <<invOutbox, lockErrors>>
      BY <1>4, <2>1 DEF Spurious
  <2> QED
      BY <1>2, <1>4, <2>1, <2>2, <2>3 DEF InvNext, handleOrderCancelled, ReleaseNothing, o
<1> QED
    BY <1>1, <1>6, <1>7, <1>8, <1>9 DEF Progress

\* What a transaction writes it has locked, and it has the lock on what it has
\* looked at.
LEMMA WritesAreLocked ==
  ASSUME NEW v \in Workers, tx[v] \in Transactions, Progress(v)
  PROVE  /\ "decrement" \in tx[v].writes => "product" \in tx[v].locks
         /\ "flip" \in tx[v].writes => "record" \in tx[v].locks
<1>1. tx[v].pc \in PCs
    BY DEF Transactions
<1> QED
    BY <1>1 DEF PCs, Progress, Fresh, Reserved, Refused, Released, NoRelease

\* The rows a transaction has locked are as they were: so is the transaction.
LEMMA LockedRowsKeep ==
  ASSUME NEW v \in Workers, tx[v] \in Transactions, Progress(v), StillSo(v), tx'[v] = tx[v],
         "product" \in tx[v].locks => (InStock(orderOf(v))' <=> InStock(orderOf(v))),
         HoldsRecord(v) => reservation'[orderOf(v)] = reservation[orderOf(v)],
         \A p \in tx[v].gap : reservation'[p] = reservation[p]
  PROVE  Progress(v)' /\ StillSo(v)'
<1>1. orderOf(v)' = orderOf(v) /\ typeOf(v)' = typeOf(v)
    BY DEF orderOf, typeOf
<1>2. /\ Fresh(v)' <=> Fresh(v)
      /\ Reserved(v)' <=> Reserved(v)
      /\ Refused(v)' <=> Refused(v)
      /\ Released(v)' <=> Released(v)
      /\ LocksOrder(v)' <=> LocksOrder(v)
    BY <1>1 DEF Fresh, Reserved, Refused, Released, LocksOrder
<1>3. NoRelease(v) => NoRelease(v)'
    BY <1>1, <1>2 DEF NoRelease, LocksOrder, HoldsRecord
<1>4. Progress(v)'
    BY <1>1, <1>2, <1>3 DEF Progress
<1>5. StillSo(v)'
    BY <1>1, <1>2, WritesAreLocked DEF StillSo, HoldsRecord
<1> QED
    BY <1>4, <1>5

\* A commit changes no row that another transaction has locked, and no gap.
LEMMA CommitKeeps ==
  ASSUME TxInv, NEW w \in Workers, Commit(w)
  PROVE  LocksHold'
<1> DEFINE o == orderOf(w)
<1>1. /\ "product" \in tx[w].locks \/ available' = available
      /\ \A s \in Skus : s # SkuOf[o] => available'[s] = available[s]
      /\ \/ reservation' = reservation
         \/ "insert" \in tx[w].writes
         \/ "record" \in tx[w].locks /\ reservation[o] # "none"
      /\ \A p \in Orders : p # o => reservation'[p] = reservation[p]
    BY CommitImplements
<1>2. tx'[w] = NoTx /\ \A v \in Workers : v # w => tx'[v] = tx[v]
    BY StepEffect DEF TxInv, Commit, Finish
<1>. /\ NoTx.pc = "idle" /\ NoTx.locks = {} /\ NoTx.gap = {} /\ NoTx.writes = {}
     /\ NoTx.answer = "" /\ NoTx.live
    BY DEF NoTx
<1>3. tx \in [Workers -> Transactions] /\ LocksHold
    BY DEF TxInv, TxTypeOK
<1> HIDE DEF o
<1>4. ASSUME NEW v \in Workers, v # w PROVE Progress(v)' /\ StillSo(v)'
  <2>1. /\ Progress(v) /\ StillSo(v) /\ Excluded(v, w) /\ Excluded(w, v) /\ tx'[v] = tx[v]
      BY <1>2, <1>3, <1>4 DEF LocksHold
  <2>2. "product" \in tx[v].locks => (InStock(orderOf(v))' <=> InStock(orderOf(v)))
    <3> SUFFICES ASSUME "product" \in tx[v].locks
                 PROVE InStock(orderOf(v))' <=> InStock(orderOf(v))
        OBVIOUS
    <3>1. Busy(v) /\ SkuOf[orderOf(v)] \in Skus
        BY <2>1, HoldersAreBusy, EventOfBusy
    <3>2. available'[SkuOf[orderOf(v)]] = available[SkuOf[orderOf(v)]]
        BY <1>1, <2>1, <3>1 DEF Excluded, o
    <3>3. orderOf(v)' = orderOf(v)
        BY <2>1 DEF orderOf
    <3> QED
        BY <3>2, <3>3 DEF InStock
  <2>3. HoldsRecord(v) => reservation'[orderOf(v)] = reservation[orderOf(v)]
    <3> SUFFICES ASSUME HoldsRecord(v), reservation' # reservation
                 PROVE reservation'[orderOf(v)] = reservation[orderOf(v)]
        OBVIOUS
    <3>1. orderOf(v) \in Orders
        BY <2>1, HoldersAreBusy, EventOfBusy
    <3>2. HoldsRecord(w)
        BY <1>1 DEF HoldsRecord
    <3> QED
        BY <1>1, <2>1, <3>1, <3>2 DEF Excluded, o
  <2>4. ASSUME NEW p \in tx[v].gap PROVE reservation'[p] = reservation[p]
    <3>1. p \in Orders /\ reservation[p] = "none"
        BY <1>3, <2>1 DEF StillSo, Transactions
    <3>2. p # o \/ reservation' = reservation
        BY <1>1, <2>1, <3>1 DEF Excluded, o
    <3> QED
        BY <1>1, <3>1, <3>2
  <2> QED
      BY <1>3, <2>1, <2>2, <2>3, <2>4, LockedRowsKeep
<1>5. Progress(w)' /\ StillSo(w)'
    BY <1>2 DEF Progress, StillSo, Fresh, Refused
<1>6. ASSUME NEW u \in Workers, NEW v \in Workers, u # v PROVE Excluded(u, v)'
  <2>1. Excluded(u, v)
      BY <1>3, <1>6 DEF LocksHold
  <2>2. CASE u # w /\ v # w
      BY <1>2, <2>1, <2>2 DEF Excluded, HoldsRecord, orderOf
  <2>3. CASE u = w \/ v = w
      BY <1>2, <2>3 DEF Excluded, HoldsRecord
  <2> QED
      BY <2>2, <2>3
<1> QED
    BY <1>4, <1>5, <1>6 DEF LocksHold

-----------------------------------------------------------------------------
(* All steps *)

\* A worker's steps, the ones that start, retry or end a transaction together.
Resets(w) == Finish(w) \/ \E id \in OrderEventIds, n \in 1..MaxAttempts : Step(w, Attempt(id, n))

WorkerNext(w) ==
  \/ \E id \in OrderEventIds : Begin(w, id)
  \/ WorkerStep(w) \/ LockWaitTimeout(w) \/ Crash(w)

\* WithRetry keeps to its attempts.
LEMMA RetryResets ==
  ASSUME TxTypeOK, NEW w \in Workers, tx[w].event \in OrderEventIds, Retry(w)
  PROVE  Resets(w)
<1>1. tx[w].attempt \in 0..MaxAttempts
    BY DEF TxTypeOK, Transactions
<1> QED
    BY <1>1, TxBoundsAssumption DEF Retry, Resets

\* Who waits is in progress.
LEMMA WaitersAreBusy ==
  ASSUME NEW w \in Workers, Blockers(w) # {}
  PROVE  tx[w].pc \in {"locate", "decrement", "giveback", "insert"}
BY BlockersAt

\* The steps by what they do to the transaction and to the tables.
LEMMA TxCases ==
  ASSUME TxTypeOK, LocksHold, NEW w \in Workers, WorkerNext(w)
  PROVE  \/ Resets(w) /\ UNCHANGED invVars
         \/ /\ tx[w].pc = "start" /\ Step(w, [tx[w] EXCEPT !.pc = "locate"])
            /\ UNCHANGED invVars
         \/ LocateForReserve(w) \/ LocateForRelease(w)
         \/ Decrement(w) \/ InsertReservation(w) \/ GiveBack(w)
         \/ Answer(w) \/ Commit(w) \/ CommitTorn(w)
         \/ /\ tx[w].pc = "decrement" /\ UNCHANGED invVars
            /\ \/ Step(w, Rejected([tx[w] EXCEPT !.locks = {}, !.gap = {}, !.writes = {},
                                                 !.live = FALSE]))
               \/ Step(w, Rejected(tx[w]))
<1>1. Progress(w)
    BY DEF LocksHold
<1>2. ASSUME NEW id \in OrderEventIds, Begin(w, id) PROVE Resets(w) /\ UNCHANGED invVars
    BY <1>2, TxBoundsAssumption DEF Begin, Resets
<1>3. CASE CheckProcessed(w)
    BY <1>3 DEF CheckProcessed, At, firstStatement, Resets
<1>4. CASE DuplicateReservation(w) \/ DuplicateEvent(w) \/ Crash(w)
    BY <1>4 DEF DuplicateReservation, DuplicateEvent, Crash, Resets
<1>5. CASE DeadlockVictim(w)
  <2>1. Blockers(w) # {} /\ UNCHANGED invVars
      BY <1>5 DEF DeadlockVictim, Deadlock, Stuck
  <2>2. tx[w].event \in OrderEventIds
      BY <1>1, <2>1, WaitersAreBusy DEF Progress
  <2> QED
      BY <1>5, <2>1, <2>2, RetryResets DEF DeadlockVictim
<1>6. CASE LockWaitTimeout(w)
  <2>1. (Blockers(w) # {} \/ tx[w].pc = "answer") /\ UNCHANGED invVars
      BY <1>6 DEF LockWaitTimeout
  <2>2. tx[w].event \in OrderEventIds
      BY <1>1, <2>1, WaitersAreBusy DEF Progress, Busy
  <2> QED
      BY <1>6, <2>1, <2>2, RetryResets DEF LockWaitTimeout
<1> QED
    BY <1>2, <1>3, <1>4, <1>5, <1>6 DEF WorkerNext, WorkerStep

\* The locks hold through every step.
LEMMA LocksStep ==
  ASSUME TxInv, NEW w \in Workers, WorkerNext(w)
  PROVE  LocksHold'
<1>1. TxTypeOK /\ LocksHold
    BY DEF TxInv
<1>2. ASSUME UNCHANGED invVars PROVE UNCHANGED <<available, reservation>>
    BY <1>2 DEF invVars
<1>3. CASE Resets(w) /\ UNCHANGED invVars
    BY <1>1, <1>2, <1>3, ResetKeeps DEF Resets, Finish
<1>4. CASE Answer(w)
  <2>1. /\ tx[w].pc = "answer" /\ Step(w, [tx[w] EXCEPT !.pc = "record"])
        /\ UNCHANGED <<available, reservation>>
      BY <1>4 DEF Answer, At, RejectUnrecorded, invVars
  <2> QED
      BY <1>1, <2>1, GoOnKeeps
<1>5. CASE CommitTorn(w)
  <2>1. Finish(w) /\ UNCHANGED <<available, reservation>>
      BY <1>5 DEF CommitTorn, RecordTorn
  <2> QED
      BY <1>1, <2>1, ResetKeeps DEF Finish
<1> QED
    BY <1>1, <1>2, <1>3, <1>4, <1>5, TxCases, GoOnKeeps, LocateKeeps, DecrementKeeps,
       InsertKeeps, GiveBackKeeps, LockErrorKeeps, CommitKeeps

\* Every step of a worker is one of InventoryService, or leaves its tables.
LEMMA StepImplements ==
  ASSUME TxInv, NEW w \in Workers, WorkerNext(w)
  PROVE  [InvNext]_invVars
<1>1. TxTypeOK /\ LocksHold /\ Progress(w)
    BY DEF TxInv, LocksHold
<1>2. CASE Answer(w)
  <2>1. tx[w].event \in OrderEventIds /\ orderOf(w) \in Orders
      BY <1>1, <1>2, EventOfBusy DEF Answer, At, Busy
  <2>2. UNCHANGED invVars \/ RejectUnrecorded(tx[w].event, orderOf(w))
      BY <1>2 DEF Answer
  <2> QED
      BY <2>1, <2>2 DEF InvNext
<1>3. CASE CommitTorn(w)
  <2>1. tx[w].event \in OrderEventIds /\ orderOf(w) \in Orders
      BY <1>1, <1>3, EventOfBusy DEF CommitTorn, At, Busy
  <2>2. RecordTorn(tx[w].event)
      BY <1>3 DEF CommitTorn
  <2> QED
      BY <2>1, <2>2 DEF InvNext
<1>4. CASE Commit(w)
    BY <1>4, CommitImplements
<1>5. CASE \/ LocateForReserve(w) \/ LocateForRelease(w)
           \/ Decrement(w) \/ InsertReservation(w) \/ GiveBack(w)
    BY <1>5 DEF LocateForReserve, LocateForRelease, Decrement, InsertReservation, GiveBack
<1> QED
    BY <1>1, <1>2, <1>3, <1>4, <1>5, TxCases

\* A step that puts a transaction in place of another keeps the type.
LEMMA StepTyped ==
  ASSUME TxTypeOK, NEW w \in Workers, NEW t \in Transactions, Step(w, t)
  PROVE  tx' \in [Workers -> Transactions]
BY DEF TxTypeOK, Step

\* Transactions and counters stay within their types and bounds.
LEMMA TxTyping ==
  ASSUME TxInv, NEW w \in Workers, WorkerNext(w)
  PROVE  /\ tx' \in [Workers -> Transactions]
         /\ timeouts' \in 0..MaxTimeouts /\ crashes' \in 0..MaxCrashes
<1>1. TxTypeOK /\ LocksHold /\ tx[w] \in Transactions
    BY DEF TxInv, TxTypeOK
<1>2. timeouts' \in 0..MaxTimeouts /\ crashes' \in 0..MaxCrashes
  <2>1. timeouts \in 0..MaxTimeouts /\ crashes \in 0..MaxCrashes
      BY <1>1 DEF TxTypeOK
  <2>2. CASE LockWaitTimeout(w)
      BY <2>1, <2>2, TxBoundsAssumption DEF LockWaitTimeout
  <2>3. CASE Crash(w)
      BY <2>1, <2>3, TxBoundsAssumption DEF Crash
  <2>4. CASE WorkerStep(w) \/ \E id \in OrderEventIds : Begin(w, id)
    <3>1. UNCHANGED <<timeouts, crashes>>
        BY <2>4 DEF WorkerStep, Begin, CheckProcessed, LocateForReserve, LocateForRelease,
             Decrement, InsertReservation, DuplicateReservation, GiveBack, Answer, Commit,
             CommitTorn, DuplicateEvent, DeadlockVictim
    <3> QED
        BY <2>1, <3>1
  <2> QED
      BY <2>2, <2>3, <2>4 DEF WorkerNext
<1>3. tx' \in [Workers -> Transactions]
  <2>1. NoTx \in Transactions
      BY TxBoundsAssumption DEF NoTx, Transactions, PCs, Answers
  <2>2. ASSUME NEW id \in OrderEventIds, NEW n \in 1..MaxAttempts
        PROVE Attempt(id, n) \in Transactions
    <3>1. n \in 0..MaxAttempts
        BY TxBoundsAssumption
    <3> QED
        BY <2>1, <3>1 DEF Attempt, Transactions, PCs
  <2>3. CASE Resets(w)
      BY <1>1, <2>1, <2>2, <2>3, StepTyped DEF Resets, Finish
  <2>4. CASE \/ Step(w, [tx[w] EXCEPT !.pc = "locate"])
             \/ Step(w, [tx[w] EXCEPT !.pc = "record"])
    <3>1. \A pc \in PCs : [tx[w] EXCEPT !.pc = pc] \in Transactions
        BY <1>1 DEF Transactions
    <3> QED
        BY <1>1, <2>4, <3>1, StepTyped DEF PCs
  <2>5. CASE LocateForReserve(w) \/ LocateForRelease(w)
    <3>1. Located(w) \in Transactions
        BY <1>1 DEF Located, GapAround, Transactions
    <3>2. /\ [Located(w) EXCEPT !.pc = "decrement"] \in Transactions
          /\ [Located(w) EXCEPT !.pc = "giveback", !.writes = {"flip"}] \in Transactions
          /\ [Located(w) EXCEPT !.pc = "record"] \in Transactions
        BY <3>1 DEF Transactions, PCs
    <3> QED
        BY <1>1, <2>5, <3>2, StepTyped DEF LocateForReserve, LocateForRelease
  <2>6. CASE Decrement(w)
    <3> DEFINE l == [tx[w] EXCEPT !.locks = @ \cup {"product"}]
    <3>1. l \in Transactions
        BY <1>1 DEF Transactions
    <3> HIDE DEF l
    <3>2. Decremented(l) \in Transactions /\ Rejected(l) \in Transactions
        BY <3>1 DEF Decremented, Rejected, Transactions, PCs, Answers, InventoryEventTypes
    <3> QED
        BY <1>1, <2>6, <3>2, StepTyped DEF Decrement, l
  <2>7. CASE InsertReservation(w)
    <3>1. [tx[w] EXCEPT !.pc = "answer", !.writes = @ \cup {"insert"},
                        !.answer = "InventoryReserved"] \in Transactions
        BY <1>1 DEF Transactions, PCs, Answers, InventoryEventTypes
    <3> QED
        BY <1>1, <2>7, <3>1, StepTyped DEF InsertReservation
  <2>8. CASE GiveBack(w)
    <3>1. [tx[w] EXCEPT !.pc = "record", !.locks = @ \cup {"product"},
                        !.writes = @ \cup {"giveback"}] \in Transactions
        BY <1>1 DEF Transactions, PCs
    <3> QED
        BY <1>1, <2>8, <3>1, StepTyped DEF GiveBack
  <2>9. CASE \/ Step(w, Rejected([tx[w] EXCEPT !.locks = {}, !.gap = {}, !.writes = {},
                                               !.live = FALSE]))
             \/ Step(w, Rejected(tx[w]))
    <3> DEFINE l == [tx[w] EXCEPT !.locks = {}, !.gap = {}, !.writes = {}, !.live = FALSE]
    <3>1. l \in Transactions
        BY <1>1 DEF Transactions
    <3> HIDE DEF l
    <3>2. Rejected(l) \in Transactions /\ Rejected(tx[w]) \in Transactions
        BY <1>1, <3>1 DEF Rejected, Transactions, PCs, Answers, InventoryEventTypes
    <3> QED
        BY <1>1, <2>9, <3>2, StepTyped DEF l
  <2>10. CASE Commit(w) \/ CommitTorn(w)
      BY <1>1, <2>1, <2>10, StepTyped DEF Commit, CommitTorn, Finish
  <2>11. CASE Answer(w)
      BY <2>4, <2>11 DEF Answer
  <2> QED
      BY <1>1, <2>3, <2>4, <2>5, <2>6, <2>7, <2>8, <2>9, <2>10, <2>11, TxCases
<1> QED
    BY <1>2, <1>3

-----------------------------------------------------------------------------
(* The theorems *)

\* No transaction is open at the start.
LEMMA TxInitInv == TxInit => TxInv
<1> SUFFICES ASSUME TxInit PROVE TxInv
    OBVIOUS
<1>1. InventoryInv
    BY InvInitInv DEF TxInit
<1>2. /\ NoTx \in Transactions
      /\ NoTx.pc = "idle" /\ NoTx.locks = {} /\ NoTx.gap = {} /\ NoTx.writes = {}
      /\ NoTx.answer = "" /\ NoTx.live
    BY TxBoundsAssumption DEF NoTx, Transactions, PCs, Answers
<1>3. \A w \in Workers : tx[w] = NoTx
    BY DEF TxInit
<1>4. TxTypeOK
  <2>1. tx \in [Workers -> Transactions]
      BY <1>2 DEF TxInit
  <2>2. timeouts \in 0..MaxTimeouts /\ crashes \in 0..MaxCrashes
      BY TxBoundsAssumption DEF TxInit
  <2> QED
      BY <1>1, <2>1, <2>2 DEF TxTypeOK, InventoryInv
<1>5. \A w \in Workers : Progress(w) /\ StillSo(w)
    BY <1>2, <1>3 DEF Progress, StillSo, Fresh, Refused
<1>6. \A v, w \in Workers : Excluded(v, w)
    BY <1>2, <1>3 DEF Excluded, HoldsRecord
<1> QED
    BY <1>1, <1>4, <1>5, <1>6 DEF TxInv, LocksHold

\* A step of the specification keeps the invariant and is a step, or a
\* stuttering step, of InventoryService.
LEMMA TxStep ==
  ASSUME TxInv, [TxNext]_allVars
  PROVE  TxInv' /\ [InvNext]_invVars
<1>1. ASSUME NEW w \in Workers, WorkerNext(w) PROVE TxInv' /\ [InvNext]_invVars
  <2>1. [InvNext]_invVars
      BY <1>1, StepImplements
  <2>2. InventoryInv'
      BY <2>1, InvStep, InvNextIsAny DEF TxInv
  <2>3. TxTypeOK'
      BY <1>1, <2>2, TxTyping DEF TxTypeOK, InventoryInv
  <2>4. LocksHold'
      BY <1>1, LocksStep
  <2> QED
      BY <2>1, <2>2, <2>3, <2>4 DEF TxInv
<1>2. CASE UNCHANGED allVars
  <2>1. UNCHANGED <<invVars, tx, timeouts, crashes, available, reservation, invOutbox,
                    invProcessed, torn, lockErrors>>
      BY <1>2 DEF allVars, txVars, invVars
  <2>2. InventoryInv'
      BY <2>1, InvStep DEF TxInv
  <2>3. TxTypeOK'
      BY <2>1 DEF TxInv, TxTypeOK, InvTypeOK
  <2>4. \A w \in Workers : Progress(w)' /\ StillSo(w)'
      BY <2>1, OthersKeep DEF TxInv, LocksHold
  <2>5. \A v, w \in Workers : v # w => Excluded(v, w)'
      BY <2>1 DEF TxInv, LocksHold, Excluded, HoldsRecord, orderOf
  <2> QED
      BY <2>1, <2>2, <2>3, <2>4, <2>5 DEF TxInv, LocksHold
<1> QED
    BY <1>1, <1>2 DEF TxNext, WorkerNext

\* The inductive invariant.
THEOREM TxInvariant == TxSpec => []TxInv
<1>1. TxInv /\ [TxNext]_allVars => TxInv'
    BY TxStep
<1> QED
    BY <1>1, TxInitInv, PTL DEF TxSpec

\* Types; no handler call makes more than MaxAttempts attempts.
THEOREM TxTypes == TxSpec => []TxTypeOK
BY TxInvariant, PTL DEF TxInv

\* Concurrent transactions, with their locks, deadlocks, timeouts, retries and
\* crashes, implement the one-step transactions of InventoryService.
THEOREM TxImplementsInventory == TxSpec => ImplementsInventory
<1>1. TxInit => InvInit
    BY DEF TxInit
<1>2. TxInv /\ [TxNext]_allVars => [InvNext]_invVars
    BY TxStep
<1> QED
    BY <1>1, <1>2, TxInvariant, PTL DEF TxSpec, ImplementsInventory, InvSpec

\* So the stock is conserved and nothing is oversold between any number of
\* workers.
THEOREM TxConservesStock == TxSpec => []StockConserved
<1>1. TxInv => StockConserved
    BY DEF TxInv, InventoryInv
<1> QED
    BY <1>1, TxInvariant, PTL

\* In a deadlock everybody is waited for: who is not could be left out.
LEMMA EveryoneWaitedFor ==
  ASSUME NEW S \in SUBSET Workers, Deadlock(S), NEW w \in S
  PROVE  \E x \in S : w \in Blockers(x)
<1> SUFFICES ASSUME \A x \in S : w \notin Blockers(x) PROVE FALSE
    OBVIOUS
<1>1. Stuck(S) /\ \A T \in SUBSET S : Stuck(T) => T = S
    BY DEF Deadlock
<1>2. \A x \in S \ {w} : Blockers(x) \cap (S \ {w}) # {}
    BY <1>1 DEF Stuck
<1>3. S \ {w} # {}
    BY <1>1, NotOwnBlocker DEF Stuck
<1>4. Stuck(S \ {w})
    BY <1>2, <1>3 DEF Stuck
<1> QED
    BY <1>1, <1>4

\* A locking read that waits holds nothing yet: nobody waits for it.
LEMMA NobodyWaitsForLocate ==
  ASSUME LocksHold, NEW x \in Workers, NEW w \in Workers, tx[w].pc = "locate"
  PROVE  w \notin Blockers(x)
<1>1. tx[w].locks = {} /\ tx[w].gap = {} /\ tx[w].writes = {}
    BY DEF LocksHold, Progress, Fresh
<1>2. ~HoldsRecord(w)
    BY <1>1 DEF HoldsRecord
<1> QED
    BY <1>1, <1>2, BlockersAt

\* A release that waits for its product holds the order's row. Only a locking
\* read or an insert for that order would wait for it; the first is waited for
\* by nobody, the second would have the row or its gap itself.
THEOREM DeadlocksAmongReservations == TxSpec => []NoReserveReleaseCycle
<1>1. ASSUME TxInv, NEW S \in SUBSET Workers, Deadlock(S), NEW w \in S
      PROVE typeOf(w) = "OrderCreated"
  <2>1. LocksHold /\ w \in Workers /\ Progress(w) /\ StillSo(w)
      BY <1>1 DEF TxInv, LocksHold
  <2>2. PICK x \in S : w \in Blockers(x)
      BY <1>1, EveryoneWaitedFor
  <2>3. PICK y \in S : x \in Blockers(y)
      BY <1>1, EveryoneWaitedFor
  <2>4. tx[w].pc # "locate" /\ tx[x].pc # "locate"
      BY <2>1, <2>2, <2>3, NobodyWaitsForLocate
  <2>5. tx[w].pc \in {"decrement", "giveback", "insert"}
    <3>1. Blockers(w) # {}
        BY <1>1 DEF Deadlock, Stuck
    <3> QED
        BY <2>1, <2>4, <3>1, WaitersAreBusy
  <2>6. tx[w].pc # "giveback"
    <3> SUFFICES ASSUME tx[w].pc = "giveback" PROVE FALSE
        OBVIOUS
    <3>1. /\ tx[w].locks = {"record"} /\ tx[w].gap = {} /\ reservation[orderOf(w)] = "reserved"
        BY <2>1 DEF Progress, StillSo
    <3>2. x \in Workers /\ x # w /\ Progress(x) /\ StillSo(x) /\ Excluded(x, w)
        BY <2>1, <2>2, NotOwnBlocker DEF LocksHold
    <3>3. tx[x].pc = "insert" /\ orderOf(w) = orderOf(x)
        BY <2>2, <2>4, <3>1, <3>2, BlockersAt DEF OnOrder
    <3>4. LocksOrder(x)
        BY <3>2, <3>3 DEF Progress
    <3> QED
        BY <3>1, <3>2, <3>3, <3>4 DEF LocksOrder, StillSo, Excluded, HoldsRecord
  <2> QED
      BY <2>1, <2>5, <2>6 DEF Progress
<1>2. TxInv => NoReserveReleaseCycle
    BY <1>1 DEF NoReserveReleaseCycle
<1> QED
    BY <1>2, TxInvariant, PTL

=============================================================================
