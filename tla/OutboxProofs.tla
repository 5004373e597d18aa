---------------------------- MODULE OutboxProofs ----------------------------
(***************************************************************************)
(* Proofs about Outbox, for any sets of events and pollers and any batch   *)
(* size, retry limit and number of database faults.                        *)
(*                                                                         *)
(* The invariants are not inductive alone: that a row is held by one       *)
(* poller is only of use together with what a held row looks like          *)
(* (BatchRows), that a phantom is never published needs both, and the      *)
(* copies in the topic can only be bounded together with the copies that   *)
(* pollers without a connection may still add (Owed).                      *)
(***************************************************************************)
EXTENDS Outbox, FiniteSetTheorems, TLAPS

\* What an open tick knows of its rows: each is to do, marked, bumped or
\* skipped, never two of these, and all are still eligible in the table. A
\* severed poller's rows may have moved on, and none of them is recorded.
BatchRows == \A p \in Pollers :
  /\ todo[p] \subseteq batch[p]
  /\ marked[p] \subseteq batch[p] \ todo[p]
  /\ bumped[p] \subseteq batch[p] \ (todo[p] \cup marked[p])
  /\ p \notin severed => \A e \in batch[p] : Eligible(e)
  /\ p \in severed => /\ batch[p] # {} /\ marked[p] = {} /\ bumped[p] = {}
                      /\ \A e \in batch[p] : status[e] \in {"pending", "sent"}

\* Only the rows of committed business transactions are ever attempted.
NoPhantom == \A e \in Events :
  status[e] \notin {"pending", "sent"} => published[e] = 0 /\ retry[e] = 0

\* The pollers that can still publish e without any record of it.
Holders(e) == {p \in severed : e \in todo[p]}
Owed(e)    == Cardinality(Holders(e))

Recorded(e) == retry[e]
  + (IF \E p \in Pollers : e \in bumped[p] THEN 1 ELSE 0)
  + (IF status[e] = "sent" \/ \E p \in Pollers : e \in marked[p] THEN 1 ELSE 0)

\* CopiesBounded, with the copies still owed paid for in advance.
CopiesOwed == \A e \in Events : published[e] + Owed(e) <= dbFaults + Recorded(e)

IInv == TypeOK /\ BatchRows /\ RowsExclusive /\ NoPhantom
          /\ SentIsPublished /\ IsFiniteSet(severed) /\ CopiesOwed

-----------------------------------------------------------------------------
\* No row, no lock and no message at the start.
LEMMA InitInv == Init => IInv
<1> SUFFICES ASSUME Init PROVE IInv
    OBVIOUS
<1>1. IsFiniteSet(severed) /\ \A e \in Events : Owed(e) = 0
    BY FS_EmptySet DEF Init, Owed, Holders
<1>2. CopiesOwed
    BY <1>1, MaxDbFaultsAssumption DEF Init, CopiesOwed, Recorded
<1> QED
    BY <1>1, <1>2, MaxRetriesAssumption, MaxDbFaultsAssumption
    DEF Init, IInv, TypeOK, Statuses, BatchRows, RowsExclusive, NoPhantom,
        SentIsPublished

\* The typing part, one step per action.
LEMMA Typing == TypeOK /\ BatchRows /\ [Next]_vars => TypeOK'
<1> SUFFICES ASSUME TypeOK, BatchRows, [Next]_vars PROVE TypeOK'
    OBVIOUS
<1> USE MaxRetriesAssumption, MaxDbFaultsAssumption DEF TypeOK, Statuses
<1>1. ASSUME NEW e \in Events, BusinessStep(e) PROVE TypeOK'
    BY <1>1 DEF BusinessStep, Insert, CommitBusiness, AbortBusiness, txVars
<1>2. ASSUME NEW p \in Pollers, SelectPending(p) PROVE TypeOK'
    BY <1>2 DEF SelectPending, Oldest, SkipLocked, tableVars
<1>3. ASSUME NEW p \in Pollers, NEW e \in Events, PublishAndMark(p, e)
      PROVE TypeOK'
    BY <1>3 DEF PublishAndMark, tableVars
<1>4. ASSUME NEW p \in Pollers, NEW e \in Events, PublishFails(p, e)
      PROVE TypeOK'
    BY <1>4 DEF PublishFails, tableVars
<1>5. ASSUME NEW p \in Pollers, NEW e \in Events, PublishAndMarkFails(p, e)
      PROVE TypeOK'
    BY <1>5 DEF PublishAndMarkFails, EndTx, tableVars
<1>6. ASSUME NEW p \in Pollers, CommitBatch(p) PROVE TypeOK'
    BY <1>6 DEF CommitBatch, EndTx, BatchRows, Eligible
<1>7. ASSUME NEW p \in Pollers, Rollback(p) \/ CommitLost(p) PROVE TypeOK'
    BY <1>7 DEF Rollback, CommitLost, EndTx, tableVars
<1>8. ASSUME NEW p \in Pollers, LoseConnection(p) PROVE TypeOK'
    BY <1>8 DEF LoseConnection, tableVars
<1>9. CASE UNCHANGED vars
    BY <1>9 DEF vars, tableVars, txVars
<1> QED
    BY <1>1, <1>2, <1>3, <1>4, <1>5, <1>6, <1>7, <1>8, <1>9
    DEF Next, PollerStep, PublishStep

\* Two live transactions never share a row, and a locked row stays as it was
\* when it was locked: only the holder's commit changes it.
LEMMA Holding ==
  TypeOK /\ BatchRows /\ RowsExclusive /\ [Next]_vars => BatchRows' /\ RowsExclusive'
<1> SUFFICES ASSUME TypeOK, BatchRows, RowsExclusive, [Next]_vars
             PROVE BatchRows' /\ RowsExclusive'
    OBVIOUS
<1> USE DEF TypeOK, BatchRows, RowsExclusive, Eligible
<1>1. ASSUME NEW e \in Events, BusinessStep(e) PROVE BatchRows' /\ RowsExclusive'
    BY <1>1 DEF BusinessStep, Insert, CommitBusiness, AbortBusiness, txVars
<1>2. ASSUME NEW p \in Pollers, SelectPending(p) PROVE BatchRows' /\ RowsExclusive'
  <2> DEFINE rows == Oldest(SkipLocked({e \in Events : Eligible(e)}))
  <2>1. rows \subseteq Events /\ \A e \in rows : Eligible(e) /\ e \notin Locked
      BY DEF Oldest, SkipLocked
  <2>2. \A q \in Pollers \ severed : rows \cap batch[q] = {}
      BY <2>1 DEF Locked
  <2>3. /\ batch' = [batch EXCEPT ![p] = rows]
        /\ todo' = [todo EXCEPT ![p] = rows]
        /\ batch[p] = {}
        /\ UNCHANGED <<tableVars, marked, bumped, severed>>
      BY <1>2 DEF SelectPending, Idle
  <2>4. marked[p] = {} /\ bumped[p] = {} /\ p \notin severed
      BY <2>3
  <2> HIDE DEF rows
  <2>5. BatchRows'
      BY <2>1, <2>3, <2>4 DEF tableVars
  <2>6. RowsExclusive'
      BY <2>1, <2>2, <2>3, <2>4
  <2> QED
      BY <2>5, <2>6
<1>3. ASSUME NEW p \in Pollers, NEW e \in Events, PublishAndMark(p, e)
      PROVE BatchRows' /\ RowsExclusive'
    BY <1>3 DEF PublishAndMark, IsCurrent, tableVars
<1>4. ASSUME NEW p \in Pollers, NEW e \in Events, PublishFails(p, e)
      PROVE BatchRows' /\ RowsExclusive'
    BY <1>4 DEF PublishFails, IsCurrent, tableVars
<1>5. ASSUME NEW p \in Pollers, NEW e \in Events, PublishAndMarkFails(p, e)
      PROVE BatchRows' /\ RowsExclusive'
    BY <1>5 DEF PublishAndMarkFails, EndTx, tableVars
<1>6. ASSUME NEW p \in Pollers, CommitBatch(p) PROVE BatchRows' /\ RowsExclusive'
    BY <1>6 DEF CommitBatch, EndTx
<1>7. ASSUME NEW p \in Pollers, Rollback(p) \/ CommitLost(p)
      PROVE BatchRows' /\ RowsExclusive'
    BY <1>7 DEF Rollback, CommitLost, EndTx, tableVars
<1>8. ASSUME NEW p \in Pollers, LoseConnection(p) PROVE BatchRows' /\ RowsExclusive'
    BY <1>8 DEF LoseConnection, Idle, tableVars
<1>9. CASE UNCHANGED vars
    BY <1>9 DEF vars, tableVars, txVars
<1> QED
    BY <1>1, <1>2, <1>3, <1>4, <1>5, <1>6, <1>7, <1>8, <1>9
    DEF Next, PollerStep, PublishStep

\* Nothing uncommitted is published, and what is marked sent has been.
LEMMA Publishing == IInv /\ [Next]_vars => NoPhantom' /\ SentIsPublished'
<1> SUFFICES ASSUME IInv, [Next]_vars PROVE NoPhantom' /\ SentIsPublished'
    OBVIOUS
<1> USE DEF IInv, NoPhantom, SentIsPublished
<1>1. ASSUME NEW e \in Events, BusinessStep(e) PROVE NoPhantom' /\ SentIsPublished'
    BY <1>1 DEF BusinessStep, Insert, CommitBusiness, AbortBusiness, txVars, TypeOK
<1>2. ASSUME NEW p \in Pollers, SelectPending(p) PROVE NoPhantom' /\ SentIsPublished'
    BY <1>2 DEF SelectPending, tableVars, TypeOK
<1>3. ASSUME NEW p \in Pollers, NEW e \in Events, e \in todo[p],
             \/ PublishAndMark(p, e) \/ PublishFails(p, e) \/ PublishAndMarkFails(p, e)
      PROVE NoPhantom' /\ SentIsPublished'
  <2>1. status[e] \in {"pending", "sent"}
      BY <1>3 DEF BatchRows, Eligible, TypeOK
  <2>2. CASE PublishAndMark(p, e)
      BY <2>1, <2>2 DEF PublishAndMark, tableVars, TypeOK
  <2>3. CASE PublishFails(p, e)
      BY <2>1, <2>3 DEF PublishFails, tableVars, TypeOK
  <2>4. CASE PublishAndMarkFails(p, e)
      BY <2>1, <2>4 DEF PublishAndMarkFails, EndTx, tableVars, TypeOK
  <2> QED
      BY <1>3, <2>2, <2>3, <2>4
<1>4. ASSUME NEW p \in Pollers, CommitBatch(p) PROVE NoPhantom' /\ SentIsPublished'
  <2>1. \A f \in marked[p] \cup bumped[p] : status[f] = "pending"
      BY <1>4 DEF CommitBatch, BatchRows, Eligible, TypeOK
  <2> QED
      BY <1>4, <2>1 DEF CommitBatch, EndTx, TypeOK
<1>5. ASSUME NEW p \in Pollers, Rollback(p) \/ CommitLost(p)
      PROVE NoPhantom' /\ SentIsPublished'
    BY <1>5 DEF Rollback, CommitLost, EndTx, tableVars, TypeOK
<1>6. ASSUME NEW p \in Pollers, LoseConnection(p) PROVE NoPhantom' /\ SentIsPublished'
    BY <1>6 DEF LoseConnection, tableVars, TypeOK
<1>7. CASE UNCHANGED vars
    BY <1>7 DEF vars, tableVars, txVars
<1> QED
    BY <1>1, <1>2, <1>3, <1>4, <1>5, <1>6, <1>7
    DEF Next, PollerStep, PublishStep, PublishAndMark, PublishFails,
        PublishAndMarkFails, IsCurrent

-----------------------------------------------------------------------------
(* The copies in the topic against what the table records *)

\* A poller that ends its tick, or is done with a row, owes one copy less of
\* what it still held, and the debts of the others stay.
LEMMA OwedLess ==
  ASSUME IsFiniteSet(severed), NEW e, NEW p, Holders(e)' = Holders(e) \ {p}
  PROVE  Owed(e)' = IF p \in Holders(e) THEN Owed(e) - 1 ELSE Owed(e)
<1>1. IsFiniteSet(Holders(e))
    BY FS_Subset, Holders(e) \in SUBSET severed DEF Holders
<1> HIDE DEF Holders
<1> QED
    BY <1>1, FS_RemoveElement DEF Owed

\* A poller cut off from the database owes one copy of every row still to do.
LEMMA OwedMore ==
  ASSUME IsFiniteSet(severed), NEW e, NEW p, p \notin severed,
         Holders(e)' = Holders(e) \cup {p}
  PROVE  Owed(e)' = Owed(e) + 1
<1>1. IsFiniteSet(Holders(e)) /\ p \notin Holders(e)
    BY FS_Subset, Holders(e) \in SUBSET severed DEF Holders
<1> HIDE DEF Holders
<1> QED
    BY <1>1, FS_AddElement DEF Owed

\* Debts are counted.
LEMMA OwedType == ASSUME IsFiniteSet(severed), NEW e PROVE Owed(e) \in Nat
<1>1. IsFiniteSet(Holders(e))
    BY FS_Subset, Holders(e) \in SUBSET severed DEF Holders
<1> QED
    BY <1>1, FS_CardinalityType DEF Owed

\* Only finitely many pollers are ever cut off: each costs a database fault.
LEMMA FewSevered == IsFiniteSet(severed) /\ [Next]_vars => IsFiniteSet(severed)'
<1> SUFFICES ASSUME IsFiniteSet(severed), [Next]_vars PROVE IsFiniteSet(severed')
    OBVIOUS
<1>1. \/ severed' = severed
      \/ \E p \in Pollers : severed' = severed \ {p}
      \/ \E p \in Pollers : severed' = severed \cup {p}
    BY DEF Next, BusinessStep, Insert, CommitBusiness, AbortBusiness, PollerStep,
       SelectPending, PublishStep, PublishAndMark, PublishFails, PublishAndMarkFails,
       CommitBatch, CommitLost, Rollback, LoseConnection, EndTx, txVars, vars
<1> QED
    BY <1>1, FS_AddElement, FS_RemoveElement

\* Every copy is paid for by a record or a fault, the copies owed included.
LEMMA Accounting == IInv /\ [Next]_vars => CopiesOwed'
<1> SUFFICES ASSUME IInv, [Next]_vars PROVE CopiesOwed'
    OBVIOUS
<1> USE DEF IInv
<1>t. \A e \in Events : Owed(e) \in Nat
    BY OwedType
<1>c. \A e \in Events : published[e] + Owed(e) <= dbFaults + Recorded(e)
    BY DEF CopiesOwed
<1>s. ASSUME severed' = severed, todo' = todo
      PROVE  \A e \in Events : Owed(e)' = Owed(e)
    BY <1>s DEF Owed, Holders
<1>e. ASSUME NEW p \in Pollers, EndTx(p), NEW f \in Events
      PROVE  Owed(f)' = IF p \in Holders(f) THEN Owed(f) - 1 ELSE Owed(f)
  <2>1. Holders(f)' = Holders(f) \ {p}
      BY <1>e DEF EndTx, Holders, TypeOK
  <2> QED
      BY <2>1, OwedLess
<1>1. ASSUME NEW e \in Events, BusinessStep(e) PROVE CopiesOwed'
  <2>1. \A f \in Events : Owed(f)' = Owed(f)
      BY <1>1, <1>s DEF BusinessStep, Insert, CommitBusiness, AbortBusiness, txVars
  <2> QED
      BY <1>1, <2>1, <1>c, <1>t DEF BusinessStep, Insert, CommitBusiness, AbortBusiness,
         txVars, TypeOK, CopiesOwed, Recorded
<1>2. ASSUME NEW p \in Pollers, SelectPending(p) PROVE CopiesOwed'
  <2>1. p \notin severed
      BY <1>2 DEF SelectPending, Idle, BatchRows
  <2>2. \A f \in Events : Holders(f)' = Holders(f)
      BY <1>2, <2>1 DEF SelectPending, Holders, TypeOK
  <2>3. \A f \in Events : Owed(f)' = Owed(f)
      BY <2>2 DEF Owed
  <2> QED
      BY <1>2, <2>3, <1>c DEF SelectPending, tableVars, TypeOK, CopiesOwed, Recorded
<1>3. ASSUME NEW p \in Pollers, NEW e \in Events, PublishAndMark(p, e)
      PROVE CopiesOwed'
  <2>1. /\ e \in todo[p] /\ status[e] = "pending" /\ p \notin severed
        /\ \A q \in Pollers : e \notin marked[q]
      BY <1>3 DEF PublishAndMark, IsCurrent, BatchRows, RowsExclusive, Eligible, TypeOK
  <2>2. \A f \in Events : Holders(f)' = Holders(f)
      BY <1>3, <2>1 DEF PublishAndMark, Holders, TypeOK
  <2>3. \A f \in Events : Owed(f)' = Owed(f)
      BY <2>2 DEF Owed
  <2> QED
      BY <1>3, <2>1, <2>3, <1>c, <1>t
      DEF PublishAndMark, tableVars, TypeOK, CopiesOwed, Recorded
<1>4. ASSUME NEW p \in Pollers, NEW e \in Events, PublishFails(p, e)
      PROVE CopiesOwed'
  <2>1. e \in todo[p]
      BY <1>4 DEF PublishFails, IsCurrent
  <2>2. CASE p \in severed
    <3>1. \A f \in Events : Holders(f)' = IF f = e THEN Holders(f) \ {p} ELSE Holders(f)
        BY <1>4, <2>2 DEF PublishFails, Holders, TypeOK
    <3>2. Owed(e)' = Owed(e) - 1
        BY <2>1, <2>2, <3>1, OwedLess DEF Holders
    <3>3. \A f \in Events \ {e} : Owed(f)' = Owed(f)
        BY <3>1 DEF Owed
    <3> QED
        BY <1>4, <2>2, <3>2, <3>3, <1>c, <1>t
        DEF PublishFails, tableVars, TypeOK, CopiesOwed, Recorded
  <2>3. CASE p \notin severed
    <3>1. \A q \in Pollers : e \notin bumped[q]
        BY <2>1, <2>3 DEF BatchRows, RowsExclusive, TypeOK
    <3>2. \A f \in Events : Holders(f)' = Holders(f)
        BY <1>4, <2>3 DEF PublishFails, Holders, TypeOK
    <3>3. \A f \in Events : Owed(f)' = Owed(f)
        BY <3>2 DEF Owed
    <3> QED
        BY <1>4, <2>3, <3>1, <3>3, <1>c, <1>t, MaxDbFaultsAssumption
        DEF PublishFails, tableVars, TypeOK, CopiesOwed, Recorded
  <2> QED
      BY <2>2, <2>3
<1>5. ASSUME NEW p \in Pollers, NEW e \in Events, PublishAndMarkFails(p, e)
      PROVE CopiesOwed'
  <2>1. e \in todo[p] /\ EndTx(p)
      BY <1>5 DEF PublishAndMarkFails, IsCurrent
  <2>2. \A f \in Events : f \in bumped[p] => f \notin marked[p]
      BY DEF BatchRows, TypeOK
  <2>3. CASE p \in severed
    <3>1. p \in Holders(e) /\ marked[p] = {} /\ bumped[p] = {}
        BY <2>1, <2>3 DEF Holders, BatchRows
    <3>2. Owed(e)' = Owed(e) - 1
        BY <1>e, <2>1, <3>1
    <3>3. \A f \in Events : Owed(f)' <= Owed(f) /\ Owed(f)' \in Int
        BY <1>e, <2>1, <1>t
    <3> QED
        BY <1>5, <2>3, <3>1, <3>2, <3>3, <1>c, <1>t
        DEF PublishAndMarkFails, EndTx, tableVars, TypeOK, CopiesOwed, Recorded
  <2>4. CASE p \notin severed
    <3>1. \A q \in Pollers : e \notin bumped[q] /\ e \notin marked[q]
        BY <2>1, <2>4 DEF BatchRows, RowsExclusive, TypeOK
    <3>2. \A f \in Events : Owed(f)' = Owed(f)
        BY <1>e, <2>1, <2>4 DEF Holders
    <3> QED
        BY <1>5, <2>2, <2>4, <3>1, <3>2, <1>c, <1>t, MaxDbFaultsAssumption
        DEF PublishAndMarkFails, EndTx, tableVars, TypeOK, CopiesOwed, Recorded
  <2> QED
      BY <2>3, <2>4
<1>6. ASSUME NEW p \in Pollers, CommitBatch(p) PROVE CopiesOwed'
  <2>0. p \notin severed /\ EndTx(p)
      BY <1>6 DEF CommitBatch
  <2>1. \A f \in marked[p] : f \notin bumped[p] /\ status[f] = "pending"
      BY <2>0 DEF BatchRows, Eligible, TypeOK
  <2>2. \A f \in bumped[p] : status[f] = "pending" /\ retry[f] < MaxRetries
      BY <2>0 DEF BatchRows, Eligible, TypeOK
  <2>3. \A f \in Events, q \in Pollers :
          q # p => (f \in marked[q] \cup bumped[q] => f \notin marked[p] \cup bumped[p])
      BY <2>0 DEF BatchRows, RowsExclusive, TypeOK
  <2>4. \A f \in Events : Owed(f)' = Owed(f)
      BY <2>0, <1>e DEF Holders
  <2> QED
      BY <1>6, <2>1, <2>2, <2>3, <2>4, <1>c, <1>t, MaxRetriesAssumption
      DEF CommitBatch, EndTx, TypeOK, CopiesOwed, Recorded
<1>7. ASSUME NEW p \in Pollers, Rollback(p) PROVE CopiesOwed'
  <2>1. EndTx(p) /\ \A f \in Events : f \in bumped[p] => f \notin marked[p]
      BY <1>7 DEF Rollback, BatchRows, TypeOK
  <2>2. \A f \in Events : Owed(f)' <= Owed(f) /\ Owed(f)' \in Int
      BY <2>1, <1>e, <1>t
  <2> QED
      BY <1>7, <2>1, <2>2, <1>c, <1>t, MaxDbFaultsAssumption
      DEF Rollback, EndTx, tableVars, TypeOK, CopiesOwed, Recorded
<1>8. ASSUME NEW p \in Pollers, CommitLost(p) PROVE CopiesOwed'
  <2>1. EndTx(p) /\ marked[p] = {} /\ bumped[p] = {}
      BY <1>8 DEF CommitLost, BatchRows
  <2>2. \A f \in Events : Owed(f)' <= Owed(f) /\ Owed(f)' \in Int
      BY <2>1, <1>e, <1>t
  <2> QED
      BY <1>8, <2>1, <2>2, <1>c, <1>t
      DEF CommitLost, EndTx, tableVars, TypeOK, CopiesOwed, Recorded
<1>9. ASSUME NEW p \in Pollers, LoseConnection(p) PROVE CopiesOwed'
  <2>1. p \notin severed /\ \A f \in Events : f \in bumped[p] => f \notin marked[p]
      BY <1>9 DEF LoseConnection, BatchRows, TypeOK
  <2>2. \A f \in todo[p] : \A q \in Pollers : f \notin bumped[q] /\ f \notin marked[q]
      BY <2>1 DEF BatchRows, RowsExclusive, TypeOK
  <2>3. \A f \in Events :
          Holders(f)' = IF f \in todo[p] THEN Holders(f) \cup {p} ELSE Holders(f)
      BY <1>9 DEF LoseConnection, Holders, TypeOK
  <2>4. \A f \in Events : Owed(f)' = IF f \in todo[p] THEN Owed(f) + 1 ELSE Owed(f)
      BY <2>1, <2>3, OwedMore DEF Owed
  <2> QED
      BY <1>9, <2>1, <2>2, <2>4, <1>c, <1>t, MaxDbFaultsAssumption
      DEF LoseConnection, tableVars, TypeOK, CopiesOwed, Recorded
<1>10. CASE UNCHANGED vars
  <2>1. \A f \in Events : Owed(f)' = Owed(f)
      BY <1>10, <1>s DEF vars, txVars
  <2> QED
      BY <1>10, <2>1, <1>c DEF vars, tableVars, txVars, CopiesOwed, Recorded
<1> QED
    BY <1>1, <1>2, <1>3, <1>4, <1>5, <1>6, <1>7, <1>8, <1>9, <1>10
    DEF Next, PollerStep, PublishStep

-----------------------------------------------------------------------------
\* The inductive invariant holds in every reachable state.
THEOREM Invariant == Spec => []IInv
<1>1. IInv /\ [Next]_vars => IInv'
    BY Typing, Holding, Publishing, FewSevered, Accounting DEF IInv
<1> QED
    BY InitInv, <1>1, PTL DEF Spec

\* Every variable keeps its type: in particular retry_count never passes
\* MaxRetries, although nothing but the batch query looks at the limit.
THEOREM TypeCorrect == Spec => []TypeOK
BY Invariant, PTL DEF IInv

\* FOR UPDATE SKIP LOCKED keeps instances with a live connection off each
\* other's rows.
THEOREM ExclusiveRows == Spec => []RowsExclusive
BY Invariant, PTL DEF IInv

\* No event that reads as sent is missing from the topic.
THEOREM SentAreInTopic == Spec => []SentIsPublished
BY Invariant, PTL DEF IInv

\* Every Publish call that left an event in the topic is accounted for.
THEOREM CopiesAccounted == Spec => []CopiesBounded
<1>1. IInv => CopiesBounded
  <2> SUFFICES ASSUME IInv, NEW e \in Events
               PROVE published[e] <= dbFaults + Recorded(e)
      BY MaxDbFaultsAssumption DEF CopiesBounded, Recorded, IInv, TypeOK
  <2>1. Owed(e) \in Nat /\ Recorded(e) \in Nat
      BY OwedType DEF IInv, Recorded, TypeOK
  <2>2. published[e] + Owed(e) <= dbFaults + Recorded(e)
      BY DEF IInv, CopiesOwed
  <2> QED
      BY <2>1, <2>2, MaxDbFaultsAssumption DEF IInv, TypeOK
<1> QED
    BY Invariant, <1>1, PTL

\* A sent row stays sent, and is published again only by a poller that lost
\* its connection before it came to the row.
THEOREM SentStaysSent == Spec => SentIsFinal
<1> DEFINE A == \A e \in Events : status[e] = "sent" =>
                  /\ status'[e] = "sent"
                  /\ published'[e] # published[e] => \E p \in severed : e \in todo[p]
<1>1. IInv /\ [Next]_vars => [A]_vars
  <2> SUFFICES ASSUME IInv, Next PROVE A
      OBVIOUS
  <2> USE DEF IInv, TypeOK
  <2>1. ASSUME NEW e \in Events, BusinessStep(e) PROVE A
      BY <2>1 DEF BusinessStep, Insert, CommitBusiness, AbortBusiness
  <2>2. ASSUME NEW p \in Pollers, SelectPending(p) PROVE A
      BY <2>2 DEF SelectPending, tableVars
  <2>3. ASSUME NEW p \in Pollers, PublishStep(p) PROVE A
    <3>1. \A e \in todo[p] : status[e] = "sent" => p \in severed
        BY DEF BatchRows, Eligible
    <3> QED
        BY <2>3, <3>1
        DEF PublishStep, PublishAndMark, PublishFails, PublishAndMarkFails,
            IsCurrent, tableVars
  <2>4. ASSUME NEW p \in Pollers,
               CommitBatch(p) \/ CommitLost(p) \/ LoseConnection(p) \/ Rollback(p)
        PROVE A
      BY <2>4 DEF CommitBatch, CommitLost, LoseConnection, Rollback, tableVars
  <2> QED
      BY <2>1, <2>2, <2>3, <2>4 DEF Next, PollerStep
<1> QED
    BY Invariant, <1>1, PTL DEF Spec, SentIsFinal

-----------------------------------------------------------------------------
\* What is adrift only shrinks when a tick ends or a row is dealt with.
LEMMA AdriftShrinks ==
  ASSUME TypeOK, NEW p \in Pollers,
         \/ EndTx(p)
         \/ \E e : todo' = [todo EXCEPT ![p] = @ \ {e}] /\ severed' = severed
  PROVE  adriftEvents' \in SUBSET adriftEvents
BY DEF TypeOK, EndTx, adriftEvents

\* One row changes at a time in the relay's view, or some rows are abandoned
\* or lost track of.
LEMMA RelayStep == IInv /\ [Next]_vars => [Relay!Next]_(Relay!relayVars)
<1> SUFFICES ASSUME IInv, [Next]_vars PROVE [Relay!Next]_(Relay!relayVars)
    OBVIOUS
<1> USE DEF IInv, TypeOK, Relay!relayVars
<1>1. ASSUME NEW e \in Events, Insert(e) \/ AbortBusiness(e)
      PROVE UNCHANGED Relay!relayVars
    BY <1>1 DEF Insert, AbortBusiness, txVars, committedEvents, deliveredEvents,
                abandonedEvents, adriftEvents
<1>2. ASSUME NEW e \in Events, CommitBusiness(e) PROVE Relay!Commit(e)
    BY <1>2, MaxRetriesAssumption
    DEF CommitBusiness, Relay!Commit, NoPhantom, txVars, committedEvents,
        deliveredEvents, abandonedEvents, adriftEvents
<1>3. ASSUME NEW p \in Pollers, SelectPending(p) PROVE UNCHANGED Relay!relayVars
  <2>1. p \notin severed
      BY <1>3 DEF SelectPending, Idle, BatchRows
  <2> QED
      BY <1>3, <2>1 DEF SelectPending, tableVars, committedEvents, deliveredEvents,
         abandonedEvents, adriftEvents
<1>4. ASSUME NEW p \in Pollers, Rollback(p) \/ CommitLost(p) PROVE Relay!Forget
  <2>1. adriftEvents' \in SUBSET adriftEvents
      BY <1>4, AdriftShrinks DEF Rollback, CommitLost
  <2> QED
      BY <1>4, <2>1 DEF Rollback, CommitLost, tableVars, committedEvents,
         deliveredEvents, abandonedEvents, Relay!Forget
<1>5. ASSUME NEW p \in Pollers, PublishStep(p)
      PROVE (\E e \in Events : Relay!Deliver(e)) \/ Relay!Forget
  <2>1. PICK e \in Events, n \in {0, 1} :
          /\ e \in todo[p]
          /\ published' = [published EXCEPT ![e] = @ + n]
          /\ UNCHANGED tableVars
          /\ \/ EndTx(p)
             \/ todo' = [todo EXCEPT ![p] = @ \ {e}] /\ severed' = severed
      BY <1>5 DEF PublishStep, PublishAndMark, PublishFails, PublishAndMarkFails,
                  IsCurrent
  <2>2. /\ status[e] \in {"pending", "sent"}
        /\ p \notin severed => retry[e] < MaxRetries
      BY <2>1 DEF BatchRows, Eligible
  <2>3. committedEvents' = committedEvents /\ abandonedEvents' = abandonedEvents
      BY <2>1 DEF tableVars, committedEvents, abandonedEvents
  <2>4. adriftEvents' \in SUBSET adriftEvents
      BY <2>1, AdriftShrinks
  <2>5. CASE n = 1 /\ published[e] = 0
    <3>1. /\ e \in committedEvents \ deliveredEvents
          /\ deliveredEvents' = deliveredEvents \cup {e}
        BY <2>1, <2>2, <2>5 DEF committedEvents, deliveredEvents
    <3>2. e \in abandonedEvents => e \in adriftEvents
        BY <2>1, <2>2, MaxRetriesAssumption DEF abandonedEvents, adriftEvents
    <3> QED
        BY <2>3, <2>4, <3>1, <3>2 DEF Relay!Deliver
  <2>6. CASE n = 0 \/ published[e] # 0
    <3>1. deliveredEvents' = deliveredEvents
        BY <2>1, <2>6 DEF deliveredEvents
    <3> QED
        BY <2>3, <2>4, <3>1 DEF Relay!Forget
  <2> QED
      BY <2>5, <2>6
<1>6. ASSUME NEW p \in Pollers, CommitBatch(p)
      PROVE (\E S \in SUBSET Events : Relay!Abandon(S)) \/ UNCHANGED Relay!relayVars
  <2> DEFINE S == {e \in bumped[p] : retry[e] + 1 = MaxRetries}
  <2>0. p \notin severed
      BY <1>6 DEF CommitBatch
  <2>1. \A e \in batch[p] : status[e] = "pending" /\ retry[e] < MaxRetries
      BY <2>0 DEF BatchRows, Eligible
  <2>2. /\ marked[p] \subseteq batch[p]
        /\ bumped[p] \subseteq batch[p] \ marked[p]
      BY DEF BatchRows
  <2>3. committedEvents' = committedEvents /\ deliveredEvents' = deliveredEvents
      BY <1>6, <2>1, <2>2 DEF CommitBatch, committedEvents, deliveredEvents
  <2>4. abandonedEvents' = abandonedEvents \cup S
      BY <1>6, <2>1, <2>2, MaxRetriesAssumption DEF CommitBatch, abandonedEvents
  <2>5. S \subseteq committedEvents \ abandonedEvents /\ S \in SUBSET Events
      BY <2>1, <2>2, MaxRetriesAssumption DEF committedEvents, abandonedEvents
  <2>6. adriftEvents' = adriftEvents
      BY <1>6, <2>0 DEF CommitBatch, EndTx, adriftEvents
  <2>7. CASE S = {}
      BY <2>3, <2>4, <2>6, <2>7
  <2>8. CASE S # {}
      BY <2>3, <2>4, <2>5, <2>6, <2>8 DEF Relay!Abandon
  <2> QED
      BY <2>7, <2>8
<1>7. ASSUME NEW p \in Pollers, LoseConnection(p)
      PROVE (\E S \in SUBSET Events : Relay!LoseTrack(S)) \/ UNCHANGED Relay!relayVars
  <2>1. \A e \in todo[p] : status[e] = "pending" /\ retry[e] < MaxRetries
      BY <1>7 DEF LoseConnection, BatchRows, Eligible
  <2>2. UNCHANGED <<committedEvents, deliveredEvents, abandonedEvents>>
      BY <1>7 DEF LoseConnection, tableVars, committedEvents, deliveredEvents,
         abandonedEvents
  <2>3. adriftEvents' = adriftEvents \cup todo[p]
      BY <1>7 DEF LoseConnection, adriftEvents
  <2>4. todo[p] \subseteq committedEvents \ abandonedEvents /\ todo[p] \in SUBSET Events
      BY <2>1, MaxRetriesAssumption DEF committedEvents, abandonedEvents
  <2>5. CASE todo[p] = {}
      BY <2>2, <2>3, <2>5
  <2>6. CASE todo[p] # {}
      BY <2>2, <2>3, <2>4, <2>6 DEF Relay!LoseTrack
  <2> QED
      BY <2>5, <2>6
<1>8. CASE UNCHANGED vars
    BY <1>8 DEF vars, tableVars, txVars, committedEvents, deliveredEvents,
       abandonedEvents, adriftEvents
<1> QED
    BY <1>1, <1>2, <1>3, <1>4, <1>5, <1>6, <1>7, <1>8
    DEF Next, BusinessStep, PollerStep, Relay!Next

\* The outbox table and its pollers implement EventRelay.
THEOREM OutboxImplementsRelay == Spec => ImplementsRelay
<1>1. Init => Relay!Init
    BY MaxRetriesAssumption
    DEF Init, Relay!Init, committedEvents, deliveredEvents, abandonedEvents, adriftEvents
<1> QED
    BY <1>1, RelayStep, Invariant, PTL DEF Spec, ImplementsRelay, Relay!Spec
=============================================================================
