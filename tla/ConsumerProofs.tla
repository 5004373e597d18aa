--------------------------- MODULE ConsumerProofs ---------------------------
(***************************************************************************)
(* Proofs about Consumer for any log, any number of members and any number *)
(* of faults: effects happen once, and only a failed handler loses a       *)
(* message.                                                                *)
(***************************************************************************)
EXTENDS Consumer, TLAPS

Done(n) == EventAt[n] \in processed \/ n \in failed

InFlight(m) == pc[m] \in {"check", "apply"}

\* Below the message in hand everything is dealt with, and so is everything
\* the owner has fetched apart from that message. A member that is not the
\* owner may have fetched messages that nobody will finish: that is why the
\* committed offset, and not its own, is where the next owner starts.
FetchedInOrder == \A m \in Members :
  /\ pc[m] \in {"check", "apply", "commit"} => hand[m] \in Offsets
  /\ pc[m] = "commit" => EventAt[hand[m]] \in processed
  /\ \A n \in Offsets : n < hand[m] => Done(n)
  /\ owner = m => /\ pc[m] # "down"
                  /\ \A n \in Offsets : n < next[m] =>
                       Done(n) \/ (InFlight(m) /\ n = hand[m])

IInv == TypeOK /\ EffectsOnce /\ FetchedInOrder /\ PassedIsHandled

-----------------------------------------------------------------------------
\* Nothing is fetched, committed or processed at the start.
LEMMA InitInv == Init => IInv
BY LogSizeAssumption, NoOwnerAssumption, BoundsAssumption
DEF Init, IInv, TypeOK, EffectsOnce, FetchedInOrder, PassedIsHandled, Done, Offsets

\* Every step keeps the types.
LEMMA Typing == IInv /\ [Next]_vars => TypeOK'
<1> SUFFICES ASSUME IInv, [Next]_vars PROVE TypeOK'
    OBVIOUS
<1> USE LogSizeAssumption, EventAtAssumption, BoundsAssumption
    DEF IInv, TypeOK, Offsets
<1>1. CASE Produce
    BY <1>1 DEF Produce, memberVars, dbVars, faultVars
<1>2. CASE Revoke
    BY <1>2 DEF Revoke, memberVars, dbVars
<1>3. ASSUME NEW m \in Members, Fetch(m) PROVE TypeOK'
    BY <1>3 DEF Fetch, Goto, dbVars, faultVars
<1>4. ASSUME NEW m \in Members, CheckProcessed(m) \/ DuplicateKey(m) PROVE TypeOK'
    BY <1>4 DEF CheckProcessed, DuplicateKey, Goto, dbVars, faultVars
<1>5. ASSUME NEW m \in Members, Apply(m) PROVE TypeOK'
  <2>1. event(m) \in EventIds
      BY <1>5 DEF Apply, event, FetchedInOrder
  <2> QED
      BY <1>5, <2>1 DEF Apply, Goto, faultVars
<1>6. ASSUME NEW m \in Members, CommitOffset(m) PROVE TypeOK'
  <2>1. hand[m] \in 1..LogSize
      BY <1>6 DEF CommitOffset, FetchedInOrder
  <2> QED
      BY <1>6, <2>1 DEF CommitOffset, Goto, dbVars, faultVars
<1>7. ASSUME NEW m \in Members, CommitRefused(m) \/ CommitLost(m) PROVE TypeOK'
  <2>1. lostCommits' \in 0..MaxLostCommits
      BY <1>7 DEF CommitRefused, CommitLost, faultVars
  <2> QED
      BY <1>7, <2>1 DEF CommitRefused, CommitLost, Goto, dbVars, faultVars
<1>8. ASSUME NEW m \in Members, HandlerFails(m) PROVE TypeOK'
  <2>1. hand[m] \in 1..LogSize
      BY <1>8 DEF HandlerFails, FetchedInOrder
  <2>2. failures' \in 0..MaxFailures
      BY <1>8 DEF HandlerFails
  <2> QED
      BY <1>8, <2>1, <2>2 DEF HandlerFails, Goto, dbVars
<1>9. ASSUME NEW m \in Members, Assign(m) PROVE TypeOK'
    BY <1>9 DEF Assign, dbVars, faultVars
<1>10. ASSUME NEW m \in Members, Crash(m) \/ Restart(m) PROVE TypeOK'
  <2>1. moves' \in 0..MaxMoves
      BY <1>10 DEF Crash, Restart, faultVars
  <2> QED
      BY <1>10, <2>1 DEF Crash, Restart, dbVars, faultVars
<1>11. CASE UNCHANGED vars
    BY <1>11 DEF vars, memberVars, dbVars, faultVars
<1> QED
    BY <1>1, <1>2, <1>3, <1>4, <1>5, <1>6, <1>7, <1>8, <1>9, <1>10, <1>11
    DEF Next, LoopStep

\* Only Apply changes the tables, and the primary key keeps it from applying
\* an event that another member applied after this one looked it up.
LEMMA Effects == IInv /\ [Next]_vars => EffectsOnce'
<1> SUFFICES ASSUME IInv, [Next]_vars PROVE EffectsOnce'
    OBVIOUS
<1> USE DEF IInv, TypeOK, EffectsOnce
<1>1. ASSUME NEW m \in Members, Apply(m) PROVE EffectsOnce'
    BY <1>1 DEF Apply
<1>2. CASE UNCHANGED dbVars
    BY <1>2 DEF dbVars
<1> QED
    BY <1>1, <1>2
    DEF Next, LoopStep, Produce, Revoke, Assign, Crash, Restart, Fetch, CheckProcessed,
        DuplicateKey, HandlerFails, CommitOffset, CommitRefused, CommitLost, vars

\* What is dealt with stays so.
LEMMA DoneIsStable == ASSUME IInv, [Next]_vars, NEW n \in Offsets, Done(n)
                      PROVE  Done(n)'
BY DEF Done, Next, LoopStep, Produce, Revoke, Assign, Crash, Restart, Fetch,
       CheckProcessed, Apply, DuplicateKey, HandlerFails, CommitOffset, CommitRefused,
       CommitLost, vars, dbVars

\* Every step of the loop and of the group keeps what was passed accounted for.
LEMMA Handled == IInv /\ [Next]_vars => FetchedInOrder' /\ PassedIsHandled'
<1> SUFFICES ASSUME IInv, [Next]_vars PROVE FetchedInOrder' /\ PassedIsHandled'
    OBVIOUS
<1>1. \A n \in Offsets : Done(n) => Done(n)'
    BY DoneIsStable
<1>2. \A n \in Offsets : n < committed => Done(n)
    BY DEF IInv, PassedIsHandled, Done
<1>3. PassedIsHandled' <=> \A n \in Offsets : n < committed' => Done(n)'
    BY DEF PassedIsHandled, Done
<1> USE LogSizeAssumption, NoOwnerAssumption DEF IInv, TypeOK, FetchedInOrder, InFlight, Offsets
<1>4. CASE Produce \/ Revoke
    BY <1>1, <1>2, <1>3, <1>4
    DEF Produce, Revoke, memberVars, dbVars, Done
<1>5. ASSUME NEW m \in Members, Fetch(m)
      PROVE FetchedInOrder' /\ PassedIsHandled'
    BY <1>1, <1>2, <1>3, <1>5 DEF Fetch, Goto, dbVars
<1>6. ASSUME NEW m \in Members, CheckProcessed(m) \/ Apply(m) \/ DuplicateKey(m)
      PROVE FetchedInOrder' /\ PassedIsHandled'
  <2>1. pc'[m] # "apply" => EventAt[hand[m]] \in processed'
    <3>1. CASE CheckProcessed(m)
        BY <3>1 DEF CheckProcessed, Goto, event, dbVars
    <3>2. CASE Apply(m)
        BY <3>2 DEF Apply, event
    <3>3. CASE DuplicateKey(m)
        BY <3>3 DEF DuplicateKey, event, dbVars
    <3> QED
        BY <1>6, <3>1, <3>2, <3>3
  <2>2. pc' = [pc EXCEPT ![m] = pc'[m]] /\ pc'[m] \in {"apply", "commit", "fetch"}
      BY <1>6 DEF CheckProcessed, Apply, DuplicateKey, Goto
  <2>3. UNCHANGED <<owner, next, hand, committed>> /\ processed \subseteq processed'
      BY <1>6 DEF CheckProcessed, Apply, DuplicateKey, dbVars
  <2>4. hand[m] \in Offsets /\ InFlight(m)
      BY <1>6 DEF CheckProcessed, Apply, DuplicateKey
  <2>5. pc'[m] # "apply" => Done(hand[m])'
      BY <2>1, <2>3 DEF Done
  <2> QED
      BY <1>1, <1>2, <1>3, <2>1, <2>2, <2>3, <2>4, <2>5
<1>7. ASSUME NEW m \in Members, HandlerFails(m)
      PROVE FetchedInOrder' /\ PassedIsHandled'
  <2>1. hand[m] \in Offsets /\ Done(hand[m])'
      BY <1>7 DEF HandlerFails, Done
  <2> QED
      BY <1>1, <1>2, <1>3, <1>7, <2>1 DEF HandlerFails, Goto, dbVars
<1>8. ASSUME NEW m \in Members, CommitOffset(m)
      PROVE FetchedInOrder' /\ PassedIsHandled'
  <2>1. \A n \in Offsets : n <= hand[m] => Done(n)
      BY <1>8 DEF CommitOffset, Done
  <2> QED
      BY <1>1, <1>2, <1>3, <1>8, <2>1 DEF CommitOffset, Goto, dbVars
<1>9. ASSUME NEW m \in Members, CommitRefused(m) \/ CommitLost(m)
      PROVE FetchedInOrder' /\ PassedIsHandled'
    BY <1>1, <1>2, <1>3, <1>9 DEF CommitRefused, CommitLost, Goto, dbVars
<1>10. ASSUME NEW m \in Members, Assign(m)
       PROVE FetchedInOrder' /\ PassedIsHandled'
    BY <1>1, <1>2, <1>3, <1>10 DEF Assign, dbVars
<1>11. ASSUME NEW m \in Members, Crash(m) \/ Restart(m)
       PROVE FetchedInOrder' /\ PassedIsHandled'
    BY <1>1, <1>2, <1>3, <1>11 DEF Crash, Restart, dbVars
<1>12. CASE UNCHANGED vars
    BY <1>1, <1>2, <1>3, <1>12 DEF vars, memberVars, dbVars
<1> QED
    BY <1>4, <1>5, <1>6, <1>7, <1>8, <1>9, <1>10, <1>11, <1>12 DEF Next, LoopStep

-----------------------------------------------------------------------------
\* The inductive invariant.
THEOREM Invariant == Spec => []IInv
<1>1. IInv /\ [Next]_vars => IInv'
    BY Typing, Effects, Handled DEF IInv
<1> QED
    BY InitInv, <1>1, PTL DEF Spec

\* Types: offsets stay within the log, whatever is fetched again.
THEOREM ConsumerTypes == Spec => []TypeOK
BY Invariant, PTL DEF IInv

\* Idempotent processing: the effect of an event is committed exactly once.
THEOREM ExactlyOnceEffects == Spec => []EffectsOnce
BY Invariant, PTL DEF IInv

\* Only a handler error makes the group move past an unprocessed message.
THEOREM NoSilentSkip == Spec => []PassedIsHandled
BY Invariant, PTL DEF IInv
=============================================================================
