------------------------------ MODULE Consumer ------------------------------
(***************************************************************************)
(* The consumer side of a topic: the loop of common/xstream/stream.go run  *)
(* by every instance of a service, Kafka's consumer group around it, and   *)
(* the idempotent handler transaction of common/xevent/idempotent.go.      *)
(*                                                                         *)
(* One partition is modelled; partitions do not interact. Offsets count    *)
(* from 1. The log may hold an event twice (see CopiesBounded in Outbox).  *)
(* A member that loses the partition in a rebalance finishes the message   *)
(* it has in hand, while the new owner may already handle the same one.    *)
(***************************************************************************)
EXTENDS Naturals

CONSTANTS
  EventIds,        \* event_id header
  LogSize,         \* bound: messages that will be published
  EventAt,         \* offset -> event_id
  Members,         \* instances of the service
  NoOwner,         \* the partition is being rebalanced
  MaxFailures,     \* bound: handler errors and panics
  MaxLostCommits,  \* bound: offset commits that fail
  MaxMoves         \* bound: crashes and rebalances

ASSUME LogSizeAssumption == LogSize \in Nat
ASSUME EventAtAssumption == EventAt \in [1..LogSize -> EventIds]
ASSUME NoOwnerAssumption == NoOwner \notin Members
ASSUME BoundsAssumption  == MaxFailures \in Nat /\ MaxLostCommits \in Nat /\ MaxMoves \in Nat

VARIABLES
  end,         \* last published offset
  committed,   \* the group's committed offset: the next message to fetch
  owner,       \* member that the partition is assigned to
  pc,          \* per member: fetch, check, apply, commit, or down
  next,        \* per member: offset FetchMessage returns next
  hand,        \* per member: offset of the message in hand
  processed,   \* the processed_events table
  effects,     \* how often the effect of each event has been committed
  failed,      \* offsets where the handler has failed at least once
  failures, lostCommits, moves   \* faults so far

memberVars == <<pc, next, hand>>
dbVars     == <<processed, effects>>
faultVars  == <<failures, lostCommits, moves>>
vars == <<end, committed, owner, memberVars, dbVars, failed, faultVars>>

Offsets == 1..LogSize

TypeOK ==
  /\ end \in 0..LogSize
  /\ committed \in 1..(LogSize + 1)
  /\ owner \in Members \cup {NoOwner}
  /\ pc \in [Members -> {"fetch", "check", "apply", "commit", "down"}]
  /\ next \in [Members -> 1..(LogSize + 1)]
  /\ hand \in [Members -> 0..LogSize]
  /\ processed \subseteq EventIds
  /\ effects \in [EventIds -> Nat]
  /\ failed \subseteq Offsets
  /\ failures \in 0..MaxFailures
  /\ lostCommits \in 0..MaxLostCommits
  /\ moves \in 0..MaxMoves

Init ==
  /\ end = 0
  /\ committed = 1                        \* StartOffset: FirstOffset
  /\ owner = NoOwner
  /\ pc = [m \in Members |-> "fetch"]
  /\ next = [m \in Members |-> 1]
  /\ hand = [m \in Members |-> 0]
  /\ processed = {}
  /\ effects = [e \in EventIds |-> 0]
  /\ failed = {}
  /\ failures = 0
  /\ lostCommits = 0
  /\ moves = 0

-----------------------------------------------------------------------------
(* The topic and the consumer group *)

Produce ==
  /\ end < LogSize
  /\ end' = end + 1
  /\ UNCHANGED <<committed, owner, memberVars, dbVars, failed, faultVars>>

\* The coordinator gives the partition to a member, which starts from the
\* committed offset. Messages it fetched under an older assignment are dropped.
Assign(m) ==
  /\ owner = NoOwner
  /\ pc[m] # "down"
  /\ owner' = m
  /\ next' = [next EXCEPT ![m] = committed]
  /\ UNCHANGED <<end, committed, pc, hand, dbVars, failed, faultVars>>

\* A member joins or a session times out: the owner loses the partition, but
\* goes on with the message in hand.
Revoke ==
  /\ owner # NoOwner
  /\ moves < MaxMoves
  /\ moves' = moves + 1
  /\ owner' = NoOwner
  /\ UNCHANGED <<end, committed, memberVars, dbVars, failed, failures, lostCommits>>

Crash(m) ==
  /\ pc[m] # "down"
  /\ moves < MaxMoves
  /\ moves' = moves + 1
  /\ pc' = [pc EXCEPT ![m] = "down"]
  /\ owner' = IF owner = m THEN NoOwner ELSE owner
  /\ UNCHANGED <<end, committed, next, hand, dbVars, failed, failures, lostCommits>>

Restart(m) ==
  /\ pc[m] = "down"
  /\ pc' = [pc EXCEPT ![m] = "fetch"]
  /\ UNCHANGED <<end, committed, owner, next, hand, dbVars, failed, faultVars>>

-----------------------------------------------------------------------------
(* The consumer loop *)

Goto(m, label) == pc' = [pc EXCEPT ![m] = label]

\* Mutants: an off-by-one at the end of the log; ReadMessage, which commits the
\* offset before the handler has run.
Fetch_PastEnd(m) ==
  /\ pc[m] = "fetch"
  /\ owner = m
  /\ next[m] <= end + 1
  /\ hand' = [hand EXCEPT ![m] = next[m]]
  /\ next' = [next EXCEPT ![m] = @ + 1]
  /\ Goto(m, "check")
  /\ UNCHANGED <<end, committed, owner, dbVars, failed, faultVars>>
Fetch_AutoCommit(m) ==
  /\ pc[m] = "fetch"
  /\ owner = m
  /\ next[m] <= end
  /\ hand' = [hand EXCEPT ![m] = next[m]]
  /\ next' = [next EXCEPT ![m] = @ + 1]
  /\ committed' = next[m] + 1
  /\ Goto(m, "check")
  /\ UNCHANGED <<end, owner, dbVars, failed, faultVars>>

\* FetchMessage. A fetch error only delays the loop.
Fetch(m) ==
  /\ pc[m] = "fetch"
  /\ owner = m
  /\ next[m] <= end
  /\ hand' = [hand EXCEPT ![m] = next[m]]
  /\ next' = [next EXCEPT ![m] = @ + 1]
  /\ Goto(m, "check")
  /\ UNCHANGED <<end, committed, owner, dbVars, failed, faultVars>>

event(m) == EventAt[hand[m]]

\* Process reads processed_events in the snapshot of its transaction; an
\* event found there is skipped, and the handler succeeds.
CheckProcessed(m) ==
  /\ pc[m] = "check"
  /\ Goto(m, IF event(m) \in processed THEN "commit" ELSE "apply")
  /\ UNCHANGED <<end, committed, owner, next, hand, dbVars, failed, faultVars>>

\* Mutant: processed_events has no primary key on event_id.
Apply_NoKey(m) ==
  /\ pc[m] = "apply"
  /\ processed' = processed \cup {event(m)}
  /\ effects' = [effects EXCEPT ![event(m)] = @ + 1]
  /\ Goto(m, "commit")
  /\ UNCHANGED <<end, committed, owner, next, hand, failed, faultVars>>

\* fn(tx), INSERT INTO processed_events and COMMIT.
Apply(m) ==
  /\ pc[m] = "apply"
  /\ event(m) \notin processed
  /\ processed' = processed \cup {event(m)}
  /\ effects' = [effects EXCEPT ![event(m)] = @ + 1]
  /\ Goto(m, "commit")
  /\ UNCHANGED <<end, committed, owner, next, hand, failed, faultVars>>

\* The INSERT fails on the primary key: another member was faster. The loop
\* goes on with the next message without committing this one.
DuplicateKey(m) ==
  /\ pc[m] = "apply"
  /\ event(m) \in processed
  /\ Goto(m, "fetch")
  /\ UNCHANGED <<end, committed, owner, next, hand, dbVars, failed, faultVars>>

\* The handler returns an error or panics; its transaction is rolled back, and
\* again the loop goes on with the next message.
HandlerFails(m) ==
  /\ pc[m] \in {"check", "apply"}
  /\ failures < MaxFailures
  /\ failures' = failures + 1
  /\ failed' = failed \cup {hand[m]}
  /\ Goto(m, "fetch")
  /\ UNCHANGED <<end, committed, owner, next, hand, dbVars, lostCommits, moves>>

\* CommitMessages: everything up to the message is done for the group. The
\* message may date from before a rebalance that gave the partition back to
\* the member, so the offset can move back.
CommitOffset(m) ==
  /\ pc[m] = "commit"
  /\ owner = m
  /\ committed' = hand[m] + 1
  /\ Goto(m, "fetch")
  /\ UNCHANGED <<end, owner, next, hand, dbVars, failed, faultVars>>

\* The coordinator refuses a member of an older generation; the loop logs it.
CommitRefused(m) ==
  /\ pc[m] = "commit"
  /\ owner # m
  /\ Goto(m, "fetch")
  /\ UNCHANGED <<end, committed, owner, next, hand, dbVars, failed, faultVars>>

\* Any other commit error is logged too, and the loop goes on.
CommitLost(m) ==
  /\ pc[m] = "commit"
  /\ lostCommits < MaxLostCommits
  /\ lostCommits' = lostCommits + 1
  /\ Goto(m, "fetch")
  /\ UNCHANGED <<end, committed, owner, next, hand, dbVars, failed, failures, moves>>

-----------------------------------------------------------------------------
LoopStep(m) ==
  \/ Fetch(m) \/ CheckProcessed(m) \/ Apply(m) \/ DuplicateKey(m)
  \/ CommitOffset(m) \/ CommitRefused(m)

Next ==
  \/ Produce
  \/ Revoke
  \/ \E m \in Members :
       \/ LoopStep(m) \/ HandlerFails(m) \/ CommitLost(m)
       \/ Assign(m) \/ Crash(m) \/ Restart(m)

Spec == Init /\ [][Next]_vars

\* Members loop for ever, a crashed instance is restarted by its supervisor
\* and the coordinator does not leave the partition without an owner.
FairSpec ==
  /\ Spec
  /\ WF_vars(\E m \in Members : Assign(m))
  /\ \A m \in Members : WF_vars(LoopStep(m)) /\ WF_vars(Restart(m))

-----------------------------------------------------------------------------
(* Properties *)

\* However often an event is in the log or is delivered, and although two
\* members may handle it at the same time, its effect is committed exactly
\* once if the event is recorded as processed and not at all otherwise.
EffectsOnce == \A e \in EventIds :
  effects[e] = IF e \in processed THEN 1 ELSE 0

\* The group moves past a message only if its event was processed or its
\* handler failed at that offset: rebalances, crashes, races of two members,
\* lost and late commits skip nothing.
PassedIsHandled == \A n \in Offsets :
  n < committed => EventAt[n] \in processed \/ n \in failed

\* Every published message is eventually processed or its handler fails on it.
EventuallyHandled == \A n \in Offsets :
  n <= end ~> EventAt[n] \in processed \/ n \in failed

\* stream.go on a handler error: "the offset is not committed, so at-least-once
\* delivers it again". A message the group has moved past was processed.
NothingLost == \A n \in Offsets : n < committed => EventAt[n] \in processed
=============================================================================
