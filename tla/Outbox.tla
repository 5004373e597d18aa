------------------------------- MODULE Outbox -------------------------------
(***************************************************************************)
(* The transactional outbox: the outbox_events table of one database       *)
(* (common/xevent/outbox_repo.go) and the pollers of the service instances *)
(* that share it (common/xstream/poller.go).                               *)
(*                                                                         *)
(* A poller's tick is one database transaction: it locks a batch of        *)
(* pending rows with FOR UPDATE SKIP LOCKED, publishes them to Kafka one   *)
(* by one, records each outcome in the transaction and commits at the end. *)
(* Publishing cannot be undone; everything the transaction wrote can. The  *)
(* locks belong to the database connection, the loop over the batch to the *)
(* process: when the connection is lost the loop goes on without them.     *)
(***************************************************************************)
EXTENDS Naturals, FiniteSets

CONSTANTS
  Events,         \* event_id of the rows business transactions insert
  Pollers,        \* one poller goroutine per service instance
  BatchSize,      \* LIMIT of the batch query
  MaxRetries,     \* xevent.MaxRetries (5 in the code)
  MaxDbFaults     \* bound: transactions rolled back and updates that fail

ASSUME BatchSizeAssumption    == BatchSize \in Nat \ {0}
ASSUME MaxRetriesAssumption   == MaxRetries \in Nat \ {0}
ASSUME MaxDbFaultsAssumption == MaxDbFaults \in Nat

VARIABLES
  \* the outbox_events table, as committed
  status,         \* none, inserting (uncommitted), aborted, pending, sent, failed
  retry,          \* retry_count
  created,        \* position in (created_at, id) order; 0 before the INSERT
  clock,          \* last position handed out
  \* the pollers' open transactions
  batch,          \* rows of the poller's batch, locked unless it is severed
  todo,           \* rows of the batch still to be published
  marked,         \* rows the open transaction has set to sent
  bumped,         \* rows whose retry_count the open transaction has raised
  severed,        \* pollers still in their loop whose transaction is gone
  \* the outside world
  published,      \* Publish calls that left the event in the topic (one call
                  \* may leave several copies: kafka.Writer retries inside it)
  dbFaults        \* database faults so far

tableVars == <<status, retry, created, clock>>
txVars    == <<batch, todo, marked, bumped, severed>>
vars      == <<tableVars, txVars, published, dbFaults>>

Statuses == {"none", "inserting", "aborted", "pending", "sent", "failed"}

TypeOK ==
  /\ status \in [Events -> Statuses]
  /\ retry \in [Events -> 0..MaxRetries]
  /\ created \in [Events -> Nat]
  /\ clock \in Nat
  /\ batch \in [Pollers -> SUBSET Events]
  /\ todo \in [Pollers -> SUBSET Events]
  /\ marked \in [Pollers -> SUBSET Events]
  /\ bumped \in [Pollers -> SUBSET Events]
  /\ severed \in SUBSET Pollers
  /\ published \in [Events -> Nat]
  /\ dbFaults \in 0..MaxDbFaults

Init ==
  /\ status = [e \in Events |-> "none"]
  /\ retry = [e \in Events |-> 0]
  /\ created = [e \in Events |-> 0]
  /\ clock = 0
  /\ batch = [p \in Pollers |-> {}]
  /\ todo = [p \in Pollers |-> {}]
  /\ marked = [p \in Pollers |-> {}]
  /\ bumped = [p \in Pollers |-> {}]
  /\ severed = {}
  /\ published = [e \in Events |-> 0]
  /\ dbFaults = 0

-----------------------------------------------------------------------------
(* Business transactions *)

\* The INSERT runs inside a business transaction, which fixes created_at
\* before the row becomes visible.
Insert(e) ==
  /\ status[e] = "none"
  /\ status' = [status EXCEPT ![e] = "inserting"]
  /\ clock' = clock + 1
  /\ created' = [created EXCEPT ![e] = clock + 1]
  /\ UNCHANGED <<retry, txVars, published, dbFaults>>

\* The business transaction commits: row and business change become visible.
CommitBusiness(e) ==
  /\ status[e] = "inserting"
  /\ status' = [status EXCEPT ![e] = "pending"]
  /\ UNCHANGED <<retry, created, clock, txVars, published, dbFaults>>

\* Or it rolls back, and the row with it; a repeated request has a new uuid.
AbortBusiness(e) ==
  /\ status[e] = "inserting"
  /\ status' = [status EXCEPT ![e] = "aborted"]
  /\ UNCHANGED <<retry, created, clock, txVars, published, dbFaults>>

-----------------------------------------------------------------------------
(* ProcessPending and tick *)

Idle(p) == batch[p] = {}

Locked == UNION {batch[p] : p \in Pollers \ severed}

\* Mutant: uncommitted rows are read.
Eligible_DirtyRead(e) == status[e] \in {"inserting", "pending"} /\ retry[e] < MaxRetries

\* WHERE status = 'pending' AND retry_count < MaxRetries.
Eligible(e) == status[e] = "pending" /\ retry[e] < MaxRetries

\* Mutant: a plain SELECT.
SkipLocked_Plain(S) == S

SkipLocked(S) == S \ Locked

\* ORDER BY created_at ASC LIMIT BatchSize.
Oldest(S) == {e \in S : Cardinality({f \in S : created[f] < created[e]}) < BatchSize}

\* SELECT ... FOR UPDATE SKIP LOCKED. An empty result ends the transaction
\* at once and changes nothing, so it is not a step.
SelectPending(p) ==
  LET rows == Oldest(SkipLocked({e \in Events : Eligible(e)}))
  IN /\ Idle(p)
     /\ rows # {}
     /\ batch' = [batch EXCEPT ![p] = rows]
     /\ todo' = [todo EXCEPT ![p] = rows]
     /\ UNCHANGED <<tableVars, marked, bumped, severed, published, dbFaults>>

\* The row the loop over the batch is at.
IsCurrent(p, e) ==
  e \in todo[p] /\ \A f \in todo[p] \ {e} : created[e] < created[f]

\* Publish succeeds, MarkAsSent succeeds.
PublishAndMark(p, e) ==
  /\ IsCurrent(p, e)
  /\ p \notin severed
  /\ published' = [published EXCEPT ![e] = @ + 1]
  /\ marked' = [marked EXCEPT ![p] = @ \cup {e}]
  /\ todo' = [todo EXCEPT ![p] = @ \ {e}]
  /\ UNCHANGED <<tableVars, batch, bumped, severed, dbFaults>>

\* Mutants: no continue after the error, so the row is marked sent as well; the
\* retry count is not raised.
PublishFails_FallsThrough(p, e) ==
  /\ IsCurrent(p, e)
  /\ \E landed \in {0, 1} : published' = [published EXCEPT ![e] = @ + landed]
  /\ marked' = [marked EXCEPT ![p] = IF p \in severed THEN @ ELSE @ \cup {e}]
  /\ todo' = [todo EXCEPT ![p] = @ \ {e}]
  /\ UNCHANGED <<tableVars, batch, bumped, severed, dbFaults>>
PublishFails_Uncounted(p, e) ==
  /\ IsCurrent(p, e)
  /\ \E landed \in {0, 1} : published' = [published EXCEPT ![e] = @ + landed]
  /\ todo' = [todo EXCEPT ![p] = @ \ {e}]
  /\ UNCHANGED <<tableVars, batch, marked, bumped, severed, dbFaults>>

\* Publish returns an error. The brokers may hold the message all the same
\* (the acknowledgement was lost, or the context was cancelled late). The
\* retry count is raised in the transaction, and the loop continues with the
\* next row even when that UPDATE fails, as it does on a lost connection.
PublishFails(p, e) ==
  /\ IsCurrent(p, e)
  /\ \E landed \in {0, 1} : published' = [published EXCEPT ![e] = @ + landed]
  /\ \/ /\ p \notin severed
        /\ bumped' = [bumped EXCEPT ![p] = @ \cup {e}]
        /\ UNCHANGED dbFaults
     \/ /\ p \notin severed
        /\ dbFaults < MaxDbFaults
        /\ dbFaults' = dbFaults + 1
        /\ UNCHANGED bumped
     \/ /\ p \in severed
        /\ UNCHANGED <<bumped, dbFaults>>
  /\ todo' = [todo EXCEPT ![p] = @ \ {e}]
  /\ UNCHANGED <<tableVars, batch, marked, severed>>

EndTx(p) ==
  /\ batch' = [batch EXCEPT ![p] = {}]
  /\ todo' = [todo EXCEPT ![p] = {}]
  /\ marked' = [marked EXCEPT ![p] = {}]
  /\ bumped' = [bumped EXCEPT ![p] = {}]
  /\ severed' = severed \ {p}

\* Publish succeeds but MarkAsSent fails, as it must on a lost connection: the
\* handler returns the error and the whole batch is rolled back.
PublishAndMarkFails(p, e) ==
  /\ IsCurrent(p, e)
  /\ published' = [published EXCEPT ![e] = @ + 1]
  /\ \/ p \in severed /\ UNCHANGED dbFaults
     \/ p \notin severed /\ dbFaults < MaxDbFaults /\ dbFaults' = dbFaults + 1
  /\ EndTx(p)
  /\ UNCHANGED tableVars

\* The batch is done and the transaction commits.
CommitBatch(p) ==
  /\ ~Idle(p)
  /\ p \notin severed
  /\ todo[p] = {}
  /\ status' = [e \in Events |-> IF e \in marked[p] THEN "sent" ELSE status[e]]
  /\ retry' = [e \in Events |-> IF e \in bumped[p] THEN retry[e] + 1 ELSE retry[e]]
  /\ EndTx(p)
  /\ UNCHANGED <<created, clock, published, dbFaults>>

\* Every publish of a severed batch failed, so nothing but COMMIT reports the
\* lost connection; the database has undone the transaction long before.
CommitLost(p) ==
  /\ p \in severed
  /\ todo[p] = {}
  /\ EndTx(p)
  /\ UNCHANGED <<tableVars, published, dbFaults>>

\* The connection is lost or the server ends the session: the database undoes
\* what the transaction wrote and frees its locks, but the loop over the rows
\* in memory does not notice before its next statement.
LoseConnection(p) ==
  /\ ~Idle(p)
  /\ p \notin severed
  /\ dbFaults < MaxDbFaults
  /\ dbFaults' = dbFaults + 1
  /\ severed' = severed \cup {p}
  /\ marked' = [marked EXCEPT ![p] = {}]
  /\ bumped' = [bumped EXCEPT ![p] = {}]
  /\ UNCHANGED <<tableVars, batch, todo, published>>

\* The process dies, the tick panics (RunWithRecover) or COMMIT fails: the
\* loop ends, and the database undoes what the transaction wrote.
Rollback(p) ==
  /\ ~Idle(p)
  /\ dbFaults < MaxDbFaults
  /\ dbFaults' = dbFaults + 1
  /\ EndTx(p)
  /\ UNCHANGED <<tableVars, published>>

-----------------------------------------------------------------------------
BusinessStep(e) == Insert(e) \/ CommitBusiness(e) \/ AbortBusiness(e)

PublishStep(p) ==
  \E e \in Events : \/ PublishAndMark(p, e)
                    \/ PublishFails(p, e)
                    \/ PublishAndMarkFails(p, e)

PollerStep(p) ==
  SelectPending(p) \/ PublishStep(p) \/ CommitBatch(p) \/ CommitLost(p)

Next ==
  \/ \E e \in Events : BusinessStep(e)
  \/ \E p \in Pollers : PollerStep(p) \/ LoseConnection(p) \/ Rollback(p)

Spec == Init /\ [][Next]_vars

\* The ticker fires for ever and every database or Kafka call returns, so a
\* poller that can take a step takes one. Nothing is assumed of the outcome
\* of a publish, and nothing makes a business transaction happen.
FairSpec == Spec /\ \A p \in Pollers : WF_vars(PollerStep(p))

-----------------------------------------------------------------------------
(* Properties *)

\* No row is handled by two instances at the same time unless one of them has
\* lost its connection: what FOR UPDATE SKIP LOCKED really gives, where the
\* comment on ProcessPending claims it without the exception.
RowsExclusive == \A p, q \in Pollers :
  p # q /\ batch[p] \cap batch[q] # {} => p \in severed \/ q \in severed

\* A row marked sent, committed or not, is in the topic: a crash, a rolled
\* back batch or a failed publish never loses an event that reads as sent.
SentIsPublished == \A e \in Events :
  (status[e] = "sent" \/ \E p \in Pollers : e \in marked[p]) => published[e] > 0

\* Duplicates are accounted for: every Publish call that left an event in the
\* topic is paid for by its final success, by a failed attempt counted in
\* retry_count, or by a database fault that undid or lost the record of it.
CopiesBounded == \A e \in Events :
  published[e] <= dbFaults + retry[e]
                    + (IF \E p \in Pollers : e \in bumped[p] THEN 1 ELSE 0)
                    + (IF status[e] = "sent" \/ \E p \in Pollers : e \in marked[p]
                       THEN 1 ELSE 0)

\* A row that reads as sent stays sent, and only a poller that lost its
\* connection with the row still to do can publish it again, whatever any
\* instance selected before the sending transaction committed.
SentIsFinal == [][\A e \in Events : status[e] = "sent" =>
  /\ status'[e] = "sent"
  /\ published'[e] # published[e] => \E p \in severed : e \in todo[p]]_vars

-----------------------------------------------------------------------------
(* What the outbox promises: EventRelay *)

committedEvents == {e \in Events : status[e] \in {"pending", "sent"}}
deliveredEvents == {e \in Events : published[e] > 0}
abandonedEvents == {e \in Events : status[e] = "pending" /\ retry[e] = MaxRetries}
adriftEvents    == {e \in Events : \E p \in severed : e \in todo[p]}

Relay == INSTANCE EventRelay WITH committed <- committedEvents,
                                  delivered <- deliveredEvents,
                                  abandoned <- abandonedEvents,
                                  adrift    <- adriftEvents

\* The table and the pollers implement EventRelay: nothing is delivered that
\* was not committed, an event that has used up its retries stays that way,
\* and after that only a poller that had lost its connection with the event
\* in hand before can still publish it.
ImplementsRelay == Relay!Spec

\* Every committed event is eventually in the topic or out of retries.
EventuallySettled == Relay!Settled
=============================================================================
