-------------------------- MODULE ServiceLifecycle --------------------------
(***************************************************************************)
(* The life of the instances of one service, from main to exit: start-up   *)
(* with the schema migration all instances share, the background           *)
(* goroutines and the WaitGroup that counts them, and the shutdown         *)
(* listener that must not close what a goroutine still uses.               *)
(*                                                                         *)
(* order-api is followed; inventory-rpc and user-rpc have fewer consumers. *)
(* goose lists the recorded versions once, then runs the statements of     *)
(* every missing version and records it. There is no lock, and MySQL       *)
(* commits every DDL statement by itself: a CREATE TABLE that finds its    *)
(* table is all that keeps two instances apart.                            *)
(***************************************************************************)
EXTENDS Naturals, Sequences, FiniteSets

CONSTANTS
  Instances,     \* processes that run the service
  Consumers,     \* its Kafka consumers
  Poller,        \* its outbox poller
  Statements,    \* version -> number of DDL statements in its migration file
  MaxBoots,      \* bound: process starts
  MaxCrashes     \* bound: processes that die without their shutdown listener

ASSUME PollerAssumption == Poller \notin Consumers /\ IsFiniteSet(Consumers)
ASSUME StatementsAssumption == Statements \in Seq(Nat \ {0})
ASSUME LifecycleBoundsAssumption == MaxBoots \in Nat /\ MaxCrashes \in Nat

VARIABLES
  schema,        \* statements <<version, k>> that are in effect
  recorded,      \* versions in goose_db_version
  phase,         \* per instance: where main is
  todo,          \* per instance: versions its Up still has to run
  step,          \* per instance: statements of the current one it has run
  cancelled,     \* per instance: the context of its goroutines is done
  wg,            \* per instance: the WaitGroup's counter
  worker,        \* per instance and goroutine: where its loop is
  open,          \* per instance: "db" and "producer", while they can be used
  boots,         \* process starts so far
  crashes        \* crashes so far

schemaVars  == <<schema, recorded>>
upVars      == <<todo, step>>
runVars     == <<cancelled, wg, worker, open>>
vars        == <<schemaVars, phase, upVars, runVars, boots, crashes>>

Versions == DOMAIN Statements
Workers  == Consumers \cup {Poller}

\* Everything that migration v changes.
Changes(v) == {v} \X (1..Statements[v])

TypeOK ==
  /\ schema \subseteq UNION {Changes(v) : v \in Versions}
  /\ recorded \subseteq Versions
  /\ phase \in [Instances -> {"down", "migrate", "assembled", "serving",
                              "stopping", "closing", "closed"}]
  /\ todo \in [Instances -> SUBSET Versions]
  /\ step \in [Instances -> Nat]
  /\ cancelled \in [Instances -> BOOLEAN]
  /\ wg \in [Instances -> 0..Cardinality(Workers)]
  /\ worker \in [Instances -> [Workers ->
       {"none", "jitter", "top", "fetch", "backoff", "busy", "ended"}]]
  /\ open \in [Instances -> SUBSET {"db", "producer"}]
  /\ boots \in 0..MaxBoots
  /\ crashes \in 0..MaxCrashes

Init ==
  /\ schema = {}
  /\ recorded = {}
  /\ phase = [i \in Instances |-> "down"]
  /\ todo = [i \in Instances |-> {}]
  /\ step = [i \in Instances |-> 0]
  /\ cancelled = [i \in Instances |-> FALSE]
  /\ wg = [i \in Instances |-> 0]
  /\ worker = [i \in Instances |-> [w \in Workers |-> "none"]]
  /\ open = [i \in Instances |-> {}]
  /\ boots = 0
  /\ crashes = 0

-----------------------------------------------------------------------------
(* Start-up *)

Enter(i, p) == phase' = [phase EXCEPT ![i] = p]

\* The process is gone, and with it all it had in memory.
Gone(i) ==
  /\ Enter(i, "down")
  /\ todo' = [todo EXCEPT ![i] = {}]
  /\ step' = [step EXCEPT ![i] = 0]
  /\ cancelled' = [cancelled EXCEPT ![i] = FALSE]
  /\ wg' = [wg EXCEPT ![i] = 0]
  /\ worker' = [worker EXCEPT ![i] = [w \in Workers |-> "none"]]
  /\ open' = [open EXCEPT ![i] = {}]

\* main connects to the database; goose lists what is recorded.
Boot(i) ==
  /\ phase[i] = "down"
  /\ boots < MaxBoots
  /\ boots' = boots + 1
  /\ Enter(i, "migrate")
  /\ todo' = [todo EXCEPT ![i] = Versions \ recorded]
  /\ open' = [open EXCEPT ![i] = {"db"}]
  /\ UNCHANGED <<schemaVars, step, cancelled, wg, worker, crashes>>

Migrating(i) == phase[i] = "migrate" /\ todo[i] # {}

\* Up runs the missing versions in ascending order.
Current(i) == CHOOSE v \in todo[i] : \A u \in todo[i] : v <= u
NextChange(i) == <<Current(i), step[i] + 1>>

\* Mutant: the statements of a file are independent of each other's order.
RunStatement_AnyOrder(i) ==
  /\ Migrating(i)
  /\ step[i] < Statements[Current(i)]
  /\ \E c \in Changes(Current(i)) \ schema : schema' = schema \cup {c}
  /\ step' = [step EXCEPT ![i] = @ + 1]
  /\ UNCHANGED <<recorded, phase, todo, runVars, boots, crashes>>

\* The next statement of the migration takes effect at once ...
RunStatement(i) ==
  /\ Migrating(i)
  /\ step[i] < Statements[Current(i)]
  /\ NextChange(i) \notin schema
  /\ schema' = schema \cup {NextChange(i)}
  /\ step' = [step EXCEPT ![i] = @ + 1]
  /\ UNCHANGED <<recorded, phase, todo, runVars, boots, crashes>>

\* ... or finds its table or column there already: Up returns the error and
\* NewServiceContext panics.
StatementExists(i) ==
  /\ Migrating(i)
  /\ NextChange(i) \in schema
  /\ Gone(i)
  /\ UNCHANGED <<schemaVars, boots, crashes>>

\* Mutant: the version is recorded before its statements have run.
RecordVersion_Early(i) ==
  /\ Migrating(i)
  /\ recorded' = recorded \cup {Current(i)}
  /\ IF step[i] = Statements[Current(i)]
     THEN /\ todo' = [todo EXCEPT ![i] = @ \ {Current(i)}]
          /\ step' = [step EXCEPT ![i] = 0]
     ELSE UNCHANGED <<todo, step>>
  /\ UNCHANGED <<schema, phase, runVars, boots, crashes>>

\* All statements have run: the version is recorded.
RecordVersion(i) ==
  /\ Migrating(i)
  /\ step[i] = Statements[Current(i)]
  /\ recorded' = recorded \cup {Current(i)}
  /\ todo' = [todo EXCEPT ![i] = @ \ {Current(i)}]
  /\ step' = [step EXCEPT ![i] = 0]
  /\ UNCHANGED <<schema, phase, runVars, boots, crashes>>

\* NewServiceContext goes on: Redis, the producer, and poller.Start, which
\* counts the goroutine before it starts it.
Assemble(i) ==
  /\ phase[i] = "migrate"
  /\ todo[i] = {}
  /\ Enter(i, "assembled")
  /\ open' = [open EXCEPT ![i] = @ \cup {"producer"}]
  /\ wg' = [wg EXCEPT ![i] = @ + 1]
  /\ worker' = [worker EXCEPT ![i][Poller] = "jitter"]
  /\ UNCHANGED <<schemaVars, upVars, cancelled, boots, crashes>>

\* Mutant: wg.Add is left out of Consumer.Start.
Start_Uncounted(i) ==
  /\ phase[i] = "assembled"
  /\ Enter(i, "serving")
  /\ worker' = [worker EXCEPT ![i] =
       [w \in Workers |-> IF w \in Consumers THEN "top" ELSE @[w]]]
  /\ UNCHANGED <<schemaVars, upVars, cancelled, wg, open, boots, crashes>>

\* svcCtx.Start starts the consumers; the shutdown listener is registered.
Start(i) ==
  /\ phase[i] = "assembled"
  /\ Enter(i, "serving")
  /\ wg' = [wg EXCEPT ![i] = @ + Cardinality(Consumers)]
  /\ worker' = [worker EXCEPT ![i] =
       [w \in Workers |-> IF w \in Consumers THEN "top" ELSE @[w]]]
  /\ UNCHANGED <<schemaVars, upVars, cancelled, open, boots, crashes>>

-----------------------------------------------------------------------------
(* The goroutines *)

Move(i, w, label) == worker' = [worker EXCEPT ![i][w] = label]

\* Steps of a goroutine touch nothing but its own loop ...
Continue(i, w, label) ==
  /\ Move(i, w, label)
  /\ UNCHANGED <<schemaVars, phase, upVars, cancelled, wg, open, boots, crashes>>

\* Mutant: wg.Done is not deferred, and this return goes without it.
End_NoDone(i, w) ==
  /\ cancelled[i]
  /\ Continue(i, w, "ended")

\* ... and its last one the WaitGroup: return runs the deferred wg.Done.
End(i, w) ==
  /\ cancelled[i]
  /\ Move(i, w, "ended")
  /\ wg' = [wg EXCEPT ![i] = @ - 1]
  /\ UNCHANGED <<schemaVars, phase, upVars, cancelled, open, boots, crashes>>

\* poll: the random delay before the first tick is over.
JitterEnds(i) == worker[i][Poller] = "jitter" /\ Continue(i, Poller, "top")

\* poll: the ticker fires. select takes either case when both are ready, so a
\* tick may still begin after the context is done.
Tick(i) == worker[i][Poller] = "top" /\ Continue(i, Poller, "busy")

\* poll: the context is done, before the first tick or between two.
PollerStops(i) == worker[i][Poller] \in {"jitter", "top"} /\ End(i, Poller)

\* consume: the check at the top of the loop.
CheckContext(i, c) ==
  /\ worker[i][c] = "top"
  /\ IF cancelled[i] THEN End(i, c) ELSE Continue(i, c, "fetch")

\* consume: FetchMessage has a message, be the context done by now or not.
Fetched(i, c) == worker[i][c] = "fetch" /\ Continue(i, c, "busy")

\* consume: FetchMessage returns context.Canceled ...
FetchCancelled(i, c) == worker[i][c] = "fetch" /\ End(i, c)

\* ... or another error, which is waited out.
FetchFails(i, c) == worker[i][c] = "fetch" /\ Continue(i, c, "backoff")

\* consume: the backoff ends by itself or by the context.
BackoffEnds(i, c) == worker[i][c] = "backoff" /\ (Continue(i, c, "top") \/ End(i, c))

\* The tick or the handler returns, with or without an error, or panics and is
\* recovered by RunWithRecover.
Finish(i, w) == worker[i][w] = "busy" /\ Continue(i, w, "top")

ConsumerStep(i, c) ==
  \/ CheckContext(i, c) \/ FetchCancelled(i, c) \/ BackoffEnds(i, c) \/ Finish(i, c)

-----------------------------------------------------------------------------
(* Shutdown *)

\* The listener runs Stop, which cancels the goroutines' context.
Stop(i) ==
  /\ phase[i] = "serving"
  /\ Enter(i, "stopping")
  /\ cancelled' = [cancelled EXCEPT ![i] = TRUE]
  /\ UNCHANGED <<schemaVars, upVars, wg, worker, open, boots, crashes>>

\* wg.Wait returns and the producer is closed.
CloseProducer(i) ==
  /\ phase[i] = "stopping"
  /\ wg[i] = 0
  /\ Enter(i, "closing")
  /\ open' = [open EXCEPT ![i] = @ \ {"producer"}]
  /\ UNCHANGED <<schemaVars, upVars, cancelled, wg, worker, boots, crashes>>

\* The listener closes the database.
CloseDatabase(i) ==
  /\ phase[i] = "closing"
  /\ Enter(i, "closed")
  /\ open' = [open EXCEPT ![i] = {}]
  /\ UNCHANGED <<schemaVars, upVars, cancelled, wg, worker, boots, crashes>>

Exit(i) == phase[i] = "closed" /\ Gone(i) /\ UNCHANGED <<schemaVars, boots, crashes>>

\* The process dies without its listener: it is killed, it panics because a
\* dependency is missing, the signal comes before the listener is registered,
\* or go-zero ends a shutdown that takes too long.
Crash(i) ==
  /\ phase[i] # "down"
  /\ crashes < MaxCrashes
  /\ crashes' = crashes + 1
  /\ Gone(i)
  /\ UNCHANGED <<schemaVars, boots>>

-----------------------------------------------------------------------------
Up(i) == RunStatement(i) \/ StatementExists(i) \/ RecordVersion(i)

ShutDown(i) == CloseProducer(i) \/ CloseDatabase(i) \/ Exit(i)

PollerStep(i) == JitterEnds(i) \/ Tick(i) \/ Finish(i, Poller) \/ PollerStops(i)

InstanceStep(i) ==
  \/ Boot(i) \/ Up(i) \/ Assemble(i) \/ Start(i)
  \/ PollerStep(i)
  \/ \E c \in Consumers : ConsumerStep(i, c) \/ Fetched(i, c) \/ FetchFails(i, c)
  \/ Stop(i) \/ ShutDown(i) \/ Crash(i)

Next == \E i \in Instances : InstanceStep(i)

\* Goroutines are scheduled, ticks and handlers end (their waits for locks and
\* for Kafka time out), and select, which chooses at random, does not pass over
\* the context for ever. Nobody has to start or to stop a process.
Spec ==
  /\ Init /\ [][Next]_vars
  /\ \A i \in Instances :
       /\ WF_vars(JitterEnds(i)) /\ WF_vars(Finish(i, Poller)) /\ SF_vars(PollerStops(i))
       /\ \A c \in Consumers : WF_vars(ConsumerStep(i, c))
       /\ WF_vars(ShutDown(i))

-----------------------------------------------------------------------------
(* Properties *)

\* The listener closes nothing under a running goroutine: a tick finds the
\* database and the producer open, a handler the database.
NoUseAfterClose == \A i \in Instances :
  /\ worker[i][Poller] = "busy" => open[i] = {"db", "producer"}
  /\ \A c \in Consumers : worker[i][c] = "busy" => "db" \in open[i]

\* An instance that runs has the whole schema, whichever instances applied it
\* together and wherever others have died in between.
RunningHasSchema == \A i \in Instances :
  phase[i] \notin {"down", "migrate"} => \A v \in Versions : Changes(v) \subseteq schema

\* Statements of v are in effect, v is not recorded, and nobody is running it:
\* from now on every Up fails at its first statement.
Stranded(v) ==
  /\ v \notin recorded
  /\ Changes(v) \cap schema # {}
  /\ \A i \in Instances : Migrating(i) /\ Current(i) = v => step[i] = 0

\* The comment on Migrate does without a lock. Instances that start together
\* may fail each other's Up, but one of them always gets through: it takes a
\* crash to leave a migration half done.
StrandedByCrashOnly == (\E v \in Versions : Stranded(v)) => crashes > 0

\* A shutdown that has begun ends, in whatever state it finds the goroutines.
StopEnds == \A i \in Instances : phase[i] = "stopping" ~> phase[i] = "down"
=============================================================================
