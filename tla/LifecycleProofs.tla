-------------------------- MODULE LifecycleProofs ---------------------------
(***************************************************************************)
(* Proofs about ServiceLifecycle, for any number of instances, consumers,  *)
(* migrations and statements in them, and any number of starts and         *)
(* crashes. The safety part of Spec is enough for all of them.             *)
(***************************************************************************)
EXTENDS ServiceLifecycle, FiniteSetTheorems, WellFoundedInduction, TLAPS

-----------------------------------------------------------------------------
(* The invariant *)

\* Goroutines that run: what the WaitGroup has to count.
Running(i) == {w \in Workers : worker[i][w] \notin {"none", "ended"}}

\* The counter tells the truth, and while something is closed, or not open
\* yet, there is no goroutine to count.
Counted(i) ==
  /\ wg[i] = Cardinality(Running(i))
  /\ phase[i] \in {"down", "migrate"} => \A w \in Workers : worker[i][w] = "none"
  /\ phase[i] = "assembled" => \A c \in Consumers : worker[i][c] = "none"
  /\ phase[i] \in {"closing", "closed"} => Running(i) = {}
  /\ phase[i] \in {"assembled", "serving", "stopping"} => open[i] = {"db", "producer"}
  /\ phase[i] = "migrate" => open[i] = {"db"}

WgCounts == \A i \in Instances : Counted(i)

\* What Up has in its hands: nothing is left out of its list that is not
\* recorded by now, and step counts statements of the current version.
UpToDate == \A i \in Instances :
  /\ phase[i] # "migrate" => todo[i] = {}
  /\ phase[i] = "migrate" => Versions \subseteq recorded \cup todo[i]
  /\ phase[i] \notin {"down", "migrate"} => recorded = Versions
  /\ ~Migrating(i) => step[i] = 0
  /\ Migrating(i) => step[i] <= Statements[Current(i)]

\* A version is recorded when all its statements are in effect, and the first
\* of them is in effect before any other.
SchemaInOrder ==
  /\ \A v \in recorded : Changes(v) \subseteq schema
  /\ \A v \in Versions : \A k \in Nat : <<v, k>> \in schema => <<v, 1>> \in schema

\* Whoever runs the first statement of a version has the version for itself:
\* the statements in effect are the ones it has run.
Owned == \A i \in Instances : Migrating(i) /\ step[i] > 0 =>
  /\ \A k \in Nat \ {0} : <<Current(i), k>> \in schema <=> k <= step[i]
  /\ \A j \in Instances :
       Migrating(j) /\ Current(j) = Current(i) /\ step[j] > 0 => j = i

LifecycleInv ==
  TypeOK /\ WgCounts /\ UpToDate /\ SchemaInOrder /\ Owned /\ StrandedByCrashOnly

-----------------------------------------------------------------------------
(* Facts about the operators *)

\* Versions are natural numbers, each with at least one statement.
LEMMA VersionsAreNumbers ==
  /\ Versions \subseteq Nat
  /\ \A v \in Versions : Statements[v] \in Nat /\ Statements[v] > 0
BY StatementsAssumption DEF Versions

\* The goroutines of an instance are finitely many.
LEMMA WorkersFinite ==
  /\ IsFiniteSet(Workers)
  /\ \A S \in SUBSET Workers : IsFiniteSet(S) /\ Cardinality(S) \in 0..Cardinality(Workers)
<1>1. IsFiniteSet(Workers)
    BY PollerAssumption, FS_AddElement DEF Workers
<1>2. ASSUME NEW S \in SUBSET Workers
      PROVE IsFiniteSet(S) /\ Cardinality(S) \in 0..Cardinality(Workers)
  <2>1. IsFiniteSet(S) /\ Cardinality(S) <= Cardinality(Workers)
      BY <1>1, FS_Subset
  <2>2. Cardinality(S) \in Nat /\ Cardinality(Workers) \in Nat
      BY <1>1, <2>1, FS_CardinalityType
  <2> QED
      BY <2>1, <2>2
<1> QED
    BY <1>1, <1>2

\* Among missing versions there is a smallest one.
LEMMA SmallestVersion ==
  ASSUME NEW S \in SUBSET Versions, S # {}
  PROVE  (CHOOSE v \in S : \A u \in S : v <= u) \in S
<1>1. S \subseteq Nat
    BY VersionsAreNumbers
<1> DEFINE R == {ss \in Nat \X Nat : ss[1] < ss[2]}
<1>2. IsWellFoundedOn(R, Nat)
    BY NatLessThanWellFounded DEF OpToRel
<1>3. \A x, y \in Nat : x < y => <<x, y>> \in R
    OBVIOUS
<1> HIDE DEF R
<1>4. PICK v \in S : \A u \in S : ~ (<<u, v>> \in R)
    BY <1>1, <1>2, WFMin
<1>5. ASSUME NEW u \in S PROVE v <= u
  <2>1. u \in Nat /\ v \in Nat /\ ~ (<<u, v>> \in R)
      BY <1>1, <1>4
  <2>2. ~ (u < v)
      BY <1>3, <2>1
  <2> QED
      BY <2>1, <2>2
<1> QED
    BY <1>5

\* Up goes on with a version that is missing.
LEMMA CurrentIsMissing ==
  ASSUME TypeOK, NEW i \in Instances, Migrating(i)
  PROVE  Current(i) \in todo[i] /\ Current(i) \in Versions
BY SmallestVersion DEF TypeOK, Migrating, Current

\* What a goroutine that runs may do: go on, or return and be counted off.
Goes(i, w) == \E l \in {"jitter", "top", "fetch", "backoff", "busy"} : Continue(i, w, l)

\* The steps of an instance, its goroutines' by what they do to the WaitGroup.
LEMMA StepCases ==
  ASSUME NEW i \in Instances, InstanceStep(i)
  PROVE  \/ Boot(i) \/ RunStatement(i) \/ StatementExists(i) \/ RecordVersion(i)
         \/ Assemble(i) \/ Start(i) \/ Stop(i)
         \/ CloseProducer(i) \/ CloseDatabase(i) \/ Exit(i) \/ Crash(i)
         \/ \E w \in Running(i) : Goes(i, w) \/ End(i, w)
<1>1. Poller \in Workers /\ Consumers \subseteq Workers
    BY DEF Workers
<1>2. CASE PollerStep(i)
    BY <1>1, <1>2 DEF PollerStep, JitterEnds, Tick, Finish, PollerStops, Running, Goes
<1>3. ASSUME NEW c \in Consumers, ConsumerStep(i, c) \/ Fetched(i, c) \/ FetchFails(i, c)
      PROVE \E w \in Running(i) : Goes(i, w) \/ End(i, w)
    BY <1>1, <1>3 DEF ConsumerStep, CheckContext, FetchCancelled, BackoffEnds, Finish,
                      Fetched, FetchFails, Running, Goes
<1> QED
    BY <1>2, <1>3 DEF InstanceStep, Up, ShutDown

-----------------------------------------------------------------------------
(* The goroutines and what they use *)

\* A step that leaves an instance's goroutines, phase and handles alone.
LEMMA OthersKeepCount ==
  ASSUME NEW j \in Instances, Counted(j),
         worker'[j] = worker[j], wg'[j] = wg[j], phase'[j] = phase[j], open'[j] = open[j]
  PROVE  Counted(j)'
BY DEF Counted, Running

\* The counter follows the goroutines through every step of an instance.
LEMMA CountStep ==
  ASSUME TypeOK, WgCounts, NEW i \in Instances, InstanceStep(i)
  PROVE  WgCounts'
<1> SUFFICES ASSUME NEW j \in Instances PROVE Counted(j)'
    BY DEF WgCounts
<1> USE DEF TypeOK
<1>1. Counted(i) /\ Counted(j) /\ Running(i) \subseteq Workers
    BY DEF WgCounts, Running
<1>2. Poller \in Workers /\ Consumers \subseteq Workers /\ Poller \notin Consumers
    BY PollerAssumption DEF Workers
<1>3. CASE j # i
  <2>1. ASSUME NEW w \in Running(i), Goes(i, w) \/ End(i, w)
        PROVE worker'[j] = worker[j] /\ wg'[j] = wg[j] /\ phase'[j] = phase[j] /\ open'[j] = open[j]
      BY <1>1, <1>3, <2>1 DEF Goes, Continue, End, Move
  <2>2. worker'[j] = worker[j] /\ wg'[j] = wg[j] /\ phase'[j] = phase[j] /\ open'[j] = open[j]
      BY <1>3, <2>1, StepCases
      DEF Boot, RunStatement, StatementExists, RecordVersion, Assemble, Start, Stop,
          CloseProducer, CloseDatabase, Exit, Crash, Gone, Enter, runVars
  <2> QED
      BY <1>1, <2>2, OthersKeepCount
<1>4. CASE Boot(i) /\ j = i
    BY <1>1, <1>4 DEF Boot, Enter, Counted, Running
<1>5. CASE (RunStatement(i) \/ RecordVersion(i)) /\ j = i
    BY <1>1, <1>5, OthersKeepCount DEF RunStatement, RecordVersion, runVars
<1>6. CASE (StatementExists(i) \/ Exit(i) \/ Crash(i)) /\ j = i
  <2>1. Gone(i)
      BY <1>6 DEF StatementExists, Exit, Crash
  <2>2. Running(i)' = {}
      BY <2>1 DEF Gone, Running
  <2> QED
      BY <1>6, <2>1, <2>2, FS_EmptySet DEF Gone, Enter, Counted
<1>7. CASE Assemble(i) /\ j = i
  <2>1. Running(i) = {}
      BY <1>1, <1>7 DEF Assemble, Counted, Running
  <2>2. Running(i)' = {Poller}
      BY <1>1, <1>2, <1>7 DEF Assemble, Counted, Running
  <2>3. Cardinality({}) = 0 /\ Cardinality({Poller}) = 1
      BY FS_EmptySet, FS_Singleton
  <2>4. wg'[i] = wg[i] + 1 /\ wg[i] = Cardinality(Running(i))
      BY <1>1, <1>7 DEF Assemble, Counted
  <2>5. wg'[i] = Cardinality(Running(i)')
      BY <2>1, <2>2, <2>3, <2>4
  <2> QED
      BY <1>1, <1>2, <1>7, <2>5 DEF Assemble, Enter, Counted
<1>8. CASE Start(i) /\ j = i
  <2>1. Running(i)' = Running(i) \cup Consumers /\ Running(i) \cap Consumers = {}
      BY <1>1, <1>2, <1>8 DEF Start, Counted, Running
  <2>2. IsFiniteSet(Running(i)) /\ IsFiniteSet(Consumers)
      BY <1>1, <1>2, WorkersFinite
  <2>3. Cardinality(Running(i) \cup Consumers)
          = Cardinality(Running(i)) + Cardinality(Consumers) - Cardinality(Running(i) \cap Consumers)
      BY <2>2, FS_Union
  <2>4. /\ Cardinality(Running(i) \cap Consumers) = 0
        /\ Cardinality(Running(i)) \in Nat /\ Cardinality(Consumers) \in Nat
      BY <2>1, <2>2, FS_EmptySet, FS_CardinalityType
  <2>5. wg'[i] = wg[i] + Cardinality(Consumers) /\ wg[i] = Cardinality(Running(i))
      BY <1>1, <1>8 DEF Start, Counted
  <2>6. Cardinality(Running(i) \cup Consumers) = Cardinality(Running(i)) + Cardinality(Consumers)
      BY <2>3, <2>4
  <2>7. wg'[i] = Cardinality(Running(i)')
      BY <2>1, <2>5, <2>6
  <2> QED
      BY <1>1, <1>8, <2>7 DEF Start, Enter, Counted
<1>9. CASE Stop(i) /\ j = i
    BY <1>1, <1>9 DEF Stop, Enter, Counted, Running
<1>10. CASE CloseProducer(i) /\ j = i
  <2>1. Running(i) = {}
      BY <1>1, <1>10, WorkersFinite, FS_EmptySet DEF CloseProducer, Counted
  <2> QED
      BY <1>1, <1>10, <2>1 DEF CloseProducer, Enter, Counted, Running
<1>11. CASE CloseDatabase(i) /\ j = i
    BY <1>1, <1>11 DEF CloseDatabase, Enter, Counted, Running
<1>12. ASSUME NEW w \in Running(i), Goes(i, w), j = i PROVE Counted(j)'
  <2>1. Running(i)' = Running(i)
      BY <1>1, <1>12 DEF Goes, Continue, Move, Running
  <2>2. phase[i] \notin {"down", "migrate"} /\ (phase[i] = "assembled" => w \notin Consumers)
      BY <1>1, <1>12 DEF Counted, Running
  <2> QED
      BY <1>1, <1>12, <2>1, <2>2 DEF Goes, Continue, Move, Counted
<1>13. ASSUME NEW w \in Running(i), End(i, w), j = i PROVE Counted(j)'
  <2>1. Running(i)' = Running(i) \ {w}
      BY <1>1, <1>13 DEF End, Move, Running
  <2>2. phase[i] \notin {"down", "migrate"} /\ (phase[i] = "assembled" => w \notin Consumers)
      BY <1>1, <1>13 DEF Counted, Running
  <2>3. Cardinality(Running(i) \ {w}) = Cardinality(Running(i)) - 1
      BY <1>1, WorkersFinite, FS_RemoveElement
  <2>4. wg'[i] = Cardinality(Running(i)')
      BY <1>1, <1>13, <2>1, <2>3 DEF End, Counted
  <2> QED
      BY <1>1, <1>13, <2>1, <2>2, <2>4 DEF End, Move, Counted
<1> QED
    BY <1>3, <1>4, <1>5, <1>6, <1>7, <1>8, <1>9, <1>10, <1>11, <1>12, <1>13, StepCases

-----------------------------------------------------------------------------
(* Types *)

\* A statement that runs is one of the migration it belongs to.
LEMMA NextChangeTyped ==
  ASSUME TypeOK, NEW i \in Instances, Migrating(i), step[i] < Statements[Current(i)]
  PROVE  NextChange(i) \in Changes(Current(i)) /\ Current(i) \in Versions
<1>1. Current(i) \in Versions /\ step[i] \in Nat /\ Statements[Current(i)] \in Nat
    BY CurrentIsMissing, VersionsAreNumbers DEF TypeOK
<1> QED
    BY <1>1 DEF NextChange, Changes

\* Every step keeps the types; that the WaitGroup's counter stays within its
\* bounds, and so never becomes negative, rests on what it counts.
LEMMA Typing ==
  ASSUME TypeOK, WgCounts', NEW i \in Instances, InstanceStep(i)
  PROVE  TypeOK'
<1> USE DEF TypeOK
<1>1. wg' \in [Instances -> 0..Cardinality(Workers)]
  <2>1. wg' = [j \in Instances |-> wg'[j]]
    <3>1. ASSUME NEW w \in Running(i), Goes(i, w) \/ End(i, w)
          PROVE wg' = [j \in Instances |-> wg'[j]]
        BY <3>1 DEF Goes, Continue, End
    <3> QED
        BY <3>1, StepCases
        DEF Boot, RunStatement, StatementExists, RecordVersion, Assemble, Start, Stop,
            CloseProducer, CloseDatabase, Exit, Crash, Gone, runVars
  <2>2. ASSUME NEW j \in Instances PROVE wg'[j] \in 0..Cardinality(Workers)
    <3>1. wg'[j] = Cardinality(Running(j)')
        BY DEF WgCounts, Counted
    <3>2. Running(j)' \in SUBSET Workers
        BY DEF Running
    <3> QED
        BY <3>1, <3>2, WorkersFinite
  <2> QED
      BY <2>1, <2>2
<1>2. Poller \in Workers /\ Consumers \subseteq Workers
    BY DEF Workers
<1>3. CASE Boot(i)
    BY <1>1, <1>3, LifecycleBoundsAssumption DEF Boot, Enter, schemaVars
<1>4. CASE RunStatement(i)
    BY <1>1, <1>4, NextChangeTyped DEF RunStatement, runVars
<1>5. CASE RecordVersion(i)
    BY <1>1, <1>5, CurrentIsMissing DEF RecordVersion, runVars
<1>6. CASE StatementExists(i) \/ Exit(i)
  <2>1. Gone(i) /\ UNCHANGED <<schema, recorded, boots, crashes>>
      BY <1>6 DEF StatementExists, Exit, schemaVars
  <2> QED
      BY <1>1, <2>1 DEF Gone, Enter
<1>7. CASE Crash(i)
    BY <1>1, <1>7, LifecycleBoundsAssumption DEF Crash, Gone, Enter, schemaVars
<1>8. CASE Assemble(i)
    BY <1>1, <1>2, <1>8 DEF Assemble, Enter, schemaVars, upVars
<1>9. CASE Start(i)
    BY <1>1, <1>2, <1>9 DEF Start, Enter, schemaVars, upVars
<1>10. CASE Stop(i)
    BY <1>10 DEF Stop, Enter, schemaVars, upVars
<1>11. CASE CloseProducer(i) \/ CloseDatabase(i)
    BY <1>11 DEF CloseProducer, CloseDatabase, Enter, schemaVars, upVars
<1>12. ASSUME NEW w \in Running(i), Goes(i, w) \/ End(i, w) PROVE TypeOK'
  <2>1. w \in Workers
      BY DEF Running
  <2>2. CASE Goes(i, w)
      BY <2>1, <2>2 DEF Goes, Continue, Move, schemaVars, upVars
  <2>3. CASE End(i, w)
      BY <1>1, <2>1, <2>3 DEF End, Move, schemaVars, upVars
  <2> QED
      BY <1>12, <2>2, <2>3
<1> QED
    BY <1>3, <1>4, <1>5, <1>6, <1>7, <1>8, <1>9, <1>10, <1>11, <1>12, StepCases

-----------------------------------------------------------------------------
(* The migrations *)

MigrationInv == UpToDate /\ SchemaInOrder /\ Owned /\ StrandedByCrashOnly

\* Steps that change neither the schema nor what an instance has to do for it.
LEMMA ElsewhereKeeps ==
  ASSUME MigrationInv,
         UNCHANGED <<schema, recorded, todo, step, crashes>>,
         \A j \in Instances :
           \/ phase'[j] = phase[j]
           \/ phase[j] \notin {"down", "migrate"} /\ phase'[j] \notin {"down", "migrate"}
  PROVE  MigrationInv'
<1>1. \A j \in Instances : (Migrating(j)' <=> Migrating(j)) /\ Current(j)' = Current(j)
    BY DEF Migrating, Current
<1>2. UpToDate'
    BY <1>1 DEF MigrationInv, UpToDate
<1>3. SchemaInOrder'
    BY DEF MigrationInv, SchemaInOrder
<1>4. Owned'
    BY <1>1 DEF MigrationInv, Owned
<1>5. StrandedByCrashOnly'
    BY <1>1 DEF MigrationInv, StrandedByCrashOnly, Stranded
<1> QED
    BY <1>2, <1>3, <1>4, <1>5 DEF MigrationInv

\* A process that ends while it has no statements of its own in effect, or by
\* a crash, leaves the migrations as they have to be.
LEMMA EndKeeps ==
  ASSUME TypeOK, MigrationInv, NEW i \in Instances, Gone(i),
         UNCHANGED <<schema, recorded>>,
         \/ crashes' > 0
         \/ crashes' = crashes /\ step[i] = 0
  PROVE  MigrationInv'
<1> USE DEF TypeOK
<1>1. /\ phase'[i] = "down" /\ todo'[i] = {} /\ step'[i] = 0 /\ ~Migrating(i)'
      /\ \A j \in Instances \ {i} :
           /\ phase'[j] = phase[j] /\ step'[j] = step[j] /\ todo'[j] = todo[j]
           /\ (Migrating(j)' <=> Migrating(j)) /\ Current(j)' = Current(j)
    BY DEF Gone, Enter, Migrating, Current
<1>2. UpToDate'
    BY <1>1 DEF MigrationInv, UpToDate
<1>3. SchemaInOrder'
    BY DEF MigrationInv, SchemaInOrder
<1>4. Owned'
    BY <1>1 DEF MigrationInv, Owned
<1>5. StrandedByCrashOnly'
  <2>1. CASE crashes' > 0
      BY <2>1 DEF StrandedByCrashOnly
  <2>2. CASE crashes' = crashes /\ step[i] = 0
    <3>1. ASSUME NEW v \in Versions, Stranded(v)' PROVE Stranded(v)
        BY <1>1, <2>2, <3>1 DEF Stranded, Changes
    <3> QED
        BY <2>2, <3>1 DEF MigrationInv, StrandedByCrashOnly
  <2> QED
      BY <2>1, <2>2
<1> QED
    BY <1>2, <1>3, <1>4, <1>5 DEF MigrationInv

\* A statement takes effect: either the first of a version nobody has begun,
\* or the next of the version the instance owns.
LEMMA StatementKeeps ==
  ASSUME TypeOK, MigrationInv, NEW i \in Instances, RunStatement(i)
  PROVE  MigrationInv'
<1> DEFINE v == Current(i)
           n == step[i] + 1
<1>1. v \in Versions /\ step[i] \in Nat /\ Statements[v] \in Nat /\ n <= Statements[v]
  <2>1. Migrating(i) /\ step[i] < Statements[v] /\ step[i] \in Nat
      BY DEF RunStatement, TypeOK
  <2>2. v \in Versions
      BY <2>1, CurrentIsMissing
  <2>3. Statements[v] \in Nat
      BY <2>2, VersionsAreNumbers
  <2> QED
      BY <2>1, <2>2, <2>3
<1>2. Migrating(i) /\ <<v, n>> \notin schema /\ schema' = schema \cup {<<v, n>>}
    BY DEF RunStatement, NextChange
<1>3. \A j \in Instances : (Migrating(j)' <=> Migrating(j)) /\ Current(j)' = Current(j)
    BY DEF RunStatement, Migrating, Current
<1>4. step'[i] = n /\ \A j \in Instances \ {i} : step'[j] = step[j]
    BY DEF RunStatement, TypeOK
<1>5. UNCHANGED <<recorded, phase, todo, crashes>>
    BY DEF RunStatement
<1>6. \A k \in Nat \ {0} : <<v, k>> \in schema <=> k <= step[i]
  <2>1. CASE step[i] = 0
    <3>1. \A k \in Nat : <<v, k>> \notin schema
        BY <1>1, <1>2, <2>1 DEF MigrationInv, SchemaInOrder
    <3> QED
        BY <2>1, <3>1
  <2>2. CASE step[i] > 0
      BY <1>2, <2>2 DEF MigrationInv, Owned
  <2> QED
      BY <1>1, <2>1, <2>2
<1>7. \A j \in Instances \ {i} : ~ (Migrating(j) /\ Current(j) = v /\ step[j] > 0)
  <2> SUFFICES ASSUME NEW j \in Instances \ {i}, Migrating(j), Current(j) = v, step[j] > 0
               PROVE FALSE
      OBVIOUS
  <2>1. step[j] \in Nat /\ <<v, 1>> \in schema
      BY DEF MigrationInv, Owned, TypeOK
  <2>2. step[i] > 0
      BY <1>1, <1>6, <2>1
  <2> QED
      BY <1>2, <2>2 DEF MigrationInv, Owned
<1> HIDE DEF v, n
<1>8. UpToDate'
    BY <1>1, <1>2, <1>3, <1>4, <1>5 DEF MigrationInv, UpToDate, v, TypeOK
<1>9. SchemaInOrder'
  <2>1. \A u \in recorded' : Changes(u) \subseteq schema'
      BY <1>2, <1>5 DEF MigrationInv, SchemaInOrder, Changes
  <2>2. <<v, 1>> \in schema'
    <3>1. CASE step[i] = 0
        BY <1>2, <3>1 DEF n
    <3>2. CASE step[i] > 0
        BY <1>1, <1>2, <1>6, <3>2
    <3> QED
        BY <1>1, <3>1, <3>2
  <2>3. \A u \in Versions : \A k \in Nat : <<u, k>> \in schema' => <<u, 1>> \in schema'
      BY <1>2, <2>2 DEF MigrationInv, SchemaInOrder
  <2> QED
      BY <2>1, <2>3 DEF SchemaInOrder
<1>10. Owned'
  <2> SUFFICES ASSUME NEW j \in Instances, Migrating(j), step'[j] > 0
               PROVE  /\ \A k \in Nat \ {0} : <<Current(j), k>> \in schema' <=> k <= step'[j]
                      /\ \A l \in Instances :
                           Migrating(l) /\ Current(l) = Current(j) /\ step'[l] > 0 => l = j
      BY <1>3 DEF Owned
  <2>1. CASE j = i
    <3>1. \A k \in Nat \ {0} : <<v, k>> \in schema' <=> k <= n
        BY <1>1, <1>2, <1>6 DEF n
    <3> QED
        BY <1>4, <1>7, <2>1, <3>1 DEF v
  <2>2. CASE j # i
    <3>1. Current(j) # v /\ step'[j] = step[j]
        BY <1>4, <1>7, <2>2
    <3>2. \A k \in Nat \ {0} : <<Current(j), k>> \in schema' <=> k <= step'[j]
        BY <1>2, <3>1 DEF MigrationInv, Owned
    <3>3. \A l \in Instances :
            Migrating(l) /\ Current(l) = Current(j) /\ step'[l] > 0 => l = j
        BY <1>4, <3>1 DEF MigrationInv, Owned, v
    <3> QED
        BY <3>2, <3>3
  <2> QED
      BY <2>1, <2>2
<1>11. StrandedByCrashOnly'
  <2>1. ASSUME NEW u \in Versions, Stranded(u)' PROVE Stranded(u)
    <3>1. u # v
        BY <1>1, <1>2, <1>3, <1>4, <2>1 DEF Stranded, v, n
    <3>2. Changes(u) \cap schema' = Changes(u) \cap schema
        BY <1>2, <3>1 DEF Changes
    <3>3. ASSUME NEW j \in Instances, Migrating(j), Current(j) = u PROVE step[j] = 0
        BY <1>3, <1>4, <2>1, <3>1, <3>3 DEF Stranded, v
    <3> QED
        BY <1>5, <2>1, <3>2, <3>3 DEF Stranded, Changes
  <2> QED
      BY <1>5, <2>1 DEF MigrationInv, StrandedByCrashOnly
<1> QED
    BY <1>8, <1>9, <1>10, <1>11 DEF MigrationInv

\* The version an instance owns has all its statements and is recorded.
LEMMA RecordKeeps ==
  ASSUME TypeOK, TypeOK', MigrationInv, NEW i \in Instances, RecordVersion(i)
  PROVE  MigrationInv'
<1> DEFINE v == Current(i)
<1>1. Migrating(i) /\ v \in todo[i] /\ v \in Versions
    BY CurrentIsMissing DEF RecordVersion
<1>2. step[i] = Statements[v] /\ step[i] \in Nat /\ step[i] > 0
    BY <1>1, VersionsAreNumbers DEF RecordVersion
<1>3. UNCHANGED <<schema, phase, crashes>> /\ recorded' = recorded \cup {v}
    BY DEF RecordVersion
<1>4. todo'[i] = todo[i] \ {v} /\ step'[i] = 0
    BY DEF RecordVersion, TypeOK
<1>5. \A j \in Instances \ {i} :
        /\ todo'[j] = todo[j] /\ step'[j] = step[j]
        /\ (Migrating(j)' <=> Migrating(j)) /\ Current(j)' = Current(j)
    BY DEF RecordVersion, Migrating, Current, TypeOK
<1>6. Changes(v) \subseteq schema
    BY <1>1, <1>2 DEF MigrationInv, Owned, Changes
<1> HIDE DEF v
<1>7. UpToDate'
  <2> SUFFICES ASSUME NEW j \in Instances
               PROVE  /\ phase'[j] # "migrate" => todo'[j] = {}
                      /\ phase'[j] = "migrate" => Versions \subseteq recorded' \cup todo'[j]
                      /\ phase'[j] \notin {"down", "migrate"} => recorded' = Versions
                      /\ ~Migrating(j)' => step'[j] = 0
                      /\ Migrating(j)' => step'[j] <= Statements[Current(j)']
      BY DEF UpToDate
  <2>1. CASE j = i
    <3>1. phase'[i] = "migrate" /\ Versions \subseteq recorded \cup todo[i]
        BY <1>1, <1>3 DEF MigrationInv, UpToDate, Migrating
    <3>2. ASSUME Migrating(i)' PROVE 0 <= Statements[Current(i)']
      <4>1. Current(i)' \in Versions
          BY <3>2, SmallestVersion DEF TypeOK, Migrating, Current
      <4>2. Statements[Current(i)'] \in Nat
          BY <4>1, VersionsAreNumbers
      <4> QED
          BY <4>2
    <3> QED
        BY <1>3, <1>4, <2>1, <3>1, <3>2
  <2>2. CASE j # i
      BY <1>1, <1>3, <1>5, <2>2 DEF MigrationInv, UpToDate
  <2> QED
      BY <2>1, <2>2
<1>8. SchemaInOrder'
    BY <1>3, <1>6 DEF MigrationInv, SchemaInOrder, Changes
<1>9. Owned'
    BY <1>3, <1>4, <1>5 DEF MigrationInv, Owned
<1>10. StrandedByCrashOnly'
  <2>1. ASSUME NEW u \in Versions, Stranded(u)' PROVE Stranded(u)
    <3>1. u # v /\ u \notin recorded /\ Changes(u) \cap schema # {}
        BY <1>3, <2>1 DEF Stranded, Changes
    <3>2. ASSUME NEW j \in Instances, Migrating(j), Current(j) = u PROVE step[j] = 0
        BY <1>5, <2>1, <3>1, <3>2 DEF Stranded, v
    <3> QED
        BY <3>1, <3>2 DEF Stranded
  <2> QED
      BY <1>3, <2>1 DEF MigrationInv, StrandedByCrashOnly
<1> QED
    BY <1>7, <1>8, <1>9, <1>10 DEF MigrationInv

\* A process that starts has everything before it that is not recorded.
LEMMA BootKeeps ==
  ASSUME TypeOK, TypeOK', MigrationInv, NEW i \in Instances, Boot(i)
  PROVE  MigrationInv'
<1>1. phase[i] = "down" /\ ~Migrating(i) /\ step[i] = 0
    BY DEF Boot, Migrating, MigrationInv, UpToDate
<1>2. UNCHANGED <<schema, recorded, step, crashes>>
    BY DEF Boot, schemaVars
<1>3. phase'[i] = "migrate" /\ todo'[i] = Versions \ recorded
    BY DEF Boot, Enter, TypeOK
<1>4. \A j \in Instances \ {i} :
        /\ phase'[j] = phase[j] /\ todo'[j] = todo[j]
        /\ (Migrating(j)' <=> Migrating(j)) /\ Current(j)' = Current(j)
    BY DEF Boot, Enter, Migrating, Current, TypeOK
<1>5. UpToDate'
  <2>1. ASSUME Migrating(i)' PROVE 0 <= Statements[Current(i)']
    <3>1. Current(i)' \in Versions
        BY <2>1, SmallestVersion DEF TypeOK, Migrating, Current
    <3>2. Statements[Current(i)'] \in Nat
        BY <3>1, VersionsAreNumbers
    <3> QED
        BY <3>2
  <2> QED
      BY <1>1, <1>2, <1>3, <1>4, <2>1 DEF MigrationInv, UpToDate
<1>6. SchemaInOrder'
    BY <1>2 DEF MigrationInv, SchemaInOrder
<1>7. Owned'
    BY <1>1, <1>2, <1>4 DEF MigrationInv, Owned
<1>8. StrandedByCrashOnly'
  <2>1. ASSUME NEW u \in Versions, Stranded(u)' PROVE Stranded(u)
      BY <1>1, <1>2, <1>4, <2>1 DEF Stranded, Changes
  <2> QED
      BY <1>2, <2>1 DEF MigrationInv, StrandedByCrashOnly
<1> QED
    BY <1>5, <1>6, <1>7, <1>8 DEF MigrationInv

\* The migrations stay in order through every step of an instance.
LEMMA MigrationStep ==
  ASSUME TypeOK, TypeOK', MigrationInv, NEW i \in Instances, InstanceStep(i)
  PROVE  MigrationInv'
<1>1. UpToDate /\ Owned
    BY DEF MigrationInv
<1>2. CASE StatementExists(i)
  <2>1. Gone(i) /\ UNCHANGED <<schema, recorded, crashes>> /\ Migrating(i)
      BY <1>2 DEF StatementExists, schemaVars
  <2>2. step[i] = 0
    <3> SUFFICES ASSUME step[i] # 0 PROVE FALSE
        OBVIOUS
    <3>1. step[i] \in Nat /\ step[i] > 0 /\ <<Current(i), step[i] + 1>> \in schema
        BY <1>2 DEF StatementExists, NextChange, TypeOK
    <3> QED
        BY <1>1, <2>1, <3>1 DEF Owned
  <2> QED
      BY <2>1, <2>2, EndKeeps
<1>3. CASE Exit(i)
  <2>1. step[i] = 0
      BY <1>1, <1>3 DEF Exit, UpToDate, Migrating
  <2> QED
      BY <1>3, <2>1, EndKeeps DEF Exit, schemaVars
<1>4. CASE Crash(i)
  <2>1. crashes' > 0
      BY <1>4 DEF Crash, TypeOK
  <2> QED
      BY <1>4, <2>1, EndKeeps DEF Crash, schemaVars
<1>5. CASE Assemble(i)
  <2>1. recorded = Versions /\ step[i] = 0 /\ ~Migrating(i)
      BY <1>1, <1>5 DEF Assemble, UpToDate, Migrating, TypeOK
  <2>2. UNCHANGED <<schema, recorded, todo, step, crashes>>
      BY <1>5 DEF Assemble, schemaVars, upVars
  <2>3. phase' = [phase EXCEPT ![i] = "assembled"] /\ todo[i] = {}
      BY <1>5 DEF Assemble, Enter
  <2>4. \A j \in Instances : (Migrating(j)' <=> Migrating(j)) /\ Current(j)' = Current(j)
      BY <2>1, <2>2, <2>3 DEF Migrating, Current, TypeOK
  <2>5. UpToDate'
      BY <1>1, <2>1, <2>2, <2>3, <2>4 DEF UpToDate, TypeOK
  <2>6. SchemaInOrder' /\ Owned' /\ StrandedByCrashOnly'
      BY <2>2, <2>4 DEF MigrationInv, SchemaInOrder, Owned, StrandedByCrashOnly, Stranded
  <2> QED
      BY <2>5, <2>6 DEF MigrationInv
<1>6. CASE Start(i)
    BY <1>6, ElsewhereKeeps DEF Start, Enter, schemaVars, upVars, TypeOK
<1>7. CASE Stop(i)
    BY <1>7, ElsewhereKeeps DEF Stop, Enter, schemaVars, upVars, TypeOK
<1>8. CASE CloseProducer(i) \/ CloseDatabase(i)
    BY <1>8, ElsewhereKeeps DEF CloseProducer, CloseDatabase, Enter, schemaVars, upVars, TypeOK
<1>9. ASSUME NEW w \in Running(i), Goes(i, w) \/ End(i, w) PROVE MigrationInv'
    BY <1>9, ElsewhereKeeps DEF Goes, Continue, End, schemaVars, upVars
<1> QED
    BY <1>2, <1>3, <1>4, <1>5, <1>6, <1>7, <1>8, <1>9,
       BootKeeps, StatementKeeps, RecordKeeps, StepCases

-----------------------------------------------------------------------------
(* The theorems *)

\* No process runs and nothing is migrated at the start.
LEMMA InitInv == Init => LifecycleInv
<1> SUFFICES ASSUME Init PROVE LifecycleInv
    OBVIOUS
<1>1. Cardinality(Workers) \in Nat /\ Cardinality({}) = 0
    BY WorkersFinite, FS_CardinalityType, FS_EmptySet
<1>2. TypeOK
    BY <1>1, LifecycleBoundsAssumption DEF Init, TypeOK
<1>3. \A i \in Instances : Running(i) = {} /\ ~Migrating(i)
    BY DEF Init, Running, Migrating
<1>4. WgCounts
    BY <1>1, <1>3 DEF Init, WgCounts, Counted
<1>5. UpToDate /\ SchemaInOrder /\ Owned /\ StrandedByCrashOnly
    BY <1>3 DEF Init, UpToDate, SchemaInOrder, Owned, StrandedByCrashOnly, Stranded
<1> QED
    BY <1>2, <1>4, <1>5 DEF LifecycleInv

\* The inductive invariant.
THEOREM LifecycleInvariant == Spec => []LifecycleInv
<1>1. LifecycleInv /\ [Next]_vars => LifecycleInv'
  <2> SUFFICES ASSUME LifecycleInv, [Next]_vars PROVE LifecycleInv'
      OBVIOUS
  <2>1. TypeOK /\ WgCounts /\ MigrationInv
      BY DEF LifecycleInv, MigrationInv
  <2>2. ASSUME NEW i \in Instances, InstanceStep(i) PROVE LifecycleInv'
    <3>1. WgCounts'
        BY <2>1, <2>2, CountStep
    <3>2. TypeOK'
        BY <2>1, <2>2, <3>1, Typing
    <3>3. MigrationInv'
        BY <2>1, <2>2, <3>2, MigrationStep
    <3> QED
        BY <3>1, <3>2, <3>3 DEF LifecycleInv, MigrationInv
  <2>3. CASE UNCHANGED vars
    <3>1. UNCHANGED <<schema, recorded, phase, todo, step, cancelled, wg, worker, open,
                      boots, crashes>>
        BY <2>3 DEF vars, schemaVars, upVars, runVars
    <3>2. TypeOK'
        BY <2>1, <3>1 DEF TypeOK
    <3>3. WgCounts'
        BY <2>1, <3>1, OthersKeepCount DEF WgCounts
    <3>4. MigrationInv'
        BY <2>1, <3>1, ElsewhereKeeps
    <3> QED
        BY <3>2, <3>3, <3>4 DEF LifecycleInv, MigrationInv
  <2> QED
      BY <2>2, <2>3 DEF Next
<1> QED
    BY <1>1, InitInv, PTL DEF Spec

\* Types; the WaitGroup's counter never goes below zero, which would panic.
THEOREM LifecycleTypes == Spec => []TypeOK
BY LifecycleInvariant, PTL DEF LifecycleInv

\* Stop waits for the goroutines and only then is anything closed: no tick
\* finds the producer or the database closed, no handler the database.
THEOREM ClosedAfterUse == Spec => []NoUseAfterClose
<1>1. ASSUME TypeOK, WgCounts PROVE NoUseAfterClose
  <2> SUFFICES ASSUME NEW i \in Instances, NEW w \in Workers, worker[i][w] = "busy"
               PROVE open[i] = {"db", "producer"}
      BY DEF NoUseAfterClose, Workers
  <2>1. w \in Running(i) /\ Counted(i)
      BY <1>1 DEF Running, WgCounts
  <2>2. phase[i] \in {"assembled", "serving", "stopping"}
      BY <1>1, <2>1 DEF Counted, TypeOK
  <2> QED
      BY <2>1, <2>2 DEF Counted
<1>2. LifecycleInv => NoUseAfterClose
    BY <1>1 DEF LifecycleInv
<1> QED
    BY <1>2, LifecycleInvariant, PTL

\* Migrate returns without an error only when every version is recorded, and
\* a recorded version is complete: what runs has its whole schema.
THEOREM SchemaComplete == Spec => []RunningHasSchema
<1>1. LifecycleInv => RunningHasSchema
    BY DEF LifecycleInv, UpToDate, SchemaInOrder, RunningHasSchema
<1> QED
    BY <1>1, LifecycleInvariant, PTL

\* Without a lock, but without a crash too, no migration is left half done,
\* however many instances start together.
THEOREM HalfDoneByCrashOnly == Spec => []StrandedByCrashOnly
BY LifecycleInvariant, PTL DEF LifecycleInv

=============================================================================
