--------------------------- MODULE OrderApiProofs ---------------------------
(***************************************************************************)
(* Proofs about the HTTP side of order-api, OrderGate, OrderPlacement and  *)
(* OrderList, for any requests, attempts, instances and faults, orders and *)
(* page sizes. The gate by itself lets through one order and at            *)
(* most one more for every expiry, failed SetNX, repeated Del and lost     *)
(* commit. With the validation in front of it there is no order without    *)
(* its user, a user once known is never denied, and what OrderGate         *)
(* promises holds however the calls of ValidateUser turn out. The walk     *)
(* through the pages of GET /orders shares nothing with the two but this   *)
(* module: it misses only what raced with the SELECT of its last page.     *)
(***************************************************************************)
EXTENDS OrderPlacement, OrderList, FiniteSetTheorems, WellFoundedInduction, TLAPS

-----------------------------------------------------------------------------
(* The gate *)

\* The gate holds, and a request is about to store, only committed orders.
StoredIsOrder ==
  /\ gate \in Requests => gate \in orders
  /\ \A r \in Requests : pc[r] = "store" => r \in orders

IInv == TypeOK /\ Permits /\ StoredIsOrder /\ AnswersAreOrders

-----------------------------------------------------------------------------
\* A sum of three natural numbers is one.
LEMMA SumIsNat ==
  ASSUME NEW a \in Nat, NEW b \in Nat, NEW c \in Nat
  PROVE  a + b + c \in Nat
  OBVIOUS

\* Sets of requests are finite: their cardinalities are natural numbers.
LEMMA RequestSetsFinite ==
  ASSUME NEW S \in SUBSET Requests
  PROVE  IsFiniteSet(S) /\ Cardinality(S) \in Nat
  BY RequestsAssumption, FS_Subset, FS_CardinalityType

\* What moving a request does to the number of holders.
LEMMA HoldersAfterGoto ==
  ASSUME TypeOK, NEW r \in Requests, NEW label, Goto(r, label)
  PROVE  /\ Cardinality(Holders) \in Nat
         /\ Cardinality(Holders') \in Nat
         /\ label \in {"validate", "create", "release"} =>
              Cardinality(Holders') =
                IF r \in Holders THEN Cardinality(Holders) ELSE Cardinality(Holders) + 1
         /\ label \notin {"validate", "create", "release"} =>
              Cardinality(Holders') =
                IF r \in Holders THEN Cardinality(Holders) - 1 ELSE Cardinality(Holders)
<1>1. Holders \in SUBSET Requests /\ Holders' \in SUBSET Requests
  BY DEF Holders
<1>2. IsFiniteSet(Holders) /\ Cardinality(Holders) \in Nat /\ Cardinality(Holders') \in Nat
  BY <1>1, RequestSetsFinite
<1>3. CASE label \in {"validate", "create", "release"}
  <2>1. Holders' = Holders \cup {r}
    BY <1>3 DEF Holders, Goto, TypeOK
  <2> QED
    BY <1>2, <1>3, <2>1, FS_AddElement
<1>4. CASE label \notin {"validate", "create", "release"}
  <2>1. Holders' = Holders \ {r}
    BY <1>4 DEF Holders, Goto, TypeOK
  <2> QED
    BY <1>2, <1>4, <2>1, FS_RemoveElement
<1> QED
  BY <1>2, <1>3, <1>4

\* Committing one more order adds at most one.
LEMMA OrdersAfterCommit ==
  ASSUME TypeOK, NEW r \in Requests, orders' = orders \cup {r}
  PROVE  /\ Cardinality(orders) \in Nat
         /\ Cardinality(orders') \in Nat
         /\ Cardinality(orders') <= Cardinality(orders) + 1
<1>1. IsFiniteSet(orders) /\ Cardinality(orders) \in Nat
  BY RequestSetsFinite DEF TypeOK
<1> QED
  BY <1>1, FS_AddElement

-----------------------------------------------------------------------------
\* The initial state: no order, no holder, an open gate.
LEMMA InitInv == Init => IInv
<1> SUFFICES ASSUME Init PROVE IInv
  OBVIOUS
<1>1. TypeOK
  BY BoundsAssumption DEF Init, TypeOK, Errors
<1>2. Holders = {} /\ orders = {}
  BY DEF Init, Holders
<1>3. Permits
  BY <1>2, FS_EmptySet DEF Init, Permits, Leaks
<1>4. StoredIsOrder /\ AnswersAreOrders
  BY GateAssumption, ErrorsAssumption DEF Init, StoredIsOrder, AnswersAreOrders
<1> QED
  BY <1>1, <1>3, <1>4 DEF IInv

\* Every step keeps the types.
LEMMA NextTypeOK == TypeOK /\ [Next]_vars => TypeOK'
<1> SUFFICES ASSUME TypeOK, [Next]_vars PROVE TypeOK'
  OBVIOUS
<1> USE DEF TypeOK, Goto, Answer, Errors
<1>1. ASSUME NEW r \in Requests, RequestStep(r) PROVE TypeOK'
  <2>1. CASE Claim(r) \/ ClaimTaken(r) \/ ClaimRepeated(r)
    BY <2>1 DEF Claim, ClaimTaken, ClaimRepeated, AfterSetNX
  <2>2. CASE ClaimFails(r)
    BY <2>2, BoundsAssumption DEF ClaimFails, RedisFault, AfterSetNX
  <2>3. CASE Replay(r) \/ ReplayFails(r)
    BY <2>3 DEF Replay, ReplayFails
  <2>4. CASE Validate(r)
    BY <2>4 DEF Validate, CreateError
  <2>5. CASE Create(r) \/ CreateFails(r)
    BY <2>5 DEF Create, CreateFails, CreateError
  <2>6. CASE CreateUnheard(r)
    BY <2>6, BoundsAssumption DEF CreateUnheard, CreateError
  <2>7. CASE Store(r) \/ Release(r) \/ StoreOrReleaseFails(r)
    BY <2>7 DEF Store, Release, StoreOrReleaseFails
  <2>8. CASE ReleaseRepeated(r)
    BY <2>8, BoundsAssumption DEF ReleaseRepeated, RedisFault
  <2> QED
    BY <1>1, <2>1, <2>2, <2>3, <2>4, <2>5, <2>6, <2>7, <2>8 DEF RequestStep
<1>2. ASSUME NEW r \in Requests, Crash(r) PROVE TypeOK'
  BY <1>2 DEF Crash
<1>3. CASE Expire
  BY <1>3, BoundsAssumption DEF Expire
<1>4. CASE UNCHANGED vars
  BY <1>4 DEF vars
<1> QED
  BY <1>1, <1>2, <1>3, <1>4 DEF Next

\* Every step keeps the account of permits.
LEMMA NextPermits == TypeOK /\ TypeOK' /\ Permits /\ [Next]_vars => Permits'
<1> SUFFICES ASSUME TypeOK, TypeOK', Permits, [Next]_vars PROVE Permits'
  OBVIOUS
<1> DEFINE n == Cardinality(orders)
           h == Cardinality(Holders)
           open == IF gate = Absent THEN 1 ELSE 0
<1>1. n \in Nat /\ h \in Nat /\ n' \in Nat /\ h' \in Nat
  BY RequestSetsFinite DEF TypeOK, Holders
<1>2. Leaks \in Nat /\ Leaks' \in Nat
  <2>1. expiries \in Nat /\ redisFaults \in Nat /\ lostCommits \in Nat
    BY BoundsAssumption DEF TypeOK
  <2>2. expiries' \in Nat /\ redisFaults' \in Nat /\ lostCommits' \in Nat
    BY BoundsAssumption DEF TypeOK
  <2>3. Leaks \in Nat
    BY <2>1, SumIsNat, Zenon DEF Leaks
  <2>4. Leaks' \in Nat
    <3>1. Leaks' = expiries' + redisFaults' + lostCommits'
      BY Zenon DEF Leaks
    <3> QED
      BY <2>2, <3>1, SumIsNat, Zenon
  <2> QED
    BY <2>3, <2>4
<1>3. n + h + open <= 1 + Leaks
  BY DEF Permits
<1>4. SUFFICES n' + h' + open' <= 1 + Leaks'
  BY DEF Permits
<1>5. open \in {0, 1} /\ open' \in {0, 1}
  OBVIOUS
<1>6. ASSUME NEW r \in Requests, RequestStep(r) PROVE n' + h' + open' <= 1 + Leaks'
  <2>1. CASE Claim(r)
    <3>1. open = 1 /\ open' = 0
      BY <2>1, GateAssumption DEF Claim, AfterSetNX
    <3>2. h' <= h + 1
      BY <1>1, <2>1, HoldersAfterGoto DEF Claim
    <3>3. n' = n /\ Leaks' = Leaks
      BY <2>1 DEF Claim, Leaks
    <3> QED
      BY <1>1, <1>2, <1>3, <3>1, <3>2, <3>3
  <2>2. CASE ClaimTaken(r)
    <3>1. r \notin Holders
      BY <2>2 DEF ClaimTaken, Holders
    <3>2. h' = h
      BY <2>2, <3>1, HoldersAfterGoto DEF ClaimTaken
    <3>3. n' = n /\ Leaks' = Leaks /\ open' = open
      BY <2>2 DEF ClaimTaken, Leaks
    <3> QED
      BY <1>1, <1>2, <1>3, <3>2, <3>3
  <2>3. CASE ClaimFails(r)
    <3>1. h' <= h + 1
      BY <1>1, <2>3, HoldersAfterGoto DEF ClaimFails
    <3>2. open' <= open
      BY <2>3, GateAssumption DEF ClaimFails, AfterSetNX
    <3>3. n' = n /\ Leaks' = Leaks + 1
      BY <2>3, BoundsAssumption DEF ClaimFails, RedisFault, Leaks, TypeOK
    <3> QED
      BY <1>1, <1>2, <1>3, <1>5, <3>1, <3>2, <3>3
  <2>4. CASE ClaimRepeated(r)
    <3>1. r \notin Holders
      BY <2>4 DEF ClaimRepeated, Holders
    <3>2. h' = h
      BY <2>4, <3>1, HoldersAfterGoto DEF ClaimRepeated
    <3>3. open' <= open
      BY <2>4, GateAssumption DEF ClaimRepeated, AfterSetNX
    <3>4. n' = n /\ Leaks' = Leaks
      BY <2>4 DEF ClaimRepeated, Leaks
    <3> QED
      BY <1>1, <1>2, <1>3, <1>5, <3>2, <3>3, <3>4
  <2>5. CASE Replay(r) \/ ReplayFails(r)
    <3>1. r \notin Holders
      BY <2>5 DEF Replay, ReplayFails, Holders
    <3>2. h' = h
      BY <2>5, <3>1, HoldersAfterGoto DEF Replay, ReplayFails
    <3>3. n' = n /\ Leaks' = Leaks /\ open' = open
      BY <2>5 DEF Replay, ReplayFails, Leaks
    <3> QED
      BY <1>1, <1>2, <1>3, <3>2, <3>3
  <2>6. CASE Validate(r) \/ CreateFails(r)
    <3>1. r \in Holders
      BY <2>6 DEF Validate, CreateFails, Holders
    <3>2. PICK label : Goto(r, label)
      BY <2>6 DEF Validate, CreateFails, CreateError
    <3>3. h' <= h
      BY <1>1, <3>1, <3>2, HoldersAfterGoto
    <3>4. n' = n /\ Leaks' = Leaks /\ open' = open
      BY <2>6 DEF Validate, CreateFails, CreateError, Leaks
    <3> QED
      BY <1>1, <1>2, <1>3, <1>5, <3>3, <3>4
  <2>7. CASE Create(r)
    <3>1. r \in Holders
      BY <2>7 DEF Create, Holders
    <3>2. PICK label \in {"store", "done"} : Goto(r, label)
      BY <2>7 DEF Create
    <3>3. h' = h - 1
      BY <3>1, <3>2, HoldersAfterGoto
    <3>4. n' <= n + 1
      BY <2>7, OrdersAfterCommit DEF Create
    <3>5. Leaks' = Leaks /\ open' = open
      BY <2>7 DEF Create, Leaks
    <3> QED
      BY <1>1, <1>2, <1>3, <1>5, <3>3, <3>4, <3>5
  <2>8. CASE CreateUnheard(r)
    <3>1. r \in Holders
      BY <2>8 DEF CreateUnheard, Holders
    <3>2. PICK label : Goto(r, label)
      BY <2>8 DEF CreateUnheard, CreateError
    <3>3. h' <= h
      BY <1>1, <3>1, <3>2, HoldersAfterGoto
    <3>4. n' <= n + 1
      BY <2>8, OrdersAfterCommit DEF CreateUnheard
    <3>5. Leaks' = Leaks + 1 /\ open' = open
      BY <2>8, BoundsAssumption DEF CreateUnheard, CreateError, Leaks, TypeOK
    <3> QED
      BY <1>1, <1>2, <1>3, <1>5, <3>3, <3>4, <3>5
  <2>9. CASE Store(r)
    <3>1. r \notin Holders /\ open' = 0
      BY <2>9, GateAssumption DEF Store, Holders
    <3>2. h' = h
      BY <2>9, <3>1, HoldersAfterGoto DEF Store
    <3>3. n' = n /\ Leaks' = Leaks
      BY <2>9 DEF Store, Leaks
    <3> QED
      BY <1>1, <1>2, <1>3, <1>5, <3>1, <3>2, <3>3
  <2>10. CASE Release(r)
    <3>1. r \in Holders
      BY <2>10 DEF Release, Holders
    <3>2. h' = h - 1
      BY <2>10, <3>1, HoldersAfterGoto DEF Release
    <3>3. n' = n /\ Leaks' = Leaks
      BY <2>10 DEF Release, Leaks
    <3> QED
      BY <1>1, <1>2, <1>3, <1>5, <3>2, <3>3
  <2>11. CASE StoreOrReleaseFails(r)
    <3>1. h' <= h
      BY <1>1, <2>11, HoldersAfterGoto DEF StoreOrReleaseFails
    <3>2. n' = n /\ Leaks' = Leaks /\ open' = open
      BY <2>11 DEF StoreOrReleaseFails, Leaks
    <3> QED
      BY <1>1, <1>2, <1>3, <1>5, <3>1, <3>2
  <2>12. CASE ReleaseRepeated(r)
    <3>1. n' = n /\ h' = h /\ Leaks' = Leaks + 1
      BY <2>12, BoundsAssumption DEF ReleaseRepeated, RedisFault, Holders, Leaks, TypeOK
    <3> QED
      BY <1>1, <1>2, <1>3, <1>5, <3>1
  <2> QED
    BY <1>6, <2>1, <2>2, <2>3, <2>4, <2>5, <2>6, <2>7, <2>8, <2>9, <2>10, <2>11, <2>12
       DEF RequestStep
<1>7. ASSUME NEW r \in Requests, Crash(r) PROVE n' + h' + open' <= 1 + Leaks'
  <2>1. h' <= h
    BY <1>1, <1>7, HoldersAfterGoto DEF Crash
  <2>2. n' = n /\ Leaks' = Leaks /\ open' = open
    BY <1>7 DEF Crash, Leaks
  <2> QED
    BY <1>1, <1>2, <1>3, <1>5, <2>1, <2>2
<1>8. CASE Expire
  <2>1. n' = n /\ h' = h /\ Leaks' = Leaks + 1 /\ open = 0
    BY <1>8, BoundsAssumption DEF Expire, Holders, Leaks, TypeOK
  <2> QED
    BY <1>1, <1>2, <1>3, <1>5, <2>1
<1>9. CASE UNCHANGED vars
  <2>1. n' = n /\ h' = h /\ Leaks' = Leaks /\ open' = open
    BY <1>9 DEF vars, Holders, Leaks
  <2> QED
    BY <1>3, <2>1
<1> HIDE DEF n, h, open
<1> QED
  BY <1>6, <1>7, <1>8, <1>9 DEF Next

\* Every step stores and answers committed orders only.
LEMMA NextAnswers ==
  TypeOK /\ StoredIsOrder /\ AnswersAreOrders /\ [Next]_vars
    => StoredIsOrder' /\ AnswersAreOrders'
<1> SUFFICES ASSUME TypeOK, StoredIsOrder, AnswersAreOrders, [Next]_vars
             PROVE  StoredIsOrder' /\ AnswersAreOrders'
  OBVIOUS
<1> USE GateAssumption, ErrorsAssumption
    DEF TypeOK, StoredIsOrder, AnswersAreOrders, Goto, Answer
<1>1. ASSUME NEW r \in Requests, RequestStep(r)
      PROVE  StoredIsOrder' /\ AnswersAreOrders'
  <2>1. CASE Claim(r) \/ ClaimTaken(r) \/ ClaimRepeated(r) \/ ClaimFails(r)
    BY <2>1 DEF Claim, ClaimTaken, ClaimRepeated, ClaimFails, AfterSetNX
  <2>2. CASE Replay(r) \/ ReplayFails(r)
    BY <2>2 DEF Replay, ReplayFails
  <2>3. CASE Validate(r) \/ CreateFails(r) \/ CreateUnheard(r)
    BY <2>3 DEF Validate, CreateFails, CreateUnheard, CreateError
  <2>4. CASE Create(r)
    BY <2>4 DEF Create
  <2>5. CASE Store(r) \/ Release(r) \/ StoreOrReleaseFails(r) \/ ReleaseRepeated(r)
    BY <2>5 DEF Store, Release, StoreOrReleaseFails, ReleaseRepeated
  <2> QED
    BY <1>1, <2>1, <2>2, <2>3, <2>4, <2>5 DEF RequestStep
<1>2. ASSUME NEW r \in Requests, Crash(r) PROVE StoredIsOrder' /\ AnswersAreOrders'
  BY <1>2 DEF Crash
<1>3. CASE Expire
  BY <1>3 DEF Expire
<1>4. CASE UNCHANGED vars
  BY <1>4 DEF vars
<1> QED
  BY <1>1, <1>2, <1>3, <1>4 DEF Next

\* The inductive invariant of the gate.
THEOREM GateInvariant == Spec => []IInv
<1>1. IInv /\ [Next]_vars => IInv'
  BY NextTypeOK, NextPermits, NextAnswers DEF IInv
<1> QED
  BY InitInv, <1>1, PTL DEF Spec

\* Create makes at most one order per Idempotency-Key and leak of the gate.
THEOREM IdempotentCreate == Spec => []OrdersBounded
<1>1. IInv => OrdersBounded
  <2> SUFFICES ASSUME IInv PROVE OrdersBounded
    OBVIOUS
  <2>1. Cardinality(orders) \in Nat /\ Cardinality(Holders) \in Nat
    BY RequestSetsFinite DEF IInv, TypeOK, Holders
  <2>2. Leaks \in Nat
    <3>1. expiries \in Nat /\ redisFaults \in Nat /\ lostCommits \in Nat
      BY BoundsAssumption DEF IInv, TypeOK
    <3> QED
      BY <3>1, SumIsNat, Zenon DEF Leaks
  <2> QED
    BY <2>1, <2>2 DEF IInv, Permits, OrdersBounded
<1> QED
  BY GateInvariant, <1>1, PTL

\* Every order Create or replayOrder answers with has been committed.
THEOREM AnswersCommitted == Spec => []AnswersAreOrders
<1>1. IInv => AnswersAreOrders
  BY DEF IInv
<1> QED
  BY GateInvariant, <1>1, PTL

-----------------------------------------------------------------------------
(* The validation in front of the gate *)

\* While the user does not exist nothing vouches for it: no cache entry, no
\* load, no answer, and no request that has passed the validation.
Unvouched == ~exists =>
  /\ cache # "positive"
  /\ \A i \in Instances : flight[i] # "positive"
  /\ \A c \in Callers : answer[c] # "exists"
  /\ \A r \in Requests : pc[r] # "create"
  /\ orders = {}

AttemptsOK ==
  /\ attempt \in [Requests -> Nat]
  /\ \A r \in Requests : attempt[r] <= MaxAttempts[r]

PInv == TypeOK /\ CacheTypeOK /\ AttemptsOK /\ Unvouched

-----------------------------------------------------------------------------
\* Only a positive load is answered as a user that exists, and only a negative
\* one as a user that does not.
LEMMA AnswerForLoaded ==
  ASSUME NEW v \in Loaded
  PROVE  /\ AnswerFor(v) \in {"exists", "missing", "error"}
         /\ AnswerFor(v) = "exists" => v = "positive"
         /\ AnswerFor(v) = "missing" => v = "negative"
<1>1. CASE v = "positive"
  BY <1>1 DEF AnswerFor
<1>2. CASE v = "negative"
  BY <1>2 DEF AnswerFor
<1>3. CASE v = "error"
  BY <1>3 DEF AnswerFor
<1> QED
  BY <1>1, <1>2, <1>3 DEF Loaded

\* The answer a request acts on is the answer of one of its calls.
LEMMA HeardIsAnswer ==
  ASSUME AttemptsOK, NEW r \in Requests, NEW v, v # "none", Heard(r) = v
  PROVE  \E c \in Callers : answer[c] = v
<1>1. attempt[r] # 0 /\ answer[<<r, attempt[r]>>] = v
  BY DEF Heard
<1>2. attempt[r] \in 1..MaxAttempts[r]
  BY <1>1, AttemptsAssumption DEF AttemptsOK
<1>3. <<r, attempt[r]>> \in {r} \X (1..MaxAttempts[r])
  BY <1>2
<1>4. <<r, attempt[r]>> \in Callers
  BY <1>3, CallersAssumption
<1> QED
  BY <1>1, <1>4

\* The invariant holds before the first request, whether the user exists or not.
LEMMA PlacementInitInv == PlacementInit => PInv
<1> SUFFICES ASSUME PlacementInit PROVE PInv
  OBVIOUS
<1>1. TypeOK
  BY InitInv DEF PlacementInit, IInv
<1>2. CacheTypeOK
  BY DEF PlacementInit, CacheInit, CacheTypeOK, CacheValues, Loaded
<1>3. AttemptsOK
  BY AttemptsAssumption DEF PlacementInit, AttemptsOK
<1>4. Unvouched
  BY DEF PlacementInit, CacheInit, Init, Unvouched
<1> QED
  BY <1>1, <1>2, <1>3, <1>4 DEF PInv

-----------------------------------------------------------------------------
\* Every step is a step of the gate or leaves it alone.
LEMMA StepOfGate ==
  ASSUME [PlacementNext]_allVars
  PROVE  [Next]_vars
BY DEF PlacementNext, allVars, CallValidateUser, Request, Serve, Fly, UserStep,
       Environment, Next

\* Every step is a step of user-rpc or leaves it alone.
LEMMA StepOfCache ==
  ASSUME [PlacementNext]_allVars
  PROVE  [CacheNext]_cacheVars
BY DEF PlacementNext, allVars, CallValidateUser, Request, Serve, Fly, UserStep,
       Environment, CacheNext

\* Steps of user-rpc keep the types of the cache ...
LEMMA CacheStepTypeOK ==
  ASSUME CacheTypeOK, [CacheNext]_cacheVars
  PROVE  CacheTypeOK'
<1> USE DEF CacheTypeOK, CacheValues, Loaded
<1>1. ASSUME NEW c \in Callers, Hit(c) PROVE CacheTypeOK'
  <2>1. AnswerFor(cache) \in {"exists", "missing", "error"}
    BY <1>1, AnswerForLoaded DEF Hit
  <2> QED
    BY <1>1, <2>1 DEF Hit, Return
<1>2. ASSUME NEW c \in Callers, Miss(c) PROVE CacheTypeOK'
  BY <1>2 DEF Miss
<1>3. ASSUME NEW c \in Callers, Join(c) PROVE CacheTypeOK'
  BY <1>3, InstanceOfAssumption DEF Join
<1>4. ASSUME NEW i \in Instances, Load(i) PROVE CacheTypeOK'
  BY <1>4 DEF Load
<1>5. ASSUME NEW i \in Instances, LoadFails(i) PROVE CacheTypeOK'
  BY <1>5 DEF LoadFails
<1>6. ASSUME NEW i \in Instances, StoreEntry(i) PROVE CacheTypeOK'
  <2>1. AnswerFor(flight[i]) \in {"exists", "missing", "error"}
    BY <1>6, AnswerForLoaded DEF StoreEntry
  <2> QED
    BY <1>6, <2>1 DEF StoreEntry, EndFlight
<1>7. CASE CreateUser
  BY <1>7 DEF CreateUser
<1>8. CASE ExpireEntry
  BY <1>8 DEF ExpireEntry
<1>9. CASE UNCHANGED cacheVars
  BY <1>9 DEF cacheVars
<1> QED
  BY <1>1, <1>2, <1>3, <1>4, <1>5, <1>6, <1>7, <1>8, <1>9
     DEF CacheNext, CallerStep, FlightStep

\* ... and vouch for a user only if it exists.
LEMMA CacheStepUnvouched ==
  ASSUME CacheTypeOK, Unvouched, [CacheNext]_cacheVars, UNCHANGED vars
  PROVE  Unvouched'
<1> SUFFICES ASSUME ~exists' PROVE Unvouched'
  BY DEF Unvouched
<1> USE DEF CacheTypeOK, Unvouched, vars
<1>1. ASSUME NEW c \in Callers, Hit(c) PROVE Unvouched'
  <2>1. ~exists /\ cache = "negative"
    BY <1>1 DEF Hit
  <2>2. AnswerFor(cache) # "exists"
    BY <2>1, AnswerForLoaded DEF Loaded
  <2> QED
    BY <1>1, <2>1, <2>2 DEF Hit, Return
<1>2. ASSUME NEW c \in Callers, Miss(c) PROVE Unvouched'
  BY <1>2 DEF Miss
<1>3. ASSUME NEW c \in Callers, Join(c) PROVE Unvouched'
  BY <1>3, InstanceOfAssumption DEF Join
<1>4. ASSUME NEW i \in Instances, Load(i) \/ LoadFails(i) PROVE Unvouched'
  BY <1>4 DEF Load, LoadFails
<1>5. ASSUME NEW i \in Instances, StoreEntry(i) PROVE Unvouched'
  <2>1. ~exists /\ flight[i] # "positive" /\ flight[i] \in Loaded
    BY <1>5 DEF StoreEntry
  <2>2. AnswerFor(flight[i]) # "exists"
    BY <2>1, AnswerForLoaded
  <2> QED
    BY <1>5, <2>1, <2>2 DEF StoreEntry, EndFlight
<1>6. CASE CreateUser \/ ExpireEntry \/ UNCHANGED cacheVars
  BY <1>6 DEF CreateUser, ExpireEntry, cacheVars
<1> QED
  BY <1>1, <1>2, <1>3, <1>4, <1>5, <1>6 DEF CacheNext, CallerStep, FlightStep

\* A request goes on to its transaction only if somebody vouched for the user.
LEMMA GateStepUnvouched ==
  ASSUME TypeOK, AttemptsOK, Unvouched, NEW r \in Requests, Request(r)
  PROVE  Unvouched'
<1> SUFFICES ASSUME ~exists PROVE Unvouched'
  BY DEF Unvouched, Request, cacheVars
<1>1. UNCHANGED cacheVars /\ RequestStep(r)
  BY DEF Request
<1>2. pc'[r] # "create"
  <2>1. CASE Validate(r)
    <3>1. Heard(r) # "exists"
      BY HeardIsAnswer DEF Unvouched
    <3> QED
      BY <2>1, <3>1 DEF Request, Validate, MindsAnswer
  <2>2. CASE ~Validate(r)
    BY <1>1, <2>2 DEF RequestStep, Claim, ClaimTaken, ClaimFails, ClaimRepeated,
       Replay, ReplayFails, Create, CreateFails, CreateUnheard, CreateError, Store,
       Release, StoreOrReleaseFails, ReleaseRepeated, Goto, TypeOK, Unvouched
  <2> QED
    BY <2>1, <2>2
<1>3. pc[r] # "create" /\ orders' = orders
  BY <1>1 DEF Unvouched, RequestStep, Claim, ClaimTaken, ClaimFails, ClaimRepeated,
     Replay, ReplayFails, Validate, Create, CreateFails, CreateUnheard, Store,
     Release, StoreOrReleaseFails, ReleaseRepeated
<1>4. \A q \in Requests : q # r => pc'[q] = pc[q]
  BY <1>1 DEF RequestStep, Claim, ClaimTaken, ClaimFails, ClaimRepeated, Replay,
     ReplayFails, Validate, Create, CreateFails, CreateUnheard, CreateError, Store,
     Release, StoreOrReleaseFails, ReleaseRepeated, Goto, TypeOK
<1> QED
  BY <1>1, <1>2, <1>3, <1>4 DEF Unvouched, cacheVars

\* Every step of a request, of its calls and of user-rpc keeps the invariant.
LEMMA PlacementStep ==
  ASSUME PInv, [PlacementNext]_allVars
  PROVE  PInv'
<1>1. TypeOK'
  BY StepOfGate, NextTypeOK DEF PInv
<1>2. [CacheNext]_cacheVars
  BY StepOfCache
<1>3. CacheTypeOK'
  BY <1>2, CacheStepTypeOK DEF PInv
<1>4. AttemptsOK'
  <2>1. ASSUME NEW r \in Requests, CallValidateUser(r) PROVE AttemptsOK'
    <3>1. attempt \in [Requests -> Nat] /\ \A q \in Requests : attempt[q] <= MaxAttempts[q]
      BY DEF PInv, AttemptsOK
    <3>2. attempt' = [attempt EXCEPT ![r] = attempt[r] + 1] /\ attempt[r] < MaxAttempts[r]
      BY <2>1 DEF CallValidateUser
    <3>3. MaxAttempts[r] \in Nat
      BY AttemptsAssumption
    <3>4. attempt' \in [Requests -> Nat]
      BY <3>1, <3>2
    <3>5. ASSUME NEW q \in Requests PROVE attempt'[q] <= MaxAttempts[q]
      BY <3>1, <3>2, <3>3
    <3> QED
      BY <3>4, <3>5 DEF AttemptsOK
  <2>2. CASE UNCHANGED attempt
    BY <2>2 DEF AttemptsOK, PInv
  <2> QED
    BY <2>1, <2>2 DEF PlacementNext, allVars, Request, Serve, Fly, UserStep, Environment
<1>5. Unvouched'
  <2>1. ASSUME NEW r \in Requests, Request(r) PROVE Unvouched'
    BY <2>1, GateStepUnvouched DEF PInv
  <2>2. CASE UNCHANGED vars
    BY <2>2, <1>2, CacheStepUnvouched DEF PInv
  <2>3. CASE Environment
    BY <2>3 DEF Environment, Expire, Crash, Goto, PInv, Unvouched, TypeOK, cacheVars
  <2> QED
    BY <2>1, <2>2, <2>3 DEF PlacementNext, allVars, CallValidateUser, Serve, Fly, UserStep
<1> QED
  BY <1>1, <1>3, <1>4, <1>5 DEF PInv

-----------------------------------------------------------------------------
\* The inductive invariant of order placement.
THEOREM PlacementInvariant == PlacementSpec => []PInv
<1>1. PInv /\ [PlacementNext]_allVars => PInv'
  BY PlacementStep
<1> QED
  BY PlacementInitInv, <1>1, PTL DEF PlacementSpec

\* createOrder commits orders of existing users only, and ValidateUser vouches
\* for nobody else, whatever the cache, the retries and the races.
THEOREM NoOrderWithoutUser == PlacementSpec => []OrdersHaveUsers
<1>1. PInv => OrdersHaveUsers
  BY DEF PInv, Unvouched, OrdersHaveUsers
<1> QED
  BY PlacementInvariant, <1>1, PTL

\* user-rpc finds a user that exists: neither a load that fails nor the error
\* it shares makes a miss of it.
LEMMA CacheStepKnown ==
  ASSUME CacheTypeOK, exists, NoMissOnItsWay, [CacheNext]_cacheVars
  PROVE  /\ exists' /\ cache' # "negative"
         /\ \A i \in Instances : flight'[i] # "negative"
         /\ \A c \in Callers : answer'[c] # "missing"
<1> DEFINE Known == /\ exists' /\ cache' # "negative"
                    /\ \A i \in Instances : flight'[i] # "negative"
                    /\ \A c \in Callers : answer'[c] # "missing"
<1> SUFFICES Known
  OBVIOUS
<1> USE DEF CacheTypeOK, NoMissOnItsWay
<1>1. ASSUME NEW c \in Callers, Hit(c) PROVE Known
  <2>1. AnswerFor(cache) # "missing"
    BY <1>1, AnswerForLoaded DEF Hit, Loaded
  <2> QED
    BY <1>1, <2>1 DEF Hit, Return
<1>2. ASSUME NEW c \in Callers, Miss(c) PROVE Known
  BY <1>2 DEF Miss
<1>3. ASSUME NEW c \in Callers, Join(c) PROVE Known
  BY <1>3, InstanceOfAssumption DEF Join
<1>4. ASSUME NEW i \in Instances, Load(i) \/ LoadFails(i) PROVE Known
  BY <1>4 DEF Load, LoadFails
<1>5. ASSUME NEW i \in Instances, StoreEntry(i) PROVE Known
  <2>1. AnswerFor(flight[i]) # "missing"
    BY <1>5, AnswerForLoaded DEF StoreEntry
  <2> QED
    BY <1>5, <2>1 DEF StoreEntry, EndFlight
<1>6. CASE CreateUser \/ ExpireEntry \/ UNCHANGED cacheVars
  BY <1>6 DEF CreateUser, ExpireEntry, cacheVars
<1> QED
  BY <1>1, <1>2, <1>3, <1>4, <1>5, <1>6 DEF CacheNext, CallerStep, FlightStep

\* A request says so only if one of its calls was told that there is no user.
LEMMA GateStepKnown ==
  ASSUME PInv, NoMissOnItsWay, NEW r \in Requests, Request(r)
  PROVE  \A q \in Requests : reply'[q] # "user_not_found"
<1> USE GateAssumption, ErrorsAssumption DEF NoMissOnItsWay, TypeOK, Answer
<1>1. TypeOK /\ RequestStep(r) /\ "user_not_found" \notin Requests
  BY DEF PInv, Request
<1>2. CASE Validate(r)
  <2>1. Heard(r) # "missing"
    BY HeardIsAnswer DEF PInv
  <2>2. reply'[r] # "user_not_found"
    BY <1>2, <2>1 DEF Request, Validate, MindsAnswer
  <2> QED
    BY <1>1, <1>2, <2>2 DEF Validate, CreateError
<1>3. CASE ~Validate(r)
  BY <1>1, <1>3 DEF RequestStep, Claim, ClaimTaken, ClaimFails, ClaimRepeated,
     Replay, ReplayFails, Create, CreateFails, CreateUnheard, CreateError, Store,
     Release, StoreOrReleaseFails, ReleaseRepeated
<1> QED
  BY <1>2, <1>3

\* GetOrLoad and createOrder: once the user exists and no miss of it is under
\* way, no request is ever told that it does not, however loads fail, calls are
\* repeated and the cache forgets.
THEOREM KnownNeverDenied == PlacementSpec => KnownStaysKnown
<1> DEFINE Undenied == \A r \in Requests : reply[r] # "user_not_found"
<1>1. ASSUME PInv, exists /\ NoMissOnItsWay, [PlacementNext]_allVars
      PROVE  exists' /\ NoMissOnItsWay'
  <2>1. /\ exists' /\ cache' # "negative"
        /\ \A i \in Instances : flight'[i] # "negative"
        /\ \A c \in Callers : answer'[c] # "missing"
    BY <1>1, StepOfCache, CacheStepKnown DEF PInv
  <2>2. \A q \in Requests : reply'[q] # "user_not_found"
    <3>1. ASSUME NEW r \in Requests, Request(r)
          PROVE  \A q \in Requests : reply'[q] # "user_not_found"
      BY <1>1, <3>1, GateStepKnown
    <3>2. CASE UNCHANGED reply
      BY <1>1, <3>2 DEF NoMissOnItsWay
    <3> QED
      BY <1>1, <3>1, <3>2 DEF PlacementNext, allVars, vars, CallValidateUser, Serve,
         Fly, UserStep, Environment, Expire, Crash
  <2> QED
    BY <2>1, <2>2 DEF NoMissOnItsWay
<1>2. exists /\ NoMissOnItsWay => Undenied
  BY DEF NoMissOnItsWay
<1>3. PlacementSpec => []PInv /\ [][PlacementNext]_allVars
  BY PlacementInvariant, PTL DEF PlacementSpec
<1>4. KnownStaysKnown <=> [](exists /\ NoMissOnItsWay => []Undenied)
  BY DEF KnownStaysKnown
<1> QED
  BY <1>1, <1>2, <1>3, <1>4, PTL

\* The types of the composition.
THEOREM PlacementTypes == PlacementSpec => []PlacementTypeOK
<1>1. PInv => PlacementTypeOK
  BY DEF PInv, AttemptsOK, PlacementTypeOK
<1> QED
  BY PlacementInvariant, <1>1, PTL

\* With real calls of ValidateUser the gate is still the one of OrderGate: all
\* that is proved of it holds of the composition.
THEOREM PlacementImplementsGate == PlacementSpec => Spec
<1>1. PlacementInit => Init
  BY DEF PlacementInit
<1>2. [PlacementNext]_allVars => [Next]_vars
  BY StepOfGate
<1> QED
  BY <1>1, <1>2, PTL DEF PlacementSpec, Spec

-----------------------------------------------------------------------------
(* The pages of GET /orders *)

\* How many orders the client has that come before o on its pages.
Above(o, S) == {p \in S : p > o}
Rank(o)     == Cardinality(Above(o, Visible))

\* An order commits or rolls back once. Before the walk nothing is shown; on
\* it, what has not been shown comes no earlier than the page asked for, and
\* between COUNT and SELECT the answer of COUNT is off by the races.
ListInv ==
  /\ uncommitted \cap committed = {}
  /\ \A o \in uncommitted \cup committed : o < nextId
  /\ walk = "idle" => pageNum = 1 /\ seen = {}
  /\ walk # "idle" => before \subseteq Visible
  /\ walk \in {"count", "find"} =>
       \A o \in before \ seen : Rank(o) >= Offset(pageNum, pageSize)
  /\ walk = "find" => Cardinality(Visible) = total + raced
  /\ MissesOnlyRaces

WalkInv == ListTypeOK /\ ListInv

-----------------------------------------------------------------------------
\* Sets of order ids are finite, and have at most MaxOrders elements.
LEMMA IdSets ==
  ASSUME NEW S \in SUBSET Ids
  PROVE  IsFiniteSet(S) /\ Cardinality(S) \in 0..MaxOrders
<1>1. IsFiniteSet(Ids) /\ Cardinality(Ids) = MaxOrders
    BY ListBoundsAssumption, FS_Interval DEF Ids
<1>2. IsFiniteSet(S) /\ Cardinality(S) <= MaxOrders
    BY <1>1, FS_Subset
<1>3. Cardinality(S) \in Nat
    BY <1>2, FS_CardinalityType
<1> QED
    BY <1>2, <1>3, ListBoundsAssumption

\* A set of order ids has a largest element.
LEMMA Largest ==
  ASSUME NEW T \in SUBSET Ids, T # {}
  PROVE  \E x \in T : \A y \in T : y <= x
<1> DEFINE D == {MaxOrders - x : x \in T}
           R == {ss \in Nat \X Nat : ss[1] < ss[2]}
<1>1. IsWellFoundedOn(R, Nat)
    BY NatLessThanWellFounded DEF OpToRel
<1>2. \A x, y \in Nat : x < y => <<x, y>> \in R
    OBVIOUS
<1>3. \A x \in T : x \in Nat /\ MaxOrders - x \in Nat
    BY ListBoundsAssumption DEF Ids
<1>4. D \subseteq Nat /\ D # {}
    BY <1>3
<1> HIDE DEF R
<1>5. PICK d \in D : \A e \in D : ~ (<<e, d>> \in R)
    BY <1>1, <1>4, WFMin
<1>6. PICK x \in T : d = MaxOrders - x
    OBVIOUS
<1>7. ASSUME NEW y \in T PROVE y <= x
  <2>1. MaxOrders - y \in D /\ MaxOrders - y \in Nat /\ d \in Nat /\ y \in Nat /\ x \in Nat
      BY <1>3, <1>4
  <2>2. ~ (MaxOrders - y < d)
      BY <1>2, <1>5, <2>1
  <2> QED
      BY <1>6, <2>1, <2>2, ListBoundsAssumption
<1> QED
    BY <1>7

\* Disjoint parts of a set have no more elements together than the set.
LEMMA PartsFit ==
  ASSUME NEW S \in SUBSET Ids, NEW A \in SUBSET S, NEW B \in SUBSET S, A \cap B = {}
  PROVE  Cardinality(A) + Cardinality(B) <= Cardinality(S)
<1>1. IsFiniteSet(S) /\ IsFiniteSet(A) /\ IsFiniteSet(B)
    BY IdSets
<1>2. Cardinality(A \cup B) = Cardinality(A) + Cardinality(B) - Cardinality(A \cap B)
    BY <1>1, FS_Union
<1>3. Cardinality(A \cap B) = 0
    BY FS_EmptySet
<1>4. Cardinality(A \cup B) <= Cardinality(S)
    BY <1>1, FS_Subset
<1>5. Cardinality(A) \in Nat /\ Cardinality(B) \in Nat
    BY <1>1, FS_CardinalityType
<1> QED
    BY <1>2, <1>3, <1>4, <1>5

\* Of n orders at most n - m come after m others.
LEMMA TailFits ==
  ASSUME NEW S \in SUBSET Ids, NEW T \in SUBSET S, NEW m \in Nat,
         T # {}, \A o \in T : Cardinality(Above(o, S)) >= m
  PROVE  Cardinality(T) + m <= Cardinality(S)
<1>1. PICK x \in T : \A y \in T : y <= x
    BY Largest
<1>2. Above(x, S) \in SUBSET S /\ T \cap Above(x, S) = {}
  <2>1. \A y \in T : y \in Nat /\ x \in Nat /\ ~ (y > x)
      BY <1>1, ListBoundsAssumption DEF Ids
  <2> QED
      BY <2>1 DEF Above
<1>3. Cardinality(T) + Cardinality(Above(x, S)) <= Cardinality(S)
    BY <1>2, PartsFit
<1>4. /\ Cardinality(T) \in Nat /\ Cardinality(Above(x, S)) \in Nat
      /\ Cardinality(S) \in Nat
    BY <1>2, IdSets
<1> QED
    BY <1>1, <1>3, <1>4

\* The pages that NewResult counts have room for the total.
LEMMA PagesHoldAll ==
  ASSUME NEW n \in Nat, NEW size \in Nat \ {0}, NEW p \in Nat, p >= Pages(n, size)
  PROVE  p * size >= n
<1> DEFINE q == (n + size - 1) \div size
<1>1. q \in Nat /\ q * size > n - 1
    OBVIOUS
<1> HIDE DEF q
<1>2. p >= q
    BY DEF Pages, q
<1>3. p * size >= q * size
    BY <1>1, <1>2
<1> QED
    BY <1>1, <1>3

\* More orders leave no order earlier on the pages.
LEMMA RankGrows ==
  ASSUME NEW S \in SUBSET Ids, NEW T \in SUBSET Ids, S \subseteq T, NEW o
  PROVE  /\ Cardinality(Above(o, S)) \in Nat
         /\ Cardinality(Above(o, T)) \in Nat
         /\ Cardinality(Above(o, S)) <= Cardinality(Above(o, T))
<1>1. /\ Above(o, S) \subseteq Above(o, T)
      /\ Above(o, S) \in SUBSET Ids
      /\ Above(o, T) \in SUBSET Ids
    BY DEF Above
<1>2. IsFiniteSet(Above(o, T))
    BY <1>1, IdSets
<1>3. Cardinality(Above(o, S)) <= Cardinality(Above(o, T))
    BY <1>1, <1>2, FS_Subset
<1> QED
    BY <1>1, <1>3, IdSets

\* What a page leaves out of what comes no earlier than it is for later pages.
LEMMA SliceIsFull ==
  ASSUME NEW S \in SUBSET Ids, NEW o \in S, NEW skip \in Nat, NEW size \in Nat \ {0},
         Cardinality(Above(o, S)) >= skip, o \notin Slice(S, skip, size)
  PROVE  Cardinality(Above(o, S)) >= skip + size
<1>1. Cardinality(Above(o, S)) \in Nat
    BY RankGrows
<1>2. Cardinality(Above(o, S)) \notin skip..(skip + size - 1)
    BY DEF Slice, Above
<1> QED
    BY <1>1, <1>2

\* Pages follow one another without a gap.
LEMMA NextOffset ==
  ASSUME NEW p \in Nat \ {0}, NEW size \in Nat \ {0}
  PROVE  /\ Offset(p, size) \in Nat
         /\ Offset(p + 1, size) = Offset(p, size) + size
         /\ Offset(p + 1, size) = p * size
<1>1. PICK k \in Nat : p = k + 1
    BY p - 1 \in Nat
<1>2. k * size \in Nat /\ (k + 1) * size = k * size + size
    OBVIOUS
<1>3. p - 1 = k /\ p + 1 - 1 = k + 1
    BY <1>1
<1> QED
    BY <1>1, <1>2, <1>3 DEF Offset

-----------------------------------------------------------------------------
\* Before the first order, and before the walk, the invariant holds.
LEMMA WalkInit == ListInit => WalkInv
<1> USE ListBoundsAssumption
<1> SUFFICES ASSUME ListInit PROVE WalkInv
    OBVIOUS
<1>1. ListTypeOK
    BY DEF ListInit, ListTypeOK, Ids
<1>2. ListInv
    BY DEF ListInit, ListInv, MissesOnlyRaces
<1> QED
    BY <1>1, <1>2 DEF WalkInv

\* An order that commits adds one to what COUNT would answer, or nothing.
LEMMA CommitStep ==
  ASSUME WalkInv, NEW o \in Ids, CommitOrder(o)
  PROVE  WalkInv'
<1> USE ListBoundsAssumption
<1>1. ListTypeOK /\ ListInv
    BY DEF WalkInv
<1>2. o \in uncommitted /\ o \notin committed
    BY <1>1 DEF CommitOrder, ListInv
<1>3. Visible \in SUBSET Ids /\ Visible' \in SUBSET Ids /\ Visible \subseteq Visible'
    BY <1>1 DEF CommitOrder, ListTypeOK, Visible
<1>4. UNCHANGED <<nextId, walk, pageSize, pageNum, total, seen, before>>
    BY DEF CommitOrder, walkVars
<1>5. walk = "find" => Cardinality(Visible') = total' + raced'
  <2> SUFFICES ASSUME walk = "find" PROVE Cardinality(Visible') = total + raced'
      BY <1>4
  <2>1. Cardinality(Visible) = total + raced /\ IsFiniteSet(Visible)
      BY <1>1, <1>3, IdSets DEF ListInv
  <2>2. total \in Nat /\ raced \in Nat
      BY <1>1 DEF ListTypeOK
  <2>3. CASE o \in Mine
    <3>1. Visible' = Visible \cup {o} /\ o \notin Visible
        BY <1>2, <2>3 DEF CommitOrder, Visible
    <3>2. Cardinality(Visible') = Cardinality(Visible) + 1
        BY <2>1, <3>1, FS_AddElement
    <3>3. raced' = raced + 1
        BY <2>3 DEF CommitOrder
    <3> QED
        BY <2>1, <2>2, <3>2, <3>3
  <2>4. CASE o \notin Mine
    <3>1. Visible' = Visible /\ raced' = raced
        BY <2>4 DEF CommitOrder, Visible
    <3> QED
        BY <2>1, <3>1
  <2> QED
      BY <2>3, <2>4
<1>6. raced' \in 0..MaxOrders
  <2>1. CASE walk = "find"
    <3>1. Cardinality(Visible') \in 0..MaxOrders /\ total \in Nat /\ raced' \in Nat
        BY <1>1, <1>3, IdSets DEF ListTypeOK, CommitOrder
    <3>2. Cardinality(Visible') = total + raced'
        BY <1>4, <1>5, <2>1
    <3>3. total + raced' \in 0..MaxOrders
        BY <3>1, <3>2, Zenon
    <3>4. \A a, b, m \in Nat : a + b \in 0..m => b \in 0..m
        OBVIOUS
    <3> QED
        BY <3>1, <3>3, <3>4
  <2>2. CASE walk # "find"
      BY <1>1, <2>2 DEF ListTypeOK, CommitOrder
  <2> QED
      BY <2>1, <2>2
<1>7. ListTypeOK'
    BY <1>1, <1>4, <1>6 DEF ListTypeOK, CommitOrder
<1>8. walk \in {"count", "find"} =>
        \A b \in before \ seen : Cardinality(Above(b, Visible')) >= Offset(pageNum, pageSize)
  <2> SUFFICES ASSUME walk \in {"count", "find"}, NEW b \in before \ seen
               PROVE  Cardinality(Above(b, Visible')) >= Offset(pageNum, pageSize)
      OBVIOUS
  <2>1. Cardinality(Above(b, Visible)) >= Offset(pageNum, pageSize)
      BY <1>1 DEF ListInv, Rank
  <2>2. /\ Cardinality(Above(b, Visible)) \in Nat
        /\ Cardinality(Above(b, Visible')) \in Nat
        /\ Cardinality(Above(b, Visible)) <= Cardinality(Above(b, Visible'))
      BY <1>3, RankGrows
  <2>3. Offset(pageNum, pageSize) \in Nat
      BY <1>1, NextOffset DEF ListTypeOK
  <2> QED
      BY <2>1, <2>2, <2>3
<1>9. /\ (uncommitted \cap committed)' = {}
      /\ \A p \in uncommitted' \cup committed' : p < nextId'
      /\ walk' # "idle" => before' \subseteq Visible'
    BY <1>1, <1>2, <1>3, <1>4 DEF ListInv, CommitOrder
<1>10. MissesOnlyRaces'
    BY <1>1, <1>4 DEF ListInv, CommitOrder, MissesOnlyRaces
<1>11. ListInv'
    BY <1>1, <1>4, <1>5, <1>8, <1>9, <1>10 DEF ListInv, Rank
<1> QED
    BY <1>7, <1>11 DEF WalkInv

\* The page that is found leaves nothing behind that a later page will not
\* show, and the last one leaves no more than the orders that raced with it.
LEMMA FindStep ==
  ASSUME WalkInv, FindPage
  PROVE  WalkInv'
<1> USE ListBoundsAssumption
<1> DEFINE k == Offset(pageNum, pageSize)
           left == before \ seen'
<1>1. ListTypeOK /\ ListInv /\ walk = "find"
    BY DEF WalkInv, FindPage
<1>2. UNCHANGED <<nextId, uncommitted, committed, pageSize, total, before, raced>>
    BY DEF FindPage, tableVars
<1>3. Visible \in SUBSET Ids /\ Visible' = Visible /\ before \subseteq Visible
    BY <1>1, <1>2 DEF ListTypeOK, ListInv, Visible
<1>4. /\ pageNum \in Nat \ {0} /\ pageSize \in Nat \ {0}
      /\ total \in Nat /\ raced \in Nat
    BY <1>1 DEF ListTypeOK
<1>5. /\ k \in Nat
      /\ Offset(pageNum + 1, pageSize) = k + pageSize
      /\ Offset(pageNum + 1, pageSize) = pageNum * pageSize
    BY <1>4, NextOffset
<1> HIDE DEF k
<1>6. ASSUME NEW o \in left
      PROVE  Cardinality(Above(o, Visible)) >= pageNum * pageSize
  <2>1. o \in before \ seen /\ o \notin Slice(Visible, k, pageSize) /\ o \in Visible
      BY <1>3 DEF FindPage, k
  <2>2. Cardinality(Above(o, Visible)) >= k
      BY <1>1, <2>1 DEF ListInv, Rank, k
  <2>3. Cardinality(Above(o, Visible)) >= k + pageSize
      BY <1>3, <1>4, <1>5, <2>1, <2>2, SliceIsFull
  <2> QED
      BY <1>5, <2>3
<1>7. ListTypeOK'
  <2>1. Slice(Visible, k, pageSize) \subseteq Ids
      BY <1>3 DEF Slice
  <2>2. pageNum' \in Nat \ {0} /\ walk' \in {"count", "done"}
      BY <1>4 DEF FindPage
  <2> QED
      BY <1>1, <1>2, <2>1, <2>2 DEF ListTypeOK, FindPage, k
<1>8. CASE pageNum < Pages(total, pageSize)
  <2>1. walk' = "count" /\ pageNum' = pageNum + 1
      BY <1>8 DEF FindPage
  <2>2. \A o \in before' \ seen' :
          Cardinality(Above(o, Visible')) >= Offset(pageNum', pageSize')
      BY <1>2, <1>3, <1>5, <1>6, <2>1
  <2>3. MissesOnlyRaces'
      BY <2>1 DEF MissesOnlyRaces
  <2>4. ListInv'
      BY <1>1, <1>2, <1>3, <2>1, <2>2, <2>3 DEF ListInv, Rank
  <2> QED
      BY <1>7, <2>4 DEF WalkInv
<1>9. CASE ~ (pageNum < Pages(total, pageSize))
  <2>1. walk' = "done" /\ pageNum' = pageNum
      BY <1>9 DEF FindPage
  <2>2. Cardinality(left) <= raced
    <3>1. CASE left = {}
        BY <1>4, <3>1, FS_EmptySet
    <3>2. CASE left # {}
      <4>1. pageNum * pageSize \in Nat /\ left \in SUBSET Visible
          BY <1>3, <1>4
      <4>2. Cardinality(left) + pageNum * pageSize <= Cardinality(Visible)
          BY <1>3, <1>6, <3>2, <4>1, TailFits
      <4>3. Cardinality(Visible) = total + raced
          BY <1>1 DEF ListInv
      <4>4. Pages(total, pageSize) \in Nat
          BY <1>4 DEF Pages
      <4>5. pageNum * pageSize >= total
          BY <1>4, <1>9, <4>4, PagesHoldAll
      <4>6. Cardinality(left) \in Nat
          BY <1>3, <4>1, IdSets
      <4> QED
          BY <1>4, <4>1, <4>2, <4>3, <4>5, <4>6
    <3> QED
        BY <3>1, <3>2
  <2>3. MissesOnlyRaces'
      BY <1>2, <2>2 DEF MissesOnlyRaces
  <2>4. ListInv'
      BY <1>1, <1>2, <1>3, <2>1, <2>3 DEF ListInv
  <2> QED
      BY <1>7, <2>4 DEF WalkInv
<1> QED
    BY <1>8, <1>9

\* Every other step leaves the orders that count as they are.
LEMMA WalkStep == WalkInv /\ [ListNext]_listVars => WalkInv'
<1> USE ListBoundsAssumption
<1> SUFFICES ASSUME WalkInv, [ListNext]_listVars
             PROVE  WalkInv'
    OBVIOUS
<1>1. ListTypeOK /\ ListInv
    BY DEF WalkInv
<1>2. Visible \in SUBSET Ids
    BY <1>1 DEF ListTypeOK, Visible
<1>3. CASE InsertOrder
  <2>1. UNCHANGED <<committed, walk, pageSize, pageNum, total, seen, before, raced>>
      BY <1>3 DEF InsertOrder, walkVars
  <2>2. nextId \in Nat \ {0} /\ nextId <= MaxOrders /\ nextId' = nextId + 1
      BY <1>1, <1>3 DEF ListTypeOK, InsertOrder
  <2>3. ListTypeOK'
      BY <1>1, <1>3, <2>1, <2>2 DEF ListTypeOK, InsertOrder, Ids
  <2>4. nextId \notin committed /\ (\A o \in uncommitted' \cup committed' : o < nextId')
    <3>1. \A o \in uncommitted \cup committed : o \in Nat /\ o < nextId
        BY <1>1 DEF ListTypeOK, ListInv, Ids
    <3> QED
        BY <1>3, <2>1, <2>2, <3>1 DEF InsertOrder
  <2>5. (uncommitted \cap committed)' = {}
      BY <1>1, <1>3, <2>1, <2>4 DEF ListInv, InsertOrder
  <2>6. ListInv'
      BY <1>1, <2>1, <2>4, <2>5 DEF ListInv, Rank, Visible, MissesOnlyRaces
  <2> QED
      BY <2>3, <2>6 DEF WalkInv
<1>4. ASSUME NEW o \in Ids, RollBackOrder(o) PROVE WalkInv'
  <2>1. UNCHANGED <<nextId, committed, walk, pageSize, pageNum, total, seen, before, raced>>
      BY <1>4 DEF RollBackOrder, walkVars
  <2>2. uncommitted' \subseteq uncommitted
      BY <1>4 DEF RollBackOrder
  <2> QED
      BY <1>1, <2>1, <2>2 DEF WalkInv, ListTypeOK, ListInv, Rank, Visible, MissesOnlyRaces
<1>5. CASE BeginWalk
  <2>1. UNCHANGED <<nextId, uncommitted, committed, pageSize, pageNum, total, seen, raced>>
      BY <1>5 DEF BeginWalk, tableVars
  <2>2. walk = "idle" /\ walk' = "count" /\ before' = Visible /\ pageNum = 1
      BY <1>1, <1>5 DEF BeginWalk, ListInv
  <2>3. ListTypeOK'
      BY <1>1, <1>2, <2>1, <2>2 DEF ListTypeOK
  <2>4. Offset(1, pageSize) = 0
      BY <1>1 DEF Offset, ListTypeOK
  <2>5. \A o : Cardinality(Above(o, Visible)) >= 0
    <3> TAKE o
    <3>1. Cardinality(Above(o, Visible)) \in Nat
        BY <1>2, RankGrows
    <3> QED
        BY <3>1
  <2>6. ListInv'
      BY <1>1, <2>1, <2>2, <2>4, <2>5 DEF ListInv, Rank, Visible, MissesOnlyRaces
  <2> QED
      BY <2>3, <2>6 DEF WalkInv
<1>6. CASE CountOrders
  <2>1. UNCHANGED <<nextId, uncommitted, committed, pageSize, pageNum, seen, before>>
      BY <1>6 DEF CountOrders, tableVars
  <2>2. walk = "count" /\ walk' = "find" /\ total' = Cardinality(Visible) /\ raced' = 0
      BY <1>6 DEF CountOrders
  <2>3. Cardinality(Visible) \in 0..MaxOrders
      BY <1>2, IdSets
  <2>4. ListTypeOK'
      BY <1>1, <2>1, <2>2, <2>3 DEF ListTypeOK
  <2>5. Cardinality(Visible') = total' + raced'
      BY <2>1, <2>2, <2>3 DEF Visible
  <2>6. ListInv'
      BY <1>1, <2>1, <2>2, <2>5 DEF ListInv, Rank, Visible, MissesOnlyRaces
  <2> QED
      BY <2>4, <2>6 DEF WalkInv
<1>7. CASE FindFails
    BY <1>1, <1>7 DEF FindFails, tableVars, WalkInv, ListTypeOK, ListInv, Rank, Visible,
                      MissesOnlyRaces
<1>8. CASE UNCHANGED listVars
    BY <1>1, <1>8 DEF listVars, tableVars, walkVars, WalkInv, ListTypeOK, ListInv, Rank,
                      Visible, MissesOnlyRaces
<1> QED
    BY <1>3, <1>4, <1>5, <1>6, <1>7, <1>8, CommitStep, FindStep DEF ListNext

\* Walking the pages keeps the invariant: what a client was not shown yet is on
\* the pages it has not asked for, whatever commits meanwhile.
THEOREM ListInvariant == ListSpec => []WalkInv
    BY WalkInit, WalkStep, PTL DEF ListSpec

\* The variables of the page walk have the types ListTypeOK gives them.
THEOREM ListTypes == ListSpec => []ListTypeOK
<1>1. WalkInv => ListTypeOK
    BY DEF WalkInv
<1> QED
    BY <1>1, ListInvariant, PTL

\* ListByUserID and NewResult: a client that reads to the last page misses no
\* more of the orders it had than were committed between COUNT and SELECT of
\* that page, for any number of orders, any page size and any order of commits.
THEOREM WalkMissesOnlyRaces == ListSpec => []MissesOnlyRaces
<1>1. WalkInv => MissesOnlyRaces
    BY DEF WalkInv, ListInv
<1> QED
    BY <1>1, ListInvariant, PTL
=============================================================================
