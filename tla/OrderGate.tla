----------------------------- MODULE OrderGate ------------------------------
(***************************************************************************)
(* POST /orders with an Idempotency-Key: the Redis key that lets a client  *)
(* repeat a request (service/order/api/.../createOrderLogic.go, Create).   *)
(*                                                                         *)
(* The requests are those of one user with one Idempotency-Key, on any     *)
(* instance of order-api; an order is named by the request that made it.   *)
(* The gate is advisory: Redis errors let a request through, the claim     *)
(* expires after idempotencyTTL, and neither Set nor Del checks who holds  *)
(* it. What the gate then still promises is OrdersBounded.                 *)
(***************************************************************************)
EXTENDS Naturals, FiniteSets

CONSTANTS
  Requests,         \* requests of one user with the same Idempotency-Key
  Absent,           \* the Redis key does not exist
  Claimed,          \* the Redis key holds "", a request is in flight
  MaxExpiries,      \* bound: times the Redis key expires
  MaxRedisFaults,   \* bound: SetNX calls that fail, Del calls that are repeated
  MaxLostCommits    \* bound: commits whose answer is lost

ASSUME RequestsAssumption == IsFiniteSet(Requests)
ASSUME GateAssumption ==
  Absent \notin Requests /\ Claimed \notin Requests /\ Absent # Claimed
ASSUME ErrorsAssumption ==
  {"conflict", "user_not_found", "error", "none"} \cap Requests = {}
ASSUME BoundsAssumption ==
  MaxExpiries \in Nat /\ MaxRedisFaults \in Nat /\ MaxLostCommits \in Nat

VARIABLES
  gate,          \* the Redis key: absent, claimed, or the order stored in it
  pc,            \* per request: where Create is
  gated,         \* requests whose gateKey is not ""
  orders,        \* orders committed by these requests
  reply,         \* per request: what the handler answers
  expiries,      \* times the key has expired
  redisFaults,   \* SetNX calls that failed, Del calls that were repeated
  lostCommits    \* commits reported as errors

vars == <<gate, pc, gated, orders, reply, expiries, redisFaults, lostCommits>>

Errors == {"conflict", "user_not_found", "error"}

TypeOK ==
  /\ gate \in Requests \cup {Absent, Claimed}
  /\ pc \in [Requests ->
       {"claim", "validate", "create", "store", "release", "replay", "done"}]
  /\ gated \subseteq Requests
  /\ orders \subseteq Requests
  /\ reply \in [Requests -> Requests \cup Errors \cup {"none"}]
  /\ expiries \in 0..MaxExpiries
  /\ redisFaults \in 0..MaxRedisFaults
  /\ lostCommits \in 0..MaxLostCommits

Init ==
  /\ gate = Absent
  /\ pc = [r \in Requests |-> "claim"]
  /\ gated = {}
  /\ orders = {}
  /\ reply = [r \in Requests |-> "none"]
  /\ expiries = 0
  /\ redisFaults = 0
  /\ lostCommits = 0

-----------------------------------------------------------------------------
Goto(r, label) == pc' = [pc EXCEPT ![r] = label]
Answer(r, value) == reply' = [reply EXCEPT ![r] = value]

RedisFault ==
  /\ redisFaults < MaxRedisFaults
  /\ redisFaults' = redisFaults + 1

\* The key as SET NX leaves it.
AfterSetNX == IF gate = Absent THEN Claimed ELSE gate

\* Mutant: SET in place of SET NX.
Claim_Set(r) ==
  /\ pc[r] = "claim"
  /\ gate' = Claimed
  /\ gated' = gated \cup {r}
  /\ Goto(r, "validate")
  /\ UNCHANGED <<orders, reply, expiries, redisFaults, lostCommits>>

\* SetNX acquires the gate ...
Claim(r) ==
  /\ pc[r] = "claim"
  /\ gate = Absent
  /\ gate' = AfterSetNX
  /\ gated' = gated \cup {r}
  /\ Goto(r, "validate")
  /\ UNCHANGED <<orders, reply, expiries, redisFaults, lostCommits>>

\* ... or finds it taken.
ClaimTaken(r) ==
  /\ pc[r] = "claim"
  /\ gate # Absent
  /\ Goto(r, "replay")
  /\ UNCHANGED <<gate, gated, orders, reply, expiries, redisFaults, lostCommits>>

\* SetNX fails, whether or not Redis carried it out: proceed without gate.
ClaimFails(r) ==
  /\ pc[r] = "claim"
  /\ RedisFault
  /\ gate' \in {gate, AfterSetNX}
  /\ Goto(r, "validate")
  /\ UNCHANGED <<gated, orders, reply, expiries, lostCommits>>

\* go-redis repeats a SetNX whose answer is lost, and finds its own claim.
ClaimRepeated(r) ==
  /\ pc[r] = "claim"
  /\ gate' = AfterSetNX
  /\ Goto(r, "replay")
  /\ UNCHANGED <<gated, orders, reply, expiries, redisFaults, lostCommits>>

\* replayOrder: the stored order, or a conflict when the claim is still empty
\* or has expired in between ...
Replay(r) ==
  /\ pc[r] = "replay"
  /\ Goto(r, "done")
  /\ Answer(r, IF gate \in Requests THEN gate ELSE "conflict")
  /\ UNCHANGED <<gate, gated, orders, expiries, redisFaults, lostCommits>>

\* ... or when Redis does not answer.
ReplayFails(r) ==
  /\ pc[r] = "replay"
  /\ Goto(r, "done")
  /\ Answer(r, "conflict")
  /\ UNCHANGED <<gate, gated, orders, expiries, redisFaults, lostCommits>>

\* createOrder returns an error: Del follows if the request holds the gate.
CreateError(r, error) ==
  /\ Answer(r, error)
  /\ Goto(r, IF r \in gated THEN "release" ELSE "done")
  /\ UNCHANGED <<gate, gated, expiries, redisFaults>>

\* ValidateUser finds the user, does not find it, or fails.
Validate(r) ==
  /\ pc[r] = "validate"
  /\ \/ /\ Goto(r, "create")
        /\ UNCHANGED <<gate, gated, reply, expiries, redisFaults>>
     \/ CreateError(r, "user_not_found")
     \/ CreateError(r, "error")
  /\ UNCHANGED <<orders, lostCommits>>

\* The transaction commits: order and event exist.
Create(r) ==
  /\ pc[r] = "create"
  /\ orders' = orders \cup {r}
  /\ Answer(r, r)
  /\ Goto(r, IF r \in gated THEN "store" ELSE "done")
  /\ UNCHANGED <<gate, gated, expiries, redisFaults, lostCommits>>

\* Mutant: the error of the transaction is not looked at.
CreateFails_Ignored(r) ==
  /\ pc[r] = "create"
  /\ Answer(r, r)
  /\ Goto(r, IF r \in gated THEN "store" ELSE "done")
  /\ UNCHANGED <<gate, gated, orders, expiries, redisFaults, lostCommits>>

\* The transaction is rolled back.
CreateFails(r) ==
  /\ pc[r] = "create"
  /\ CreateError(r, "error")
  /\ UNCHANGED <<orders, lostCommits>>

\* The transaction commits but the connection breaks before the answer.
CreateUnheard(r) ==
  /\ pc[r] = "create"
  /\ lostCommits < MaxLostCommits
  /\ lostCommits' = lostCommits + 1
  /\ orders' = orders \cup {r}
  /\ CreateError(r, "error")

\* Set stores the order with a fresh TTL, whoever holds the key by now.
Store(r) ==
  /\ pc[r] = "store"
  /\ gate' = r
  /\ Goto(r, "done")
  /\ UNCHANGED <<gated, orders, reply, expiries, redisFaults, lostCommits>>

\* Del removes the key, whoever holds it by now.
Release(r) ==
  /\ pc[r] = "release"
  /\ gate' = Absent
  /\ Goto(r, "done")
  /\ UNCHANGED <<gated, orders, reply, expiries, redisFaults, lostCommits>>

\* The result of Set and of Del is not looked at. They fail in particular
\* when the request's context is cancelled.
StoreOrReleaseFails(r) ==
  /\ pc[r] \in {"store", "release"}
  /\ Goto(r, "done")
  /\ UNCHANGED <<gate, gated, orders, reply, expiries, redisFaults, lostCommits>>

\* go-redis repeats a Del whose answer is lost: others may claim in between.
ReleaseRepeated(r) ==
  /\ pc[r] = "release"
  /\ RedisFault
  /\ gate' = Absent
  /\ UNCHANGED <<pc, gated, orders, reply, expiries, lostCommits>>

\* The instance dies: the transaction in flight is rolled back, the key stays.
Crash(r) ==
  /\ pc[r] # "done"
  /\ Goto(r, "done")
  /\ UNCHANGED <<gate, gated, orders, reply, expiries, redisFaults, lostCommits>>

\* idempotencyTTL has passed since the last SetNX or Set.
Expire ==
  /\ gate # Absent
  /\ expiries < MaxExpiries
  /\ gate' = Absent
  /\ expiries' = expiries + 1
  /\ UNCHANGED <<pc, gated, orders, reply, redisFaults, lostCommits>>

-----------------------------------------------------------------------------
RequestStep(r) ==
  \/ Claim(r) \/ ClaimTaken(r) \/ ClaimFails(r) \/ ClaimRepeated(r)
  \/ Replay(r) \/ ReplayFails(r)
  \/ Validate(r)
  \/ Create(r) \/ CreateFails(r) \/ CreateUnheard(r)
  \/ Store(r) \/ Release(r) \/ StoreOrReleaseFails(r) \/ ReleaseRepeated(r)

Next ==
  \/ \E r \in Requests : RequestStep(r) \/ Crash(r)
  \/ Expire

Spec == Init /\ [][Next]_vars

-----------------------------------------------------------------------------
(* Properties *)

\* Requests that may still commit an order or still remove the key.
Holders == {r \in Requests : pc[r] \in {"validate", "create", "release"}}

\* Every way past the gate: a key that expired, a SetNX that failed, a Del that
\* was repeated, a commit reported as an error.
Leaks == expiries + redisFaults + lostCommits

\* The inductive form of OrdersBounded: an order, a request that may still make
\* one, and an open gate each use up one of the 1 + Leaks permits.
Permits ==
  Cardinality(orders) + Cardinality(Holders) + (IF gate = Absent THEN 1 ELSE 0)
    <= 1 + Leaks

\* Create: however requests with one Idempotency-Key overlap, fail and are
\* repeated, they make one order, plus at most one for each expiry, failed SetNX,
\* repeated Del and lost commit. A crash costs no duplicate, nor does a Set or
\* Del that is lost or that hits a claim no longer the request's own.
OrdersBounded == Cardinality(orders) <= 1 + Leaks

\* replayOrder and Create: an order that is answered was committed.
AnswersAreOrders == \A r \in Requests : reply[r] \in Requests => reply[r] \in orders
=============================================================================
