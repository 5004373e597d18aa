----------------------------- MODULE UserCache ------------------------------
(***************************************************************************)
(* ValidateUser of one user id through the cache-aside cache of            *)
(* common/xcache: GetOrLoad with singleflight and negative caching, on     *)
(* every instance of user-rpc, against one Redis key and the users table.  *)
(*                                                                         *)
(* Nothing invalidates the key when the user is created: a load that       *)
(* missed the user may store its negative marker long after the user       *)
(* exists. Only the TTL bounds that. OrderPlacement runs this module under *)
(* the requests that make the calls.                                       *)
(***************************************************************************)
EXTENDS Naturals

CONSTANTS
  Callers,       \* ValidateUser calls
  Instances,     \* instances of user-rpc, each with its own singleflight
  InstanceOf     \* caller -> instance that serves it

ASSUME InstanceOfAssumption == InstanceOf \in [Callers -> Instances]

VARIABLES
  exists,        \* the users table has the user
  cache,         \* the Redis key
  lookup,        \* per caller: where GetOrLoad is
  answer,        \* per caller: what ValidateUser answers
  flight         \* per instance: the singleflight call in progress

cacheVars == <<exists, cache, lookup, answer, flight>>

\* A key may also hold what an older version of the service has stored.
CacheValues == {"none", "positive", "negative", "unreadable"}
Loaded == {"positive", "negative", "error"}

CacheTypeOK ==
  /\ exists \in BOOLEAN
  /\ cache \in CacheValues
  /\ lookup \in [Callers -> {"get", "load", "wait", "done"}]
  /\ answer \in [Callers -> {"none", "exists", "missing", "error"}]
  /\ flight \in [Instances -> {"none", "loading"} \cup Loaded]

CacheInit ==
  /\ exists \in BOOLEAN
  /\ cache \in {"none", "unreadable"}
  /\ lookup = [c \in Callers |-> "get"]
  /\ answer = [c \in Callers |-> "none"]
  /\ flight = [i \in Instances |-> "none"]

-----------------------------------------------------------------------------
\* ErrMiss is answered as exists = false, any other error as itself.
AnswerFor(value) ==
  [positive |-> "exists", negative |-> "missing", error |-> "error"][value]

Return(c, value) ==
  /\ lookup' = [lookup EXCEPT ![c] = "done"]
  /\ answer' = [answer EXCEPT ![c] = AnswerFor(value)]

\* Redis answers with a value that can be used.
Hit(c) ==
  /\ lookup[c] = "get"
  /\ cache \in {"positive", "negative"}
  /\ Return(c, cache)
  /\ UNCHANGED <<exists, cache, flight>>

\* Redis has no value or does not answer: load. A value that cannot be decoded
\* is deleted first; the result of Del is not looked at.
Miss(c) ==
  /\ lookup[c] = "get"
  /\ cache' \in IF cache = "unreadable" THEN {"none", cache} ELSE {cache}
  /\ lookup' = [lookup EXCEPT ![c] = "load"]
  /\ UNCHANGED <<exists, answer, flight>>

\* singleflight: the first caller loads, the others wait for its result.
Join(c) ==
  /\ lookup[c] = "load"
  /\ lookup' = [lookup EXCEPT ![c] = "wait"]
  /\ flight' = [flight EXCEPT ![InstanceOf[c]] = IF @ = "none" THEN "loading" ELSE @]
  /\ UNCHANGED <<exists, cache, answer>>

\* FindByID finds the user or not, or fails, also when the context of the
\* caller that loads is cancelled.
Load(i) ==
  /\ flight[i] = "loading"
  /\ flight' = [flight EXCEPT ![i] = IF exists THEN "positive" ELSE "negative"]
  /\ UNCHANGED <<exists, cache, lookup, answer>>

\* Mutant: the loader takes every error of FindByID for ErrRecordNotFound.
LoadFails_AsMiss(i) ==
  /\ flight[i] = "loading"
  /\ flight' = [flight EXCEPT ![i] = "negative"]
  /\ UNCHANGED <<exists, cache, lookup, answer>>

LoadFails(i) ==
  /\ flight[i] = "loading"
  /\ flight' = [flight EXCEPT ![i] = "error"]
  /\ UNCHANGED <<exists, cache, lookup, answer>>

\* The call ends: everybody who waits returns its result.
EndFlight(i) ==
  LET waiting == {c \in Callers : InstanceOf[c] = i /\ lookup[c] = "wait"}
  IN /\ flight' = [flight EXCEPT ![i] = "none"]
     /\ lookup' = [c \in Callers |-> IF c \in waiting THEN "done" ELSE lookup[c]]
     /\ answer' = [c \in Callers |->
          IF c \in waiting THEN AnswerFor(flight[i]) ELSE answer[c]]

\* Mutant: errors are cached.
StoreEntry_Errors(i) ==
  /\ flight[i] \in Loaded
  /\ cache' \in {cache, flight[i]}
  /\ EndFlight(i)
  /\ UNCHANGED exists

\* Set of the positive value or of the negative marker with its TTL; an error
\* of Set is only logged, and errors are not cached.
StoreEntry(i) ==
  /\ flight[i] \in Loaded
  /\ cache' \in IF flight[i] = "error" THEN {cache} ELSE {cache, flight[i]}
  /\ EndFlight(i)
  /\ UNCHANGED exists

\* CreateUser commits. Users are never deleted.
CreateUser ==
  /\ ~exists
  /\ exists' = TRUE
  /\ UNCHANGED <<cache, lookup, answer, flight>>

\* Mutant: the negative marker has no TTL.
ExpireEntry_PositiveOnly ==
  /\ cache = "positive"
  /\ cache' = "none"
  /\ UNCHANGED <<exists, lookup, answer, flight>>

\* posTTL or negTTL has passed.
ExpireEntry ==
  /\ cache \in {"positive", "negative", "unreadable"}
  /\ cache' = "none"
  /\ UNCHANGED <<exists, lookup, answer, flight>>

-----------------------------------------------------------------------------
CallerStep(c) == Hit(c) \/ Miss(c) \/ Join(c)
FlightStep(i) == Load(i) \/ LoadFails(i) \/ StoreEntry(i)

CacheNext ==
  \/ \E c \in Callers : CallerStep(c)
  \/ \E i \in Instances : FlightStep(i)
  \/ CreateUser
  \/ ExpireEntry

CacheSpec == CacheInit /\ [][CacheNext]_cacheVars

-----------------------------------------------------------------------------
(* Properties *)

\* The package comment of xcache: a missing invalidation is bounded by the TTL.
\* Once the user exists the negative marker disappears for good, although loads
\* that started before may still store it.
NegativeIsTemporary == exists ~> [](cache # "negative")
=============================================================================
