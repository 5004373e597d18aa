--------------------------- MODULE OrderPlacement ---------------------------
(***************************************************************************)
(* POST /orders across two services: the requests of OrderGate validate    *)
(* their user by calling user-rpc's ValidateUser, which UserCache answers. *)
(*                                                                         *)
(* RetryUnaryInterceptor repeats a call that times out, on another         *)
(* instance perhaps, while user-rpc may still be executing the first one:  *)
(* a call is a pair <<request, attempt>>, and the answers of all attempts  *)
(* but the last are heard by nobody although they still fill the cache.    *)
(***************************************************************************)
EXTENDS OrderGate, UserCache

CONSTANT MaxAttempts     \* request -> maxRetryAttempts (3 in client/retry.go)

ASSUME AttemptsAssumption == MaxAttempts \in [Requests -> Nat \ {0}]
\* Every attempt is a call of its own.
ASSUME CallersAssumption ==
  Callers = UNION {{r} \X (1..MaxAttempts[r]) : r \in Requests}

VARIABLE attempt         \* per request: attempts of ValidateUser sent so far

allVars == <<vars, cacheVars, attempt>>

PlacementTypeOK ==
  /\ TypeOK
  /\ CacheTypeOK
  /\ attempt \in [Requests -> Nat]
  /\ \A r \in Requests : attempt[r] <= MaxAttempts[r]

PlacementInit ==
  /\ Init
  /\ CacheInit
  /\ attempt = [r \in Requests |-> 0]

-----------------------------------------------------------------------------
Sent(c) == c[2] <= attempt[c[1]]

\* The first attempt, or the next one after DeadlineExceeded or Unavailable.
CallValidateUser(r) ==
  /\ pc[r] = "validate"
  /\ attempt[r] < MaxAttempts[r]
  /\ attempt' = [attempt EXCEPT ![r] = @ + 1]
  /\ UNCHANGED <<vars, cacheVars>>

\* The answer of the attempt the request is waiting for.
Heard(r) == IF attempt[r] = 0 THEN "none" ELSE answer[<<r, attempt[r]>>]

\* Mutant: a ValidateUser that fails is taken for a user that exists.
MindsAnswer_FailOpen(r) ==
  /\ pc'[r] = "create" => Heard(r) # "missing"
  /\ reply'[r] = "user_not_found" => Heard(r) = "missing"

\* createOrder goes on only for Exists = true and answers ErrUserNotFound only
\* for Exists = false. An error comes from user-rpc or from the call itself:
\* the last attempt times out, the breaker rejects, the context ends.
MindsAnswer(r) ==
  /\ pc'[r] = "create" => Heard(r) = "exists"
  /\ reply'[r] = "user_not_found" => Heard(r) = "missing"

Request(r) ==
  /\ RequestStep(r)
  /\ pc[r] = "validate" => MindsAnswer(r)
  /\ UNCHANGED <<cacheVars, attempt>>

Environment ==
  /\ Expire \/ \E r \in Requests : Crash(r)
  /\ UNCHANGED <<cacheVars, attempt>>

\* user-rpc serves the calls that were sent, heard or not.
Serve(c) ==
  /\ Sent(c)
  /\ CallerStep(c)
  /\ UNCHANGED <<vars, attempt>>

Fly(i) == FlightStep(i) /\ UNCHANGED <<vars, attempt>>

UserStep == (CreateUser \/ ExpireEntry) /\ UNCHANGED <<vars, attempt>>

PlacementNext ==
  \/ \E r \in Requests : CallValidateUser(r) \/ Request(r)
  \/ \E c \in Callers : Serve(c)
  \/ \E i \in Instances : Fly(i)
  \/ UserStep
  \/ Environment

PlacementSpec == PlacementInit /\ [][PlacementNext]_allVars

\* singleflight's goroutine is scheduled, its calls to Redis and MySQL end, and
\* TTLs pass.
FairPlacementSpec ==
  /\ PlacementSpec
  /\ \A i \in Instances : WF_allVars(Fly(i))
  /\ WF_allVars(ExpireEntry /\ UNCHANGED <<vars, attempt>>)

-----------------------------------------------------------------------------
(* Properties *)

\* createOrder and GetOrLoad: an order is committed only for a user that
\* user-rpc has, and nobody is told of a user it has not, whichever attempt,
\* instance or cache entry vouches for it and however late it was stored.
OrdersHaveUsers == ~exists =>
  orders = {} /\ \A c \in Callers : answer[c] # "exists"

\* Nobody has looked for the user in vain and could still say so.
NoMissOnItsWay ==
  /\ cache # "negative"
  /\ \A i \in Instances : flight[i] # "negative"
  /\ \A c \in Callers : answer[c] # "missing"
  /\ \A r \in Requests : reply[r] # "user_not_found"

\* GetOrLoad shares one load, made with the context of its first caller, among
\* all who wait, and its error with it: a load that fails or is cancelled, a
\* call that times out and is repeated, and a cache that loses its entries may
\* cost the requests of a known user an error, but none of them is ever told
\* that the user does not exist.
KnownStaysKnown ==
  [](exists /\ NoMissOnItsWay => [](\A r \in Requests : reply[r] # "user_not_found"))
=============================================================================
