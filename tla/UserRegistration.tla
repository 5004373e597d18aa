-------------------------- MODULE UserRegistration --------------------------
(***************************************************************************)
(* Registration: user-api's Register calls user-rpc's CreateUser through   *)
(* the retrying client of common/client/retry.go; CreateUser checks the    *)
(* name and the email, then inserts the user and its UserRegistered event  *)
(* in one transaction; order-api copies the event into known_users. Login  *)
(* calls Authenticate and puts the user it finds into a token.             *)
(*                                                                         *)
(* A client that times out sends the call again while the server may still *)
(* be executing the first one: CreateUser's transaction does not use the   *)
(* request's context. Every execution is a handler <<call, attempt>>, and  *)
(* a user is named by the handler that inserted it.                        *)
(***************************************************************************)
EXTENDS Naturals

CONSTANTS
  Calls,         \* POST /register requests
  NameOf,        \* call -> username
  EmailOf,       \* call -> email
  PasswordOf,    \* call -> password
  MaxAttempts    \* maxRetryAttempts (3 in the code)

ASSUME MaxAttemptsAssumption == MaxAttempts \in Nat \ {0}

VARIABLES
  users,         \* the users table: handlers whose row is committed
  outbox,        \* outbox_events of users_db: UserRegistered events
  known,         \* known_users of orders_db
  processed,     \* processed_events of orders_db
  pc,            \* per handler: where CreateUser is, or its result
  attempt,       \* per call: attempts sent so far
  reply,         \* per call: what Register answers
  login,         \* per call: what the last Login with its credentials answers
  tokens         \* per call: users in the tokens issued for its credentials

sessionVars == <<login, tokens>>
vars == <<users, outbox, known, processed, pc, attempt, reply, sessionVars>>

Handlers == Calls \X (1..MaxAttempts)
Results  == {"ok", "exists", "internal"}

TypeOK ==
  /\ users \subseteq Handlers
  /\ outbox \subseteq Handlers
  /\ known \subseteq Handlers
  /\ processed \subseteq Handlers
  /\ pc \in [Handlers -> Results \cup
       {"unsent", "username", "email", "insert", "outbox", "commit", "dead"}]
  /\ attempt \in [Calls -> 0..MaxAttempts]
  /\ reply \in [Calls -> {"none", "created", "exists", "error"}]
  /\ login \in [Calls -> {"none", "token", "denied", "error"}]
  /\ tokens \in [Calls -> SUBSET Handlers]

Init ==
  /\ users = {}
  /\ outbox = {}
  /\ known = {}
  /\ processed = {}
  /\ pc = [h \in Handlers |-> "unsent"]
  /\ attempt = [c \in Calls |-> 0]
  /\ reply = [c \in Calls |-> "none"]
  /\ login = [c \in Calls |-> "none"]
  /\ tokens = [c \in Calls |-> {}]

-----------------------------------------------------------------------------
(* The client: Register and RetryUnaryInterceptor *)

Send(c, k) ==
  /\ attempt' = [attempt EXCEPT ![c] = k]
  /\ pc' = [pc EXCEPT ![<<c, k>>] = "username"]

Register(c) ==
  /\ attempt[c] = 0
  /\ reply[c] = "none"
  /\ Send(c, 1)
  /\ UNCHANGED <<users, outbox, known, processed, reply, sessionVars>>

Waiting(c) == attempt[c] > 0 /\ reply[c] = "none"

\* Mutant: the code of the RPC is passed on as it is.
Hear_RawCode(c) ==
  LET result == pc[<<c, attempt[c]>>]
  IN /\ Waiting(c)
     /\ result \in Results
     /\ reply' = [reply EXCEPT ![c] = IF result = "ok" THEN "created" ELSE result]
     /\ UNCHANGED <<users, outbox, known, processed, pc, attempt, sessionVars>>

\* The result arrives. Neither AlreadyExists nor Internal is retryable.
Hear(c) ==
  LET result == pc[<<c, attempt[c]>>]
  IN /\ Waiting(c)
     /\ result \in Results
     /\ reply' = [reply EXCEPT ![c] =
          [ok |-> "created", exists |-> "exists", internal |-> "error"][result]]
     /\ UNCHANGED <<users, outbox, known, processed, pc, attempt, sessionVars>>

\* Unavailable, DeadlineExceeded or ResourceExhausted, whatever becomes of the
\* call on the server: try again, or return the error of the last attempt.
Unheard(c) ==
  /\ Waiting(c)
  /\ IF attempt[c] < MaxAttempts
     THEN Send(c, attempt[c] + 1) /\ UNCHANGED reply
     ELSE reply' = [reply EXCEPT ![c] = "error"] /\ UNCHANGED <<pc, attempt>>
  /\ UNCHANGED <<users, outbox, known, processed, sessionVars>>

\* The caller's context ends during the backoff, or the breaker rejects.
GiveUp(c) ==
  /\ Waiting(c)
  /\ reply' = [reply EXCEPT ![c] = "error"]
  /\ UNCHANGED <<users, outbox, known, processed, pc, attempt, sessionVars>>

-----------------------------------------------------------------------------
(* The server: CreateUser *)

Goto(h, label) == pc' = [pc EXCEPT ![h] = label]

SameName(h, g)  == NameOf[h[1]] = NameOf[g[1]]
SameEmail(h, g) == EmailOf[h[1]] = EmailOf[g[1]]

\* FindByUsername: found, not found, or an error (a cancelled context).
CheckUsername(h) ==
  /\ pc[h] = "username"
  /\ \/ Goto(h, IF \E u \in users : SameName(h, u) THEN "exists" ELSE "email")
     \/ Goto(h, "internal")
  /\ UNCHANGED <<users, outbox, known, processed, attempt, reply, sessionVars>>

\* FindByEmail, the password hash and Begin likewise.
CheckEmail(h) ==
  /\ pc[h] = "email"
  /\ \/ Goto(h, IF \E u \in users : SameEmail(h, u) THEN "exists" ELSE "insert")
     \/ Goto(h, "internal")
  /\ UNCHANGED <<users, outbox, known, processed, attempt, reply, sessionVars>>

\* Rows inserted by transactions that have not ended: they hold their entries
\* of both unique indexes.
Uncommitted == {h \in Handlers : pc[h] \in {"outbox", "commit"}}

\* Mutant: the indexes are not unique.
Conflicts_NoIndex(h, S) == {}

\* Rows of S that collide with h in idx_users_username or idx_users_email.
Conflicts(h, S) == {g \in S : SameName(h, g) \/ SameEmail(h, g)}

\* The INSERT succeeds. It waits while an uncommitted row collides with it.
Insert(h) ==
  /\ pc[h] = "insert"
  /\ Conflicts(h, users \cup Uncommitted) = {}
  /\ Goto(h, "outbox")
  /\ UNCHANGED <<users, outbox, known, processed, attempt, reply, sessionVars>>

\* Error 1062: a concurrent registration has passed the same checks and won.
InsertDuplicate(h) ==
  /\ pc[h] = "insert"
  /\ Conflicts(h, users) # {}
  /\ Goto(h, "exists")
  /\ UNCHANGED <<users, outbox, known, processed, attempt, reply, sessionVars>>

\* Any other error the server reports, a lock wait, a deadlock or a value that
\* does not fit, is a MySQLError too: the code does not look at the number, and
\* there need not be a user whose name or email is taken.
InsertOtherError(h) ==
  /\ pc[h] = "insert"
  /\ Goto(h, "exists")
  /\ UNCHANGED <<users, outbox, known, processed, attempt, reply, sessionVars>>

\* Mutant: the event is inserted outside the transaction.
WriteOutbox_OwnTx(h) ==
  /\ pc[h] = "outbox"
  /\ Goto(h, "commit")
  /\ outbox' = outbox \cup {h}
  /\ UNCHANGED <<users, known, processed, attempt, reply, sessionVars>>

\* The event is inserted in the same transaction.
WriteOutbox(h) ==
  /\ pc[h] = "outbox"
  /\ Goto(h, "commit")
  /\ UNCHANGED <<users, outbox, known, processed, attempt, reply, sessionVars>>

\* What COMMIT makes visible.
Committed(h) ==
  /\ pc[h] = "commit"
  /\ users' = users \cup {h}
  /\ outbox' = outbox \cup {h}
  /\ UNCHANGED <<known, processed, attempt, reply, sessionVars>>

Commit(h) == Committed(h) /\ Goto(h, "ok")

\* COMMIT succeeds but its answer is lost.
CommitUnheard(h) == Committed(h) /\ Goto(h, "internal")

\* Mutant: the error of COMMIT is not looked at.
RolledBack_Unnoticed(h) ==
  /\ pc[h] \in {"insert", "outbox", "commit"}
  /\ Goto(h, IF pc[h] = "commit" THEN "ok" ELSE "internal")
  /\ UNCHANGED <<users, outbox, known, processed, attempt, reply, sessionVars>>

\* Any other error of the INSERTs or of COMMIT: the transaction leaves nothing.
RolledBack(h) ==
  /\ pc[h] \in {"insert", "outbox", "commit"}
  /\ Goto(h, "internal")
  /\ UNCHANGED <<users, outbox, known, processed, attempt, reply, sessionVars>>

\* The call is lost on its way, or the server dies or panics while at it.
Dies(h) ==
  /\ pc[h] \in {"username", "email", "insert", "outbox", "commit"}
  /\ Goto(h, "dead")
  /\ UNCHANGED <<users, outbox, known, processed, attempt, reply, sessionVars>>

-----------------------------------------------------------------------------
(* Login and Authenticate *)

LoginAnswers(c, answer) ==
  /\ login' = [login EXCEPT ![c] = answer]
  /\ UNCHANGED <<users, outbox, known, processed, pc, attempt, reply>>

\* FindByUsername finds a user and the password matches its hash: the token
\* carries the id of that user.
Login(c) == \E u \in users :
  /\ NameOf[u[1]] = NameOf[c]
  /\ PasswordOf[u[1]] = PasswordOf[c]
  /\ tokens' = [tokens EXCEPT ![c] = @ \cup {u}]
  /\ LoginAnswers(c, "token")

\* No such user or another password: both are answered the same way.
LoginDenied(c) ==
  /\ \/ \A u \in users : NameOf[u[1]] # NameOf[c]
     \/ \E u \in users : NameOf[u[1]] = NameOf[c] /\ PasswordOf[u[1]] # PasswordOf[c]
  /\ LoginAnswers(c, "denied")
  /\ UNCHANGED tokens

\* The query or, after its retries, the call fails.
LoginFails(c) == LoginAnswers(c, "error") /\ UNCHANGED tokens

-----------------------------------------------------------------------------
(* order-api: handleUserEvent *)

\* known_users has one row per user; writing it again leaves one row.
UpsertKnownUser(e) == known' = known \cup {e}

\* A UserRegistered event that is new is upserted into known_users; one that
\* is redelivered changes nothing. Outbox.tla and Consumer.tla say how it gets
\* here.
handleUserEvent(e) ==
  /\ e \in outbox
  /\ e \notin processed
  /\ processed' = processed \cup {e}
  /\ UpsertKnownUser(e)
  /\ UNCHANGED <<users, outbox, pc, attempt, reply, sessionVars>>

-----------------------------------------------------------------------------
ClientStep(c) == Hear(c) \/ Unheard(c) \/ GiveUp(c)

CreateUser(h) ==
  \/ CheckUsername(h) \/ CheckEmail(h)
  \/ Insert(h) \/ InsertDuplicate(h) \/ InsertOtherError(h)
  \/ WriteOutbox(h)
  \/ Commit(h) \/ CommitUnheard(h) \/ RolledBack(h)

Next ==
  \/ \E c \in Calls : Register(c) \/ ClientStep(c)
  \/ \E c \in Calls : Login(c) \/ LoginDenied(c) \/ LoginFails(c)
  \/ \E h \in Handlers : CreateUser(h) \/ Dies(h)
  \/ \E e \in Handlers : handleUserEvent(e)

Spec == Init /\ [][Next]_vars

-----------------------------------------------------------------------------
(* Properties *)

\* CreateUser: names and emails are unique although registrations check them
\* outside the transaction, concurrently, and again when a call is retried.
KeysUnique == \A g, h \in users : g # h => ~SameName(g, h) /\ ~SameEmail(g, h)

\* A user and its UserRegistered event are committed together, whatever fails
\* in between, and order-api knows nobody whom user-rpc has not registered.
EventsMatchUsers == outbox = users /\ known \subseteq users

\* Whoever was told "created" gets in with the credentials of that call, as the
\* user that call has inserted, unless Login itself fails: no attempt that was
\* retried, lost or rolled back, and no competing registration, comes between.
CreatedCanLogin == [][\A c \in Calls : reply[c] = "created" =>
  /\ login'[c] = "denied" => login[c] = "denied"
  /\ \A u \in tokens'[c] : u[1] = c]_vars

\* A name stands for one person: all tokens ever issued under it carry the same
\* user id, whatever the order of registrations and logins.
TokensAgree == \A c, d \in Calls : NameOf[c] = NameOf[d] =>
  \A u \in tokens[c], v \in tokens[d] : u = v
=============================================================================
