------------------------- MODULE RegistrationProofs -------------------------
(***************************************************************************)
(* Proofs about UserRegistration: unique keys, users and events committed  *)
(* together, one identity per name, and a login for everybody who was told *)
(* "created"; for any registrations and any number of attempts.            *)
(***************************************************************************)
EXTENDS UserRegistration, TLAPS

\* Rows that are in the table or will be if their transaction commits.
Rows == users \cup Uncommitted

\* What makes KeysUnique inductive: the indexes keep uncommitted rows apart from
\* each other and from the committed ones.
RowsUnique == \A g, h \in Rows : g # h => ~SameName(g, h) /\ ~SameEmail(g, h)

\* CreateUser answers OK, and Register "created", only after a commit.
AnswersCommitted ==
  /\ \A h \in Handlers : pc[h] = "ok" => h \in users
  /\ \A c \in Calls : reply[c] = "created" =>
       \E k \in 1..MaxAttempts : <<c, k>> \in users

\* A token carries a user of the name that logged in.
TokensNamed == \A c \in Calls : \A u \in tokens[c] :
  u \in users /\ NameOf[u[1]] = NameOf[c]

RInv == TypeOK /\ RowsUnique /\ EventsMatchUsers /\ AnswersCommitted /\ TokensNamed

-----------------------------------------------------------------------------
\* The invariant holds with an empty table.
LEMMA RegistrationInit == Init => RInv
<1> SUFFICES ASSUME Init PROVE RInv
  OBVIOUS
<1>1. TypeOK
  BY MaxAttemptsAssumption DEF Init, TypeOK
<1>2. RowsUnique
  BY DEF Init, RowsUnique, Rows, Uncommitted
<1>3. EventsMatchUsers /\ TokensNamed
  BY DEF Init, EventsMatchUsers, TokensNamed
<1>4. AnswersCommitted
  BY DEF Init, AnswersCommitted
<1> QED
  BY <1>1, <1>2, <1>3, <1>4 DEF RInv

\* Three kinds of steps: a commit, an insert, and all others, which add no row.
StepAddsNoRow == users' = users /\ outbox' = outbox /\ Uncommitted' \subseteq Uncommitted

\* Each attempt of a call has a handler of its own on the server.
LEMMA AttemptIsHandler ==
  ASSUME NEW c \in Calls, NEW k \in 1..MaxAttempts
  PROVE  <<c, k>> \in Handlers
BY DEF Handlers

\* What each step of the client does to the handlers.
LEMMA ClientStepRows ==
  ASSUME TypeOK, NEW c \in Calls, Register(c) \/ ClientStep(c)
  PROVE  /\ StepAddsNoRow
         /\ known' = known /\ tokens' = tokens /\ login' = login
         /\ \A h \in Handlers : pc'[h] \in {pc[h], "username"}
<1>1. CASE \E k \in 1..MaxAttempts : Send(c, k) /\ users' = users /\ outbox' = outbox
  <2>1. PICK k \in 1..MaxAttempts : Send(c, k)
    BY <1>1
  <2>2. \A h \in Handlers : pc'[h] \in {pc[h], "username"}
    BY <2>1, AttemptIsHandler DEF Send, TypeOK
  <2>3. StepAddsNoRow
    BY <1>1, <2>2 DEF StepAddsNoRow, Uncommitted
  <2> QED
    BY <2>2, <2>3 DEF Register, ClientStep, Hear, Unheard, GiveUp, sessionVars
<1>2. CASE UNCHANGED <<users, outbox, pc>>
  BY <1>2 DEF StepAddsNoRow, Uncommitted, Register, ClientStep, Hear, Unheard, GiveUp,
     sessionVars
<1>3. CASE Register(c)
  <2>1. 1 \in 1..MaxAttempts
    BY MaxAttemptsAssumption
  <2> QED
    BY <1>1, <1>3, <2>1 DEF Register
<1>4. CASE ClientStep(c)
  <2>1. ASSUME Unheard(c), attempt[c] < MaxAttempts
        PROVE  attempt[c] + 1 \in 1..MaxAttempts
    BY <2>1, MaxAttemptsAssumption DEF TypeOK
  <2> QED
    BY <1>1, <1>2, <1>4, <2>1 DEF ClientStep, Hear, Unheard, GiveUp
<1> QED
  BY <1>3, <1>4

-----------------------------------------------------------------------------
\* Every step keeps the types.
LEMMA TypeStep ==
  ASSUME TypeOK, [Next]_vars
  PROVE  TypeOK'
<1> USE DEF TypeOK, Results
<1>1. ASSUME NEW c \in Calls, NEW k \in 1..MaxAttempts, Send(c, k)
      PROVE  /\ attempt' \in [Calls -> 0..MaxAttempts]
             /\ pc' \in [Handlers -> Results \cup
                  {"unsent", "username", "email", "insert", "outbox", "commit", "dead"}]
  <2>1. attempt' = [attempt EXCEPT ![c] = k] /\ k \in 0..MaxAttempts
    BY <1>1, MaxAttemptsAssumption DEF Send
  <2>2. pc' = [pc EXCEPT ![<<c, k>>] = "username"]
    BY <1>1 DEF Send
  <2>3. attempt' \in [Calls -> 0..MaxAttempts]
    BY <2>1
  <2> QED
    BY <2>2, <2>3
<1>2. ASSUME NEW c \in Calls, Register(c) PROVE TypeOK'
  <2>1. 1 \in 1..MaxAttempts
    BY MaxAttemptsAssumption
  <2> QED
    BY <1>1, <1>2, <2>1 DEF Register, sessionVars
<1>3. ASSUME NEW c \in Calls, Hear(c) PROVE TypeOK'
  <2> DEFINE result == pc[<<c, attempt[c]>>]
  <2>1. [ok |-> "created", exists |-> "exists", internal |-> "error"][result]
          \in {"created", "exists", "error"}
    BY <1>3 DEF Hear
  <2> QED
    BY <1>3, <2>1 DEF Hear, sessionVars
<1>4. ASSUME NEW c \in Calls, Unheard(c) PROVE TypeOK'
  <2>1. CASE attempt[c] < MaxAttempts
    <3>1. attempt[c] + 1 \in 1..MaxAttempts
      BY <2>1, MaxAttemptsAssumption
    <3> QED
      BY <1>1, <1>4, <2>1, <3>1 DEF Unheard, sessionVars
  <2>2. CASE ~(attempt[c] < MaxAttempts)
    BY <1>4, <2>2 DEF Unheard, sessionVars
  <2> QED
    BY <2>1, <2>2
<1>5. ASSUME NEW c \in Calls, GiveUp(c) PROVE TypeOK'
  BY <1>5 DEF GiveUp, sessionVars
<1>6. ASSUME NEW c \in Calls, Login(c) \/ LoginDenied(c) \/ LoginFails(c) PROVE TypeOK'
  BY <1>6 DEF Login, LoginDenied, LoginFails, LoginAnswers
<1>7. ASSUME NEW h \in Handlers, CheckUsername(h) \/ CheckEmail(h) PROVE TypeOK'
  BY <1>7 DEF CheckUsername, CheckEmail, Goto, sessionVars
<1>8. ASSUME NEW h \in Handlers, Insert(h) \/ InsertDuplicate(h) \/ InsertOtherError(h)
      PROVE  TypeOK'
  BY <1>8 DEF Insert, InsertDuplicate, InsertOtherError, Goto, sessionVars
<1>9. ASSUME NEW h \in Handlers, WriteOutbox(h) \/ RolledBack(h) \/ Dies(h) PROVE TypeOK'
  BY <1>9 DEF WriteOutbox, RolledBack, Dies, Goto, sessionVars
<1>10. ASSUME NEW h \in Handlers, Commit(h) \/ CommitUnheard(h) PROVE TypeOK'
  BY <1>10 DEF Commit, CommitUnheard, Committed, Goto, sessionVars
<1>11. ASSUME NEW e \in Handlers, handleUserEvent(e) PROVE TypeOK'
  BY <1>11 DEF handleUserEvent, UpsertKnownUser, sessionVars
<1>12. CASE UNCHANGED vars
  BY <1>12 DEF vars, sessionVars
<1> QED
  BY <1>2, <1>3, <1>4, <1>5, <1>6, <1>7, <1>8, <1>9, <1>10, <1>11, <1>12
     DEF Next, ClientStep, CreateUser

-----------------------------------------------------------------------------
\* A handler that moves without inserting or committing adds no row.
LEMMA HandlerStepRows ==
  ASSUME TypeOK, NEW h \in Handlers,
         \/ CheckUsername(h) \/ CheckEmail(h) \/ InsertDuplicate(h) \/ InsertOtherError(h)
         \/ WriteOutbox(h) \/ RolledBack(h) \/ Dies(h)
  PROVE  /\ StepAddsNoRow
         /\ UNCHANGED <<known, tokens, login, reply>>
         /\ \A g \in Handlers : pc'[g] = "ok" => pc[g] = "ok"
<1>1. UNCHANGED <<users, outbox, known, tokens, login, reply>>
  BY DEF CheckUsername, CheckEmail, InsertDuplicate, InsertOtherError, WriteOutbox,
     RolledBack, Dies, sessionVars
<1>2. PICK label \in {"exists", "email", "insert", "internal", "commit", "dead"} :
        /\ Goto(h, label)
        /\ label = "commit" => pc[h] = "outbox"
  BY DEF CheckUsername, CheckEmail, InsertDuplicate, InsertOtherError, WriteOutbox,
     RolledBack, Dies
<1>3. pc' = [pc EXCEPT ![h] = label]
  BY <1>2 DEF Goto
<1>4. Uncommitted' \subseteq Uncommitted
  BY <1>2, <1>3 DEF Uncommitted, TypeOK
<1>5. \A g \in Handlers : pc'[g] = "ok" => pc[g] = "ok"
  BY <1>2, <1>3 DEF TypeOK
<1> QED
  BY <1>1, <1>4, <1>5 DEF StepAddsNoRow

\* Steps that add no row keep what rows, events and answers promise.
LEMMA NoRowKeeps ==
  ASSUME RInv, StepAddsNoRow, UNCHANGED <<known, tokens>>,
         \A g \in Handlers : pc'[g] = "ok" => pc[g] = "ok",
         \A c \in Calls : reply'[c] = "created" =>
           reply[c] = "created" \/ \E k \in 1..MaxAttempts : pc[<<c, k>>] = "ok"
  PROVE  RowsUnique' /\ EventsMatchUsers' /\ AnswersCommitted' /\ TokensNamed'
<1>1. RowsUnique'
  <2>1. Rows' \subseteq Rows
    BY DEF Rows, StepAddsNoRow
  <2> QED
    BY <2>1 DEF RInv, RowsUnique, SameName, SameEmail
<1>2. EventsMatchUsers' /\ TokensNamed'
  BY DEF RInv, StepAddsNoRow, EventsMatchUsers, TokensNamed
<1>3. AnswersCommitted'
  <2>1. ASSUME NEW c \in Calls, reply'[c] = "created"
        PROVE  \E k \in 1..MaxAttempts : <<c, k>> \in users
    <3>1. CASE reply[c] = "created"
      BY <3>1 DEF RInv, AnswersCommitted
    <3>2. ASSUME NEW k \in 1..MaxAttempts, pc[<<c, k>>] = "ok"
          PROVE  <<c, k>> \in users
      BY <3>2, AttemptIsHandler DEF RInv, AnswersCommitted
    <3> QED
      BY <2>1, <3>1, <3>2
  <2> QED
    BY <2>1 DEF RInv, StepAddsNoRow, AnswersCommitted
<1> QED
  BY <1>1, <1>2, <1>3

\* Register answers "created" only for a handler that answered OK.
LEMMA CreatedWasOk ==
  ASSUME TypeOK, NEW c \in Calls, Register(c) \/ ClientStep(c),
         NEW d \in Calls, reply'[d] = "created"
  PROVE  reply[d] = "created" \/ \E k \in 1..MaxAttempts : pc[<<d, k>>] = "ok"
<1>1. CASE Hear(c)
  <2> DEFINE result == pc[<<c, attempt[c]>>]
  <2>1. attempt[c] \in 1..MaxAttempts
    BY <1>1, MaxAttemptsAssumption DEF Hear, Waiting, TypeOK
  <2>2. /\ result \in {"ok", "exists", "internal"}
        /\ reply' = [reply EXCEPT ![c] =
             [ok |-> "created", exists |-> "exists", internal |-> "error"][result]]
    BY <1>1 DEF Hear, Results
  <2>3. result # "ok" =>
          [ok |-> "created", exists |-> "exists", internal |-> "error"][result] # "created"
    BY <2>2
  <2> HIDE DEF result
  <2>4. reply'[d] = reply[d] \/ (d = c /\ result = "ok")
    BY <2>2, <2>3 DEF TypeOK
  <2> QED
    BY <2>1, <2>4 DEF result
<1>2. CASE Register(c) \/ Unheard(c) \/ GiveUp(c)
  BY <1>2 DEF Register, Unheard, GiveUp, TypeOK
<1> QED
  BY <1>1, <1>2 DEF ClientStep

\* Every step of clients, handlers and consumers keeps the invariant.
LEMMA RegistrationStep ==
  ASSUME RInv, [Next]_vars
  PROVE  RInv'
<1> DEFINE Kept == RowsUnique' /\ EventsMatchUsers' /\ AnswersCommitted' /\ TokensNamed'
<1>1. TypeOK /\ TypeOK'
  BY TypeStep DEF RInv
<1>2. ASSUME NEW c \in Calls, Register(c) \/ ClientStep(c) PROVE Kept
  <2>1. \A g \in Handlers : pc'[g] = "ok" => pc[g] = "ok"
    BY <1>1, <1>2, ClientStepRows
  <2> QED
    BY <1>1, <1>2, <2>1, ClientStepRows, CreatedWasOk, NoRowKeeps
<1>3. ASSUME NEW c \in Calls, Login(c) \/ LoginDenied(c) \/ LoginFails(c) PROVE Kept
  <2>1. UNCHANGED <<users, outbox, known, pc, reply>>
    BY <1>3 DEF Login, LoginDenied, LoginFails, LoginAnswers
  <2>2. RowsUnique' /\ EventsMatchUsers' /\ AnswersCommitted'
    BY <2>1 DEF RInv, RowsUnique, Rows, Uncommitted, SameName, SameEmail,
       EventsMatchUsers, AnswersCommitted
  <2>3. TokensNamed'
    BY <1>1, <1>3, <2>1 DEF Login, LoginDenied, LoginFails, TokensNamed, RInv, TypeOK
  <2> QED
    BY <2>2, <2>3
<1>4. ASSUME NEW h \in Handlers,
             \/ CheckUsername(h) \/ CheckEmail(h) \/ InsertDuplicate(h)
             \/ InsertOtherError(h) \/ WriteOutbox(h) \/ RolledBack(h) \/ Dies(h)
      PROVE  Kept
  BY <1>1, <1>4, HandlerStepRows, NoRowKeeps
<1>5. ASSUME NEW h \in Handlers, Insert(h) PROVE Kept
  <2>1. pc' = [pc EXCEPT ![h] = "outbox"] /\ UNCHANGED <<users, outbox, known, reply, tokens>>
    BY <1>5 DEF Insert, Goto, sessionVars
  <2>2. Rows' = Rows \cup {h}
    BY <1>1, <2>1 DEF Rows, Uncommitted, TypeOK
  <2>3. \A g \in Rows : ~SameName(h, g) /\ ~SameEmail(h, g)
    BY <1>5 DEF Insert, Conflicts, Rows
  <2>4. RowsUnique'
    BY <2>2, <2>3 DEF RInv, RowsUnique, SameName, SameEmail
  <2>5. EventsMatchUsers' /\ AnswersCommitted' /\ TokensNamed'
    BY <1>1, <2>1 DEF RInv, EventsMatchUsers, AnswersCommitted, TokensNamed, TypeOK
  <2> QED
    BY <2>4, <2>5
<1>6. ASSUME NEW h \in Handlers, Commit(h) \/ CommitUnheard(h) PROVE Kept
  <2>1. /\ pc[h] = "commit"
        /\ pc' = [pc EXCEPT ![h] = "ok"] \/ pc' = [pc EXCEPT ![h] = "internal"]
        /\ users' = users \cup {h} /\ outbox' = outbox \cup {h}
        /\ UNCHANGED <<known, reply, tokens>>
    BY <1>6 DEF Commit, CommitUnheard, Committed, Goto, sessionVars
  <2>2. Rows' \subseteq Rows
    BY <1>1, <2>1 DEF Rows, Uncommitted, TypeOK
  <2>3. RowsUnique'
    BY <2>2 DEF RInv, RowsUnique, SameName, SameEmail
  <2>4. EventsMatchUsers' /\ AnswersCommitted' /\ TokensNamed'
    BY <1>1, <2>1 DEF RInv, EventsMatchUsers, AnswersCommitted, TokensNamed, TypeOK
  <2> QED
    BY <2>3, <2>4
<1>7. ASSUME NEW e \in Handlers, handleUserEvent(e) PROVE Kept
  BY <1>7 DEF handleUserEvent, UpsertKnownUser, sessionVars, RInv, RowsUnique, Rows,
     Uncommitted, SameName, SameEmail, EventsMatchUsers, AnswersCommitted, TokensNamed
<1>8. ASSUME UNCHANGED vars PROVE Kept
  BY <1>8 DEF vars, sessionVars, RInv, RowsUnique, Rows, Uncommitted, SameName,
     SameEmail, EventsMatchUsers, AnswersCommitted, TokensNamed
<1>9. Kept
  BY <1>2, <1>3, <1>4, <1>5, <1>6, <1>7, <1>8 DEF Next, CreateUser
<1> QED
  BY <1>1, <1>9 DEF RInv

-----------------------------------------------------------------------------
\* The inductive invariant of registration and login.
THEOREM RegistrationInvariant == Spec => []RInv
<1>1. RInv /\ [Next]_vars => RInv'
  BY RegistrationStep
<1> QED
  BY RegistrationInit, <1>1, PTL DEF Spec

\* CreateUser keeps names and emails unique, for any number of concurrent and
\* retried registrations.
THEOREM NamesAndEmailsUnique == Spec => []KeysUnique
<1>1. RInv => KeysUnique
  BY DEF RInv, RowsUnique, Rows, KeysUnique
<1> QED
  BY RegistrationInvariant, <1>1, PTL

\* The users table and the outbox of user-rpc agree, and order-api knows nobody
\* else.
THEOREM EventsTellTheUsers == Spec => []EventsMatchUsers
<1>1. RInv => EventsMatchUsers
  BY DEF RInv
<1> QED
  BY RegistrationInvariant, <1>1, PTL

\* Type correctness of UserRegistration.
THEOREM RegistrationTypes == Spec => []TypeOK
<1>1. RInv => TypeOK
  BY DEF RInv
<1> QED
  BY RegistrationInvariant, <1>1, PTL

\* All tokens Login issues under one name carry the same user.
THEOREM OneIdentityPerName == Spec => []TokensAgree
<1>1. RInv => TokensAgree
  BY DEF RInv, RowsUnique, Rows, SameName, TokensNamed, TokensAgree
<1> QED
  BY RegistrationInvariant, <1>1, PTL

\* Whoever Register told "created" can log in, as the user it has created.
THEOREM CreatedGetsIn == Spec => CreatedCanLogin
<1>1. ASSUME RInv, RInv', [Next]_vars, NEW c \in Calls, reply[c] = "created"
      PROVE  /\ login'[c] = "denied" => login[c] = "denied"
             /\ \A u \in tokens'[c] : u[1] = c
  <2>1. PICK k \in 1..MaxAttempts : <<c, k>> \in users
    BY <1>1 DEF RInv, AnswersCommitted
  <2>2. \A u \in users : NameOf[u[1]] = NameOf[c] => u = <<c, k>>
    BY <1>1, <2>1 DEF RInv, RowsUnique, Rows, SameName
  <2>3. ~LoginDenied(c)
    BY <2>1, <2>2 DEF LoginDenied
  <2>4. login'[c] = "denied" => login[c] = "denied"
    <3>1. ASSUME NEW d \in Calls, Login(d) \/ LoginFails(d)
          PROVE  login'[c] = "denied" => login[c] = "denied"
      BY <1>1, <3>1 DEF Login, LoginFails, LoginAnswers, RInv, TypeOK
    <3>2. ASSUME NEW d \in Calls, LoginDenied(d)
          PROVE  login'[c] = login[c]
      BY <1>1, <2>3, <3>2 DEF LoginDenied, LoginAnswers, RInv, TypeOK
    <3>3. ASSUME NEW d \in Calls, Register(d) \/ ClientStep(d) PROVE login' = login
      BY <3>3 DEF Register, ClientStep, Hear, Unheard, GiveUp, sessionVars
    <3>4. ASSUME NEW h \in Handlers, CreateUser(h) \/ Dies(h) PROVE login' = login
      BY <3>4 DEF CreateUser, CheckUsername, CheckEmail, Insert, InsertDuplicate,
         InsertOtherError, WriteOutbox, Commit, CommitUnheard, Committed, RolledBack,
         Dies, sessionVars
    <3>5. ASSUME NEW e \in Handlers, handleUserEvent(e) PROVE login' = login
      BY <3>5 DEF handleUserEvent, sessionVars
    <3>6. CASE UNCHANGED vars
      BY <3>6 DEF vars, sessionVars
    <3> QED
      BY <1>1, <3>1, <3>2, <3>3, <3>4, <3>5, <3>6 DEF Next
  <2>5. ASSUME NEW u \in tokens'[c] PROVE u[1] = c
    <3>1. u \in users' /\ NameOf[u[1]] = NameOf[c]
      BY <1>1, <2>5 DEF RInv, TokensNamed
    <3>2. <<c, k>> \in users'
      BY <1>1, <2>1 DEF Next, Register, ClientStep, Hear, Unheard, GiveUp, Login,
         LoginDenied, LoginFails, LoginAnswers, CreateUser, CheckUsername, CheckEmail,
         Insert, InsertDuplicate, InsertOtherError, WriteOutbox, Commit, CommitUnheard,
         Committed, RolledBack, Dies, handleUserEvent, vars
    <3>3. u = <<c, k>>
      BY <1>1, <3>1, <3>2 DEF RInv, RowsUnique, Rows, SameName
    <3> QED
      BY <3>3
  <2> QED
    BY <2>4, <2>5
<1> DEFINE Keeps == \A c \in Calls : reply[c] = "created" =>
             /\ login'[c] = "denied" => login[c] = "denied"
             /\ \A u \in tokens'[c] : u[1] = c
<1>2. RInv /\ RInv' /\ [Next]_vars => [Keeps]_vars
  BY <1>1
<1>3. CreatedCanLogin <=> [][Keeps]_vars
  BY DEF CreatedCanLogin
<1> HIDE DEF Keeps
<1> QED
  BY <1>2, <1>3, RegistrationInvariant, PTL DEF Spec
=============================================================================
