----------------------------- MODULE EventRelay -----------------------------
(***************************************************************************)
(* What a service promises about the events it writes to its outbox table, *)
(* stated without tables, pollers, locks or retries: an event becomes      *)
(* eligible when its business transaction commits, it is delivered to the  *)
(* topic only if it is eligible, and once it is abandoned it stays so and  *)
(* no new attempt at it is begun. An attempt that was under way when the   *)
(* relay lost track of it may still deliver, even an abandoned event.      *)
(* Outbox.tla is shown to implement this specification.                    *)
(***************************************************************************)
CONSTANT Events          \* identities of the events (event_id)

VARIABLES committed,     \* events whose business transaction has committed
          delivered,     \* events the topic holds at least once
          abandoned,     \* events no further attempt is begun for
          adrift         \* events still held by an attempt nobody records

relayVars == <<committed, delivered, abandoned, adrift>>

Init ==
  /\ committed = {}
  /\ delivered = {}
  /\ abandoned = {}
  /\ adrift = {}

Commit(e) ==
  /\ e \notin committed
  /\ committed' = committed \cup {e}
  /\ UNCHANGED <<delivered, abandoned, adrift>>

\* The delivering attempt ends, and with it what it had set adrift.
Deliver(e) ==
  /\ e \in committed \ delivered
  /\ e \in abandoned => e \in adrift
  /\ delivered' = delivered \cup {e}
  /\ adrift' \in SUBSET adrift
  /\ UNCHANGED <<committed, abandoned>>

\* Giving up is per batch: several events can be abandoned by one commit.
Abandon(S) ==
  /\ S # {}
  /\ S \subseteq committed \ abandoned
  /\ abandoned' = abandoned \cup S
  /\ UNCHANGED <<committed, delivered, adrift>>

\* The record of the attempts at S is lost while they are under way; an
\* abandoned event has none under way.
LoseTrack(S) ==
  /\ S # {}
  /\ S \subseteq committed \ abandoned
  /\ adrift' = adrift \cup S
  /\ UNCHANGED <<committed, delivered, abandoned>>

\* Attempts that were adrift come to nothing, or deliver once more.
Forget ==
  /\ adrift' \in SUBSET adrift
  /\ UNCHANGED <<committed, delivered, abandoned>>

Next ==
  \/ \E e \in Events : Commit(e) \/ Deliver(e)
  \/ \E S \in SUBSET Events : Abandon(S) \/ LoseTrack(S)
  \/ Forget

Spec == Init /\ [][Next]_relayVars

\* Every committed event is eventually settled: delivered or abandoned.
Settled == \A e \in Events :
  (e \in committed) ~> (e \in delivered \cup abandoned)
=============================================================================
