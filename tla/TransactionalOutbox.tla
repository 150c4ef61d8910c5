----------------------- MODULE TransactionalOutbox -----------------------
(***************************************************************************)
(* What the go-outbox library promises to the service that embeds it, with *)
(* no worker, sender or error handling in sight:                           *)
(*                                                                         *)
(*   - an event reaches the Kafka topic only if the transaction that       *)
(*     inserted it committed, and may reach it more than once;             *)
(*   - an event is acknowledged (published_at set) only once it is in the  *)
(*     topic;                                                              *)
(*   - whenever an event is appended, every event that had been committed  *)
(*     before that event's transaction began is in the topic already.      *)
(*                                                                         *)
(* OutboxRelay, the model of the code, implements this specification.      *)
(***************************************************************************)
EXTENDS Sequences, Functions

CONSTANT Rows             \* the rows that services may insert

VARIABLES
  status,                 \* [Rows -> StatusValues]
  before,                 \* before[r]: the rows committed when r's transaction began
  topic                   \* the topic, in append order

vars == <<status, before, topic>>

StatusValues == {"none", "open", "aborted", "committed", "acknowledged"}

Committed == {r \in Rows : status[r] \in {"committed", "acknowledged"}}

Init ==
  /\ status = [r \in Rows |-> "none"]
  /\ before = [r \in Rows |-> {}]
  /\ topic = <<>>

\* A transaction that inserts r begins.
Begin(r) ==
  /\ status[r] = "none"
  /\ status' = [status EXCEPT ![r] = "open"]
  /\ before' = [before EXCEPT ![r] = Committed]
  /\ UNCHANGED topic

\* Open transactions end: those that insert C commit, those that insert A abort.
Resolve(C, A) ==
  /\ \A r \in C \union A : status[r] = "open"
  /\ status' = [r \in Rows |-> IF r \in C THEN "committed"
                               ELSE IF r \in A THEN "aborted"
                               ELSE status[r]]
  /\ UNCHANGED <<before, topic>>

\* A copy of r is appended to the topic.
Relay(r) ==
  /\ r \in Committed
  /\ before[r] \subseteq Range(topic)
  /\ topic' = Append(topic, r)
  /\ UNCHANGED <<status, before>>

\* r is recorded as published.
Acknowledge(r) ==
  /\ r \in Committed
  /\ r \in Range(topic)
  /\ status' = [status EXCEPT ![r] = "acknowledged"]
  /\ UNCHANGED <<before, topic>>

Next ==
  \/ \E r \in Rows : Begin(r) \/ Relay(r) \/ Acknowledge(r)
  \/ \E C, A \in SUBSET Rows : C \intersect A = {} /\ Resolve(C, A)

Spec == Init /\ [][Next]_vars
=============================================================================
