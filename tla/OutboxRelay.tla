--------------------------- MODULE OutboxRelay ---------------------------
(***************************************************************************)
(* The relay of libs/go-outbox: services insert rows into the outbox table *)
(* (PublishEvent, PublishEventWithTx), and in every service process one    *)
(* worker (Worker.Start, processBatch) reads the oldest unpublished rows,  *)
(* sends them to Kafka and stamps published_at.  Several processes share   *)
(* the table and the topic.                                                *)
(*                                                                         *)
(* Each database query and each broker request is one step, so everything  *)
(* another process can do between two of them is interleaved.  Every one   *)
(* may fail; a failed INSERT, UPDATE or send may have taken effect, and a  *)
(* request given up by the sender may reach the broker late.  Failures are *)
(* counted in faults and bounded by MaxFaults.                             *)
(*                                                                         *)
(* The existence and the columns of the table are not modelled here: the   *)
(* step EnsureTable stands for ensureTable and the step RecoveryTick for   *)
(* dbRecoveryLoop, with their effect on dbProblem.                         *)
(***************************************************************************)
EXTENDS Integers, Sequences, FiniteSetsExt

CONSTANTS
  Instances,    \* service processes that embed the library
  Rows,         \* rows that may be inserted
  Poison,       \* rows the broker always rejects (message too large, ...)
  BatchSize,    \* Config.BatchSize
  Mode,         \* Config.Mode
  MaxFaults,    \* bound on failed calls and crashes
  NoRow         \* "no current record"

ASSUME RelayAssumption ==
  /\ IsFiniteSet(Instances)
  /\ Poison \subseteq Rows
  /\ BatchSize \in Nat
  /\ Mode \in {"binary", "schema-registry"}
  /\ MaxFaults \in Nat
  /\ NoRow \notin Rows

VARIABLES
  row,          \* row[r]: its life in the outbox table
  createdAt,    \* the created_at column: when r's transaction began
  clock,        \* the database clock; ticks at every commit
  before,       \* history: before[r] is what had committed when r's transaction began
  openTx,       \* openTx[i]: the rows of process i's open transactions
  topic,        \* the Kafka topic, in append order
  inflight,     \* inflight[r]: requests for r abandoned by a sender, not yet at the broker
  pc,           \* where process i's worker is
  batch,        \* records of the current batch that the loop has not reached
  cur,          \* the record the loop is at
  dbProblem,    \* Outbox.dbProblem
  sender,       \* Outbox.sender with senderBroken, always assigned together
  faults        \* failures so far

tableVars == <<row, createdAt, clock, before, openTx>>
kafkaVars == <<topic, inflight>>
loopVars  == <<pc, batch, cur>>
flagVars  == <<dbProblem, sender>>
vars == <<tableVars, kafkaVars, loopVars, flagVars, faults>>

(***************************************************************************)
(* "begun": the transaction runs and the INSERT has not returned;          *)
(* "inserted": the INSERT of PublishEventWithTx returned and the caller    *)
(* still holds the transaction; "pending": committed, published_at NULL.   *)
(***************************************************************************)
RowStates == {"none", "begun", "inserted", "aborted", "pending", "published"}
WorkerStates == {"down", "idle", "ensure", "select", "create", "send", "mark"}

Committed == {r \in Rows : row[r] \in {"pending", "published"}}
Pending == {r \in Rows : row[r] = "pending"}
Up(i) == pc[i] # "down"

Fault == faults < MaxFaults /\ faults' = faults + 1

NewSender == IF Mode = "binary" THEN {"up", "broken"} ELSE {"up"}

Init ==
  /\ row = [r \in Rows |-> "none"]
  /\ createdAt = [r \in Rows |-> 0]
  /\ clock = 0
  /\ before = [r \in Rows |-> {}]
  /\ openTx = [i \in Instances |-> {}]
  /\ topic = <<>>
  /\ inflight = [r \in Rows |-> 0]
  /\ pc = [i \in Instances |-> "idle"]
  /\ batch = [i \in Instances |-> {}]
  /\ cur = [i \in Instances |-> NoRow]
  /\ dbProblem = [i \in Instances |-> FALSE]
  /\ sender \in [Instances -> NewSender]
  /\ faults = 0
-----------------------------------------------------------------------------
(***************************************************************************)
(* Publishing.  A process begins a transaction (of its own, or implicit in *)
(* an INSERT outside one); created_at DEFAULT NOW() is the time of this    *)
(* step whenever the transaction commits.                                  *)
(***************************************************************************)
Begin(i, r) ==
  /\ Up(i)
  /\ row[r] = "none"
  /\ row' = [row EXCEPT ![r] = "begun"]
  /\ createdAt' = [createdAt EXCEPT ![r] = clock]
  /\ before' = [before EXCEPT ![r] = Committed]
  /\ openTx' = [openTx EXCEPT ![i] = @ \union {r}]
  /\ UNCHANGED <<clock, kafkaVars, loopVars, flagVars, faults>>

\* Transactions of process i end: those of C commit, those of A do not.
End(i, C, A) ==
  /\ C \union A \subseteq openTx[i]
  /\ row' = [r \in Rows |-> IF r \in C THEN "pending"
                            ELSE IF r \in A THEN "aborted"
                            ELSE row[r]]
  /\ openTx' = [openTx EXCEPT ![i] = @ \ (C \union A)]
  /\ clock' = IF C = {} THEN clock ELSE clock + 1
  /\ UNCHANGED <<createdAt, before>>

\* PublishEvent: the INSERT outside a transaction succeeds.
PublishEvent(i, r) ==
  /\ Up(i)
  /\ row[r] = "begun"
  /\ End(i, {r}, {})
  /\ dbProblem' = [dbProblem EXCEPT ![i] = FALSE]
  /\ UNCHANGED <<kafkaVars, loopVars, sender, faults>>

\* PublishEvent returns the INSERT's error; the row may be there nonetheless.
PublishEventFails(i, r) ==
  /\ Up(i)
  /\ row[r] = "begun"
  /\ End(i, {r}, {}) \/ End(i, {}, {r})
  /\ dbProblem' = [dbProblem EXCEPT ![i] = TRUE]
  /\ Fault
  /\ UNCHANGED <<kafkaVars, loopVars, sender>>

\* PublishEventWithTx: the INSERT succeeds, the caller's transaction goes on.
PublishEventWithTx(i, r) ==
  /\ Up(i)
  /\ r \in openTx[i]
  /\ row[r] = "begun"
  /\ row' = [row EXCEPT ![r] = "inserted"]
  /\ dbProblem' = [dbProblem EXCEPT ![i] = FALSE]
  /\ UNCHANGED <<createdAt, clock, before, openTx, kafkaVars, loopVars, sender, faults>>

\* PublishEventWithTx returns the INSERT's error, which aborts the transaction.
PublishEventWithTxFails(i, r) ==
  /\ Up(i)
  /\ row[r] = "begun"
  /\ End(i, {}, {r})
  /\ dbProblem' = [dbProblem EXCEPT ![i] = TRUE]
  /\ Fault
  /\ UNCHANGED <<kafkaVars, loopVars, sender>>

\* The caller commits or rolls back the transaction it passed to PublishEventWithTx.
EndTx(i, r) ==
  /\ Up(i)
  /\ row[r] = "inserted"
  /\ End(i, {r}, {}) \/ End(i, {}, {r})
  /\ UNCHANGED <<kafkaVars, loopVars, flagVars, faults>>
-----------------------------------------------------------------------------
(***************************************************************************)
(* The worker.                                                             *)
(***************************************************************************)
\* The records the ORDER BY puts first; rows of equal created_at come in any order.
Oldest_NoOrderBy(S) == S
Oldest(S) == {r \in S : \A s \in S : createdAt[r] <= createdAt[s]}

\* The results of SELECT ... WHERE published_at IS NULL ORDER BY created_at LIMIT BatchSize.
FirstBatches_ReadsUncommitted ==
  kSubset(Min({BatchSize, Cardinality(Pending)}), Pending \union {r \in Rows : row[r] = "inserted"})
FirstBatches ==
  {B \in kSubset(Min({BatchSize, Cardinality(Pending)}), Pending) :
     \A r \in B, s \in Pending \ B : createdAt[r] <= createdAt[s]}

\* processBatch returns.
Return_KeepsRecord(i) ==
  /\ pc' = [pc EXCEPT ![i] = "idle"]
  /\ batch' = [batch EXCEPT ![i] = {}]
  /\ UNCHANGED cur
Return(i) ==
  /\ pc' = [pc EXCEPT ![i] = "idle"]
  /\ batch' = [batch EXCEPT ![i] = {}]
  /\ cur' = [cur EXCEPT ![i] = NoRow]

\* The next turn of the loop over the records, of which todo are left.
NextRecord(i, todo) ==
  \/ todo = {} /\ Return(i)
  \/ \E r \in Oldest(todo) :
       /\ pc' = [pc EXCEPT ![i] = "send"]
       /\ batch' = [batch EXCEPT ![i] = todo \ {r}]
       /\ cur' = [cur EXCEPT ![i] = r]

\* The ticker fires and processBatch looks at dbProblem.
Tick(i) ==
  /\ pc[i] = "idle"
  /\ pc' = [pc EXCEPT ![i] = IF dbProblem[i] THEN "ensure" ELSE "select"]
  /\ UNCHANGED <<tableVars, kafkaVars, batch, cur, flagVars, faults>>

\* ensureTable finds the table or creates it.
EnsureTable(i) ==
  /\ pc[i] = "ensure"
  /\ pc' = [pc EXCEPT ![i] = "select"]
  /\ dbProblem' = [dbProblem EXCEPT ![i] = FALSE]
  /\ UNCHANGED <<tableVars, kafkaVars, batch, cur, sender, faults>>

EnsureTableFails(i) ==
  /\ pc[i] = "ensure"
  /\ Return(i)
  /\ Fault
  /\ UNCHANGED <<tableVars, kafkaVars, flagVars>>

\* The batch is read; it is sent at once unless there is no sender.
SelectBatch(i) ==
  /\ pc[i] = "select"
  /\ \E B \in FirstBatches :
       \/ /\ B = {} \/ sender[i] = "up"
          /\ NextRecord(i, B)
       \/ /\ B # {} /\ sender[i] = "broken"
          /\ pc' = [pc EXCEPT ![i] = "create"]
          /\ batch' = [batch EXCEPT ![i] = B]
          /\ UNCHANGED cur
  /\ UNCHANGED <<tableVars, kafkaVars, flagVars, faults>>

\* The query or the reading of its rows fails.
SelectBatchFails(i) ==
  /\ pc[i] = "select"
  /\ Return(i)
  /\ dbProblem' = [dbProblem EXCEPT ![i] = TRUE]
  /\ Fault
  /\ UNCHANGED <<tableVars, kafkaVars, sender>>

\* tryCreateSender, and the batch goes on.
CreateSender_StaysBroken(i) ==
  /\ pc[i] = "create"
  /\ Return(i)
  /\ UNCHANGED <<tableVars, kafkaVars, flagVars, faults>>
CreateSender(i) ==
  /\ pc[i] = "create"
  /\ sender' = [sender EXCEPT ![i] = "up"]
  /\ NextRecord(i, batch[i])
  /\ UNCHANGED <<tableVars, kafkaVars, dbProblem, faults>>

\* tryCreateSender fails, which only sarama's constructor does.
CreateSenderFails(i) ==
  /\ pc[i] = "create"
  /\ Mode = "binary"
  /\ Return(i)
  /\ Fault
  /\ UNCHANGED <<tableVars, kafkaVars, flagVars>>

\* Send returns nil: the broker has appended the message.
SendOk(i) ==
  /\ pc[i] = "send"
  /\ cur[i] \notin Poison
  /\ topic' = Append(topic, cur[i])
  /\ pc' = [pc EXCEPT ![i] = "mark"]
  /\ UNCHANGED <<tableVars, inflight, batch, cur, flagVars, faults>>

\* A request is given up while the broker may still receive it.
Abandon(r) == inflight' = [inflight EXCEPT ![r] = @ + 1]

\* sarama gives up a request and sends the message again (Producer.Retry.Max).
SendRetries(i) ==
  /\ pc[i] = "send"
  /\ Mode = "binary"
  /\ cur[i] \notin Poison
  /\ Abandon(cur[i])
  /\ Fault
  /\ UNCHANGED <<tableVars, topic, loopVars, flagVars>>

\* What follows an error of Send: MarkSenderBroken, and processBatch returns.
BreakSender_Continues(i) ==
  /\ sender' = [sender EXCEPT ![i] = "broken"]
  /\ NextRecord(i, batch[i])
BreakSender_Marks(i) ==
  /\ sender' = [sender EXCEPT ![i] = "broken"]
  /\ pc' = [pc EXCEPT ![i] = "mark"]
  /\ UNCHANGED <<batch, cur>>
BreakSender(i) ==
  /\ sender' = [sender EXCEPT ![i] = "broken"]
  /\ Return(i)

\* Send returns an error, and the message may still reach the broker.
SendFails(i) ==
  /\ pc[i] = "send"
  /\ cur[i] \notin Poison
  /\ Abandon(cur[i]) \/ UNCHANGED inflight
  /\ BreakSender(i)
  /\ Fault
  /\ UNCHANGED <<tableVars, topic, dbProblem>>

\* Send returns an error for a message the broker will never take.
SendRejected(i) ==
  /\ pc[i] = "send"
  /\ cur[i] \in Poison
  /\ BreakSender(i)
  /\ UNCHANGED <<tableVars, kafkaVars, dbProblem, faults>>

\* published_at is set and the loop goes on.
MarkPublished_Forgets(i) ==
  /\ pc[i] = "mark"
  /\ NextRecord(i, batch[i])
  /\ UNCHANGED <<tableVars, kafkaVars, flagVars, faults>>
MarkPublished(i) ==
  /\ pc[i] = "mark"
  /\ row' = [row EXCEPT ![cur[i]] = "published"]
  /\ NextRecord(i, batch[i])
  /\ UNCHANGED <<createdAt, clock, before, openTx, kafkaVars, flagVars, faults>>

\* The UPDATE returns an error (it may have been done) and the loop goes on.
MarkPublishedFails(i) ==
  /\ pc[i] = "mark"
  /\ row' = [row EXCEPT ![cur[i]] = "published"] \/ UNCHANGED row
  /\ dbProblem' = [dbProblem EXCEPT ![i] = TRUE]
  /\ NextRecord(i, batch[i])
  /\ Fault
  /\ UNCHANGED <<createdAt, clock, before, openTx, kafkaVars, sender>>
-----------------------------------------------------------------------------
(***************************************************************************)
(* The recovery loop, crashes, restarts and the network.                   *)
(***************************************************************************)
\* dbRecoveryLoop finds the table or creates it.
RecoveryTick(i) ==
  /\ Up(i)
  /\ dbProblem[i]
  /\ dbProblem' = [dbProblem EXCEPT ![i] = FALSE]
  /\ UNCHANGED <<tableVars, kafkaVars, loopVars, sender, faults>>

\* The process dies.  The server aborts its transactions, except those whose
\* COMMIT it had received; a request the worker was sending may be on its way.
Crash(i) ==
  /\ Up(i)
  /\ \E C \in SUBSET openTx[i] : End(i, C, openTx[i] \ C)
  /\ \/ pc[i] = "send" /\ cur[i] \notin Poison /\ Abandon(cur[i])
     \/ UNCHANGED inflight
  /\ pc' = [pc EXCEPT ![i] = "down"]
  /\ batch' = [batch EXCEPT ![i] = {}]
  /\ cur' = [cur EXCEPT ![i] = NoRow]
  /\ dbProblem' = [dbProblem EXCEPT ![i] = FALSE]
  /\ sender' = [sender EXCEPT ![i] = "broken"]
  /\ Fault
  /\ UNCHANGED topic

\* The process comes back: Init and setup.
Restart(i) ==
  /\ pc[i] = "down"
  /\ pc' = [pc EXCEPT ![i] = "idle"]
  /\ \E s \in NewSender : sender' = [sender EXCEPT ![i] = s]
  /\ UNCHANGED <<tableVars, kafkaVars, batch, cur, dbProblem, faults>>

\* An abandoned request reaches the broker.
LateAppend(r) ==
  /\ inflight[r] > 0
  /\ inflight' = [inflight EXCEPT ![r] = @ - 1]
  /\ topic' = Append(topic, r)
  /\ UNCHANGED <<tableVars, loopVars, flagVars, faults>>

Publish(i, r) ==
  \/ Begin(i, r)
  \/ PublishEvent(i, r)
  \/ PublishEventFails(i, r)
  \/ PublishEventWithTx(i, r)
  \/ PublishEventWithTxFails(i, r)
  \/ EndTx(i, r)

\* The steps of processBatch in which every call succeeds, or rejects poison.
WorkerStep(i) ==
  \/ Tick(i)
  \/ EnsureTable(i)
  \/ SelectBatch(i)
  \/ CreateSender(i)
  \/ SendOk(i)
  \/ SendRejected(i)
  \/ MarkPublished(i)

WorkerFault(i) ==
  \/ EnsureTableFails(i)
  \/ SelectBatchFails(i)
  \/ CreateSenderFails(i)
  \/ SendRetries(i)
  \/ SendFails(i)
  \/ MarkPublishedFails(i)
  \/ Crash(i)

Next ==
  \/ \E i \in Instances, r \in Rows : Publish(i, r)
  \/ \E i \in Instances : WorkerStep(i) \/ WorkerFault(i) \/ RecoveryTick(i) \/ Restart(i)
  \/ \E r \in Rows : LateAppend(r)

Spec == Init /\ [][Next]_vars

(***************************************************************************)
(* The ticker keeps firing and calls return, so a worker that can step     *)
(* does; a process that died is started again.                             *)
(***************************************************************************)
Fairness == \A i \in Instances : WF_vars(WorkerStep(i)) /\ WF_vars(Restart(i))

FairSpec == Spec /\ Fairness
-----------------------------------------------------------------------------
(***************************************************************************)
(* Properties.                                                             *)
(***************************************************************************)
\* Every variable has its type; the loop is at a record exactly while it sends or marks it.
TypeOK ==
  /\ row \in [Rows -> RowStates]
  /\ createdAt \in [Rows -> Nat]
  /\ clock \in Nat
  /\ before \in [Rows -> SUBSET Rows]
  /\ openTx \in [Instances -> SUBSET Rows]
  /\ topic \in Seq(Rows)
  /\ inflight \in [Rows -> Nat]
  /\ pc \in [Instances -> WorkerStates]
  /\ batch \in [Instances -> SUBSET Rows]
  /\ cur \in [Instances -> Rows \union {NoRow}]
  /\ \A i \in Instances : cur[i] # NoRow <=> pc[i] \in {"send", "mark"}
  /\ dbProblem \in [Instances -> BOOLEAN]
  /\ sender \in [Instances -> {"up", "broken"}]
  /\ faults \in 0 .. MaxFaults

\* A row with published_at set has reached the topic, whichever worker set it
\* and whatever failed in between: no event is lost between table and topic.
PublishedIsDelivered ==
  \A r \in Rows : row[r] = "published" => r \in Range(topic)

\* Every copy of an event in the topic, duplicates and late ones included, comes
\* after a copy of each event that had committed before its transaction began:
\* workers that race, fail and give up batches never reorder cause and effect.
RealTimeOrder ==
  \A k \in 1 .. Len(topic) :
    \A e \in before[topic[k]] : \E j \in 1 .. k - 1 : topic[j] = e

\* The messages for r that the topic holds or may yet get.
Copies(r) == Cardinality({k \in 1 .. Len(topic) : topic[k] = r}) + inflight[r]

\* Workers that share the table, and failures, are the only sources of duplicates:
\* each worker sends a row once, and once more for each failure.
DuplicatesBounded ==
  \A r \in Rows : Copies(r) <= Cardinality(Instances) + faults

\* A committed event is eventually marked published, unless a row that the broker
\* rejects and that is not younger stands before it in the worker's query.
EventuallyPublished ==
  \A r \in Rows \ Poison :
    row[r] = "pending" ~> \/ row[r] = "published"
                          \/ \E p \in Poison : row[p] = "pending" /\ createdAt[p] <= createdAt[r]

\* The table as the embedding service knows it.
Status == [r \in Rows |->
  CASE row[r] \in {"begun", "inserted"} -> "open"
    [] row[r] = "pending"               -> "committed"
    [] row[r] = "published"             -> "acknowledged"
    [] OTHER                            -> row[r]]

Abstract == INSTANCE TransactionalOutbox WITH status <- Status

\* The relay keeps the library's promise: every step of it is a step that
\* TransactionalOutbox allows, or none it can see.
KeepsPromise == Abstract!Spec

(***************************************************************************)
(* Why the order holds: the inductive invariant behind PublishedIsDelivered *)
(* and RealTimeOrder.                                                      *)
(***************************************************************************)
\* Open transactions belong to one process, and their rows are not committed.
OpenInv ==
  /\ \A i \in Instances : \A r \in openTx[i] : row[r] \in {"begun", "inserted"}
  /\ \A i, j \in Instances : i # j => openTx[i] \intersect openTx[j] = {}

\* created_at respects the order of the transactions' beginnings and ends.
ClockInv ==
  /\ \A r \in Rows : createdAt[r] <= clock
  /\ \A r \in Committed : createdAt[r] < clock
  /\ \A f \in Rows : \A e \in before[f] : e \in Committed /\ createdAt[e] < createdAt[f]

\* Only committed rows are read, sent and delivered.
CommittedInv ==
  /\ Range(topic) \subseteq Committed
  /\ \A r \in Rows : inflight[r] > 0 => r \in Committed
  /\ \A i \in Instances : batch[i] \union ({cur[i]} \ {NoRow}) \subseteq Committed

\* What a worker or a late request may still append has its past in the topic,
\* or, for a batch, before it in the batch.
CausalInv ==
  /\ \A r \in Rows : inflight[r] > 0 => before[r] \subseteq Range(topic)
  /\ \A i \in Instances :
       /\ pc[i] = "mark" => cur[i] \in Range(topic)
       /\ pc[i] = "send" => before[cur[i]] \subseteq Range(topic)
       /\ \A f \in batch[i] : before[f] \subseteq Range(topic) \union batch[i] \union {cur[i]}

\* Nothing a worker holds, and nothing on its way to the broker, can break the
\* order: however the workers interleave, fail and restart, the past of each
\* message is in the topic or ahead of it.
RelayInv ==
  /\ OpenInv
  /\ ClockInv
  /\ CommittedInv
  /\ CausalInv
  /\ PublishedIsDelivered
  /\ RealTimeOrder

(***************************************************************************)
(* Why the duplicates are bounded: the inductive invariant behind          *)
(* DuplicatesBounded.                                                      *)
(***************************************************************************)
\* The workers that have sent r and not stamped it yet, and those that will send it.
Marking(r) == {i \in Instances : pc[i] = "mark" /\ cur[i] = r}
Sending(r) == {i \in Instances : r \in batch[i] \/ (pc[i] = "send" /\ cur[i] = r)}

\* A worker has r once.  Until it is stamped, every copy is a failure's or that of a
\* worker about to stamp it; after that, nobody who does not have r gets it.
CopiesInv ==
  /\ \A i \in Instances : cur[i] \notin batch[i]
  /\ \A r \in Rows :
       IF row[r] = "published"
         THEN Copies(r) + Cardinality(Sending(r)) <= Cardinality(Instances) + faults
         ELSE Copies(r) <= Cardinality(Marking(r)) + faults
=============================================================================
