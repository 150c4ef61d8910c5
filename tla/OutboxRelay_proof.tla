------------------------ MODULE OutboxRelay_proof ------------------------
(***************************************************************************)
(* Proofs about OutboxRelay, for any number of processes, rows and faults, *)
(* any batch size and either mode: its types, the inductive invariants of  *)
(* the order and of the duplicates, and that it implements                 *)
(* TransactionalOutbox.                                                    *)
(***************************************************************************)
EXTENDS OutboxRelay, FiniteSetTheorems, TLAPS

-----------------------------------------------------------------------------
(***************************************************************************)
(* Lemmas about the operators.                                             *)
(***************************************************************************)
\* Appending adds one element to what a sequence contains.
LEMMA AppendRange ==
  ASSUME NEW s \in Seq(Rows), NEW r \in Rows
  PROVE  /\ Append(s, r) \in Seq(Rows)
         /\ Range(Append(s, r)) = Range(s) \union {r}
<1>1. Append(s, r) \in Seq(Rows)
  OBVIOUS
<1>2. DOMAIN Append(s, r) = DOMAIN s \union {Len(s) + 1}
  OBVIOUS
<1>3. \A k \in DOMAIN s : Append(s, r)[k] = s[k]
  OBVIOUS
<1>4. Append(s, r)[Len(s) + 1] = r
  OBVIOUS
<1>5. Range(Append(s, r)) = Range(s) \union {r}
  BY <1>2, <1>3, <1>4, Zenon DEF Range
<1>. QED BY <1>1, <1>5

\* A batch consists of pending rows, and a pending row left out of it is no older
\* than any row in it.
LEMMA BatchIsOldest ==
  ASSUME NEW B \in FirstBatches
  PROVE  /\ B \subseteq Pending
         /\ \A r \in B, s \in Pending \ B : createdAt[r] <= createdAt[s]
BY Zenon DEF FirstBatches, kSubset

-----------------------------------------------------------------------------
(***************************************************************************)
(* Types.                                                                  *)
(***************************************************************************)
\* The loop's state after it moves to its next record, or returns.
LEMMA NextRecordType ==
  ASSUME TypeOK, NEW i \in Instances, NEW todo \in SUBSET Rows, NextRecord(i, todo)
  PROVE  /\ pc' \in [Instances -> WorkerStates]
         /\ batch' \in [Instances -> SUBSET Rows]
         /\ cur' \in [Instances -> Rows \union {NoRow}]
         /\ \A j \in Instances : cur'[j] # NoRow <=> pc'[j] \in {"send", "mark"}
<1>1. CASE todo = {} /\ Return(i)
  BY <1>1 DEF TypeOK, Return, WorkerStates
<1>2. CASE \E r \in Oldest(todo) :
             /\ pc' = [pc EXCEPT ![i] = "send"]
             /\ batch' = [batch EXCEPT ![i] = todo \ {r}]
             /\ cur' = [cur EXCEPT ![i] = r]
  <2>1. PICK r \in Oldest(todo) :
             /\ pc' = [pc EXCEPT ![i] = "send"]
             /\ batch' = [batch EXCEPT ![i] = todo \ {r}]
             /\ cur' = [cur EXCEPT ![i] = r]
    BY <1>2
  <2>2. r \in Rows /\ r # NoRow
    BY RelayAssumption DEF Oldest
  <2>. QED BY <2>1, <2>2 DEF TypeOK, WorkerStates
<1>. QED BY <1>1, <1>2 DEF NextRecord

\* A counted failure keeps within its bound.
LEMMA FaultType ==
  ASSUME TypeOK, Fault
  PROVE  faults' \in 0 .. MaxFaults
BY RelayAssumption DEF TypeOK, Fault

\* An abandoned request leaves the requests in flight well typed.
LEMMA AbandonType ==
  ASSUME TypeOK, NEW r \in Rows, Abandon(r) \/ UNCHANGED inflight
  PROVE  inflight' \in [Rows -> Nat]
<1>1. CASE Abandon(r)
  BY <1>1 DEF TypeOK, Abandon
<1>2. CASE UNCHANGED inflight
  BY <1>2 DEF TypeOK
<1>. QED BY <1>1, <1>2

\* Every step preserves the types.
LEMMA TypeStep ==
  ASSUME TypeOK, [Next]_vars
  PROVE  TypeOK'
<1>. USE DEF TypeOK
<1>1. ASSUME NEW i \in Instances, NEW r \in Rows, Publish(i, r)
      PROVE  TypeOK'
  <2>1. CASE Begin(i, r)
    BY <2>1 DEF Begin, RowStates, Committed, kafkaVars, loopVars, flagVars
  <2>2. CASE PublishEvent(i, r)
    BY <2>2 DEF PublishEvent, End, RowStates, kafkaVars, loopVars
  <2>3. CASE PublishEventFails(i, r)
    <3>1. /\ row' \in [Rows -> RowStates]
          /\ clock' \in Nat
          /\ openTx' \in [Instances -> SUBSET Rows]
          /\ UNCHANGED <<createdAt, before>>
      <4>1. CASE End(i, {r}, {})
        BY <4>1 DEF End, RowStates
      <4>2. CASE End(i, {}, {r})
        BY <4>2 DEF End, RowStates
      <4>. QED BY <2>3, <4>1, <4>2 DEF PublishEventFails
    <3>. QED BY <2>3, <3>1, FaultType DEF PublishEventFails, kafkaVars, loopVars
  <2>4. CASE PublishEventWithTx(i, r)
    BY <2>4 DEF PublishEventWithTx, RowStates, kafkaVars, loopVars
  <2>5. CASE PublishEventWithTxFails(i, r)
    BY <2>5, FaultType DEF PublishEventWithTxFails, End, RowStates, kafkaVars, loopVars
  <2>6. CASE EndTx(i, r)
    <3>1. /\ row' \in [Rows -> RowStates]
          /\ clock' \in Nat
          /\ openTx' \in [Instances -> SUBSET Rows]
          /\ UNCHANGED <<createdAt, before>>
      <4>1. CASE End(i, {r}, {})
        BY <4>1 DEF End, RowStates
      <4>2. CASE End(i, {}, {r})
        BY <4>2 DEF End, RowStates
      <4>. QED BY <2>6, <4>1, <4>2 DEF EndTx
    <3>. QED BY <2>6, <3>1 DEF EndTx, kafkaVars, loopVars, flagVars
  <2>. QED BY <1>1, <2>1, <2>2, <2>3, <2>4, <2>5, <2>6 DEF Publish
<1>2. ASSUME NEW i \in Instances, WorkerStep(i)
      PROVE  TypeOK'
  <2>1. CASE Tick(i)
    BY <2>1 DEF Tick, WorkerStates, tableVars, kafkaVars, flagVars
  <2>2. CASE EnsureTable(i)
    BY <2>2 DEF EnsureTable, WorkerStates, tableVars, kafkaVars
  <2>3. CASE SelectBatch(i)
    <3>1. PICK B \in FirstBatches :
             \/ /\ B = {} \/ sender[i] = "up"
                /\ NextRecord(i, B)
             \/ /\ B # {} /\ sender[i] = "broken"
                /\ pc' = [pc EXCEPT ![i] = "create"]
                /\ batch' = [batch EXCEPT ![i] = B]
                /\ UNCHANGED cur
      BY <2>3 DEF SelectBatch
    <3>2. B \in SUBSET Rows
      BY BatchIsOldest DEF Pending
    <3>3. UNCHANGED <<tableVars, kafkaVars, flagVars, faults>>
      BY <2>3 DEF SelectBatch
    <3>4. CASE NextRecord(i, B)
      BY <3>2, <3>3, <3>4, NextRecordType DEF tableVars, kafkaVars, flagVars
    <3>5. CASE /\ pc' = [pc EXCEPT ![i] = "create"]
               /\ batch' = [batch EXCEPT ![i] = B]
               /\ UNCHANGED cur
      BY <2>3, <3>2, <3>3, <3>5 DEF SelectBatch, WorkerStates, tableVars, kafkaVars, flagVars
    <3>. QED BY <3>1, <3>4, <3>5
  <2>4. CASE CreateSender(i)
    BY <2>4, NextRecordType DEF CreateSender, tableVars, kafkaVars
  <2>5. CASE SendOk(i)
    <3>1. cur[i] \in Rows
      BY <2>5 DEF SendOk
    <3>2. topic' \in Seq(Rows)
      BY <2>5, <3>1, AppendRange DEF SendOk
    <3>. QED BY <2>5, <3>2 DEF SendOk, WorkerStates, tableVars, flagVars
  <2>6. CASE SendRejected(i)
    BY <2>6 DEF SendRejected, BreakSender, Return, WorkerStates, tableVars, kafkaVars
  <2>7. CASE MarkPublished(i)
    <3>1. row' \in [Rows -> RowStates]
      BY <2>7 DEF MarkPublished, RowStates
    <3>. QED BY <2>7, <3>1, NextRecordType DEF MarkPublished, kafkaVars, flagVars
  <2>. QED BY <1>2, <2>1, <2>2, <2>3, <2>4, <2>5, <2>6, <2>7 DEF WorkerStep
<1>3. ASSUME NEW i \in Instances, WorkerFault(i)
      PROVE  TypeOK'
  <2>1. CASE EnsureTableFails(i)
    BY <2>1, FaultType DEF EnsureTableFails, Return, WorkerStates, tableVars, kafkaVars, flagVars
  <2>2. CASE SelectBatchFails(i)
    BY <2>2, FaultType DEF SelectBatchFails, Return, WorkerStates, tableVars, kafkaVars
  <2>3. CASE CreateSenderFails(i)
    BY <2>3, FaultType DEF CreateSenderFails, Return, WorkerStates, tableVars, kafkaVars, flagVars
  <2>4. CASE SendRetries(i)
    BY <2>4, FaultType DEF SendRetries, Abandon, tableVars, loopVars, flagVars
  <2>5. CASE SendFails(i)
    <3>1. cur[i] \in Rows
      BY <2>5 DEF SendFails
    <3>2. inflight' \in [Rows -> Nat]
      BY <2>5, <3>1, AbandonType DEF SendFails
    <3>. QED BY <2>5, <3>2, FaultType DEF SendFails, BreakSender, Return, WorkerStates, tableVars
  <2>6. CASE MarkPublishedFails(i)
    <3>1. row' \in [Rows -> RowStates]
      BY <2>6 DEF MarkPublishedFails, RowStates
    <3>. QED BY <2>6, <3>1, NextRecordType, FaultType DEF MarkPublishedFails, kafkaVars
  <2>7. CASE Crash(i)
    <3>1. PICK C \in SUBSET openTx[i] : End(i, C, openTx[i] \ C)
      BY <2>7 DEF Crash
    <3>2. inflight' \in [Rows -> Nat]
      <4>1. CASE pc[i] = "send" /\ Abandon(cur[i])
        BY <4>1, AbandonType
      <4>. QED BY <2>7, <4>1 DEF Crash
    <3>. QED BY <2>7, <3>1, <3>2, FaultType DEF Crash, End, RowStates, WorkerStates
  <2>. QED BY <1>3, <2>1, <2>2, <2>3, <2>4, <2>5, <2>6, <2>7 DEF WorkerFault
<1>4. ASSUME NEW i \in Instances, RecoveryTick(i)
      PROVE  TypeOK'
  BY <1>4 DEF RecoveryTick, tableVars, kafkaVars, loopVars
<1>5. ASSUME NEW i \in Instances, Restart(i)
      PROVE  TypeOK'
  BY <1>5 DEF Restart, NewSender, WorkerStates, tableVars, kafkaVars
<1>6. ASSUME NEW r \in Rows, LateAppend(r)
      PROVE  TypeOK'
  BY <1>6, AppendRange DEF LateAppend, tableVars, loopVars, flagVars
<1>7. CASE UNCHANGED vars
  BY <1>7 DEF vars, tableVars, kafkaVars, loopVars, flagVars
<1>. QED BY <1>1, <1>2, <1>3, <1>4, <1>5, <1>6, <1>7 DEF Next

\* The initial state is well typed.
LEMMA TypeInit == Init => TypeOK
BY RelayAssumption DEF Init, TypeOK, RowStates, WorkerStates, NewSender

\* Every reachable state is well typed, and a loop is at a record exactly while
\* it sends or marks it, whatever the number of processes, rows and faults.
THEOREM TypeCorrect == Spec => []TypeOK
<1>1. Init => TypeOK
  BY TypeInit
<1>2. TypeOK /\ [Next]_vars => TypeOK'
  BY TypeStep
<1>. QED BY <1>1, <1>2, PTL DEF Spec
-----------------------------------------------------------------------------
(***************************************************************************)
(* What a step does to the table and the topic.                            *)
(***************************************************************************)
\* A message with its past in the topic is appended, and the table is left alone.
Appends ==
  /\ UNCHANGED tableVars
  /\ \E r \in Committed : before[r] \subseteq Range(topic) /\ topic' = Append(topic, r)

\* A committed row that is in the topic is marked.
Marks ==
  /\ UNCHANGED <<createdAt, clock, before, openTx, topic>>
  /\ \E r \in Committed : r \in Range(topic) /\ row' = [row EXCEPT ![r] = "published"]

\* The INSERT of an open transaction returns.
Inserts ==
  /\ UNCHANGED <<createdAt, clock, before, openTx, topic>>
  /\ \E i \in Instances : \E r \in openTx[i] : row[r] = "begun" /\ row' = [row EXCEPT ![r] = "inserted"]

\* Transactions end.
Ends ==
  /\ UNCHANGED topic
  /\ \E i \in Instances : \E C, A \in SUBSET Rows : C \intersect A = {} /\ End(i, C, A)

\* A transaction begins.
Begins ==
  /\ UNCHANGED topic
  /\ \E i \in Instances, r \in Rows :
       /\ row[r] = "none"
       /\ row' = [row EXCEPT ![r] = "begun"]
       /\ createdAt' = [createdAt EXCEPT ![r] = clock]
       /\ before' = [before EXCEPT ![r] = Committed]
       /\ openTx' = [openTx EXCEPT ![i] = @ \union {r}]
       /\ UNCHANGED clock

\* Neither changes.
Idles == UNCHANGED <<tableVars, topic>>

\* Every step has one of these effects.
LEMMA StepEffect ==
  ASSUME TypeOK, RelayInv, [Next]_vars
  PROVE  Appends \/ Marks \/ Inserts \/ Ends \/ Begins \/ Idles
<1>1. ASSUME NEW i \in Instances, NEW r \in Rows, Publish(i, r)
      PROVE  Inserts \/ Ends \/ Begins
  <2>1. CASE Begin(i, r)
    BY <2>1, Zenon DEF Begin, Begins, kafkaVars
  <2>2. ASSUME End(i, {r}, {}) \/ End(i, {}, {r}), UNCHANGED topic
        PROVE  Ends
    BY <2>2, Zenon DEF Ends
  <2>3. CASE PublishEvent(i, r)
    BY <2>2, <2>3 DEF PublishEvent, kafkaVars
  <2>4. CASE PublishEventFails(i, r)
    BY <2>2, <2>4 DEF PublishEventFails, kafkaVars
  <2>5. CASE PublishEventWithTx(i, r)
    BY <2>5, Zenon DEF PublishEventWithTx, Inserts, kafkaVars
  <2>6. CASE PublishEventWithTxFails(i, r)
    BY <2>2, <2>6 DEF PublishEventWithTxFails, kafkaVars
  <2>7. CASE EndTx(i, r)
    BY <2>2, <2>7 DEF EndTx, kafkaVars
  <2>. QED BY <1>1, <2>1, <2>3, <2>4, <2>5, <2>6, <2>7 DEF Publish
<1>2. ASSUME NEW i \in Instances, pc[i] = "mark"
      PROVE  cur[i] \in Committed /\ cur[i] \in Range(topic)
  BY <1>2 DEF TypeOK, RelayInv, CausalInv, CommittedInv
<1>3. ASSUME NEW i \in Instances, WorkerStep(i)
      PROVE  Appends \/ Marks \/ Idles
  <2>1. CASE Tick(i) \/ EnsureTable(i) \/ SelectBatch(i) \/ CreateSender(i) \/ SendRejected(i)
    BY <2>1 DEF Tick, EnsureTable, SelectBatch, CreateSender, SendRejected, Idles, kafkaVars
  <2>2. CASE SendOk(i)
    <3>1. cur[i] \in Committed /\ before[cur[i]] \subseteq Range(topic)
      BY <2>2 DEF SendOk, TypeOK, RelayInv, CausalInv, CommittedInv
    <3>. QED BY <2>2, <3>1 DEF SendOk, Appends
  <2>3. CASE MarkPublished(i)
    BY <1>2, <2>3 DEF MarkPublished, Marks, kafkaVars
  <2>. QED BY <1>3, <2>1, <2>2, <2>3 DEF WorkerStep
<1>4. ASSUME NEW i \in Instances, WorkerFault(i)
      PROVE  Ends \/ Marks \/ Idles
  <2>1. CASE \/ EnsureTableFails(i) \/ SelectBatchFails(i) \/ CreateSenderFails(i)
             \/ SendRetries(i) \/ SendFails(i)
    BY <2>1 DEF EnsureTableFails, SelectBatchFails, CreateSenderFails, SendRetries, SendFails,
                Idles, kafkaVars
  <2>2. CASE MarkPublishedFails(i)
    <3>1. CASE row' = [row EXCEPT ![cur[i]] = "published"]
      BY <1>2, <2>2, <3>1 DEF MarkPublishedFails, Marks, kafkaVars
    <3>2. CASE UNCHANGED row
      BY <2>2, <3>2 DEF MarkPublishedFails, Idles, tableVars, kafkaVars
    <3>. QED BY <2>2, <3>1, <3>2 DEF MarkPublishedFails
  <2>3. CASE Crash(i)
    <3>1. PICK C \in SUBSET openTx[i] : End(i, C, openTx[i] \ C)
      BY <2>3 DEF Crash
    <3>2. C \in SUBSET Rows /\ openTx[i] \ C \in SUBSET Rows
      BY DEF TypeOK
    <3>3. C \intersect (openTx[i] \ C) = {}
      OBVIOUS
    <3>4. UNCHANGED topic
      BY <2>3 DEF Crash
    <3>. QED BY <3>1, <3>2, <3>3, <3>4, Zenon DEF Ends
  <2>. QED BY <1>4, <2>1, <2>2, <2>3 DEF WorkerFault
<1>5. ASSUME NEW i \in Instances, RecoveryTick(i) \/ Restart(i)
      PROVE  Idles
  BY <1>5 DEF RecoveryTick, Restart, Idles, kafkaVars
<1>6. ASSUME NEW r \in Rows, LateAppend(r)
      PROVE  Appends
  <2>1. r \in Committed /\ before[r] \subseteq Range(topic)
    BY <1>6 DEF LateAppend, RelayInv, CommittedInv, CausalInv
  <2>. QED BY <1>6, <2>1 DEF LateAppend, Appends
<1>7. CASE UNCHANGED vars
  BY <1>7 DEF vars, kafkaVars, Idles
<1>. QED BY <1>1, <1>3, <1>4, <1>5, <1>6, <1>7 DEF Next
-----------------------------------------------------------------------------
(***************************************************************************)
(* The inductive invariant.                                                *)
(***************************************************************************)
\* What is committed stays so with its created_at and its past; the topic only grows.
Grows ==
  /\ Committed \subseteq Committed'
  /\ \A r \in Committed : before'[r] = before[r] /\ createdAt'[r] = createdAt[r]
  /\ Range(topic) \subseteq Range(topic)'

\* The parts of the invariant about the table and the topic.
TableInv ==
  /\ OpenInv
  /\ ClockInv
  /\ Range(topic) \subseteq Committed
  /\ PublishedIsDelivered
  /\ RealTimeOrder

\* A step that leaves the table alone and appends a message whose past is in the
\* topic keeps the order.
LEMMA AppendKeepsTable ==
  ASSUME TypeOK, TableInv, Appends
  PROVE  TableInv' /\ Grows
<1>1. PICK r \in Committed : before[r] \subseteq Range(topic) /\ topic' = Append(topic, r)
  BY DEF Appends
<1>2. UNCHANGED <<row, createdAt, clock, before, openTx, Committed>>
  BY DEF Appends, tableVars, Committed
<1>3. Range(topic)' = Range(topic) \union {r}
  BY <1>1, AppendRange DEF TypeOK, Committed
<1>4. RealTimeOrder'
  <2> SUFFICES ASSUME NEW k \in 1 .. Len(topic'), NEW e \in before[topic'[k]]
               PROVE  \E j \in 1 .. k - 1 : topic'[j] = e
    BY <1>2 DEF RealTimeOrder
  <2>1. Len(topic') = Len(topic) + 1 /\ \A n \in 1 .. Len(topic) : topic'[n] = topic[n]
    BY <1>1 DEF TypeOK, Committed
  <2>2. CASE k \in 1 .. Len(topic)
    <3>1. PICK j \in 1 .. k - 1 : topic[j] = e
      BY <2>1, <2>2 DEF TableInv, RealTimeOrder
    <3>. QED BY <2>1, <2>2, <3>1
  <2>3. CASE k = Len(topic) + 1
    <3>1. topic'[k] = r
      BY <1>1, <2>3 DEF TypeOK, Committed
    <3>2. PICK j \in DOMAIN topic : topic[j] = e
      BY <1>1, <3>1 DEF Range
    <3>. QED BY <2>1, <2>3, <3>2 DEF TypeOK
  <2>. QED BY <2>1, <2>2, <2>3
<1>5. OpenInv' /\ ClockInv' /\ PublishedIsDelivered'
  BY <1>2, <1>3 DEF TableInv, OpenInv, ClockInv, PublishedIsDelivered
<1>. QED BY <1>1, <1>2, <1>3, <1>4, <1>5 DEF TableInv, Grows

\* Every effect preserves what the invariant says of the table and the topic.
LEMMA TableStep ==
  ASSUME TypeOK, TableInv, Appends \/ Marks \/ Inserts \/ Ends \/ Begins \/ Idles
  PROVE  TableInv' /\ Grows
<1>. USE DEF TableInv
<1>0. ASSUME UNCHANGED <<topic, before>>
      PROVE  UNCHANGED Range(topic) /\ RealTimeOrder'
  BY <1>0 DEF RealTimeOrder
<1>1. CASE Appends
  BY <1>1, AppendKeepsTable
<1>2. CASE Marks
  <2>1. PICK r \in Committed : r \in Range(topic) /\ row' = [row EXCEPT ![r] = "published"]
    BY <1>2 DEF Marks
  <2>2. UNCHANGED Committed
    BY <2>1 DEF TypeOK, Committed
  <2>3. OpenInv'
    BY <1>2, <2>1 DEF Marks, OpenInv, TypeOK, Committed
  <2>. QED BY <1>0, <1>2, <2>1, <2>2, <2>3 DEF Marks, ClockInv, PublishedIsDelivered, Grows, TypeOK
<1>3. CASE Inserts
  <2>0. PICK i \in Instances :
          \E r \in openTx[i] : row[r] = "begun" /\ row' = [row EXCEPT ![r] = "inserted"]
    BY <1>3 DEF Inserts
  <2>1. PICK r \in openTx[i] : row[r] = "begun" /\ row' = [row EXCEPT ![r] = "inserted"]
    BY <2>0
  <2>2. r \in Rows
    BY DEF TypeOK
  <2>3. UNCHANGED Committed
    BY <2>1, <2>2 DEF TypeOK, Committed
  <2>4. OpenInv'
    BY <1>3, <2>1, <2>2 DEF Inserts, OpenInv, TypeOK
  <2>5. PublishedIsDelivered'
    BY <1>3, <2>1, <2>2 DEF Inserts, PublishedIsDelivered, TypeOK
  <2>. QED BY <1>0, <1>3, <2>3, <2>4, <2>5 DEF Inserts, ClockInv, Grows
<1>4. CASE Ends
  <2>1. PICK i \in Instances, C \in SUBSET Rows, A \in SUBSET Rows : End(i, C, A)
    BY <1>4 DEF Ends
  <2>2. \A r \in C \union A : row[r] \in {"begun", "inserted"}
    BY <2>1 DEF End, OpenInv
  <2>3. Committed' = Committed \union C
    BY <2>1, <2>2 DEF TypeOK, End, Committed
  <2>4. OpenInv'
    <3>1. \A j \in Instances : openTx'[j] \subseteq openTx[j] \ (C \union A)
      BY <2>1 DEF End, TypeOK, OpenInv
    <3>2. \A r \in Rows \ (C \union A) : row'[r] = row[r]
      BY <2>1 DEF End
    <3>. QED BY <3>1, <3>2 DEF OpenInv, TypeOK
  <2>5. ClockInv'
    <3>1. UNCHANGED <<createdAt, before>>
      BY <2>1 DEF End
    <3>2. clock' \in Nat /\ clock' >= clock /\ (C # {} => clock' = clock + 1)
      BY <2>1 DEF End, TypeOK
    <3>. QED BY <2>3, <3>1, <3>2 DEF ClockInv, TypeOK, Committed
  <2>6. PublishedIsDelivered'
    BY <1>4, <2>1, <2>2 DEF Ends, End, PublishedIsDelivered, TypeOK
  <2>. QED BY <1>0, <1>4, <2>1, <2>3, <2>4, <2>5, <2>6 DEF Ends, End, Grows
<1>5. CASE Begins
  <2>1. PICK i \in Instances, r \in Rows :
          /\ row[r] = "none"
          /\ row' = [row EXCEPT ![r] = "begun"]
          /\ createdAt' = [createdAt EXCEPT ![r] = clock]
          /\ before' = [before EXCEPT ![r] = Committed]
          /\ openTx' = [openTx EXCEPT ![i] = @ \union {r}]
          /\ UNCHANGED clock
    BY <1>5 DEF Begins
  <2>2. UNCHANGED Committed /\ r \notin Committed
    BY <2>1 DEF TypeOK, Committed
  <2>3. OpenInv'
    BY <2>1 DEF OpenInv, TypeOK
  <2>4. ClockInv'
    BY <2>1, <2>2 DEF ClockInv, TypeOK, Committed
  <2>5. UNCHANGED topic
    BY <1>5 DEF Begins
  <2>6. PublishedIsDelivered'
    BY <2>1, <2>5 DEF PublishedIsDelivered, TypeOK
  <2>7. \A k \in 1 .. Len(topic) : topic[k] \in Rows /\ topic[k] # r
    BY <2>2 DEF TypeOK, Range
  <2>8. RealTimeOrder'
    BY <2>1, <2>5, <2>7 DEF RealTimeOrder, TypeOK
  <2>9. Grows
    BY <2>1, <2>2, <2>5 DEF Grows, TypeOK, Committed
  <2>. QED BY <2>2, <2>3, <2>4, <2>5, <2>6, <2>8, <2>9
<1>6. CASE Idles
  BY <1>0, <1>6 DEF Idles, tableVars, OpenInv, ClockInv, Committed, PublishedIsDelivered, Grows
<1>. QED BY <1>1, <1>2, <1>3, <1>4, <1>5, <1>6
-----------------------------------------------------------------------------
\* What a worker holds is committed, and its past is in the topic or in the batch.
WorkerInv(i) ==
  /\ batch[i] \union ({cur[i]} \ {NoRow}) \subseteq Committed
  /\ pc[i] = "mark" => cur[i] \in Range(topic)
  /\ pc[i] = "send" => before[cur[i]] \subseteq Range(topic)
  /\ \A f \in batch[i] : before[f] \subseteq Range(topic) \union batch[i] \union {cur[i]}

\* A request in flight is for a committed row, and its past is in the topic.
RequestInv(r) == inflight[r] > 0 => r \in Committed /\ before[r] \subseteq Range(topic)

\* The invariant, part by part.
LEMMA RelayInvParts ==
  /\ RelayInv <=> /\ TableInv
                  /\ \A i \in Instances : WorkerInv(i)
                  /\ \A r \in Rows : RequestInv(r)
  /\ RelayInv' <=> /\ TableInv'
                   /\ \A i \in Instances : WorkerInv(i)'
                   /\ \A r \in Rows : RequestInv(r)'
BY DEF RelayInv, TableInv, WorkerInv, RequestInv, CommittedInv, CausalInv

\* A worker that does not move keeps its part while the topic grows.
LEMMA WorkerStays ==
  ASSUME TypeOK, NEW i \in Instances, WorkerInv(i), Grows,
         pc'[i] = pc[i], batch'[i] = batch[i], cur'[i] = cur[i]
  PROVE  WorkerInv(i)'
<1>1. batch'[i] \union ({cur'[i]} \ {NoRow}) \subseteq Committed'
  BY DEF WorkerInv, Grows
<1>2. pc'[i] = "mark" => cur'[i] \in Range(topic)'
  BY DEF WorkerInv, Grows
<1>3. pc'[i] = "send" => cur[i] \in Committed /\ before'[cur'[i]] \subseteq Range(topic)'
  BY DEF WorkerInv, Grows, TypeOK
<1>4. \A f \in batch'[i] : before'[f] \subseteq Range(topic)' \union batch'[i] \union {cur'[i]}
  BY DEF WorkerInv, Grows
<1>. QED BY <1>1, <1>2, <1>3, <1>4 DEF WorkerInv

\* A worker that holds nothing has nothing to keep.
LEMMA WorkerRests ==
  ASSUME NEW i \in Instances, batch'[i] = {}, cur'[i] = NoRow, pc'[i] \notin {"send", "mark"}
  PROVE  WorkerInv(i)'
BY DEF WorkerInv

\* A worker goes on to the oldest of the records left: the past of that record
\* cannot be among the others, so it is in the topic.
LEMMA WorkerMovesOn ==
  ASSUME TypeOK, TableInv, Grows, NEW i \in Instances, NEW todo \in SUBSET Committed,
         NextRecord(i, todo),
         \A f \in todo : before[f] \subseteq Range(topic) \union todo
  PROVE  WorkerInv(i)'
<1>1. CASE todo = {} /\ Return(i)
  BY <1>1, WorkerRests DEF Return, TypeOK
<1>2. CASE \E r \in Oldest(todo) :
             /\ pc' = [pc EXCEPT ![i] = "send"]
             /\ batch' = [batch EXCEPT ![i] = todo \ {r}]
             /\ cur' = [cur EXCEPT ![i] = r]
  <2>1. PICK r \in Oldest(todo) :
             /\ pc' = [pc EXCEPT ![i] = "send"]
             /\ batch' = [batch EXCEPT ![i] = todo \ {r}]
             /\ cur' = [cur EXCEPT ![i] = r]
    BY <1>2
  <2>2. r \in todo /\ \A s \in todo : createdAt[r] <= createdAt[s]
    BY DEF Oldest
  <2>3. pc'[i] = "send" /\ batch'[i] = todo \ {r} /\ cur'[i] = r
    BY <2>1 DEF TypeOK
  <2>4. before[r] \subseteq Range(topic)
    <3> SUFFICES ASSUME NEW e \in before[r], e \in todo
                 PROVE  FALSE
      BY <2>2
    <3>1. createdAt[e] < createdAt[r]
      BY <2>2 DEF TableInv, ClockInv, Committed
    <3>2. createdAt[r] <= createdAt[e] /\ createdAt[r] \in Nat /\ createdAt[e] \in Nat
      BY <2>2 DEF TypeOK, Committed
    <3>. QED BY <3>1, <3>2
  <2>5. \A f \in todo : before'[f] = before[f]
    BY DEF Grows
  <2>. QED BY <2>2, <2>3, <2>4, <2>5 DEF WorkerInv, Grows
<1>. QED BY <1>1, <1>2 DEF NextRecord

\* A batch that is read holds, for each of its records, all of that record's past
\* that is not in the topic.
LEMMA BatchIsClosed ==
  ASSUME TypeOK, TableInv, NEW B \in FirstBatches
  PROVE  /\ B \subseteq Committed
         /\ \A f \in B : before[f] \subseteq Range(topic) \union B
<1>1. B \subseteq Pending /\ \A r \in B, s \in Pending \ B : createdAt[r] <= createdAt[s]
  BY BatchIsOldest
<1>2. B \subseteq Committed
  BY <1>1 DEF Pending, Committed
<1>3. ASSUME NEW f \in B, NEW e \in before[f], e \notin Range(topic)
      PROVE  e \in B
  <2>1. e \in Committed /\ createdAt[e] < createdAt[f]
    BY <1>2 DEF TableInv, ClockInv, Committed
  <2>2. e \in Pending
    BY <1>3, <2>1 DEF TableInv, PublishedIsDelivered, Committed, Pending
  <2>3. createdAt[e] \in Nat /\ createdAt[f] \in Nat
    BY <1>2, <2>1 DEF TypeOK, Committed
  <2>. QED BY <1>1, <2>1, <2>2, <2>3
<1>. QED BY <1>2, <1>3

\* Only worker i moves.
OnlyMoves(i) ==
  \A j \in Instances \ {i} : pc'[j] = pc[j] /\ batch'[j] = batch[j] /\ cur'[j] = cur[j]

\* The loop's own moves are moves of one worker.
LEMMA OneWorkerMoves ==
  ASSUME TypeOK, NEW i \in Instances
  PROVE  /\ Return(i) => OnlyMoves(i)
         /\ \A todo : NextRecord(i, todo) => OnlyMoves(i)
BY DEF TypeOK, Return, NextRecord, OnlyMoves

\* Every step preserves what the invariant says of the workers.
LEMMA WorkersStep ==
  ASSUME TypeOK, RelayInv, Grows, [Next]_vars
  PROVE  \A i \in Instances : WorkerInv(i)'
<1>0. TableInv /\ \A i \in Instances : WorkerInv(i)
  BY RelayInvParts
<1>1. ASSUME NEW i \in Instances, OnlyMoves(i), WorkerInv(i)'
      PROVE  \A j \in Instances : WorkerInv(j)'
  <2>1. ASSUME NEW j \in Instances \ {i}
        PROVE  WorkerInv(j)'
    BY <1>0, <1>1, WorkerStays DEF OnlyMoves
  <2>. QED BY <1>1, <2>1
<1>2. ASSUME UNCHANGED loopVars
      PROVE  \A j \in Instances : WorkerInv(j)'
  BY <1>0, <1>2, WorkerStays DEF loopVars
<1>3. ASSUME NEW i \in Instances, Return(i)
      PROVE  \A j \in Instances : WorkerInv(j)'
  <2>1. WorkerInv(i)'
    BY <1>3, WorkerRests DEF Return, TypeOK
  <2>. QED BY <1>1, <1>3, <2>1, OneWorkerMoves
<1>4. ASSUME NEW i \in Instances, NEW todo \in SUBSET Committed, NextRecord(i, todo),
             \A f \in todo : before[f] \subseteq Range(topic) \union todo
      PROVE  \A j \in Instances : WorkerInv(j)'
  <2>1. WorkerInv(i)'
    BY <1>0, <1>4, WorkerMovesOn
  <2>. QED BY <1>1, <1>4, <2>1, OneWorkerMoves
<1>5. ASSUME NEW i \in Instances, pc[i] \in {"create", "mark"}
      PROVE  /\ batch[i] \in SUBSET Committed
             /\ \A f \in batch[i] : before[f] \subseteq Range(topic) \union batch[i]
  <2>1. WorkerInv(i)
    BY <1>0
  <2>2. pc[i] = "create" => cur[i] = NoRow
    BY <1>5 DEF TypeOK
  <2>3. \A f \in batch[i] : before[f] \subseteq Rows
    BY DEF TypeOK
  <2>. QED BY <1>5, <2>1, <2>2, <2>3, RelayAssumption DEF WorkerInv
<1>6. ASSUME NEW i \in Instances, NEW r \in Rows, Publish(i, r)
      PROVE  UNCHANGED loopVars
  BY <1>6 DEF Publish, Begin, PublishEvent, PublishEventFails, PublishEventWithTx,
              PublishEventWithTxFails, EndTx
<1>7. ASSUME NEW i \in Instances, WorkerStep(i)
      PROVE  \A j \in Instances : WorkerInv(j)'
  <2>1. CASE Tick(i) \/ EnsureTable(i)
    <3>1. /\ pc'[i] \in {"ensure", "select"} /\ pc[i] \in {"idle", "ensure"}
          /\ batch'[i] = batch[i] /\ cur'[i] = cur[i] /\ OnlyMoves(i)
      BY <2>1 DEF Tick, EnsureTable, OnlyMoves, TypeOK
    <3>2. cur[i] = NoRow
      BY <3>1 DEF TypeOK
    <3>3. WorkerInv(i)
      BY <1>0
    <3>4. WorkerInv(i)'
      BY <3>1, <3>2, <3>3 DEF WorkerInv, Grows
    <3>. QED BY <1>1, <3>1, <3>4
  <2>2. CASE SelectBatch(i)
    <3>1. PICK B \in FirstBatches :
             \/ /\ B = {} \/ sender[i] = "up"
                /\ NextRecord(i, B)
             \/ /\ B # {} /\ sender[i] = "broken"
                /\ pc' = [pc EXCEPT ![i] = "create"]
                /\ batch' = [batch EXCEPT ![i] = B]
                /\ UNCHANGED cur
      BY <2>2 DEF SelectBatch
    <3>2. /\ B \subseteq Committed
          /\ \A f \in B : before[f] \subseteq Range(topic) \union B
      BY <1>0, BatchIsClosed
    <3>3. CASE NextRecord(i, B)
      BY <1>4, <3>2, <3>3
    <3>4. CASE /\ pc' = [pc EXCEPT ![i] = "create"]
               /\ batch' = [batch EXCEPT ![i] = B]
               /\ UNCHANGED cur
      <4>1. pc'[i] = "create" /\ batch'[i] = B /\ cur'[i] = NoRow /\ OnlyMoves(i)
        BY <2>2, <3>4 DEF SelectBatch, TypeOK, OnlyMoves
      <4>2. WorkerInv(i)'
        BY <3>2, <4>1 DEF WorkerInv, Grows
      <4>. QED BY <1>1, <4>1, <4>2
    <3>. QED BY <3>1, <3>3, <3>4
  <2>3. CASE CreateSender(i)
    <3>1. pc[i] = "create" /\ NextRecord(i, batch[i])
      BY <2>3 DEF CreateSender
    <3>. QED BY <1>4, <1>5, <3>1
  <2>4. CASE SendOk(i)
    <3>1. /\ pc[i] = "send" /\ pc'[i] = "mark" /\ batch'[i] = batch[i] /\ cur'[i] = cur[i]
          /\ cur[i] \in Rows /\ OnlyMoves(i) /\ topic' = Append(topic, cur[i])
      BY <2>4 DEF SendOk, TypeOK, OnlyMoves
    <3>2. cur[i] \in Range(topic)'
      BY <3>1, AppendRange DEF TypeOK
    <3>3. WorkerInv(i)
      BY <1>0
    <3>4. WorkerInv(i)'
      BY <3>1, <3>2, <3>3 DEF WorkerInv, Grows
    <3>. QED BY <1>1, <3>1, <3>4
  <2>5. CASE SendRejected(i)
    BY <1>3, <2>5 DEF SendRejected, BreakSender
  <2>6. CASE MarkPublished(i)
    <3>1. pc[i] = "mark" /\ NextRecord(i, batch[i])
      BY <2>6 DEF MarkPublished
    <3>. QED BY <1>4, <1>5, <3>1
  <2>. QED BY <1>7, <2>1, <2>2, <2>3, <2>4, <2>5, <2>6 DEF WorkerStep
<1>8. ASSUME NEW i \in Instances, WorkerFault(i)
      PROVE  \A j \in Instances : WorkerInv(j)'
  <2>1. CASE EnsureTableFails(i) \/ SelectBatchFails(i) \/ CreateSenderFails(i) \/ SendFails(i)
    BY <1>3, <2>1 DEF EnsureTableFails, SelectBatchFails, CreateSenderFails, SendFails, BreakSender
  <2>2. CASE SendRetries(i)
    BY <1>2, <2>2 DEF SendRetries
  <2>3. CASE MarkPublishedFails(i)
    <3>1. pc[i] = "mark" /\ NextRecord(i, batch[i])
      BY <2>3 DEF MarkPublishedFails
    <3>. QED BY <1>4, <1>5, <3>1
  <2>4. CASE Crash(i)
    <3>1. pc'[i] = "down" /\ batch'[i] = {} /\ cur'[i] = NoRow /\ OnlyMoves(i)
      BY <2>4 DEF Crash, TypeOK, OnlyMoves
    <3>2. WorkerInv(i)'
      BY <3>1, WorkerRests
    <3>. QED BY <1>1, <3>1, <3>2
  <2>. QED BY <1>8, <2>1, <2>2, <2>3, <2>4 DEF WorkerFault
<1>9. ASSUME NEW i \in Instances, Restart(i)
      PROVE  \A j \in Instances : WorkerInv(j)'
  <2>1. pc'[i] = "idle" /\ batch'[i] = batch[i] /\ cur'[i] = cur[i] /\ cur[i] = NoRow /\ OnlyMoves(i)
    BY <1>9 DEF Restart, TypeOK, OnlyMoves
  <2>2. WorkerInv(i)
    BY <1>0
  <2>3. WorkerInv(i)'
    BY <2>1, <2>2 DEF WorkerInv, Grows
  <2>. QED BY <1>1, <2>1, <2>3
<1>10. ASSUME \/ \E i \in Instances : RecoveryTick(i)
              \/ \E r \in Rows : LateAppend(r)
              \/ UNCHANGED vars
       PROVE  UNCHANGED loopVars
  BY <1>10 DEF RecoveryTick, LateAppend, vars
<1>. QED BY <1>2, <1>6, <1>7, <1>8, <1>9, <1>10 DEF Next

\* Every step preserves what the invariant says of the requests in flight.
LEMMA RequestsStep ==
  ASSUME TypeOK, RelayInv, Grows, [Next]_vars
  PROVE  \A r \in Rows : RequestInv(r)'
<1>0. /\ \A i \in Instances : WorkerInv(i)
      /\ \A r \in Rows : RequestInv(r)
  BY RelayInvParts
<1>1. ASSUME NEW r \in Rows, inflight'[r] > 0, inflight[r] > 0
      PROVE  RequestInv(r)'
  BY <1>0, <1>1 DEF RequestInv, Grows
<1>2. ASSUME UNCHANGED inflight
      PROVE  \A r \in Rows : RequestInv(r)'
  BY <1>0, <1>2 DEF RequestInv, Grows
<1>3. ASSUME NEW i \in Instances, pc[i] = "send", Abandon(cur[i])
      PROVE  \A r \in Rows : RequestInv(r)'
  <2>1. cur[i] \in Committed /\ before[cur[i]] \subseteq Range(topic)
    BY <1>0, <1>3, RelayAssumption DEF WorkerInv, TypeOK
  <2>2. \A r \in Rows \ {cur[i]} : inflight'[r] = inflight[r]
    BY <1>3 DEF Abandon, TypeOK
  <2>. QED BY <1>0, <2>1, <2>2 DEF RequestInv, Grows
<1>4. ASSUME NEW i \in Instances, NEW r \in Rows, Publish(i, r)
      PROVE  UNCHANGED inflight
  BY <1>4 DEF Publish, Begin, PublishEvent, PublishEventFails, PublishEventWithTx,
              PublishEventWithTxFails, EndTx, kafkaVars
<1>5. ASSUME NEW i \in Instances, WorkerStep(i)
      PROVE  UNCHANGED inflight
  BY <1>5 DEF WorkerStep, Tick, EnsureTable, SelectBatch, CreateSender, SendOk, SendRejected,
              MarkPublished, kafkaVars
<1>6. ASSUME NEW i \in Instances, WorkerFault(i)
      PROVE  UNCHANGED inflight \/ (pc[i] = "send" /\ Abandon(cur[i]))
  BY <1>6 DEF WorkerFault, EnsureTableFails, SelectBatchFails, CreateSenderFails, SendRetries,
              SendFails, MarkPublishedFails, Crash, kafkaVars
<1>7. ASSUME NEW i \in Instances, RecoveryTick(i) \/ Restart(i)
      PROVE  UNCHANGED inflight
  BY <1>7 DEF RecoveryTick, Restart, kafkaVars
<1>8. ASSUME NEW r \in Rows, LateAppend(r)
      PROVE  \A s \in Rows : RequestInv(s)'
  <2>1. inflight[r] > 0 /\ \A s \in Rows \ {r} : inflight'[s] = inflight[s]
    BY <1>8 DEF LateAppend, TypeOK
  <2>. QED BY <1>0, <2>1 DEF RequestInv, Grows
<1>9. CASE UNCHANGED vars
  BY <1>2, <1>9 DEF vars, kafkaVars
<1>. QED BY <1>2, <1>3, <1>4, <1>5, <1>6, <1>7, <1>8, <1>9 DEF Next

\* The invariant holds initially.
LEMMA RelayInit == Init => RelayInv
BY DEF Init, RelayInv, OpenInv, ClockInv, CommittedInv, CausalInv, PublishedIsDelivered,
       RealTimeOrder, Committed, Range

\* The invariant is inductive.
LEMMA RelayStep ==
  ASSUME TypeOK, RelayInv, [Next]_vars
  PROVE  RelayInv'
<1>1. TableInv
  BY RelayInvParts
<1>2. TableInv' /\ Grows
  BY <1>1, StepEffect, TableStep
<1>. QED BY <1>2, WorkersStep, RequestsStep, RelayInvParts

\* Whatever a worker holds and whatever is on its way to the broker, its past is
\* in the topic or ahead of it, for any number of processes, rows and faults.
THEOREM RelayCorrect == Spec => []RelayInv
<1>1. Init => RelayInv
  BY RelayInit
<1>2. TypeOK /\ RelayInv /\ [Next]_vars => RelayInv'
  BY RelayStep
<1>. QED BY <1>1, <1>2, TypeCorrect, PTL DEF Spec

\* No event is lost between the table and the topic: published_at is never set on
\* a row the topic does not hold.
THEOREM NoLoss == Spec => []PublishedIsDelivered
<1>1. RelayInv => PublishedIsDelivered
  BY DEF RelayInv
<1>. QED BY <1>1, RelayCorrect, PTL

\* The topic's order respects the order of the transactions: each copy of an
\* event comes after everything that had committed before its transaction began.
THEOREM OrderKept == Spec => []RealTimeOrder
<1>1. RelayInv => RealTimeOrder
  BY DEF RelayInv
<1>. QED BY <1>1, RelayCorrect, PTL
-----------------------------------------------------------------------------
(***************************************************************************)
(* How many copies of an event there are.                                  *)
(***************************************************************************)
\* A set of processes is one more than the same set without one of its members.
LEMMA WithoutOne ==
  ASSUME NEW S \in SUBSET Instances, NEW i
  PROVE  /\ IsFiniteSet(S) /\ Cardinality(S) \in Nat /\ Cardinality(S \ {i}) \in Nat
         /\ Cardinality(S) = Cardinality(S \ {i}) + (IF i \in S THEN 1 ELSE 0)
<1>1. IsFiniteSet(S)
  BY RelayAssumption, FS_Subset
<1>2. IsFiniteSet(S \ {i})
  BY <1>1, FS_RemoveElement
<1>3. Cardinality(S) \in Nat /\ Cardinality(S \ {i}) \in Nat
  BY <1>1, <1>2, FS_CardinalityType
<1>4. Cardinality(S \ {i}) = IF i \in S THEN Cardinality(S) - 1 ELSE Cardinality(S)
  BY <1>1, FS_RemoveElement
<1>. QED BY <1>1, <1>3, <1>4

\* The copies of r in a topic t.
CopiesIn(t, r) == Cardinality({k \in 1 .. Len(t) : t[k] = r})

\* A message that is appended is one more copy of its row, and of no other.
LEMMA AppendCounts ==
  ASSUME NEW t \in Seq(Rows), NEW r \in Rows, NEW s \in Rows
  PROVE  /\ CopiesIn(t, r) \in Nat
         /\ CopiesIn(Append(t, s), r) = CopiesIn(t, r) + (IF s = r THEN 1 ELSE 0)
<1> DEFINE At(q) == {k \in 1 .. Len(q) : q[k] = r}
           u == Append(t, s)
<1>1. Len(t) \in Nat
  OBVIOUS
<1>2. IsFiniteSet(At(t))
  <2>1. IsFiniteSet(1 .. Len(t))
    BY <1>1, FS_Interval
  <2>. QED BY <2>1, FS_Subset
<1>3. Cardinality(At(t)) \in Nat
  BY <1>2, FS_CardinalityType
<1>4. Len(u) = Len(t) + 1 /\ u[Len(t) + 1] = s /\ \A k \in 1 .. Len(t) : u[k] = t[k]
  OBVIOUS
<1>5. \A k : k \in At(u) <=> k \in At(t) \/ (k = Len(t) + 1 /\ s = r)
  <2>1. \A k : k \in 1 .. Len(u) <=> k \in 1 .. Len(t) \/ k = Len(t) + 1
    BY <1>1, <1>4
  <2>. QED BY <1>4, <2>1
<1>6. CASE s = r
  <2>1. At(u) = At(t) \union {Len(t) + 1}
    BY <1>5, <1>6
  <2>2. Len(t) + 1 \notin At(t)
    BY <1>1
  <2>3. Cardinality(At(u)) = Cardinality(At(t)) + 1
    BY <1>2, <2>1, <2>2, FS_AddElement
  <2>. QED BY <1>3, <1>6, <2>3 DEF CopiesIn
<1>7. CASE s # r
  <2>1. At(u) = At(t)
    BY <1>5, <1>7
  <2>2. CopiesIn(u, r) = CopiesIn(t, r)
    BY <2>1 DEF CopiesIn
  <2>3. CopiesIn(t, r) \in Nat
    BY <1>3 DEF CopiesIn
  <2>. QED BY <1>7, <2>2, <2>3
<1>. QED BY <1>6, <1>7

\* What one process counts for among those that have sent r, and those that will.
MarkedBy(i, r) == IF pc[i] = "mark" /\ cur[i] = r THEN 1 ELSE 0
SentBy(i, r) == IF r \in batch[i] \/ (pc[i] = "send" /\ cur[i] = r) THEN 1 ELSE 0

\* No process has a record twice.
HeldOnce == \A i \in Instances : cur[i] \notin batch[i]

\* What CopiesInv says of one row.
Counted(r) ==
  IF row[r] = "published"
    THEN Copies(r) + Cardinality(Sending(r)) <= Cardinality(Instances) + faults
    ELSE Copies(r) <= Cardinality(Marking(r)) + faults

\* The others leave at least one process out, and a step of that process leaves them alone.
LEMMA TheOthers ==
  ASSUME TypeOK, HeldOnce, NEW i \in Instances, OnlyMoves(i), NEW r \in Rows
  PROVE  \E m, h \in Nat :
           /\ m + h + 1 <= Cardinality(Instances)
           /\ Cardinality(Marking(r)) = m + MarkedBy(i, r)
           /\ Cardinality(Sending(r)) = h + SentBy(i, r)
           /\ Cardinality(Marking(r)') = m + MarkedBy(i, r)'
           /\ Cardinality(Sending(r)') = h + SentBy(i, r)'
<1> DEFINE M == Marking(r) \ {i}
           H == Sending(r) \ {i}
<1>1. /\ Marking(r) \in SUBSET Instances /\ Marking(r)' \in SUBSET Instances
      /\ Sending(r) \in SUBSET Instances /\ Sending(r)' \in SUBSET Instances
  BY DEF Marking, Sending
<1>2. Marking(r)' \ {i} = M /\ Sending(r)' \ {i} = H
  BY DEF OnlyMoves, Marking, Sending
<1>3. /\ i \in Marking(r) <=> pc[i] = "mark" /\ cur[i] = r
      /\ i \in Sending(r) <=> r \in batch[i] \/ (pc[i] = "send" /\ cur[i] = r)
      /\ i \in Marking(r)' <=> pc'[i] = "mark" /\ cur'[i] = r
      /\ i \in Sending(r)' <=> r \in batch'[i] \/ (pc'[i] = "send" /\ cur'[i] = r)
  BY DEF Marking, Sending
<1>4. /\ Cardinality(Marking(r)) = Cardinality(M) + MarkedBy(i, r)
      /\ Cardinality(Sending(r)) = Cardinality(H) + SentBy(i, r)
  BY <1>1, <1>3, WithoutOne DEF MarkedBy, SentBy
<1>5. /\ Cardinality(Marking(r)') = Cardinality(M) + MarkedBy(i, r)'
      /\ Cardinality(Sending(r)') = Cardinality(H) + SentBy(i, r)'
  <2>1. /\ Cardinality(Marking(r)') = Cardinality(Marking(r)' \ {i})
                                      + (IF i \in Marking(r)' THEN 1 ELSE 0)
        /\ Cardinality(Sending(r)') = Cardinality(Sending(r)' \ {i})
                                      + (IF i \in Sending(r)' THEN 1 ELSE 0)
    BY <1>1, WithoutOne
  <2>. QED BY <1>2, <1>3, <2>1 DEF MarkedBy, SentBy
<1>6. Cardinality(M) + Cardinality(H) + 1 <= Cardinality(Instances)
  <2>1. M \intersect H = {}
    BY DEF HeldOnce, Marking, Sending
  <2>2. M \union H \in SUBSET (Instances \ {i})
    BY <1>1
  <2>3. IsFiniteSet(M) /\ IsFiniteSet(H) /\ IsFiniteSet(Instances \ {i})
    BY <1>1, WithoutOne, RelayAssumption, FS_RemoveElement
  <2>4. Cardinality(M \union H) = Cardinality(M) + Cardinality(H) - Cardinality({})
    BY <2>1, <2>3, FS_Union
  <2>5. Cardinality(M \union H) <= Cardinality(Instances \ {i})
    BY <2>2, <2>3, FS_Subset
  <2>6. Cardinality(Instances) = Cardinality(Instances \ {i}) + 1
    BY WithoutOne
  <2>7. Cardinality({}) = 0
    BY FS_EmptySet
  <2>8. Cardinality(M) \in Nat /\ Cardinality(H) \in Nat /\ Cardinality(Instances \ {i}) \in Nat
    BY <1>1, WithoutOne
  <2>. QED BY <2>4, <2>5, <2>6, <2>7, <2>8
<1>7. Cardinality(M) \in Nat /\ Cardinality(H) \in Nat
  BY <1>1, WithoutOne
<1>. QED BY <1>4, <1>5, <1>6, <1>7

\* What a step of process i may do to the copies of r: each copy has its process go
\* from sending r to marking it or is a failure, and who stamps r has it no more.
Accounts(i, r) ==
  /\ row[r] = "published" => row'[r] = "published"
  /\ faults' \in Nat /\ faults <= faults'
  /\ row'[r] # "published" =>
       Copies(r)' + MarkedBy(i, r) <= Copies(r) + MarkedBy(i, r)' + (faults' - faults)
  /\ row[r] = "published" =>
       Copies(r)' + SentBy(i, r)' <= Copies(r) + SentBy(i, r) + (faults' - faults)
  /\ row[r] # "published" /\ row'[r] = "published" => Copies(r)' = Copies(r) /\ SentBy(i, r)' = 0

\* Copies are counted in natural numbers, before a step and after it.
LEMMA CopiesType ==
  ASSUME TypeOK, TypeOK', NEW r \in Rows
  PROVE  /\ Copies(r) \in Nat /\ Copies(r) = CopiesIn(topic, r) + inflight[r]
         /\ Copies(r)' \in Nat /\ Copies(r)' = CopiesIn(topic', r) + inflight'[r]
<1>1. CopiesIn(topic, r) \in Nat /\ inflight[r] \in Nat
  BY AppendCounts DEF TypeOK
<1>2. CopiesIn(topic', r) \in Nat /\ inflight'[r] \in Nat
  BY AppendCounts DEF TypeOK
<1>. QED BY <1>1, <1>2 DEF Copies, CopiesIn

\* Such a step keeps the account of r.
LEMMA AccountKept ==
  ASSUME TypeOK, TypeOK', HeldOnce, NEW i \in Instances, OnlyMoves(i), NEW r \in Rows,
         Counted(r), Accounts(i, r)
  PROVE  Counted(r)'
<1>1. PICK m, h \in Nat :
        /\ m + h + 1 <= Cardinality(Instances)
        /\ Cardinality(Marking(r)) = m + MarkedBy(i, r)
        /\ Cardinality(Sending(r)) = h + SentBy(i, r)
        /\ Cardinality(Marking(r)') = m + MarkedBy(i, r)'
        /\ Cardinality(Sending(r)') = h + SentBy(i, r)'
  BY TheOthers
<1>2. /\ MarkedBy(i, r) \in 0 .. 1 /\ MarkedBy(i, r)' \in 0 .. 1
      /\ SentBy(i, r) \in 0 .. 1 /\ SentBy(i, r)' \in 0 .. 1
  BY DEF MarkedBy, SentBy
<1>3. /\ Copies(r) \in Nat /\ Copies(r)' \in Nat /\ faults \in Nat /\ faults' \in Nat
      /\ Cardinality(Instances) \in Nat
  <2>1. Cardinality(Instances) \in Nat
    BY WithoutOne
  <2>2. faults \in Nat /\ faults' \in Nat
    BY RelayAssumption DEF TypeOK
  <2>. QED BY <2>1, <2>2, CopiesType
<1>4. CASE row'[r] # "published"
  BY <1>1, <1>2, <1>3, <1>4 DEF Counted, Accounts
<1>5. CASE row[r] = "published"
  BY <1>1, <1>2, <1>3, <1>5 DEF Counted, Accounts
<1>6. CASE row[r] # "published" /\ row'[r] = "published"
  BY <1>1, <1>2, <1>3, <1>6 DEF Counted, Accounts
<1>. QED BY <1>4, <1>5, <1>6

\* A step that changes neither the workers' loops nor the number of copies, and stamps
\* nothing, keeps the account.
LEMMA QuietStep ==
  ASSUME TypeOK, TypeOK', NEW r \in Rows, Counted(r), UNCHANGED loopVars,
         Copies(r)' = Copies(r), row'[r] = "published" <=> row[r] = "published",
         faults <= faults'
  PROVE  Counted(r)'
<1>1. Marking(r)' = Marking(r) /\ Sending(r)' = Sending(r)
  BY DEF Marking, Sending, loopVars
<1>2. Marking(r) \in SUBSET Instances /\ Sending(r) \in SUBSET Instances
  BY DEF Marking, Sending
<1>3. /\ Cardinality(Marking(r)) \in Nat /\ Cardinality(Sending(r)) \in Nat
      /\ Cardinality(Instances) \in Nat
  BY <1>2, WithoutOne
<1>4. faults \in Nat /\ faults' \in Nat /\ Copies(r) \in Nat
  BY CopiesType, RelayAssumption DEF TypeOK
<1>. QED BY <1>1, <1>3, <1>4 DEF Counted

\* Transactions that end stamp nothing, and take no stamp away.
LEMMA EndStampsNothing ==
  ASSUME TypeOK, OpenInv, NEW i \in Instances, NEW C, NEW A, End(i, C, A), NEW r \in Rows
  PROVE  row'[r] = "published" <=> row[r] = "published"
<1>1. r \in C \union A => row[r] \in {"begun", "inserted"}
  BY DEF End, OpenInv
<1>2. row'[r] = IF r \in C THEN "pending" ELSE IF r \in A THEN "aborted" ELSE row[r]
  BY DEF End
<1>. QED BY <1>1, <1>2

\* Where the loop goes, it holds nothing twice and nothing but what is left to do.
LEMMA LoopGoesOn ==
  ASSUME TypeOK, NEW i \in Instances, NEW todo \in SUBSET Rows, NextRecord(i, todo)
  PROVE  /\ OnlyMoves(i)
         /\ cur'[i] \notin batch'[i]
         /\ \A r \in Rows : MarkedBy(i, r)' = 0 /\ (SentBy(i, r)' = 0 \/ r \in todo)
<1>1. CASE todo = {} /\ Return(i)
  <2>1. pc'[i] = "idle" /\ batch'[i] = {} /\ cur'[i] = NoRow
    BY <1>1 DEF Return, TypeOK
  <2>. QED BY <1>1, <2>1, OneWorkerMoves DEF MarkedBy, SentBy
<1>2. CASE \E r \in Oldest(todo) :
             /\ pc' = [pc EXCEPT ![i] = "send"]
             /\ batch' = [batch EXCEPT ![i] = todo \ {r}]
             /\ cur' = [cur EXCEPT ![i] = r]
  <2>1. PICK r \in todo :
             /\ pc' = [pc EXCEPT ![i] = "send"]
             /\ batch' = [batch EXCEPT ![i] = todo \ {r}]
             /\ cur' = [cur EXCEPT ![i] = r]
    BY <1>2 DEF Oldest
  <2>2. pc'[i] = "send" /\ batch'[i] = todo \ {r} /\ cur'[i] = r
    BY <2>1 DEF TypeOK
  <2>. QED BY <2>2, OneWorkerMoves DEF MarkedBy, SentBy
<1>. QED BY <1>1, <1>2 DEF NextRecord

\* What a loop does that returns: it holds nothing any more.
LEMMA LoopReturns ==
  ASSUME TypeOK, NEW i \in Instances, Return(i)
  PROVE  /\ OnlyMoves(i)
         /\ cur'[i] \notin batch'[i]
         /\ \A r \in Rows : MarkedBy(i, r)' = 0 /\ SentBy(i, r)' = 0
<1>1. pc'[i] = "idle" /\ batch'[i] = {} /\ cur'[i] = NoRow
  BY DEF Return, TypeOK
<1>. QED BY <1>1, OneWorkerMoves DEF MarkedBy, SentBy

\* What processes count for is 0 or 1.
LEMMA OneEach ==
  ASSUME NEW i, NEW r
  PROVE  /\ MarkedBy(i, r) \in 0 .. 1 /\ SentBy(i, r) \in 0 .. 1
         /\ MarkedBy(i, r)' \in 0 .. 1 /\ SentBy(i, r)' \in 0 .. 1
BY DEF MarkedBy, SentBy

\* A step of one process that keeps the account of every row keeps CopiesInv.
LEMMA ProcessKeeps ==
  ASSUME TypeOK, TypeOK', CopiesInv, NEW i \in Instances, OnlyMoves(i), cur'[i] \notin batch'[i],
         \A r \in Rows : Accounts(i, r)
  PROVE  CopiesInv'
<1>1. HeldOnce /\ \A r \in Rows : Counted(r)
  BY DEF CopiesInv, HeldOnce, Counted
<1>2. \A r \in Rows : Counted(r)'
  BY <1>1, AccountKept
<1>3. HeldOnce'
  BY <1>1 DEF HeldOnce, OnlyMoves
<1>. QED BY <1>2, <1>3 DEF CopiesInv, HeldOnce, Counted

\* A worker that stamps nothing, appends nothing and abandons nothing may drop what it
\* has, and read rows that are not stamped.
LEMMA ReadingAccounts ==
  ASSUME TypeOK, TypeOK', NEW i \in Instances, NEW r \in Rows,
         UNCHANGED <<row, topic, inflight>>, faults <= faults',
         MarkedBy(i, r) = 0 \/ faults' = faults + 1,
         SentBy(i, r)' = 0 \/ row[r] # "published" \/ SentBy(i, r)' = SentBy(i, r)
  PROVE  Accounts(i, r)
<1>1. faults \in Nat /\ faults' \in Nat
  BY RelayAssumption DEF TypeOK
<1>2. Copies(r)' = Copies(r) /\ Copies(r) \in Nat
  BY CopiesType
<1>3. /\ MarkedBy(i, r) \in {0, 1} /\ MarkedBy(i, r)' \in {0, 1}
      /\ SentBy(i, r) \in {0, 1} /\ SentBy(i, r)' \in {0, 1}
  BY DEF MarkedBy, SentBy
<1>. QED BY <1>1, <1>2, <1>3 DEF Accounts

\* A worker that has sent a record stamps it, or fails to, and goes on.
LEMMA StampAccounts ==
  ASSUME TypeOK, TypeOK', NEW i \in Instances, pc[i] = "mark", NextRecord(i, batch[i]),
         cur[i] \notin batch[i], UNCHANGED <<topic, inflight>>,
         \/ row' = [row EXCEPT ![cur[i]] = "published"] /\ faults' \in {faults, faults + 1}
         \/ UNCHANGED row /\ faults' = faults + 1
  PROVE  \A r \in Rows : Accounts(i, r)
<1> SUFFICES ASSUME NEW r \in Rows
             PROVE  Accounts(i, r)
  OBVIOUS
<1>1. faults \in Nat /\ faults' \in Nat /\ faults <= faults'
  BY RelayAssumption DEF TypeOK
<1>2. Copies(r)' = Copies(r) /\ Copies(r) \in Nat
  BY CopiesType
<1>3. batch[i] \in SUBSET Rows /\ cur[i] \in Rows
  BY DEF TypeOK
<1>4. MarkedBy(i, r)' = 0 /\ (SentBy(i, r)' = 0 \/ r \in batch[i])
  BY <1>3, LoopGoesOn
<1>5. MarkedBy(i, r) \in {0, 1} /\ SentBy(i, r)' \in {0, 1} /\ SentBy(i, r) \in {0, 1}
  BY OneEach
<1>6. r \in batch[i] => SentBy(i, r) = 1 /\ MarkedBy(i, r) = 0
  BY DEF MarkedBy, SentBy
<1>7. row'[r] = row[r] \/ (cur[i] = r /\ row'[r] = "published")
  BY <1>3 DEF TypeOK
<1>8. row[r] = "published" => row'[r] = "published"
  BY <1>7
<1>9. row'[r] # "published" => MarkedBy(i, r) = 0 \/ faults' = faults + 1
  <2>1. MarkedBy(i, r) = 0 \/ cur[i] = r
    BY DEF MarkedBy
  <2>. QED BY <1>3, <2>1 DEF TypeOK
<1>10. row[r] # "published" /\ row'[r] = "published" => SentBy(i, r)' = 0
  BY <1>4, <1>7
<1>. QED BY <1>1, <1>2, <1>4, <1>5, <1>6, <1>8, <1>9, <1>10 DEF Accounts

\* Every step of the loop that succeeds, or rejects poison, keeps the accounts.
LEMMA WorkerStepKeepsCopies ==
  ASSUME TypeOK, TypeOK', CopiesInv, NEW i \in Instances, WorkerStep(i)
  PROVE  CopiesInv'
<1> USE DEF tableVars, kafkaVars, flagVars
<1>1. batch[i] \in SUBSET Rows /\ cur[i] \notin batch[i] /\ faults \in Nat
  BY RelayAssumption DEF TypeOK, CopiesInv
<1>2. ASSUME NEW todo \in SUBSET Rows, NextRecord(i, todo), pc[i] # "mark",
             UNCHANGED <<row, topic, inflight, faults>>,
             \A r \in todo : row[r] # "published" \/ r \in batch[i]
      PROVE  CopiesInv'
  <2>1. \A r \in Rows : MarkedBy(i, r) = 0 /\ (r \in batch[i] => SentBy(i, r) = 1)
    BY <1>2 DEF MarkedBy, SentBy
  <2>2. \A r \in Rows : SentBy(i, r)' = 0 \/ row[r] # "published" \/ SentBy(i, r)' = SentBy(i, r)
    BY <1>2, <2>1, LoopGoesOn, OneEach
  <2>3. \A r \in Rows : Accounts(i, r)
    BY <1>1, <1>2, <2>1, <2>2, ReadingAccounts
  <2>. QED BY <1>2, <2>3, LoopGoesOn, ProcessKeeps
<1>3. CASE Tick(i) \/ EnsureTable(i)
  <2>1. /\ pc[i] \in {"idle", "ensure"} /\ pc'[i] \in {"ensure", "select"}
        /\ batch'[i] = batch[i] /\ cur'[i] = cur[i] /\ OnlyMoves(i)
        /\ UNCHANGED <<row, topic, inflight, faults>>
    BY <1>3 DEF Tick, EnsureTable, OnlyMoves, TypeOK
  <2>2. \A r \in Rows : MarkedBy(i, r) = 0 /\ SentBy(i, r)' = SentBy(i, r)
    BY <2>1 DEF MarkedBy, SentBy
  <2>3. \A r \in Rows : Accounts(i, r)
    BY <1>1, <2>1, <2>2, ReadingAccounts
  <2>. QED BY <1>1, <2>1, <2>3, ProcessKeeps
<1>4. CASE SelectBatch(i)
  <2>1. PICK B \in FirstBatches :
           \/ /\ B = {} \/ sender[i] = "up"
              /\ NextRecord(i, B)
           \/ /\ B # {} /\ sender[i] = "broken"
              /\ pc' = [pc EXCEPT ![i] = "create"]
              /\ batch' = [batch EXCEPT ![i] = B]
              /\ UNCHANGED cur
    BY <1>4 DEF SelectBatch
  <2>2. B \in SUBSET Rows /\ \A r \in B : row[r] # "published"
    BY BatchIsOldest DEF Pending
  <2>3. pc[i] = "select" /\ UNCHANGED <<row, topic, inflight, faults>>
    BY <1>4 DEF SelectBatch
  <2>4. CASE NextRecord(i, B)
    BY <1>2, <2>2, <2>3, <2>4
  <2>5. CASE /\ pc' = [pc EXCEPT ![i] = "create"]
             /\ batch' = [batch EXCEPT ![i] = B]
             /\ UNCHANGED cur
    <3>1. pc'[i] = "create" /\ batch'[i] = B /\ cur'[i] = NoRow /\ OnlyMoves(i)
      BY <2>3, <2>5 DEF TypeOK, OnlyMoves
    <3>2. \A r \in Rows : MarkedBy(i, r) = 0 /\ (SentBy(i, r)' = 0 \/ row[r] # "published")
      BY <2>2, <2>3, <3>1 DEF MarkedBy, SentBy
    <3>3. \A r \in Rows : Accounts(i, r)
      BY <1>1, <2>3, <3>2, ReadingAccounts
    <3>4. NoRow \notin B
      BY <2>2, RelayAssumption
    <3>. QED BY <3>1, <3>3, <3>4, ProcessKeeps
  <2>. QED BY <2>1, <2>4, <2>5
<1>5. CASE CreateSender(i)
  <2>1. pc[i] = "create" /\ NextRecord(i, batch[i]) /\ UNCHANGED <<row, topic, inflight, faults>>
    BY <1>5 DEF CreateSender
  <2>. QED BY <1>1, <1>2, <2>1
<1>6. CASE SendOk(i)
  <2>1. /\ pc[i] = "send" /\ cur[i] \in Rows /\ topic' = Append(topic, cur[i])
        /\ pc'[i] = "mark" /\ batch'[i] = batch[i] /\ cur'[i] = cur[i] /\ OnlyMoves(i)
        /\ UNCHANGED <<row, inflight, faults>>
    BY <1>6 DEF SendOk, OnlyMoves, TypeOK
  <2>2. ASSUME NEW r \in Rows
        PROVE  Accounts(i, r)
    <3>1. Copies(r)' = Copies(r) + (IF cur[i] = r THEN 1 ELSE 0) /\ Copies(r) \in Nat
      <4>1. topic \in Seq(Rows)
        BY DEF TypeOK
      <4>2. /\ CopiesIn(topic, r) \in Nat
            /\ CopiesIn(topic', r) = CopiesIn(topic, r) + (IF cur[i] = r THEN 1 ELSE 0)
        BY <2>1, <4>1, AppendCounts
      <4>3. inflight'[r] = inflight[r] /\ inflight[r] \in Nat
        BY <2>1 DEF TypeOK
      <4>. QED BY <4>2, <4>3, CopiesType
    <3>2. CASE cur[i] = r
      <4>1. /\ MarkedBy(i, r) = 0 /\ MarkedBy(i, r)' = 1
            /\ SentBy(i, r) = 1 /\ SentBy(i, r)' = 0
        BY <1>1, <2>1, <3>2 DEF MarkedBy, SentBy
      <4>. QED BY <1>1, <2>1, <3>1, <3>2, <4>1 DEF Accounts
    <3>3. CASE cur[i] # r
      <4>1. MarkedBy(i, r) = 0 /\ MarkedBy(i, r)' = 0 /\ SentBy(i, r)' = SentBy(i, r)
        BY <2>1, <3>3 DEF MarkedBy, SentBy
      <4>. QED BY <1>1, <2>1, <3>1, <3>3, <4>1, OneEach DEF Accounts
    <3>. QED BY <3>2, <3>3
  <2>. QED BY <1>1, <2>1, <2>2, ProcessKeeps
<1>7. CASE SendRejected(i)
  <2>1. pc[i] = "send" /\ Return(i) /\ UNCHANGED <<row, topic, inflight, faults>>
    BY <1>7 DEF SendRejected, BreakSender
  <2>2. \A r \in Rows : MarkedBy(i, r) = 0 /\ SentBy(i, r)' = 0
    BY <2>1, LoopReturns DEF MarkedBy
  <2>3. \A r \in Rows : Accounts(i, r)
    BY <1>1, <2>1, <2>2, ReadingAccounts
  <2>. QED BY <2>1, <2>3, LoopReturns, ProcessKeeps
<1>8. CASE MarkPublished(i)
  <2>1. /\ pc[i] = "mark" /\ cur[i] \in Rows /\ NextRecord(i, batch[i])
        /\ row' = [row EXCEPT ![cur[i]] = "published"]
        /\ UNCHANGED <<topic, inflight, faults>>
    BY <1>8 DEF MarkPublished, TypeOK
  <2>2. \A r \in Rows : Accounts(i, r)
    BY <1>1, <2>1, StampAccounts
  <2>. QED BY <1>1, <2>1, <2>2, LoopGoesOn, ProcessKeeps
<1>. QED BY <1>3, <1>4, <1>5, <1>6, <1>7, <1>8 DEF WorkerStep

\* An abandoned request is one more copy of its row; one that is not, none.
LEMMA AbandonCounts ==
  ASSUME TypeOK, TypeOK', NEW s \in Rows, UNCHANGED topic, NEW r \in Rows
  PROVE  /\ Abandon(s) => Copies(r)' = Copies(r) + (IF s = r THEN 1 ELSE 0)
         /\ UNCHANGED inflight => Copies(r)' = Copies(r)
<1>1. inflight[r] \in Nat /\ CopiesIn(topic, r) \in Nat
  BY AppendCounts DEF TypeOK
<1>2. Abandon(s) => inflight'[r] = inflight[r] + (IF s = r THEN 1 ELSE 0)
  BY <1>1 DEF Abandon, TypeOK
<1>. QED BY <1>1, <1>2, CopiesType

\* A worker that fails while it sends, or dies, leaves at most one copy of its record
\* behind, and has nothing any more.
LEMMA SendingFails ==
  ASSUME TypeOK, TypeOK', NEW i \in Instances, UNCHANGED topic, faults' = faults + 1,
         \/ pc[i] = "send" /\ Abandon(cur[i])
         \/ UNCHANGED inflight,
         NEW r \in Rows, row'[r] = "published" <=> row[r] = "published",
         SentBy(i, r)' <= SentBy(i, r)
  PROVE  Accounts(i, r)
<1>1. faults \in Nat /\ Copies(r) \in Nat
  BY CopiesType, RelayAssumption DEF TypeOK
<1>2. /\ MarkedBy(i, r) \in {0, 1} /\ MarkedBy(i, r)' \in {0, 1}
      /\ SentBy(i, r) \in {0, 1} /\ SentBy(i, r)' \in {0, 1}
  BY OneEach
<1>3. CASE UNCHANGED inflight
  <2>1. Copies(r)' = Copies(r)
    BY <1>3, AbandonCounts
  <2>. QED BY <1>1, <1>2, <2>1 DEF Accounts
<1>4. CASE pc[i] = "send" /\ Abandon(cur[i])
  <2>1. cur[i] \in Rows /\ MarkedBy(i, r) = 0
    BY <1>4 DEF TypeOK, MarkedBy
  <2>2. Copies(r)' = Copies(r) + (IF cur[i] = r THEN 1 ELSE 0)
    BY <1>4, <2>1, AbandonCounts
  <2>3. Copies(r)' <= Copies(r) + 1
    BY <1>1, <2>2
  <2>4. Copies(r)' \in Nat
    BY CopiesType
  <2>. QED BY <1>1, <1>2, <2>1, <2>3, <2>4 DEF Accounts
<1>. QED BY <1>3, <1>4

\* Every failure keeps the accounts: what it adds, it is counted for.
LEMMA WorkerFaultKeepsCopies ==
  ASSUME TypeOK, TypeOK', OpenInv, CopiesInv, NEW i \in Instances, WorkerFault(i)
  PROVE  CopiesInv'
<1> USE DEF kafkaVars, flagVars
<1>1. /\ batch[i] \in SUBSET Rows /\ cur[i] \notin batch[i] /\ faults \in Nat
      /\ \A r \in Rows : SentBy(i, r) \in {0, 1}
  BY OneEach, RelayAssumption DEF TypeOK, CopiesInv
<1>2. faults' = faults + 1
  BY DEF WorkerFault, EnsureTableFails, SelectBatchFails, CreateSenderFails, SendRetries,
         SendFails, MarkPublishedFails, Crash, Fault
<1>3. ASSUME NEW r \in Rows, UNCHANGED row
      PROVE  row'[r] = "published" <=> row[r] = "published"
  BY <1>3
<1>4. CASE EnsureTableFails(i) \/ SelectBatchFails(i) \/ CreateSenderFails(i)
  <2>1. Return(i) /\ UNCHANGED <<row, topic, inflight>>
    BY <1>4 DEF EnsureTableFails, SelectBatchFails, CreateSenderFails, tableVars
  <2>2. \A r \in Rows : SentBy(i, r)' = 0
    BY <2>1, LoopReturns
  <2>3. \A r \in Rows : Accounts(i, r)
    BY <1>1, <1>2, <2>1, <2>2, ReadingAccounts
  <2>. QED BY <2>1, <2>3, LoopReturns, ProcessKeeps
<1>5. CASE SendRetries(i)
  <2>1. /\ pc[i] = "send" /\ Abandon(cur[i]) /\ UNCHANGED <<row, topic>>
        /\ pc' = pc /\ batch' = batch /\ cur' = cur
    BY <1>5 DEF SendRetries, tableVars, loopVars
  <2>2. \A r \in Rows : SentBy(i, r)' = SentBy(i, r)
    BY <2>1 DEF SentBy
  <2>3. \A r \in Rows : SentBy(i, r)' <= SentBy(i, r)
    BY <1>1, <2>2
  <2>4. \A r \in Rows : Accounts(i, r)
    BY <1>2, <1>3, <2>1, <2>3, SendingFails
  <2>5. OnlyMoves(i)
    BY <2>1 DEF OnlyMoves
  <2>. QED BY <1>1, <2>1, <2>4, <2>5, ProcessKeeps
<1>6. CASE SendFails(i)
  <2>1. /\ pc[i] = "send" /\ Return(i) /\ UNCHANGED <<row, topic>>
        /\ Abandon(cur[i]) \/ UNCHANGED inflight
    BY <1>6 DEF SendFails, BreakSender, tableVars
  <2>2. \A r \in Rows : SentBy(i, r)' <= SentBy(i, r)
    BY <1>1, <2>1, LoopReturns
  <2>3. \A r \in Rows : Accounts(i, r)
    BY <1>2, <1>3, <2>1, <2>2, SendingFails
  <2>. QED BY <2>1, <2>3, LoopReturns, ProcessKeeps
<1>7. CASE MarkPublishedFails(i)
  <2>1. /\ pc[i] = "mark" /\ NextRecord(i, batch[i]) /\ UNCHANGED <<topic, inflight>>
        /\ row' = [row EXCEPT ![cur[i]] = "published"] \/ UNCHANGED row
    BY <1>7 DEF MarkPublishedFails
  <2>2. \A r \in Rows : Accounts(i, r)
    BY <1>1, <1>2, <2>1, StampAccounts
  <2>. QED BY <1>1, <2>1, <2>2, LoopGoesOn, ProcessKeeps
<1>8. CASE Crash(i)
  <2>1. /\ pc'[i] = "down" /\ batch'[i] = {} /\ cur'[i] = NoRow /\ OnlyMoves(i)
        /\ UNCHANGED topic
        /\ (pc[i] = "send" /\ Abandon(cur[i])) \/ UNCHANGED inflight
    BY <1>8 DEF Crash, TypeOK, OnlyMoves
  <2>2. \A r \in Rows : SentBy(i, r)' = 0
    BY <2>1 DEF SentBy
  <2>3. \A r \in Rows : SentBy(i, r)' <= SentBy(i, r)
    BY <1>1, <2>2
  <2>4. PICK C \in SUBSET openTx[i] : End(i, C, openTx[i] \ C)
    BY <1>8 DEF Crash
  <2>5. \A r \in Rows : row'[r] = "published" <=> row[r] = "published"
    BY <2>4, EndStampsNothing
  <2>6. \A r \in Rows : Accounts(i, r)
    BY <1>2, <2>1, <2>3, <2>5, SendingFails
  <2>. QED BY <2>1, <2>6, ProcessKeeps
<1>. QED BY <1>4, <1>5, <1>6, <1>7, <1>8 DEF WorkerFault

\* Publishing, the recovery loop and the network send nothing and stamp nothing.
LEMMA OthersKeepCopies ==
  ASSUME TypeOK, TypeOK', OpenInv, CopiesInv,
         \/ \E i \in Instances, r \in Rows : Publish(i, r)
         \/ \E i \in Instances : RecoveryTick(i)
         \/ \E r \in Rows : LateAppend(r)
         \/ UNCHANGED vars
  PROVE  CopiesInv'
<1>1. faults \in Nat /\ faults' \in Nat
  BY RelayAssumption DEF TypeOK
<1>2. UNCHANGED loopVars /\ faults <= faults'
  <2>1. ASSUME NEW i \in Instances, NEW r \in Rows, Publish(i, r)
        PROVE  UNCHANGED loopVars /\ (faults' = faults \/ faults' = faults + 1)
    BY <2>1 DEF Publish, Begin, PublishEvent, PublishEventFails, PublishEventWithTx,
                PublishEventWithTxFails, EndTx, Fault
  <2>2. CASE \/ \E i \in Instances : RecoveryTick(i)
             \/ \E r \in Rows : LateAppend(r)
             \/ UNCHANGED vars
    BY <1>1, <2>2 DEF RecoveryTick, LateAppend, vars
  <2>. QED BY <1>1, <2>1, <2>2
<1>3. ASSUME NEW r \in Rows
      PROVE  row'[r] = "published" <=> row[r] = "published"
  <2>1. ASSUME NEW i \in Instances, NEW s \in Rows, Publish(i, s)
        PROVE  row'[r] = "published" <=> row[r] = "published"
    <3>1. CASE End(i, {s}, {}) \/ End(i, {}, {s})
      BY <3>1, EndStampsNothing
    <3>2. CASE Begin(i, s) \/ PublishEventWithTx(i, s)
      BY <3>2 DEF Begin, PublishEventWithTx, TypeOK
    <3>. QED BY <2>1, <3>1, <3>2 DEF Publish, PublishEvent, PublishEventFails,
                                     PublishEventWithTxFails, EndTx
  <2>2. CASE \/ \E i \in Instances : RecoveryTick(i)
             \/ \E s \in Rows : LateAppend(s)
             \/ UNCHANGED vars
    BY <2>2 DEF RecoveryTick, LateAppend, vars, tableVars
  <2>. QED BY <2>1, <2>2
<1>4. ASSUME NEW r \in Rows
      PROVE  Copies(r)' = Copies(r)
  <2>1. ASSUME NEW s \in Rows, LateAppend(s)
        PROVE  Copies(r)' = Copies(r)
    <3>1. topic \in Seq(Rows) /\ topic' = Append(topic, s)
      BY <2>1 DEF LateAppend, TypeOK
    <3>2. /\ CopiesIn(topic, r) \in Nat
          /\ CopiesIn(topic', r) = CopiesIn(topic, r) + (IF s = r THEN 1 ELSE 0)
      BY <3>1, AppendCounts
    <3>3. /\ inflight[r] \in Nat
          /\ inflight'[r] = inflight[r] - (IF s = r THEN 1 ELSE 0)
      BY <2>1 DEF LateAppend, TypeOK
    <3>. QED BY <3>2, <3>3, CopiesType
  <2>2. CASE UNCHANGED <<topic, inflight>>
    BY <2>2, CopiesType
  <2>3. CASE ~(\E s \in Rows : LateAppend(s))
    <3>1. UNCHANGED <<topic, inflight>>
      BY <2>3 DEF Publish, Begin, PublishEvent, PublishEventFails, PublishEventWithTx,
                  PublishEventWithTxFails, EndTx, RecoveryTick, vars, kafkaVars
    <3>. QED BY <2>2, <3>1
  <2>. QED BY <2>1, <2>3
<1>5. \A r \in Rows : Counted(r)'
  BY <1>2, <1>3, <1>4, QuietStep DEF CopiesInv, Counted
<1>6. HeldOnce'
  BY <1>2 DEF CopiesInv, HeldOnce, loopVars
<1>. QED BY <1>5, <1>6 DEF CopiesInv, HeldOnce, Counted

\* A process that comes back has nothing.
LEMMA RestartKeepsCopies ==
  ASSUME TypeOK, TypeOK', CopiesInv, NEW i \in Instances, Restart(i)
  PROVE  CopiesInv'
<1>1. /\ pc[i] = "down" /\ pc'[i] = "idle" /\ batch'[i] = batch[i] /\ cur'[i] = cur[i]
      /\ OnlyMoves(i) /\ UNCHANGED <<row, topic, inflight, faults>>
  BY DEF Restart, OnlyMoves, TypeOK, tableVars, kafkaVars
<1>2. faults \in Nat /\ cur[i] \notin batch[i]
  BY RelayAssumption DEF TypeOK, CopiesInv
<1>3. \A r \in Rows : MarkedBy(i, r) = 0 /\ SentBy(i, r)' = SentBy(i, r)
  BY <1>1 DEF MarkedBy, SentBy
<1>4. \A r \in Rows : Accounts(i, r)
  BY <1>1, <1>2, <1>3, ReadingAccounts
<1>. QED BY <1>1, <1>2, <1>4, ProcessKeeps

\* Initially there are no copies, and nobody has anything.
LEMMA CopiesInit == Init => CopiesInv
<1> SUFFICES ASSUME Init
             PROVE  CopiesInv
  OBVIOUS
<1>1. \A i \in Instances : cur[i] \notin batch[i]
  BY DEF Init
<1>2. ASSUME NEW r \in Rows
      PROVE  row[r] # "published" /\ Copies(r) <= Cardinality(Marking(r)) + faults
  <2>1. {k \in 1 .. Len(topic) : topic[k] = r} = {} /\ inflight[r] = 0 /\ faults = 0
    BY DEF Init
  <2>2. Copies(r) = 0
    BY <2>1, FS_EmptySet DEF Copies
  <2>3. Marking(r) = {}
    BY DEF Init, Marking
  <2>4. Cardinality(Marking(r)) = 0
    BY <2>3, FS_EmptySet
  <2>. QED BY <2>1, <2>2, <2>4 DEF Init
<1>. QED BY <1>1, <1>2 DEF CopiesInv

\* The account of the copies is kept by every step, for any number of processes, rows
\* and failures.
THEOREM CopiesCorrect == Spec => []CopiesInv
<1>1. Init => CopiesInv
  BY CopiesInit
<1>2. TypeOK /\ TypeOK' /\ RelayInv /\ CopiesInv /\ [Next]_vars => CopiesInv'
  BY WorkerStepKeepsCopies, WorkerFaultKeepsCopies, OthersKeepCopies, RestartKeepsCopies
     DEF Next, RelayInv
<1>. QED BY <1>1, <1>2, TypeCorrect, RelayCorrect, PTL DEF Spec

\* Each process sends a row at most once, and once more for each failure: nothing but
\* processes that share the table and calls that fail makes a duplicate.
THEOREM FewDuplicates == Spec => []DuplicatesBounded
<1>1. TypeOK /\ TypeOK' /\ CopiesInv => DuplicatesBounded
  <2> SUFFICES ASSUME TypeOK, TypeOK', CopiesInv, NEW r \in Rows
               PROVE  Copies(r) <= Cardinality(Instances) + faults
    BY DEF DuplicatesBounded
  <2>1. Marking(r) \in SUBSET Instances /\ Sending(r) \in SUBSET Instances
    BY DEF Marking, Sending
  <2>2. /\ Cardinality(Marking(r)) \in Nat /\ Cardinality(Sending(r)) \in Nat
        /\ Cardinality(Instances) \in Nat
    BY <2>1, WithoutOne
  <2>3. Cardinality(Marking(r)) <= Cardinality(Instances)
    BY <2>1, RelayAssumption, FS_Subset
  <2>4. faults \in Nat /\ Copies(r) \in Nat
    BY CopiesType, RelayAssumption DEF TypeOK
  <2>. QED BY <2>2, <2>3, <2>4 DEF CopiesInv
<1>. QED BY <1>1, TypeCorrect, CopiesCorrect, PTL
-----------------------------------------------------------------------------
(***************************************************************************)
(* The relay implements TransactionalOutbox.                               *)
(***************************************************************************)
\* What the table looks like to the embedding service, row by row.
LEMMA StatusOf ==
  ASSUME TypeOK
  PROVE  /\ \A r \in Rows :
              /\ Status[r] = "open" <=> row[r] \in {"begun", "inserted"}
              /\ Status[r] = "committed" <=> row[r] = "pending"
              /\ Status[r] = "acknowledged" <=> row[r] = "published"
              /\ Status[r] = "none" <=> row[r] = "none"
              /\ Status[r] = "aborted" <=> row[r] = "aborted"
         /\ Abstract!Committed = Committed
         /\ Abstract!Range(topic) = Range(topic)
<1>1. \A r \in Rows :
        /\ Status[r] = "open" <=> row[r] \in {"begun", "inserted"}
        /\ Status[r] = "committed" <=> row[r] = "pending"
        /\ Status[r] = "acknowledged" <=> row[r] = "published"
        /\ Status[r] = "none" <=> row[r] = "none"
        /\ Status[r] = "aborted" <=> row[r] = "aborted"
  BY DEF Status, TypeOK, RowStates
<1>2. Abstract!Committed = Committed
  BY <1>1 DEF Abstract!Committed, Committed
<1>3. Abstract!Range(topic) = Range(topic)
  BY DEF Abstract!Range, Range
<1>. QED BY <1>1, <1>2, <1>3

\* A row that changes state changes its status only, and accordingly.
LEMMA StatusChange ==
  ASSUME TypeOK, NEW r \in Rows, NEW s \in RowStates, row' = [row EXCEPT ![r] = s]
  PROVE  Status' = [Status EXCEPT ![r] = CASE s \in {"begun", "inserted"} -> "open"
                                           [] s = "pending"               -> "committed"
                                           [] s = "published"             -> "acknowledged"
                                           [] OTHER                       -> s]
BY DEF Status, TypeOK

\* The initial states of the relay are initial states of the abstract outbox.
LEMMA RefinesInit == Init => Abstract!Init
BY DEF Init, Abstract!Init, Status

\* Each effect is a step of the abstract outbox, or one it cannot see.
LEMMA RefinesStep ==
  ASSUME TypeOK, RelayInv, [Next]_vars
  PROVE  [Abstract!Next]_(Abstract!vars)
<1>1. CASE Appends
  <2>1. PICK r \in Committed : before[r] \subseteq Range(topic) /\ topic' = Append(topic, r)
    BY <1>1 DEF Appends
  <2>2. UNCHANGED <<Status, before>>
    BY <1>1 DEF Appends, tableVars, Status
  <2>3. r \in Rows
    BY DEF Committed
  <2>4. Abstract!Relay(r)
    BY <2>1, <2>2, StatusOf DEF Abstract!Relay
  <2>. QED BY <2>3, <2>4 DEF Abstract!Next
<1>2. CASE Marks
  <2>1. PICK r \in Committed : r \in Range(topic) /\ row' = [row EXCEPT ![r] = "published"]
    BY <1>2 DEF Marks
  <2>2. Status' = [Status EXCEPT ![r] = "acknowledged"]
    BY <2>1, StatusChange DEF Committed, RowStates
  <2>3. Abstract!Acknowledge(r)
    BY <1>2, <2>1, <2>2, StatusOf DEF Marks, Abstract!Acknowledge
  <2>4. r \in Rows
    BY DEF Committed
  <2>. QED BY <2>3, <2>4 DEF Abstract!Next
<1>3. CASE Inserts
  <2>1. PICK i \in Instances :
          \E r \in openTx[i] : row[r] = "begun" /\ row' = [row EXCEPT ![r] = "inserted"]
    BY <1>3 DEF Inserts
  <2>2. PICK r \in openTx[i] : row[r] = "begun" /\ row' = [row EXCEPT ![r] = "inserted"]
    BY <2>1
  <2>3. r \in Rows
    BY DEF TypeOK
  <2>4. Status' = [Status EXCEPT ![r] = "open"]
    BY <2>2, <2>3, StatusChange DEF RowStates
  <2>5. Status[r] = "open" /\ Status \in [Rows -> {Status[q] : q \in Rows}]
    BY <2>2, <2>3, StatusOf DEF Status
  <2>6. UNCHANGED Status
    BY <2>3, <2>4, <2>5
  <2>. QED BY <1>3, <2>6 DEF Inserts, Abstract!vars
<1>4. CASE Ends
  <2>1. PICK i \in Instances, C \in SUBSET Rows, A \in SUBSET Rows : C \intersect A = {} /\ End(i, C, A)
    BY <1>4 DEF Ends
  <2>2. \A r \in C \union A : row[r] \in {"begun", "inserted"}
    BY <2>1 DEF End, RelayInv, OpenInv
  <2>3. \A r \in C \union A : Status[r] = "open"
    BY <2>2, StatusOf
  <2>4. Status' = [r \in Rows |-> IF r \in C THEN "committed"
                                  ELSE IF r \in A THEN "aborted"
                                  ELSE Status[r]]
    BY <2>1 DEF End, Status
  <2>5. UNCHANGED <<before, topic>>
    BY <1>4, <2>1 DEF Ends, End
  <2>6. Abstract!Resolve(C, A)
    BY <2>3, <2>4, <2>5 DEF Abstract!Resolve
  <2>. QED BY <2>1, <2>6 DEF Abstract!Next
<1>5. CASE Begins
  <2>1. PICK i \in Instances, r \in Rows :
          /\ row[r] = "none"
          /\ row' = [row EXCEPT ![r] = "begun"]
          /\ before' = [before EXCEPT ![r] = Committed]
    BY <1>5 DEF Begins
  <2>2. Status' = [Status EXCEPT ![r] = "open"]
    BY <2>1, StatusChange DEF RowStates
  <2>3. Abstract!Begin(r)
    BY <1>5, <2>1, <2>2, StatusOf DEF Begins, Abstract!Begin
  <2>. QED BY <2>3 DEF Abstract!Next
<1>6. CASE Idles
  BY <1>6 DEF Idles, tableVars, Status, Abstract!vars
<1>. QED BY <1>1, <1>2, <1>3, <1>4, <1>5, <1>6, StepEffect

\* The relay implements the abstract outbox for any number of processes, rows and
\* faults: nothing the code does, crashes and late requests included, is a
\* behaviour the library does not promise.
THEOREM Refinement == Spec => KeepsPromise
<1>1. Init => Abstract!Init
  BY RefinesInit
<1>2. TypeOK /\ RelayInv /\ [Next]_vars => [Abstract!Next]_(Abstract!vars)
  BY RefinesStep
<1>. QED BY <1>1, <1>2, TypeCorrect, RelayCorrect, PTL DEF Spec, KeepsPromise, Abstract!Spec
=============================================================================
