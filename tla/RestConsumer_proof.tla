------------------------ MODULE RestConsumer_proof ------------------------
(***************************************************************************)
(* Proofs about RestConsumer, for any number of processes, records and     *)
(* faults: its types, that no record goes by in silence, and that one      *)
(* process polls at a time unless an instance has expired under one.       *)
(***************************************************************************)
EXTENDS RestConsumer, SequenceTheorems, FiniteSetTheorems, TLAPS

\* What NextRecord leaves in the batch: t is the tail of s.
LEMMA RestElements ==
  ASSUME NEW S, NEW s \in Seq(S), NEW t \in Seq(S), Len(s) \in Nat \ {0},
         Len(t) = Len(s) - 1, \A i \in 1 .. Len(t) : t[i] = s[i + 1]
  PROVE  /\ t = <<>> <=> Len(s) = 1
         /\ Elements(s) = {s[1]} \union Elements(t)
<1>1. <<>> \in Seq(S) /\ Len(<<>>) = 0
  BY EmptySeq
<1>2. t = <<>> <=> Len(t) = 0
  <2>1. ASSUME Len(t) = 0
        PROVE  t = <<>>
    <3>1. \A i \in 1 .. Len(t) : t[i] = <<>>[i]
      BY <2>1
    <3>. QED BY <1>1, <2>1, <3>1, SeqEqual
  <2>. QED BY <1>1, <2>1
<1>3. DOMAIN s = 1 .. Len(s) /\ DOMAIN t = 1 .. Len(s) - 1
  BY LenProperties
<1>4. ASSUME NEW i \in 1 .. Len(s)
      PROVE  s[i] \in {s[1]} \union Elements(t)
  <2>1. CASE i # 1
    <3>1. i - 1 \in DOMAIN t /\ t[i - 1] = s[i]
      BY <1>3, <2>1
    <3>. QED BY <3>1 DEF Elements
  <2>. QED BY <2>1
<1>5. ASSUME NEW i \in 1 .. Len(s) - 1
      PROVE  t[i] \in Elements(s)
  <2>1. i + 1 \in DOMAIN s /\ t[i] = s[i + 1]
    BY <1>3
  <2>. QED BY <2>1 DEF Elements
<1>6. s[1] \in Elements(s)
  BY <1>3 DEF Elements
<1>7. Len(t) = 0 <=> Len(s) = 1
  BY <1>3
<1>8. Elements(s) \subseteq {s[1]} \union Elements(t)
  BY <1>3, <1>4 DEF Elements
<1>9. Elements(t) \subseteq Elements(s)
  BY <1>3, <1>5 DEF Elements
<1>. QED BY <1>2, <1>6, <1>7, <1>8, <1>9

\* The records at hand are the first and those that are left.
LEMMA TailElements ==
  ASSUME NEW S, NEW s \in Seq(S), s # <<>>
  PROVE  /\ Tail(s) \in Seq(S)
         /\ Head(s) \in S
         /\ Tail(s) = <<>> <=> Len(s) = 1
         /\ Elements(s) = {Head(s)} \union Elements(Tail(s))
<1>1. Len(s) \in Nat \ {0} /\ Head(s) = s[1]
  BY EmptySeq
<1>2. PICK t \in Seq(S) : t = Tail(s)
  BY HeadTailProperties
<1>3. Head(s) \in S /\ Len(t) = Len(s) - 1 /\ \A i \in 1 .. Len(t) : t[i] = s[i + 1]
  BY <1>2, HeadTailProperties
<1>4. (t = <<>> <=> Len(s) = 1) /\ Elements(s) = {s[1]} \union Elements(t)
  BY <1>1, <1>3, RestElements
<1>. QED BY <1>1, <1>2, <1>3, <1>4

\* An answer holds the next n offsets, each once.
LEMMA UpcomingElements ==
  ASSUME NEW n \in Nat \ {0}, next \in Nat
  PROVE  /\ Upcoming(n) \in Seq(next .. next + n - 1)
         /\ Upcoming(n) # <<>>
         /\ Elements(Upcoming(n)) = next .. next + n - 1
<1>1. /\ DOMAIN Upcoming(n) = 1 .. n
      /\ \A i \in 1 .. n : Upcoming(n)[i] = next + i - 1 /\ next + i - 1 \in next .. next + n - 1
  BY DEF Upcoming
<1>2. Upcoming(n) \in [1 .. n -> next .. next + n - 1]
  BY <1>1 DEF Upcoming
<1>3. Upcoming(n) \in Seq(next .. next + n - 1)
  BY <1>2, SeqDef
<1>4. Upcoming(n) # <<>>
  <2>1. 1 \in DOMAIN Upcoming(n)
    BY <1>1
  <2>. QED BY <2>1
<1>5. ASSUME NEW k \in next .. next + n - 1
      PROVE  k \in Elements(Upcoming(n))
  <2>1. k - next + 1 \in 1 .. n /\ Upcoming(n)[k - next + 1] = k
    BY <1>1
  <2>. QED BY <1>1, <2>1 DEF Elements
<1>. QED BY <1>1, <1>3, <1>4, <1>5 DEF Elements
-----------------------------------------------------------------------------
(***************************************************************************)
(* Types.                                                                  *)
(***************************************************************************)
\* The initial states are well typed.
LEMMA InitType == Init => TypeOK
<1>. SUFFICES ASSUME Init PROVE TypeOK
  OBVIOUS
<1>1. log \in Seq(Events \union {Foreign}) /\ Len(log) = 0
  BY EmptySeq DEF Init
<1>2. batch \in [Consumers -> Seq(Offsets)]
  BY EmptySeq DEF Init
<1>3. pc \in [Consumers -> {"down", "subscribe", "poll", "records"}]
      /\ \A c \in Consumers : pc[c] = "down" /\ batch[c] = <<>>
  BY DEF Init
<1>4. next \in 1 .. Len(log) + 1 /\ committed \in 1 .. next
  BY <1>1 DEF Init
<1>5. cancelled \in [Consumers -> BOOLEAN] /\ autoCommit \in BOOLEAN /\ orphaned \in BOOLEAN
  BY DEF Init
<1>6. faults \in 0 .. MaxFaults
  BY RestAssumption DEF Init
<1>. QED BY <1>1, <1>2, <1>3, <1>4, <1>5, <1>6 DEF Init, TypeOK

\* The next record is taken from the batch, and nothing else.
LEMMA NextRecordType ==
  ASSUME TypeOK, NEW c \in Consumers, pc[c] = "records", NextRecord(c)
  PROVE  /\ Head(batch[c]) \in Offsets
         /\ batch' = [batch EXCEPT ![c] = Tail(@)]
         /\ batch' \in [Consumers -> Seq(Offsets)]
         /\ pc' \in [Consumers -> {"down", "subscribe", "poll", "records"}]
         /\ \A d \in Consumers : batch'[d] # <<>> <=> pc'[d] = "records"
         /\ \A d \in Consumers : pc'[d] # "down" <=> pc[d] # "down"
         /\ Elements(batch[c]) = {Head(batch[c])} \union Elements(batch'[c])
<1>1. batch[c] \in Seq(Offsets) /\ batch[c] # <<>>
  BY DEF TypeOK
<1>2. /\ Tail(batch[c]) \in Seq(Offsets) /\ Head(batch[c]) \in Offsets
      /\ Tail(batch[c]) = <<>> <=> Len(batch[c]) = 1
      /\ Elements(batch[c]) = {Head(batch[c])} \union Elements(Tail(batch[c]))
  BY <1>1, TailElements
<1>3. batch' = [batch EXCEPT ![c] = Tail(batch[c])]
  BY DEF NextRecord
<1>4. \/ Len(batch[c]) = 1 /\ pc' = [pc EXCEPT ![c] = "poll"]
      \/ Len(batch[c]) # 1 /\ pc' = pc
  BY DEF NextRecord, Goto
<1>5. /\ batch' \in [Consumers -> Seq(Offsets)]
      /\ batch'[c] = Tail(batch[c])
      /\ \A d \in Consumers \ {c} : batch'[d] = batch[d]
  BY <1>2, <1>3 DEF TypeOK
<1>6. /\ pc' \in [Consumers -> {"down", "subscribe", "poll", "records"}]
      /\ pc'[c] = IF Len(batch[c]) = 1 THEN "poll" ELSE "records"
      /\ \A d \in Consumers \ {c} : pc'[d] = pc[d]
  BY <1>4 DEF TypeOK
<1>7. \A d \in Consumers : batch'[d] # <<>> <=> pc'[d] = "records"
  BY <1>2, <1>5, <1>6 DEF TypeOK
<1>. QED BY <1>2, <1>3, <1>5, <1>6, <1>7

\* A counted failure keeps within its bound.
LEMMA FaultType ==
  ASSUME TypeOK, Fault
  PROVE  faults' \in 0 .. MaxFaults /\ faults' # faults
BY RestAssumption DEF TypeOK, Fault

\* A step that leaves the topic and the batches alone, or throws a batch away, keeps
\* the types, if what else it changes is well typed.
LEMMA ProcessType ==
  ASSUME TypeOK, NEW c \in Consumers,
         UNCHANGED <<log, autoCommit, stored, failed>>,
         instance' \in {"none", "created", "subscribed"},
         next' \in 1 .. Len(log) + 1, committed' \in 1 .. next',
         \/ UNCHANGED <<pc, batch>>
         \/ /\ batch' = [batch EXCEPT ![c] = <<>>]
            /\ \E label \in {"down", "subscribe", "poll"} : pc' = [pc EXCEPT ![c] = label],
         cancelled' \in [Consumers -> BOOLEAN],
         lost' \subseteq Offsets, orphaned' \in BOOLEAN, faults' \in 0 .. MaxFaults
  PROVE  TypeOK'
<1>1. Offsets' = Offsets /\ <<>> \in Seq(Offsets)
  BY EmptySeq DEF Offsets
<1>2. batch' \in [Consumers -> Seq(Offsets)]
  BY <1>1 DEF TypeOK
<1>3. pc' \in [Consumers -> {"down", "subscribe", "poll", "records"}]
  BY DEF TypeOK
<1>4. \A d \in Consumers : batch'[d] # <<>> <=> pc'[d] = "records"
  BY DEF TypeOK
<1>. QED BY <1>1, <1>2, <1>3, <1>4 DEF TypeOK

\* Processes without records have no batch to throw away.
LEMMA NoBatch ==
  ASSUME TypeOK, NEW c \in Consumers, pc[c] # "records"
  PROVE  batch = [batch EXCEPT ![c] = <<>>]
<1>1. batch[c] = <<>>
  BY DEF TypeOK
<1>. QED BY <1>1 DEF TypeOK

\* The steps of NewRestConsumer preserve the types.
LEMMA ConstructorType ==
  ASSUME TypeOK, NEW c \in Consumers, Constructor(c)
  PROVE  TypeOK'
<1>1. /\ instance \in {"none", "created", "subscribed"}
      /\ next \in 1 .. Len(log) + 1 /\ committed \in 1 .. next
      /\ cancelled \in [Consumers -> BOOLEAN] /\ orphaned \in BOOLEAN /\ faults \in 0 .. MaxFaults
      /\ lost \subseteq Offsets /\ Len(log) \in Nat
  BY DEF TypeOK
<1>2. CASE CreateInstance(c)
  <2>1. committed \in 1 .. Len(log) + 1 /\ committed \in 1 .. committed
    BY <1>1
  <2>. QED BY <1>1, <1>2, <2>1, ProcessType, NoBatch DEF CreateInstance, NewInstance, Goto, historyVars
<1>3. CASE CreateInstanceFails(c)
  <2>1. committed \in 1 .. Len(log) + 1 /\ committed \in 1 .. committed
    BY <1>1
  <2>. QED
    BY <1>1, <1>3, <2>1, ProcessType, FaultType DEF CreateInstanceFails, NewInstance, historyVars
<1>4. CASE Subscribe(c)
  BY <1>1, <1>4, ProcessType, NoBatch DEF Subscribe, Goto, historyVars
<1>5. CASE SubscribeFails(c)
  <2>1. instance' \in {"none", "created", "subscribed"} /\ faults' \in 0 .. MaxFaults
    BY <1>1, <1>5, FaultType DEF SubscribeFails
  <2>. QED BY <1>1, <1>5, <2>1, ProcessType, NoBatch DEF SubscribeFails, Goto, historyVars
<1>. QED BY <1>2, <1>3, <1>4, <1>5 DEF Constructor

\* The offsets of an answer are in the topic.
LEMMA AnswerType ==
  ASSUME TypeOK, NEW n \in 1 .. MaxLog, Answer(n)
  PROVE  /\ Upcoming(n) \in Seq(Offsets) /\ Upcoming(n) # <<>>
         /\ Elements(Upcoming(n)) \subseteq Offsets
         /\ next' \in 1 .. Len(log) + 1 /\ committed \in 1 .. next'
         /\ \A k \in 1 .. next' - 1 : k \in 1 .. next - 1 \/ k \in Elements(Upcoming(n))
<1>1. /\ next \in Nat \ {0} /\ Len(log) \in Nat /\ committed \in 1 .. next
      /\ n \in Nat \ {0} /\ next' = next + n /\ next + n <= Len(log) + 1
  BY RestAssumption DEF TypeOK, Answer
<1>2. /\ Upcoming(n) \in Seq(next .. next + n - 1)
      /\ Upcoming(n) # <<>>
      /\ Elements(Upcoming(n)) = next .. next + n - 1
  BY <1>1, UpcomingElements
<1>3. next .. next + n - 1 \subseteq Offsets
  BY <1>1 DEF Offsets
<1>4. Upcoming(n) \in Seq(Offsets)
  BY <1>2, <1>3, SeqMonotonic
<1>. QED BY <1>1, <1>2, <1>3, <1>4

\* The steps of Start preserve the types.
LEMMA StartType ==
  ASSUME TypeOK, NEW c \in Consumers, Start(c)
  PROVE  TypeOK'
<1>1. /\ instance \in {"none", "created", "subscribed"}
      /\ next \in 1 .. Len(log) + 1 /\ committed \in 1 .. next
      /\ cancelled \in [Consumers -> BOOLEAN] /\ orphaned \in BOOLEAN /\ faults \in 0 .. MaxFaults
      /\ lost \subseteq Offsets
  BY DEF TypeOK
<1>2. CASE Poll(c)
  <2>1. PICK n \in 1 .. MaxLog : Answer(n) /\ batch' = [batch EXCEPT ![c] = Upcoming(n)]
    BY <1>2 DEF Poll
  <2>2. /\ UNCHANGED <<log, autoCommit, instance, committed, cancelled, stored, historyVars, faults>>
        /\ pc' = [pc EXCEPT ![c] = "records"]
    BY <1>2 DEF Poll, Goto
  <2>3. Offsets' = Offsets
    BY <2>2 DEF Offsets
  <2>4. /\ batch' \in [Consumers -> Seq(Offsets)]
        /\ pc' \in [Consumers -> {"down", "subscribe", "poll", "records"}]
        /\ \A d \in Consumers : batch'[d] # <<>> <=> pc'[d] = "records"
    BY <2>1, <2>2, AnswerType DEF TypeOK
  <2>5. next' \in 1 .. Len(log) + 1 /\ committed \in 1 .. next'
    BY <2>1, AnswerType
  <2>. QED BY <2>2, <2>3, <2>4, <2>5 DEF TypeOK, historyVars
<1>3. CASE PollFails(c)
  <2>1. PICK n \in 1 .. MaxLog : Answer(n) /\ lost' = lost \union Elements(Upcoming(n))
    BY <1>3 DEF PollFails
  <2>2. lost' \subseteq Offsets /\ next' \in 1 .. Len(log) + 1 /\ committed \in 1 .. next'
    BY <1>1, <2>1, AnswerType
  <2>. QED BY <1>1, <1>3, <2>2, FaultType, ProcessType DEF PollFails, processVars
<1>4. CASE Record(c)
  <2>1. NextRecord(c)
    BY <1>4 DEF Record, Skip, Save, SaveFails
  <2>2. UNCHANGED <<log, proxyVars, cancelled, lost, orphaned>> /\ pc[c] = "records"
    BY <1>4 DEF Record
  <2>3. Offsets' = Offsets
    BY <2>2 DEF Offsets
  <2>4. log[Head(batch[c])] \in Events => stored \union {log[Head(batch[c])]} \subseteq Events
    BY DEF TypeOK
  <2>5. stored' \subseteq Events /\ failed' \subseteq Offsets /\ faults' \in 0 .. MaxFaults
    <3>1. Head(batch[c]) \in Offsets
      BY <2>1, <2>2, NextRecordType
    <3>2. stored \subseteq Events /\ failed \subseteq Offsets
      BY DEF TypeOK
    <3>3. CASE Skip(c)
      BY <1>1, <3>2, <3>3 DEF Skip
    <3>4. CASE Save(c)
      BY <1>1, <2>4, <3>2, <3>4 DEF Save
    <3>5. CASE SaveFails(c)
      BY <1>1, <2>4, <3>1, <3>2, <3>5, FaultType DEF SaveFails
    <3>. QED BY <1>4, <3>3, <3>4, <3>5 DEF Record
  <2>6. /\ batch' \in [Consumers -> Seq(Offsets)]
        /\ pc' \in [Consumers -> {"down", "subscribe", "poll", "records"}]
        /\ \A d \in Consumers : batch'[d] # <<>> <=> pc'[d] = "records"
    BY <2>1, <2>2, NextRecordType
  <2>. QED BY <2>2, <2>3, <2>5, <2>6 DEF TypeOK, proxyVars
<1>5. CASE Return(c)
  BY <1>1, <1>5, ProcessType, NoBatch DEF Return, Goto, proxyVars, historyVars
<1>. QED BY <1>2, <1>3, <1>4, <1>5 DEF Start

\* So do cancellation, crashes, publishers and the proxy by itself.
LEMMA EnvironmentType ==
  ASSUME TypeOK,
         \/ \E c \in Consumers : Cancel(c) \/ Crash(c)
         \/ Produce \/ Commit \/ Expire
  PROVE  TypeOK'
<1>1. /\ instance \in {"none", "created", "subscribed"}
      /\ next \in 1 .. Len(log) + 1 /\ committed \in 1 .. next /\ Len(log) \in Nat
      /\ cancelled \in [Consumers -> BOOLEAN] /\ orphaned \in BOOLEAN /\ faults \in 0 .. MaxFaults
      /\ lost \subseteq Offsets
  BY DEF TypeOK
<1>2. ASSUME NEW c \in Consumers, Cancel(c)
      PROVE  TypeOK'
  BY <1>1, <1>2, FaultType, ProcessType DEF Cancel, proxyVars, historyVars
<1>3. ASSUME NEW c \in Consumers, Crash(c)
      PROVE  TypeOK'
  <2>1. batch[c] \in Seq(Offsets)
    BY DEF TypeOK
  <2>2. Elements(batch[c]) \subseteq Offsets
    BY <2>1, ElementOfSeq, LenProperties DEF Elements
  <2>3. lost' \subseteq Offsets
    BY <1>1, <1>3, <2>2 DEF Crash
  <2>. QED BY <1>1, <1>3, <2>3, FaultType, ProcessType DEF Crash, Goto, proxyVars
<1>4. CASE Produce
  <2>1. PICK m \in Events \union {Foreign} : log' = Append(log, m)
    BY <1>4 DEF Produce
  <2>2. log' \in Seq(Events \union {Foreign}) /\ Len(log') = Len(log) + 1
    BY <2>1, AppendProperties DEF TypeOK
  <2>3. Offsets \subseteq Offsets'
    BY <1>1, <2>2 DEF Offsets
  <2>4. UNCHANGED <<proxyVars, processVars, stored, historyVars, faults>>
    BY <1>4 DEF Produce
  <2>5. \A c \in Consumers : batch'[c] \in Seq(Offsets')
    BY <2>3, <2>4, SeqMonotonic DEF TypeOK, processVars
  <2>6. batch' \in [Consumers -> Seq(Offsets')]
    BY <2>4, <2>5 DEF TypeOK, processVars
  <2>7. next' \in 1 .. Len(log') + 1 /\ committed' \in 1 .. next'
    BY <1>1, <2>2, <2>4 DEF proxyVars
  <2>8. failed' \subseteq Offsets' /\ lost' \subseteq Offsets'
    BY <2>3, <2>4 DEF TypeOK, historyVars
  <2>. QED BY <2>2, <2>4, <2>6, <2>7, <2>8 DEF TypeOK, proxyVars, processVars, historyVars
<1>5. CASE Commit \/ Expire
  <2>1. UNCHANGED <<log, autoCommit, next, pc, batch, cancelled, stored, failed, lost>>
    BY <1>5 DEF Commit, Expire, processVars, historyVars
  <2>2. /\ instance' \in {"none", "created", "subscribed"}
        /\ committed' \in 1 .. next'
        /\ orphaned' \in BOOLEAN /\ faults' \in 0 .. MaxFaults
    <3>1. CASE Commit
      BY <1>1, <3>1 DEF Commit, historyVars
    <3>2. CASE Expire
      <4>1. committed' \in 1 .. next' /\ instance' = "none"
        BY <1>1, <3>2 DEF Expire
      <4>2. orphaned' \in BOOLEAN /\ faults' \in 0 .. MaxFaults
        BY <1>1, <3>2, FaultType DEF Expire
      <4>. QED BY <4>1, <4>2
    <3>. QED BY <1>5, <3>1, <3>2
  <2>3. Offsets' = Offsets
    BY <2>1 DEF Offsets
  <2>. QED BY <2>1, <2>2, <2>3 DEF TypeOK
<1>. QED BY <1>2, <1>3, <1>4, <1>5

\* Every step preserves the types.
LEMMA StepType == TypeOK /\ [Next]_vars => TypeOK'
<1>1. ASSUME TypeOK, UNCHANGED vars
      PROVE  TypeOK'
  BY <1>1 DEF TypeOK, Offsets, vars, proxyVars, processVars, historyVars
<1>. QED BY <1>1, ConstructorType, StartType, EnvironmentType DEF Next
-----------------------------------------------------------------------------
(***************************************************************************)
(* No record goes by in silence.                                           *)
(***************************************************************************)
\* In the hands of a process.
Held(k) == \E c \in Consumers : k \in Elements(batch[c])

\* What is accounted for stays so.
LEMMA AccountedStays ==
  ASSUME TypeOK, [Next]_vars, NEW k \in Offsets, Accounted(k)
  PROVE  Accounted(k)'
<1>1. stored \subseteq stored' /\ failed \subseteq failed' /\ lost \subseteq lost'
  BY DEF Next, Constructor, CreateInstance, CreateInstanceFails, NewInstance, Subscribe,
         SubscribeFails, Start, Poll, PollFails, Record, Skip, Save, SaveFails, Return, Cancel,
         Crash, Produce, Commit, Expire, vars, historyVars
<1>2. log'[k] = log[k]
  <2>1. CASE Produce
    <3>1. PICK m \in Events \union {Foreign} : log' = Append(log, m)
      BY <2>1 DEF Produce
    <3>. QED BY <3>1, AppendProperties DEF TypeOK, Offsets
  <2>2. CASE ~Produce
    BY <2>2
       DEF Next, Constructor, CreateInstance, CreateInstanceFails, NewInstance, Subscribe,
           SubscribeFails, Start, Poll, PollFails, Record, Return, Cancel, Crash, Commit, Expire, vars
  <2>. QED BY <2>1, <2>2
<1>. QED BY <1>1, <1>2 DEF Accounted

\* What a process lets go of is accounted for.
LEMMA HeldIsKept ==
  ASSUME TypeOK, [Next]_vars, NEW k \in Offsets, Held(k)
  PROVE  Held(k)' \/ Accounted(k)'
<1>1. PICK c \in Consumers : k \in Elements(batch[c])
  BY DEF Held
<1>2. pc[c] = "records"
  <2>1. batch[c] # <<>>
    BY <1>1 DEF Elements
  <2>. QED BY <2>1 DEF TypeOK
<1>3. CASE batch'[c] = batch[c]
  BY <1>1, <1>3 DEF Held
<1>4. CASE Crash(c)
  BY <1>1, <1>4 DEF Crash, Accounted
<1>5. CASE Record(c)
  <2>1. NextRecord(c)
    BY <1>5 DEF Record, Skip, Save, SaveFails
  <2>2. /\ Head(batch[c]) \in Offsets
        /\ Elements(batch[c]) = {Head(batch[c])} \union Elements(batch'[c])
    BY <1>2, <2>1, NextRecordType
  <2>3. CASE k \in Elements(batch'[c])
    BY <2>3 DEF Held
  <2>4. CASE k = Head(batch[c])
    <3>1. log' = log /\ lost' = lost
      BY <1>5 DEF Record
    <3>2. \/ log[k] = Foreign
          \/ stored' = stored \union {log[k]}
          \/ failed' = failed \union {k}
      BY <1>5, <2>4 DEF Record, Skip, Save, SaveFails
    <3>. QED BY <3>1, <3>2 DEF Accounted
  <2>. QED BY <1>1, <2>2, <2>3, <2>4
<1>6. batch'[c] = batch[c] \/ Crash(c) \/ Record(c)
  <2>1. CASE \E d \in Consumers : Constructor(d) \/ Cancel(d)
    BY <2>1 DEF Constructor, CreateInstance, CreateInstanceFails, NewInstance, Subscribe,
                SubscribeFails, Cancel
  <2>2. ASSUME NEW d \in Consumers, Poll(d)
        PROVE  batch'[c] = batch[c]
    <3>1. d # c
      BY <1>2, <2>2 DEF Poll
    <3>. QED BY <2>2, <3>1 DEF Poll, TypeOK
  <2>3. ASSUME NEW d \in Consumers, d # c, Record(d)
        PROVE  batch'[c] = batch[c]
    BY <2>3 DEF Record, Skip, Save, SaveFails, NextRecord, TypeOK
  <2>4. ASSUME NEW d \in Consumers, d # c, Crash(d)
        PROVE  batch'[c] = batch[c]
    BY <2>4 DEF Crash, TypeOK
  <2>5. CASE \E d \in Consumers : PollFails(d) \/ Return(d)
    BY <2>5 DEF PollFails, Return, processVars
  <2>6. CASE Produce \/ Commit \/ Expire \/ UNCHANGED vars
    BY <2>6 DEF Produce, Commit, Expire, vars, processVars
  <2>. QED BY <2>1, <2>2, <2>3, <2>4, <2>5, <2>6 DEF Next, Start
<1>. QED BY <1>3, <1>4, <1>5, <1>6

\* A step moves the instance on by an answer, or back to what has been committed.
LEMMA NextOffset ==
  ASSUME TypeOK, [Next]_vars, NEW k \in 1 .. next' - 1
  PROVE  k \in 1 .. next - 1 \/ Held(k)' \/ Accounted(k)'
<1>1. next \in Nat \ {0} /\ committed \in 1 .. next
  BY DEF TypeOK
<1>2. CASE next' = next
  BY <1>2
<1>3. CASE next' = committed
  <2>1. committed - 1 <= next - 1
    BY <1>1
  <2>. QED BY <1>1, <1>3, <2>1
<1>4. ASSUME NEW c \in Consumers, Poll(c)
      PROVE  k \in 1 .. next - 1 \/ Held(k)'
  <2>1. PICK n \in 1 .. MaxLog : Answer(n) /\ batch' = [batch EXCEPT ![c] = Upcoming(n)]
    BY <1>4 DEF Poll
  <2>2. k \in 1 .. next - 1 \/ k \in Elements(Upcoming(n))
    BY <2>1, AnswerType
  <2>3. batch'[c] = Upcoming(n)
    BY <2>1 DEF TypeOK
  <2>. QED BY <2>2, <2>3 DEF Held
<1>5. ASSUME NEW c \in Consumers, PollFails(c)
      PROVE  k \in 1 .. next - 1 \/ Accounted(k)'
  <2>1. PICK n \in 1 .. MaxLog : Answer(n) /\ lost' = lost \union Elements(Upcoming(n))
    BY <1>5 DEF PollFails
  <2>2. k \in 1 .. next - 1 \/ k \in Elements(Upcoming(n))
    BY <2>1, AnswerType
  <2>. QED BY <2>1, <2>2 DEF Accounted
<1>6. \/ next' = next \/ next' = committed
      \/ \E c \in Consumers : Poll(c) \/ PollFails(c)
  BY DEF Next, Constructor, CreateInstance, CreateInstanceFails, NewInstance, Subscribe,
         SubscribeFails, Start, Record, Return, Cancel, Crash, Produce, Commit, Expire, vars, proxyVars
<1>. QED BY <1>2, <1>3, <1>4, <1>5, <1>6

\* Every step keeps what was answered accounted for, or in a batch.
LEMMA StepAnswered ==
  ASSUME TypeOK, AnsweredIsAccounted, [Next]_vars
  PROVE  AnsweredIsAccounted'
<1>. SUFFICES ASSUME NEW k \in 1 .. next' - 1
              PROVE  Accounted(k)' \/ Held(k)'
  BY DEF AnsweredIsAccounted, Held
<1>1. CASE k \in 1 .. next - 1
  <2>1. k \in Offsets
    BY <1>1 DEF TypeOK, Offsets
  <2>2. Accounted(k) \/ Held(k)
    BY <1>1 DEF AnsweredIsAccounted, Held
  <2>. QED BY <2>1, <2>2, AccountedStays, HeldIsKept
<1>2. CASE Held(k)' \/ Accounted(k)'
  BY <1>2
<1>. QED BY <1>1, <1>2, NextOffset
-----------------------------------------------------------------------------
(***************************************************************************)
(* One process.                                                            *)
(***************************************************************************)
\* While no instance has expired under a process: who is not down has the instance.
OneOwner ==
  ~orphaned =>
    /\ \A c, d \in Consumers : pc[c] # "down" /\ pc[d] # "down" => c = d
    /\ \A c \in Consumers : pc[c] # "down" => instance # "none"

\* Every step keeps the instance with its one owner, until it expires under it.
LEMMA StepOne ==
  ASSUME TypeOK, OneOwner, [Next]_vars
  PROVE  OneOwner'
<1>1. ASSUME NEW c \in Consumers, CreateInstance(c)
      PROVE  OneOwner'
  <2>1. instance = "none" /\ instance' = "created" /\ orphaned' = orphaned
        /\ pc' = [pc EXCEPT ![c] = "subscribe"]
    BY <1>1 DEF CreateInstance, NewInstance, Goto, historyVars
  <2>2. ~orphaned => \A d \in Consumers : pc[d] = "down"
    BY <2>1 DEF OneOwner
  <2>. QED BY <2>1, <2>2 DEF OneOwner, TypeOK
<1>2. ASSUME instance # "none" => instance' # "none", orphaned' = orphaned,
             \A d \in Consumers : pc'[d] # "down" => pc[d] # "down"
      PROVE  OneOwner'
  BY <1>2 DEF OneOwner
<1>3. ASSUME NEW c \in Consumers, Constructor(c), ~CreateInstance(c)
      PROVE  OneOwner'
  <2>1. CASE CreateInstanceFails(c)
    BY <1>2, <2>1 DEF CreateInstanceFails, NewInstance, historyVars
  <2>2. CASE Subscribe(c)
    BY <1>2, <2>2 DEF Subscribe, Goto, historyVars, TypeOK
  <2>3. CASE SubscribeFails(c)
    <3>1. instance # "none" => instance' # "none"
      BY <2>3 DEF SubscribeFails
    <3>. QED BY <1>2, <2>3, <3>1 DEF SubscribeFails, Goto, historyVars, TypeOK
  <2>. QED BY <1>3, <2>1, <2>2, <2>3 DEF Constructor
<1>4. ASSUME NEW c \in Consumers, Start(c)
      PROVE  OneOwner'
  <2>1. CASE Poll(c)
    BY <1>2, <2>1 DEF Poll, Goto, historyVars, TypeOK
  <2>2. CASE PollFails(c)
    BY <1>2, <2>2 DEF PollFails, processVars
  <2>3. CASE Record(c)
    <3>1. NextRecord(c) /\ pc[c] = "records" /\ UNCHANGED <<instance, orphaned>>
      BY <2>3 DEF Record, Skip, Save, SaveFails, proxyVars
    <3>. QED BY <1>2, <3>1, NextRecordType
  <2>4. CASE Return(c)
    BY <1>2, <2>4 DEF Return, Goto, proxyVars, historyVars, TypeOK
  <2>. QED BY <1>4, <2>1, <2>2, <2>3, <2>4 DEF Start
<1>5. ASSUME NEW c \in Consumers, Cancel(c) \/ Crash(c)
      PROVE  OneOwner'
  BY <1>2, <1>5 DEF Cancel, Crash, Goto, proxyVars, historyVars, TypeOK
<1>6. CASE Expire
  <2>1. CASE \A c \in Consumers : pc[c] = "down"
    BY <1>6, <2>1 DEF Expire, processVars, OneOwner
  <2>2. CASE ~\A c \in Consumers : pc[c] = "down"
    BY <1>6, <2>2 DEF Expire, OneOwner
  <2>. QED BY <2>1, <2>2
<1>7. CASE Produce \/ Commit \/ UNCHANGED vars
  BY <1>2, <1>7 DEF Produce, Commit, vars, proxyVars, processVars, historyVars
<1>. QED BY <1>1, <1>3, <1>4, <1>5, <1>6, <1>7 DEF Next
-----------------------------------------------------------------------------
\* Every reachable state satisfies the invariant.
THEOREM RestCorrect == Spec => []RestInv
<1>1. RestInv <=> TypeOK /\ AnsweredIsAccounted /\ OneOwner
  BY DEF RestInv, OneOwner
<1>2. Init => RestInv
  <2>1. Init => AnsweredIsAccounted /\ OneOwner
    BY DEF Init, AnsweredIsAccounted, OneOwner
  <2>. QED BY <1>1, <2>1, InitType
<1>3. RestInv /\ [Next]_vars => RestInv'
  <2>1. TypeOK /\ AnsweredIsAccounted /\ OneOwner /\ [Next]_vars
          => (TypeOK /\ AnsweredIsAccounted /\ OneOwner)'
    BY StepType, StepAnswered, StepOne
  <2>2. RestInv' <=> (TypeOK /\ AnsweredIsAccounted /\ OneOwner)'
    BY DEF RestInv, OneOwner
  <2>. QED BY <1>1, <2>1, <2>2
<1>. QED BY <1>2, <1>3, PTL DEF Spec

\* The types, for any number of processes, records and faults.
THEOREM TypeCorrect == Spec => []TypeOK
<1>1. RestInv => TypeOK
  BY DEF RestInv
<1>. QED BY RestCorrect, <1>1, PTL

\* No record that the proxy has answered with goes by in silence.
THEOREM NoRecordLost == Spec => []AnsweredIsAccounted
<1>1. RestInv => AnsweredIsAccounted
  BY DEF RestInv
<1>. QED BY RestCorrect, <1>1, PTL

\* One process polls at a time, unless an instance has expired under one.
THEOREM OnlyOne == Spec => []OneProcess
<1>1. RestInv => OneProcess
  <2>. SUFFICES ASSUME RestInv, ~orphaned
                PROVE  Cardinality({c \in Consumers : pc[c] # "down"}) <= 1
    BY DEF OneProcess
  <2>. DEFINE Up == {c \in Consumers : pc[c] # "down"}
  <2>1. \A c, d \in Up : c = d
    BY DEF RestInv
  <2>2. CASE Up = {}
    BY <2>2, FS_EmptySet
  <2>3. CASE Up # {}
    <3>1. PICK c \in Up : TRUE
      BY <2>3
    <3>2. Up = {c}
      BY <2>1, <3>1
    <3>. QED BY <3>2, FS_Singleton
  <2>. QED BY <2>2, <2>3
<1>. QED BY RestCorrect, <1>1, PTL
=============================================================================
