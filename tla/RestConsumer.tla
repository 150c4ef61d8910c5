--------------------------- MODULE RestConsumer ---------------------------
(***************************************************************************)
(* The sink's other consumer, which polls a Kafka REST proxy.  main does   *)
(* not use it yet.  The proxy keeps the consumer instance: a process       *)
(* creates one, with the name of the group, subscribes it and asks it for  *)
(* records again and again.  An answer moves the instance on, whether the  *)
(* process gets it or not.  Nothing in the code deletes an instance or     *)
(* commits an offset: whether offsets are committed at all is the proxy's  *)
(* choice.                                                                 *)
(*                                                                         *)
(* A call of NewRestConsumer that the proxy refuses, and a poll that has   *)
(* no records to answer with, or no instance to ask, change nothing.       *)
(***************************************************************************)
EXTENDS Integers, FiniteSets, Sequences, SequencesExt

CONSTANTS
  Consumers,    \* processes that use a RestConsumer
  Events,       \* event ids
  Foreign,      \* a record with another schema id, or one that does not decode
  MaxLog,       \* bound: records in the topic
  MaxFaults     \* bound: errors, crashes, cancellations and untimely expiries

ASSUME RestAssumption == MaxLog \in Nat /\ MaxFaults \in Nat /\ Foreign \notin Events

VARIABLES
  log,          \* the topic
  autoCommit,   \* the proxy commits offsets by itself
  instance,     \* the instance of the group: "none", "created", "subscribed"
  next,         \* the offset its next answer begins with
  committed,    \* where a new instance begins
  pc,           \* pc[c]: "down", "subscribe", "poll", "records"
  batch,        \* batch[c]: offsets of the records that are still to be handled
  cancelled,    \* cancelled[c]: the context of Start is done
  stored,       \* ids in audit_events
  failed,       \* history: offsets whose Save returned an error
  lost,         \* history: offsets of answers that no process has worked through
  orphaned,     \* history: an instance has expired under a process
  faults        \* faults so far

proxyVars == <<autoCommit, instance, next, committed>>
processVars == <<pc, batch, cancelled>>
historyVars == <<failed, lost, orphaned>>
vars == <<log, proxyVars, processVars, stored, historyVars, faults>>

Offsets == 1 .. Len(log)
Elements(s) == {s[i] : i \in DOMAIN s}

Init ==
  /\ log = <<>>
  /\ autoCommit \in BOOLEAN
  /\ instance = "none"
  /\ next = 1
  /\ committed = 1
  /\ pc = [c \in Consumers |-> "down"]
  /\ batch = [c \in Consumers |-> <<>>]
  /\ cancelled = [c \in Consumers |-> FALSE]
  /\ stored = {}
  /\ failed = {}
  /\ lost = {}
  /\ orphaned = FALSE
  /\ faults = 0

Fault == faults < MaxFaults /\ faults' = faults + 1

Goto(c, label) == pc' = [pc EXCEPT ![c] = label]
-----------------------------------------------------------------------------
(***************************************************************************)
(* NewRestConsumer.                                                        *)
(***************************************************************************)
\* The proxy takes the name only when there is no instance with it.
NewInstance ==
  /\ instance = "none"
  /\ instance' = "created"
  /\ next' = committed
  /\ UNCHANGED <<log, autoCommit, committed, batch, stored, historyVars>>

CreateInstance_AnyName(c) ==
  /\ pc[c] = "down"
  /\ instance' = "created"
  /\ next' = committed
  /\ Goto(c, "subscribe")
  /\ cancelled' = [cancelled EXCEPT ![c] = FALSE]
  /\ UNCHANGED <<log, autoCommit, committed, batch, stored, historyVars, faults>>
CreateInstance(c) ==
  /\ pc[c] = "down"
  /\ NewInstance
  /\ Goto(c, "subscribe")
  /\ cancelled' = [cancelled EXCEPT ![c] = FALSE]
  /\ UNCHANGED faults

\* The instance is there, and the constructor returns an error.
CreateInstanceFails(c) ==
  /\ pc[c] = "down"
  /\ NewInstance
  /\ Fault
  /\ UNCHANGED <<pc, cancelled>>

Subscribe(c) ==
  /\ pc[c] = "subscribe"
  /\ instance # "none"
  /\ instance' = "subscribed"
  /\ Goto(c, "poll")
  /\ UNCHANGED <<log, autoCommit, next, committed, batch, cancelled, stored, historyVars, faults>>

\* The constructor returns an error; the instance stays, with or without the topic.
SubscribeFails(c) ==
  /\ pc[c] = "subscribe"
  /\ IF instance = "none" THEN UNCHANGED <<instance, faults>>
                          ELSE Fault /\ instance' \in {instance, "subscribed"}
  /\ Goto(c, "down")
  /\ UNCHANGED <<log, autoCommit, next, committed, batch, cancelled, stored, historyVars>>
-----------------------------------------------------------------------------
(***************************************************************************)
(* Start.                                                                  *)
(***************************************************************************)
\* The proxy answers with some of the records from next on, and moves on.
Answer(n) ==
  /\ instance = "subscribed"
  /\ next + n <= Len(log) + 1
  /\ next' = next + n

Upcoming(n) == [i \in 1 .. n |-> next + i - 1]

Poll(c) ==
  /\ pc[c] = "poll"
  /\ \E n \in 1 .. MaxLog :
       /\ Answer(n)
       /\ batch' = [batch EXCEPT ![c] = Upcoming(n)]
  /\ Goto(c, "records")
  /\ UNCHANGED <<log, autoCommit, instance, committed, cancelled, stored, historyVars, faults>>

\* The answer gets lost, comes after the client's 30 seconds, or is not JSON.
PollFails(c) ==
  /\ pc[c] = "poll"
  /\ Fault
  /\ \E n \in 1 .. MaxLog :
       /\ Answer(n)
       /\ lost' = lost \union Elements(Upcoming(n))
  /\ UNCHANGED <<log, autoCommit, instance, committed, processVars, stored, failed, orphaned>>

\* On to the next record; after the last one Start polls again.
NextRecord_Breaks(c) ==
  /\ batch' = [batch EXCEPT ![c] = <<>>]
  /\ Goto(c, "poll")
NextRecord_StaysInLoop(c) ==
  /\ batch' = [batch EXCEPT ![c] = Tail(@)]
  /\ UNCHANGED pc
NextRecord(c) ==
  /\ batch' = [batch EXCEPT ![c] = Tail(@)]
  /\ IF Len(batch[c]) = 1 THEN Goto(c, "poll") ELSE UNCHANGED pc

Skip_Retries(c) ==
  /\ log[Head(batch[c])] = Foreign
  /\ UNCHANGED <<pc, batch, stored, failed, faults>>
Skip(c) ==
  /\ log[Head(batch[c])] = Foreign
  /\ NextRecord(c)
  /\ UNCHANGED <<stored, failed, faults>>

Save(c) ==
  /\ log[Head(batch[c])] \in Events \ stored
  /\ ~cancelled[c]
  /\ stored' = stored \union {log[Head(batch[c])]}
  /\ NextRecord(c)
  /\ UNCHANGED <<failed, faults>>

\* The record goes by: the id is in the table already, the context is done, or the
\* INSERT fails, with or without effect.
SaveFails(c) ==
  LET k == Head(batch[c])
  IN  /\ log[k] \in Events
      /\ \/ (log[k] \in stored \/ cancelled[c]) /\ UNCHANGED <<stored, faults>>
         \/ Fault /\ stored' \in {stored, stored \union {log[k]}}
      /\ failed' = failed \union {k}
      /\ NextRecord(c)

Record(c) ==
  /\ pc[c] = "records"
  /\ Skip(c) \/ Save(c) \/ SaveFails(c)
  /\ UNCHANGED <<log, proxyVars, cancelled, lost, orphaned>>

\* Start looks at its context before it polls, and nowhere else.
Return(c) ==
  /\ pc[c] = "poll"
  /\ cancelled[c]
  /\ Goto(c, "down")
  /\ UNCHANGED <<log, proxyVars, batch, cancelled, stored, historyVars, faults>>
-----------------------------------------------------------------------------
(***************************************************************************)
(* What happens to the process, the proxy and the topic.                   *)
(***************************************************************************)
Produce ==
  /\ Len(log) < MaxLog
  /\ \E m \in Events \union {Foreign} : log' = Append(log, m)
  /\ UNCHANGED <<proxyVars, processVars, stored, historyVars, faults>>

Cancel(c) ==
  /\ pc[c] \in {"poll", "records"}
  /\ ~cancelled[c]
  /\ Fault
  /\ cancelled' = [cancelled EXCEPT ![c] = TRUE]
  /\ UNCHANGED <<log, proxyVars, pc, batch, stored, historyVars>>

Crash(c) ==
  /\ pc[c] # "down"
  /\ Fault
  /\ Goto(c, "down")
  /\ batch' = [batch EXCEPT ![c] = <<>>]
  /\ lost' = lost \union Elements(batch[c])
  /\ UNCHANGED <<log, proxyVars, cancelled, stored, failed, orphaned>>

\* The proxy commits what it has answered with.
Commit ==
  /\ autoCommit
  /\ instance # "none"
  /\ committed' = next
  /\ UNCHANGED <<log, autoCommit, instance, next, processVars, stored, historyVars, faults>>

\* The proxy drops an instance that nobody has asked for long: its process is gone,
\* or waits for the database or the network.
Expire ==
  /\ instance # "none"
  /\ instance' = "none"
  /\ committed' = IF autoCommit THEN next ELSE committed
  /\ IF \A c \in Consumers : pc[c] = "down"
     THEN UNCHANGED <<orphaned, faults>>
     ELSE Fault /\ orphaned' = TRUE
  /\ UNCHANGED <<log, autoCommit, next, processVars, stored, failed, lost>>
-----------------------------------------------------------------------------
Constructor(c) == CreateInstance(c) \/ CreateInstanceFails(c) \/ Subscribe(c) \/ SubscribeFails(c)
Start(c) == Poll(c) \/ PollFails(c) \/ Record(c) \/ Return(c)

Next ==
  \/ \E c \in Consumers : Constructor(c) \/ Start(c) \/ Cancel(c) \/ Crash(c)
  \/ Produce \/ Commit \/ Expire

Spec == Init /\ [][Next]_vars

(***************************************************************************)
(* A process goes on with what it has begun.  Nobody has to start one, to  *)
(* produce or to commit, and no instance has to expire.                    *)
(***************************************************************************)
Fairness ==
  \A c \in Consumers :
    WF_vars(Subscribe(c) \/ SubscribeFails(c)) /\ WF_vars(Poll(c)) /\ WF_vars(Record(c))

FairSpec == Spec /\ Fairness
-----------------------------------------------------------------------------
(***************************************************************************)
(* Properties.                                                             *)
(***************************************************************************)
TypeOK ==
  /\ log \in Seq(Events \union {Foreign})
  /\ autoCommit \in BOOLEAN
  /\ instance \in {"none", "created", "subscribed"}
  /\ next \in 1 .. Len(log) + 1 /\ committed \in 1 .. next
  /\ pc \in [Consumers -> {"down", "subscribe", "poll", "records"}]
  /\ batch \in [Consumers -> Seq(Offsets)]
  /\ \A c \in Consumers : batch[c] # <<>> <=> pc[c] = "records"
  /\ cancelled \in [Consumers -> BOOLEAN]
  /\ stored \subseteq Events
  /\ failed \subseteq Offsets /\ lost \subseteq Offsets
  /\ orphaned \in BOOLEAN
  /\ faults \in 0 .. MaxFaults

Accounted(k) == log[k] = Foreign \/ log[k] \in stored \/ k \in failed \/ k \in lost

\* What the instance has answered with, or the proxy has committed, is stored, or
\* foreign, or in the hands of a process: unless its Save failed, or the answer was
\* lost, or the process with it.
AnsweredIsAccounted ==
  \A k \in 1 .. next - 1 :
    Accounted(k) \/ \E c \in Consumers : k \in Elements(batch[c])

\* The name of the group lets one process in; two share an instance, and each polls
\* a part of the records, only after one has expired under a process.
OneProcess ==
  ~orphaned => Cardinality({c \in Consumers : pc[c] # "down"}) <= 1

\* Why both hold: while no instance has expired under a process, the one process that is
\* not down has an instance, so that the proxy refuses the name to everybody else.
RestInv ==
  /\ TypeOK
  /\ AnsweredIsAccounted
  /\ ~orphaned =>
       /\ \A c, d \in Consumers : pc[c] # "down" /\ pc[d] # "down" => c = d
       /\ \A c \in Consumers : pc[c] # "down" => instance # "none"

\* Somebody polls an instance that can answer.
Consuming == instance = "subscribed" /\ \E c \in Consumers : pc[c] \in {"poll", "records"}

\* Every record is accounted for in the end, unless nobody polls any more: each
\* process is down, or polls for ever what has expired and is not created again.
EventuallyAccounted ==
  \A k \in 1 .. MaxLog :
    (k <= Len(log)) ~> ((k <= Len(log) /\ Accounted(k)) \/ []~Consuming)
=============================================================================
