--------------------------- MODULE SinkConsumer ---------------------------
(***************************************************************************)
(* The consumer of services/event-sink: several processes in one Kafka     *)
(* consumer group, each with a ConsumeClaim goroutine for every partition  *)
(* assigned to it, save the events of the topic in the table audit_events. *)
(*                                                                         *)
(* ConsumeClaim is modelled call by call: a message is received and        *)
(* decoded, Save inserts it, MarkMessage lets its offset be committed.     *)
(* The group (rebalances, generations, fetches, auto-commit) is Kafka's    *)
(* and sarama's, modelled as ConsumeClaim and Start rely on it: a commit   *)
(* is accepted from the current generation only, a claim starts at the     *)
(* committed offset, and a session that ends cancels its context first and *)
(* then waits for its claims.                                              *)
(***************************************************************************)
EXTENDS Integers, Sequences, FiniteSetsExt

CONSTANTS
  Consumers,    \* event-sink processes
  Partitions,   \* partitions of the topic
  Messages,     \* what producers may write
  Undecodable,  \* messages whose value is not a serialized Event
  EventId,      \* EventId[m]: the event_id of m
  MaxLog,       \* bound on the length of a partition
  MaxFaults     \* bound on failed calls, crashes, fencings and unforced rebalances

ASSUME SinkAssumption ==
  /\ Undecodable \subseteq Messages
  /\ DOMAIN EventId = Messages
  /\ MaxLog \in Nat
  /\ MaxFaults \in Nat

VARIABLES
  log,          \* log[p]: the messages of partition p
  committed,    \* committed[p]: how many messages of p the group has committed
  generation,   \* the group's generation
  rebalancing,  \* the group waits for its members to join again
  proc,         \* the state of each process's Start loop
  session,      \* the generation of its session
  owns,         \* the partitions claimed in it
  pc,           \* where each ConsumeClaim is
  pos,          \* the offset it is at, from 1
  marked,       \* how many messages of the partition are marked
  stored,       \* the messages in audit_events
  failed,       \* history: failed[p], the offsets of p for which a Save returned an error
  faults

groupVars == <<committed, generation, rebalancing>>
sessionVars == <<proc, session, owns>>
claimVars == <<pc, pos, marked>>
storeVars == <<stored, failed>>
vars == <<log, groupVars, sessionVars, claimVars, storeVars, faults>>

(***************************************************************************)
(* "joining": Start is in Consume and no session runs; "session": a        *)
(* session runs; "ending": its context is cancelled; "stopped": Start has  *)
(* returned and the process lives on; "down": the process is dead.         *)
(***************************************************************************)
ProcStates == {"down", "stopped", "joining", "session", "ending"}
ClaimStates == {"receive", "save", "mark"}

Fault == faults < MaxFaults /\ faults' = faults + 1

StoredIds == {EventId[m] : m \in stored}

Init ==
  /\ log = [p \in Partitions |-> <<>>]
  /\ committed = [p \in Partitions |-> 0]
  /\ generation = 0
  /\ rebalancing = FALSE
  /\ proc = [c \in Consumers |-> "joining"]
  /\ session = [c \in Consumers |-> 0]
  /\ owns = [c \in Consumers |-> {}]
  /\ pc = [c \in Consumers |-> [p \in Partitions |-> "receive"]]
  /\ pos = [c \in Consumers |-> [p \in Partitions |-> 1]]
  /\ marked = [c \in Consumers |-> [p \in Partitions |-> 0]]
  /\ stored = {}
  /\ failed = [p \in Partitions |-> {}]
  /\ faults = 0

\* A producer writes a message, possibly again.
Produce(p, m) ==
  /\ Len(log[p]) < MaxLog
  /\ log' = [log EXCEPT ![p] = Append(@, m)]
  /\ UNCHANGED <<groupVars, sessionVars, claimVars, storeVars, faults>>
-----------------------------------------------------------------------------
(***************************************************************************)
(* ConsumeClaim(c, p).                                                     *)
(***************************************************************************)
\* MarkMessage for the message at hand, and on to the next.
MarkMessage(c, p) ==
  /\ marked' = [marked EXCEPT ![c][p] = Max({@, pos[c][p]})]
  /\ pos' = [pos EXCEPT ![c][p] = @ + 1]
  /\ pc' = [pc EXCEPT ![c][p] = "receive"]

\* continue without MarkMessage, after an error of Save.
Skip_Retries(c, p) ==
  /\ failed' = [failed EXCEPT ![p] = @ \union {pos[c][p]}]
  /\ pc' = [pc EXCEPT ![c][p] = "receive"]
  /\ UNCHANGED <<pos, marked>>
Skip(c, p) ==
  /\ failed' = [failed EXCEPT ![p] = @ \union {pos[c][p]}]
  /\ pos' = [pos EXCEPT ![c][p] = @ + 1]
  /\ pc' = [pc EXCEPT ![c][p] = "receive"]
  /\ UNCHANGED marked

\* The next message arrives; the buffer of a session that is ending is still
\* delivered.  A value that does not decode is marked at once.
Receive_MarksFirst(c, p) ==
  /\ pc[c][p] = "receive"
  /\ pos[c][p] <= Len(log[p])
  /\ marked' = [marked EXCEPT ![c][p] = Max({@, pos[c][p]})]
  /\ pc' = [pc EXCEPT ![c][p] = "save"]
  /\ UNCHANGED <<log, groupVars, sessionVars, pos, storeVars, faults>>
Receive(c, p) ==
  /\ pc[c][p] = "receive"
  /\ pos[c][p] <= Len(log[p])
  /\ \/ log[p][pos[c][p]] \in Undecodable /\ MarkMessage(c, p)
     \/ /\ log[p][pos[c][p]] \notin Undecodable
        /\ pc' = [pc EXCEPT ![c][p] = "save"]
        /\ UNCHANGED <<pos, marked>>
  /\ UNCHANGED <<log, groupVars, sessionVars, storeVars, faults>>

\* Save inserts the event, under a context that is not cancelled.
Save(c, p) ==
  /\ pc[c][p] = "save"
  /\ proc[c] = "session"
  /\ EventId[log[p][pos[c][p]]] \notin StoredIds
  /\ stored' = stored \union {log[p][pos[c][p]]}
  /\ pc' = [pc EXCEPT ![c][p] = "mark"]
  /\ UNCHANGED <<log, groupVars, sessionVars, pos, marked, failed, faults>>

\* Save violates the unique index on event_id.
SaveDuplicate(c, p) ==
  /\ pc[c][p] = "save"
  /\ EventId[log[p][pos[c][p]]] \in StoredIds
  /\ Skip(c, p)
  /\ UNCHANGED <<log, groupVars, sessionVars, stored, faults>>

\* The row of an INSERT whose outcome nobody learns.
MaybeStored(c, p) ==
  \/ UNCHANGED stored
  \/ /\ EventId[log[p][pos[c][p]]] \notin StoredIds
     /\ stored' = stored \union {log[p][pos[c][p]]}

\* Save returns the context's error, or another; the row may be there nonetheless.
SaveFails(c, p) ==
  /\ pc[c][p] = "save"
  /\ \/ proc[c] = "ending" /\ UNCHANGED faults
     \/ Fault
  /\ MaybeStored(c, p)
  /\ Skip(c, p)
  /\ UNCHANGED <<log, groupVars, sessionVars>>

\* Save has returned nil.
Mark(c, p) ==
  /\ pc[c][p] = "mark"
  /\ MarkMessage(c, p)
  /\ UNCHANGED <<log, groupVars, sessionVars, storeVars, faults>>
-----------------------------------------------------------------------------
(***************************************************************************)
(* The consumer group and Start.                                           *)
(***************************************************************************)
\* A member has to be let in, or a partition has lost its claim.
NeedsRebalance ==
  \/ \E c \in Consumers : proc[c] = "joining"
  \/ \E p \in Partitions : \A c \in Consumers : ~(p \in owns[c] /\ session[c] = generation)

\* The group starts a rebalance, because it must or for a reason of its own.
StartRebalance ==
  /\ ~rebalancing
  /\ rebalancing' = TRUE
  /\ \/ NeedsRebalance /\ UNCHANGED faults
     \/ Fault
  /\ UNCHANGED <<log, committed, generation, sessionVars, claimVars, storeVars>>

\* A heartbeat tells the session of it, or that it has been fenced: its context is cancelled.
CancelSession(c) ==
  /\ proc[c] = "session"
  /\ rebalancing \/ session[c] # generation
  /\ proc' = [proc EXCEPT ![c] = "ending"]
  /\ UNCHANGED <<log, groupVars, session, owns, claimVars, storeVars, faults>>

\* What is marked is committed, if the group still knows the session's generation.
Commit(c) ==
  /\ session[c] = generation
  /\ committed' = [p \in Partitions |-> IF p \in owns[c] THEN marked[c][p] ELSE committed[p]]

\* The periodic commit of sarama.
AutoCommit(c) ==
  /\ owns[c] # {}
  /\ Commit(c)
  /\ committed' # committed
  /\ UNCHANGED <<log, generation, rebalancing, sessionVars, claimVars, storeVars, faults>>

\* The claims have returned; a last commit is tried, and Start calls Consume again,
\* unless Consume returned an error: then Start returns it and main only logs it.
EndSession_DoesNotWait(c) ==
  /\ proc[c] = "ending"
  /\ proc' = [proc EXCEPT ![c] = "joining"]
  /\ session' = [session EXCEPT ![c] = 0]
  /\ owns' = [owns EXCEPT ![c] = {}]
  /\ UNCHANGED <<log, groupVars, claimVars, storeVars, faults>>
EndSession(c) ==
  /\ proc[c] = "ending"
  /\ \A p \in owns[c] : pc[c][p] = "receive"
  /\ Commit(c) \/ UNCHANGED committed
  /\ \/ proc' = [proc EXCEPT ![c] = "joining"] /\ UNCHANGED faults
     \/ proc' = [proc EXCEPT ![c] = "stopped"] /\ Fault
  /\ session' = [session EXCEPT ![c] = 0]
  /\ owns' = [owns EXCEPT ![c] = {}]
  /\ UNCHANGED <<log, generation, rebalancing, claimVars, storeVars>>

\* Consume returns an error before it has a session.
ConsumeFails(c) ==
  /\ proc[c] = "joining"
  /\ proc' = [proc EXCEPT ![c] = "stopped"]
  /\ Fault
  /\ UNCHANGED <<log, groupVars, session, owns, claimVars, storeVars>>

\* The members of S form the next generation and claim the partitions by turns.
\* Who consumes and is not in S has been too slow and is fenced.
FormGeneration(S) ==
  /\ rebalancing
  /\ S # {} /\ \A c \in S : proc[c] = "joining"
  /\ \/ S = {c \in Consumers : proc[c] \in {"joining", "session", "ending"}} /\ UNCHANGED faults
     \/ Fault
  /\ rebalancing' = FALSE
  /\ generation' = generation + 1
  /\ \E f \in [Partitions -> S] :
       /\ \A c, d \in S : Cardinality({p \in Partitions : f[p] = c})
                            <= Cardinality({p \in Partitions : f[p] = d}) + 1
       /\ owns' = [c \in Consumers |-> IF c \in S THEN {p \in Partitions : f[p] = c} ELSE owns[c]]
  /\ proc' = [c \in Consumers |-> IF c \in S THEN "session" ELSE proc[c]]
  /\ session' = [c \in Consumers |-> IF c \in S THEN generation + 1 ELSE session[c]]
  /\ pos' = [c \in Consumers |->
               IF c \in S THEN [p \in Partitions |-> committed[p] + 1] ELSE pos[c]]
  /\ marked' = [c \in Consumers |-> IF c \in S THEN committed ELSE marked[c]]
  /\ UNCHANGED <<log, committed, pc, storeVars>>

\* The process dies, at a Save with or without effect, or main returns without
\* waiting for Start.
Crash(c) ==
  /\ proc[c] # "down"
  /\ \/ UNCHANGED stored
     \/ \E p \in owns[c] : pc[c][p] = "save" /\ MaybeStored(c, p)
  /\ proc' = [proc EXCEPT ![c] = "down"]
  /\ session' = [session EXCEPT ![c] = 0]
  /\ owns' = [owns EXCEPT ![c] = {}]
  /\ pc' = [pc EXCEPT ![c] = [p \in Partitions |-> "receive"]]
  /\ Fault
  /\ UNCHANGED <<log, groupVars, pos, marked, failed>>

\* The process starts, and with it Start.
Restart(c) ==
  /\ proc[c] = "down"
  /\ proc' = [proc EXCEPT ![c] = "joining"]
  /\ UNCHANGED <<log, groupVars, session, owns, claimVars, storeVars, faults>>

Claim(c, p) ==
  /\ p \in owns[c]
  /\ Receive(c, p) \/ Save(c, p) \/ SaveDuplicate(c, p) \/ SaveFails(c, p) \/ Mark(c, p)

Next ==
  \/ \E p \in Partitions, m \in Messages : Produce(p, m)
  \/ \E c \in Consumers, p \in Partitions : Claim(c, p)
  \/ StartRebalance
  \/ \E c \in Consumers : CancelSession(c) \/ AutoCommit(c) \/ EndSession(c) \/ ConsumeFails(c)
  \/ \E S \in SUBSET Consumers : FormGeneration(S)
  \/ \E c \in Consumers : Crash(c) \/ Restart(c)

Spec == Init /\ [][Next]_vars

(***************************************************************************)
(* Kafka keeps the group going, claims are scheduled and Save returns, a   *)
(* dead process is started again.  Nothing makes a consumer that has       *)
(* stopped start again.                                                    *)
(***************************************************************************)
Fairness ==
  /\ \A c \in Consumers, p \in Partitions : WF_vars(Claim(c, p))
  /\ WF_vars(StartRebalance)
  /\ WF_vars(\E S \in SUBSET Consumers : FormGeneration(S))
  /\ \A c \in Consumers :
       WF_vars(CancelSession(c)) /\ WF_vars(EndSession(c)) /\ WF_vars(Restart(c))

FairSpec == Spec /\ Fairness
-----------------------------------------------------------------------------
(***************************************************************************)
(* Properties.                                                             *)
(***************************************************************************)
\* Every variable has its type; claims exist in a session only, and only a claim saves
\* and marks, a message of its partition.
TypeOK ==
  /\ log \in [Partitions -> Seq(Messages)]
  /\ committed \in [Partitions -> Nat]
  /\ generation \in Nat
  /\ rebalancing \in BOOLEAN
  /\ proc \in [Consumers -> ProcStates]
  /\ session \in [Consumers -> Nat]
  /\ owns \in [Consumers -> SUBSET Partitions]
  /\ \A c \in Consumers : owns[c] # {} => proc[c] \in {"session", "ending"}
  /\ \A c \in Consumers : session[c] <= generation
  /\ pc \in [Consumers -> [Partitions -> ClaimStates]]
  /\ \A c \in Consumers, p \in Partitions :
       pc[c][p] # "receive" => p \in owns[c] /\ pos[c][p] <= Len(log[p])
  /\ pos \in [Consumers -> [Partitions -> Nat \ {0}]]
  /\ marked \in [Consumers -> [Partitions -> Nat]]
  /\ stored \subseteq Messages
  /\ failed \in [Partitions -> SUBSET Nat]
  /\ faults \in 0 .. MaxFaults

\* What has become of the message at offset k of partition p: it does not decode, its
\* event is in the store, or a Save of it has returned an error.
Accounted(p, k) ==
  /\ k \in 1 .. Len(log[p])
  /\ \/ log[p][k] \in Undecodable
     \/ EventId[log[p][k]] \in StoredIds
     \/ k \in failed[p]

\* No committed message has been passed over in silence, whatever crashes, zombies
\* and rebalances come between Save, MarkMessage and the commit.
CommittedIsAccounted ==
  \A p \in Partitions : \A k \in 1 .. committed[p] : Accounted(p, k)

\* Every message is eventually accounted for, unless every consumer has stopped.
EventuallyAccounted ==
  \A p \in Partitions, k \in 1 .. MaxLog :
    (k <= Len(log[p])) ~> (Accounted(p, k) \/ \A c \in Consumers : proc[c] = "stopped")

\* A message whose Save failed is not committed ("log it, but do not commit") until
\* its event is in the store.
FailedIsNotCommitted ==
  \A p \in Partitions : \A k \in failed[p] :
    k <= committed[p] => EventId[log[p][k]] \in StoredIds

\* Why nothing is passed over: every offset below the one a claim is at has been
\* accounted for, so has the one it is about to mark, and no mark is ahead of it.
ClaimInv(c, p) ==
  /\ marked[c][p] < pos[c][p]
  /\ \A k \in 1 .. pos[c][p] - 1 : Accounted(p, k)
  /\ pc[c][p] = "mark" => Accounted(p, pos[c][p])

\* Whatever a claim may still get committed, in its session or as a zombie, has been
\* accounted for, and so has what is committed.
SinkInv ==
  /\ CommittedIsAccounted
  /\ \A c \in Consumers : \A p \in owns[c] : ClaimInv(c, p)
=============================================================================
