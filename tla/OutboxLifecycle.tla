-------------------------- MODULE OutboxLifecycle --------------------------
(***************************************************************************)
(* The life of the go-outbox library in one process: Init under sync.Once, *)
(* the two goroutines that setup starts, PublishEvent before, during and   *)
(* after it, and Shutdown.                                                 *)
(*                                                                         *)
(* globalInstance and the fields worker and dbRecoveryStop are written by  *)
(* setup and read by PublishEvent and Shutdown without a lock.  A reader   *)
(* that runs beside Init may therefore find nil where setup has already    *)
(* written; stores become visible in program order.                        *)
(*                                                                         *)
(* What a batch does and how a table is repaired is not modelled here      *)
(* (OutboxRelay and OutboxRecovery do that): a batch is a set of events    *)
(* that are sent one by one, a turn of the recovery loop has no effect.    *)
(***************************************************************************)
EXTENDS Integers, FiniteSets, FiniteSetsExt

CONSTANTS
  InitCallers,  \* calls of Init
  StopCallers,  \* calls of Shutdown
  Events,       \* calls of PublishEvent
  BatchSizes,   \* the values that Config.BatchSize may have
  Nobody        \* no call of Shutdown

ASSUME LifecycleAssumption ==
  /\ BatchSizes \subseteq Nat
  /\ Nobody \notin StopCallers

Modes == {"binary", "schema-registry"}      \* what setup knows
Configs == [Mode : Modes \union {"other"}, BatchSize : BatchSizes]

VARIABLES
  cfg,          \* the Config of the first call of Init; those of later calls are dropped
  once,         \* sync.Once: "fresh", "running", "done"
  instance,     \* globalInstance # nil
  pc,           \* pc[g]: where goroutine g is: "none", "select", "busy", "hung", "ended"
  tick,         \* tick[g]: the channel of g's ticker, which has room for one tick
  stopCh,       \* stopCh[g]: Worker.stopCh and dbRecoveryStop: "nil", "open", "closed"
  closedBy,     \* history: the call of Shutdown that closed stopCh[g]
  call,         \* call[c]: progress and result of a call of Init
  stop,         \* stop[s]: progress and result of a call of Shutdown
  event,        \* event[e]: "new", "refused" (ErrNotInitialized), "accepted", "sent"
  batch         \* the records that the worker has yet to send

callVars == <<cfg, once, instance, call>>
loopVars == <<pc, tick, batch>>
stopVars == <<stopCh, closedBy, stop>>
vars == <<callVars, loopVars, stopVars, event>>

Goroutines == {"worker", "recovery"}

Init ==
  /\ cfg \in Configs
  /\ once = "fresh"
  /\ instance = FALSE
  /\ pc = [g \in Goroutines |-> "none"]
  /\ tick = [g \in Goroutines |-> FALSE]
  /\ stopCh = [g \in Goroutines |-> "nil"]
  /\ closedBy = [g \in Goroutines |-> Nobody]
  /\ call = [c \in InitCallers |-> "idle"]
  /\ stop = [s \in StopCallers |-> "idle"]
  /\ event = [e \in Events |-> "new"]
  /\ batch = {}
-----------------------------------------------------------------------------
(***************************************************************************)
(* Init and setup.                                                         *)
(***************************************************************************)
\* The first call enters once.Do and assigns globalInstance.
FirstInit(c) ==
  /\ call[c] = "idle"
  /\ once = "fresh"
  /\ once' = "running"
  /\ instance' = TRUE
  /\ call' = [call EXCEPT ![c] = "setup"]
  /\ UNCHANGED <<cfg, loopVars, stopVars, event>>

\* setup does not know the mode: the instance stays, and once is used up.
SetupFails(c) ==
  /\ call[c] = "setup"
  /\ cfg.Mode \notin Modes
  /\ once' = "done"
  /\ call' = [call EXCEPT ![c] = "error"]
  /\ UNCHANGED <<cfg, instance, loopVars, stopVars, event>>

\* make of a stop channel, and go of the loop that selects on it.
Launch(g) ==
  /\ stopCh' = [stopCh EXCEPT ![g] = "open"]
  /\ pc' = [pc EXCEPT ![g] = "select"]

StartRecovery(c) ==
  /\ call[c] = "setup"
  /\ cfg.Mode \in Modes
  /\ Launch("recovery")
  /\ call' = [call EXCEPT ![c] = "starting"]
  /\ UNCHANGED <<cfg, once, instance, tick, batch, closedBy, stop, event>>

StartWorker(c) ==
  /\ call[c] = "starting"
  /\ Launch("worker")
  /\ once' = "done"
  /\ call' = [call EXCEPT ![c] = "nil"]
  /\ UNCHANGED <<cfg, instance, tick, batch, closedBy, stop, event>>

\* Any other call returns nil, whatever the first one has come to, but not before it
\* has returned.
LaterInit_NoWait(c) ==
  /\ call[c] = "idle"
  /\ once # "fresh"
  /\ call' = [call EXCEPT ![c] = "nil"]
  /\ UNCHANGED <<cfg, once, instance, loopVars, stopVars, event>>
LaterInit(c) ==
  /\ call[c] = "idle"
  /\ once = "done"
  /\ call' = [call EXCEPT ![c] = "nil"]
  /\ UNCHANGED <<cfg, once, instance, loopVars, stopVars, event>>
-----------------------------------------------------------------------------
(***************************************************************************)
(* Publishers.                                                             *)
(***************************************************************************)
\* globalInstance is nil, or the publisher does not see it yet.
PublishRefused(e) ==
  /\ event[e] = "new"
  /\ ~instance \/ once = "running"
  /\ event' = [event EXCEPT ![e] = "refused"]
  /\ UNCHANGED <<callVars, loopVars, stopVars>>

\* The event is inserted: nothing asks whether a worker runs, or ever will.
PublishAccepted(e) ==
  /\ event[e] = "new"
  /\ instance
  /\ event' = [event EXCEPT ![e] = "accepted"]
  /\ UNCHANGED <<callVars, loopVars, stopVars>>
-----------------------------------------------------------------------------
(***************************************************************************)
(* The loops of Worker.Start and dbRecoveryLoop.                           *)
(***************************************************************************)
\* The ticker of g fires; a tick that nobody has taken is not doubled.
Fire(g) ==
  /\ pc[g] \in {"select", "busy"}
  /\ ~tick[g]
  /\ tick' = [tick EXCEPT ![g] = TRUE]
  /\ UNCHANGED <<callVars, pc, batch, stopVars, event>>

Pending == {e \in Events : event[e] = "accepted"}
Batches_NotOnlyPending ==
  {B \in SUBSET Events : Cardinality(B) = Min({cfg.BatchSize, Cardinality(Events)})}
Batches_OffByOne ==
  {B \in SUBSET Pending : Cardinality(B) + 1 = Min({cfg.BatchSize, Cardinality(Pending) + 1})}
Batches == {B \in SUBSET Pending : Cardinality(B) = Min({cfg.BatchSize, Cardinality(Pending)})}

\* select takes the tick, also when the stop channel is ready: the worker reads a
\* batch, the recovery loop looks at dbProblem.
TakeTick(g) ==
  /\ pc[g] = "select"
  /\ tick[g]
  /\ tick' = [tick EXCEPT ![g] = FALSE]
  /\ pc' = [pc EXCEPT ![g] = "busy"]
  /\ IF g = "worker" THEN batch' \in Batches ELSE UNCHANGED batch
  /\ UNCHANGED <<callVars, stopVars, event>>

\* select takes the stop channel, also when there is a tick.
TakeStop_TickFirst(g) ==
  /\ pc[g] = "select"
  /\ stopCh[g] = "closed"
  /\ ~tick[g]
  /\ pc' = [pc EXCEPT ![g] = "ended"]
  /\ UNCHANGED <<callVars, tick, batch, stopVars, event>>
TakeStop(g) ==
  /\ pc[g] = "select"
  /\ stopCh[g] = "closed"
  /\ pc' = [pc EXCEPT ![g] = "ended"]
  /\ UNCHANGED <<callVars, tick, batch, stopVars, event>>

\* The next record of the batch is sent and marked.
Send ==
  /\ pc["worker"] = "busy"
  /\ \E e \in batch :
       /\ event' = [event EXCEPT ![e] = "sent"]
       /\ batch' = batch \ {e}
  /\ UNCHANGED <<callVars, pc, tick, stopVars>>

\* The batch, or the turn of the recovery loop, is over.
Finish(g) ==
  /\ pc[g] = "busy"
  /\ g = "worker" => batch = {}
  /\ pc' = [pc EXCEPT ![g] = "select"]
  /\ UNCHANGED <<callVars, tick, batch, stopVars, event>>

\* A call under context.Background() never returns.
Hang(g) ==
  /\ pc[g] = "busy"
  /\ pc' = [pc EXCEPT ![g] = "hung"]
  /\ UNCHANGED <<callVars, tick, batch, stopVars, event>>
-----------------------------------------------------------------------------
(***************************************************************************)
(* Shutdown.                                                               *)
(***************************************************************************)
\* globalInstance is read.
CallShutdown(s) ==
  /\ stop[s] = "idle"
  /\ \/ instance /\ stop' = [stop EXCEPT ![s] = "worker"]
     \/ (~instance \/ once = "running") /\ stop' = [stop EXCEPT ![s] = "done"]
  /\ UNCHANGED <<callVars, loopVars, stopCh, closedBy, event>>

After(g) == IF g = "worker" THEN "recovery" ELSE "done"

\* The stop channel of g is closed, unless there is none (to be seen) yet; closing it
\* a second time panics.
CloseStop_NoCheck(s, g) ==
  /\ stop[s] = g
  /\ \/ /\ stopCh[g] = "open"
        /\ stopCh' = [stopCh EXCEPT ![g] = "closed"]
        /\ closedBy' = [closedBy EXCEPT ![g] = s]
        /\ stop' = [stop EXCEPT ![s] = After(g)]
     \/ /\ stopCh[g] \in {"nil", "closed"}
        /\ stop' = [stop EXCEPT ![s] = "panicked"]
        /\ UNCHANGED <<stopCh, closedBy>>
  /\ UNCHANGED <<callVars, loopVars, event>>
CloseStop(s, g) ==
  /\ stop[s] = g
  /\ \/ /\ stopCh[g] = "open"
        /\ stopCh' = [stopCh EXCEPT ![g] = "closed"]
        /\ closedBy' = [closedBy EXCEPT ![g] = s]
        /\ stop' = [stop EXCEPT ![s] = After(g)]
     \/ /\ stopCh[g] = "closed"
        /\ stop' = [stop EXCEPT ![s] = "panicked"]
        /\ UNCHANGED <<stopCh, closedBy>>
     \/ /\ (stopCh[g] = "nil" \/ once = "running")
        /\ stop' = [stop EXCEPT ![s] = After(g)]
        /\ UNCHANGED <<stopCh, closedBy>>
  /\ UNCHANGED <<callVars, loopVars, event>>
-----------------------------------------------------------------------------
Setup(c) == FirstInit(c) \/ SetupFails(c) \/ StartRecovery(c) \/ StartWorker(c) \/ LaterInit(c)
Shutdown(s) == CallShutdown(s) \/ \E g \in Goroutines : CloseStop(s, g)

Next ==
  \/ \E c \in InitCallers : Setup(c)
  \/ \E e \in Events : PublishRefused(e) \/ PublishAccepted(e)
  \/ \E g \in Goroutines : Fire(g) \/ TakeTick(g) \/ TakeStop(g) \/ Finish(g) \/ Hang(g)
  \/ Send
  \/ \E s \in StopCallers : Shutdown(s)

Spec == Init /\ [][Next]_vars

(***************************************************************************)
(* A call that has begun goes on, tickers fire, and select, which chooses  *)
(* at random among the channels that are ready, does not pass over one for *)
(* ever.  Nobody has to call anything, and a batch may hang.               *)
(***************************************************************************)
Fairness ==
  /\ \A c \in InitCallers : WF_vars(SetupFails(c) \/ StartRecovery(c) \/ StartWorker(c))
  /\ \A s \in StopCallers, g \in Goroutines : WF_vars(CloseStop(s, g))
  /\ \A g \in Goroutines : WF_vars(Fire(g)) /\ WF_vars(TakeTick(g)) /\ WF_vars(Finish(g))
  /\ \A g \in Goroutines : SF_vars(TakeStop(g))
  /\ WF_vars(Send)

FairSpec == Spec /\ Fairness
-----------------------------------------------------------------------------
(***************************************************************************)
(* Properties.                                                             *)
(***************************************************************************)
TypeOK ==
  /\ cfg \in Configs
  /\ once \in {"fresh", "running", "done"}
  /\ instance \in BOOLEAN
  /\ pc \in [Goroutines -> {"none", "select", "busy", "hung", "ended"}]
  /\ tick \in [Goroutines -> BOOLEAN]
  /\ stopCh \in [Goroutines -> {"nil", "open", "closed"}]
  /\ closedBy \in [Goroutines -> StopCallers \union {Nobody}]
  /\ call \in [InitCallers -> {"idle", "setup", "starting", "nil", "error"}]
  /\ stop \in [StopCallers -> {"idle", "worker", "recovery", "done", "panicked"}]
  /\ event \in [Events -> {"new", "refused", "accepted", "sent"}]
  /\ batch \subseteq Pending

\* Both goroutines have been started.
Started == \A g \in Goroutines : pc[g] # "none"

\* Whoever gets nil from Init has both goroutines, which end by Shutdown only: the
\* one exception is a call that comes after one that was given an error.
NilMeansStarted ==
  (\E c \in InitCallers : call[c] = "nil") =>
    \/ \E c \in InitCallers : call[c] = "error"
    \/ Started /\ \A g \in Goroutines : pc[g] = "ended" => closedBy[g] # Nobody

\* Shutdown panics only when another call of it has closed the channel before: one
\* call is safe at any time, while Init is running included.
PanicNeedsTwo ==
  \A s \in StopCallers :
    stop[s] = "panicked" => \E g \in Goroutines : closedBy[g] \notin {s, Nobody}

(***************************************************************************)
(* The inductive invariant behind both: at most one call is in setup, and  *)
(* what it has still to start is not there; a closed channel has a closer. *)
(***************************************************************************)
InSetup(c) == call[c] \in {"setup", "starting"}

SetupOnce ==
  /\ \A c \in InitCallers : InSetup(c) => once = "running"
  /\ \A c, d \in InitCallers : InSetup(c) /\ InSetup(d) => c = d
  /\ \A c \in InitCallers : call[c] = "nil" => once = "done"

SetupProgress ==
  /\ \A c \in InitCallers : call[c] = "setup" => stopCh["recovery"] = "nil"
  /\ \A c \in InitCallers : InSetup(c) => stopCh["worker"] = "nil"
  /\ \A c \in InitCallers : call[c] = "starting" => pc["recovery"] # "none"
  /\ once = "fresh" => \A g \in Goroutines : stopCh[g] = "nil"
  /\ once = "done" => Started \/ \E c \in InitCallers : call[c] = "error"

ClosedByShutdown ==
  /\ \A g \in Goroutines : stopCh[g] = "closed" <=> closedBy[g] # Nobody
  /\ \A g \in Goroutines : pc[g] = "ended" => closedBy[g] # Nobody
  /\ \A s \in StopCallers : closedBy["worker"] = s => stop[s] \notin {"idle", "worker"}
  /\ \A s \in StopCallers : closedBy["recovery"] = s => stop[s] = "done"

LifecycleInv == TypeOK /\ SetupOnce /\ SetupProgress /\ ClosedByShutdown /\ PanicNeedsTwo

\* A Shutdown that finds Init done ends both goroutines, though select may prefer
\* their tickers for a while, and another Shutdown may make this one panic halfway;
\* only a goroutine that hangs in a call stays, and it does not keep the other.
ShutdownStops ==
  \A s \in StopCallers, g \in Goroutines :
    (stop[s] = "worker" /\ once = "done" /\ Started) ~> pc[g] \in {"ended", "hung"}

\* PublishEvent accepts an event whenever there is an instance.  It is sent in the
\* end, unless setup failed, BatchSize is 0, Shutdown was called or the worker hangs.
AcceptedIsSent ==
  \A e \in Events :
    event[e] = "accepted" ~>
      \/ event[e] = "sent"
      \/ cfg.Mode \notin Modes \/ cfg.BatchSize = 0
      \/ stopCh["worker"] = "closed" \/ pc["worker"] = "hung"
=============================================================================
