---------------------- MODULE OutboxLifecycle_proof ----------------------
(***************************************************************************)
(* Proofs about OutboxLifecycle, for any number of calls of Init, Shutdown *)
(* and PublishEvent: its types, what nil from Init means, and that a lone  *)
(* Shutdown never panics.                                                  *)
(***************************************************************************)
EXTENDS OutboxLifecycle, TLAPS

\* Every step preserves the types.
LEMMA TypeStep ==
  ASSUME TypeOK, [Next]_vars
  PROVE  TypeOK'
<1>. USE DEF TypeOK, Pending, callVars, loopVars, stopVars
<1>1. ASSUME NEW c \in InitCallers, Setup(c)
      PROVE  TypeOK'
  <2>1. CASE FirstInit(c)
    BY <2>1 DEF FirstInit
  <2>2. CASE SetupFails(c)
    BY <2>2 DEF SetupFails
  <2>3. CASE StartRecovery(c)
    BY <2>3 DEF StartRecovery, Launch
  <2>4. CASE StartWorker(c)
    BY <2>4 DEF StartWorker, Launch
  <2>5. CASE LaterInit(c)
    BY <2>5 DEF LaterInit
  <2>. QED BY <1>1, <2>1, <2>2, <2>3, <2>4, <2>5 DEF Setup
<1>2. ASSUME NEW e \in Events, PublishRefused(e) \/ PublishAccepted(e)
      PROVE  TypeOK'
  BY <1>2 DEF PublishRefused, PublishAccepted
<1>3. ASSUME NEW g \in Goroutines, TakeTick(g)
      PROVE  TypeOK'
  <2>1. batch' \subseteq Pending
    BY <1>3 DEF TakeTick, Batches
  <2>. QED BY <1>3, <2>1 DEF TakeTick
<1>4. ASSUME NEW g \in Goroutines, Fire(g) \/ TakeStop(g) \/ Finish(g) \/ Hang(g)
      PROVE  TypeOK'
  BY <1>4 DEF Fire, TakeStop, Finish, Hang
<1>5. CASE Send
  BY <1>5 DEF Send
<1>6. ASSUME NEW s \in StopCallers, Shutdown(s)
      PROVE  TypeOK'
  <2>1. CASE CallShutdown(s)
    BY <2>1 DEF CallShutdown
  <2>2. ASSUME NEW g \in Goroutines, CloseStop(s, g)
        PROVE  TypeOK'
    BY <2>2 DEF CloseStop, After
  <2>. QED BY <1>6, <2>1, <2>2 DEF Shutdown
<1>7. CASE UNCHANGED vars
  BY <1>7 DEF vars
<1>. QED BY <1>1, <1>2, <1>3, <1>4, <1>5, <1>6, <1>7 DEF Next
-----------------------------------------------------------------------------
(***************************************************************************)
(* The other parts of the invariant.                                       *)
(***************************************************************************)
\* Only the calls of Init change once and call.
LEMMA SetupOnceStep ==
  ASSUME TypeOK, SetupOnce, [Next]_vars
  PROVE  SetupOnce'
<1>. USE DEF TypeOK, SetupOnce, InSetup, loopVars, stopVars
<1>1. ASSUME NEW c \in InitCallers, Setup(c)
      PROVE  SetupOnce'
  <2>1. CASE FirstInit(c)
    BY <2>1 DEF FirstInit
  <2>2. CASE SetupFails(c)
    BY <2>2 DEF SetupFails
  <2>3. CASE StartRecovery(c)
    BY <2>3 DEF StartRecovery
  <2>4. CASE StartWorker(c)
    BY <2>4 DEF StartWorker
  <2>5. CASE LaterInit(c)
    BY <2>5 DEF LaterInit
  <2>. QED BY <1>1, <2>1, <2>2, <2>3, <2>4, <2>5 DEF Setup
<1>2. CASE UNCHANGED <<once, call>>
  BY <1>2
<1>. QED
  BY <1>1, <1>2
  DEF Next, vars, callVars, PublishRefused, PublishAccepted, Fire, TakeTick, TakeStop,
      Finish, Hang, Send, Shutdown, CallShutdown, CloseStop

\* Shutdown closes a channel that exists and leaves the goroutines alone.
LEMMA SetupProgressStep ==
  ASSUME TypeOK, SetupOnce, SetupProgress, [Next]_vars
  PROVE  SetupProgress'
<1>. USE DEF TypeOK, SetupProgress, InSetup, Started, Goroutines
<1>1. ASSUME NEW c \in InitCallers, Setup(c)
      PROVE  SetupProgress'
  <2>. USE DEF SetupOnce
  <2>1. CASE FirstInit(c)
    BY <2>1 DEF FirstInit, stopVars, loopVars
  <2>2. CASE SetupFails(c)
    BY <2>2 DEF SetupFails, stopVars, loopVars
  <2>3. CASE StartRecovery(c)
    BY <2>3 DEF StartRecovery, Launch
  <2>4. CASE StartWorker(c)
    BY <2>4 DEF StartWorker, Launch
  <2>5. CASE LaterInit(c)
    BY <2>5 DEF LaterInit, stopVars, loopVars
  <2>. QED BY <1>1, <2>1, <2>2, <2>3, <2>4, <2>5 DEF Setup
<1>2. CASE UNCHANGED <<once, call, stopCh>>
           /\ \A g \in Goroutines : pc[g] # "none" <=> pc'[g] # "none"
  BY <1>2
<1>3. ASSUME NEW s \in StopCallers, NEW g \in Goroutines, CloseStop(s, g)
      PROVE  SetupProgress'
  BY <1>3 DEF CloseStop, callVars, loopVars
<1>4. ASSUME NEW g \in Goroutines, TakeTick(g) \/ TakeStop(g) \/ Finish(g) \/ Hang(g)
      PROVE  \A h \in Goroutines : pc[h] # "none" <=> pc'[h] # "none"
  BY <1>4 DEF TakeTick, TakeStop, Finish, Hang
<1>. QED
  BY <1>1, <1>2, <1>3, <1>4
  DEF Next, vars, callVars, loopVars, stopVars, PublishRefused, PublishAccepted, Fire,
      TakeTick, TakeStop, Finish, Hang, Send, Shutdown, CallShutdown

\* A channel is made once, before anybody closes it; a caller of Shutdown that has
\* closed one goes on to the next.
LEMMA ClosedByShutdownStep ==
  ASSUME TypeOK, SetupProgress, ClosedByShutdown, [Next]_vars
  PROVE  ClosedByShutdown'
<1>. USE LifecycleAssumption DEF TypeOK, ClosedByShutdown, Goroutines
<1>1. ASSUME NEW c \in InitCallers, Setup(c)
      PROVE  ClosedByShutdown'
  <2>. USE DEF SetupProgress, InSetup
  <2>1. CASE StartRecovery(c)
    BY <2>1 DEF StartRecovery, Launch
  <2>2. CASE StartWorker(c)
    BY <2>2 DEF StartWorker, Launch
  <2>3. CASE FirstInit(c) \/ SetupFails(c) \/ LaterInit(c)
    BY <2>3 DEF FirstInit, SetupFails, LaterInit, loopVars, stopVars
  <2>. QED BY <1>1, <2>1, <2>2, <2>3 DEF Setup
<1>2. ASSUME NEW g \in Goroutines, TakeTick(g) \/ TakeStop(g) \/ Finish(g) \/ Hang(g)
      PROVE  ClosedByShutdown'
  BY <1>2 DEF TakeTick, TakeStop, Finish, Hang, stopVars
<1>3. ASSUME NEW s \in StopCallers, Shutdown(s)
      PROVE  ClosedByShutdown'
  <2>1. CASE CallShutdown(s)
    BY <2>1 DEF CallShutdown, loopVars
  <2>2. ASSUME NEW g \in Goroutines, CloseStop(s, g)
        PROVE  ClosedByShutdown'
    BY <2>2 DEF CloseStop, After, loopVars
  <2>. QED BY <1>3, <2>1, <2>2 DEF Shutdown
<1>4. CASE UNCHANGED <<pc, stopCh, closedBy, stop>>
  BY <1>4
<1>. QED
  BY <1>1, <1>2, <1>3, <1>4
  DEF Next, vars, loopVars, stopVars, PublishRefused, PublishAccepted, Fire, Send

\* A caller that panics finds the channel closed, and not by itself.
LEMMA PanicStep ==
  ASSUME TypeOK, ClosedByShutdown, PanicNeedsTwo, [Next]_vars
  PROVE  PanicNeedsTwo'
<1>. USE LifecycleAssumption DEF TypeOK, PanicNeedsTwo, Goroutines
<1>1. ASSUME NEW s \in StopCallers, Shutdown(s)
      PROVE  PanicNeedsTwo'
  <2>1. CASE CallShutdown(s)
    BY <2>1 DEF CallShutdown
  <2>2. ASSUME NEW g \in Goroutines, CloseStop(s, g)
        PROVE  PanicNeedsTwo'
    BY <2>2 DEF CloseStop, After, ClosedByShutdown
  <2>. QED BY <1>1, <2>1, <2>2 DEF Shutdown
<1>2. CASE UNCHANGED <<closedBy, stop>>
  BY <1>2
<1>. QED
  BY <1>1, <1>2
  DEF Next, Setup, FirstInit, SetupFails, StartRecovery, StartWorker, LaterInit, vars,
      stopVars, PublishRefused, PublishAccepted, Fire, TakeTick, TakeStop, Finish, Hang, Send
-----------------------------------------------------------------------------
\* Initially nobody has called anything.
LEMMA InitInv == Init => LifecycleInv
<1>. SUFFICES ASSUME Init PROVE LifecycleInv
  OBVIOUS
<1>. USE LifecycleAssumption DEF Init, Goroutines
<1>1. TypeOK
  BY DEF TypeOK
<1>2. SetupOnce
  BY DEF SetupOnce, InSetup
<1>3. SetupProgress
  BY DEF SetupProgress, InSetup
<1>4. ClosedByShutdown /\ PanicNeedsTwo
  BY DEF ClosedByShutdown, PanicNeedsTwo
<1>. QED BY <1>1, <1>2, <1>3, <1>4 DEF LifecycleInv

\* Every reachable state satisfies the invariant.
THEOREM LifecycleCorrect == Spec => []LifecycleInv
<1>1. LifecycleInv /\ [Next]_vars => LifecycleInv'
  BY TypeStep, SetupOnceStep, SetupProgressStep, ClosedByShutdownStep, PanicStep
  DEF LifecycleInv
<1>. QED BY InitInv, <1>1, PTL DEF Spec

\* The types, for any number of calls.
THEOREM TypeCorrect == Spec => []TypeOK
<1>1. LifecycleInv => TypeOK
  BY DEF LifecycleInv
<1>. QED BY LifecycleCorrect, <1>1, PTL

\* A nil from Init means that both goroutines run, unless an earlier call failed.
THEOREM NilCorrect == Spec => []NilMeansStarted
<1>1. LifecycleInv => NilMeansStarted
  BY DEF LifecycleInv, NilMeansStarted, SetupOnce, SetupProgress, ClosedByShutdown
<1>. QED BY LifecycleCorrect, <1>1, PTL

\* A Shutdown panics only after another one.
THEOREM PanicCorrect == Spec => []PanicNeedsTwo
<1>1. LifecycleInv => PanicNeedsTwo
  BY DEF LifecycleInv
<1>. QED BY LifecycleCorrect, <1>1, PTL
=============================================================================
