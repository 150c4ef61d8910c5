----------------------- MODULE SinkConsumer_proof -----------------------
(***************************************************************************)
(* Proofs about SinkConsumer, for any number of processes, partitions,     *)
(* messages and faults: its types, and that no committed message has been  *)
(* passed over in silence.                                                 *)
(***************************************************************************)
EXTENDS SinkConsumer, TLAPS

\* The larger of two numbers.
LEMMA MaxOfTwo ==
  ASSUME NEW x \in Nat, NEW y \in Nat
  PROVE  Max({x, y}) = IF x >= y THEN x ELSE y
<1>1. CASE x >= y
  <2>1. x \in {x, y} /\ \A z \in {x, y} : x >= z
    BY <1>1
  <2>2. \A w \in {x, y} : (\A z \in {x, y} : w >= z) => w = x
    BY <1>1
  <2>. QED BY <1>1, <2>1, <2>2 DEF Max
<1>2. CASE ~(x >= y)
  <2>1. y \in {x, y} /\ \A z \in {x, y} : y >= z
    BY <1>2
  <2>2. \A w \in {x, y} : (\A z \in {x, y} : w >= z) => w = y
    BY <1>2
  <2>. QED BY <1>2, <2>1, <2>2 DEF Max
<1>. QED BY <1>1, <1>2

-----------------------------------------------------------------------------
(***************************************************************************)
(* Types.                                                                  *)
(***************************************************************************)
\* A claim that marks its message or skips it stays well typed.
LEMMA ClaimMovesType ==
  ASSUME TypeOK, NEW c \in Consumers, NEW p \in Partitions,
         MarkMessage(c, p) \/ Skip(c, p)
  PROVE  /\ marked' \in [Consumers -> [Partitions -> Nat]]
         /\ pos' \in [Consumers -> [Partitions -> Nat \ {0}]]
         /\ pc' = [pc EXCEPT ![c][p] = "receive"]
         /\ \A d \in Consumers, q \in Partitions :
              <<d, q>> # <<c, p>> => pos'[d][q] = pos[d][q]
<1>1. marked[c][p] \in Nat /\ pos[c][p] \in Nat
  BY DEF TypeOK
<1>2. Max({marked[c][p], pos[c][p]}) \in Nat
  <2>1. Max({marked[c][p], pos[c][p]}) =
          IF marked[c][p] >= pos[c][p] THEN marked[c][p] ELSE pos[c][p]
    BY <1>1, MaxOfTwo
  <2>. QED BY <1>1, <2>1
<1>3. pos' = [pos EXCEPT ![c][p] = @ + 1] /\ pc' = [pc EXCEPT ![c][p] = "receive"]
  BY DEF MarkMessage, Skip
<1>4. pos[c][p] + 1 \in Nat \ {0}
  BY <1>1
<1>5. pos' \in [Consumers -> [Partitions -> Nat \ {0}]]
  BY <1>3, <1>4 DEF TypeOK
<1>6. \A d \in Consumers, q \in Partitions : <<d, q>> # <<c, p>> => pos'[d][q] = pos[d][q]
  BY <1>3 DEF TypeOK
<1>7. marked' \in [Consumers -> [Partitions -> Nat]]
  <2>1. CASE MarkMessage(c, p)
    <3>1. marked' = [marked EXCEPT ![c][p] = Max({marked[c][p], pos[c][p]})]
      BY <2>1 DEF MarkMessage, TypeOK
    <3>. QED BY <1>2, <3>1 DEF TypeOK
  <2>2. CASE Skip(c, p)
    BY <2>2 DEF Skip, TypeOK
  <2>. QED BY <2>1, <2>2
<1>. QED BY <1>3, <1>5, <1>6, <1>7

\* A claim that goes back to receiving leaves the claims well typed.
LEMMA ClaimReceivesType ==
  ASSUME TypeOK, NEW c \in Consumers, NEW p \in Partitions,
         MarkMessage(c, p) \/ Skip(c, p),
         UNCHANGED <<log, owns>>
  PROVE  /\ pc' \in [Consumers -> [Partitions -> ClaimStates]]
         /\ \A d \in Consumers, q \in Partitions :
              pc'[d][q] # "receive" => q \in owns'[d] /\ pos'[d][q] <= Len(log'[q])
<1>1. /\ pc' = [pc EXCEPT ![c][p] = "receive"]
      /\ \A d \in Consumers, q \in Partitions : <<d, q>> # <<c, p>> => pos'[d][q] = pos[d][q]
  BY ClaimMovesType
<1>2. pc' \in [Consumers -> [Partitions -> ClaimStates]]
  BY <1>1 DEF TypeOK, ClaimStates
<1>3. ASSUME NEW d \in Consumers, NEW q \in Partitions, pc'[d][q] # "receive"
      PROVE  q \in owns'[d] /\ pos'[d][q] <= Len(log'[q])
  <2>1. <<d, q>> # <<c, p>> /\ pc'[d][q] = pc[d][q]
    BY <1>1, <1>3 DEF TypeOK
  <2>. QED BY <1>1, <1>3, <2>1 DEF TypeOK
<1>. QED BY <1>2, <1>3

\* Every step preserves the types.
LEMMA TypeStep ==
  ASSUME TypeOK, [Next]_vars
  PROVE  TypeOK'
<1>. USE DEF TypeOK
<1>1. ASSUME NEW p \in Partitions, NEW m \in Messages, Produce(p, m)
      PROVE  TypeOK'
  <2>1. log' \in [Partitions -> Seq(Messages)] /\ \A q \in Partitions : Len(log'[q]) >= Len(log[q])
    BY <1>1 DEF Produce
  <2>. QED BY <1>1, <2>1 DEF Produce, groupVars, sessionVars, claimVars, storeVars
<1>2. ASSUME NEW c \in Consumers, NEW p \in Partitions, Claim(c, p)
      PROVE  TypeOK'
  <2>0. p \in owns[c] /\ (pos[c][p] <= Len(log[p]) => log[p][pos[c][p]] \in Messages)
    BY <1>2 DEF Claim
  <2>1. CASE Receive(c, p)
    <3>1. CASE MarkMessage(c, p)
      BY <2>1, <3>1, ClaimMovesType, ClaimReceivesType
         DEF Receive, groupVars, sessionVars, storeVars
    <3>2. CASE pc' = [pc EXCEPT ![c][p] = "save"] /\ UNCHANGED <<pos, marked>>
      BY <2>0, <2>1, <3>2 DEF Receive, ClaimStates, groupVars, sessionVars, storeVars
    <3>. QED BY <2>1, <3>1, <3>2 DEF Receive
  <2>2. CASE Save(c, p)
    BY <2>0, <2>2 DEF Save, ClaimStates, groupVars, sessionVars
  <2>3. CASE SaveDuplicate(c, p)
    <3>1. failed' \in [Partitions -> SUBSET Nat]
      BY <2>3 DEF SaveDuplicate, Skip
    <3>. QED BY <2>3, <3>1, ClaimMovesType, ClaimReceivesType
             DEF SaveDuplicate, groupVars, sessionVars
  <2>4. CASE SaveFails(c, p)
    <3>1. stored' \subseteq Messages
      BY <2>0, <2>4 DEF SaveFails, MaybeStored
    <3>2. faults' \in 0 .. MaxFaults
      BY <2>4, SinkAssumption DEF SaveFails, Fault
    <3>3. failed' \in [Partitions -> SUBSET Nat]
      BY <2>4 DEF SaveFails, Skip
    <3>. QED BY <2>4, <3>1, <3>2, <3>3, ClaimMovesType, ClaimReceivesType
             DEF SaveFails, groupVars, sessionVars
  <2>5. CASE Mark(c, p)
    BY <2>5, ClaimMovesType, ClaimReceivesType DEF Mark, groupVars, sessionVars, storeVars
  <2>. QED BY <1>2, <2>1, <2>2, <2>3, <2>4, <2>5 DEF Claim
<1>3. CASE StartRebalance
  BY <1>3, SinkAssumption DEF StartRebalance, Fault, sessionVars, claimVars, storeVars
<1>4. ASSUME NEW c \in Consumers, CancelSession(c)
      PROVE  TypeOK'
  BY <1>4 DEF CancelSession, ProcStates, groupVars, claimVars, storeVars
<1>5. ASSUME NEW c \in Consumers, Commit(c)
      PROVE  committed' \in [Partitions -> Nat]
  BY <1>5 DEF Commit
<1>6. ASSUME NEW c \in Consumers, AutoCommit(c)
      PROVE  TypeOK'
  BY <1>5, <1>6 DEF AutoCommit, sessionVars, claimVars, storeVars
<1>7. ASSUME NEW c \in Consumers, EndSession(c)
      PROVE  TypeOK'
  <2>1. committed' \in [Partitions -> Nat]
    BY <1>5, <1>7 DEF EndSession
  <2>2. proc' \in [Consumers -> ProcStates] /\ \A d \in Consumers \ {c} : proc'[d] = proc[d]
    BY <1>7 DEF EndSession, ProcStates
  <2>3. faults' \in 0 .. MaxFaults
    BY <1>7, SinkAssumption DEF EndSession, Fault
  <2>. QED BY <1>7, <2>1, <2>2, <2>3 DEF EndSession, claimVars, storeVars
<1>8. ASSUME NEW c \in Consumers, ConsumeFails(c)
      PROVE  TypeOK'
  BY <1>8, SinkAssumption DEF ConsumeFails, Fault, ProcStates, groupVars, claimVars, storeVars
<1>9. ASSUME NEW S \in SUBSET Consumers, FormGeneration(S)
      PROVE  TypeOK'
  <2>1. PICK f \in [Partitions -> S] :
          owns' = [c \in Consumers |-> IF c \in S THEN {p \in Partitions : f[p] = c} ELSE owns[c]]
    BY <1>9 DEF FormGeneration
  <2>2. owns' \in [Consumers -> SUBSET Partitions]
    BY <2>1
  <2>3. proc' \in [Consumers -> ProcStates] /\ session' \in [Consumers -> Nat] /\ generation' \in Nat
    BY <1>9 DEF FormGeneration, ProcStates
  <2>4. /\ pos' \in [Consumers -> [Partitions -> Nat \ {0}]]
        /\ marked' \in [Consumers -> [Partitions -> Nat]]
    <3>1. [p \in Partitions |-> committed[p] + 1] \in [Partitions -> Nat \ {0}]
      OBVIOUS
    <3>. QED BY <1>9, <3>1 DEF FormGeneration
  <2>5. \A c \in S : owns[c] = {} /\ \A p \in Partitions : pc[c][p] = "receive"
    BY <1>9 DEF FormGeneration
  <2>6. \A c \in Consumers : owns'[c] # {} => proc'[c] \in {"session", "ending"}
    BY <1>9, <2>1, <2>5 DEF FormGeneration
  <2>7. \A c \in Consumers : session'[c] <= generation'
    BY <1>9 DEF FormGeneration
  <2>8. \A c \in Consumers, p \in Partitions :
          pc'[c][p] # "receive" => p \in owns'[c] /\ pos'[c][p] <= Len(log'[p])
    BY <1>9, <2>1, <2>5 DEF FormGeneration
  <2>9. faults' \in 0 .. MaxFaults /\ rebalancing' \in BOOLEAN
    <3>1. faults' = faults \/ (faults < MaxFaults /\ faults' = faults + 1)
      BY <1>9 DEF FormGeneration, Fault
    <3>2. rebalancing' \in BOOLEAN
      BY <1>9 DEF FormGeneration
    <3>3. faults \in 0 .. MaxFaults
      OBVIOUS
    <3>4. faults' \in 0 .. MaxFaults
      BY <3>1, <3>3, SinkAssumption
    <3>. QED BY <3>2, <3>4
  <2>. QED BY <1>9, <2>2, <2>3, <2>4, <2>6, <2>7, <2>8, <2>9 DEF FormGeneration, storeVars
<1>10. ASSUME NEW c \in Consumers, Crash(c)
       PROVE  TypeOK'
  <2>1. stored' \subseteq Messages
    <3>1. CASE UNCHANGED stored
      BY <3>1
    <3>2. CASE \E p \in owns[c] : pc[c][p] = "save" /\ MaybeStored(c, p)
      <4>1. PICK p \in owns[c] : pc[c][p] = "save" /\ MaybeStored(c, p)
        BY <3>2
      <4>2. p \in Partitions
        OBVIOUS
      <4>3. /\ log[p] \in Seq(Messages)
            /\ pos[c][p] \in 1 .. Len(log[p])
        BY <4>1, <4>2
      <4>4. log[p][pos[c][p]] \in Messages
        BY <4>3
      <4>. QED BY <4>1, <4>4 DEF MaybeStored
    <3>. QED BY <1>10, <3>1, <3>2 DEF Crash
  <2>2. /\ pc' \in [Consumers -> [Partitions -> ClaimStates]]
        /\ \A d \in Consumers, p \in Partitions :
             pc'[d][p] = IF d = c THEN "receive" ELSE pc[d][p]
    BY <1>10 DEF Crash, ClaimStates
  <2>3. faults' \in 0 .. MaxFaults
    BY <1>10, SinkAssumption DEF Crash, Fault
  <2>. QED BY <1>10, <2>1, <2>2, <2>3 DEF Crash, ProcStates, groupVars
<1>11. ASSUME NEW c \in Consumers, Restart(c)
       PROVE  TypeOK'
  BY <1>11 DEF Restart, ProcStates, groupVars, claimVars, storeVars
<1>12. CASE UNCHANGED vars
  BY <1>12 DEF vars, groupVars, sessionVars, claimVars, storeVars
<1>. QED BY <1>1, <1>2, <1>3, <1>4, <1>6, <1>7, <1>8, <1>9, <1>10, <1>11, <1>12 DEF Next

\* Every reachable state is well typed: in particular nothing is saved or marked
\* outside a session, however sessions, crashes and fencings interleave.
THEOREM TypeCorrect == Spec => []TypeOK
<1>1. Init => TypeOK
  <2>. SUFFICES ASSUME Init PROVE TypeOK
    OBVIOUS
  <2>1. log \in [Partitions -> Seq(Messages)]
    <3>1. << >> \in Seq(Messages)
      OBVIOUS
    <3>. QED BY <3>1 DEF Init
  <2>2. pos \in [Consumers -> [Partitions -> Nat \ {0}]]
    BY DEF Init
  <2>3. faults \in 0 .. MaxFaults
    BY SinkAssumption DEF Init
  <2>4. failed \in [Partitions -> SUBSET Nat] /\ owns \in [Consumers -> SUBSET Partitions]
    BY DEF Init
  <2>5. /\ pc \in [Consumers -> [Partitions -> ClaimStates]]
        /\ \A c \in Consumers, p \in Partitions : pc[c][p] = "receive"
    BY DEF Init, ClaimStates
  <2>6. /\ session \in [Consumers -> Nat] /\ generation \in Nat
        /\ \A c \in Consumers : session[c] <= generation /\ owns[c] = {}
    BY DEF Init
  <2>7. committed \in [Partitions -> Nat] /\ marked \in [Consumers -> [Partitions -> Nat]]
    BY DEF Init
  <2>8. proc \in [Consumers -> ProcStates] /\ rebalancing \in BOOLEAN /\ stored \subseteq Messages
    BY DEF Init, ProcStates
  <2>. QED BY <2>1, <2>2, <2>3, <2>4, <2>5, <2>6, <2>7, <2>8 DEF TypeOK
<1>2. TypeOK /\ [Next]_vars => TypeOK'
  BY TypeStep
<1>. QED BY <1>1, <1>2, PTL DEF Spec

-----------------------------------------------------------------------------
(***************************************************************************)
(* No message is passed over in silence.                                   *)
(***************************************************************************)
\* The log, the store and the record of failures only grow.
LEMMA HistoryGrows ==
  ASSUME TypeOK, [Next]_vars, NEW p \in Partitions
  PROVE  /\ Len(log'[p]) >= Len(log[p])
         /\ \A k \in 1 .. Len(log[p]) : log'[p][k] = log[p][k]
         /\ stored \subseteq stored'
         /\ failed[p] \subseteq failed'[p]
<1>0. log[p] \in Seq(Messages)
  BY DEF TypeOK
<1>1. ASSUME NEW q \in Partitions, NEW m \in Messages, Produce(q, m)
      PROVE  /\ Len(log'[p]) >= Len(log[p])
             /\ \A k \in 1 .. Len(log[p]) : log'[p][k] = log[p][k]
             /\ stored \subseteq stored'
             /\ failed[p] \subseteq failed'[p]
  <2>1. log'[p] = IF p = q THEN Append(log[p], m) ELSE log[p]
    BY <1>1 DEF Produce, TypeOK
  <2>2. stored' = stored /\ failed' = failed
    BY <1>1 DEF Produce, storeVars
  <2>. QED BY <1>0, <2>1, <2>2
<1>2. ASSUME NEW c \in Consumers, NEW q \in Partitions, Claim(c, q)
      PROVE  log' = log /\ stored \subseteq stored' /\ failed[p] \subseteq failed'[p]
  <2>1. CASE Receive(c, q) \/ Mark(c, q)
    BY <2>1 DEF Receive, Mark, storeVars
  <2>2. CASE Save(c, q)
    BY <2>2 DEF Save
  <2>3. CASE SaveDuplicate(c, q) \/ SaveFails(c, q)
    <3>1. failed' = [failed EXCEPT ![q] = failed[q] \union {pos[c][q]}]
      BY <2>3 DEF SaveDuplicate, SaveFails, Skip, TypeOK
    <3>2. failed[p] \subseteq failed'[p]
      BY <3>1 DEF TypeOK
    <3>3. log' = log /\ stored \subseteq stored'
      BY <2>3 DEF SaveDuplicate, SaveFails, MaybeStored
    <3>. QED BY <3>2, <3>3
  <2>. QED BY <1>2, <2>1, <2>2, <2>3 DEF Claim
<1>3. CASE \/ StartRebalance
           \/ \E c \in Consumers : CancelSession(c) \/ AutoCommit(c) \/ EndSession(c)
                                     \/ ConsumeFails(c) \/ Restart(c)
           \/ \E S \in SUBSET Consumers : FormGeneration(S)
           \/ UNCHANGED vars
  <2>1. log' = log /\ UNCHANGED storeVars
    BY <1>3 DEF StartRebalance, CancelSession, AutoCommit, EndSession, ConsumeFails, Restart,
                FormGeneration, vars
  <2>. QED BY <1>0, <2>1 DEF storeVars
<1>4. ASSUME NEW c \in Consumers, Crash(c)
      PROVE  log' = log /\ stored \subseteq stored' /\ failed[p] \subseteq failed'[p]
  BY <1>4 DEF Crash, MaybeStored
<1>. QED BY <1>0, <1>1, <1>2, <1>3, <1>4 DEF Next

\* What is accounted for stays accounted for.
LEMMA AccountedGrows ==
  ASSUME TypeOK, [Next]_vars, NEW p \in Partitions, NEW k \in Nat, Accounted(p, k)
  PROVE  Accounted(p, k)'
<1>1. k \in 1 .. Len(log[p])
  BY DEF Accounted
<1>2. /\ log[p] \in Seq(Messages) /\ log'[p] \in Seq(Messages)
      /\ failed \in [Partitions -> SUBSET Nat]
  BY TypeStep DEF TypeOK
<1>3. k \in 1 .. Len(log'[p]) /\ log'[p][k] = log[p][k]
  BY <1>1, <1>2, HistoryGrows
<1>4. StoredIds \subseteq StoredIds' /\ failed[p] \subseteq failed'[p]
  BY HistoryGrows DEF StoredIds
<1>. QED BY <1>1, <1>3, <1>4 DEF Accounted

\* A claim that does not move, or goes on to anything but a mark, keeps its promise.
LEMMA ClaimStays ==
  ASSUME TypeOK, [Next]_vars, NEW c \in Consumers, NEW p \in Partitions, ClaimInv(c, p),
         pos'[c][p] = pos[c][p], marked'[c][p] = marked[c][p],
         pc'[c][p] = pc[c][p] \/ pc'[c][p] # "mark"
  PROVE  ClaimInv(c, p)'
<1>1. pos[c][p] \in Nat \ {0}
  BY DEF TypeOK
<1>2. ASSUME NEW k \in 1 .. pos'[c][p] - 1 PROVE Accounted(p, k)'
  BY <1>1, <1>2, AccountedGrows DEF ClaimInv
<1>3. pc'[c][p] = "mark" => Accounted(p, pos[c][p])'
  <2>1. PICK n \in Nat : n = pos[c][p]
    BY <1>1
  <2>2. SUFFICES ASSUME pc'[c][p] = "mark" PROVE Accounted(p, n)'
    BY <2>1 DEF Accounted
  <2>3. Accounted(p, n)
    BY <2>1, <2>2 DEF ClaimInv
  <2>. QED BY <2>3, AccountedGrows
<1>. QED BY <1>2, <1>3 DEF ClaimInv

\* A claim that marks or skips an offset it may pass over keeps its promise.
LEMMA ClaimMoves ==
  ASSUME TypeOK, [Next]_vars, NEW c \in Consumers, NEW p \in Partitions, ClaimInv(c, p),
         MarkMessage(c, p) \/ Skip(c, p),
         NEW n \in Nat, n = pos[c][p], Accounted(p, n)'
  PROVE  ClaimInv(c, p)'
<1>1. marked[c][p] \in Nat /\ marked[c][p] < n
  BY DEF TypeOK, ClaimInv
<1>2. pos'[c][p] = n + 1 /\ pc'[c][p] = "receive"
  BY DEF TypeOK, MarkMessage, Skip
<1>3. marked'[c][p] \in {marked[c][p], n}
  <2>1. CASE MarkMessage(c, p)
    <3>1. marked' = [marked EXCEPT ![c][p] = Max({marked[c][p], n})]
      BY <2>1 DEF MarkMessage, TypeOK
    <3>2. Max({marked[c][p], n}) = n
      BY <1>1, MaxOfTwo
    <3>. QED BY <3>1, <3>2 DEF TypeOK
  <2>2. CASE Skip(c, p)
    BY <2>2 DEF Skip
  <2>. QED BY <2>1, <2>2
<1>4. ASSUME NEW k \in 1 .. n PROVE Accounted(p, k)'
  <2>1. CASE k = n
    BY <2>1
  <2>2. CASE k # n
    <3>1. k \in 1 .. pos[c][p] - 1
      BY <2>2
    <3>2. Accounted(p, k)
      BY <3>1 DEF ClaimInv
    <3>. QED BY <3>2, AccountedGrows
  <2>. QED BY <2>1, <2>2
<1>5. marked'[c][p] < pos'[c][p]
  BY <1>1, <1>2, <1>3
<1>6. \A k \in 1 .. pos'[c][p] - 1 : Accounted(p, k)'
  BY <1>2, <1>4
<1>. QED BY <1>2, <1>5, <1>6 DEF ClaimInv

\* The actions of a claim keep its promise.
LEMMA ClaimStep ==
  ASSUME TypeOK, [Next]_vars, NEW c \in Consumers, NEW p \in Partitions, ClaimInv(c, p),
         Claim(c, p)
  PROVE  ClaimInv(c, p)'
<1>1. PICK n \in Nat : n = pos[c][p]
  BY DEF TypeOK
<1>2. n # 0 /\ log[p] \in Seq(Messages)
  BY <1>1 DEF TypeOK
<1>3. CASE Receive(c, p)
  <2>1. CASE log[p][n] \in Undecodable /\ MarkMessage(c, p)
    <3>1. Accounted(p, n)
      BY <1>1, <1>2, <1>3, <2>1 DEF Accounted, Receive
    <3>. QED BY <1>1, <2>1, <3>1, AccountedGrows, ClaimMoves
  <2>2. CASE pc' = [pc EXCEPT ![c][p] = "save"] /\ UNCHANGED <<pos, marked>>
    <3>1. pc'[c][p] = "save"
      BY <2>2 DEF TypeOK
    <3>. QED BY <2>2, <3>1, ClaimStays
  <2>. QED BY <1>1, <1>3, <2>1, <2>2 DEF Receive
<1>4. CASE Save(c, p)
  <2>1. Accounted(p, n)'
    <3>1. n \in 1 .. Len(log'[p]) /\ log'[p][n] \in stored'
      BY <1>1, <1>2, <1>4 DEF Save, TypeOK
    <3>. QED BY <3>1 DEF Accounted, StoredIds
  <2>2. pos' = pos /\ marked' = marked
    BY <1>4 DEF Save
  <2>3. \A k \in 1 .. pos'[c][p] - 1 : Accounted(p, k)'
    BY <1>1, <2>2, AccountedGrows DEF ClaimInv
  <2>4. Accounted(p, pos[c][p])'
    BY <1>1, <2>1, <2>2
  <2>. QED BY <2>2, <2>3, <2>4 DEF ClaimInv
<1>5. CASE SaveDuplicate(c, p) \/ SaveFails(c, p)
  <2>1. Skip(c, p) /\ pc[c][p] = "save" /\ log' = log
    BY <1>5 DEF SaveDuplicate, SaveFails
  <2>2. failed'[p] = failed[p] \union {n}
    BY <1>1, <2>1 DEF Skip, TypeOK
  <2>3. n \in 1 .. Len(log[p])
    BY <1>1, <1>2, <2>1 DEF TypeOK
  <2>4. Accounted(p, n)'
    BY <2>1, <2>2, <2>3 DEF Accounted
  <2>. QED BY <1>1, <2>1, <2>4, ClaimMoves
<1>6. CASE Mark(c, p)
  <2>1. Accounted(p, n)
    BY <1>1, <1>6 DEF Mark, ClaimInv
  <2>. QED BY <1>1, <1>6, <2>1, AccountedGrows, ClaimMoves DEF Mark
<1>. QED BY <1>3, <1>4, <1>5, <1>6 DEF Claim

\* What a session commits has been accounted for.
LEMMA CommitStep ==
  ASSUME TypeOK, SinkInv, [Next]_vars, NEW c \in Consumers,
         Commit(c) \/ UNCHANGED committed
  PROVE  CommittedIsAccounted'
<1>1. SUFFICES ASSUME NEW p \in Partitions, NEW k \in 1 .. committed'[p]
               PROVE  Accounted(p, k)'
  BY DEF CommittedIsAccounted
<1>2. k \in Nat /\ (k <= committed[p] \/ (p \in owns[c] /\ k <= marked[c][p]))
  BY DEF Commit, TypeOK
<1>3. CASE k <= committed[p]
  <2>1. Accounted(p, k)
    BY <1>2, <1>3 DEF SinkInv, CommittedIsAccounted, TypeOK
  <2>. QED BY <1>2, <2>1, AccountedGrows
<1>4. CASE p \in owns[c] /\ k <= marked[c][p]
  <2>1. k \in 1 .. pos[c][p] - 1
    BY <1>4 DEF SinkInv, ClaimInv, TypeOK
  <2>2. Accounted(p, k)
    BY <1>4, <2>1 DEF SinkInv, ClaimInv
  <2>. QED BY <1>2, <2>2, AccountedGrows
<1>. QED BY <1>2, <1>3, <1>4

\* A claim moves nobody else's.
LEMMA ClaimLocal ==
  ASSUME TypeOK, NEW c \in Consumers, NEW p \in Partitions, Claim(c, p),
         NEW d \in Consumers, NEW q \in Partitions, <<d, q>> # <<c, p>>
  PROVE  pos'[d][q] = pos[d][q] /\ marked'[d][q] = marked[d][q] /\ pc'[d][q] = pc[d][q]
<1>0. pc \in [Consumers -> [Partitions -> ClaimStates]]
  BY DEF TypeOK
<1>1. CASE MarkMessage(c, p) \/ Skip(c, p)
  <2>1. pos'[d][q] = pos[d][q] /\ pc' = [pc EXCEPT ![c][p] = "receive"]
    BY <1>1, ClaimMovesType
  <2>2. marked'[d][q] = marked[d][q]
    BY <1>1 DEF MarkMessage, Skip, TypeOK
  <2>3. pc'[d][q] = pc[d][q]
    BY <1>0, <2>1
  <2>. QED BY <2>1, <2>2, <2>3
<1>2. ASSUME NEW s \in {"save", "mark"}, pc' = [pc EXCEPT ![c][p] = s], UNCHANGED <<pos, marked>>
      PROVE  pos'[d][q] = pos[d][q] /\ marked'[d][q] = marked[d][q] /\ pc'[d][q] = pc[d][q]
  <2>1. pc'[d][q] = pc[d][q]
    BY <1>0, <1>2
  <2>. QED BY <1>2, <2>1
<1>. QED BY <1>1, <1>2 DEF Claim, Receive, Save, SaveDuplicate, SaveFails, Mark

\* Every step preserves SinkInv.
LEMMA SinkStep ==
  ASSUME TypeOK, SinkInv, [Next]_vars
  PROVE  SinkInv'
<1>0. \A c \in Consumers : owns[c] \subseteq Partitions
  BY DEF TypeOK
<1>1. CommittedIsAccounted'
  <2>1. CASE UNCHANGED committed
    <3>1. SUFFICES ASSUME NEW p \in Partitions, NEW k \in 1 .. committed'[p]
                   PROVE  Accounted(p, k)'
      BY DEF CommittedIsAccounted
    <3>2. k \in Nat /\ Accounted(p, k)
      BY <2>1, <3>1 DEF SinkInv, CommittedIsAccounted, TypeOK
    <3>. QED BY <3>2, AccountedGrows
  <2>2. CASE \E c \in Consumers : AutoCommit(c) \/ EndSession(c)
    BY <2>2, CommitStep DEF AutoCommit, EndSession
  <2>3. UNCHANGED committed \/ \E c \in Consumers : AutoCommit(c) \/ EndSession(c)
    BY DEF Next, Claim, Produce, Receive, Save, SaveDuplicate, SaveFails, Mark, StartRebalance,
           CancelSession, ConsumeFails, FormGeneration, Crash, Restart, vars, groupVars
  <2>. QED BY <2>1, <2>2, <2>3
<1>2. ASSUME NEW d \in Consumers, NEW q \in Partitions, q \in owns[d], q \in owns'[d],
             pos'[d][q] = pos[d][q], marked'[d][q] = marked[d][q], pc'[d][q] = pc[d][q]
      PROVE  ClaimInv(d, q)'
  BY <1>2, ClaimStays DEF SinkInv
<1>3. ASSUME NEW d \in Consumers, NEW q \in owns'[d]
      PROVE  ClaimInv(d, q)'
  <2>0. q \in Partitions
    BY TypeStep DEF TypeOK
  <2>1. ASSUME NEW c \in Consumers, NEW p \in Partitions, Claim(c, p)
        PROVE  ClaimInv(d, q)'
    <3>1. owns' = owns /\ p \in owns[c]
      BY <2>1 DEF Claim, Receive, Save, SaveDuplicate, SaveFails, Mark, sessionVars
    <3>2. CASE <<d, q>> = <<c, p>>
      <4>1. d = c /\ q = p /\ ClaimInv(c, p)
        BY <3>1, <3>2 DEF SinkInv
      <4>2. ClaimInv(c, p)'
        BY <2>1, <4>1, ClaimStep
      <4>. QED BY <4>1, <4>2
    <3>3. CASE <<d, q>> # <<c, p>>
      <4>1. pos'[d][q] = pos[d][q] /\ marked'[d][q] = marked[d][q] /\ pc'[d][q] = pc[d][q]
        BY <2>0, <2>1, <3>3, ClaimLocal
      <4>2. q \in owns[d]
        BY <3>1
      <4>. QED BY <1>2, <2>0, <4>1, <4>2
    <3>. QED BY <3>2, <3>3
  <2>2. CASE UNCHANGED <<claimVars, owns>>
    BY <1>2, <2>0, <2>2 DEF claimVars
  <2>3. ASSUME NEW c \in Consumers, EndSession(c)
        PROVE  ClaimInv(d, q)'
    <3>1. q \in owns[d] /\ UNCHANGED claimVars
      BY <2>3 DEF EndSession, TypeOK
    <3>. QED BY <1>2, <2>0, <3>1 DEF claimVars
  <2>4. ASSUME NEW c \in Consumers, Crash(c)
        PROVE  ClaimInv(d, q)'
    <3>1. owns' = [owns EXCEPT ![c] = {}]
      BY <2>4 DEF Crash
    <3>2. d # c /\ q \in owns[d]
      BY <3>1 DEF TypeOK
    <3>3. pos' = pos /\ marked' = marked /\ pc'[d][q] = pc[d][q]
      BY <2>4, <3>2 DEF Crash, TypeOK
    <3>. QED BY <1>2, <2>0, <3>2, <3>3
  <2>5. ASSUME NEW S \in SUBSET Consumers, FormGeneration(S)
        PROVE  ClaimInv(d, q)'
    <3>1. CASE d \in S
      <4>1. PICK n \in Nat : n = committed[q]
        BY <2>0 DEF TypeOK
      <4>2. pos'[d][q] = n + 1 /\ marked'[d][q] = n
        BY <2>0, <2>5, <3>1, <4>1 DEF FormGeneration
      <4>3. pc'[d][q] = "receive"
        BY <2>0, <2>5, <3>1 DEF FormGeneration, TypeOK
      <4>4. \A k \in 1 .. n : Accounted(q, k)'
        BY <2>0, <4>1, AccountedGrows DEF SinkInv, CommittedIsAccounted
      <4>. QED BY <4>2, <4>3, <4>4 DEF ClaimInv
    <3>2. CASE d \notin S
      <4>1. owns'[d] = owns[d]
        BY <2>5, <3>2 DEF FormGeneration
      <4>2. pos'[d] = pos[d] /\ marked'[d] = marked[d] /\ pc' = pc
        BY <2>5, <3>2 DEF FormGeneration
      <4>. QED BY <1>2, <2>0, <4>1, <4>2
    <3>. QED BY <3>1, <3>2
  <2>6. CASE \/ \E p \in Partitions, m \in Messages : Produce(p, m)
             \/ StartRebalance
             \/ \E c \in Consumers : CancelSession(c) \/ AutoCommit(c) \/ ConsumeFails(c) \/ Restart(c)
             \/ UNCHANGED vars
    <3>1. UNCHANGED <<claimVars, owns>>
      BY <2>6 DEF Produce, StartRebalance, CancelSession, AutoCommit, ConsumeFails, Restart,
                  vars, sessionVars, claimVars
    <3>. QED BY <2>2, <3>1
  <2>. QED BY <2>1, <2>3, <2>4, <2>5, <2>6 DEF Next
<1>. QED BY <1>1, <1>3 DEF SinkInv

\* Nothing is committed, nor can be by a session or by a zombie, that has not been
\* accounted for.
THEOREM SinkCorrect == Spec => []SinkInv
<1>1. Init => SinkInv
  BY DEF Init, SinkInv, CommittedIsAccounted
<1>2. TypeOK /\ SinkInv /\ [Next]_vars => SinkInv'
  BY SinkStep
<1>. QED BY <1>1, <1>2, TypeCorrect, PTL DEF Spec

\* A committed message does not decode, or its event is stored, or a Save of it has failed.
THEOREM NoSilentLoss == Spec => []CommittedIsAccounted
<1>1. SinkInv => CommittedIsAccounted
  BY DEF SinkInv
<1>. QED BY <1>1, SinkCorrect, PTL
=============================================================================
