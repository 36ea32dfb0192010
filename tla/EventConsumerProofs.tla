------------------------ MODULE EventConsumerProofs ------------------------
(***************************************************************************)
(* The safety properties of EventConsumer for any number of workers,       *)
(* entries, payloads and faults, any batch size, semaphore and retry cap,  *)
(* and any MAXLEN.  IInv is inductive; each of its conjuncts has a lemma   *)
(* that says a step preserves it, with one case per action.  The lemmas    *)
(* about the commands of EventQueue come first.                            *)
(***************************************************************************)
EXTENDS EventConsumer, FiniteSetTheorems, TLAPS

-----------------------------------------------------------------------------
(* The commands of EventQueue: what each does to the type of the queue and *)
(* to the pending list.                                                    *)

\* The initial queue is well typed (ensure_group on a fresh stream).
LEMMA QueueInitType == QueueInit => QueueTypeOK
BY QueueAssumption DEF QueueInit, QueueTypeOK, Id

\* XADD and its trim keep the queue well typed.
LEMMA PublishType ==
  ASSUME QueueTypeOK, NEW p \in Payload, Publish(p)
  PROVE  QueueTypeOK'
<1>1. log' \in Seq(Payload) /\ Len(log') = Len(log) + 1
  BY DEF QueueTypeOK, Publish
<1>2. trimmed' \in 0..Len(log')
  BY <1>1, QueueAssumption DEF QueueTypeOK, Publish
<1>3. cursor' \in 0..Len(log') /\ Len(log') <= MaxEntries
  BY <1>1, QueueAssumption DEF QueueTypeOK, Publish
<1> QED
  BY <1>1, <1>2, <1>3 DEF QueueTypeOK, Publish

\* XREADGROUP keeps the queue well typed.
LEMMA XReadGroupType ==
  ASSUME QueueTypeOK, NEW w \in Worker, XReadGroup(w)
  PROVE  QueueTypeOK'
<1>1. cursor' \in 0..Len(log)
  BY QueueAssumption
  DEF QueueTypeOK, XReadGroup, FirstUnread, NextBatch, Min2, Max2
<1>2. deliveries' \in [Id -> 0..MaxDeliveries + 1] /\ idle' \in [Id -> 0..ReclaimIdle]
  BY QueueAssumption DEF QueueTypeOK, XReadGroup
<1>3. owner' \in [Id -> Worker \cup {NoWorker}]
  BY DEF QueueTypeOK, XReadGroup
<1> QED
  BY <1>1, <1>2, <1>3 DEF QueueTypeOK, XReadGroup

\* XAUTOCLAIM keeps the queue well typed.
LEMMA XAutoClaimType ==
  ASSUME QueueTypeOK, NEW w \in Worker, XAutoClaim(w)
  PROVE  QueueTypeOK'
<1>1. deliveries' \in [Id -> 0..MaxDeliveries + 1]
  BY QueueAssumption DEF QueueTypeOK, XAutoClaim, Min2
<1>2. idle' \in [Id -> 0..ReclaimIdle]
  BY QueueAssumption DEF QueueTypeOK, XAutoClaim
<1>3. owner' \in [Id -> Worker \cup {NoWorker}]
  BY DEF QueueTypeOK, XAutoClaim
<1> QED
  BY <1>1, <1>2, <1>3 DEF QueueTypeOK, XAutoClaim

\* XACK keeps the queue well typed.
LEMMA XAckType ==
  ASSUME QueueTypeOK, NEW S, XAck(S)
  PROVE  QueueTypeOK'
BY QueueAssumption DEF QueueTypeOK, XAck, Free

\* The dead-letter transaction keeps the queue well typed.
LEMMA DeadLetterType ==
  ASSUME QueueTypeOK, NEW m \in Id, NEW r \in Reason, DeadLetter(m, r)
  PROVE  QueueTypeOK'
<1>1. owner' \in [Id -> Worker \cup {NoWorker}] /\ idle' \in [Id -> 0..ReclaimIdle]
  BY QueueAssumption DEF QueueTypeOK, DeadLetter, Free
<1>2. dlq' \in SUBSET [id : Id, reason : Reason]
  BY DEF QueueTypeOK, DeadLetter
<1> QED
  BY <1>1, <1>2 DEF QueueTypeOK, DeadLetter

\* The passing of time keeps the queue well typed.
LEMMA TickType ==
  ASSUME QueueTypeOK, Tick
  PROVE  QueueTypeOK'
<1>1. idle' \in [Id -> 0..ReclaimIdle]
  BY QueueAssumption DEF QueueTypeOK, Tick, Min2
<1> QED
  BY <1>1 DEF QueueTypeOK, Tick

-----------------------------------------------------------------------------
\* XREADGROUP moves the cursor over the entries it hands out, over trimmed
\* ones, and over no other.
LEMMA XReadGroupEffect ==
  ASSUME QueueTypeOK, NEW w \in Worker, XReadGroup(w)
  PROVE  /\ cursor <= cursor' /\ cursor' <= Len(log)
         /\ \A m \in NextBatch : cursor < m /\ m <= cursor'
         /\ \A m \in Id : cursor < m /\ m <= cursor' => m <= trimmed \/ m \in NextBatch
         /\ \A m \in NextBatch \cap Id : owner'[m] = w /\ deliveries'[m] = 1
         /\ \A m \in Id \ NextBatch : owner'[m] = owner[m] /\ deliveries'[m] = deliveries[m]
<1>1. NextBatch # {} /\ cursor' = Min2(FirstUnread + BatchSize - 1, Len(log))
  BY DEF XReadGroup
<1>2. cursor \in Nat /\ trimmed \in Nat /\ Len(log) \in Nat /\ cursor <= Len(log)
  BY DEF QueueTypeOK
<1>3. PICK k : k \in NextBatch
  BY <1>1
<1>4. cursor <= cursor' /\ cursor' <= Len(log)
  BY <1>1, <1>2, <1>3, QueueAssumption DEF NextBatch, FirstUnread, Min2, Max2
<1>5. \A m \in NextBatch : cursor < m /\ m <= cursor'
  BY <1>1, <1>2, QueueAssumption DEF NextBatch, FirstUnread, Min2, Max2
<1>6. \A m \in Id : cursor < m /\ m <= cursor' => m <= trimmed \/ m \in NextBatch
  BY <1>1, <1>2, QueueAssumption DEF NextBatch, FirstUnread, Min2, Max2, Id
<1> QED
  BY <1>4, <1>5, <1>6 DEF XReadGroup

\* XAUTOCLAIM takes entries off the pending list only when they are trimmed,
\* puts none on it, and never lowers a delivery count.
LEMMA XAutoClaimEffect ==
  ASSUME QueueTypeOK, NEW w \in Worker, XAutoClaim(w)
  PROVE  /\ Pending' \subseteq Pending
         /\ \A m \in Pending : m > trimmed => m \in Pending'
         /\ Claimed \subseteq Pending
         /\ \A m \in Id : deliveries[m] <= deliveries'[m]
<1>1. Candidates \subseteq Pending
  BY DEF Candidates, Scanned, Lowest
<1>2. Claimed \subseteq Pending /\ Pending \subseteq Id
  BY <1>1 DEF Claimed, Pending
<1>3. Pending' \subseteq Pending
  BY <1>2 DEF XAutoClaim, Pending
<1>4. \A m \in Pending : m > trimmed => m \in Pending'
  <2> SUFFICES ASSUME NEW m \in Pending, m > trimmed PROVE m \in Pending'
    OBVIOUS
  <2>1. m \in Id /\ m \in Int /\ trimmed \in Int
    BY DEF Pending, Id, QueueTypeOK
  <2>2. m \notin Deleted
    BY <2>1 DEF Deleted
  <2>3. owner'[m] = w \/ owner'[m] = owner[m]
    BY <2>1, <2>2 DEF XAutoClaim
  <2> QED
    BY <2>1, <2>3, QueueAssumption DEF Pending
<1>5. \A m \in Id : deliveries[m] <= deliveries'[m]
  BY QueueAssumption DEF XAutoClaim, Min2, QueueTypeOK
<1> QED
  BY <1>2, <1>3, <1>4, <1>5

\* The dead-letter transaction releases the one entry it parks.
LEMMA DeadLetterEffect ==
  ASSUME NEW m \in Id, NEW r, DeadLetter(m, r)
  PROVE  /\ Parked(m)'
         /\ \A k \in Id : k # m => owner'[k] = owner[k]
<1>1. [id |-> m, reason |-> r] \in dlq' /\ [id |-> m, reason |-> r].id = m
  BY DEF DeadLetter
<1>2. Parked(m)'
  BY <1>1 DEF Parked
<1> QED
  BY <1>2 DEF DeadLetter, Free

\* The delivery count a worker learns of an entry that has been delivered is
\* never too high (it may be too low: an id the reply lacks counts as 1).
LEMMA ReportedCountIsLow ==
  ASSUME QueueTypeOK, NEW w \in Worker, NEW C, NEW m \in Id, deliveries[m] >= 1
  PROVE  ReportedCount(w, C, m) <= deliveries[m]
BY QueueAssumption DEF ReportedCount, QueueTypeOK

\* A stream that may hold as many entries as are ever added is never cut.
LEMMA NoTrimStep ==
  ASSUME QueueTypeOK, MaxLen >= MaxEntries, trimmed = 0, NEW p \in Payload, Publish(p)
  PROVE  trimmed' = 0
BY QueueAssumption DEF QueueTypeOK, Publish

-----------------------------------------------------------------------------
(* Type correctness.                                                       *)

\* The worker's part of TypeOK.
WorkerTypeOK ==
  /\ rows \in [EventId -> Payload \cup {NoRow}]
  /\ credited \in [EventId -> Nat]
  /\ stage \in [Slot -> [Id -> Stage]]
  /\ tries \in [Slot -> [Id -> 0..MaxAttempts]]
  /\ running \in [Worker -> SUBSET Loop]
  /\ stopping \in SUBSET Worker
  /\ faults \in 0..MaxFaults

\* TypeOK is the queue's part and the worker's part.
LEMMA TypeParts == TypeOK <=> QueueTypeOK /\ WorkerTypeOK
BY DEF TypeOK, WorkerTypeOK

\* A slot is a worker and one of its loops.
LEMMA SlotParts ==
  ASSUME NEW s \in Slot PROVE s[1] \in Worker /\ s[2] \in Loop
BY DEF Slot

\* Moving entries of a slot to a stage keeps the table of stages well typed.
LEMMA MoveType ==
  ASSUME WorkerTypeOK, NEW s \in Slot, NEW S, NEW st \in Stage, Move(s, S, st)
  PROVE  stage' \in [Slot -> [Id -> Stage]]
BY DEF WorkerTypeOK, Move

\* Nothing else moves.
LEMMA MoveEffect ==
  ASSUME WorkerTypeOK, NEW s \in Slot, NEW S, NEW st, Move(s, S, st),
         NEW t \in Slot, NEW k \in Id
  PROVE  stage'[t][k] = IF t = s /\ k \in S THEN st ELSE stage[t][k]
<1>1. CASE t = s
  BY <1>1 DEF WorkerTypeOK, Move
<1>2. CASE t # s
  BY <1>2 DEF WorkerTypeOK, Move
<1> QED
  BY <1>1, <1>2

\* Giving a message up keeps the types.
LEMMA SettleType ==
  ASSUME WorkerTypeOK, NEW s \in Slot, NEW m \in Id, Settle(s, m)
      PROVE  stage' \in [Slot -> [Id -> Stage]] /\ tries' \in [Slot -> [Id -> 0..MaxAttempts]]
<1>1. stage' \in [Slot -> [Id -> Stage]]
  BY MoveType DEF Settle, Stage
<1>2. tries' \in [Slot -> [Id -> 0..MaxAttempts]]
  BY ConsumerAssumption DEF WorkerTypeOK, Settle
<1> QED
  BY <1>1, <1>2

\* Another attempt is only begun below the cap.
LEMMA TransientFailureType ==
  ASSUME WorkerTypeOK, NEW s \in Slot, NEW m \in Id, TransientFailure(s, m)
      PROVE  stage' \in [Slot -> [Id -> Stage]] /\ tries' \in [Slot -> [Id -> 0..MaxAttempts]]
<1>1. CASE Exhausted(tries[s][m])
  BY <1>1, SettleType DEF TransientFailure
<1>2. CASE ~Exhausted(tries[s][m])
  <2>1. stage' = stage /\ tries' = [tries EXCEPT ![s][m] = @ + 1]
    BY <1>2 DEF TransientFailure
  <2>2. tries[s][m] \in 0..MaxAttempts /\ tries[s][m] # MaxAttempts
    BY <1>2 DEF WorkerTypeOK, Exhausted
  <2>3. tries[s][m] + 1 \in 0..MaxAttempts
    BY <2>2, ConsumerAssumption
  <2> QED
    BY <2>1, <2>3 DEF WorkerTypeOK
<1> QED
  BY <1>1, <1>2

\* A loop that goes on or returns leaves a set of loops.
LEMMA NextIterationType ==
  ASSUME WorkerTypeOK, NEW s \in Slot, NextIteration(s)
  PROVE  running' \in [Worker -> SUBSET Loop]
BY SlotParts DEF WorkerTypeOK, NextIteration

\* The fault budget is never exceeded.
LEMMA FaultType ==
  ASSUME WorkerTypeOK, Fault \/ NoFault
  PROVE  faults' \in 0..MaxFaults
BY ConsumerAssumption DEF WorkerTypeOK, Fault, NoFault

\* What is inserted is a payload of the stream.
LEMMA InsertType ==
  ASSUME QueueTypeOK, WorkerTypeOK, NEW m \in 1..Len(log), InsertIfAbsent(m)
  PROVE  rows' \in [EventId -> Payload \cup {NoRow}]
BY ConsumerAssumption DEF QueueTypeOK, WorkerTypeOK, InsertIfAbsent, EventOf

\* The initial state has its types.
LEMMA InitType == Init => TypeOK
<1> SUFFICES ASSUME Init PROVE TypeOK
  OBVIOUS
<1>1. QueueTypeOK
  BY QueueInitType DEF Init
<1>2. WorkerTypeOK
  BY ConsumerAssumption DEF Init, WorkerTypeOK, Stage
<1> QED
  BY <1>1, <1>2, TypeParts

\* What a worker holds has been delivered, so it is an entry of the stream.
LEMMA HeldIsDelivered ==
  ASSUME TypeOK, Delivered, NEW s \in Slot, NEW m \in Id, stage[s][m] # "none"
  PROVE  m \in 1..Len(log) /\ m <= cursor /\ deliveries[m] >= 1
<1>1. m <= cursor /\ deliveries[m] >= 1
  BY DEF Delivered
<1> QED
  BY <1>1, QueueAssumption DEF TypeOK, QueueTypeOK, Id

-----------------------------------------------------------------------------
(* What a step does to the queue, and to the table.                        *)

QueueMove ==
  \/ UNCHANGED queueVars
  \/ \E p \in Payload : Publish(p)
  \/ Tick
  \/ \E w \in Worker : XReadGroup(w) \/ XAutoClaim(w)
  \/ \E s \in Slot : XAck(At(s, "done"))
  \/ \E s \in Slot, m \in Id : stage[s][m] = "dying" /\ DeadLetter(m, "permanent")
  \/ \E s \in Slot, m \in Id : stage[s][m] = "excess" /\ DeadLetter(m, "exceeded")

TableMove ==
  \/ UnchangedStore
  \/ \E s \in Slot, m \in Id :
       /\ stage[s][m] = "running" /\ Storable(m)
       /\ InsertIfAbsent(m) /\ UNCHANGED queueVars
       /\ \/ credited' = credited
          \/ credited' = [credited EXCEPT ![EventOf(m)] =
                            IF RowCountIsOne(m) THEN @ + 1 ELSE @]

\* Every step is at most one command to Redis.
LEMMA QueueStep ==
  ASSUME [Next]_vars
  PROVE  QueueMove
<1>1. CASE Producer
  BY <1>1 DEF Producer, QueueMove
<1>2. CASE TimePasses
  BY <1>2 DEF TimePasses, QueueMove
<1>3. ASSUME NEW s \in Slot, LeaveLoop(s) PROVE QueueMove
  BY <1>3 DEF LeaveLoop, QueueMove
<1>4. ASSUME NEW s \in Slot, Read(s) PROVE QueueMove
  BY <1>4, SlotParts DEF Read, QueueMove
<1>5. ASSUME NEW s \in Slot, ReadLost(s) PROVE QueueMove
  BY <1>5, SlotParts DEF ReadLost, QueueMove
<1>6. ASSUME NEW s \in Slot, ReadNothing(s) PROVE QueueMove
  BY <1>6 DEF ReadNothing, vars, QueueMove
<1>7. ASSUME NEW s \in Slot, Claim(s) PROVE QueueMove
  BY <1>7, SlotParts DEF Claim, QueueMove
<1>8. ASSUME NEW s \in Slot, ClaimLost(s) PROVE QueueMove
  BY <1>8, SlotParts DEF ClaimLost, QueueMove
<1>9. ASSUME NEW s \in Slot, Triage(s) PROVE QueueMove
  BY <1>9 DEF Triage, QueueMove
<1>10. ASSUME NEW s \in Slot, TriageFails(s) PROVE QueueMove
  BY <1>10 DEF TriageFails, QueueMove
<1>11. ASSUME NEW s \in Slot, NEW m \in Id, BuryExcess(s, m) PROVE QueueMove
  BY <1>11 DEF BuryExcess, At, QueueMove
<1>12. ASSUME NEW s \in Slot, NEW m \in Id, Start(s, m) PROVE QueueMove
  BY <1>12 DEF Start, QueueMove
<1>13. ASSUME NEW s \in Slot, NEW m \in Id, Bury(s, m) PROVE QueueMove
  BY <1>13 DEF Bury, QueueMove
<1>14. ASSUME NEW s \in Slot, NEW m \in Id, AttemptStores(s, m) PROVE QueueMove
  BY <1>14 DEF AttemptStores, QueueMove
<1>15. ASSUME NEW s \in Slot, NEW m \in Id, AttemptStoresUnheard(s, m)
       PROVE  QueueMove
  BY <1>15 DEF AttemptStoresUnheard, QueueMove
<1>16. ASSUME NEW s \in Slot, NEW m \in Id, AttemptFails(s, m) PROVE QueueMove
  BY <1>16 DEF AttemptFails, QueueMove
<1>17. ASSUME NEW s \in Slot, NEW m \in Id, AttemptIsHopeless(s, m)
       PROVE  QueueMove
  BY <1>17 DEF AttemptIsHopeless, QueueMove
<1>18. ASSUME NEW s \in Slot, NEW m \in Id, AttemptBreaks(s, m) PROVE QueueMove
  BY <1>18 DEF AttemptBreaks, QueueMove
<1>19. ASSUME NEW s \in Slot, Finish(s) PROVE QueueMove
  BY <1>19 DEF Finish, ToAck, QueueMove
<1>20. ASSUME NEW w \in Worker, Crash(w) PROVE QueueMove
  BY <1>20 DEF Crash, QueueMove
<1>21. ASSUME NEW w \in Worker, RequestStop(w) PROVE QueueMove
  BY <1>21 DEF RequestStop, QueueMove
<1>22. ASSUME NEW w \in Worker, Boot(w) PROVE QueueMove
  BY <1>22 DEF Boot, QueueMove
<1>23. CASE UNCHANGED vars
  BY <1>23 DEF vars, QueueMove
<1> QED
  BY <1>1, <1>2, <1>3, <1>4, <1>5, <1>6, <1>7, <1>8, <1>9, <1>10, <1>11,
     <1>12, <1>13, <1>14, <1>15, <1>16, <1>17, <1>18, <1>19, <1>20, <1>21,
     <1>22, <1>23 DEF Next, SlotStep, MessageStep

\* The table is written by a running attempt and by nothing else.
LEMMA TableStep ==
  ASSUME [Next]_vars
  PROVE  TableMove
<1>1. CASE Producer
  BY <1>1 DEF Producer, TableMove
<1>2. CASE TimePasses
  BY <1>2 DEF TimePasses, TableMove
<1>3. ASSUME NEW s \in Slot, LeaveLoop(s) PROVE TableMove
  BY <1>3 DEF LeaveLoop, TableMove
<1>4. ASSUME NEW s \in Slot, Read(s) PROVE TableMove
  BY <1>4 DEF Read, TableMove
<1>5. ASSUME NEW s \in Slot, ReadLost(s) PROVE TableMove
  BY <1>5 DEF ReadLost, TableMove
<1>6. ASSUME NEW s \in Slot, ReadNothing(s) PROVE TableMove
  BY <1>6 DEF ReadNothing, vars, UnchangedStore, TableMove
<1>7. ASSUME NEW s \in Slot, Claim(s) PROVE TableMove
  BY <1>7 DEF Claim, TableMove
<1>8. ASSUME NEW s \in Slot, ClaimLost(s) PROVE TableMove
  BY <1>8 DEF ClaimLost, TableMove
<1>9. ASSUME NEW s \in Slot, Triage(s) PROVE TableMove
  BY <1>9 DEF Triage, TableMove
<1>10. ASSUME NEW s \in Slot, TriageFails(s) PROVE TableMove
  BY <1>10 DEF TriageFails, TableMove
<1>11. ASSUME NEW s \in Slot, NEW m \in Id, BuryExcess(s, m) PROVE TableMove
  BY <1>11 DEF BuryExcess, TableMove
<1>12. ASSUME NEW s \in Slot, NEW m \in Id, Start(s, m) PROVE TableMove
  BY <1>12 DEF Start, TableMove
<1>13. ASSUME NEW s \in Slot, NEW m \in Id, Bury(s, m) PROVE TableMove
  BY <1>13 DEF Bury, TableMove
<1>14. ASSUME NEW s \in Slot, NEW m \in Id, AttemptStores(s, m) PROVE TableMove
  BY <1>14 DEF AttemptStores, TableMove
<1>15. ASSUME NEW s \in Slot, NEW m \in Id, AttemptStoresUnheard(s, m)
       PROVE  TableMove
  BY <1>15 DEF AttemptStoresUnheard, TableMove
<1>16. ASSUME NEW s \in Slot, NEW m \in Id, AttemptFails(s, m) PROVE TableMove
  BY <1>16 DEF AttemptFails, TableMove
<1>17. ASSUME NEW s \in Slot, NEW m \in Id, AttemptIsHopeless(s, m)
       PROVE  TableMove
  BY <1>17 DEF AttemptIsHopeless, TableMove
<1>18. ASSUME NEW s \in Slot, NEW m \in Id, AttemptBreaks(s, m) PROVE TableMove
  BY <1>18 DEF AttemptBreaks, TableMove
<1>19. ASSUME NEW s \in Slot, Finish(s) PROVE TableMove
  BY <1>19 DEF Finish, TableMove
<1>20. ASSUME NEW w \in Worker, Crash(w) PROVE TableMove
  BY <1>20 DEF Crash, TableMove
<1>21. ASSUME NEW w \in Worker, RequestStop(w) PROVE TableMove
  BY <1>21 DEF RequestStop, TableMove
<1>22. ASSUME NEW w \in Worker, Boot(w) PROVE TableMove
  BY <1>22 DEF Boot, TableMove
<1>23. CASE UNCHANGED vars
  BY <1>23 DEF vars, UnchangedStore, TableMove
<1> QED
  BY <1>1, <1>2, <1>3, <1>4, <1>5, <1>6, <1>7, <1>8, <1>9, <1>10, <1>11,
     <1>12, <1>13, <1>14, <1>15, <1>16, <1>17, <1>18, <1>19, <1>20, <1>21,
     <1>22, <1>23 DEF Next, SlotStep, MessageStep

\* Every step keeps the queue well typed.
LEMMA QueueStepType ==
  ASSUME QueueTypeOK, [Next]_vars
  PROVE  QueueTypeOK'
<1>1. CASE UNCHANGED queueVars
  BY <1>1 DEF queueVars, QueueTypeOK
<1>2. ASSUME NEW p \in Payload, Publish(p) PROVE QueueTypeOK'
  BY <1>2, PublishType
<1>3. CASE Tick
  BY <1>3, TickType
<1>4. ASSUME NEW w \in Worker, XReadGroup(w) PROVE QueueTypeOK'
  BY <1>4, XReadGroupType
<1>5. ASSUME NEW w \in Worker, XAutoClaim(w) PROVE QueueTypeOK'
  BY <1>5, XAutoClaimType
<1>6. ASSUME NEW s \in Slot, XAck(At(s, "done")) PROVE QueueTypeOK'
  BY <1>6, XAckType
<1>7. ASSUME NEW s \in Slot, NEW m \in Id, stage[s][m] = "dying",
             DeadLetter(m, "permanent")
      PROVE  QueueTypeOK'
  BY <1>7, DeadLetterType DEF Reason
<1>8. ASSUME NEW s \in Slot, NEW m \in Id, stage[s][m] = "excess",
             DeadLetter(m, "exceeded")
      PROVE  QueueTypeOK'
  BY <1>8, DeadLetterType DEF Reason
<1> QED
  BY QueueStep, <1>1, <1>2, <1>3, <1>4, <1>5, <1>6, <1>7, <1>8 DEF QueueMove

\* Every step keeps the rows and the workers well typed.  An entry beyond the
\* end of the log has no payload, so this needs Delivered.
LEMMA WorkerStepType ==
  ASSUME TypeOK, Delivered, [Next]_vars
  PROVE  WorkerTypeOK'
<1> USE TypeParts
<1>1. CASE Producer
  BY <1>1, FaultType DEF Producer, WorkerTypeOK, UnchangedStore, workerVars
<1>2. CASE TimePasses
  BY <1>2, FaultType DEF TimePasses, WorkerTypeOK, UnchangedStore, workerVars
<1>3. ASSUME NEW s \in Slot, LeaveLoop(s) PROVE WorkerTypeOK'
  BY <1>3, FaultType, NextIterationType
  DEF LeaveLoop, WorkerTypeOK, UnchangedStore, workerVars
<1>4. ASSUME NEW s \in Slot, Read(s) PROVE WorkerTypeOK'
  BY <1>4, FaultType, MoveType
  DEF Read, WorkerTypeOK, UnchangedStore, workerVars, Stage
<1>5. ASSUME NEW s \in Slot, ReadLost(s) PROVE WorkerTypeOK'
  BY <1>5, FaultType, NextIterationType
  DEF ReadLost, WorkerTypeOK, UnchangedStore, workerVars
<1>6. ASSUME NEW s \in Slot, ReadNothing(s) PROVE WorkerTypeOK'
  BY <1>6 DEF ReadNothing, vars, workerVars, WorkerTypeOK
<1>7. ASSUME NEW s \in Slot, Claim(s) PROVE WorkerTypeOK'
  BY <1>7, FaultType, MoveType, NextIterationType
  DEF Claim, WorkerTypeOK, UnchangedStore, workerVars, Stage
<1>8. ASSUME NEW s \in Slot, ClaimLost(s) PROVE WorkerTypeOK'
  BY <1>8, FaultType, NextIterationType
  DEF ClaimLost, WorkerTypeOK, UnchangedStore, workerVars
<1>9. ASSUME NEW s \in Slot, Triage(s) PROVE WorkerTypeOK'
  <2>1. stage' \in [Slot -> [Id -> Stage]]
    BY <1>9 DEF Triage, WorkerTypeOK, Stage
  <2> QED
    BY <1>9, <2>1, FaultType DEF Triage, WorkerTypeOK, UnchangedStore
<1>10. ASSUME NEW s \in Slot, TriageFails(s) PROVE WorkerTypeOK'
  BY <1>10, FaultType, MoveType, NextIterationType
  DEF TriageFails, WorkerTypeOK, UnchangedStore, workerVars, Stage
<1>11. ASSUME NEW s \in Slot, NEW m \in Id, BuryExcess(s, m)
       PROVE  WorkerTypeOK'
  BY <1>11, FaultType, SettleType
  DEF BuryExcess, WorkerTypeOK, UnchangedStore, workerVars
<1>12. ASSUME NEW s \in Slot, NEW m \in Id, Start(s, m) PROVE WorkerTypeOK'
  <2>1. stage' \in [Slot -> [Id -> Stage]]
    BY <1>12, MoveType DEF Start, Stage
  <2>2. tries' = tries \/ tries' = [tries EXCEPT ![s][m] = 1]
    BY <1>12 DEF Start
  <2>3. 1 \in 0..MaxAttempts /\ tries \in [Slot -> [Id -> 0..MaxAttempts]]
    BY ConsumerAssumption DEF WorkerTypeOK
  <2>4. tries' \in [Slot -> [Id -> 0..MaxAttempts]]
    BY <2>2, <2>3
  <2> QED
    BY <1>12, <2>1, <2>4, FaultType DEF Start, WorkerTypeOK, UnchangedStore
<1>13. ASSUME NEW s \in Slot, NEW m \in Id, Bury(s, m) PROVE WorkerTypeOK'
  BY <1>13, FaultType, SettleType
  DEF Bury, WorkerTypeOK, UnchangedStore, workerVars
<1>14. ASSUME NEW s \in Slot, NEW m \in Id, AttemptStores(s, m)
       PROVE  WorkerTypeOK'
  <2>1. m \in 1..Len(log)
    BY <1>14, HeldIsDelivered DEF AttemptStores, Stage
  <2>2. rows' \in [EventId -> Payload \cup {NoRow}]
    BY <1>14, <2>1, InsertType DEF AttemptStores
  <2>3. credited' \in [EventId -> Nat]
    <3>1. credited \in [EventId -> Nat]
      BY DEF WorkerTypeOK
    <3>2. CASE RowCountIsOne(m)
      <4>1. credited' = [credited EXCEPT ![EventOf(m)] = credited[EventOf(m)] + 1]
        BY <1>14, <3>2 DEF AttemptStores
      <4>2. \A e \in EventId : credited[e] + 1 \in Nat
        BY <3>1
      <4> QED
        BY <4>1, <4>2, <3>1
    <3>3. CASE ~RowCountIsOne(m)
      BY <1>14, <3>1, <3>3 DEF AttemptStores
    <3> QED
      BY <3>2, <3>3
  <2>4. stage' \in [Slot -> [Id -> Stage]]
    BY <1>14, MoveType DEF AttemptStores, Stage
  <2>5. tries' \in [Slot -> [Id -> 0..MaxAttempts]]
    BY <1>14, ConsumerAssumption DEF AttemptStores, WorkerTypeOK
  <2> QED
    BY <1>14, <2>2, <2>3, <2>4, <2>5, FaultType DEF AttemptStores, WorkerTypeOK
<1>15. ASSUME NEW s \in Slot, NEW m \in Id, AttemptStoresUnheard(s, m)
       PROVE  WorkerTypeOK'
  <2>1. m \in 1..Len(log)
    BY <1>15, HeldIsDelivered DEF AttemptStoresUnheard, Stage
  <2>2. rows' \in [EventId -> Payload \cup {NoRow}]
    BY <1>15, <2>1, InsertType DEF AttemptStoresUnheard
  <2> QED
    BY <1>15, <2>2, FaultType, TransientFailureType
    DEF AttemptStoresUnheard, WorkerTypeOK
<1>16. ASSUME NEW s \in Slot, NEW m \in Id, AttemptFails(s, m)
       PROVE  WorkerTypeOK'
  <2>1. faults' \in 0..MaxFaults
    BY <1>16, FaultType DEF AttemptFails
  <2> QED
    BY <1>16, <2>1, TransientFailureType
    DEF AttemptFails, WorkerTypeOK, UnchangedStore
<1>17. ASSUME NEW s \in Slot, NEW m \in Id, AttemptIsHopeless(s, m)
       PROVE  WorkerTypeOK'
  <2>1. stage' \in [Slot -> [Id -> Stage]]
    BY <1>17, MoveType DEF AttemptIsHopeless, Stage
  <2>2. tries' \in [Slot -> [Id -> 0..MaxAttempts]]
    BY <1>17, ConsumerAssumption DEF AttemptIsHopeless, WorkerTypeOK
  <2> QED
    BY <1>17, <2>1, <2>2, FaultType
    DEF AttemptIsHopeless, WorkerTypeOK, UnchangedStore
<1>18. ASSUME NEW s \in Slot, NEW m \in Id, AttemptBreaks(s, m)
       PROVE  WorkerTypeOK'
  BY <1>18, FaultType, SettleType
  DEF AttemptBreaks, WorkerTypeOK, UnchangedStore, workerVars
<1>19. ASSUME NEW s \in Slot, Finish(s) PROVE WorkerTypeOK'
  BY <1>19, FaultType, MoveType, NextIterationType
  DEF Finish, WorkerTypeOK, UnchangedStore, workerVars, Stage
<1>20. ASSUME NEW w \in Worker, Crash(w) PROVE WorkerTypeOK'
  <2>1. stage' \in [Slot -> [Id -> Stage]] /\ tries' \in [Slot -> [Id -> 0..MaxAttempts]]
    BY <1>20, ConsumerAssumption DEF Crash, Forget, WorkerTypeOK, Stage
  <2> QED
    BY <1>20, <2>1, FaultType DEF Crash, WorkerTypeOK, UnchangedStore
<1>21. ASSUME NEW w \in Worker, RequestStop(w) PROVE WorkerTypeOK'
  BY <1>21, FaultType DEF RequestStop, WorkerTypeOK, UnchangedStore, workerVars
<1>22. ASSUME NEW w \in Worker, Boot(w) PROVE WorkerTypeOK'
  BY <1>22, FaultType DEF Boot, WorkerTypeOK, UnchangedStore, workerVars, Loop
<1>23. CASE UNCHANGED vars
  BY <1>23 DEF vars, workerVars, WorkerTypeOK
<1> QED
  BY <1>1, <1>2, <1>3, <1>4, <1>5, <1>6, <1>7, <1>8, <1>9, <1>10, <1>11,
     <1>12, <1>13, <1>14, <1>15, <1>16, <1>17, <1>18, <1>19, <1>20, <1>21,
     <1>22, <1>23 DEF Next, SlotStep, MessageStep

-----------------------------------------------------------------------------
(* What no step ever takes back.                                           *)

LogExtends ==
  log' = log \/ \E p \in Payload : log' = Append(log, p) /\ cursor' = cursor
RowsKept == \A e \in EventId : rows[e] # NoRow => rows'[e] = rows[e]
Forward == cursor <= cursor' /\ trimmed <= trimmed' /\ dlq \subseteq dlq'
CountsKept == \A m \in Id : m <= cursor => deliveries[m] <= deliveries'[m]

\* Entries are only ever appended, and not delivered in the same step.
LEMMA LogStep ==
  ASSUME TypeOK, [Next]_vars
  PROVE  LogExtends
<1>1. CASE UNCHANGED queueVars
  BY <1>1 DEF queueVars, LogExtends
<1>2. ASSUME NEW p \in Payload, Publish(p) PROVE LogExtends
  BY <1>2 DEF Publish, LogExtends
<1>3. CASE Tick
  BY <1>3 DEF Tick, LogExtends
<1>4. ASSUME NEW w \in Worker, XReadGroup(w) PROVE LogExtends
  BY <1>4 DEF XReadGroup, LogExtends
<1>5. ASSUME NEW w \in Worker, XAutoClaim(w) PROVE LogExtends
  BY <1>5 DEF XAutoClaim, LogExtends
<1>6. ASSUME NEW s \in Slot, XAck(At(s, "done")) PROVE LogExtends
  BY <1>6 DEF XAck, LogExtends
<1>7. ASSUME NEW s \in Slot, NEW m \in Id, stage[s][m] = "dying",
             DeadLetter(m, "permanent")
      PROVE  LogExtends
  BY <1>7 DEF DeadLetter, LogExtends
<1>8. ASSUME NEW s \in Slot, NEW m \in Id, stage[s][m] = "excess",
             DeadLetter(m, "exceeded")
      PROVE  LogExtends
  BY <1>8 DEF DeadLetter, LogExtends
<1> QED
  BY QueueStep, <1>1, <1>2, <1>3, <1>4, <1>5, <1>6, <1>7, <1>8 DEF QueueMove

\* An entry keeps its place, its event id and its kind.
LEMMA LogGrows ==
  ASSUME TypeOK, [Next]_vars, NEW m \in 1..Len(log)
  PROVE  /\ m \in 1..Len(log') /\ log'[m] = log[m]
         /\ EventOf(m)' = EventOf(m) /\ KindOf(m)' = KindOf(m)
<1>1. log \in Seq(Payload)
  BY DEF TypeOK, QueueTypeOK
<1>2. m \in 1..Len(log') /\ log'[m] = log[m]
  BY <1>1, LogStep DEF LogExtends
<1> QED
  BY <1>2 DEF EventOf, KindOf

\* ON CONFLICT DO NOTHING: a row stays as it is.
LEMMA RowsStay ==
  ASSUME TypeOK, [Next]_vars
  PROVE  RowsKept
<1>1. CASE UnchangedStore
  BY <1>1 DEF UnchangedStore, RowsKept
<1>2. ASSUME NEW m \in Id, InsertIfAbsent(m) PROVE RowsKept
  BY <1>2 DEF InsertIfAbsent, TypeOK, RowsKept
<1> QED
  BY TableStep, <1>1, <1>2 DEF TableMove

\* The cursor, the trim point and the dead-letter stream only grow.
LEMMA NothingRewinds ==
  ASSUME TypeOK, [Next]_vars
  PROVE  Forward
<1>1. CASE UNCHANGED queueVars
  BY <1>1 DEF queueVars, Forward, TypeOK, QueueTypeOK
<1>2. ASSUME NEW p \in Payload, Publish(p) PROVE Forward
  BY <1>2 DEF Publish, Forward, TypeOK, QueueTypeOK
<1>3. CASE Tick
  BY <1>3 DEF Tick, Forward, TypeOK, QueueTypeOK
<1>4. ASSUME NEW w \in Worker, XReadGroup(w) PROVE Forward
  <2>1. cursor <= cursor'
    BY <1>4, XReadGroupEffect DEF TypeOK
  <2>2. trimmed' = trimmed /\ dlq' = dlq
    BY <1>4 DEF XReadGroup
  <2> QED
    BY <2>1, <2>2 DEF Forward, TypeOK, QueueTypeOK
<1>5. ASSUME NEW w \in Worker, XAutoClaim(w) PROVE Forward
  BY <1>5 DEF XAutoClaim, Forward, TypeOK, QueueTypeOK
<1>6. ASSUME NEW s \in Slot, XAck(At(s, "done")) PROVE Forward
  BY <1>6 DEF XAck, Forward, TypeOK, QueueTypeOK
<1>7. ASSUME NEW s \in Slot, NEW m \in Id, stage[s][m] = "dying",
             DeadLetter(m, "permanent")
      PROVE  Forward
  BY <1>7 DEF DeadLetter, Forward, TypeOK, QueueTypeOK
<1>8. ASSUME NEW s \in Slot, NEW m \in Id, stage[s][m] = "excess",
             DeadLetter(m, "exceeded")
      PROVE  Forward
  BY <1>8 DEF DeadLetter, Forward, TypeOK, QueueTypeOK
<1> QED
  BY QueueStep, <1>1, <1>2, <1>3, <1>4, <1>5, <1>6, <1>7, <1>8 DEF QueueMove

\* XREADGROUP starts the delivery count of fresh entries only, XAUTOCLAIM adds
\* to it: the count of a delivered entry never falls.
LEMMA CountsGrow ==
  ASSUME TypeOK, [Next]_vars
  PROVE  CountsKept
<1>1. CASE UNCHANGED queueVars
  BY <1>1 DEF queueVars, CountsKept, TypeOK, QueueTypeOK
<1>2. ASSUME NEW p \in Payload, Publish(p) PROVE CountsKept
  BY <1>2 DEF Publish, CountsKept, TypeOK, QueueTypeOK
<1>3. CASE Tick
  BY <1>3 DEF Tick, CountsKept, TypeOK, QueueTypeOK
<1>4. ASSUME NEW w \in Worker, XReadGroup(w) PROVE CountsKept
  <2>1. \A m \in Id : m <= cursor => m \notin NextBatch
    BY <1>4, XReadGroupEffect DEF Id, TypeOK, QueueTypeOK
  <2>2. \A m \in Id \ NextBatch : deliveries'[m] = deliveries[m]
    BY <1>4, XReadGroupEffect DEF TypeOK
  <2> QED
    BY <2>1, <2>2 DEF TypeOK, QueueTypeOK, CountsKept
<1>5. ASSUME NEW w \in Worker, XAutoClaim(w) PROVE CountsKept
  BY <1>5, XAutoClaimEffect DEF TypeOK, CountsKept
<1>6. ASSUME NEW s \in Slot, XAck(At(s, "done")) PROVE CountsKept
  BY <1>6 DEF XAck, CountsKept, TypeOK, QueueTypeOK
<1>7. ASSUME NEW s \in Slot, NEW m \in Id, stage[s][m] = "dying",
             DeadLetter(m, "permanent")
      PROVE  CountsKept
  BY <1>7 DEF DeadLetter, CountsKept, TypeOK, QueueTypeOK
<1>8. ASSUME NEW s \in Slot, NEW m \in Id, stage[s][m] = "excess",
             DeadLetter(m, "exceeded")
      PROVE  CountsKept
  BY <1>8 DEF DeadLetter, CountsKept, TypeOK, QueueTypeOK
<1> QED
  BY QueueStep, <1>1, <1>2, <1>3, <1>4, <1>5, <1>6, <1>7, <1>8 DEF QueueMove

\* A row or a dead letter that is there stays there.
LEMMA LandedStays ==
  ASSUME TypeOK, [Next]_vars, NEW m \in 1..Len(log)
  PROVE  (Stored(m) => Stored(m)') /\ (Parked(m) => Parked(m)')
<1>1. EventOf(m) \in EventId /\ EventOf(m)' = EventOf(m)
  BY LogGrows, ConsumerAssumption DEF EventOf, TypeOK, QueueTypeOK
<1>2. Stored(m) => Stored(m)'
  BY <1>1, RowsStay DEF Stored, RowsKept
<1> QED
  BY <1>2, NothingRewinds DEF Parked, Forward

-----------------------------------------------------------------------------
(* Delivered.                                                              *)

\* A step that hands out nothing new: it adds to what is pending, parked or
\* held only entries that were so before.
NothingNew ==
  /\ cursor' = cursor /\ Pending' \subseteq Pending
  /\ \A m \in Id : Parked(m)' => Parked(m) \/ \E s \in Slot : stage[s][m] # "none"
  /\ \A s \in Slot, m \in Id :
       stage'[s][m] # "none" => stage[s][m] # "none" \/ m \in Pending

\* Such a step keeps Delivered.
LEMMA NothingNewDelivered ==
  ASSUME TypeOK, TypeOK', Delivered, CountsKept, NothingNew
  PROVE  Delivered'
<1> SUFFICES ASSUME NEW m \in Id,
                    m \in Pending' \/ Parked(m)' \/ \E s \in Slot : stage'[s][m] # "none"
             PROVE  m <= cursor' /\ deliveries'[m] >= 1
  BY DEF Delivered, Parked, Pending
<1>1. m \in Pending \/ Parked(m) \/ \E s \in Slot : stage[s][m] # "none"
  BY DEF NothingNew
<1>2. m <= cursor /\ deliveries[m] >= 1
  BY <1>1 DEF Delivered
<1>3. m <= cursor' /\ deliveries[m] <= deliveries'[m]
  BY <1>2 DEF CountsKept, NothingNew
<1> QED
  BY <1>2, <1>3 DEF TypeOK, QueueTypeOK

\* XREADGROUP: what it adds to the pending list is below the new cursor and
\* has been delivered once, whether the worker hears of it or not.
LEMMA ReadDelivered ==
  ASSUME TypeOK, TypeOK', Delivered, CountsKept, NEW w \in Worker, XReadGroup(w),
         \A s \in Slot, m \in Id : stage'[s][m] # "none" => stage[s][m] # "none" \/ m \in NextBatch
  PROVE  Delivered'
<1> SUFFICES ASSUME NEW m \in Id,
                    m \in Pending' \/ Parked(m)' \/ \E s \in Slot : stage'[s][m] # "none"
             PROVE  m <= cursor' /\ deliveries'[m] >= 1
  BY DEF Delivered, Parked, Pending
<1> USE DEF TypeOK
<1>1. CASE m \in NextBatch
  BY <1>1, XReadGroupEffect
<1>2. CASE m \notin NextBatch
  <2>1. owner'[m] = owner[m] /\ cursor <= cursor'
    BY <1>2, XReadGroupEffect
  <2>2. Parked(m)' => Parked(m)
    BY DEF XReadGroup, Parked
  <2>3. m \in Pending \/ Parked(m) \/ \E s \in Slot : stage[s][m] # "none"
    BY <1>2, <2>1, <2>2 DEF Pending
  <2>4. m <= cursor /\ deliveries[m] >= 1
    BY <2>3 DEF Delivered
  <2> QED
    BY <2>1, <2>4 DEF CountsKept, QueueTypeOK, Id
<1> QED
  BY <1>1, <1>2

\* Only XREADGROUP hands out anything new.
LEMMA DeliveredStep ==
  ASSUME TypeOK, TypeOK', Delivered, [Next]_vars
  PROVE  Delivered'
<1>1. CASE Producer
  <2>1. NothingNew
    BY <1>1
    DEF Producer, Publish, workerVars, NothingNew, Pending, Parked, TypeOK
  <2> QED
    BY <2>1, NothingNewDelivered, CountsGrow
<1>2. CASE TimePasses
  <2>1. NothingNew
    BY <1>2
    DEF TimePasses, Tick, workerVars, NothingNew, Pending, Parked, TypeOK
  <2> QED
    BY <2>1, NothingNewDelivered, CountsGrow
<1>3. ASSUME NEW s \in Slot, LeaveLoop(s) PROVE Delivered'
  <2>1. NothingNew
    BY <1>3 DEF LeaveLoop, queueVars, NothingNew, Pending, Parked, TypeOK
  <2> QED
    BY <2>1, NothingNewDelivered, CountsGrow
<1>4. ASSUME NEW s \in Slot, Read(s) PROVE Delivered'
  <2>1. \A t \in Slot, m \in Id : stage'[t][m] # "none" => stage[t][m] # "none" \/ m \in NextBatch
    BY <1>4 DEF Read, Move, TypeOK
  <2>2. s[1] \in Worker /\ XReadGroup(s[1])
    BY <1>4, SlotParts DEF Read
  <2> QED
    BY <2>1, <2>2, ReadDelivered, CountsGrow
<1>5. ASSUME NEW s \in Slot, ReadLost(s) PROVE Delivered'
  <2>1. \A t \in Slot, m \in Id : stage'[t][m] # "none" => stage[t][m] # "none" \/ m \in NextBatch
    BY <1>5 DEF ReadLost
  <2>2. s[1] \in Worker /\ XReadGroup(s[1])
    BY <1>5, SlotParts DEF ReadLost
  <2> QED
    BY <2>1, <2>2, ReadDelivered, CountsGrow
<1>6. ASSUME NEW s \in Slot, ReadNothing(s) PROVE Delivered'
  <2>1. NothingNew
    BY <1>6
    DEF ReadNothing, vars, queueVars, workerVars, NothingNew, Pending, Parked,
        TypeOK
  <2> QED
    BY <2>1, NothingNewDelivered, CountsGrow
<1>7. ASSUME NEW s \in Slot, Claim(s) PROVE Delivered'
  <2>1. s[1] \in Worker /\ XAutoClaim(s[1])
    BY <1>7, SlotParts DEF Claim
  <2>2. Pending' \subseteq Pending /\ Claimed \subseteq Pending
    BY <2>1, XAutoClaimEffect DEF TypeOK
  <2>3. \A t \in Slot, m \in Id : stage'[t][m] # "none" => stage[t][m] # "none" \/ m \in Pending
    BY <1>7, <2>2 DEF Claim, Move, TypeOK
  <2>4. cursor' = cursor /\ dlq' = dlq
    BY <2>1 DEF XAutoClaim
  <2>5. NothingNew
    BY <2>2, <2>3, <2>4 DEF NothingNew, Parked
  <2> QED
    BY <2>5, NothingNewDelivered, CountsGrow
<1>8. ASSUME NEW s \in Slot, ClaimLost(s) PROVE Delivered'
  <2>1. s[1] \in Worker /\ XAutoClaim(s[1])
    BY <1>8, SlotParts DEF ClaimLost
  <2>2. Pending' \subseteq Pending /\ Claimed \subseteq Pending
    BY <2>1, XAutoClaimEffect DEF TypeOK
  <2>3. \A t \in Slot, m \in Id : stage'[t][m] # "none" => stage[t][m] # "none" \/ m \in Pending
    BY <1>8 DEF ClaimLost
  <2>4. cursor' = cursor /\ dlq' = dlq
    BY <2>1 DEF XAutoClaim
  <2>5. NothingNew
    BY <2>2, <2>3, <2>4 DEF NothingNew, Parked
  <2> QED
    BY <2>5, NothingNewDelivered, CountsGrow
<1>9. ASSUME NEW s \in Slot, Triage(s) PROVE Delivered'
  <2>1. NothingNew
    BY <1>9 DEF Triage, queueVars, At, NothingNew, Pending, Parked, TypeOK
  <2> QED
    BY <2>1, NothingNewDelivered, CountsGrow
<1>10. ASSUME NEW s \in Slot, TriageFails(s) PROVE Delivered'
  <2>1. NothingNew
    BY <1>10
    DEF TriageFails, queueVars, Move, NothingNew, Pending, Parked, TypeOK
  <2> QED
    BY <2>1, NothingNewDelivered, CountsGrow
<1>11. ASSUME NEW s \in Slot, NEW m \in Id, BuryExcess(s, m) PROVE Delivered'
  <2>1. NothingNew
    BY <1>11
    DEF BuryExcess, queueVars, DeadLetter, Free, Settle, Move, At, NothingNew,
        Pending, Parked, TypeOK
  <2> QED
    BY <2>1, NothingNewDelivered, CountsGrow
<1>12. ASSUME NEW s \in Slot, NEW m \in Id, Start(s, m) PROVE Delivered'
  <2>1. stage[s][m] # "none" /\ UNCHANGED queueVars /\ (Move(s, {m}, "dying") \/ Move(s, {m}, "running"))
    BY <1>12 DEF Start, At
  <2>2. \A t \in Slot, k \in Id : stage'[t][k] # "none" => stage[t][k] # "none"
    BY <2>1, MoveEffect, TypeParts
  <2>3. NothingNew
    BY <2>1, <2>2 DEF queueVars, NothingNew, Pending, Parked
  <2> QED
    BY <2>3, NothingNewDelivered, CountsGrow
<1>13. ASSUME NEW s \in Slot, NEW m \in Id, Bury(s, m) PROVE Delivered'
  <2>1. NothingNew
    BY <1>13
    DEF Bury, queueVars, DeadLetter, Free, Settle, Move, NothingNew, Pending,
        Parked, TypeOK
  <2> QED
    BY <2>1, NothingNewDelivered, CountsGrow
<1>14. ASSUME NEW s \in Slot, NEW m \in Id, AttemptStores(s, m)
       PROVE  Delivered'
  <2>1. NothingNew
    BY <1>14
    DEF AttemptStores, queueVars, Move, NothingNew, Pending, Parked, TypeOK
  <2> QED
    BY <2>1, NothingNewDelivered, CountsGrow
<1>15. ASSUME NEW s \in Slot, NEW m \in Id, AttemptStoresUnheard(s, m)
       PROVE  Delivered'
  <2>1. NothingNew
    BY <1>15
    DEF AttemptStoresUnheard, queueVars, TransientFailure, Settle, Move,
        NothingNew, Pending, Parked, TypeOK
  <2> QED
    BY <2>1, NothingNewDelivered, CountsGrow
<1>16. ASSUME NEW s \in Slot, NEW m \in Id, AttemptFails(s, m) PROVE Delivered'
  <2>1. stage[s][m] # "none" /\ UNCHANGED queueVars /\ (stage' = stage \/ Move(s, {m}, "left"))
    BY <1>16 DEF AttemptFails, TransientFailure, Settle
  <2>2. \A t \in Slot, k \in Id : stage'[t][k] # "none" => stage[t][k] # "none"
    BY <2>1, MoveEffect, TypeParts
  <2>3. NothingNew
    BY <2>1, <2>2 DEF queueVars, NothingNew, Pending, Parked
  <2> QED
    BY <2>3, NothingNewDelivered, CountsGrow
<1>17. ASSUME NEW s \in Slot, NEW m \in Id, AttemptIsHopeless(s, m)
       PROVE  Delivered'
  <2>1. NothingNew
    BY <1>17
    DEF AttemptIsHopeless, queueVars, Move, NothingNew, Pending, Parked, TypeOK
  <2> QED
    BY <2>1, NothingNewDelivered, CountsGrow
<1>18. ASSUME NEW s \in Slot, NEW m \in Id, AttemptBreaks(s, m)
       PROVE  Delivered'
  <2>1. NothingNew
    BY <1>18
    DEF AttemptBreaks, queueVars, Settle, Move, NothingNew, Pending, Parked,
        TypeOK
  <2> QED
    BY <2>1, NothingNewDelivered, CountsGrow
<1>19. ASSUME NEW s \in Slot, Finish(s) PROVE Delivered'
  <2>1. NothingNew
    BY <1>19
    DEF Finish, queueVars, XAck, Free, Move, Held, NothingNew, Pending, Parked,
        TypeOK
  <2> QED
    BY <2>1, NothingNewDelivered, CountsGrow
<1>20. ASSUME NEW w \in Worker, Crash(w) PROVE Delivered'
  <2>1. NothingNew
    BY <1>20 DEF Crash, queueVars, Forget, NothingNew, Pending, Parked, TypeOK
  <2> QED
    BY <2>1, NothingNewDelivered, CountsGrow
<1>21. ASSUME NEW w \in Worker, RequestStop(w) PROVE Delivered'
  <2>1. NothingNew
    BY <1>21 DEF RequestStop, queueVars, NothingNew, Pending, Parked, TypeOK
  <2> QED
    BY <2>1, NothingNewDelivered, CountsGrow
<1>22. ASSUME NEW w \in Worker, Boot(w) PROVE Delivered'
  <2>1. NothingNew
    BY <1>22 DEF Boot, queueVars, NothingNew, Pending, Parked, TypeOK
  <2> QED
    BY <2>1, NothingNewDelivered, CountsGrow
<1>23. CASE UNCHANGED vars
  <2>1. NothingNew
    BY <1>23
    DEF vars, queueVars, workerVars, NothingNew, Pending, Parked, TypeOK
  <2> QED
    BY <2>1, NothingNewDelivered, CountsGrow
<1> QED
  BY <1>1, <1>2, <1>3, <1>4, <1>5, <1>6, <1>7, <1>8, <1>9, <1>10, <1>11,
     <1>12, <1>13, <1>14, <1>15, <1>16, <1>17, <1>18, <1>19, <1>20, <1>21,
     <1>22, <1>23 DEF Next, SlotStep, MessageStep

-----------------------------------------------------------------------------
(* StagesHoldTrue.                                                         *)

StageTrue(s, m) ==
  /\ stage[s][m] = "done" => Stored(m)
  /\ stage[s][m] = "running" => KindOf(m) # "invalid"
  /\ stage[s][m] = "dying" => KindOf(m) \in {"unknown", "invalid"}
  /\ stage[s][m] = "excess" => deliveries[m] > MaxDeliveries

Unbound == {"none", "claimed", "queued", "left"}
OnlyUnbound ==
  \A t \in Slot, k \in Id : stage'[t][k] = stage[t][k] \/ stage'[t][k] \in Unbound

\* What a stage says of an entry stays true: rows, payloads and delivery
\* counts are never taken back, whatever other workers do meanwhile.
LEMMA StageKept ==
  ASSUME TypeOK, TypeOK', Delivered, StagesHoldTrue, [Next]_vars,
         NEW s \in Slot, NEW m \in Id, stage'[s][m] = stage[s][m]
  PROVE  StageTrue(s, m)'
<1>1. CASE stage[s][m] = "none"
  BY <1>1 DEF StageTrue
<1>2. CASE stage[s][m] # "none"
  <2>1. m \in 1..Len(log) /\ m <= cursor
    BY <1>2, HeldIsDelivered
  <2>2. KindOf(m)' = KindOf(m) /\ (Stored(m) => Stored(m)')
    BY <2>1, LogGrows, LandedStays
  <2>3. deliveries[m] > MaxDeliveries => deliveries'[m] > MaxDeliveries
    <3>1. deliveries[m] <= deliveries'[m]
      BY <2>1, CountsGrow DEF CountsKept
    <3>2. deliveries[m] \in Int /\ deliveries'[m] \in Int
      BY QueueAssumption DEF TypeOK, QueueTypeOK
    <3> QED
      BY <3>1, <3>2, QueueAssumption
  <2>4. StageTrue(s, m)
    BY DEF StagesHoldTrue, StageTrue
  <2> QED
    BY <2>2, <2>3, <2>4 DEF StageTrue
<1> QED
  BY <1>1, <1>2

\* A step that moves entries to stages that promise nothing.
LEMMA StagesUnbound ==
  ASSUME TypeOK, TypeOK', Delivered, StagesHoldTrue, [Next]_vars,
         OnlyUnbound
  PROVE  StagesHoldTrue'
<1> SUFFICES ASSUME NEW t \in Slot, NEW k \in Id PROVE StageTrue(t, k)'
  BY DEF StagesHoldTrue, StageTrue, Stored, EventOf, KindOf
<1>1. CASE stage'[t][k] = stage[t][k]
  BY <1>1, StageKept
<1>2. CASE stage'[t][k] \in Unbound
  BY <1>2 DEF StageTrue, Unbound
<1> QED
  BY <1>1, <1>2 DEF OnlyUnbound

\* A step that moves one entry to a stage whose promise it meets.
LEMMA StagesOneMove ==
  ASSUME TypeOK, TypeOK', Delivered, StagesHoldTrue, [Next]_vars,
         NEW s \in Slot, NEW m \in Id, NEW st, Move(s, {m}, st), StageTrue(s, m)'
  PROVE  StagesHoldTrue'
<1> SUFFICES ASSUME NEW t \in Slot, NEW k \in Id PROVE StageTrue(t, k)'
  BY DEF StagesHoldTrue, StageTrue, Stored, EventOf, KindOf
<1>1. CASE t = s /\ k = m
  BY <1>1
<1>2. CASE ~(t = s /\ k = m)
  <2>1. stage'[t][k] = stage[t][k]
    BY <1>2, MoveEffect, TypeParts
  <2> QED
    BY <2>1, StageKept
<1> QED
  BY <1>1, <1>2

\* The INSERT leaves a row under the entry's event id, its own or an older one.
LEMMA InsertStores ==
  ASSUME TypeOK, NEW m \in 1..Len(log), InsertIfAbsent(m), UNCHANGED queueVars
  PROVE  Stored(m)'
<1>1. EventOf(m) \in EventId /\ EventOf(m)' = EventOf(m) /\ log[m] # NoRow
  BY ConsumerAssumption DEF EventOf, TypeOK, QueueTypeOK, queueVars
<1> QED
  BY <1>1 DEF InsertIfAbsent, Stored, TypeOK

\* Each stage is entered by a step that makes its promise true.
LEMMA StagesStep ==
  ASSUME TypeOK, TypeOK', Delivered, StagesHoldTrue, [Next]_vars
  PROVE  StagesHoldTrue'
<1>1. CASE Producer
  <2>1. stage' = stage
    BY <1>1 DEF Producer, workerVars
  <2> QED
    BY <2>1, StagesUnbound DEF OnlyUnbound
<1>2. CASE TimePasses
  <2>1. stage' = stage
    BY <1>2 DEF TimePasses, workerVars
  <2> QED
    BY <2>1, StagesUnbound DEF OnlyUnbound
<1>3. ASSUME NEW s \in Slot, LeaveLoop(s) PROVE StagesHoldTrue'
  <2>1. stage' = stage
    BY <1>3 DEF LeaveLoop
  <2> QED
    BY <2>1, StagesUnbound DEF OnlyUnbound
<1>4. ASSUME NEW s \in Slot, Read(s) PROVE StagesHoldTrue'
  <2>1. Move(s, NextBatch, "queued")
    BY <1>4 DEF Read
  <2>2. OnlyUnbound
    BY <2>1, MoveEffect, TypeParts DEF OnlyUnbound, Unbound
  <2> QED
    BY <2>2, StagesUnbound
<1>5. ASSUME NEW s \in Slot, ReadLost(s) PROVE StagesHoldTrue'
  <2>1. stage' = stage
    BY <1>5 DEF ReadLost
  <2> QED
    BY <2>1, StagesUnbound DEF OnlyUnbound
<1>6. ASSUME NEW s \in Slot, ReadNothing(s) PROVE StagesHoldTrue'
  <2>1. stage' = stage
    BY <1>6 DEF ReadNothing, vars, workerVars
  <2> QED
    BY <2>1, StagesUnbound DEF OnlyUnbound
<1>7. ASSUME NEW s \in Slot, Claim(s) PROVE StagesHoldTrue'
  <2>1. Move(s, Claimed, "claimed")
    BY <1>7 DEF Claim
  <2>2. OnlyUnbound
    BY <2>1, MoveEffect, TypeParts DEF OnlyUnbound, Unbound
  <2> QED
    BY <2>2, StagesUnbound
<1>8. ASSUME NEW s \in Slot, ClaimLost(s) PROVE StagesHoldTrue'
  <2>1. stage' = stage
    BY <1>8 DEF ClaimLost
  <2> QED
    BY <2>1, StagesUnbound DEF OnlyUnbound
<1>9. ASSUME NEW s \in Slot, Triage(s) PROVE StagesHoldTrue'
  <2> SUFFICES ASSUME NEW t \in Slot, NEW k \in Id PROVE StageTrue(t, k)'
    BY DEF StagesHoldTrue, StageTrue, Stored, EventOf, KindOf
  <2>1. CASE stage'[t][k] = stage[t][k]
    BY <1>9, <2>1, StageKept
  <2>2. CASE stage'[t][k] # stage[t][k]
    <3>1. t = s /\ k \in At(s, "claimed")
      BY <1>9, <2>2 DEF Triage, TypeOK
    <3>2. CASE ~OverCap(ReportedCount(s[1], At(s, "claimed"), k))
      <4>1. stage'[t][k] = "queued"
        BY <1>9, <3>1, <3>2 DEF Triage, TypeOK
      <4> QED
        BY <4>1 DEF StageTrue
    <3>3. CASE OverCap(ReportedCount(s[1], At(s, "claimed"), k))
      <4>1. stage'[t][k] = "excess"
        BY <1>9, <3>1, <3>3 DEF Triage, TypeOK
      <4>2. deliveries[k] >= 1
        BY <3>1, HeldIsDelivered DEF At
      <4>3. deliveries[k] > MaxDeliveries
        BY <3>3, <4>2, SlotParts, QueueAssumption
        DEF OverCap, ReportedCount, TypeOK, QueueTypeOK
      <4>4. deliveries' = deliveries
        BY <1>9 DEF Triage, queueVars
      <4> QED
        BY <4>1, <4>3, <4>4 DEF StageTrue
    <3> QED
      BY <3>2, <3>3
  <2> QED
    BY <2>1, <2>2
<1>10. ASSUME NEW s \in Slot, TriageFails(s) PROVE StagesHoldTrue'
  <2>1. Move(s, At(s, "claimed"), "none")
    BY <1>10 DEF TriageFails
  <2>2. OnlyUnbound
    BY <2>1, MoveEffect, TypeParts DEF OnlyUnbound, Unbound
  <2> QED
    BY <2>2, StagesUnbound
<1>11. ASSUME NEW s \in Slot, NEW m \in Id, BuryExcess(s, m)
       PROVE  StagesHoldTrue'
  <2>1. Move(s, {m}, "left")
    BY <1>11 DEF BuryExcess, Settle
  <2>2. OnlyUnbound
    BY <2>1, MoveEffect, TypeParts DEF OnlyUnbound, Unbound
  <2> QED
    BY <2>2, StagesUnbound
<1>12. ASSUME NEW s \in Slot, NEW m \in Id, Start(s, m) PROVE StagesHoldTrue'
  <2>1. PICK st \in {"dying", "running"} :
           Move(s, {m}, st) /\ (st = "dying" <=> KindOf(m) = "invalid")
    BY <1>12 DEF Start
  <2>2. stage'[s][m] = st
    BY <2>1, MoveEffect, TypeParts
  <2>3. KindOf(m)' = KindOf(m)
    BY <1>12 DEF Start, queueVars, KindOf
  <2>4. StageTrue(s, m)'
    BY <2>1, <2>2, <2>3 DEF StageTrue
  <2> QED
    BY <2>1, <2>4, StagesOneMove
<1>13. ASSUME NEW s \in Slot, NEW m \in Id, Bury(s, m) PROVE StagesHoldTrue'
  <2>1. Move(s, {m}, "left")
    BY <1>13 DEF Bury, Settle
  <2>2. OnlyUnbound
    BY <2>1, MoveEffect, TypeParts DEF OnlyUnbound, Unbound
  <2> QED
    BY <2>2, StagesUnbound
<1>14. ASSUME NEW s \in Slot, NEW m \in Id, AttemptStores(s, m)
       PROVE  StagesHoldTrue'
  <2>1. Move(s, {m}, "done") /\ m \in 1..Len(log)
    BY <1>14, HeldIsDelivered DEF AttemptStores
  <2>2. stage'[s][m] = "done"
    BY <2>1, MoveEffect, TypeParts
  <2>3. Stored(m)'
    BY <1>14, <2>1, InsertStores DEF AttemptStores
  <2>4. StageTrue(s, m)'
    BY <2>2, <2>3 DEF StageTrue
  <2> QED
    BY <2>1, <2>4, StagesOneMove
<1>15. ASSUME NEW s \in Slot, NEW m \in Id, AttemptStoresUnheard(s, m)
       PROVE  StagesHoldTrue'
  <2>1. stage' = stage \/ Move(s, {m}, "left")
    BY <1>15 DEF AttemptStoresUnheard, TransientFailure, Settle
  <2>2. OnlyUnbound
    BY <2>1, MoveEffect, TypeParts DEF OnlyUnbound, Unbound
  <2> QED
    BY <2>2, StagesUnbound
<1>16. ASSUME NEW s \in Slot, NEW m \in Id, AttemptFails(s, m)
       PROVE  StagesHoldTrue'
  <2>1. stage' = stage \/ Move(s, {m}, "left")
    BY <1>16 DEF AttemptFails, TransientFailure, Settle
  <2>2. OnlyUnbound
    BY <2>1, MoveEffect, TypeParts DEF OnlyUnbound, Unbound
  <2> QED
    BY <2>2, StagesUnbound
<1>17. ASSUME NEW s \in Slot, NEW m \in Id, AttemptIsHopeless(s, m)
       PROVE  StagesHoldTrue'
  <2>1. Move(s, {m}, "dying") /\ KindOf(m) = "unknown"
    BY <1>17 DEF AttemptIsHopeless, Convertible
  <2>2. stage'[s][m] = "dying"
    BY <2>1, MoveEffect, TypeParts
  <2>3. KindOf(m)' = KindOf(m)
    BY <1>17 DEF AttemptIsHopeless, queueVars, KindOf
  <2>4. StageTrue(s, m)'
    BY <2>1, <2>2, <2>3 DEF StageTrue
  <2> QED
    BY <2>1, <2>4, StagesOneMove
<1>18. ASSUME NEW s \in Slot, NEW m \in Id, AttemptBreaks(s, m)
       PROVE  StagesHoldTrue'
  <2>1. Move(s, {m}, "left")
    BY <1>18 DEF AttemptBreaks, Settle
  <2>2. OnlyUnbound
    BY <2>1, MoveEffect, TypeParts DEF OnlyUnbound, Unbound
  <2> QED
    BY <2>2, StagesUnbound
<1>19. ASSUME NEW s \in Slot, Finish(s) PROVE StagesHoldTrue'
  <2>1. Move(s, Held(s), "none")
    BY <1>19 DEF Finish
  <2>2. OnlyUnbound
    BY <2>1, MoveEffect, TypeParts DEF OnlyUnbound, Unbound
  <2> QED
    BY <2>2, StagesUnbound
<1>20. ASSUME NEW w \in Worker, Crash(w) PROVE StagesHoldTrue'
  <2>1. OnlyUnbound
    BY <1>20 DEF Crash, Forget, OnlyUnbound, Unbound
  <2> QED
    BY <2>1, StagesUnbound
<1>21. ASSUME NEW w \in Worker, RequestStop(w) PROVE StagesHoldTrue'
  <2>1. stage' = stage
    BY <1>21 DEF RequestStop
  <2> QED
    BY <2>1, StagesUnbound DEF OnlyUnbound
<1>22. ASSUME NEW w \in Worker, Boot(w) PROVE StagesHoldTrue'
  <2>1. stage' = stage
    BY <1>22 DEF Boot
  <2> QED
    BY <2>1, StagesUnbound DEF OnlyUnbound
<1>23. CASE UNCHANGED vars
  <2>1. stage' = stage
    BY <1>23 DEF vars, workerVars
  <2> QED
    BY <2>1, StagesUnbound DEF OnlyUnbound
<1> QED
  BY <1>1, <1>2, <1>3, <1>4, <1>5, <1>6, <1>7, <1>8, <1>9, <1>10, <1>11,
     <1>12, <1>13, <1>14, <1>15, <1>16, <1>17, <1>18, <1>19, <1>20, <1>21,
     <1>22, <1>23 DEF Next, SlotStep, MessageStep

-----------------------------------------------------------------------------
(* Custody.                                                                *)

\* Where an entry that leaves the pending list has gone.
Released ==
  \A m \in Pending : m \in Pending' \/ Stored(m)' \/ Parked(m)' \/ m <= trimmed'

\* Where an entry that the cursor passes has gone.
Accounted ==
  \A m \in 1..Len(log) : m > cursor => m > cursor' \/ m \in Pending' \/ m <= trimmed'

\* An entry leaves the pending list as a committed row (Finish), as a dead
\* letter (Bury, BuryExcess), or because it was trimmed (Claim).
LEMMA ReleasedStep ==
  ASSUME TypeOK, Delivered, StagesHoldTrue, [Next]_vars
  PROVE  Released
<1>1. CASE UNCHANGED queueVars
  BY <1>1 DEF queueVars, Pending, Released
<1>2. ASSUME NEW p \in Payload, Publish(p) PROVE Released
  BY <1>2 DEF Publish, Pending, Released
<1>3. CASE Tick
  BY <1>3 DEF Tick, Pending, Released
<1>4. ASSUME NEW w \in Worker, XReadGroup(w) PROVE Released
  BY <1>4, QueueAssumption DEF XReadGroup, Pending, Released
<1>5. ASSUME NEW w \in Worker, XAutoClaim(w) PROVE Released
  <2>1. \A m \in Pending : m > trimmed => m \in Pending'
    BY <1>5, XAutoClaimEffect DEF TypeOK
  <2>2. trimmed' = trimmed
    BY <1>5 DEF XAutoClaim
  <2> QED
    BY <2>1, <2>2 DEF Released, Pending, Id, TypeOK, QueueTypeOK
<1>6. ASSUME NEW s \in Slot, XAck(At(s, "done")) PROVE Released
  <2>1. ASSUME NEW m \in Pending, m \notin Pending' PROVE Stored(m)'
    <3>1. m \in Id /\ stage[s][m] = "done"
      BY <1>6, <2>1 DEF XAck, Free, At, Pending
    <3>2. Stored(m) /\ m \in 1..Len(log)
      BY <3>1, HeldIsDelivered DEF StagesHoldTrue
    <3> QED
      BY <3>2, LandedStays
  <2> QED
    BY <2>1 DEF Released
<1>7. ASSUME NEW s \in Slot, NEW m \in Id, stage[s][m] = "dying",
             DeadLetter(m, "permanent")
      PROVE  Released
  BY <1>7, DeadLetterEffect DEF Pending, Released
<1>8. ASSUME NEW s \in Slot, NEW m \in Id, stage[s][m] = "excess",
             DeadLetter(m, "exceeded")
      PROVE  Released
  BY <1>8, DeadLetterEffect DEF Pending, Released
<1> QED
  BY QueueStep, <1>1, <1>2, <1>3, <1>4, <1>5, <1>6, <1>7, <1>8 DEF QueueMove

\* XREADGROUP passes no entry but those it hands out and those trimmed.
LEMMA AccountedStep ==
  ASSUME TypeOK, TypeOK', [Next]_vars
  PROVE  Accounted
<1>1. CASE UNCHANGED queueVars
  BY <1>1 DEF queueVars, Accounted
<1>2. ASSUME NEW p \in Payload, Publish(p) PROVE Accounted
  BY <1>2 DEF Publish, Accounted
<1>3. CASE Tick
  BY <1>3 DEF Tick, Accounted
<1>4. ASSUME NEW w \in Worker, XReadGroup(w) PROVE Accounted
  <2>1. \A m \in Id : cursor < m /\ m <= cursor' => m <= trimmed \/ m \in NextBatch
    BY <1>4, XReadGroupEffect DEF TypeOK
  <2>2. \A m \in Id \cap NextBatch : m \in Pending'
    BY <1>4, XReadGroupEffect, QueueAssumption DEF TypeOK, Pending
  <2>3. trimmed' = trimmed /\ 1..Len(log) \subseteq Id
    BY <1>4, QueueAssumption DEF XReadGroup, TypeOK, QueueTypeOK, Id
  <2>4. cursor \in Int /\ cursor' \in Int /\ Len(log) \in Nat
    BY DEF TypeOK, QueueTypeOK
  <2> SUFFICES ASSUME NEW m \in 1..Len(log), m > cursor, ~(m > cursor')
               PROVE  m \in Pending' \/ m <= trimmed'
    BY DEF Accounted
  <2>5. m \in Id /\ cursor < m /\ m <= cursor'
    BY <2>3, <2>4
  <2> QED
    BY <2>1, <2>2, <2>3, <2>5
<1>5. ASSUME NEW w \in Worker, XAutoClaim(w) PROVE Accounted
  BY <1>5 DEF XAutoClaim, Accounted
<1>6. ASSUME NEW s \in Slot, XAck(At(s, "done")) PROVE Accounted
  BY <1>6 DEF XAck, Accounted
<1>7. ASSUME NEW s \in Slot, NEW m \in Id, stage[s][m] = "dying",
             DeadLetter(m, "permanent")
      PROVE  Accounted
  BY <1>7 DEF DeadLetter, Accounted
<1>8. ASSUME NEW s \in Slot, NEW m \in Id, stage[s][m] = "excess",
             DeadLetter(m, "exceeded")
      PROVE  Accounted
  BY <1>8 DEF DeadLetter, Accounted
<1> QED
  BY QueueStep, <1>1, <1>2, <1>3, <1>4, <1>5, <1>6, <1>7, <1>8 DEF QueueMove

\* No step loses an entry.
LEMMA CustodyStep ==
  ASSUME TypeOK, TypeOK', Delivered, StagesHoldTrue, Custody, [Next]_vars
  PROVE  Custody'
<1> SUFFICES ASSUME NEW m \in 1..Len(log')
      PROVE  m > cursor' \/ m \in Pending' \/ Stored(m)' \/ Parked(m)' \/ m <= trimmed'
  BY DEF Custody, Landed, Pending, Stored, EventOf, Parked
<1>1. CASE m \notin 1..Len(log)
  <2>1. log' # log
    BY <1>1
  <2>2. cursor' = cursor
    BY <2>1, LogStep DEF LogExtends
  <2> QED
    BY <1>1, <2>2 DEF TypeOK, QueueTypeOK
<1>2. CASE m \in 1..Len(log)
  <2>1. m > cursor \/ m \in Pending \/ Stored(m) \/ Parked(m) \/ m <= trimmed
    BY <1>2 DEF Custody, Landed
  <2>2. CASE m > cursor
    BY <1>2, <2>2, AccountedStep DEF Accounted
  <2>3. CASE m \in Pending
    BY <2>3, ReleasedStep DEF Released
  <2>4. CASE Stored(m) \/ Parked(m)
    BY <1>2, <2>4, LandedStays
  <2>5. CASE m <= trimmed
    BY <2>5, NothingRewinds DEF Forward, TypeOK, QueueTypeOK
  <2> QED
    BY <2>1, <2>2, <2>3, <2>4, <2>5
<1> QED
  BY <1>1, <1>2

-----------------------------------------------------------------------------
(* OneStoredReport, RowsAreConverted.                                      *)

\* Only an insert that the primary key let through is reported as stored.
LEMMA OneStoredReportStep ==
  ASSUME TypeOK, Delivered, OneStoredReport, [Next]_vars
  PROVE  OneStoredReport'
<1>1. CASE credited' = credited
  BY <1>1, RowsStay DEF RowsKept, OneStoredReport
<1>2. ASSUME NEW s \in Slot, NEW m \in Id, stage[s][m] = "running", InsertIfAbsent(m),
             credited' = [credited EXCEPT ![EventOf(m)] = IF RowCountIsOne(m) THEN @ + 1 ELSE @]
      PROVE  OneStoredReport'
  <2>1. m \in 1..Len(log)
    BY <1>2, HeldIsDelivered
  <2>2. EventOf(m) \in EventId /\ log[m] # NoRow
    BY <2>1, ConsumerAssumption DEF EventOf, TypeOK, QueueTypeOK
  <2> SUFFICES ASSUME NEW e \in EventId
      PROVE  credited'[e] <= 1 /\ (credited'[e] = 1 => rows'[e] # NoRow)
    BY DEF OneStoredReport
  <2>3. CASE e # EventOf(m)
    BY <1>2, <2>3 DEF InsertIfAbsent, OneStoredReport, TypeOK
  <2>4. CASE e = EventOf(m)
    <3>1. rows'[e] # NoRow
      BY <1>2, <2>2, <2>4 DEF InsertIfAbsent, TypeOK
    <3>2. CASE Stored(m)
      <4>1. credited'[e] = credited[e]
        BY <1>2, <2>4, <3>2 DEF RowCountIsOne, TypeOK
      <4> QED
        BY <3>1, <4>1 DEF OneStoredReport
    <3>3. CASE ~Stored(m)
      <4>1. credited'[e] = credited[e] + 1
        BY <1>2, <2>4, <3>3 DEF RowCountIsOne, TypeOK
      <4>2. credited[e] \in Nat /\ credited[e] <= 1 /\ credited[e] # 1
        BY <2>4, <3>3 DEF Stored, OneStoredReport, TypeOK
      <4> QED
        BY <3>1, <4>1, <4>2
    <3> QED
      BY <3>2, <3>3
  <2> QED
    BY <2>3, <2>4
<1> QED
  BY TableStep, <1>1, <1>2 DEF TableMove, UnchangedStore

\* A row that is inserted is the payload of an entry that was parsed.
LEMMA RowsAreConvertedStep ==
  ASSUME TypeOK, TypeOK', Delivered, StagesHoldTrue, RowsAreConverted, [Next]_vars
  PROVE  RowsAreConverted'
<1>1. ASSUME NEW e \in EventId, rows[e] # NoRow
      PROVE  \E m \in 1..Len(log') : log'[m] = rows[e] /\ EventOf(m)' = e /\ KindOf(m)' = "ok"
  <2>1. PICK m \in 1..Len(log) : log[m] = rows[e] /\ EventOf(m) = e /\ KindOf(m) = "ok"
    BY <1>1 DEF RowsAreConverted
  <2>2. m \in 1..Len(log') /\ log'[m] = log[m] /\ EventOf(m)' = e /\ KindOf(m)' = "ok"
    BY <2>1, LogGrows
  <2> QED
    BY <2>1, <2>2
<1>2. ASSUME NEW s \in Slot, NEW m \in Id, stage[s][m] = "running", Storable(m),
             InsertIfAbsent(m), UNCHANGED queueVars
      PROVE  RowsAreConverted'
  <2>0. m \in 1..Len(log)
    BY <1>2, HeldIsDelivered
  <2>10. log \in Seq(Payload)
    BY DEF TypeOK, QueueTypeOK
  <2>11. log[m] \in Payload
    BY <2>0, <2>10
  <2>1. log[m] \in Payload /\ EventOf(m) \in EventId
    BY <2>11, ConsumerAssumption DEF EventOf
  <2>2. KindOf(m) = "ok"
    BY <1>2, <2>1, ConsumerAssumption
    DEF StagesHoldTrue, Storable, Convertible, KindOf, Kinds
  <2>3. \A e \in EventId : rows'[e] = rows[e] \/ (e = EventOf(m) /\ rows'[e] = log[m])
    BY <1>2 DEF InsertIfAbsent, TypeOK
  <2>4. m \in 1..Len(log') /\ log'[m] = log[m] /\ EventOf(m)' = EventOf(m) /\ KindOf(m)' = "ok"
    BY <1>2, <2>0, <2>2 DEF queueVars, EventOf, KindOf
  <2> SUFFICES ASSUME NEW e \in EventId, rows'[e] # NoRow
               PROVE  \E k \in 1..Len(log') :
                        log'[k] = rows'[e] /\ EventOf(k)' = e /\ KindOf(k)' = "ok"
    BY DEF RowsAreConverted, EventOf, KindOf
  <2>5. CASE rows'[e] = rows[e]
    BY <1>1, <2>5
  <2>6. CASE e = EventOf(m) /\ rows'[e] = log[m]
    BY <2>4, <2>6
  <2> QED
    BY <2>3, <2>5, <2>6
<1>3. CASE rows' = rows
  BY <1>1, <1>3 DEF RowsAreConverted, EventOf, KindOf
<1> QED
  BY TableStep, <1>2, <1>3 DEF TableMove, UnchangedStore

-----------------------------------------------------------------------------
(* ParkedWithCause.                                                        *)

\* A dead letter that is new comes from a slot that had the cause for it.
CauseIn(s, d) ==
  \/ d.reason = "permanent" /\ stage[s][d.id] = "dying"
  \/ d.reason = "exceeded" /\ stage[s][d.id] = "excess"
NewDeadLetters == \A d \in dlq' \ dlq : \E s \in Slot : CauseIn(s, d)

\* Only Bury and BuryExcess add dead letters.
LEMMA WhoParks ==
  ASSUME TypeOK, [Next]_vars
  PROVE  NewDeadLetters
<1>1. CASE UNCHANGED queueVars
  BY <1>1 DEF queueVars, NewDeadLetters, CauseIn
<1>2. ASSUME NEW p \in Payload, Publish(p) PROVE NewDeadLetters
  BY <1>2 DEF Publish, NewDeadLetters, CauseIn
<1>3. CASE Tick
  BY <1>3 DEF Tick, NewDeadLetters, CauseIn
<1>4. ASSUME NEW w \in Worker, XReadGroup(w) PROVE NewDeadLetters
  BY <1>4 DEF XReadGroup, NewDeadLetters, CauseIn
<1>5. ASSUME NEW w \in Worker, XAutoClaim(w) PROVE NewDeadLetters
  BY <1>5 DEF XAutoClaim, NewDeadLetters, CauseIn
<1>6. ASSUME NEW s \in Slot, XAck(At(s, "done")) PROVE NewDeadLetters
  BY <1>6 DEF XAck, NewDeadLetters, CauseIn
<1>7. ASSUME NEW s \in Slot, NEW m \in Id, stage[s][m] = "dying",
             DeadLetter(m, "permanent")
      PROVE  NewDeadLetters
  BY <1>7 DEF DeadLetter, NewDeadLetters, CauseIn
<1>8. ASSUME NEW s \in Slot, NEW m \in Id, stage[s][m] = "excess",
             DeadLetter(m, "exceeded")
      PROVE  NewDeadLetters
  BY <1>8 DEF DeadLetter, NewDeadLetters, CauseIn
<1> QED
  BY QueueStep, <1>1, <1>2, <1>3, <1>4, <1>5, <1>6, <1>7, <1>8 DEF QueueMove

\* The cause of a dead letter stays true after it was parked.
LEMMA ParkedWithCauseStep ==
  ASSUME TypeOK, TypeOK', Delivered, StagesHoldTrue, ParkedWithCause, [Next]_vars
  PROVE  ParkedWithCause'
<1> DEFINE Cause(d) == IF d.reason = "permanent" THEN KindOf(d.id) \in {"unknown", "invalid"}
                       ELSE deliveries[d.id] > MaxDeliveries
<1> SUFFICES ASSUME NEW d \in dlq' PROVE Cause(d)'
  BY DEF ParkedWithCause, KindOf
<1>1. d.id \in Id
  BY DEF TypeOK, QueueTypeOK
<1>2. Cause(d) /\ d.id <= cursor
  <2>1. CASE d \in dlq
    BY <1>1, <2>1 DEF ParkedWithCause, Delivered, Parked
  <2>2. CASE d \notin dlq
    <3>0. d \in dlq' \ dlq /\ NewDeadLetters
      BY <2>2, WhoParks
    <3>1. PICK s \in Slot : CauseIn(s, d)
      BY <3>0 DEF NewDeadLetters
    <3>2. Cause(d)
      BY <1>1, <3>1 DEF StagesHoldTrue, CauseIn
    <3> QED
      BY <1>1, <3>1, <3>2, HeldIsDelivered DEF CauseIn
  <2> QED
    BY <2>1, <2>2
<1>3. d.id \in 1..Len(log)
  BY <1>1, <1>2 DEF TypeOK, QueueTypeOK, Id
<1>4. KindOf(d.id)' = KindOf(d.id)
  BY <1>3, LogGrows DEF KindOf
<1>5. deliveries[d.id] <= deliveries'[d.id]
  BY <1>1, <1>2, CountsGrow DEF CountsKept
<1>6. deliveries[d.id] \in Int /\ deliveries'[d.id] \in Int
  BY <1>1, QueueAssumption DEF TypeOK, QueueTypeOK
<1> QED
  BY <1>2, <1>4, <1>5, <1>6, QueueAssumption DEF KindOf

-----------------------------------------------------------------------------
(* The steps of the consumer are steps of the Ledger.                      *)

\* An empty stream, table and dead-letter stream are an empty ledger.
LEMMA InitIsLedger == Init => L!LedgerInit
BY DEF Init, QueueInit, L!LedgerInit, DeadIds

\* A command to Redis accepts an event, sets one aside, or shows nothing.
LEMMA QueueMoveIsLedger ==
  ASSUME TypeOK, Delivered, UnchangedStore, QueueMove
  PROVE  [L!LedgerNext]_(L!ledgerVars)
<1>1. CASE UNCHANGED <<log, dlq>>
  BY <1>1 DEF UnchangedStore, L!ledgerVars, DeadIds
<1>2. ASSUME NEW p \in Payload, Publish(p)
      PROVE  [L!LedgerNext]_(L!ledgerVars)
  <2>1. L!Accept(p)
    BY <1>2 DEF Publish, UnchangedStore, L!Accept, DeadIds
  <2> QED
    BY <2>1 DEF L!LedgerNext
<1>3. ASSUME NEW s \in Slot, NEW m \in Id, stage[s][m] # "none",
             NEW r \in Reason, DeadLetter(m, r)
      PROVE  [L!LedgerNext]_(L!ledgerVars)
  <2>1. m \in 1..Len(log)
    BY <1>3, HeldIsDelivered
  <2>2. DeadIds' = DeadIds \cup {m}
    <3>1. dlq' = dlq \cup {[id |-> m, reason |-> r]}
      BY <1>3 DEF DeadLetter
    <3>2. DeadIds' = {d.id : d \in dlq \cup {[id |-> m, reason |-> r]}}
      BY <3>1 DEF DeadIds
    <3>3. [id |-> m, reason |-> r].id = m
      OBVIOUS
    <3> QED
      BY <3>2, <3>3, Zenon DEF DeadIds
  <2>3. L!SetAside(m)
    BY <1>3, <2>2 DEF DeadLetter, UnchangedStore, L!SetAside
  <2> QED
    BY <2>1, <2>3 DEF L!LedgerNext
<1>4. \/ UNCHANGED <<log, dlq>>
      \/ \E p \in Payload : Publish(p)
      \/ \E s \in Slot, m \in Id, r \in Reason : stage[s][m] # "none" /\ DeadLetter(m, r)
  BY DEF QueueMove, queueVars, Tick, XReadGroup, XAutoClaim, XAck, Reason
<1> QED
  BY <1>1, <1>2, <1>3, <1>4

\* An insert records an event under an id that has no row, or shows nothing.
LEMMA InsertIsLedger ==
  ASSUME TypeOK, Delivered, StagesHoldTrue, NEW s \in Slot, NEW m \in Id,
         stage[s][m] = "running", Storable(m), InsertIfAbsent(m), UNCHANGED queueVars
  PROVE  [L!LedgerNext]_(L!ledgerVars)
<1>1. m \in 1..Len(log)
  BY HeldIsDelivered
<1>2. log[m] \in Payload /\ EventOf(m) \in EventId
  BY <1>1, ConsumerAssumption DEF EventOf, TypeOK, QueueTypeOK
<1>3. log[m] \in Processable
  BY <1>2, ConsumerAssumption
  DEF StagesHoldTrue, Storable, Convertible, KindOf, Kinds, Processable
<1>4. log' = log /\ DeadIds' = DeadIds
  BY DEF queueVars, DeadIds
<1>5. CASE rows[EventOf(m)] = NoRow
  <2>1. rows' = [rows EXCEPT ![EventOf(m)] = log[m]]
    BY <1>5 DEF InsertIfAbsent
  <2>2. L!Record(m)
    BY <1>3, <1>4, <1>5, <2>1 DEF L!Record, EventOf
  <2> QED
    BY <1>1, <2>2 DEF L!LedgerNext
<1>6. CASE rows[EventOf(m)] # NoRow
  <2>1. rows' = rows
    BY <1>2, <1>6 DEF InsertIfAbsent, TypeOK
  <2> QED
    BY <1>4, <2>1 DEF L!ledgerVars
<1> QED
  BY <1>5, <1>6

\* No step touches both: a step is a step of the ledger or a stutter.
LEMMA NextIsLedger ==
  ASSUME IInv, [Next]_vars
  PROVE  [L!LedgerNext]_(L!ledgerVars)
<1>1. CASE UnchangedStore
  BY <1>1, QueueStep, QueueMoveIsLedger DEF IInv
<1>2. ASSUME NEW s \in Slot, NEW m \in Id, stage[s][m] = "running", Storable(m),
             InsertIfAbsent(m), UNCHANGED queueVars
      PROVE  [L!LedgerNext]_(L!ledgerVars)
  BY <1>2, InsertIsLedger DEF IInv
<1> QED
  BY <1>1, <1>2, TableStep DEF TableMove, IInv

-----------------------------------------------------------------------------
(* The invariant, and what follows from it.                                *)

\* The invariant holds at the start.
LEMMA InitIInv == Init => IInv
<1> SUFFICES ASSUME Init PROVE IInv
  OBVIOUS
<1>1. TypeOK
  BY InitType
<1>2. Len(log) = 0 /\ dlq = {} /\ Pending = {}
  BY DEF Init, QueueInit, Pending
<1>3. \A s \in Slot, m \in Id : stage[s][m] = "none"
  BY DEF Init
<1>4. Delivered /\ StagesHoldTrue
  BY <1>2, <1>3 DEF Delivered, StagesHoldTrue, Parked
<1>5. Custody /\ ParkedWithCause
  BY <1>2 DEF Custody, ParkedWithCause
<1>6. OneStoredReport /\ RowsAreConverted
  BY DEF Init, OneStoredReport, RowsAreConverted
<1> QED
  BY <1>1, <1>4, <1>5, <1>6 DEF IInv

\* The invariant is kept by every step.
LEMMA NextIInv == IInv /\ [Next]_vars => IInv'
<1> SUFFICES ASSUME IInv, [Next]_vars PROVE IInv'
  OBVIOUS
<1> USE DEF IInv
<1>1. TypeOK'
  <2>1. QueueTypeOK'
    BY TypeParts, QueueStepType
  <2>2. WorkerTypeOK'
    BY WorkerStepType
  <2> QED
    BY <2>1, <2>2 DEF TypeOK, WorkerTypeOK
<1>2. Delivered'
  BY <1>1, DeliveredStep
<1>3. StagesHoldTrue'
  BY <1>1, StagesStep
<1>4. Custody'
  BY <1>1, CustodyStep
<1>5. OneStoredReport' /\ RowsAreConverted'
  BY <1>1, OneStoredReportStep, RowsAreConvertedStep
<1>6. ParkedWithCause'
  BY <1>1, ParkedWithCauseStep
<1> QED
  BY <1>1, <1>2, <1>3, <1>4, <1>5, <1>6

\* In every reachable state the inductive invariant holds.
THEOREM InductiveInvariant == Spec => []IInv
BY InitIInv, NextIInv, PTL DEF Spec

\* The variables keep their types whatever the workers do.
THEOREM TypeCorrect == Spec => []TypeOK
<1>1. IInv => TypeOK
  BY DEF IInv
<1> QED
  BY <1>1, InductiveInvariant, PTL

\* An accepted event is unread, pending, stored, parked or trimmed: the
\* consumer acknowledges nothing that has not landed.
THEOREM CustodyKept == Spec => []Custody
<1>1. IInv => Custody
  BY DEF IInv
<1> QED
  BY <1>1, InductiveInvariant, PTL

\* What a loop is about to ack or to dead-letter deserves it.
THEOREM StagesSound == Spec => []StagesHoldTrue
<1>1. IInv => StagesHoldTrue
  BY DEF IInv
<1> QED
  BY <1>1, InductiveInvariant, PTL

\* At most one worker ever counts an event as stored, and then it is.
THEOREM StoredOnce == Spec => []OneStoredReport
<1>1. IInv => OneStoredReport
  BY DEF IInv
<1> QED
  BY <1>1, InductiveInvariant, PTL

\* Every row is a published payload that could be parsed and converted.
THEOREM RowsSound == Spec => []RowsAreConverted
<1>1. IInv => RowsAreConverted
  BY DEF IInv
<1> QED
  BY <1>1, InductiveInvariant, PTL

\* Every dead letter has its cause.
THEOREM DeadLettersSound == Spec => []ParkedWithCause
<1>1. IInv => ParkedWithCause
  BY DEF IInv
<1> QED
  BY <1>1, InductiveInvariant, PTL

\* Rows are written once and for all: at-least-once delivery, with races and
\* redeliveries, ends in exactly-once storage.
THEOREM StorageIsWriteOnce == Spec => FirstWriteWins
<1>1. IInv /\ [Next]_vars => [\A e \in EventId : rows[e] # NoRow => rows'[e] = rows[e]]_vars
  BY RowsStay DEF IInv, RowsKept
<1> QED
  BY <1>1, InductiveInvariant, PTL DEF Spec, FirstWriteWins

\* When MAXLEN is never reached, nothing at all is lost: this is the condition
\* under which the promise of consumer.py:84 holds.
THEOREM NothingIsLost == ASSUME MaxLen >= MaxEntries
                         PROVE  Spec => []NothingLost
<1> DEFINE Untrimmed == trimmed = 0
<1>1. Init => Untrimmed
  BY DEF Init, QueueInit
<1>2. IInv /\ Untrimmed /\ [Next]_vars => Untrimmed'
  <2> SUFFICES ASSUME IInv, trimmed = 0, [Next]_vars PROVE trimmed' = 0
    OBVIOUS
  <2>1. trimmed' = trimmed \/ \E p \in Payload : Publish(p)
    BY QueueStep
    DEF QueueMove, queueVars, Tick, XReadGroup, XAutoClaim, XAck, DeadLetter
  <2> QED
    BY <2>1, NoTrimStep DEF IInv, TypeOK
<1>3. IInv /\ Untrimmed => NothingLost
  BY DEF IInv, Custody, NothingLost, Landed, TypeOK, QueueTypeOK
<1> QED
  BY <1>1, <1>2, <1>3, InductiveInvariant, PTL DEF Spec

\* The whole pipeline, with its redeliveries, races and crashes, implements
\* the ledger: each event id recorded at most once and for good.
THEOREM LedgerImplemented == Spec => ImplementsLedger
<1>1. Init => L!LedgerInit
  BY InitIsLedger
<1>2. IInv /\ [Next]_vars => [L!LedgerNext]_(L!ledgerVars)
  BY NextIsLedger
<1> QED
  BY <1>1, <1>2, InductiveInvariant, PTL DEF Spec, ImplementsLedger, L!LedgerSpec

-----------------------------------------------------------------------------
(* What XPENDING can miss.                                                 *)

\* How a step moves entries between stages.
StageMove ==
  \/ UNCHANGED stage
  \/ \E s \in Slot, S \in SUBSET Id, st \in Stage \ {"queued"} : Move(s, S, st)
  \/ \E s \in Slot : Idling(s) /\ Move(s, NextBatch, "queued")
  \/ \E s \in Slot : Triage(s)
  \/ \E w \in Worker : Forget(w)

\* Only a read and the reply to XPENDING put entries into a batch.
LEMMA StageStep ==
  ASSUME TypeOK, [Next]_vars
  PROVE  StageMove
<1>1. ASSUME NEW s \in Slot, NEW m \in Id, Settle(s, m) PROVE StageMove
  BY <1>1 DEF Settle, StageMove, Stage
<1>2. ASSUME NEW s \in Slot, NEW m \in Id, TransientFailure(s, m) PROVE StageMove
  <2>1. CASE Exhausted(tries[s][m])
    BY <1>1, <1>2, <2>1 DEF TransientFailure
  <2>2. CASE ~Exhausted(tries[s][m])
    BY <1>2, <2>2 DEF TransientFailure, StageMove
  <2> QED
    BY <2>1, <2>2
<1>3. CASE Producer \/ TimePasses \/ UNCHANGED vars
  BY <1>3 DEF Producer, TimePasses, vars, workerVars, StageMove
<1>4. ASSUME NEW s \in Slot,
             LeaveLoop(s) \/ ReadLost(s) \/ ReadNothing(s) \/ ClaimLost(s)
      PROVE  StageMove
  BY <1>4 DEF LeaveLoop, ReadLost, ReadNothing, ClaimLost, vars, workerVars, StageMove
<1>5. ASSUME NEW s \in Slot, Read(s) PROVE StageMove
  BY <1>5 DEF Read, StageMove
<1>6. ASSUME NEW s \in Slot, Claim(s) PROVE StageMove
  <2>1. Claimed \in SUBSET Id
    BY DEF Claimed, Candidates, Scanned, Lowest, Pending
  <2> QED
    BY <1>6, <2>1 DEF Claim, StageMove, Stage
<1>7. ASSUME NEW s \in Slot, Triage(s) PROVE StageMove
  BY <1>7 DEF StageMove
<1>8. ASSUME NEW s \in Slot, TriageFails(s) \/ Finish(s) PROVE StageMove
  <2>1. At(s, "claimed") \in SUBSET Id /\ Held(s) \in SUBSET Id
    BY DEF At, Held
  <2> QED
    BY <1>8, <2>1 DEF TriageFails, Finish, StageMove, Stage
<1>9. ASSUME NEW s \in Slot, NEW m \in Id, BuryExcess(s, m) \/ Bury(s, m) \/ AttemptBreaks(s, m)
      PROVE  StageMove
  BY <1>1, <1>9 DEF BuryExcess, Bury, AttemptBreaks
<1>10. ASSUME NEW s \in Slot, NEW m \in Id,
              Start(s, m) \/ AttemptStores(s, m) \/ AttemptIsHopeless(s, m)
       PROVE  StageMove
  <2>1. {m} \in SUBSET Id
    OBVIOUS
  <2> QED
    BY <1>10, <2>1 DEF Start, AttemptStores, AttemptIsHopeless, StageMove, Stage
<1>11. ASSUME NEW s \in Slot, NEW m \in Id, AttemptStoresUnheard(s, m) \/ AttemptFails(s, m)
       PROVE  StageMove
  BY <1>2, <1>11 DEF AttemptStoresUnheard, AttemptFails
<1>12. ASSUME NEW w \in Worker, Crash(w) \/ RequestStop(w) \/ Boot(w) PROVE StageMove
  BY <1>12 DEF Crash, RequestStop, Boot, StageMove
<1> QED
  BY <1>3, <1>4, <1>5, <1>6, <1>7, <1>8, <1>9, <1>10, <1>11, <1>12
  DEF Next, SlotStep, MessageStep

\* Claimed entries are put into the batch by Triage alone.
LEMMA OnlyTriageQueues ==
  ASSUME TypeOK, [Next]_vars, NEW s \in Slot, NEW m \in Id,
         stage[s][m] = "claimed", stage'[s][m] = "queued"
  PROVE  ~OverCap(ReportedCount(s[1], At(s, "claimed"), m))
<1>0. WorkerTypeOK /\ stage'[s][m] # stage[s][m]
  BY TypeParts
<1>1. ASSUME NEW t \in Slot, NEW S \in SUBSET Id, NEW st \in Stage \ {"queued"}, Move(t, S, st)
      PROVE  FALSE
  BY <1>0, <1>1, MoveEffect
<1>2. ASSUME NEW t \in Slot, Idling(t), Move(t, NextBatch, "queued") PROVE FALSE
  <2>1. t = s
    BY <1>0, <1>2, MoveEffect
  <2>2. m \in Held(s)
    BY DEF Held
  <2> QED
    BY <1>2, <2>1, <2>2 DEF Idling
<1>3. ASSUME NEW w \in Worker, Forget(w) PROVE FALSE
  BY <1>0, <1>3 DEF Forget
<1>4. ASSUME NEW t \in Slot, Triage(t)
      PROVE  ~OverCap(ReportedCount(s[1], At(s, "claimed"), m))
  <2>1. t = s
    BY <1>0, <1>4 DEF Triage, TypeOK
  <2>2. m \in At(s, "claimed")
    BY DEF At
  <2> QED
    BY <1>4, <2>1, <2>2 DEF Triage, TypeOK
<1> QED
  BY <1>0, <1>1, <1>2, <1>3, <1>4, StageStep DEF StageMove

\* XPENDING tells the count of an entry of a batch unless an older entry of
\* the worker is not in the batch.
LEMMA CountsCrowdedOut ==
  ASSUME NEW w \in Worker, NEW C \in SUBSET Id, NEW m \in C, owner[m] = w,
         ReportedCount(w, C, m) # deliveries[m]
  PROVE  \E k \in OwnedBy(w) : k < m /\ k \notin C
<1> SUFFICES ASSUME \A k \in OwnedBy(w) : k < m => k \in C PROVE FALSE
  OBVIOUS
<1> DEFINE O == {k \in OwnedBy(w) : k < m}
<1>1. IsFiniteSet(C)
  <2>1. IsFiniteSet(Id)
    BY QueueAssumption, FS_Interval DEF Id
  <2> QED
    BY <2>1, FS_Subset
<1>2. Cardinality(C) \in Nat
  BY <1>1, FS_CardinalityType
<1>3. O \in SUBSET (C \ {m})
  BY DEF Id
<1>4. IsFiniteSet(C \ {m}) /\ Cardinality(C \ {m}) = Cardinality(C) - 1
  BY <1>1, FS_RemoveElement
<1> HIDE DEF O
<1>5. IsFiniteSet(O) /\ Cardinality(O) <= Cardinality(C \ {m})
  BY <1>3, <1>4, FS_Subset
<1>6. Cardinality(O) < Cardinality(C)
  <2>1. Cardinality(O) \in Nat
    BY <1>5, FS_CardinalityType
  <2> QED
    BY <1>2, <1>4, <1>5, <2>1
<1>7. m \in Lowest(OwnedBy(w), Cardinality(C))
  BY <1>6 DEF Lowest, OwnedBy, O
<1> QED
  BY <1>7 DEF ReportedCount

\* An entry over the cap is only ever processed again when an older entry of
\* its worker has crowded it out of the XPENDING reply.
THEOREM CapMissedOnlyIfCrowdedOut == Spec => OverCapOnlyIfCrowdedOut
<1>1. IInv /\ [Next]_vars =>
        [\A s \in Slot, m \in Id :
           (stage[s][m] = "claimed" /\ stage'[s][m] = "queued" /\ owner[m] = s[1]
              /\ deliveries[m] > MaxDeliveries)
             => \E k \in OwnedBy(s[1]) : k < m /\ k \notin At(s, "claimed")]_vars
  <2> SUFFICES ASSUME IInv, [Next]_vars, NEW s \in Slot, NEW m \in Id,
                      stage[s][m] = "claimed", stage'[s][m] = "queued", owner[m] = s[1],
                      deliveries[m] > MaxDeliveries
               PROVE  \E k \in OwnedBy(s[1]) : k < m /\ k \notin At(s, "claimed")
    OBVIOUS
  <2>1. ~OverCap(ReportedCount(s[1], At(s, "claimed"), m))
    BY OnlyTriageQueues DEF IInv
  <2>2. ReportedCount(s[1], At(s, "claimed"), m) # deliveries[m]
    BY <2>1 DEF OverCap
  <2>3. At(s, "claimed") \in SUBSET Id /\ m \in At(s, "claimed") /\ s[1] \in Worker
    BY SlotParts DEF At
  <2> QED
    BY <2>2, <2>3, CountsCrowdedOut
<1> QED
  BY <1>1, InductiveInvariant, PTL DEF Spec, OverCapOnlyIfCrowdedOut
=============================================================================
