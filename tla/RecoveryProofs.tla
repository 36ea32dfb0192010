--------------------------- MODULE RecoveryProofs ---------------------------
(***************************************************************************)
(* What was on disk survives, for any API and worker processes, entries    *)
(* and outages.                                                            *)
(***************************************************************************)
EXTENDS Recovery, TLAPS

\* The variables of the processes and batches keep their types.
ProcessTypeOK ==
  /\ down \subseteq Dependency /\ table \in BOOLEAN
  /\ phase \in [Process -> Phase]
  /\ attempt \in [Process -> 1..STARTUP_MAX_ATTEMPTS]
  /\ held \in [Slot -> SUBSET Id] /\ done \in [Slot -> SUBSET Id]
  /\ posted \in 0..MaxEntries /\ faults \in 0..MaxFaults

\* What the properties are about: the queue before and after a crash, the rows
\* and what is going to be acked.
StoreTypeOK == redis \in RedisState /\ disk \in RedisState /\ rows \subseteq Id

StoreInv ==
  /\ StoreTypeOK
  /\ Accounted(redis) /\ Accounted(disk)
  /\ Numbered(redis) /\ Numbered(disk)
  /\ disk.stream \subseteq redis.stream
  /\ \A s \in Slot : done[s] \subseteq rows

\* The two halves of the invariant.
LEMMA InvParts == RecoveryInv <=> ProcessTypeOK /\ StoreInv
BY DEF RecoveryInv, ProcessTypeOK, StoreInv, StoreTypeOK, TypeOK

\* Nothing is lost, and nothing needs an ack, before the first step.
LEMMA InitRecoveryInv == Init => RecoveryInv
<1> SUFFICES ASSUME Init PROVE RecoveryInv
  OBVIOUS
<1>1. NoData \in RedisState
  BY RecoveryAssumption DEF NoData, RedisState
<1>2. 1 \in 1..STARTUP_MAX_ATTEMPTS /\ 0 \in 0..MaxEntries /\ 0 \in 0..MaxFaults
  BY RecoveryAssumption
<1>3. "down" \in Phase
  BY DEF Phase
<1>4. TypeOK
  BY <1>1, <1>2, <1>3 DEF Init, TypeOK
<1> QED
  BY <1>4 DEF Init, NoData, RecoveryInv, Accounted, Numbered

\* A new phase and a fault keep the types of the processes.
LEMMA EnterType ==
  ASSUME ProcessTypeOK, NEW p \in Process, NEW ph \in Phase, Enter(p, ph)
  PROVE  phase' \in [Process -> Phase]
BY DEF ProcessTypeOK, Enter

LEMMA FaultType ==
  ASSUME ProcessTypeOK, Fault \/ NoFault
  PROVE  faults' \in 0..MaxFaults
BY RecoveryAssumption DEF ProcessTypeOK, Fault, NoFault

\* A step of a slot touches its own batch only.
LEMMA SlotType ==
  ASSUME NEW s \in Slot, NEW f \in [Slot -> SUBSET Id], NEW S \in SUBSET Id
  PROVE  [f EXCEPT ![s] = S] \in [Slot -> SUBSET Id]
OBVIOUS

-----------------------------------------------------------------------------
\* Start-up, batches, crashes and outages keep the types of the processes.
LEMMA NextProcessType ==
  ASSUME ProcessTypeOK, StoreTypeOK, [Next]_vars
  PROVE  ProcessTypeOK'
<1>a. {"down", "pinging", "selecting", "checking", "creating", "ensuring",
       "serving"} = Phase
  BY DEF Phase
<1> USE DEF ProcessTypeOK
<1>1. ASSUME NEW p \in Process, StartupStep(p) PROVE ProcessTypeOK'
  <2>1. CASE Start(p)
    <3>1. phase' \in [Process -> Phase]
      BY <2>1, <1>a, EnterType DEF Start
    <3>2. attempt' \in [Process -> 1..STARTUP_MAX_ATTEMPTS]
      BY <2>1, RecoveryAssumption DEF Start
    <3> QED
      BY <2>1, <3>1, <3>2 DEF Start, NoFault, batchVars
  <2>2. CASE NotReady(p)
    <3>1. phase' \in [Process -> Phase]
      BY <2>2, <1>a, EnterType DEF NotReady
    <3>2. attempt' \in [Process -> 1..STARTUP_MAX_ATTEMPTS]
      BY <2>2, RecoveryAssumption DEF NotReady
    <3> QED
      BY <2>2, <3>1, <3>2 DEF NotReady, NoFault, batchVars
  <2>3. CASE Ping(p) \/ Select(p) \/ CheckTable(p) \/ CreateTable(p) \/ StartupFails(p)
    <3>1. phase' \in [Process -> Phase]
      BY <2>3, <1>a, EnterType DEF Ping, Select, CheckTable, CreateTable, StartupFails
    <3>2. table' \in BOOLEAN
      BY <2>3 DEF Ping, Select, CheckTable, CreateTable, StartupFails
    <3>3. UNCHANGED <<down, attempt, held, done, posted, faults>>
      BY <2>3 DEF Ping, Select, CheckTable, CreateTable, StartupFails, OnlyPhase,
                  NoFault, batchVars
    <3> QED
      BY <3>1, <3>2, <3>3
  <2>4. CASE EnsureGroup(p)
    <3>1. phase' \in [Process -> Phase]
      BY <2>4, <1>a, EnterType DEF EnsureGroup
    <3> QED
      BY <2>4, <3>1 DEF EnsureGroup, NoFault, batchVars
  <2> QED
    BY <1>1, <2>1, <2>2, <2>3, <2>4 DEF StartupStep
<1>2. ASSUME NEW p \in Process, Crash(p) PROVE ProcessTypeOK'
  <2>1. phase' \in [Process -> Phase]
    BY <1>2, <1>a, EnterType DEF Crash
  <2>2. faults' \in 0..MaxFaults
    BY <1>2, FaultType DEF Crash
  <2>3. held' \in [Slot -> SUBSET Id] /\ done' \in [Slot -> SUBSET Id]
    BY <1>2 DEF Crash
  <2> QED
    BY <1>2, <2>1, <2>2, <2>3 DEF Crash
<1>3. ASSUME NEW p \in Api, Post(p) PROVE ProcessTypeOK'
  BY <1>3, RecoveryAssumption DEF Post, NoFault, processVars, batchVars
<1>4. ASSUME NEW s \in Slot, SlotStep(s) PROVE ProcessTypeOK'
  <2>1. CASE Read(s)
    <3>1. PICK last \in Unread(redis) :
            held' = [held EXCEPT ![s] = {n \in Unread(redis) : n <= last}]
      BY <2>1 DEF Read
    <3>2. {n \in Unread(redis) : n <= last} \in SUBSET Id
      BY DEF Unread, StoreTypeOK, RedisState
    <3>3. held' \in [Slot -> SUBSET Id]
      BY <3>1, <3>2, SlotType
    <3> QED
      BY <2>1, <3>3 DEF Read, NoFault, processVars
  <2>2. CASE Reclaim(s)
    <3>1. PICK batch \in SUBSET redis.pending : held' = [held EXCEPT ![s] = batch]
      BY <2>2 DEF Reclaim
    <3>2. held' \in [Slot -> SUBSET Id]
      BY <3>1, SlotType DEF StoreTypeOK, RedisState
    <3> QED
      BY <2>2, <3>2 DEF Reclaim, NoFault, processVars
  <2>3. CASE Ack(s)
    BY <2>3 DEF Ack, NoFault, processVars
  <2>4. CASE ReadFails(s) \/ ReadNothing(s)
    BY <2>4 DEF ReadFails, ReadNothing, vars, processVars, batchVars
  <2>5. ASSUME NEW n \in Id, Store(s, n) \/ Bury(s, n) \/ GiveUp(s, n)
        PROVE  ProcessTypeOK'
    <3>1. held' = [held EXCEPT ![s] = held[s] \ {n}]
      BY <2>5 DEF Store, Bury, GiveUp, Drop
    <3>2. held' \in [Slot -> SUBSET Id]
      BY <3>1, SlotType
    <3>3. done' = done \/ done' = [done EXCEPT ![s] = done[s] \cup {n}]
      BY <2>5 DEF Store, Bury, GiveUp
    <3>4. done' \in [Slot -> SUBSET Id]
      BY <3>3, SlotType
    <3> QED
      BY <2>5, <3>2, <3>4 DEF Store, Bury, GiveUp, NoFault, processVars
  <2> QED
    BY <1>4, <2>1, <2>2, <2>3, <2>4, <2>5 DEF SlotStep
<1>5. CASE Fsync
  BY <1>5 DEF Fsync, NoFault, processVars, batchVars
<1>6. ASSUME NEW d \in Dependency, GoesDown(d) PROVE ProcessTypeOK'
  <2>1. faults' \in 0..MaxFaults
    BY <1>6, FaultType DEF GoesDown
  <2> QED
    BY <1>6, <2>1 DEF GoesDown, processVars, batchVars
<1>7. ASSUME NEW d \in Dependency, ComesUp(d) PROVE ProcessTypeOK'
  BY <1>7 DEF ComesUp, NoFault, processVars, batchVars
<1>8. CASE UNCHANGED vars
  BY <1>8 DEF vars, processVars, batchVars
<1> QED
  BY <1>1, <1>2, <1>3, <1>4, <1>5, <1>6, <1>7, <1>8 DEF Next

-----------------------------------------------------------------------------
\* Redis after a command of a worker or of the API: the stream only grows, by
\* entries new to the group, and what leaves the workers' reach is stored or
\* dead-lettered.
Follows(S) ==
  /\ redis' \in RedisState /\ Numbered(redis)'
  /\ redis.stream \subseteq redis'.stream
  /\ redis.dlq \subseteq redis'.dlq
  /\ \A n \in redis'.stream :
       n \in redis.stream /\ n \in Available(redis) \ S => n \in Available(redis')
  /\ \A n \in redis'.stream \ redis.stream : n \in Available(redis')

\* Such a command keeps everything accounted for, with the rows it adds.
LEMMA CommandKeeps ==
  ASSUME ProcessTypeOK, StoreInv, disk' = disk, posted <= posted', posted' \in Nat,
         rows \subseteq rows', rows' \subseteq Id,
         NEW S, \A n \in S : n \in rows \/ n \in redis'.dlq, Follows(S),
         \A s \in Slot : done'[s] \subseteq rows'
  PROVE  StoreInv'
<1>1. StoreTypeOK'
  BY DEF StoreInv, StoreTypeOK, Follows
<1>2. Accounted(redis)'
  BY DEF StoreInv, Accounted, Follows
<1>3. Accounted(disk)'
  BY DEF StoreInv, Accounted, Available, Unread
<1>4. Numbered(disk)'
  BY DEF StoreInv, StoreTypeOK, Numbered, RedisState, ProcessTypeOK
<1> QED
  BY <1>1, <1>2, <1>3, <1>4 DEF StoreInv, Follows

\* So does a step that leaves Redis alone.
LEMMA RedisUntouched ==
  ASSUME ProcessTypeOK, StoreInv, UNCHANGED <<redis, disk, posted>>,
         rows \subseteq rows', rows' \subseteq Id,
         \A s \in Slot : done'[s] \subseteq rows'
  PROVE  StoreInv'
<1>1. Follows({})
  BY DEF StoreInv, StoreTypeOK, Follows, Numbered, Available, Unread
<1>2. posted <= posted' /\ posted' \in Nat
  BY RecoveryAssumption DEF ProcessTypeOK
<1> QED
  BY <1>1, <1>2, CommandKeeps

\* Each step of the system keeps everything accounted for.
LEMMA NextStoreInv ==
  ASSUME ProcessTypeOK, StoreInv, [Next]_vars
  PROVE  StoreInv'
<1>t. redis \in RedisState /\ disk \in RedisState /\ rows \subseteq Id
  BY DEF StoreInv, StoreTypeOK
<1>d. \A s \in Slot : done[s] \subseteq rows
  BY DEF StoreInv
<1>n. Numbered(redis) /\ posted \in 0..MaxEntries /\ posted \in Nat
  BY RecoveryAssumption DEF StoreInv, ProcessTypeOK
<1>1. ASSUME NEW p \in Process, StartupStep(p) PROVE StoreInv'
  <2>1. UNCHANGED <<disk, rows, done, posted>>
    BY <1>1 DEF StartupStep, Start, Ping, Select, NotReady, CheckTable, CreateTable,
                EnsureGroup, StartupFails, OnlyPhase, queueVars, batchVars
  <2>2. CASE EnsureGroup(p) /\ ~redis.group
    <3>1. redis' = [redis EXCEPT !.group = TRUE, !.cursor = 0]
      BY <2>2 DEF EnsureGroup, GroupAtStart
    <3>a. 0 \in 0..MaxEntries
      BY RecoveryAssumption
    <3>2. redis' \in RedisState
      BY <3>1, <3>a, <1>t DEF RedisState
    <3>3. redis'.stream = redis.stream /\ redis'.dlq = redis.dlq
          /\ redis'.cursor = 0 /\ redis'.group
      BY <3>1, <1>t DEF RedisState
    <3>4. \A n \in redis'.stream : n \in Available(redis')
      BY <3>2, <3>3 DEF Available, Unread, RedisState, Id
    <3>5. Follows({})
      BY <2>1, <3>2, <3>3, <3>4, <1>n DEF Follows, Numbered
    <3> QED
      BY <2>1, <3>5, <1>t, <1>d, <1>n, CommandKeeps
  <2>3. CASE ~(EnsureGroup(p) /\ ~redis.group)
    <3>1. redis' = redis
      BY <1>1, <2>3
      DEF StartupStep, Start, Ping, Select, NotReady, CheckTable, CreateTable,
          EnsureGroup, StartupFails, OnlyPhase, queueVars
    <3> QED
      BY <2>1, <3>1, <1>t, <1>d, RedisUntouched
  <2> QED
    BY <2>2, <2>3
<1>2. ASSUME NEW p \in Process, Crash(p) PROVE StoreInv'
  <2>1. UNCHANGED <<redis, disk, rows, posted>> /\ \A s \in Slot : done'[s] \subseteq rows
    BY <1>2, <1>d DEF Crash, queueVars
  <2> QED
    BY <2>1, <1>t, RedisUntouched
<1>3. ASSUME NEW p \in Api, Post(p) PROVE StoreInv'
  <2>1. posted + 1 \in Id /\ redis.cursor <= posted /\ redis.cursor \in Nat
    BY <1>3, <1>t, <1>n, RecoveryAssumption DEF Post, Id, Numbered, RedisState
  <2>2. redis' = [redis EXCEPT !.stream = redis.stream \cup {posted + 1}]
        /\ posted' = posted + 1 /\ UNCHANGED <<disk, rows, done>>
    BY <1>3 DEF Post, batchVars
  <2>3. redis' \in RedisState
    BY <2>1, <2>2, <1>t DEF RedisState
  <2>4. /\ redis'.stream = redis.stream \cup {posted + 1}
        /\ redis'.dlq = redis.dlq /\ redis'.cursor = redis.cursor
        /\ redis'.group = redis.group /\ redis'.pending = redis.pending
    BY <2>2, <1>t DEF RedisState
  <2>5. Numbered(redis)'
    BY <2>1, <2>2, <2>4, <1>n DEF Numbered
  <2>6. posted + 1 \in Available(redis')
    BY <2>1, <2>4, <1>n DEF Available, Unread
  <2>7. \A n \in Available(redis) : n \in Available(redis')
    BY <2>4 DEF Available, Unread
  <2>8. Follows({})
    BY <2>3, <2>4, <2>5, <2>6, <2>7 DEF Follows
  <2> QED
    BY <2>2, <2>8, <1>t, <1>d, <1>n, CommandKeeps
<1>4. ASSUME NEW s \in Slot, SlotStep(s) PROVE StoreInv'
  <2>1. CASE Read(s)
    <3>1. PICK last \in Unread(redis) :
            redis' = [redis EXCEPT !.cursor = last,
                        !.pending = @ \cup {n \in Unread(redis) : n <= last}]
      BY <2>1 DEF Read
    <3>2. UNCHANGED <<disk, rows, done, posted>> /\ redis.group
      BY <2>1 DEF Read
    <3>3. last \in redis.stream /\ last \in Id /\ last \in 1..posted
      BY <1>t, <1>n DEF Unread, RedisState, Numbered
    <3>a. last \in 0..MaxEntries
      BY <3>3, RecoveryAssumption DEF Id
    <3>b. {n \in Unread(redis) : n <= last} \subseteq Id
      BY <1>t DEF Unread, RedisState
    <3>4. redis' \in RedisState
      BY <3>1, <3>a, <3>b, <1>t DEF RedisState
    <3>5. /\ redis'.stream = redis.stream /\ redis'.dlq = redis.dlq
          /\ redis'.cursor = last /\ redis'.group = redis.group
          /\ redis'.pending = redis.pending \cup {n \in Unread(redis) : n <= last}
      BY <3>1, <1>t DEF RedisState
    <3>6. \A n \in redis.stream : n \in Nat
      BY <1>t DEF RedisState, Id
    <3>7. \A n \in redis.stream : n \in Available(redis) => n \in Available(redis')
      BY <3>2, <3>3, <3>5, <3>6 DEF Available, Unread
    <3>8. Follows({})
      BY <3>2, <3>3, <3>4, <3>5, <3>7, <1>n DEF Follows, Numbered
    <3> QED
      BY <3>2, <3>8, <1>t, <1>d, <1>n, CommandKeeps
  <2>2. CASE ReadFails(s) \/ ReadNothing(s) \/ Reclaim(s)
    <3>1. UNCHANGED <<redis, disk, rows, done, posted>>
      BY <2>2 DEF ReadFails, ReadNothing, Reclaim, vars, queueVars, batchVars
    <3> QED
      BY <3>1, <1>t, <1>d, RedisUntouched
  <2>3. CASE Ack(s) /\ Up("redis")
    <3>1. redis' = [redis EXCEPT !.pending = redis.pending \ done[s]]
          /\ UNCHANGED <<disk, rows, posted>>
      BY <2>3 DEF Ack
    <3>2. \A x \in Slot : done'[x] \subseteq rows
      BY <2>3, <1>d DEF Ack, ProcessTypeOK
    <3>3. redis' \in RedisState
      BY <3>1, <1>t DEF RedisState
    <3>4. /\ redis'.stream = redis.stream /\ redis'.dlq = redis.dlq
          /\ redis'.cursor = redis.cursor /\ redis'.group = redis.group
          /\ redis'.pending = redis.pending \ done[s]
      BY <3>1, <1>t DEF RedisState
    <3>5. Follows(done[s])
      BY <3>1, <3>3, <3>4, <1>n DEF Follows, Numbered, Available, Unread
    <3> QED
      BY <3>1, <3>2, <3>5, <1>t, <1>d, <1>n, CommandKeeps
  <2>4. CASE Ack(s) /\ ~Up("redis")
    <3>1. UNCHANGED <<redis, disk, rows, posted>>
      BY <2>4 DEF Ack
    <3>2. \A x \in Slot : done'[x] \subseteq rows
      BY <2>4, <1>d DEF Ack, ProcessTypeOK
    <3> QED
      BY <3>1, <3>2, <1>t, RedisUntouched
  <2>5. ASSUME NEW n \in Id, Store(s, n) PROVE StoreInv'
    <3>1. UNCHANGED <<redis, disk, posted>> /\ rows' = rows \cup {n}
          /\ done' = [done EXCEPT ![s] = done[s] \cup {n}]
      BY <2>5 DEF Store, queueVars
    <3>2. \A x \in Slot : done'[x] \subseteq rows'
      BY <3>1, <1>d DEF ProcessTypeOK
    <3> QED
      BY <3>1, <3>2, <1>t, RedisUntouched
  <2>6. ASSUME NEW n \in Id, Bury(s, n) PROVE StoreInv'
    <3>1. redis' = [redis EXCEPT !.pending = redis.pending \ {n}, !.dlq = redis.dlq \cup {n}]
          /\ UNCHANGED <<disk, rows, done, posted>>
      BY <2>6 DEF Bury, ParkedDead
    <3>2. redis' \in RedisState
      BY <3>1, <1>t DEF RedisState
    <3>3. /\ redis'.stream = redis.stream /\ redis'.dlq = redis.dlq \cup {n}
          /\ redis'.cursor = redis.cursor /\ redis'.group = redis.group
          /\ redis'.pending = redis.pending \ {n}
      BY <3>1, <1>t DEF RedisState
    <3>4. Follows({n})
      BY <3>1, <3>2, <3>3, <1>n DEF Follows, Numbered, Available, Unread
    <3> QED
      BY <3>1, <3>3, <3>4, <1>t, <1>d, <1>n, CommandKeeps
  <2>7. ASSUME NEW n \in Id, GiveUp(s, n) PROVE StoreInv'
    <3>1. UNCHANGED <<redis, disk, rows, done, posted>>
      BY <2>7 DEF GiveUp, queueVars
    <3> QED
      BY <3>1, <1>t, <1>d, RedisUntouched
  <2> QED
    BY <1>4, <2>1, <2>2, <2>3, <2>4, <2>5, <2>6, <2>7 DEF SlotStep
<1>5. CASE Fsync
  <2>1. UNCHANGED <<redis, rows, done, posted>> /\ disk' = redis
    BY <1>5 DEF Fsync, batchVars
  <2> QED
    BY <2>1 DEF StoreInv, StoreTypeOK, Accounted, Available, Unread, Numbered
<1>6. ASSUME NEW d \in Dependency, GoesDown(d) PROVE StoreInv'
  <2>1. UNCHANGED <<disk, rows, done, posted>> /\ redis' \in {redis, disk}
    BY <1>6 DEF GoesDown, batchVars
  <2> QED
    BY <2>1 DEF StoreInv, StoreTypeOK, Accounted, Available, Unread, Numbered
<1>7. ASSUME NEW d \in Dependency, ComesUp(d) PROVE StoreInv'
  <2>1. UNCHANGED <<redis, disk, rows, done, posted>>
    BY <1>7 DEF ComesUp, queueVars, batchVars
  <2> QED
    BY <2>1, <1>t, <1>d, RedisUntouched
<1>8. CASE UNCHANGED vars
  <2>1. UNCHANGED <<redis, disk, rows, done, posted>>
    BY <1>8 DEF vars, queueVars, batchVars
  <2> QED
    BY <2>1, <1>t, <1>d, RedisUntouched
<1> QED
  BY <1>1, <1>2, <1>3, <1>4, <1>5, <1>6, <1>7, <1>8 DEF Next

-----------------------------------------------------------------------------
\* Start-up, batches, crashes, losses and outages keep the invariant.
LEMMA NextRecoveryInv == RecoveryInv /\ [Next]_vars => RecoveryInv'
<1> SUFFICES ASSUME RecoveryInv, [Next]_vars PROVE RecoveryInv'
  OBVIOUS
<1>1. ProcessTypeOK /\ StoreInv
  BY InvParts
<1>2. ProcessTypeOK' /\ StoreInv'
  BY <1>1, NextProcessType, NextStoreInv DEF StoreInv
<1> QED
  BY <1>2 DEF RecoveryInv, ProcessTypeOK, StoreInv, StoreTypeOK, TypeOK

\* The inductive invariant of start-up and recovery holds throughout.
THEOREM RecoveryInvariant == Spec => []RecoveryInv
BY InitRecoveryInv, NextRecoveryInv, PTL DEF Spec

\* An entry that was on disk once is stored, dead-lettered or still to be had by
\* a worker, for any number of processes, entries, crashes and outages.
THEOREM SyncedEntriesSurvive == Spec => []SyncedSurvives
<1>1. RecoveryInv => SyncedSurvives
  BY DEF RecoveryInv, Accounted, SyncedSurvives
<1> QED
  BY <1>1, RecoveryInvariant, PTL
=============================================================================
