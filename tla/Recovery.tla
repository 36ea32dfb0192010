------------------------------ MODULE Recovery ------------------------------
(***************************************************************************)
(* Start-up of the API (main.lifespan) and of the workers (worker.main),   *)
(* and a Redis that stops and may come back without the last second of its *)
(* data: docker-compose.yml runs it with --appendfsync everysec.           *)
(*                                                                         *)
(* Of the queue only what survives or not is kept: an entry is its number, *)
(* every entry is an event of its own, and a worker's reasons to store or  *)
(* to dead-letter are EventConsumer's.  `redis` is what Redis holds, or    *)
(* will come back with; `disk` what its append-only file holds for sure.   *)
(* XADD never gives an id a second time, for ids follow the clock.         *)
(***************************************************************************)
EXTENDS Integers, FiniteSets

CONSTANTS
  Api,                   \* the API processes
  Worker,                \* the worker processes
  STARTUP_MAX_ATTEMPTS,
  MaxEntries,            \* bound: XADDs in a behaviour
  MaxFaults              \* bound: crashes and outages in a behaviour

ASSUME RecoveryAssumption ==
  /\ Api \cap Worker = {}
  /\ STARTUP_MAX_ATTEMPTS \in Nat \ {0}
  /\ MaxEntries \in Nat /\ MaxFaults \in Nat

Process == Api \cup Worker
Dependency == {"redis", "postgres"}
Slot == Worker \X {"consume", "reclaim"}
Id == 1..MaxEntries

Phase == {"down", "pinging", "selecting", "checking", "creating", "ensuring",
          "serving"}

VARIABLES
  redis,    \* stream, group, cursor, pending list and dead-letter stream
  disk,     \* an earlier value of redis that cannot be lost
  down,     \* the dependencies that do not answer
  table,    \* the table exists
  rows,     \* the entries whose event is stored
  phase,    \* per process
  attempt,  \* per process: the attempt of wait_for_dependencies
  held,     \* per slot: entries of its batch that are being processed
  done,     \* per slot: entries of its batch whose row is committed
  posted,   \* entries 1..posted were added, and answered with 202
  faults    \* faults so far

queueVars == <<redis, disk>>
processVars == <<phase, attempt>>
batchVars == <<held, done>>
vars == <<queueVars, down, table, rows, processVars, batchVars, posted, faults>>

RedisState ==
  [stream : SUBSET Id, group : BOOLEAN, cursor : 0..MaxEntries,
   pending : SUBSET Id, dlq : SUBSET Id]

TypeOK ==
  /\ redis \in RedisState /\ disk \in RedisState
  /\ down \subseteq Dependency /\ table \in BOOLEAN
  /\ rows \subseteq Id
  /\ phase \in [Process -> Phase]
  /\ attempt \in [Process -> 1..STARTUP_MAX_ATTEMPTS]
  /\ held \in [Slot -> SUBSET Id] /\ done \in [Slot -> SUBSET Id]
  /\ posted \in 0..MaxEntries /\ faults \in 0..MaxFaults

NoData ==
  [stream |-> {}, group |-> FALSE, cursor |-> 0, pending |-> {}, dlq |-> {}]

\* Empty volumes, and containers that come up in any order.
Init ==
  /\ redis = NoData /\ disk = NoData
  /\ down \in SUBSET Dependency
  /\ table = FALSE /\ rows = {}
  /\ phase = [p \in Process |-> "down"]
  /\ attempt = [p \in Process |-> 1]
  /\ held = [s \in Slot |-> {}] /\ done = [s \in Slot |-> {}]
  /\ posted = 0 /\ faults = 0

Up(d) == d \notin down
Serving(p) == phase[p] = "serving"
Enter(p, ph) == phase' = [phase EXCEPT ![p] = ph]

Fault == faults < MaxFaults /\ faults' = faults + 1
NoFault == UNCHANGED faults

-----------------------------------------------------------------------------
(* Start-up.  The API goes straight to init_db.                            *)
Start(p) ==
  /\ phase[p] = "down"
  /\ Enter(p, IF p \in Worker THEN "pinging" ELSE "checking")
  /\ attempt' = [attempt EXCEPT ![p] = 1]
  /\ NoFault /\ UNCHANGED <<queueVars, down, table, rows, batchVars, posted>>

OnlyPhase ==
  NoFault /\ UNCHANGED <<queueVars, down, rows, batchVars, attempt, posted>>

\* wait_for_dependencies: PING, then SELECT 1.
Ping(p) ==
  /\ phase[p] = "pinging" /\ Up("redis")
  /\ Enter(p, "selecting")
  /\ OnlyPhase /\ UNCHANGED table

Select(p) ==
  /\ phase[p] = "selecting" /\ Up("postgres")
  /\ Enter(p, "checking")
  /\ OnlyPhase /\ UNCHANGED table

\* One of them fails: another attempt, or RuntimeError and the process ends.
NotReady(p) ==
  /\ \/ phase[p] = "pinging" /\ ~Up("redis")
     \/ phase[p] = "selecting" /\ ~Up("postgres")
  /\ IF attempt[p] = STARTUP_MAX_ATTEMPTS
     THEN Enter(p, "down") /\ UNCHANGED attempt
     ELSE Enter(p, "pinging") /\ attempt' = [attempt EXCEPT ![p] = @ + 1]
  /\ NoFault /\ UNCHANGED <<queueVars, down, table, rows, batchVars, posted>>

\* init_db: create_all asks whether the table is there, ...
CheckTable(p) ==
  /\ phase[p] = "checking" /\ Up("postgres")
  /\ Enter(p, IF table THEN "ensuring" ELSE "creating")
  /\ OnlyPhase /\ UNCHANGED table

\* ... and creates it.  Who comes second gets an error and the process ends.
\* (Bug variant: CREATE TABLE is tried again and again.)
CreateTableStubborn(p) ==
  /\ phase[p] = "creating" /\ Up("postgres")
  /\ Enter(p, IF table THEN "creating" ELSE "ensuring")
  /\ table' = TRUE
  /\ OnlyPhase
CreateTable(p) ==
  /\ phase[p] = "creating" /\ Up("postgres")
  /\ Enter(p, IF table THEN "down" ELSE "ensuring")
  /\ table' = TRUE
  /\ OnlyPhase

\* XGROUP CREATE .. id="0" MKSTREAM; BUSYGROUP is fine.
\* (Bug variant: id="$", the end of the stream.)
GroupAtEnd == [redis EXCEPT !.group = TRUE, !.cursor = posted]
GroupAtStart == [redis EXCEPT !.group = TRUE, !.cursor = 0]

EnsureGroup(p) ==
  /\ phase[p] = "ensuring" /\ Up("redis")
  /\ redis' = IF redis.group THEN redis ELSE GroupAtStart
  /\ Enter(p, "serving")
  /\ NoFault
  /\ UNCHANGED <<disk, down, table, rows, batchVars, attempt, posted>>

\* init_db or ensure_group raises: the process ends.
StartupFails(p) ==
  /\ \/ phase[p] \in {"checking", "creating"} /\ ~Up("postgres")
     \/ phase[p] = "ensuring" /\ ~Up("redis")
  /\ Enter(p, "down")
  /\ OnlyPhase /\ UNCHANGED table

-----------------------------------------------------------------------------
(* POST /events: one XADD, answered with 202.                              *)
Post(p) ==
  /\ p \in Api /\ Serving(p) /\ Up("redis") /\ posted < MaxEntries
  /\ posted' = posted + 1
  /\ redis' = [redis EXCEPT !.stream = @ \cup {posted + 1}]
  /\ NoFault /\ UNCHANGED <<disk, down, table, rows, processVars, batchVars>>

-----------------------------------------------------------------------------
(* The loops of a worker, one batch at a time each.  A slot belongs to its *)
(* worker s[1] and is one of the loops s[2].                               *)
Idling(s) == Serving(s[1]) /\ held[s] = {} /\ done[s] = {}

Unread(r) == {n \in r.stream : n > r.cursor}

\* XREADGROUP >: some of the unread entries, oldest first.
Read(s) ==
  /\ s[2] = "consume" /\ Idling(s) /\ Up("redis") /\ redis.group
  /\ \E last \in Unread(redis) :
       LET batch == {n \in Unread(redis) : n <= last} IN
       /\ redis' = [redis EXCEPT !.cursor = last, !.pending = @ \cup batch]
       /\ held' = [held EXCEPT ![s] = batch]
  /\ NoFault /\ UNCHANGED <<disk, down, table, rows, processVars, done, posted>>

\* Redis is down, or has no such group: "read from queue failed, backing off".
ReadFails(s) ==
  /\ s[2] = "consume" /\ Idling(s) /\ (~Up("redis") \/ ~redis.group)
  /\ UNCHANGED vars

\* The blocking read comes back empty.
ReadNothing(s) ==
  /\ s[2] = "consume" /\ Idling(s) /\ Up("redis") /\ redis.group
  /\ Unread(redis) = {}
  /\ UNCHANGED vars

\* XAUTOCLAIM: entries of the pending list that have been idle long enough.
\* (Bug variant: a loop that has ended.)
ReclaimNever(s) == FALSE /\ UNCHANGED vars
Reclaim(s) ==
  /\ s[2] = "reclaim" /\ Idling(s) /\ Up("redis") /\ redis.group
  /\ \E batch \in SUBSET redis.pending \ {{}} : held' = [held EXCEPT ![s] = batch]
  /\ NoFault
  /\ UNCHANGED <<queueVars, down, table, rows, processVars, done, posted>>

Drop(s, n) == held' = [held EXCEPT ![s] = @ \ {n}]

\* The row is committed.
Store(s, n) ==
  /\ n \in held[s] /\ Up("postgres")
  /\ rows' = rows \cup {n}
  /\ Drop(s, n) /\ done' = [done EXCEPT ![s] = @ \cup {n}]
  /\ NoFault /\ UNCHANGED <<queueVars, down, table, processVars, posted>>

\* dead_letter: XADD to the dead-letter stream and XACK in one MULTI.
\* (Bug variant: the XACK alone.)
UnparkedDead(n) == [redis EXCEPT !.pending = @ \ {n}]
ParkedDead(n) == [redis EXCEPT !.pending = @ \ {n}, !.dlq = @ \cup {n}]

Bury(s, n) ==
  /\ n \in held[s] /\ Up("redis")
  /\ redis' = ParkedDead(n)
  /\ Drop(s, n)
  /\ NoFault /\ UNCHANGED <<disk, down, table, rows, processVars, done, posted>>

\* Nothing to be done for now: the entry is left pending.
GiveUp(s, n) ==
  /\ n \in held[s] /\ down # {}
  /\ Drop(s, n)
  /\ NoFault
  /\ UNCHANGED <<queueVars, down, table, rows, processVars, done, posted>>

\* One XACK for the batch; without Redis it fails and is forgotten.
Ack(s) ==
  /\ held[s] = {} /\ done[s] # {}
  /\ redis' = IF Up("redis") THEN [redis EXCEPT !.pending = @ \ done[s]] ELSE redis
  /\ done' = [done EXCEPT ![s] = {}]
  /\ NoFault /\ UNCHANGED <<disk, down, table, rows, processVars, held, posted>>

-----------------------------------------------------------------------------
(* Processes and dependencies that stop and come back.                     *)
Crash(p) ==
  /\ phase[p] # "down"
  /\ Enter(p, "down")
  /\ held' = [s \in Slot |-> IF s[1] = p THEN {} ELSE held[s]]
  /\ done' = [s \in Slot |-> IF s[1] = p THEN {} ELSE done[s]]
  /\ Fault /\ UNCHANGED <<queueVars, down, table, rows, attempt, posted>>

\* appendfsync everysec.
Fsync ==
  /\ Up("redis") /\ disk # redis
  /\ disk' = redis
  /\ NoFault /\ UNCHANGED <<redis, down, table, rows, processVars, batchVars, posted>>

\* An outage; when Redis loses its machine, it loses what is not on disk.
GoesDown(d) ==
  /\ Up(d)
  /\ down' = down \cup {d}
  /\ IF d = "redis" THEN redis' \in {redis, disk} ELSE UNCHANGED redis
  /\ Fault /\ UNCHANGED <<disk, table, rows, processVars, batchVars, posted>>

ComesUp(d) ==
  /\ ~Up(d)
  /\ down' = down \ {d}
  /\ NoFault /\ UNCHANGED <<queueVars, table, rows, processVars, batchVars, posted>>

-----------------------------------------------------------------------------
StartupStep(p) ==
  \/ Start(p) \/ Ping(p) \/ Select(p) \/ NotReady(p)
  \/ CheckTable(p) \/ CreateTable(p) \/ EnsureGroup(p) \/ StartupFails(p)

SlotStep(s) ==
  \/ Read(s) \/ ReadFails(s) \/ ReadNothing(s) \/ Reclaim(s) \/ Ack(s)
  \/ \E n \in Id : Store(s, n) \/ Bury(s, n) \/ GiveUp(s, n)

Next ==
  \/ \E p \in Process : StartupStep(p) \/ Crash(p)
  \/ \E p \in Api : Post(p)
  \/ \E s \in Slot : SlotStep(s)
  \/ Fsync
  \/ \E d \in Dependency : GoesDown(d) \/ ComesUp(d)

Spec == Init /\ [][Next]_vars

(* Containers that ended are started again, loops go on, Redis writes its  *)
(* file every second, and outages end.  Nobody has to post.                *)
FairSpec ==
  /\ Spec
  /\ \A p \in Process : WF_vars(StartupStep(p))
  /\ \A s \in Slot : WF_vars(SlotStep(s))
  /\ WF_vars(Fsync)
  /\ \A d \in Dependency : WF_vars(ComesUp(d))

-----------------------------------------------------------------------------
(***************************************************************************)
(* Properties.                                                             *)
(***************************************************************************)

\* What workers can still get from Redis, now or once the group is there again.
Available(r) == IF r.group THEN Unread(r) \cup r.pending ELSE r.stream

\* Nothing in the stream of r is nowhere else and out of the workers' reach.
Accounted(r) == \A n \in r.stream : n \in rows \/ n \in r.dlq \/ n \in Available(r)

\* Every entry that was on disk once is stored, or dead-lettered, or a worker
\* can still get it, whatever Redis forgets, whoever creates the group and
\* when, and though workers go on acking and dead-lettering what they got
\* from a Redis that no longer knows of it.
SyncedSurvives ==
  \A n \in disk.stream :
    n \in redis.stream /\ (n \in rows \/ n \in redis.dlq \/ n \in Available(redis))

\* What the API has still to add is new to the group.
Numbered(r) == r.stream \subseteq 1..posted /\ r.cursor <= posted

\* The inductive invariant of RecoveryProofs: what comes back from disk is as
\* good as what Redis holds, and what will be acked is in the table.
RecoveryInv ==
  /\ TypeOK
  /\ Accounted(redis) /\ Accounted(disk)
  /\ Numbered(redis) /\ Numbered(disk)
  /\ disk.stream \subseteq redis.stream
  /\ \A s \in Slot : done[s] \subseteq rows

Landed(n) == n \in rows \/ n \in redis.dlq

\* consumer.py:84 "Nothing is lost [...] so back off and retry": an entry on
\* disk lands, once the outage is over.
OutagesAreSurvived == \A n \in Id : (n \in disk.stream) ~> Landed(n)

\* It does so, for good, as soon as the group has once been on disk too.
SettlesOnceGroupIsSynced ==
  \A n \in Id : [](disk.group /\ n \in disk.stream => <>[]Landed(n))

\* Whoever wins the race of create_all and whichever dependency comes up late,
\* all processes end up serving.
EveryProcessServes == <>[](\A p \in Process : Serving(p))
=============================================================================
