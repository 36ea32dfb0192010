--------------------------- MODULE EventConsumer ---------------------------
(***************************************************************************)
(* The worker processes of app/consumer.py over the queue of EventQueue    *)
(* and the table "transactions".  Every worker runs two loops that handle  *)
(* messages, consume and reclaim; the two share one semaphore and hold one *)
(* batch each.  A slot is one loop of one worker.  The stage of an entry   *)
(* in a slot is how far the coroutines of that loop have come with it:     *)
(*                                                                         *)
(*   claimed   taken over by XAUTOCLAIM, times_delivered not asked yet     *)
(*   excess    delivered too often, to be dead-lettered by the loop        *)
(*   queued    in the batch, waiting for the semaphore                     *)
(*   running   in retry_transient                                          *)
(*   dying     failed for good, to be dead-lettered                        *)
(*   done      its row is committed: _handle_one returned its id           *)
(*   left      nothing to ack: _handle_one returned None                   *)
(*                                                                         *)
(* Every await is a point where other slots, producers and time may move.  *)
(* A fault is a lost reply, a failed call, a dependency that is down, an   *)
(* unexpected exception, a crash or a stop request.                        *)
(***************************************************************************)
EXTENDS EventQueue

CONSTANTS
  EventId,      \* the ids producers give to events: the table's primary key
  IdOf,         \* the event id in a payload
  Kind,         \* what processing a payload comes to, see Kinds
  NoRow,        \* no row with this id
  MaxAttempts,  \* settings.max_attempts
  Concurrency,  \* settings.concurrency
  MaxFaults     \* bound: faults in a behaviour

Kinds ==
  {"ok",          \* can be converted and stored
   "unknown",     \* UnknownCurrencyError: the rate source has no such currency
   "invalid",     \* InvalidEventError: the payload cannot be parsed back
   "unstorable"}  \* the database refuses the row, at every attempt

ASSUME ConsumerAssumption ==
  /\ IdOf \in [Payload -> EventId]
  /\ Kind \in [Payload -> Kinds]
  /\ NoRow \notin Payload
  /\ MaxAttempts \in Nat \ {0} /\ Concurrency \in Nat \ {0}
  /\ MaxFaults \in Nat

Loop == {"consume", "reclaim"}
Slot == Worker \X Loop
Stage == {"none", "claimed", "excess", "queued", "running", "dying", "done", "left"}

VARIABLES
  rows,      \* the table: the payload stored under an id, or NoRow
  credited,  \* per id, how often a worker counted it as stored
  stage,     \* per slot and entry, see above
  tries,     \* attempts begun by retry_transient for a running entry
  running,   \* per worker, the loops that have not returned
  stopping,  \* workers whose stop event is set
  faults     \* faults so far

workerVars == <<stage, tries, running, stopping>>
vars == <<queueVars, rows, credited, workerVars, faults>>

TypeOK ==
  /\ QueueTypeOK
  /\ rows \in [EventId -> Payload \cup {NoRow}]
  /\ credited \in [EventId -> Nat]
  /\ stage \in [Slot -> [Id -> Stage]]
  /\ tries \in [Slot -> [Id -> 0..MaxAttempts]]
  /\ running \in [Worker -> SUBSET Loop]
  /\ stopping \in SUBSET Worker
  /\ faults \in 0..MaxFaults

\* EventConsumer.run has created the group and started its loops.
Init ==
  /\ QueueInit
  /\ rows = [e \in EventId |-> NoRow]
  /\ credited = [e \in EventId |-> 0]
  /\ stage = [s \in Slot |-> [m \in Id |-> "none"]]
  /\ tries = [s \in Slot |-> [m \in Id |-> 0]]
  /\ running = [w \in Worker |-> Loop]
  /\ stopping = {}
  /\ faults = 0

EventOf(m) == IdOf[log[m]]
KindOf(m) == Kind[log[m]]
Stored(m) == rows[EventOf(m)] # NoRow

At(s, st) == {m \in Id : stage[s][m] = st}
Held(s) == {m \in Id : stage[s][m] # "none"}
Alive(s) == s[2] \in running[s[1]]
Idling(s) == Alive(s) /\ Held(s) = {}

\* The permits of the worker's semaphore that are taken.
\* (Bug variant: a message that is given up keeps its permit.)
BusyLeaking(w) ==
  {p \in Loop \X Id : stage[<<w, p[1]>>][p[2]] \in {"running", "dying", "left"}}
Busy(w) == {p \in Loop \X Id : stage[<<w, p[1]>>][p[2]] \in {"running", "dying"}}

Move(s, S, st) ==
  stage' = [stage EXCEPT ![s] = [m \in Id |-> IF m \in S THEN st ELSE stage[s][m]]]

\* A fault is spent / the step is not a fault.
Fault == faults < MaxFaults /\ faults' = faults + 1
NoFault == UNCHANGED faults

UnchangedStore == UNCHANGED <<rows, credited>>

-----------------------------------------------------------------------------
(* The while condition of both loops, met when an iteration is over.       *)
\* (Bug variant: the reclaim loop does not look at the stop event.)
NextIterationDeaf(s) ==
  running' = [running EXCEPT ![s[1]] =
                IF s[1] \in stopping /\ s[2] = "consume" THEN @ \ {s[2]} ELSE @]
NextIteration(s) ==
  running' = [running EXCEPT ![s[1]] = IF s[1] \in stopping THEN @ \ {s[2]} ELSE @]

\* The stop event is seen between two batches: the loop returns.
LeaveLoop(s) ==
  /\ Idling(s) /\ s[1] \in stopping
  /\ NextIteration(s)
  /\ NoFault /\ UnchangedStore /\ UNCHANGED <<queueVars, stage, tries, stopping>>

-----------------------------------------------------------------------------
(* _consume_loop.                                                          *)
Read(s) ==
  /\ s[2] = "consume" /\ Idling(s)
  /\ XReadGroup(s[1])
  /\ Move(s, NextBatch, "queued")
  /\ NoFault /\ UnchangedStore /\ UNCHANGED <<tries, running, stopping>>

\* Redis applied the XREADGROUP and the reply was lost: "backing off".
ReadLost(s) ==
  /\ s[2] = "consume" /\ Idling(s)
  /\ XReadGroup(s[1])
  /\ NextIteration(s)
  /\ Fault /\ UnchangedStore /\ UNCHANGED <<stage, tries, stopping>>

\* The blocking read comes back empty and the loop reads again.
ReadNothing(s) ==
  /\ s[2] = "consume" /\ Idling(s) /\ s[1] \notin stopping
  /\ NextBatch = {}
  /\ UNCHANGED vars

-----------------------------------------------------------------------------
(* _reclaim_loop: claim_stale is two commands with an await between them.  *)
Claim(s) ==
  /\ s[2] = "reclaim" /\ Idling(s)
  /\ XAutoClaim(s[1])
  /\ Move(s, Claimed, "claimed")
  /\ IF Claimed = {} THEN NextIteration(s) ELSE UNCHANGED running
  /\ NoFault /\ UnchangedStore /\ UNCHANGED <<tries, stopping>>

ClaimLost(s) ==
  /\ s[2] = "reclaim" /\ Idling(s)
  /\ XAutoClaim(s[1])
  /\ NextIteration(s)
  /\ Fault /\ UnchangedStore /\ UNCHANGED <<stage, tries, stopping>>

\* message.delivery_count > settings.max_deliveries
\* (Bug variant: >=.)
OverCapEarly(n) == n >= MaxDeliveries
OverCap(n) == n > MaxDeliveries

\* The reply to XPENDING splits the batch.
Triage(s) ==
  /\ At(s, "claimed") # {}
  /\ stage' = [stage EXCEPT ![s] = [m \in Id |->
        IF m \notin At(s, "claimed") THEN stage[s][m]
        ELSE IF OverCap(ReportedCount(s[1], At(s, "claimed"), m)) THEN "excess"
        ELSE "queued"]]
  /\ NoFault /\ UnchangedStore /\ UNCHANGED <<queueVars, tries, running, stopping>>

\* XPENDING, or the ack of the deleted ids, raises: the batch is dropped.
TriageFails(s) ==
  /\ At(s, "claimed") # {}
  /\ Move(s, At(s, "claimed"), "none")
  /\ NextIteration(s)
  /\ Fault /\ UnchangedStore /\ UNCHANGED <<queueVars, tries, stopping>>

Settle(s, m) ==
  /\ Move(s, {m}, "left")
  /\ tries' = [tries EXCEPT ![s][m] = 0]

(* _dead_letter: the call fails, and the entry just stays pending, or it is  *)
(* applied; whether the reply then arrives makes no difference.            *)
BuryExcess(s, m) ==
  /\ m \in At(s, "excess") /\ \A k \in At(s, "excess") : m <= k
  /\ Settle(s, m)
  /\ \/ DeadLetter(m, "exceeded") /\ NoFault
     \/ UNCHANGED queueVars /\ Fault
  /\ UnchangedStore /\ UNCHANGED <<running, stopping>>

Bury(s, m) ==
  /\ stage[s][m] = "dying"
  /\ Settle(s, m)
  /\ \/ DeadLetter(m, "permanent") /\ NoFault
     \/ UNCHANGED queueVars /\ Fault
  /\ UnchangedStore /\ UNCHANGED <<running, stopping>>

-----------------------------------------------------------------------------
(* _handle_one, behind the semaphore: permits go out in batch order.       *)
Start(s, m) ==
  /\ m \in At(s, "queued") /\ \A k \in At(s, "queued") : m <= k
  /\ At(s, "claimed") = {} /\ At(s, "excess") = {}
  /\ Cardinality(Busy(s[1])) < Concurrency
  /\ IF KindOf(m) = "invalid"
     THEN Move(s, {m}, "dying") /\ UNCHANGED tries
     ELSE Move(s, {m}, "running") /\ tries' = [tries EXCEPT ![s][m] = 1]
  /\ NoFault /\ UnchangedStore /\ UNCHANGED <<queueVars, running, stopping>>

(* retry_transient: "if attempt == max_attempts: break", or another attempt. *)
\* (Bug variant: one attempt too many.)
ExhaustedLate(n) == n > MaxAttempts
Exhausted(n) == n = MaxAttempts

TransientFailure(s, m) ==
  IF Exhausted(tries[s][m])
  THEN Settle(s, m)
  ELSE /\ tries' = [tries EXCEPT ![s][m] = @ + 1]
       /\ UNCHANGED stage

(* insert_if_absent: INSERT .. ON CONFLICT (id) DO NOTHING, then COMMIT.     *)
\* (Bug variants: DO UPDATE, and a session closed without its commit.)
ReplaceOnConflict(m) == rows' = [rows EXCEPT ![EventOf(m)] = log[m]]
InsertWithoutCommit(m) == UNCHANGED rows
InsertIfAbsent(m) ==
  rows' = [rows EXCEPT ![EventOf(m)] = IF @ = NoRow THEN log[m] ELSE @]

\* result.rowcount == 1  (bug variant: the statement did not raise)
AlwaysOne(m) == TRUE
RowCountIsOne(m) == ~Stored(m)

\* The currencies the rate source knows.  (Bug variant: a default rate.)
AnyCurrency(m) == TRUE
Convertible(m) == KindOf(m) # "unknown"
Storable(m) == Convertible(m) /\ KindOf(m) # "unstorable"

\* EventProcessor.process returns STORED or DUPLICATE.
AttemptStores(s, m) ==
  /\ stage[s][m] = "running" /\ Storable(m)
  /\ InsertIfAbsent(m)
  /\ credited' = [credited EXCEPT ![EventOf(m)] = IF RowCountIsOne(m) THEN @ + 1 ELSE @]
  /\ Move(s, {m}, "done") /\ tries' = [tries EXCEPT ![s][m] = 0]
  /\ NoFault /\ UNCHANGED <<queueVars, running, stopping>>

\* The row is committed, the reply is lost: StorageUnavailableError.
AttemptStoresUnheard(s, m) ==
  /\ stage[s][m] = "running" /\ Storable(m)
  /\ InsertIfAbsent(m)
  /\ TransientFailure(s, m)
  /\ Fault /\ UNCHANGED <<queueVars, credited, running, stopping>>

\* The database refuses the row, or the rate source or the database is down.
AttemptFails(s, m) ==
  /\ stage[s][m] = "running"
  /\ IF KindOf(m) = "unstorable" THEN NoFault ELSE Fault
  /\ TransientFailure(s, m)
  /\ UnchangedStore /\ UNCHANGED <<queueVars, running, stopping>>

\* UnknownCurrencyError: no retry, park it.
AttemptIsHopeless(s, m) ==
  /\ stage[s][m] = "running" /\ ~Convertible(m)
  /\ Move(s, {m}, "dying") /\ tries' = [tries EXCEPT ![s][m] = 0]
  /\ NoFault /\ UnchangedStore /\ UNCHANGED <<queueVars, running, stopping>>

\* "except Exception": the entry is kept.
AttemptBreaks(s, m) ==
  /\ stage[s][m] = "running"
  /\ Settle(s, m)
  /\ Fault /\ UnchangedStore /\ UNCHANGED <<queueVars, running, stopping>>

-----------------------------------------------------------------------------
(* The end of _handle_batch: one XACK for what the batch stored.           *)
\* (Bug variant: the whole batch.)
AckEverything(s) == Held(s)
ToAck(s) == At(s, "done")

BatchOver(s) == Held(s) # {} /\ \A m \in Held(s) : stage[s][m] \in {"done", "left"}

Finish(s) ==
  /\ BatchOver(s)
  /\ \/ XAck(ToAck(s)) /\ NoFault
     \/ UNCHANGED queueVars /\ Fault  \* "(will be redelivered)"
  /\ Move(s, Held(s), "none")
  /\ NextIteration(s)
  /\ UnchangedStore /\ UNCHANGED <<tries, stopping>>

-----------------------------------------------------------------------------
(* The process: a crash, SIGTERM, and the container that is started again. *)
Forget(w) ==
  /\ stage' = [s \in Slot |-> IF s[1] = w THEN [m \in Id |-> "none"] ELSE stage[s]]
  /\ tries' = [s \in Slot |-> IF s[1] = w THEN [m \in Id |-> 0] ELSE tries[s]]

Crash(w) ==
  /\ running[w] # {}
  /\ Forget(w)
  /\ running' = [running EXCEPT ![w] = {}]
  /\ stopping' = stopping \ {w}
  /\ Fault /\ UnchangedStore /\ UNCHANGED queueVars

RequestStop(w) ==
  /\ running[w] = Loop /\ w \notin stopping
  /\ stopping' = stopping \cup {w}
  /\ Fault /\ UnchangedStore /\ UNCHANGED <<queueVars, stage, tries, running>>

Boot(w) ==
  /\ running[w] = {}
  /\ running' = [running EXCEPT ![w] = Loop]
  /\ stopping' = stopping \ {w}
  /\ NoFault /\ UnchangedStore /\ UNCHANGED <<queueVars, stage, tries>>

-----------------------------------------------------------------------------
Producer ==
  /\ \E p \in Payload : Publish(p)
  /\ NoFault /\ UnchangedStore /\ UNCHANGED workerVars

\* A tick is far longer than a round trip to Redis.  That one passes between
\* XAUTOCLAIM and the reply to XPENDING is a stall, and counts as a fault.
AwaitingCounts == \E s \in Slot : At(s, "claimed") # {}

TimePasses ==
  /\ Tick
  /\ IF AwaitingCounts THEN Fault ELSE NoFault
  /\ UnchangedStore /\ UNCHANGED workerVars

MessageStep(s, m) ==
  \/ BuryExcess(s, m) \/ Start(s, m) \/ Bury(s, m)
  \/ AttemptStores(s, m) \/ AttemptStoresUnheard(s, m) \/ AttemptFails(s, m)
  \/ AttemptIsHopeless(s, m) \/ AttemptBreaks(s, m)

SlotStep(s) ==
  \/ LeaveLoop(s)
  \/ Read(s) \/ ReadLost(s) \/ ReadNothing(s)
  \/ Claim(s) \/ ClaimLost(s) \/ Triage(s) \/ TriageFails(s)
  \/ \E m \in Id : MessageStep(s, m)
  \/ Finish(s)

Next ==
  \/ Producer \/ TimePasses
  \/ \E s \in Slot : SlotStep(s)
  \/ \E w \in Worker : Crash(w) \/ RequestStop(w) \/ Boot(w)

Spec == Init /\ [][Next]_vars

(* Time passes, a loop that can move moves, and a container that is down   *)
(* is started again (restart: unless-stopped).  Producers owe nothing.     *)
FairSpec ==
  /\ Spec
  /\ WF_vars(TimePasses)
  /\ \A s \in Slot : WF_vars(SlotStep(s))
  /\ \A w \in Worker : WF_vars(Boot(w))

-----------------------------------------------------------------------------
(***************************************************************************)
(* Safety.                                                                 *)
(***************************************************************************)

\* An entry ends as a row under its event id or as a dead letter.
Landed(m) == Stored(m) \/ Parked(m)

\* Whatever workers, crashes and lost replies do, an accepted entry is still
\* unread, or pending, or has landed, or the stream's MAXLEN has cut it off:
\* no path of consumer.py acknowledges an event that is nowhere else.
Custody ==
  \A m \in 1..Len(log) : m > cursor \/ m \in Pending \/ Landed(m) \/ m <= trimmed

\* The promise of consumer.py:84 "Nothing is lost - unacked entries stay in
\* the PEL and unread ones stay in the stream", trimming or not.
NothingLost ==
  \A m \in 1..Len(log) :
    Landed(m) \/ (m > trimmed /\ (m > cursor \/ m \in Pending))

\* Redeliveries, races of two workers and several entries with one event id
\* never change or remove a row once it is there (ON CONFLICT DO NOTHING).
FirstWriteWins ==
  [][\A e \in EventId : rows[e] # NoRow => rows'[e] = rows[e]]_vars

\* However many workers process copies of an event, at most one of them
\* reports Outcome.STORED for it, and then its row is there: what the counter
\* events_processed_total{result="stored"} says of throughput rests on this.
OneStoredReport ==
  \A e \in EventId : credited[e] <= 1 /\ (credited[e] = 1 => rows[e] # NoRow)

\* A row holds a payload that was published under that id and that could be
\* parsed and converted: no half-processed event reaches the table.
RowsAreConverted ==
  \A e \in EventId : rows[e] # NoRow =>
    \E m \in 1..Len(log) : log[m] = rows[e] /\ EventOf(m) = e /\ KindOf(m) = "ok"

\* Nothing is dead-lettered without cause: an entry parked as permanent can
\* never be processed, one parked as exceeded was delivered more than
\* max_deliveries times, whichever workers and loops it went through.
ParkedWithCause ==
  \A d \in dlq :
    IF d.reason = "permanent" THEN KindOf(d.id) \in {"unknown", "invalid"}
    ELSE deliveries[d.id] > MaxDeliveries

\* Whatever the pending list, the dead-letter stream or a worker knows of has
\* been delivered.
Delivered ==
  \A m \in Id :
    (m \in Pending \/ Parked(m) \/ \E s \in Slot : stage[s][m] # "none")
      => m <= cursor /\ deliveries[m] >= 1

\* What a worker acts on is still true when it acts: every id it is going to
\* ack has its row committed (consumer.py:153), every entry it is going to
\* dead-letter has the cause for it, and what it stores could be parsed.
StagesHoldTrue ==
  \A s \in Slot, m \in Id :
    /\ stage[s][m] = "done" => Stored(m)
    /\ stage[s][m] = "running" => KindOf(m) # "invalid"
    /\ stage[s][m] = "dying" => KindOf(m) \in {"unknown", "invalid"}
    /\ stage[s][m] = "excess" => deliveries[m] > MaxDeliveries

\* The inductive invariant of EventConsumerProofs.
IInv ==
  /\ TypeOK /\ Delivered /\ StagesHoldTrue
  /\ Custody /\ OneStoredReport /\ RowsAreConverted /\ ParkedWithCause

(***************************************************************************)
(* Steps.                                                                  *)
(***************************************************************************)

\* README.md:196 "a message that has been delivered more than MAX_DELIVERIES
\* times - is moved to the transactions.dlq": the reclaim loop never hands a
\* message it has just claimed, and still owns, to processing again.
NoRetryOverCap ==
  [][\A s \in Slot, m \in Id :
       (stage[s][m] = "claimed" /\ stage'[s][m] = "queued" /\ owner[m] = s[1])
         => deliveries[m] <= MaxDeliveries]_vars

\* And when it does, an older entry of the same worker that is not in the
\* batch took its place in the XPENDING reply: stalled or failed work is the
\* only thing that hides a delivery count (queue.py:179).
OverCapOnlyIfCrowdedOut ==
  [][\A s \in Slot, m \in Id :
       (stage[s][m] = "claimed" /\ stage'[s][m] = "queued" /\ owner[m] = s[1]
          /\ deliveries[m] > MaxDeliveries)
         => \E k \in OwnedBy(s[1]) : k < m /\ k \notin At(s, "claimed")]_vars

\* Seen from the outside the consumer is the Ledger: it only ever accepts an
\* event, stores one under an id that has no row, or dead-letters one.
Processable == {p \in Payload : Kind[p] = "ok"}
DeadIds == {d.id : d \in dlq}
L == INSTANCE Ledger WITH accepted <- log, table <- rows, aside <- DeadIds
ImplementsLedger == L!LedgerSpec

(***************************************************************************)
(* Liveness.                                                               *)
(***************************************************************************)

\* Every entry of the stream ends in the table or in the dead-letter stream,
\* and then leaves the pending list: crashes, lost replies, failed acks and
\* entries the database refuses for ever only delay it.
EveryEntrySettles ==
  \A m \in Id : (m <= Len(log)) ~> (m <= cursor /\ m \notin Pending /\ Landed(m))

\* A worker that is asked to stop does stop, whatever its batches are up to.
StopTerminates == \A w \in Worker : (w \in stopping) ~> (running[w] = {})
=============================================================================
