----------------------------- MODULE EventQueue -----------------------------
(***************************************************************************)
(* The Redis stream "transactions", its one consumer group and the         *)
(* dead-letter stream, as app/queue.py uses them.  Each operator below is  *)
(* one command of the wrapper class EventQueue; Redis runs commands one at *)
(* a time, so a command is one atomic state change.  What a lost reply or  *)
(* a failed call means to the caller is for EventConsumer to say.          *)
(*                                                                         *)
(* Abstractions.  The n-th XADD gets entry id n.  The idle time of a       *)
(* pending entry is counted in ticks and saturates at ReclaimIdle, the     *)
(* only value it is compared with; times_delivered saturates at            *)
(* MaxDeliveries + 1 for the same reason.                                  *)
(***************************************************************************)
EXTENDS Integers, Sequences, FiniteSets

CONSTANTS
  Payload,        \* the event bodies producers send
  Worker,         \* consumer names of the group, one per worker process
  NoWorker,       \* owner of an entry that is not in the pending list
  MaxEntries,     \* bound: XADDs in a behaviour
  MaxLen,         \* settings.stream_max_len
  BatchSize,      \* settings.batch_size
  ReclaimIdle,    \* settings.reclaim_idle_ms, in ticks
  MaxDeliveries,  \* settings.max_deliveries
  ScanFactor      \* entries XAUTOCLAIM looks at per COUNT: ten in Redis 7

ASSUME QueueAssumption ==
  /\ NoWorker \notin Worker
  /\ MaxEntries \in Nat /\ MaxLen \in Nat
  /\ BatchSize \in Nat \ {0}
  /\ ReclaimIdle \in Nat /\ MaxDeliveries \in Nat
  /\ ScanFactor \in Nat \ {0}

VARIABLES
  log,         \* every entry ever added to the stream, in id order
  trimmed,     \* entries 1..trimmed have been cut off by MAXLEN
  cursor,      \* the group's last-delivered-id
  owner,       \* the pending-entries list: who an entry was delivered to
  deliveries,  \* times_delivered (kept after the ack, for the properties)
  idle,        \* ticks since the last delivery of a pending entry
  dlq          \* what has been added to the dead-letter stream

queueVars == <<log, trimmed, cursor, owner, deliveries, idle, dlq>>

Id == 1..MaxEntries
Reason == {"permanent", "exceeded"}

QueueTypeOK ==
  /\ log \in Seq(Payload) /\ Len(log) <= MaxEntries
  /\ trimmed \in 0..Len(log)
  /\ cursor \in 0..Len(log)
  /\ owner \in [Id -> Worker \cup {NoWorker}]
  /\ deliveries \in [Id -> 0..MaxDeliveries + 1]
  /\ idle \in [Id -> 0..ReclaimIdle]
  /\ dlq \in SUBSET [id : Id, reason : Reason]

\* XGROUP CREATE ... id="0" MKSTREAM on a stream nobody has read.
QueueInit ==
  /\ log = <<>> /\ trimmed = 0 /\ cursor = 0
  /\ owner = [m \in Id |-> NoWorker]
  /\ deliveries = [m \in Id |-> 0]
  /\ idle = [m \in Id |-> 0]
  /\ dlq = {}

Pending == {m \in Id : owner[m] # NoWorker}
OwnedBy(w) == {m \in Id : owner[m] = w}
Stale == {m \in Pending : idle[m] = ReclaimIdle}
Parked(m) == \E d \in dlq : d.id = m

Min2(a, b) == IF a < b THEN a ELSE b
Max2(a, b) == IF a < b THEN b ELSE a

\* The n lowest ids of S: what a COUNT n keeps of a list in id order.
Lowest(S, n) == {m \in S : Cardinality({k \in S : k < m}) < n}

-----------------------------------------------------------------------------
(* publish: XADD with an approximate MAXLEN, which cuts a prefix of the    *)
(* stream at a node boundary, if any, and leaves at least MaxLen entries.  *)
Publish(p) ==
  /\ Len(log) < MaxEntries
  /\ log' = Append(log, p)
  /\ \/ trimmed' = trimmed
     \/ trimmed' \in {t \in trimmed..Len(log) + 1 : Len(log) + 1 - t >= MaxLen}
  /\ UNCHANGED <<cursor, owner, deliveries, idle, dlq>>

-----------------------------------------------------------------------------
(* read: XREADGROUP > COUNT BatchSize.  The entries nobody has been given, *)
(* oldest first; a trimmed entry is skipped without a trace.               *)
FirstUnread == Max2(cursor, trimmed) + 1
NextBatch == FirstUnread..Min2(FirstUnread + BatchSize - 1, Len(log))

XReadGroup(w) ==
  /\ NextBatch # {}
  /\ cursor' = Min2(FirstUnread + BatchSize - 1, Len(log))
  /\ owner' = [m \in Id |-> IF m \in NextBatch THEN w ELSE owner[m]]
  /\ deliveries' = [m \in Id |-> IF m \in NextBatch THEN 1 ELSE deliveries[m]]
  /\ idle' = [m \in Id |-> IF m \in NextBatch THEN 0 ELSE idle[m]]
  /\ UNCHANGED <<log, trimmed, dlq>>

-----------------------------------------------------------------------------
(* _autoclaim: XAUTOCLAIM from id 0-0.  It scans at most ScanFactor times  *)
(* COUNT entries of the pending list, drops those that MAXLEN cut off the  *)
(* stream and takes over the stale ones, whoever owns them, COUNT in all.  *)
Scanned == Lowest(Pending, ScanFactor * BatchSize)
Candidates == Lowest({m \in Scanned : m <= trimmed \/ m \in Stale}, BatchSize)
\* (Bug variant: the two lists of the reply taken for each other.)
DeletedSwapped == {m \in Candidates : m > trimmed}
Deleted == {m \in Candidates : m <= trimmed}
Claimed == Candidates \ Deleted

XAutoClaim(w) ==
  /\ Candidates # {}
  /\ owner' = [m \in Id |-> IF m \in Claimed THEN w
                            ELSE IF m \in Deleted THEN NoWorker ELSE owner[m]]
  /\ deliveries' = [m \in Id |-> IF m \in Claimed
                                 THEN Min2(deliveries[m] + 1, MaxDeliveries + 1)
                                 ELSE deliveries[m]]
  /\ idle' = [m \in Id |-> IF m \in Candidates THEN 0 ELSE idle[m]]
  /\ UNCHANGED <<log, trimmed, cursor, dlq>>

(* _delivery_counts: XPENDING over w's own entries from "-", COUNT as many *)
(* as were claimed; an id that the reply does not hold counts as 1.        *)
\* (Bug variant: COUNT 1.)
ReportedCountOfOne(w, claimed, m) ==
  IF m \in Lowest(OwnedBy(w), 1) THEN deliveries[m] ELSE 1
ReportedCount(w, claimed, m) ==
  IF m \in Lowest(OwnedBy(w), Cardinality(claimed)) THEN deliveries[m] ELSE 1

-----------------------------------------------------------------------------
(* ack: XACK, whoever owns the entries; a no-op on an id not pending.      *)
Free(S) ==
  /\ owner' = [m \in Id |-> IF m \in S THEN NoWorker ELSE owner[m]]
  /\ idle' = [m \in Id |-> IF m \in S THEN 0 ELSE idle[m]]

XAck(S) == Free(S) /\ UNCHANGED <<log, trimmed, cursor, deliveries, dlq>>

(* dead_letter: the XADD to the DLQ and the XACK in one MULTI/EXEC.        *)
\* (Bug variant: the XACK is forgotten.)
DeadLetterUnacked(m, reason) ==
  /\ dlq' = dlq \cup {[id |-> m, reason |-> reason]}
  /\ UNCHANGED <<log, trimmed, cursor, owner, deliveries, idle>>
DeadLetter(m, reason) ==
  /\ dlq' = dlq \cup {[id |-> m, reason |-> reason]}
  /\ Free({m})
  /\ UNCHANGED <<log, trimmed, cursor, deliveries>>

-----------------------------------------------------------------------------
(* stats: the lag that XINFO GROUPS reports is entries added less entries  *)
(* read; it knows nothing of those MAXLEN cut off unread.                  *)
Lag == Len(log) - cursor

-----------------------------------------------------------------------------
(* Time passes for every entry in the pending list.                        *)
Tick ==
  /\ \E m \in Pending : idle[m] < ReclaimIdle
  /\ idle' = [m \in Id |-> IF m \in Pending THEN Min2(idle[m] + 1, ReclaimIdle)
                           ELSE idle[m]]
  /\ UNCHANGED <<log, trimmed, cursor, owner, deliveries, dlq>>
=============================================================================
