--------------------------- MODULE IngestProofs ---------------------------
(***************************************************************************)
(* What a 202 says, where the entries of the stream come from, and what    *)
(* EVENTS_RECEIVED counts, for any producers, batches, errors and broken   *)
(* connections.                                                            *)
(***************************************************************************)
EXTENDS Ingest, FiniteSetTheorems, TLAPS

\* The initial queue is well typed (ensure_group on a fresh stream).
LEMMA QueueInitType == QueueInit => QueueTypeOK
BY QueueAssumption DEF QueueInit, QueueTypeOK, Id

\* XADD and its trim keep the queue well typed.
LEMMA PublishType ==
  ASSUME QueueTypeOK, NEW e \in Payload, Publish(e)
  PROVE  QueueTypeOK'
<1>1. log' \in Seq(Payload) /\ Len(log') = Len(log) + 1
  BY DEF QueueTypeOK, Publish
<1>2. trimmed' \in 0..Len(log') /\ cursor' \in 0..Len(log') /\ Len(log') <= MaxEntries
  BY <1>1, QueueAssumption DEF QueueTypeOK, Publish
<1> QED
  BY <1>1, <1>2 DEF QueueTypeOK, Publish

\* A reply that is not an error names the entry of its event, and later
\* events have later entries.
ReplyHolds(p, i) ==
  \/ replies[p][i] = Failed
  \/ /\ replies[p][i] \in 1..Len(log)
     /\ log[replies[p][i]] = Batch[p][i]
     /\ \A j \in 1..(i - 1) : replies[p][j] < replies[p][i]

RepliesHold ==
  \A p \in Producer :
    /\ Served(p) <= Size(p)
    /\ \A i \in 1..Served(p) : ReplyHolds(p, i) /\ replies[p][i] <= Len(log)
    /\ request[p] = "accepted" => Served(p) = Size(p) /\ ~Raises(p)

IngestInv == TypeOK /\ RepliesHold

\* Batches are sequences of payloads.
LEMMA BatchType ==
  ASSUME NEW p \in Producer
  PROVE  /\ Batch[p] \in Seq(Payload) /\ Size(p) \in Nat
         /\ \A i \in 1..Size(p) : Batch[p][i] \in Payload
BY IngestAssumption DEF Size

\* The stream and the replies before the first request.
LEMMA InitIngestInv == Init => IngestInv
<1> SUFFICES ASSUME Init PROVE IngestInv
  OBVIOUS
<1>1. QueueTypeOK
  BY QueueInitType DEF Init
<1>2. TypeOK
  BY <1>1, IngestAssumption DEF Init, TypeOK
<1>3. \A p \in Producer : Served(p) = 0 /\ request[p] = "unsent"
  BY DEF Init, Served
<1>4. RepliesHold
  BY <1>3, BatchType DEF RepliesHold
<1> QED
  BY <1>2, <1>4 DEF IngestInv

\* What Redis appends does not disturb what was replied before.
LEMMA PublishKeeps ==
  ASSUME TypeOK, NEW e \in Payload, Publish(e)
  PROVE  /\ QueueTypeOK' /\ Len(log') = Len(log) + 1
         /\ log'[Len(log) + 1] = e
         /\ \A n \in 1..Len(log) : log'[n] = log[n]
<1>1. log \in Seq(Payload) /\ log' = Append(log, e)
  BY DEF Publish, TypeOK, QueueTypeOK
<1> QED
  BY <1>1, PublishType DEF TypeOK

\* Steps of Redis that answer nobody, and steps that leave the stream alone,
\* keep the replies true.
LEMMA RepliesKept ==
  ASSUME IngestInv, UNCHANGED replies,
         \A p \in Producer : request'[p] = "accepted" =>
            request[p] = "accepted" \/ (Served(p) = Size(p) /\ ~Raises(p)),
         \/ UNCHANGED queueVars
         \/ \E e \in Payload : Publish(e)
  PROVE  RepliesHold'
<1> USE DEF IngestInv
<1>1. Len(log') >= Len(log) /\ Len(log') \in Nat /\ Len(log) \in Nat
      /\ \A n \in 1..Len(log) : log'[n] = log[n]
  <2>1. CASE UNCHANGED queueVars
    BY <2>1 DEF queueVars, TypeOK, QueueTypeOK
  <2>2. ASSUME NEW e \in Payload, Publish(e)
        PROVE  Len(log') >= Len(log) /\ Len(log') \in Nat /\ Len(log) \in Nat
               /\ \A n \in 1..Len(log) : log'[n] = log[n]
    BY <2>2, PublishKeeps DEF TypeOK, QueueTypeOK
  <2> QED
    BY <2>1, <2>2
<1> SUFFICES ASSUME NEW p \in Producer
             PROVE  /\ Served(p) <= Size(p)
                    /\ \A i \in 1..Served(p) :
                         ReplyHolds(p, i)' /\ replies[p][i] <= Len(log')
                    /\ request'[p] = "accepted" => Served(p) = Size(p) /\ ~Raises(p)
  BY DEF RepliesHold, Served, Raises, ReplyHolds
<1>2. ASSUME NEW i \in 1..Served(p)
      PROVE  ReplyHolds(p, i)' /\ replies[p][i] <= Len(log')
  <2>1. ReplyHolds(p, i) /\ replies[p][i] <= Len(log) /\ replies[p][i] \in Nat
    BY DEF RepliesHold, TypeOK, Served
  <2> QED
    BY <1>1, <2>1 DEF ReplyHolds
<1> QED
  BY <1>2 DEF RepliesHold

\* A new reply: an error, or the entry that has just been appended.
LEMMA ReplyArrives ==
  ASSUME IngestInv, NEW p \in Producer, request[p] = "open", Served(p) < Size(p),
         NEW n \in Nat, replies' = [replies EXCEPT ![p] = Append(@, n)],
         UNCHANGED request,
         \/ n = Failed /\ UNCHANGED queueVars
         \/ n = Len(log) + 1 /\ Publish(Batch[p][Served(p) + 1])
  PROVE  RepliesHold'
<1> USE DEF IngestInv
<1>0. Served(p) \in Nat /\ Size(p) \in Nat /\ Batch[p][Served(p) + 1] \in Payload
  <2>1. Served(p) \in Nat
    BY DEF TypeOK, Served
  <2> QED
    BY <2>1, BatchType
<1>1. /\ Len(log') >= Len(log) /\ Len(log') \in Nat /\ Len(log) \in Nat
      /\ \A k \in 1..Len(log) : log'[k] = log[k]
      /\ n <= Len(log')
      /\ n # Failed => n = Len(log) + 1 /\ Len(log') = n /\ log'[n] = Batch[p][Served(p) + 1]
  <2>1. CASE n = Failed /\ UNCHANGED queueVars
    BY <2>1 DEF queueVars, TypeOK, QueueTypeOK, Failed
  <2>2. CASE n = Len(log) + 1 /\ Publish(Batch[p][Served(p) + 1])
    <3> DEFINE e == Batch[p][Served(p) + 1]
    <3>1. e \in Payload /\ Publish(e)
      BY <1>0, <2>2
    <3> HIDE DEF e
    <3>2. Len(log) \in Nat
      BY DEF TypeOK, QueueTypeOK
    <3>3. Len(log') = Len(log) + 1 /\ log'[Len(log) + 1] = e
          /\ \A k \in 1..Len(log) : log'[k] = log[k]
      BY <3>1, PublishKeeps
    <3> QED
      BY <2>2, <3>2, <3>3 DEF e
  <2> QED
    BY <2>1, <2>2
<1>2. /\ replies[p] \in Seq(Nat) /\ replies'[p] = Append(replies[p], n)
      /\ \A q \in Producer : q # p => replies'[q] = replies[q]
  BY DEF TypeOK
<1>3. /\ Served(p)' = Served(p) + 1 /\ replies'[p][Served(p) + 1] = n
      /\ \A i \in 1..Served(p) : replies'[p][i] = replies[p][i]
  BY <1>2 DEF Served
<1>4. ASSUME NEW q \in Producer, NEW i \in 1..Served(q)
      PROVE  /\ replies[q][i] \in Nat /\ replies[q][i] <= Len(log')
             /\ replies[q][i] = Failed \/
                  /\ replies[q][i] \in 1..Len(log')
                  /\ log'[replies[q][i]] = Batch[q][i]
                  /\ \A j \in 1..(i - 1) : replies[q][j] < replies[q][i]
  <2>1. ReplyHolds(q, i) /\ replies[q][i] <= Len(log)
    BY DEF RepliesHold
  <2>2. replies[q] \in Seq(Nat)
    BY DEF TypeOK
  <2>3. replies[q][i] \in Nat
    BY <2>2 DEF Served
  <2> QED
    BY <1>1, <2>1, <2>3 DEF ReplyHolds
<1> SUFFICES ASSUME NEW q \in Producer
             PROVE  /\ Served(q)' <= Size(q)
                    /\ \A i \in 1..Served(q)' :
                         ReplyHolds(q, i)' /\ replies'[q][i] <= Len(log')
                    /\ request[q] = "accepted" => Served(q)' = Size(q) /\ ~Raises(q)'
  BY DEF RepliesHold, Served, Raises, ReplyHolds
<1>5. CASE q # p
  BY <1>2, <1>4, <1>5 DEF RepliesHold, ReplyHolds, Served, Raises
<1>6. CASE q = p
  <2>1. ASSUME NEW i \in 1..Served(p)'
        PROVE  ReplyHolds(p, i)' /\ replies'[p][i] <= Len(log')
    <3>1. CASE i \in 1..Served(p)
      <4>1. \A j \in 1..(i - 1) : j \in 1..Served(p)
        BY <1>0, <3>1
      <4> QED
        BY <1>3, <1>4, <3>1, <4>1 DEF ReplyHolds
    <3>2. CASE i = Served(p) + 1
      <4>1. \A j \in 1..(i - 1) : replies'[p][j] = replies[p][j] /\ replies[p][j] <= Len(log)
                                  /\ replies[p][j] \in Nat
        BY <1>0, <1>3, <3>2 DEF RepliesHold, TypeOK, Served
      <4>2. replies'[p][i] = n
        BY <1>3, <3>2
      <4>3. CASE n = Failed
        BY <1>1, <4>2, <4>3 DEF ReplyHolds
      <4>4. CASE n # Failed
        BY <1>1, <3>2, <4>1, <4>2, <4>4 DEF ReplyHolds
      <4> QED
        BY <4>3, <4>4
    <3>3. i \in 1..(Served(p) + 1)
      BY <1>3
    <3>4. i \in 1..Served(p) \/ i = Served(p) + 1
      BY <1>0, <3>3
    <3> QED
      BY <3>1, <3>2, <3>4
  <2>2. Served(p)' <= Size(p)
    BY <1>0, <1>3
  <2>3. request[p] # "accepted"
    OBVIOUS
  <2> QED
    BY <1>6, <2>1, <2>2, <2>3
<1> QED
  BY <1>5, <1>6

-----------------------------------------------------------------------------
\* The invariant is kept by every step.
LEMMA NextIngestInv == IngestInv /\ [Next]_vars => IngestInv'
<1> SUFFICES ASSUME IngestInv, [Next]_vars PROVE IngestInv'
  OBVIOUS
<1> USE DEF IngestInv
<1>0. faults < MaxFaults => faults + 1 \in 0..MaxFaults
  BY IngestAssumption DEF TypeOK
<1>1. ASSUME NEW p \in Producer, Post(p) PROVE IngestInv'
  <2>1. TypeOK'
    <3>1. QueueTypeOK'
      BY <1>1 DEF Post, TypeOK, QueueTypeOK, queueVars, Id
    <3>2. replies' \in [Producer -> Seq(Nat)]
      <4>1. <<>> \in Seq(Nat)
        OBVIOUS
      <4> QED
        BY <1>1, <4>1 DEF Post, TypeOK
    <3>3. attempts' \in [Producer -> Nat]
      <4>1. attempts' = attempts \/ attempts' = [attempts EXCEPT ![p] = @ + 1]
        BY <1>1 DEF Post
      <4>2. attempts \in [Producer -> Nat]
        BY DEF TypeOK
      <4> QED
        BY <4>1, <4>2
    <3> QED
      BY <1>1, <3>1, <3>2, <3>3 DEF Post, Become, TypeOK
  <2>2. CASE UNCHANGED replies
    <3>1. \A q \in Producer : request'[q] = "accepted" => request[q] = "accepted"
      BY <1>1 DEF Post, Become, TypeOK
    <3> QED
      BY <1>1, <2>1, <2>2, <3>1, RepliesKept DEF Post
  <2>3. CASE replies' = [replies EXCEPT ![p] = <<>>] /\ Become(p, "open")
    <3>1. Served(p)' = 0 /\ request'[p] = "open" /\ Size(p) \in Nat
      BY <2>3, BatchType DEF Served, Become, TypeOK
    <3>2. ASSUME NEW q \in Producer, q # p
          PROVE  replies'[q] = replies[q] /\ request'[q] = request[q]
      BY <2>3, <3>2 DEF Become, TypeOK
    <3>3. log' = log
      BY <1>1 DEF Post, queueVars
    <3> SUFFICES ASSUME NEW q \in Producer
                 PROVE  /\ Served(q)' <= Size(q)
                        /\ \A i \in 1..Served(q)' :
                             ReplyHolds(q, i)' /\ replies'[q][i] <= Len(log)
                        /\ request'[q] = "accepted" => Served(q)' = Size(q) /\ ~Raises(q)'
      BY <2>1, <3>3 DEF RepliesHold, Served, Raises, ReplyHolds
    <3>4. CASE q = p
      BY <3>1, <3>4
    <3>5. CASE q # p
      BY <3>2, <3>3, <3>5 DEF RepliesHold, Served, Raises, ReplyHolds
    <3> QED
      BY <3>4, <3>5
  <2> QED
    BY <1>1, <2>1, <2>2, <2>3 DEF Post
<1>2. ASSUME NEW p \in Producer, Add(p) PROVE IngestInv'
  <2>1. Served(p) + 1 \in 1..Size(p) /\ Batch[p][Served(p) + 1] \in Payload
    <3>1. Served(p) \in Nat /\ Size(p) \in Nat /\ Served(p) < Size(p)
      BY <1>2, BatchType DEF Add, TypeOK, Served
    <3> QED
      BY <3>1, BatchType
  <2>2. Len(log) + 1 \in Nat
    BY DEF TypeOK, QueueTypeOK
  <2>3. QueueTypeOK'
    BY <1>2, <2>1, PublishKeeps DEF Add
  <2>4. TypeOK'
    BY <1>2, <2>2, <2>3 DEF Add, TypeOK
  <2>5. RepliesHold'
    BY <1>2, <2>2, ReplyArrives DEF Add
  <2> QED
    BY <2>4, <2>5
<1>3. ASSUME NEW p \in Producer, AddFails(p) PROVE IngestInv'
  <2>1. Failed \in Nat
    BY DEF Failed
  <2>2. TypeOK'
    BY <1>0, <1>3, <2>1 DEF AddFails, Fault, TypeOK, QueueTypeOK, queueVars, Id
  <2>3. RepliesHold'
    BY <1>3, <2>1, ReplyArrives DEF AddFails
  <2> QED
    BY <2>2, <2>3
<1>4. ASSUME NEW p \in Producer, Accept(p),
             \/ Become(p, "accepted") /\ UNCHANGED faults
             \/ Become(p, "retry") /\ Fault
      PROVE  IngestInv'
  <2>1. received' \in Nat
    BY <1>4, BatchType DEF Accept, TypeOK
  <2>2. TypeOK'
    BY <1>0, <1>4, <2>1 DEF Accept, Become, Fault, TypeOK, QueueTypeOK, queueVars, Id
  <2>3. \A q \in Producer : request'[q] = "accepted" =>
          request[q] = "accepted" \/ (Served(q) = Size(q) /\ ~Raises(q))
    BY <1>4 DEF Accept, Become, TypeOK
  <2>4. UNCHANGED replies /\ UNCHANGED queueVars
    BY <1>4 DEF Accept
  <2> QED
    BY <2>2, <2>3, <2>4, RepliesKept
<1>5. ASSUME NEW p \in Producer, Answer503(p) \/ Break(p) PROVE IngestInv'
  <2>1. UNCHANGED queueVars /\ UNCHANGED replies /\ Become(p, "retry")
        /\ UNCHANGED attempts /\ UNCHANGED received
    BY <1>5 DEF Answer503, Break
  <2>2. \A q \in Producer : request'[q] = "accepted" => request[q] = "accepted"
    BY <2>1 DEF Become, TypeOK
  <2>3. adrift' \subseteq {c \in Command : c.next \in 1..Size(c.by)}
    <3>1. Served(p) \in Nat /\ Size(p) \in Nat /\ Served(p) <= Size(p)
      BY BatchType DEF TypeOK, Served, RepliesHold
    <3>2. Leftover(p) \subseteq {c \in Command : c.next \in 1..Size(c.by)}
      BY <3>1 DEF Leftover, Command, TypeOK
    <3> QED
      BY <1>5, <3>2 DEF Answer503, Break, TypeOK
  <2>4. faults' \in 0..MaxFaults
    BY <1>0, <1>5 DEF Answer503, Break, Fault, TypeOK
  <2>5. TypeOK'
    BY <2>1, <2>3, <2>4 DEF Become, TypeOK, QueueTypeOK, queueVars, Id
  <2> QED
    BY <2>1, <2>2, <2>5, RepliesKept
<1>6. ASSUME NEW c \in adrift, AddAdrift(c) PROVE IngestInv'
  <2>1. c \in Command /\ c.by \in Producer /\ c.next \in 1..Size(c.by) /\ c.next \in Nat
        /\ Size(c.by) \in Nat
    BY BatchType DEF TypeOK, Command
  <2>2. Batch[c.by][c.next] \in Payload
    BY <2>1, BatchType
  <2>3. QueueTypeOK'
    BY <1>6, <2>2, PublishKeeps DEF AddAdrift
  <2>4. adrift' \subseteq {d \in Command : d.next \in 1..Size(d.by)}
    <3>1. CASE c.next = Size(c.by)
      BY <1>6, <3>1 DEF AddAdrift, TypeOK
    <3>2. CASE c.next # Size(c.by)
      <4>1. adrift' = (adrift \ {c}) \cup {[c EXCEPT !.next = @ + 1]}
        BY <1>6, <3>2 DEF AddAdrift
      <4>2. c.next + 1 \in 1..Size(c.by)
        BY <2>1, <3>2
      <4>3. [c EXCEPT !.next = @ + 1] \in {d \in Command : d.next \in 1..Size(d.by)}
        BY <2>1, <4>2 DEF Command
      <4> QED
        BY <4>1, <4>3 DEF TypeOK
    <3> QED
      BY <3>1, <3>2
  <2>5. TypeOK'
    BY <1>6, <2>3, <2>4 DEF AddAdrift, TypeOK
  <2> QED
    BY <1>6, <2>2, <2>5, RepliesKept DEF AddAdrift
<1>7. ASSUME NEW c \in adrift, Sink(c) PROVE IngestInv'
  <2>1. TypeOK'
    BY <1>7 DEF Sink, TypeOK, QueueTypeOK, queueVars, Id
  <2> QED
    BY <1>7, <2>1, RepliesKept DEF Sink
<1>8. CASE UNCHANGED vars
  <2>1. TypeOK'
    BY <1>8 DEF vars, ingestVars, queueVars, TypeOK, QueueTypeOK, Id
  <2> QED
    BY <1>8, <2>1, RepliesKept DEF vars, ingestVars
<1> QED
  BY <1>1, <1>2, <1>3, <1>4, <1>5, <1>6, <1>7, <1>8
  DEF Next, RequestStep, Answer202, Lose202

-----------------------------------------------------------------------------
\* In every reachable state the inductive invariant holds.
THEOREM IngestInvariant == Spec => []IngestInv
BY InitIngestInv, NextIngestInv, PTL DEF Spec

\* A 202 is true: the events of the batch are in the stream, under the ids
\* that were returned, in the order of the batch.
THEOREM AcceptedMeansQueued == Spec => []AcceptedIsQueued
<1>1. IngestInv => AcceptedIsQueued
  <2> SUFFICES ASSUME IngestInv, NEW p \in Producer, request[p] = "accepted"
               PROVE  /\ Served(p) = Size(p)
                      /\ \A i \in 1..Size(p) :
                           /\ replies[p][i] \in 1..Len(log)
                           /\ log[replies[p][i]] = Batch[p][i]
                           /\ \A j \in 1..(i - 1) : replies[p][j] < replies[p][i]
    BY DEF AcceptedIsQueued
  <2>1. Served(p) = Size(p) /\ ~Raises(p) /\ \A i \in 1..Served(p) : ReplyHolds(p, i)
    BY DEF IngestInv, RepliesHold
  <2> QED
    BY <2>1 DEF ReplyHolds, Raises
<1> QED
  BY <1>1, IngestInvariant, PTL

-----------------------------------------------------------------------------
(* Where entries come from.  A command is one XADD of one attempt.         *)

IsOpen(p) == request[p] = "open"

\* The commands of the attempts so far.
Sent == {c \in Command : c.attempt \in 1..attempts[c.by] /\ c.next \in 1..Size(c.by)}

\* Commands Redis may still run: of an open request, or adrift.
ToCome(c) ==
  \/ IsOpen(c.by) /\ c.attempt = attempts[c.by] /\ c.next > Served(c.by)
  \/ \E a \in adrift : c.by = a.by /\ c.attempt = a.attempt /\ c.next >= a.next

\* Only batches that are not too large are ever sent, an attempt is open or
\* adrift but not both, and it is adrift at most once.
AttemptsInv ==
  /\ \A p \in Producer : attempts[p] > 0 => Size(p) <= MAX_BATCH_SIZE
  /\ \A p \in Producer : IsOpen(p) => attempts[p] > 0
  /\ \A c \in adrift :
       /\ c.attempt \in 1..attempts[c.by]
       /\ IsOpen(c.by) => c.attempt # attempts[c.by]
       /\ \A d \in adrift : d.by = c.by /\ d.attempt = c.attempt => d = c

\* Every entry has been added by a command of its own, which is done.
EntriesWereSent ==
  \E origin \in [1..Len(log) -> Sent] :
    /\ \A m \in 1..Len(log) :
         /\ log[m] = Batch[origin[m].by][origin[m].next]
         /\ ~ToCome(origin[m])
    /\ \A m, n \in 1..Len(log) : origin[m] = origin[n] => m = n

\* A step that adds nothing makes no command of the past possible again.
LEMMA OriginKept ==
  ASSUME EntriesWereSent, log' = log, Sent \subseteq Sent',
         \A c \in Sent : ToCome(c)' => ToCome(c)
  PROVE  EntriesWereSent'
<1>1. PICK origin \in [1..Len(log) -> Sent] :
        /\ \A m \in 1..Len(log) :
             log[m] = Batch[origin[m].by][origin[m].next] /\ ~ToCome(origin[m])
        /\ \A m, n \in 1..Len(log) : origin[m] = origin[n] => m = n
  BY DEF EntriesWereSent
<1>2. origin \in [1..Len(log') -> Sent']
  BY <1>1
<1>3. \A m \in 1..Len(log') : log'[m] = Batch[origin[m].by][origin[m].next] /\ ~ToCome(origin[m])'
  BY <1>1
<1> QED
  BY <1>1, <1>2, <1>3 DEF EntriesWereSent

\* A step that adds an entry runs a command that could come, and uses it up.
LEMMA OriginGrows ==
  ASSUME EntriesWereSent, log \in Seq(Payload), NEW a \in Sent, ToCome(a),
         log' = Append(log, Batch[a.by][a.next]), Sent' = Sent,
         \A c \in Sent : ToCome(c)' => ToCome(c) /\ c # a
  PROVE  EntriesWereSent'
<1>1. PICK origin \in [1..Len(log) -> Sent] :
        /\ \A m \in 1..Len(log) :
             log[m] = Batch[origin[m].by][origin[m].next] /\ ~ToCome(origin[m])
        /\ \A m, n \in 1..Len(log) : origin[m] = origin[n] => m = n
  BY DEF EntriesWereSent
<1>2. Len(log) \in Nat /\ Len(log') = Len(log) + 1
  OBVIOUS
<1> DEFINE new == Len(log) + 1
<1>3. \A m \in 1..Len(log') : m # new => m \in 1..Len(log)
  BY <1>2
<1>4. \A m \in 1..Len(log) : m # new /\ m \in 1..Len(log')
  BY <1>2
<1>5. log'[new] = Batch[a.by][a.next] /\ \A m \in 1..Len(log) : log'[m] = log[m]
  BY <1>2
<1>6. new \in 1..Len(log')
  BY <1>2
<1> HIDE DEF new
<1>7. PICK grown : grown = [m \in 1..Len(log') |-> IF m = new THEN a ELSE origin[m]]
  OBVIOUS
<1>8. grown[new] = a /\ \A m \in 1..Len(log) : grown[m] = origin[m] /\ grown[m] # a
  BY <1>1, <1>4, <1>6, <1>7
<1>9. grown \in [1..Len(log') -> Sent']
  BY <1>1, <1>3, <1>7
<1>10. \A m \in 1..Len(log') :
         log'[m] = Batch[grown[m].by][grown[m].next] /\ ~ToCome(grown[m])'
  <2> SUFFICES ASSUME NEW m \in 1..Len(log')
               PROVE  log'[m] = Batch[grown[m].by][grown[m].next] /\ ~ToCome(grown[m])'
    OBVIOUS
  <2>1. CASE m = new
    <3>1. log'[m] = Batch[a.by][a.next] /\ grown[m] = a
      BY <1>5, <1>8, <2>1
    <3>2. ~ToCome(a)'
      OBVIOUS
    <3> QED
      BY <3>1, <3>2
  <2>2. CASE m # new
    <3>1. m \in 1..Len(log) /\ grown[m] = origin[m] /\ origin[m] \in Sent
      BY <1>1, <1>3, <1>8, <2>2
    <3>2. ~ToCome(origin[m])'
      BY <1>1, <3>1
    <3> QED
      BY <1>1, <1>5, <3>1, <3>2
  <2> QED
    BY <2>1, <2>2
<1>11. \A m, n \in 1..Len(log') : grown[m] = grown[n] => m = n
  BY <1>1, <1>3, <1>8
<1> QED
  BY <1>9, <1>10, <1>11 DEF EntriesWereSent

\* Answers, errors and lost leftovers only take attempts out of the way.
LEMMA AttemptsKept ==
  ASSUME AttemptsInv, UNCHANGED attempts, adrift' \subseteq adrift,
         \A p \in Producer : IsOpen(p)' => IsOpen(p),
         adrift \subseteq Command
  PROVE  AttemptsInv'
BY DEF AttemptsInv, Command

\* The book-keeping of attempts is kept by every step.
LEMMA NextAttempts == IngestInv /\ AttemptsInv /\ [Next]_vars => AttemptsInv'
<1> SUFFICES ASSUME IngestInv, AttemptsInv, [Next]_vars PROVE AttemptsInv'
  OBVIOUS
<1>0. /\ request \in [Producer -> {"unsent", "open", "retry", "accepted", "too_large"}]
      /\ attempts \in [Producer -> Nat] /\ adrift \subseteq Command
  BY DEF IngestInv, TypeOK
<1>1. ASSUME NEW p \in Producer, Post(p) PROVE AttemptsInv'
  <2>1. CASE Size(p) > MAX_BATCH_SIZE
    BY <1>0, <1>1, <2>1, AttemptsKept DEF Post, Become, IsOpen
  <2>2. CASE ~(Size(p) > MAX_BATCH_SIZE)
    <3>1. Size(p) <= MAX_BATCH_SIZE
      BY <2>2, BatchType, IngestAssumption
    <3>2. attempts' = [attempts EXCEPT ![p] = attempts[p] + 1] /\ adrift' = adrift
      BY <1>1, <2>2 DEF Post
    <3>3. /\ attempts'[p] = attempts[p] + 1
          /\ \A q \in Producer : q # p => attempts'[q] = attempts[q] /\ (IsOpen(q)' => IsOpen(q))
      BY <1>0, <1>1, <2>2, <3>2 DEF Post, Become, IsOpen
    <3>4. \A q \in Producer : attempts'[q] > 0 => Size(q) <= MAX_BATCH_SIZE
      BY <3>1, <3>3 DEF AttemptsInv
    <3>5. \A q \in Producer : IsOpen(q)' => attempts'[q] > 0
      BY <1>0, <3>3 DEF AttemptsInv
    <3>6. ASSUME NEW c \in adrift
          PROVE  c.attempt \in 1..attempts'[c.by] /\ (IsOpen(c.by)' => c.attempt # attempts'[c.by])
      <4>1. c.by \in Producer /\ c.attempt \in 1..attempts[c.by] /\ attempts[c.by] \in Nat
        BY <1>0 DEF AttemptsInv, Command
      <4>2. CASE c.by = p
        BY <3>3, <4>1, <4>2
      <4>3. CASE c.by # p
        BY <3>3, <4>1, <4>3 DEF AttemptsInv
      <4> QED
        BY <4>2, <4>3
    <3> QED
      BY <3>2, <3>4, <3>5, <3>6 DEF AttemptsInv
  <2> QED
    BY <2>1, <2>2
<1>2. ASSUME NEW p \in Producer, Add(p) \/ AddFails(p) PROVE AttemptsInv'
  BY <1>0, <1>2, AttemptsKept DEF Add, AddFails, IsOpen
<1>3. ASSUME NEW p \in Producer, Accept(p), Become(p, "accepted") \/ Become(p, "retry")
      PROVE  AttemptsInv'
  BY <1>0, <1>3, AttemptsKept DEF Accept, Become, IsOpen
<1>4. ASSUME NEW p \in Producer, Answer503(p) PROVE AttemptsInv'
  BY <1>0, <1>4, AttemptsKept DEF Answer503, Become, IsOpen
<1>5. ASSUME NEW p \in Producer, Break(p) PROVE AttemptsInv'
  <2>1. /\ adrift' = adrift \cup Leftover(p) /\ attempts' = attempts
        /\ ~IsOpen(p)' /\ IsOpen(p) /\ \A q \in Producer : IsOpen(q)' => IsOpen(q)
    BY <1>0, <1>5 DEF Break, Become, IsOpen
  <2>2. \A c \in Leftover(p) : c.by = p /\ c.attempt = attempts[p]
    BY DEF Leftover
  <2>3. \A c, d \in Leftover(p) : c = d
    BY DEF Leftover
  <2>4. \A c \in adrift : c.by = p => c.attempt # attempts[p]
    BY <2>1 DEF AttemptsInv
  <2>5. attempts[p] \in 1..attempts[p]
    BY <1>0, <2>1 DEF AttemptsInv
  <2>6. ASSUME NEW c \in adrift'
        PROVE  /\ c.attempt \in 1..attempts[c.by]
               /\ IsOpen(c.by)' => c.attempt # attempts[c.by]
               /\ \A d \in adrift' : d.by = c.by /\ d.attempt = c.attempt => d = c
    <3>1. CASE c \in adrift
      <4>1. c.by \in Producer
        BY <1>0, <3>1 DEF Command
      <4> QED
        BY <2>1, <2>2, <2>4, <3>1, <4>1 DEF AttemptsInv
    <3>2. CASE c \in Leftover(p)
      BY <2>1, <2>2, <2>3, <2>4, <2>5, <3>2
    <3> QED
      BY <2>1, <3>1, <3>2
  <2> QED
    BY <2>1, <2>6 DEF AttemptsInv
<1>6. ASSUME NEW a \in adrift, AddAdrift(a) PROVE AttemptsInv'
  <2>1. attempts' = attempts /\ \A q \in Producer : IsOpen(q)' <=> IsOpen(q)
    BY <1>6 DEF AddAdrift, IsOpen
  <2>2. CASE a.next = Size(a.by)
    BY <1>0, <1>6, <2>1, <2>2, AttemptsKept DEF AddAdrift
  <2>3. CASE a.next # Size(a.by)
    <3> DEFINE b == [a EXCEPT !.next = a.next + 1]
    <3>1. a \in Command /\ adrift' = (adrift \ {a}) \cup {b}
      BY <1>0, <1>6, <2>3 DEF AddAdrift
    <3>2. b.by = a.by /\ b.attempt = a.attempt
      BY <3>1 DEF Command
    <3> HIDE DEF b
    <3>3. a.by \in Producer
      BY <3>1 DEF Command
    <3>4. ASSUME NEW c \in adrift'
          PROVE  /\ c.attempt \in 1..attempts[c.by]
                 /\ IsOpen(c.by)' => c.attempt # attempts[c.by]
                 /\ \A d \in adrift' : d.by = c.by /\ d.attempt = c.attempt => d = c
      <4>1. PICK e \in adrift : /\ e.by = c.by /\ e.attempt = c.attempt
                                /\ c = IF e = a THEN b ELSE e
        BY <3>1, <3>2
      <4>2. \A d \in adrift' : \E g \in adrift :
              g.by = d.by /\ g.attempt = d.attempt /\ d = IF g = a THEN b ELSE g
        BY <3>1, <3>2
      <4>3. e.by \in Producer
        BY <1>0 DEF Command
      <4>4. \A g \in adrift : g.by = e.by /\ g.attempt = e.attempt => g = e
        BY DEF AttemptsInv
      <4>5. e.attempt \in 1..attempts[e.by] /\ (IsOpen(e.by) => e.attempt # attempts[e.by])
        BY DEF AttemptsInv
      <4>6. \A d \in adrift' : d.by = c.by /\ d.attempt = c.attempt => d = c
        BY <4>1, <4>2, <4>4
      <4> QED
        BY <2>1, <4>1, <4>3, <4>5, <4>6
    <3> QED
      BY <2>1, <3>4 DEF AttemptsInv
  <2> QED
    BY <2>2, <2>3
<1>7. ASSUME NEW a \in adrift, Sink(a) PROVE AttemptsInv'
  BY <1>0, <1>7, AttemptsKept DEF Sink, IsOpen
<1>8. CASE UNCHANGED vars
  BY <1>0, <1>8, AttemptsKept DEF vars, ingestVars, IsOpen
<1> QED
  BY <1>1, <1>2, <1>3, <1>4, <1>5, <1>6, <1>7, <1>8
  DEF Next, RequestStep, Answer202, Lose202

\* No step forgets what was sent.
LEMMA SentGrows ==
  ASSUME \A p \in Producer : attempts[p] \in Nat /\ attempts'[p] \in Nat /\ attempts'[p] >= attempts[p]
  PROVE  Sent \subseteq Sent'
<1> SUFFICES ASSUME NEW c \in Sent PROVE c \in Sent'
  OBVIOUS
<1>1. c \in Command /\ c.by \in Producer /\ c.attempt \in 1..attempts[c.by] /\ c.next \in 1..Size(c.by)
  BY DEF Sent, Command
<1>2. c.attempt \in 1..attempts'[c.by]
  BY <1>1
<1> QED
  BY <1>1, <1>2 DEF Sent

\* Every step keeps entries and commands one to one.
LEMMA NextEntries ==
  IngestInv /\ AttemptsInv /\ EntriesWereSent /\ [Next]_vars => EntriesWereSent'
<1> SUFFICES ASSUME IngestInv, AttemptsInv, EntriesWereSent, [Next]_vars
             PROVE  EntriesWereSent'
  OBVIOUS
<1>0. /\ request \in [Producer -> {"unsent", "open", "retry", "accepted", "too_large"}]
      /\ attempts \in [Producer -> Nat] /\ adrift \subseteq Command
      /\ replies \in [Producer -> Seq(Nat)] /\ log \in Seq(Payload)
  BY DEF IngestInv, TypeOK, QueueTypeOK
<1>a. \A c \in Sent : c \in Command /\ c.by \in Producer /\ c.attempt \in Nat /\ c.next \in Nat
                      /\ c.attempt <= attempts[c.by]
  BY <1>0 DEF Sent, Command
<1>b. UNCHANGED attempts => Sent \subseteq Sent' /\ Sent' = Sent
  BY DEF Sent
<1>c. \A q \in Producer : Served(q) \in Nat /\ Size(q) \in Nat
  BY <1>0, BatchType DEF Served
<1>1. ASSUME NEW p \in Producer, Post(p) PROVE EntriesWereSent'
  <2>1. \A q \in Producer : attempts'[q] \in Nat /\ attempts'[q] >= attempts[q]
    <3>1. attempts' = attempts \/ attempts' = [attempts EXCEPT ![p] = attempts[p] + 1]
      BY <1>1 DEF Post
    <3>2. CASE attempts' = attempts
      BY <1>0, <3>2
    <3>3. CASE attempts' = [attempts EXCEPT ![p] = attempts[p] + 1]
      <4>1. attempts'[p] = attempts[p] + 1 /\ attempts[p] \in Nat
        BY <1>0, <3>3
      <4>2. \A q \in Producer : q # p => attempts'[q] = attempts[q] /\ attempts[q] \in Nat
        BY <1>0, <3>3
      <4> QED
        BY <4>1, <4>2
    <3> QED
      BY <3>1, <3>2, <3>3
  <2>2. Sent \subseteq Sent'
    BY <1>0, <2>1, SentGrows
  <2>3. log' = log /\ adrift' = adrift
    BY <1>1 DEF Post, queueVars
  <2>4. ASSUME NEW c \in Sent, ToCome(c)' PROVE ToCome(c)
    <3>1. CASE c.by = p
      <4>1. c.attempt <= attempts[p] /\ attempts[p] \in Nat /\ c.attempt \in Nat
        BY <1>0, <1>a, <3>1
      <4>2. IsOpen(p)' => attempts'[p] = attempts[p] + 1
        BY <1>0, <1>1 DEF Post, Become, IsOpen
      <4> QED
        BY <2>3, <2>4, <3>1, <4>1, <4>2 DEF ToCome
    <3>2. CASE c.by # p
      <4>1. c.by \in Producer
        BY <1>a
      <4>2. request'[c.by] = request[c.by] /\ replies'[c.by] = replies[c.by]
            /\ attempts'[c.by] = attempts[c.by]
        BY <1>0, <1>1, <3>2, <4>1 DEF Post, Become
      <4> QED
        BY <2>3, <2>4, <4>2 DEF ToCome, IsOpen, Served
    <3> QED
      BY <3>1, <3>2
  <2> QED
    BY <2>2, <2>3, <2>4, OriginKept
<1>2. ASSUME NEW p \in Producer, Add(p) PROVE EntriesWereSent'
  <2> DEFINE k == Served(p) + 1
  <2>1. PICK a : a = [by |-> p, attempt |-> attempts[p], next |-> k]
    OBVIOUS
  <2>2. a.by = p /\ a.attempt = attempts[p] /\ a.next = Served(p) + 1
    BY <2>1
  <2>3. attempts[p] \in 1..attempts[p] /\ Served(p) + 1 \in 1..Size(p) /\ IsOpen(p)
    BY <1>0, <1>2, <1>c DEF AttemptsInv, Add, IsOpen
  <2>4. a \in Sent
    BY <2>1, <2>3 DEF Sent, Command
  <2>5. ToCome(a)
    BY <1>c, <2>2, <2>3 DEF ToCome
  <2>6. log' = Append(log, Batch[a.by][a.next]) /\ Sent' = Sent
        /\ request' = request /\ attempts' = attempts /\ adrift' = adrift
    BY <1>2, <1>b, <2>2 DEF Add, Publish
  <2>7. Served(p)' = Served(p) + 1 /\ \A q \in Producer : q # p => Served(q)' = Served(q)
    <3>1. replies'[p] = Append(replies[p], Len(log) + 1)
      BY <1>0, <1>2 DEF Add
    <3>2. \A q \in Producer : q # p => replies'[q] = replies[q]
      BY <1>0, <1>2 DEF Add
    <3>3. Len(log) + 1 \in Nat
      BY <1>0
    <3> QED
      BY <1>0, <3>1, <3>2, <3>3 DEF Served
  <2>8. ASSUME NEW c \in Sent, ToCome(c)' PROVE ToCome(c) /\ c # a
    <3>1. c.by \in Producer /\ c.next \in Nat /\ Served(p) \in Nat
      BY <1>a, <1>c
    <3>2. \A d \in adrift : ~(d.by = p /\ d.attempt = attempts[p])
      BY <2>3 DEF AttemptsInv
    <3>3. ToCome(c)
      BY <2>6, <2>7, <2>8, <3>1 DEF ToCome, IsOpen
    <3>4. c # a
      BY <2>2, <2>6, <2>7, <2>8, <3>1, <3>2 DEF ToCome
    <3> QED
      BY <3>3, <3>4
  <2> QED
    BY <1>0, <2>4, <2>5, <2>6, <2>8, OriginGrows
<1>3. ASSUME NEW p \in Producer, AddFails(p) PROVE EntriesWereSent'
  <2>1. log' = log /\ request' = request /\ attempts' = attempts /\ adrift' = adrift
    BY <1>3 DEF AddFails, queueVars
  <2>2. \A q \in Producer : Served(q)' >= Served(q) /\ Served(q)' \in Nat
    <3>1. replies'[p] = Append(replies[p], Failed) /\ Failed \in Nat
      BY <1>0, <1>3 DEF AddFails, Failed
    <3>2. \A q \in Producer : q # p => replies'[q] = replies[q]
      BY <1>0, <1>3 DEF AddFails
    <3>3. Served(p)' = Served(p) + 1
      <4>1. replies[p] \in Seq(Nat)
        BY <1>0
      <4> QED
        BY <3>1, <4>1 DEF Served
    <3>4. \A q \in Producer : q # p => Served(q)' = Served(q)
      BY <3>2 DEF Served
    <3> QED
      BY <1>c, <3>3, <3>4
  <2>3. ASSUME NEW c \in Sent, ToCome(c)' PROVE ToCome(c)
    <3>1. c.by \in Producer /\ c.next \in Nat /\ Served(c.by) \in Nat
      BY <1>a, <1>c
    <3> QED
      BY <2>1, <2>2, <2>3, <3>1 DEF ToCome, IsOpen
  <2> QED
    BY <1>b, <2>1, <2>3, OriginKept
<1>4. ASSUME NEW p \in Producer,
             (Accept(p) /\ (Become(p, "accepted") \/ Become(p, "retry"))) \/ Answer503(p)
      PROVE  EntriesWereSent'
  <2>1. log' = log /\ attempts' = attempts /\ adrift' = adrift /\ replies' = replies
        /\ \A q \in Producer : IsOpen(q)' => IsOpen(q)
    BY <1>0, <1>4 DEF Accept, Answer503, Become, IsOpen, queueVars
  <2>2. \A c \in Sent : ToCome(c)' => ToCome(c)
    BY <1>a, <2>1 DEF ToCome, Served
  <2> QED
    BY <1>b, <2>1, <2>2, OriginKept
<1>5. ASSUME NEW p \in Producer, Break(p) PROVE EntriesWereSent'
  <2>1. log' = log /\ attempts' = attempts /\ replies' = replies /\ IsOpen(p)
        /\ adrift' = adrift \cup Leftover(p)
        /\ \A q \in Producer : IsOpen(q)' => IsOpen(q)
    BY <1>0, <1>5 DEF Break, Become, IsOpen, queueVars
  <2>2. \A a \in Leftover(p) : a.by = p /\ a.attempt = attempts[p] /\ a.next = Served(p) + 1
    BY DEF Leftover
  <2>3. ASSUME NEW c \in Sent, ToCome(c)' PROVE ToCome(c)
    <3>1. c.by \in Producer /\ c.next \in Nat /\ Served(p) \in Nat
      BY <1>a, <1>c
    <3> QED
      BY <2>1, <2>2, <2>3, <3>1 DEF ToCome, Served
  <2> QED
    BY <1>b, <2>1, <2>3, OriginKept
<1>6. ASSUME NEW a \in adrift, AddAdrift(a) PROVE EntriesWereSent'
  <2>1. a \in Command /\ a.by \in Producer /\ a.next \in Nat
        /\ a.next \in 1..Size(a.by) /\ a.attempt \in 1..attempts[a.by]
    BY <1>0 DEF IngestInv, TypeOK, AttemptsInv, Command
  <2>2. a \in Sent
    BY <2>1 DEF Sent
  <2>3. ToCome(a)
    BY <2>1 DEF ToCome
  <2>4. log' = Append(log, Batch[a.by][a.next]) /\ Sent' = Sent
        /\ request' = request /\ attempts' = attempts /\ replies' = replies
    BY <1>6, <1>b DEF AddAdrift, Publish
  <2>5. ASSUME NEW d \in adrift'
        PROVE  \/ d \in adrift /\ d # a
               \/ d.by = a.by /\ d.attempt = a.attempt /\ d.next = a.next + 1
    <3>1. CASE a.next = Size(a.by)
      BY <1>6, <2>5, <3>1 DEF AddAdrift
    <3>2. CASE a.next # Size(a.by)
      <4>1. adrift' = (adrift \ {a}) \cup {[a EXCEPT !.next = a.next + 1]}
        BY <1>6, <3>2 DEF AddAdrift
      <4> QED
        BY <2>1, <4>1 DEF Command
    <3> QED
      BY <3>1, <3>2
  <2>6. ASSUME NEW c \in Sent, ToCome(c)' PROVE ToCome(c) /\ c # a
    <3>1. c.by \in Producer /\ c.next \in Nat
      BY <1>a
    <3>2. CASE IsOpen(c.by)' /\ c.attempt = attempts'[c.by] /\ c.next > Served(c.by)'
      <4>1. ToCome(c)
        BY <2>4, <3>2 DEF ToCome, IsOpen, Served
      <4>2. IsOpen(a.by) => a.attempt # attempts[a.by]
        BY DEF AttemptsInv
      <4> QED
        BY <2>4, <3>2, <4>1, <4>2 DEF IsOpen
    <3>3. ASSUME NEW d \in adrift', c.by = d.by, c.attempt = d.attempt, c.next >= d.next
          PROVE  ToCome(c) /\ c # a
      <4>1. CASE d \in adrift /\ d # a
        <5>1. ~(d.by = a.by /\ d.attempt = a.attempt)
          BY <4>1 DEF AttemptsInv
        <5> QED
          BY <3>3, <4>1, <5>1 DEF ToCome
      <4>2. CASE d.by = a.by /\ d.attempt = a.attempt /\ d.next = a.next + 1
        <5>1. c.next >= a.next /\ c.next # a.next
          BY <2>1, <3>1, <3>3, <4>2
        <5> QED
          BY <3>3, <4>2, <5>1 DEF ToCome
      <4> QED
        BY <2>5, <4>1, <4>2
    <3> QED
      BY <2>6, <3>2, <3>3 DEF ToCome
  <2> QED
    BY <1>0, <2>2, <2>3, <2>4, <2>6, OriginGrows
<1>7. ASSUME NEW a \in adrift, Sink(a) PROVE EntriesWereSent'
  <2>1. log' = log /\ request' = request /\ attempts' = attempts /\ replies' = replies
        /\ adrift' \subseteq adrift
    BY <1>7 DEF Sink, queueVars
  <2>2. \A c \in Sent : ToCome(c)' => ToCome(c)
    BY <2>1 DEF ToCome, IsOpen, Served
  <2> QED
    BY <1>b, <2>1, <2>2, OriginKept
<1>8. CASE UNCHANGED vars
  <2>1. log' = log /\ attempts' = attempts /\ \A c \in Sent : ToCome(c)' => ToCome(c)
    BY <1>8 DEF vars, ingestVars, queueVars, ToCome, IsOpen, Served
  <2> QED
    BY <1>b, <2>1, OriginKept
<1> QED
  BY <1>1, <1>2, <1>3, <1>4, <1>5, <1>6, <1>7, <1>8
  DEF Next, RequestStep, Answer202, Lose202

\* Nothing has been sent before the first request.
LEMMA InitEntries == Init => AttemptsInv /\ EntriesWereSent
<1> SUFFICES ASSUME Init PROVE AttemptsInv /\ EntriesWereSent
  OBVIOUS
<1>1. AttemptsInv
  BY DEF Init, AttemptsInv, IsOpen
<1>2. Len(log) = 0
  BY DEF Init, QueueInit
<1>3. PICK origin : origin = [m \in 1..0 |-> CHOOSE c \in Sent : TRUE]
  OBVIOUS
<1>4. origin \in [1..Len(log) -> Sent]
  BY <1>2, <1>3
<1>5. 1..Len(log) = {}
  BY <1>2
<1>6. EntriesWereSent
  BY <1>4, <1>5 DEF EntriesWereSent
<1> QED
  BY <1>1, <1>6

\* Whatever breaks, and whatever Redis runs late, every entry of the stream
\* was added by an XADD of its own: one command of one attempt at one batch.
THEOREM EveryEntryWasSent == Spec => [](IngestInv /\ AttemptsInv /\ EntriesWereSent)
<1>1. Init => IngestInv /\ AttemptsInv /\ EntriesWereSent
  BY InitIngestInv, InitEntries
<1>2. (IngestInv /\ AttemptsInv /\ EntriesWereSent) /\ [Next]_vars
        => (IngestInv /\ AttemptsInv /\ EntriesWereSent)'
  BY NextIngestInv, NextAttempts, NextEntries
<1> QED
  BY <1>1, <1>2, PTL DEF Spec

-----------------------------------------------------------------------------
(* How often an event is in the stream.                                    *)

\* If all events differ, an event is in the stream at most once for every
\* attempt to send it: the copies of an event are its producer's retries.
THEOREM CopiesStayBounded ==
  ASSUME EventsDiffer
  PROVE  Spec => []CopiesBounded
<1>1. IngestInv /\ AttemptsInv /\ EntriesWereSent => CopiesBounded
  <2> SUFFICES ASSUME IngestInv, AttemptsInv, EntriesWereSent,
                      NEW p \in Producer, NEW i \in DOMAIN Batch[p]
               PROVE  Cardinality({m \in 1..Len(log) : log[m] = Batch[p][i]}) <= attempts[p]
    BY DEF CopiesBounded
  <2> DEFINE S == {m \in 1..Len(log) : log[m] = Batch[p][i]}
             T == 1..attempts[p]
  <2>1. PICK origin \in [1..Len(log) -> Sent] :
          /\ \A m \in 1..Len(log) : log[m] = Batch[origin[m].by][origin[m].next]
          /\ \A m, n \in 1..Len(log) : origin[m] = origin[n] => m = n
    BY DEF EntriesWereSent
  <2>2. attempts \in [Producer -> Nat] /\ i \in 1..Size(p)
    BY BatchType DEF IngestInv, TypeOK, Size
  <2>3. ASSUME NEW m \in S
        PROVE  origin[m] \in Command /\ origin[m].by = p /\ origin[m].next = i
               /\ origin[m].attempt \in T
    <3>1. /\ origin[m] \in Sent /\ origin[m] \in Command
          /\ origin[m].by \in Producer /\ origin[m].next \in 1..Size(origin[m].by)
          /\ origin[m].attempt \in 1..attempts[origin[m].by]
      BY <2>1 DEF Sent, Command
    <3>2. Size(origin[m].by) <= MAX_BATCH_SIZE
      BY <2>2, <3>1 DEF AttemptsInv
    <3>3. Batch[p][i] = Batch[origin[m].by][origin[m].next]
      BY <2>1
    <3> QED
      BY <2>2, <3>1, <3>2, <3>3 DEF EventsDiffer
  <2>4. \A m, n \in S : origin[m].attempt = origin[n].attempt => m = n
    <3> SUFFICES ASSUME NEW m \in S, NEW n \in S, origin[m].attempt = origin[n].attempt
                 PROVE  m = n
      OBVIOUS
    <3>1. origin[m] = origin[n]
      BY <2>3 DEF Command
    <3> QED
      BY <2>1, <3>1
  <2> DEFINE f == [m \in S |-> origin[m].attempt]
  <2>5. f \in Injection(S, T)
    BY <2>3, <2>4 DEF Injection, IsInjective
  <2>6. IsFiniteSet(T) /\ Cardinality(T) = attempts[p]
    BY <2>2, FS_Interval
  <2> HIDE DEF S, T, f
  <2>7. Cardinality(S) <= Cardinality(T)
    BY <2>5, <2>6, FS_Injection
  <2> QED
    BY <2>6, <2>7 DEF S
<1> QED
  BY <1>1, EveryEntryWasSent, PTL

-----------------------------------------------------------------------------
(* What EVENTS_RECEIVED counts.                                            *)

\* The entries Redis has reported to the open request of a producer.
Reported(p) == {replies[p][i] : i \in 1..Served(p)} \ {Failed}

\* The counter counts entries: as many of the stream's as it says, none of
\* which belongs to a request that is still open.
CountsEntries ==
  \E C \in SUBSET (1..Len(log)) :
    /\ Cardinality(C) = received
    /\ \A p \in Producer : IsOpen(p) => Reported(p) \cap C = {}

\* Open requests have entries of their own.
ReportsDiffer ==
  \A p, q \in Producer : p # q /\ IsOpen(p) /\ IsOpen(q) => Reported(p) \cap Reported(q) = {}

ReceivedInv == CountsEntries /\ ReportsDiffer

\* What is reported is in the stream.
LEMMA ReportedIsQueued ==
  ASSUME IngestInv, NEW p \in Producer
  PROVE  Reported(p) \subseteq 1..Len(log)
<1>1. \A i \in 1..Served(p) : ReplyHolds(p, i)
  BY DEF IngestInv, RepliesHold
<1> QED
  BY <1>1 DEF Reported, ReplyHolds

\* A request without an error in it has been given as many entries as it has
\* events.
LEMMA ReportedSize ==
  ASSUME IngestInv, NEW p \in Producer, ~Raises(p)
  PROVE  IsFiniteSet(Reported(p)) /\ Cardinality(Reported(p)) = Served(p)
<1> DEFINE S == 1..Served(p)
           T == Reported(p)
           f == [i \in S |-> replies[p][i]]
<1>1. replies[p] \in Seq(Nat) /\ Served(p) \in Nat
  BY DEF IngestInv, TypeOK, Served
<1>2. \A i \in S : replies[p][i] # Failed /\ replies[p][i] \in T
  BY DEF Raises, Reported
<1>3. \A i, j \in S : j < i => replies[p][j] < replies[p][i]
  <2> SUFFICES ASSUME NEW i \in S, NEW j \in S, j < i PROVE replies[p][j] < replies[p][i]
    OBVIOUS
  <2>1. ReplyHolds(p, i)
    BY DEF IngestInv, RepliesHold
  <2>2. j \in 1..(i - 1)
    BY <1>1
  <2> QED
    BY <1>2, <2>1, <2>2 DEF ReplyHolds
<1>4. \A i, j \in S : replies[p][i] = replies[p][j] => i = j
  <2> SUFFICES ASSUME NEW i \in S, NEW j \in S, replies[p][i] = replies[p][j], i # j
               PROVE  FALSE
    OBVIOUS
  <2>1. replies[p][i] \in Nat /\ i \in Nat /\ j \in Nat
    BY <1>1 DEF Served
  <2>2. i < j \/ j < i
    BY <2>1
  <2> QED
    BY <1>3, <2>1, <2>2
<1>5. \A n \in T : \E i \in S : replies[p][i] = n
  BY DEF Reported
<1> HIDE DEF T
<1>6. f \in Injection(S, T)
  BY <1>2, <1>4 DEF Injection, IsInjective
<1>7. f \in Surjection(S, T)
  BY <1>2, <1>5 DEF Surjection
<1>8. ExistsBijection(S, T)
  BY <1>6, <1>7 DEF ExistsBijection, Bijection
<1>9. IsFiniteSet(S) /\ Cardinality(S) = Served(p)
  BY <1>1, FS_Interval
<1> HIDE DEF S, f
<1>10. IsFiniteSet(T) /\ Cardinality(T) = Cardinality(S)
  BY <1>8, <1>9, FS_Bijection
<1> QED
  BY <1>9, <1>10 DEF T

\* Steps that do not count: a new entry goes to one request at most.
LEMMA ReceivedKept ==
  ASSUME IngestInv, ReceivedInv, received' = received,
         Len(log') \in Nat, Len(log) <= Len(log'),
         \A p \in Producer : IsOpen(p)' =>
           \/ Reported(p)' = {}
           \/ IsOpen(p) /\ Reported(p)' \subseteq Reported(p) \cup {Len(log) + 1},
         \A p, q \in Producer :
           Len(log) + 1 \in Reported(p)' /\ Len(log) + 1 \in Reported(q)' => p = q
  PROVE  ReceivedInv'
<1>1. Len(log) \in Nat
  BY DEF IngestInv, TypeOK, QueueTypeOK
<1>2. Len(log) + 1 \notin 1..Len(log)
  BY <1>1
<1>3. CountsEntries'
  <2>1. PICK C \in SUBSET (1..Len(log)) :
          /\ Cardinality(C) = received
          /\ \A p \in Producer : IsOpen(p) => Reported(p) \cap C = {}
    BY DEF ReceivedInv, CountsEntries
  <2>2. C \in SUBSET (1..Len(log'))
    BY <1>1
  <2>3. \A p \in Producer : IsOpen(p)' => Reported(p)' \cap C = {}
    BY <1>2, <2>1
  <2> QED
    BY <2>1, <2>2, <2>3 DEF CountsEntries
<1>4. ReportsDiffer'
  <2> SUFFICES ASSUME NEW p \in Producer, NEW q \in Producer, p # q, IsOpen(p)', IsOpen(q)',
                      NEW n \in Reported(p)', n \in Reported(q)'
               PROVE  FALSE
    BY DEF ReportsDiffer
  <2>1. n # Len(log) + 1
    OBVIOUS
  <2>2. IsOpen(p) /\ IsOpen(q) /\ n \in Reported(p) /\ n \in Reported(q)
    BY <2>1
  <2> QED
    BY <2>2 DEF ReceivedInv, ReportsDiffer
<1> QED
  BY <1>3, <1>4 DEF ReceivedInv

\* The 202 adds the entries of its request, which nobody has counted yet.
LEMMA ReceivedCounts ==
  ASSUME IngestInv, ReceivedInv, NEW p \in Producer, Accept(p),
         Become(p, "accepted") \/ Become(p, "retry")
  PROVE  ReceivedInv'
<1>0. /\ request \in [Producer -> {"unsent", "open", "retry", "accepted", "too_large"}]
      /\ Len(log) \in Nat
  BY DEF IngestInv, TypeOK, QueueTypeOK
<1>1. /\ IsOpen(p) /\ ~IsOpen(p)' /\ log' = log
      /\ \A q \in Producer : (IsOpen(q)' => IsOpen(q)) /\ Reported(q)' = Reported(q)
  BY <1>0 DEF Accept, Become, IsOpen, queueVars, Reported, Served
<1>2. Cardinality(Reported(p)) = Size(p) /\ IsFiniteSet(Reported(p)) /\ ~Raises(p)
      /\ received' = received + Size(p)
  BY ReportedSize DEF Accept
<1>3. CountsEntries'
  <2>1. PICK C \in SUBSET (1..Len(log)) :
          /\ Cardinality(C) = received
          /\ \A q \in Producer : IsOpen(q) => Reported(q) \cap C = {}
    BY DEF ReceivedInv, CountsEntries
  <2>2. IsFiniteSet(C)
    <3>1. IsFiniteSet(1..Len(log))
      BY <1>0, FS_Interval
    <3> QED
      BY <3>1, FS_Subset
  <2>3. C \cap Reported(p) = {}
    BY <1>1, <2>1
  <2>4. Cardinality(C \cup Reported(p)) = received + Size(p)
    <3>1. Cardinality(C \cup Reported(p))
            = Cardinality(C) + Cardinality(Reported(p)) - Cardinality(C \cap Reported(p))
      BY <1>2, <2>2, FS_Union
    <3>2. Cardinality(C \cap Reported(p)) = 0
      BY <2>3, FS_EmptySet
    <3>3. received \in Nat /\ Size(p) \in Nat
      BY BatchType DEF IngestInv, TypeOK
    <3> QED
      BY <1>2, <2>1, <3>1, <3>2, <3>3
  <2>5. C \cup Reported(p) \in SUBSET (1..Len(log'))
    BY <1>1, ReportedIsQueued
  <2>6. \A q \in Producer : IsOpen(q)' => Reported(q)' \cap (C \cup Reported(p)) = {}
    BY <1>1, <2>1 DEF ReceivedInv, ReportsDiffer
  <2> QED
    BY <1>2, <2>4, <2>5, <2>6 DEF CountsEntries
<1>4. ReportsDiffer'
  BY <1>1 DEF ReceivedInv, ReportsDiffer
<1> QED
  BY <1>3, <1>4 DEF ReceivedInv

\* Every step keeps the count to entries of the stream.
LEMMA NextReceivedInv == IngestInv /\ ReceivedInv /\ [Next]_vars => ReceivedInv'
<1> SUFFICES ASSUME IngestInv, ReceivedInv, [Next]_vars PROVE ReceivedInv'
  OBVIOUS
<1>0. /\ request \in [Producer -> {"unsent", "open", "retry", "accepted", "too_large"}]
      /\ adrift \subseteq Command /\ Len(log) \in Nat
      /\ replies \in [Producer -> Seq(Nat)] /\ log \in Seq(Payload)
  BY DEF IngestInv, TypeOK, QueueTypeOK
<1>a. \A q \in Producer : Reported(q) \subseteq 1..Len(log) /\ Len(log) + 1 \notin Reported(q)
  BY <1>0, ReportedIsQueued
<1>b. ASSUME received' = received, Len(log') \in Nat, Len(log) <= Len(log'), UNCHANGED replies,
             \A q \in Producer : IsOpen(q)' => IsOpen(q)
      PROVE  ReceivedInv'
  <2>1. \A q \in Producer : Reported(q)' = Reported(q)
    BY <1>b DEF Reported, Served
  <2> QED
    BY <1>a, <1>b, <2>1, ReceivedKept
<1>1. ASSUME NEW p \in Producer, Post(p) PROVE ReceivedInv'
  <2>1. log' = log /\ received' = received
    BY <1>1 DEF Post, queueVars
  <2>2. ASSUME NEW q \in Producer
        PROVE  /\ IsOpen(q)' => Reported(q)' = {} \/ (IsOpen(q) /\ Reported(q)' = Reported(q))
               /\ Reported(q)' \subseteq Reported(q)
    <3>1. CASE q = p
      <4>1. ~(Size(p) > MAX_BATCH_SIZE) => replies'[p] = <<>>
        BY <1>0, <1>1 DEF Post
      <4>2. Size(p) > MAX_BATCH_SIZE => replies' = replies /\ ~IsOpen(p)'
        BY <1>0, <1>1 DEF Post, Become, IsOpen
      <4> QED
        BY <3>1, <4>1, <4>2 DEF Reported, Served
    <3>2. CASE q # p
      <4>1. replies'[q] = replies[q] /\ request'[q] = request[q]
        BY <1>0, <1>1, <3>2 DEF Post, Become
      <4> QED
        BY <4>1 DEF Reported, Served, IsOpen
    <3> QED
      BY <3>1, <3>2
  <2> QED
    BY <1>0, <1>a, <2>1, <2>2, ReceivedKept
<1>2. ASSUME NEW p \in Producer, Add(p) \/ AddFails(p) PROVE ReceivedInv'
  <2>1. PICK n \in Nat : /\ replies' = [replies EXCEPT ![p] = Append(replies[p], n)]
                         /\ n = Failed \/ n = Len(log) + 1
    <3>1. CASE Add(p)
      <4>1. Len(log) + 1 \in Nat
        BY <1>0
      <4>2. replies' = [replies EXCEPT ![p] = Append(replies[p], Len(log) + 1)]
        BY <3>1 DEF Add
      <4> QED
        BY <4>1, <4>2
    <3>2. CASE AddFails(p)
      <4>1. Failed \in Nat
        BY DEF Failed
      <4>2. replies' = [replies EXCEPT ![p] = Append(replies[p], Failed)]
        BY <3>2 DEF AddFails
      <4> QED
        BY <4>1, <4>2
    <3> QED
      BY <1>2, <3>1, <3>2
  <2>2. request' = request /\ received' = received /\ Len(log') \in Nat /\ Len(log) <= Len(log')
    <3>1. CASE Add(p)
      <4>1. log' = Append(log, Batch[p][Served(p) + 1]) /\ request' = request
            /\ received' = received
        BY <3>1 DEF Add, Publish
      <4> QED
        BY <1>0, <4>1
    <3>2. CASE AddFails(p)
      BY <1>0, <3>2 DEF AddFails, queueVars
    <3> QED
      BY <1>2, <3>1, <3>2
  <2>3. Reported(p)' \subseteq Reported(p) \cup {Len(log) + 1}
    <3>1. replies[p] \in Seq(Nat) /\ replies'[p] = Append(replies[p], n)
      BY <1>0, <2>1
    <3>2. Served(p)' = Served(p) + 1 /\ Served(p) \in Nat /\ replies'[p][Served(p) + 1] = n
          /\ \A i \in 1..Served(p) : replies'[p][i] = replies[p][i]
      BY <3>1 DEF Served
    <3>3. \A i \in 1..Served(p)' : i = Served(p) + 1 \/ i \in 1..Served(p)
      BY <3>2
    <3> QED
      BY <2>1, <3>2, <3>3 DEF Reported
  <2>4. \A q \in Producer : q # p => Reported(q)' = Reported(q)
    BY <1>0, <2>1 DEF Reported, Served
  <2>5. IsOpen(p) /\ \A q \in Producer : IsOpen(q)' <=> IsOpen(q)
    BY <1>2, <2>2 DEF Add, AddFails, IsOpen
  <2> QED
    BY <1>a, <2>2, <2>3, <2>4, <2>5, ReceivedKept
<1>3. ASSUME NEW p \in Producer, Accept(p), Become(p, "accepted") \/ Become(p, "retry")
      PROVE  ReceivedInv'
  BY <1>3, ReceivedCounts
<1>4. ASSUME NEW p \in Producer, Answer503(p) \/ Break(p) PROVE ReceivedInv'
  BY <1>0, <1>4, <1>b DEF Answer503, Break, Become, IsOpen, queueVars
<1>5. ASSUME NEW a \in adrift, AddAdrift(a) PROVE ReceivedInv'
  <2>1. log' = Append(log, Batch[a.by][a.next])
    BY <1>5 DEF AddAdrift, Publish
  <2>2. Len(log') = Len(log) + 1
    BY <1>0, <2>1
  <2> QED
    BY <1>0, <1>5, <1>b, <2>2 DEF AddAdrift, IsOpen
<1>6. ASSUME NEW a \in adrift, Sink(a) PROVE ReceivedInv'
  BY <1>0, <1>6, <1>b DEF Sink, IsOpen, queueVars
<1>7. CASE UNCHANGED vars
  BY <1>0, <1>7, <1>b DEF vars, ingestVars, IsOpen, queueVars
<1> QED
  BY <1>1, <1>2, <1>3, <1>4, <1>5, <1>6, <1>7
  DEF Next, RequestStep, Answer202, Lose202

\* events_received_total never runs ahead of the stream: a 202 counts entries
\* that were added for its own request, and each only once.
THEOREM ReceivedStaysQueued == Spec => []ReceivedIsQueued
<1>1. Init => ReceivedInv
  <2> SUFFICES ASSUME Init PROVE ReceivedInv
    OBVIOUS
  <2>1. received = 0 /\ \A p \in Producer : ~IsOpen(p)
    BY DEF Init, IsOpen
  <2>2. {} \in SUBSET (1..Len(log)) /\ Cardinality({}) = 0
    BY FS_EmptySet
  <2> QED
    BY <2>1, <2>2 DEF ReceivedInv, CountsEntries, ReportsDiffer
<1>2. IngestInv /\ ReceivedInv => ReceivedIsQueued
  <2> SUFFICES ASSUME IngestInv, NEW C \in SUBSET (1..Len(log)), Cardinality(C) = received
               PROVE  received <= Len(log)
    BY DEF ReceivedInv, CountsEntries, ReceivedIsQueued
  <2>1. Len(log) \in Nat
    BY DEF IngestInv, TypeOK, QueueTypeOK
  <2>2. IsFiniteSet(1..Len(log)) /\ Cardinality(1..Len(log)) = Len(log)
    BY <2>1, FS_Interval
  <2> QED
    BY <2>2, FS_Subset
<1> QED
  BY <1>1, <1>2, IngestInvariant, NextReceivedInv, PTL DEF Spec
=============================================================================
