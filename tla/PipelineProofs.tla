--------------------------- MODULE PipelineProofs ---------------------------
(***************************************************************************)
(* The API and the workers together, for any clients, batches, workers and *)
(* faults.  Seen from the workers, every step of the API is a producer's   *)
(* XADD or nothing at all, so Pipeline implements EventConsumer and what   *)
(* EventConsumerProofs shows holds of it; seen from the API, the workers   *)
(* leave the stream's entries alone, so its replies stay true.             *)
(***************************************************************************)
EXTENDS Pipeline, EventConsumerProofs

Size(c) == Len(Batch[c])
Got(c) == Len(replies[c])

ApiTypeOK ==
  /\ request \in [Client -> {"unsent", "open", "retry", "accepted", "too_large"}]
  /\ replies \in [Client -> Seq(Nat)]
  /\ attempts \in [Client -> Nat]
  /\ adrift \subseteq {a \in In!Command : a.next \in 1..Size(a.by)}

\* A reply is an error or the id of the entry of its event.
ReplyTrue(c, i) ==
  \/ replies[c][i] = In!Failed
  \/ replies[c][i] \in 1..Len(log) /\ log[replies[c][i]] = Batch[c][i]

Complete(c) ==
  /\ Got(c) = Size(c)
  /\ \A i \in 1..Got(c) : replies[c][i] # In!Failed

RepliesTrue ==
  \A c \in Client :
    /\ Got(c) <= Size(c)
    /\ \A i \in 1..Got(c) : ReplyTrue(c, i)
    /\ Accepted(c) => Complete(c)

ApiInv == ApiTypeOK /\ RepliesTrue
PipelineInv == IInv /\ ApiInv

ApiStep == In!Next /\ UNCHANGED <<consumerVars, drained>>
WorkersStep == [Next]_vars /\ UNCHANGED <<log, apiVars, drained>>

-----------------------------------------------------------------------------
\* Batches are sequences of payloads.
LEMMA BatchType ==
  ASSUME NEW c \in Client
  PROVE  /\ Batch[c] \in Seq(Payload) /\ Size(c) \in Nat
         /\ \A i \in 1..Size(c) : Batch[c][i] \in Payload
BY PipelineAssumption DEF Size

\* A command of a dead connection is one of the events of its request.
LEMMA AdriftType ==
  ASSUME ApiTypeOK, NEW a \in adrift
  PROVE  /\ a \in In!Command /\ a.by \in Client /\ a.next \in 1..Size(a.by)
         /\ Batch[a.by][a.next] \in Payload
<1>1. a \in In!Command /\ a.by \in Client /\ a.next \in 1..Size(a.by)
  BY DEF ApiTypeOK, In!Command
<1> QED
  BY <1>1, BatchType

\* What a worker does is a step of EventConsumer that adds no entry.
LEMMA WorkersMove ==
  ASSUME TypeOK, FromWorkers(TimePasses)
         \/ (\E s \in Slot : LoopStep(s)) \/ ProcessStep \/ (\E w \in Worker : Restart(w))
  PROVE  WorkersStep
<1>1. Next
  BY DEF FromWorkers, LoopStep, ProcessStep, Restart, Next
<1>2. UNCHANGED <<apiVars, drained>>
  BY DEF FromWorkers, LoopStep, ProcessStep, Restart
<1>3. CASE FromWorkers(TimePasses)
  BY <1>3 DEF FromWorkers, TimePasses, Tick, WorkersStep, Next
<1>4. ASSUME NEW s \in Slot, SlotStep(s) PROVE log' = log
  <2>1. CASE LeaveLoop(s) \/ ReadNothing(s) \/ Triage(s) \/ TriageFails(s)
    BY <2>1 DEF LeaveLoop, ReadNothing, Triage, TriageFails, vars, queueVars
  <2>2. CASE Read(s) \/ ReadLost(s)
    BY <2>2 DEF Read, ReadLost, XReadGroup
  <2>3. CASE Claim(s) \/ ClaimLost(s)
    BY <2>3 DEF Claim, ClaimLost, XAutoClaim
  <2>4. CASE Finish(s)
    BY <2>4 DEF Finish, XAck, queueVars
  <2>5. ASSUME NEW m \in Id, MessageStep(s, m) PROVE log' = log
    <3>1. CASE BuryExcess(s, m) \/ Bury(s, m)
      BY <3>1 DEF BuryExcess, Bury, DeadLetter, queueVars
    <3>2. CASE Start(s, m)
      BY <3>2 DEF Start, queueVars
    <3>3. CASE AttemptStores(s, m) \/ AttemptStoresUnheard(s, m) \/ AttemptFails(s, m)
      BY <3>3 DEF AttemptStores, AttemptStoresUnheard, AttemptFails, queueVars
    <3>4. CASE AttemptIsHopeless(s, m) \/ AttemptBreaks(s, m)
      BY <3>4 DEF AttemptIsHopeless, AttemptBreaks, queueVars
    <3> QED
      BY <2>5, <3>1, <3>2, <3>3, <3>4 DEF MessageStep
  <2> QED
    BY <1>4, <2>1, <2>2, <2>3, <2>4, <2>5 DEF SlotStep
<1>5. ASSUME NEW w \in Worker, Crash(w) \/ RequestStop(w) \/ Boot(w) PROVE log' = log
  BY <1>5 DEF Crash, RequestStop, Boot, queueVars
<1> QED
  BY <1>1, <1>2, <1>3, <1>4, <1>5
  DEF FromWorkers, LoopStep, ProcessStep, Restart, WorkersStep

\* A step of the API leaves the stream alone, or is one producer's XADD.
LEMMA ApiMoves ==
  ASSUME TypeOK, ApiInv, ApiStep
  PROVE  [Next]_vars
<1> USE DEF ApiInv
<1>1. ASSUME NEW e \in Payload, In!Publish(e) PROVE Next
  BY <1>1 DEF ApiStep, In!Publish, Publish, Producer, NoFault, UnchangedStore,
              consumerVars, workerVars, Next
<1>2. ASSUME UNCHANGED queueVars PROVE UNCHANGED vars
  BY <1>2 DEF ApiStep, consumerVars, workerVars, vars
<1>3. ASSUME NEW c \in Client, In!Add(c) PROVE Next
  <2>1. Got(c) + 1 \in 1..Size(c)
    BY <1>3, BatchType DEF In!Add, In!Served, In!Size, Size, Got, ApiTypeOK
  <2> QED
    BY <1>1, <1>3, <2>1, BatchType DEF In!Add, In!Served, Got
<1>4. ASSUME NEW a \in adrift, In!AddAdrift(a) PROVE Next
  BY <1>1, <1>4, AdriftType DEF In!AddAdrift
<1>5. ASSUME NEW c \in Client,
             \/ In!Post(c) \/ In!Answer202(c) \/ In!Answer503(c)
             \/ In!AddFails(c) \/ In!Lose202(c) \/ In!Break(c)
      PROVE  UNCHANGED queueVars
  BY <1>5 DEF In!Post, In!Answer202, In!Answer503, In!AddFails, In!Lose202, In!Break,
              In!Accept, In!queueVars, queueVars
<1>6. ASSUME NEW a \in adrift, In!Sink(a) PROVE UNCHANGED queueVars
  BY <1>6 DEF In!Sink, In!queueVars, queueVars
<1> QED
  BY <1>2, <1>3, <1>4, <1>5, <1>6 DEF ApiStep, In!Next, In!RequestStep

\* Every step is one of the workers', one of the API's, or a poll.
LEMMA PipelineMoves ==
  ASSUME TypeOK, ApiInv, [PipelineNext]_pipelineVars
  PROVE  /\ [Next]_vars
         /\ WorkersStep \/ ApiStep \/ Poll
<1>1. CASE \E c \in Client : ClientStep(c)
  BY <1>1, ApiMoves DEF ClientStep, FromApi, ApiStep, In!Next
<1>2. CASE AdriftStep \/ ApiFails
  BY <1>2, ApiMoves DEF AdriftStep, ApiFails, FromApi, ApiStep, In!Next
<1>3. CASE FromWorkers(TimePasses)
           \/ (\E s \in Slot : LoopStep(s)) \/ ProcessStep \/ (\E w \in Worker : Restart(w))
  BY <1>3, WorkersMove DEF WorkersStep
<1>4. CASE Poll
  BY <1>4 DEF Poll
<1>5. CASE UNCHANGED pipelineVars
  BY <1>5 DEF pipelineVars, vars, queueVars, WorkersStep
<1> QED
  BY <1>1, <1>2, <1>3, <1>4, <1>5 DEF PipelineNext

-----------------------------------------------------------------------------
(* The replies of the API stay true.                                       *)

\* Entries keep their place, so what was replied is as true as before.
LEMMA RepliesKept ==
  ASSUME TypeOK, [Next]_vars, RepliesTrue, UNCHANGED replies,
         \A c \in Client : Accepted(c)' => Accepted(c) \/ Complete(c)
  PROVE  RepliesTrue'
<1> SUFFICES ASSUME NEW c \in Client
             PROVE  /\ Got(c)' <= Size(c)
                    /\ \A i \in 1..Got(c)' : ReplyTrue(c, i)'
                    /\ Accepted(c)' => Complete(c)'
  BY DEF RepliesTrue, Size
<1>1. Got(c)' = Got(c) /\ Got(c) <= Size(c) /\ (Complete(c) => Complete(c)')
  BY DEF RepliesTrue, Got, Size, Complete, In!Failed
<1>2. ASSUME NEW i \in 1..Got(c) PROVE ReplyTrue(c, i)'
  <2>1. ReplyTrue(c, i)
    BY DEF RepliesTrue
  <2> QED
    BY <2>1, LogGrows DEF ReplyTrue, In!Failed
<1>3. Accepted(c) => Complete(c)
  BY DEF RepliesTrue
<1> QED
  BY <1>1, <1>2, <1>3

\* A client's next reply, which is an error or the id of its event's entry.
LEMMA ReplyArrives ==
  ASSUME TypeOK, ApiInv, [Next]_vars, NEW c \in Client, NEW n \in Nat,
         Got(c) < Size(c), request[c] = "open", UNCHANGED request,
         replies' = [replies EXCEPT ![c] = Append(@, n)],
         n = In!Failed \/ (n \in 1..Len(log') /\ log'[n] = Batch[c][Got(c) + 1])
  PROVE  RepliesTrue' /\ replies' \in [Client -> Seq(Nat)]
<1> USE DEF ApiInv
<1>1. replies[c] \in Seq(Nat) /\ Got(c) \in Nat /\ Size(c) \in Nat
  BY BatchType DEF ApiTypeOK, Got
<1>2. replies'[c] = Append(replies[c], n) /\ Got(c)' = Got(c) + 1
  BY <1>1 DEF ApiTypeOK, Got
<1>3. \A d \in Client : d # c => replies'[d] = replies[d]
  BY DEF ApiTypeOK
<1>4. replies' \in [Client -> Seq(Nat)]
  BY <1>1 DEF ApiTypeOK
<1>5. ASSUME NEW d \in Client, NEW i \in 1..Got(d) PROVE ReplyTrue(d, i)'
  <2>1. replies'[d][i] = replies[d][i] /\ ReplyTrue(d, i)
    BY <1>1, <1>2, <1>3 DEF Got, RepliesTrue
  <2> QED
    BY <2>1, LogGrows DEF ReplyTrue, In!Failed
<1>6. ASSUME NEW i \in Nat, i = Got(c) + 1 PROVE ReplyTrue(c, i)'
  BY <1>1, <1>2, <1>6 DEF ReplyTrue, Got, In!Failed
<1>7. ASSUME NEW d \in Client
      PROVE  /\ Got(d)' <= Size(d)
             /\ \A i \in 1..Got(d)' : ReplyTrue(d, i)'
             /\ Accepted(d)' => Complete(d)'
  <2>1. CASE d = c
    <3>1. \A i \in 1..Got(c)' : i \in Nat /\ (i \in 1..Got(c) \/ i = Got(c) + 1)
      BY <1>1, <1>2
    <3>2. Got(c)' <= Size(c) /\ ~Accepted(c)'
      BY <1>1, <1>2 DEF Accepted
    <3> QED
      BY <1>5, <1>6, <2>1, <3>1, <3>2
  <2>2. CASE d # c
    <3>1. Got(d)' = Got(d) /\ (Complete(d) => Complete(d)') /\ Accepted(d)' = Accepted(d)
      BY <1>3, <2>2 DEF Got, Complete, Accepted, Size, In!Failed
    <3> QED
      BY <1>5, <3>1 DEF RepliesTrue
  <2> QED
    BY <2>1, <2>2
<1> QED
  BY <1>4, <1>7 DEF RepliesTrue, Size

\* A request is sent: its replies start anew.
LEMMA RequestSent ==
  ASSUME TypeOK, ApiInv, [Next]_vars, NEW c \in Client, In!Become(c, "open"),
         replies' = [replies EXCEPT ![c] = <<>>]
  PROVE  RepliesTrue' /\ replies' \in [Client -> Seq(Nat)]
<1> USE DEF ApiInv
<1>1. replies' \in [Client -> Seq(Nat)]
  <2>1. <<>> \in Seq(Nat)
    OBVIOUS
  <2> QED
    BY <2>1 DEF ApiTypeOK
<1>2. Got(c)' = 0 /\ ~Accepted(c)' /\ Size(c) \in Nat
  BY BatchType DEF ApiTypeOK, Got, Accepted, In!Become
<1>3. ASSUME NEW d \in Client, d # c
      PROVE  replies'[d] = replies[d] /\ Accepted(d)' = Accepted(d)
  BY <1>3 DEF ApiTypeOK, Accepted, In!Become
<1>4. ASSUME NEW d \in Client
      PROVE  /\ Got(d)' <= Size(d)
             /\ \A i \in 1..Got(d)' : ReplyTrue(d, i)'
             /\ Accepted(d)' => Complete(d)'
  <2>1. CASE d = c
    BY <1>2, <2>1
  <2>2. CASE d # c
    <3>1. Got(d)' = Got(d) /\ (Complete(d) => Complete(d)') /\ Accepted(d)' = Accepted(d)
      BY <1>3, <2>2 DEF Got, Complete, Size, In!Failed
    <3>2. ASSUME NEW i \in 1..Got(d) PROVE ReplyTrue(d, i)'
      <4>1. ReplyTrue(d, i) /\ replies'[d][i] = replies[d][i]
        BY <1>3, <2>2 DEF RepliesTrue
      <4> QED
        BY <4>1, LogGrows DEF ReplyTrue, In!Failed
    <3> QED
      BY <3>1, <3>2 DEF RepliesTrue
  <2> QED
    BY <2>1, <2>2
<1> QED
  BY <1>1, <1>4 DEF RepliesTrue, Size

\* The API's own steps keep its invariant.
LEMMA ApiStepInv ==
  ASSUME TypeOK, ApiInv, ApiStep
  PROVE  ApiInv'
<1> USE DEF ApiInv
<1>0. [Next]_vars
  BY ApiMoves
<1>1. ASSUME NEW c \in Client, In!Post(c) PROVE ApiInv'
  <2>1. attempts' \in [Client -> Nat]
    <3>1. attempts' = attempts \/ attempts' = [attempts EXCEPT ![c] = @ + 1]
      BY <1>1 DEF In!Post
    <3>2. attempts \in [Client -> Nat]
      BY DEF ApiTypeOK
    <3> QED
      BY <3>1, <3>2
  <2>2. CASE In!Become(c, "too_large") /\ UNCHANGED replies
    <3>1. \A d \in Client : Accepted(d)' => Accepted(d)
      BY <2>2 DEF In!Become, Accepted, ApiTypeOK
    <3>2. RepliesTrue'
      BY <1>0, <2>2, <3>1, RepliesKept
    <3> QED
      BY <1>1, <2>1, <2>2, <3>2 DEF In!Post, In!Become, ApiTypeOK, Size
  <2>3. CASE In!Become(c, "open") /\ replies' = [replies EXCEPT ![c] = <<>>]
    <3>1. RepliesTrue' /\ replies' \in [Client -> Seq(Nat)]
      BY <1>0, <2>3, RequestSent
    <3> QED
      BY <1>1, <2>1, <2>3, <3>1 DEF In!Post, In!Become, ApiTypeOK, Size
  <2> QED
    BY <1>1, <2>2, <2>3 DEF In!Post
<1>2. ASSUME NEW c \in Client, In!Add(c) PROVE ApiInv'
  <2>1. /\ Got(c) < Size(c) /\ request[c] = "open" /\ UNCHANGED request
        /\ replies' = [replies EXCEPT ![c] = Append(@, Len(log) + 1)]
        /\ log' = Append(log, Batch[c][Got(c) + 1])
    BY <1>2 DEF In!Add, In!Served, In!Size, In!Publish, Got, Size
  <2>2. log \in Seq(Payload) /\ Got(c) + 1 \in 1..Size(c)
    BY <2>1, BatchType DEF TypeOK, QueueTypeOK, ApiTypeOK, Got
  <2>3. Batch[c][Got(c) + 1] \in Payload
    BY <2>2, BatchType
  <2>4. /\ Len(log) + 1 \in Nat /\ Len(log) + 1 \in 1..Len(log')
        /\ log'[Len(log) + 1] = Batch[c][Got(c) + 1]
    BY <2>1, <2>2, <2>3
  <2>5. RepliesTrue' /\ replies' \in [Client -> Seq(Nat)]
    BY <1>0, <2>1, <2>4, ReplyArrives
  <2> QED
    BY <1>2, <2>1, <2>5 DEF In!Add, ApiTypeOK, Size
<1>3. ASSUME NEW c \in Client, In!AddFails(c) PROVE ApiInv'
  <2>1. /\ Got(c) < Size(c) /\ request[c] = "open" /\ UNCHANGED request
        /\ replies' = [replies EXCEPT ![c] = Append(@, In!Failed)]
    BY <1>3 DEF In!AddFails, In!Served, In!Size, Got, Size
  <2>2. In!Failed \in Nat
    BY DEF In!Failed
  <2>3. RepliesTrue' /\ replies' \in [Client -> Seq(Nat)]
    BY <1>0, <2>1, <2>2, ReplyArrives
  <2> QED
    BY <1>3, <2>1, <2>3 DEF In!AddFails, ApiTypeOK, Size
<1>4. ASSUME NEW c \in Client, In!Answer202(c) \/ In!Lose202(c) PROVE ApiInv'
  <2>1. Complete(c) /\ UNCHANGED <<replies, attempts, adrift>>
    BY <1>4 DEF In!Answer202, In!Lose202, In!Accept, In!Served, In!Size, In!Raises,
                Complete, Got, Size
  <2>2. In!Become(c, "accepted") \/ In!Become(c, "retry")
    BY <1>4 DEF In!Answer202, In!Lose202
  <2>3. \A d \in Client : Accepted(d)' => Accepted(d) \/ Complete(d)
    BY <2>1, <2>2 DEF In!Become, Accepted, ApiTypeOK
  <2>4. RepliesTrue'
    BY <1>0, <2>1, <2>3, RepliesKept
  <2> QED
    BY <2>1, <2>2, <2>4 DEF In!Become, ApiTypeOK, Size
<1>5. ASSUME NEW c \in Client, In!Answer503(c) \/ In!Break(c) PROVE ApiInv'
  <2>1. UNCHANGED <<replies, attempts>> /\ In!Become(c, "retry")
    BY <1>5 DEF In!Answer503, In!Break
  <2>2. adrift' = adrift \/ adrift' = adrift \cup In!Leftover(c)
    BY <1>5 DEF In!Answer503, In!Break
  <2>3. In!Leftover(c) \subseteq {a \in In!Command : a.next \in 1..Size(a.by)}
    <3>1. Got(c) \in Nat /\ Size(c) \in Nat /\ Got(c) <= Size(c) /\ attempts[c] \in Nat
      BY BatchType DEF ApiTypeOK, Got, RepliesTrue
    <3> QED
      BY <3>1 DEF In!Leftover, In!Served, In!Size, In!Command, Got, Size
  <2>4. \A d \in Client : Accepted(d)' => Accepted(d)
    BY <2>1 DEF In!Become, Accepted, ApiTypeOK
  <2>5. RepliesTrue'
    BY <1>0, <2>1, <2>4, RepliesKept
  <2> QED
    BY <2>1, <2>2, <2>3, <2>5 DEF In!Become, ApiTypeOK, Size
<1>6. ASSUME NEW a \in adrift, In!AddAdrift(a) \/ In!Sink(a) PROVE ApiInv'
  <2>1. UNCHANGED <<request, replies, attempts>>
    BY <1>6 DEF In!AddAdrift, In!Sink
  <2>2. adrift' \subseteq {b \in In!Command : b.next \in 1..Size(b.by)}
    <3>1. adrift' \subseteq adrift
          \/ (a.next # Size(a.by)
              /\ adrift' = (adrift \ {a}) \cup {[a EXCEPT !.next = @ + 1]})
      BY <1>6 DEF In!AddAdrift, In!Sink, In!Size, Size
    <3>2. a \in In!Command /\ a.by \in Client /\ a.next \in 1..Size(a.by) /\ Size(a.by) \in Nat
      BY AdriftType, BatchType
    <3>3. a.next # Size(a.by) =>
            [a EXCEPT !.next = @ + 1] \in {b \in In!Command : b.next \in 1..Size(b.by)}
      BY <3>2 DEF In!Command
    <3> QED
      BY <3>1, <3>3 DEF ApiTypeOK
  <2>3. RepliesTrue'
    BY <1>0, <2>1, RepliesKept DEF Accepted
  <2> QED
    BY <2>1, <2>2, <2>3 DEF ApiTypeOK, Size
<1> QED
  BY <1>1, <1>2, <1>3, <1>4, <1>5, <1>6 DEF ApiStep, In!Next, In!RequestStep

\* A client that has its 202 sends no more, and keeps its replies.
LEMMA AcceptedForGood ==
  ASSUME ApiInv, ApiStep, NEW c \in Client, Accepted(c)
  PROVE  Accepted(c)' /\ replies'[c] = replies[c]
<1> USE DEF ApiInv, ApiTypeOK, Accepted
<1>1. ASSUME NEW d \in Client, In!RequestStep(d)
      PROVE  Accepted(c)' /\ replies'[c] = replies[c]
  BY <1>1 DEF In!RequestStep, In!Post, In!Add, In!Answer202, In!Answer503, In!Accept, In!Become
<1>2. ASSUME NEW d \in Client, In!AddFails(d) \/ In!Lose202(d) \/ In!Break(d)
      PROVE  Accepted(c)' /\ replies'[c] = replies[c]
  BY <1>2 DEF In!AddFails, In!Lose202, In!Break, In!Accept, In!Become
<1>3. ASSUME NEW a \in adrift, In!AddAdrift(a) \/ In!Sink(a)
      PROVE  Accepted(c)' /\ replies'[c] = replies[c]
  BY <1>3 DEF In!AddAdrift, In!Sink
<1> QED
  BY <1>1, <1>2, <1>3 DEF ApiStep, In!Next

-----------------------------------------------------------------------------
(* The invariant of the whole, and what follows from it.                   *)

\* The invariant holds at the start.
LEMMA InitPipelineInv == PipelineInit => PipelineInv
<1> SUFFICES ASSUME PipelineInit PROVE PipelineInv
  OBVIOUS
<1>1. IInv
  BY InitIInv DEF PipelineInit
<1>2. ApiTypeOK
  BY DEF PipelineInit, In!Init, ApiTypeOK
<1>3. RepliesTrue
  BY BatchType DEF PipelineInit, In!Init, RepliesTrue, Got, Accepted
<1> QED
  BY <1>1, <1>2, <1>3 DEF PipelineInv, ApiInv

\* Every step keeps it, and is a step of EventConsumer.
LEMMA NextPipelineInv ==
  PipelineInv /\ [PipelineNext]_pipelineVars => PipelineInv' /\ [Next]_vars
<1> SUFFICES ASSUME PipelineInv, [PipelineNext]_pipelineVars
             PROVE  PipelineInv' /\ [Next]_vars
  OBVIOUS
<1>1. TypeOK /\ ApiInv /\ IInv
  BY DEF PipelineInv, IInv
<1>2. [Next]_vars /\ (WorkersStep \/ ApiStep \/ Poll)
  BY <1>1, PipelineMoves
<1>3. ASSUME UNCHANGED apiVars PROVE ApiInv'
  <2>1. ApiTypeOK' /\ \A c \in Client : Accepted(c)' => Accepted(c)
    BY <1>1, <1>3 DEF apiVars, ApiInv, ApiTypeOK, Accepted, Size
  <2> QED
    BY <1>1, <1>2, <1>3, <2>1, RepliesKept DEF apiVars, ApiInv
<1>4. ApiInv'
  BY <1>1, <1>2, <1>3, ApiStepInv DEF WorkersStep, Poll
<1> QED
  BY <1>1, <1>2, <1>4, NextIInv DEF PipelineInv

\* In every reachable state of the whole, the invariants of both parts hold.
THEOREM PipelineInvariant == PipelineSpec => []PipelineInv
BY InitPipelineInv, NextPipelineInv, PTL DEF PipelineSpec

\* The workers do not notice that producers are an API with retries and broken
\* connections: all that EventConsumerProofs proves holds of the whole.
THEOREM PipelineIsConsumer == PipelineSpec => Spec
<1>1. PipelineInit => Init
  BY DEF PipelineInit
<1> QED
  BY <1>1, PipelineInvariant, NextPipelineInv, PTL DEF PipelineSpec, Spec

\* From the API's clients to the table, the pipeline is the ledger.
THEOREM LedgerKept == PipelineSpec => PipelineImplementsLedger
BY PipelineIsConsumer, LedgerImplemented, PTL DEF PipelineImplementsLedger, ImplementsLedger

\* A 202 names, for each event, its entry, and that has landed, or waits in the
\* stream, or was cut off by MAXLEN.
THEOREM AcceptedKept == PipelineSpec => []AcceptedIsInCustody
<1>1. PipelineInv => AcceptedIsInCustody
  <2> SUFFICES ASSUME PipelineInv, NEW c \in Client, Accepted(c), NEW i \in DOMAIN Batch[c],
                      NEW m, m = replies[c][i]
               PROVE  /\ m \in 1..Len(log) /\ log[m] = Batch[c][i]
                      /\ Landed(m) \/ m > cursor \/ m \in Pending \/ m <= trimmed
    BY DEF AcceptedIsInCustody
  <2>1. i \in 1..Got(c) /\ replies[c][i] # In!Failed /\ ReplyTrue(c, i)
    BY BatchType DEF PipelineInv, ApiInv, RepliesTrue, Complete, Size, Got
  <2>2. m \in 1..Len(log) /\ log[m] = Batch[c][i]
    BY <2>1 DEF ReplyTrue
  <2> QED
    BY <2>2 DEF PipelineInv, IInv, Custody
<1> QED
  BY <1>1, PipelineInvariant, PTL

\* Where MAXLEN is never reached, neither lag nor pending entries means that
\* all that was accepted has landed, and it stays so.
THEOREM DrainedIsLanded == ASSUME MaxLen >= MaxEntries
                           PROVE  PipelineSpec => []DrainedMeansLanded
<1> DEFINE DrainInv == drained \subseteq Client /\ DrainedMeansLanded
<1>1. PipelineInit => DrainInv
  BY DEF PipelineInit, DrainedMeansLanded
<1>2. PipelineInv /\ NothingLost /\ DrainInv /\ [PipelineNext]_pipelineVars => DrainInv'
  <2> SUFFICES ASSUME PipelineInv, NothingLost, DrainInv, [PipelineNext]_pipelineVars
               PROVE  DrainInv'
    OBVIOUS
  <2>1. TypeOK /\ ApiInv /\ [Next]_vars /\ (WorkersStep \/ ApiStep \/ Poll)
    BY PipelineMoves DEF PipelineInv, IInv
  <2>2. ASSUME NEW c \in Client, Accepted(c), NEW i \in DOMAIN Batch[c]
        PROVE  replies[c][i] \in 1..Len(log)
    <3>1. i \in 1..Got(c) /\ replies[c][i] # In!Failed /\ ReplyTrue(c, i)
      BY <2>1, <2>2, BatchType DEF ApiInv, RepliesTrue, Complete, Size, Got
    <3> QED
      BY <3>1 DEF ReplyTrue
  <2>3. CASE Poll
    <3> SUFFICES ASSUME NEW c \in Client, Accepted(c), NEW i \in DOMAIN Batch[c]
                 PROVE  Landed(replies[c][i])'
      BY <2>3 DEF Poll, DrainedMeansLanded, HasLanded, Accepted, apiVars
    <3>1. replies[c][i] \in 1..Len(log)
      BY <2>2
    <3>2. replies[c][i] <= cursor /\ replies[c][i] \notin Pending
      BY <2>1, <2>3, <3>1 DEF Poll, Drained, Lag, TypeOK, QueueTypeOK
    <3>3. Landed(replies[c][i])
      BY <2>1, <3>1, <3>2 DEF NothingLost, TypeOK, QueueTypeOK
    <3> QED
      BY <2>3, <3>3 DEF Poll, vars, queueVars, apiVars, Landed, Stored, Parked, EventOf
  <2>4. CASE WorkersStep \/ ApiStep
    <3> SUFFICES ASSUME NEW c \in drained PROVE HasLanded(c)'
      BY <2>4 DEF WorkersStep, ApiStep, DrainedMeansLanded
    <3>1. c \in Client /\ Accepted(c) /\ HasLanded(c)
      BY DEF DrainedMeansLanded, HasLanded
    <3>2. Accepted(c)' /\ replies'[c] = replies[c]
      BY <2>1, <2>4, <3>1, AcceptedForGood DEF WorkersStep, apiVars, Accepted
    <3>3. ASSUME NEW i \in DOMAIN Batch[c] PROVE Landed(replies[c][i])'
      <4>1. replies[c][i] \in 1..Len(log)
        BY <2>2, <3>1
      <4>2. Landed(replies[c][i])
        BY <3>1 DEF HasLanded
      <4>3. PICK m \in 1..Len(log) : m = replies[c][i]
        BY <4>1
      <4>4. Landed(m)'
        BY <2>1, <4>2, <4>3, LandedStays DEF Landed
      <4> QED
        BY <3>2, <4>3, <4>4
    <3> QED
      BY <3>2, <3>3 DEF HasLanded
  <2> QED
    BY <2>1, <2>3, <2>4
<1> QED
  BY <1>1, <1>2, PipelineInvariant, PipelineIsConsumer, NothingIsLost, PTL DEF PipelineSpec
=============================================================================
