------------------------------ MODULE Pipeline ------------------------------
(***************************************************************************)
(* The whole way of an event: clients that post to the API (Ingest) and    *)
(* workers (EventConsumer) over one stream, and the load generator         *)
(* (scripts/load_test.py) that polls /queue/stats to learn when everything *)
(* it sent has been processed.  Each part takes its steps between any two  *)
(* steps of the others; its own module says what they are.                 *)
(***************************************************************************)
EXTENDS EventConsumer

CONSTANTS
  Client,
  Batch,           \* the events of a client's request
  MAX_BATCH_SIZE,
  MaxApiFaults     \* bound: errors and broken connections of the API

ASSUME PipelineAssumption ==
  /\ Batch \in [Client -> Seq(Payload) \ {<<>>}]
  /\ MAX_BATCH_SIZE \in Nat /\ MaxApiFaults \in Nat

VARIABLES
  request, replies, attempts, adrift, received, apiFaults,  \* of Ingest
  drained   \* clients that had their 202 when /queue/stats showed nothing left

In == INSTANCE Ingest WITH
        Producer <- Client, faults <- apiFaults, MaxFaults <- MaxApiFaults

apiVars == <<request, replies, attempts, adrift, received, apiFaults>>
consumerVars == <<rows, credited, workerVars, faults>>
pipelineVars == <<vars, apiVars, drained>>

PipelineInit == Init /\ In!Init /\ drained = {}

-----------------------------------------------------------------------------
(* wait_for_drain: one XINFO GROUPS gives the lag and the number pending.  *)
\* (Bug variant: entries that are being processed do not count.)
DrainedUnread == Lag = 0
Drained == Lag = 0 /\ Pending = {}

Poll ==
  /\ Drained
  /\ drained' = {c \in Client : request[c] = "accepted"}
  /\ UNCHANGED <<vars, apiVars>>

-----------------------------------------------------------------------------
FromApi(A) == A /\ UNCHANGED <<consumerVars, drained>>
FromWorkers(A) == A /\ UNCHANGED <<apiVars, drained>>

ClientStep(c) == FromApi(In!RequestStep(c))
AdriftStep == FromApi(\E a \in adrift : In!AddAdrift(a) \/ In!Sink(a))
ApiFails == FromApi(\E c \in Client : In!AddFails(c) \/ In!Lose202(c) \/ In!Break(c))

LoopStep(s) == FromWorkers(SlotStep(s))
ProcessStep == FromWorkers(\E w \in Worker : Crash(w) \/ RequestStop(w))
Restart(w) == FromWorkers(Boot(w))

PipelineNext ==
  \/ \E c \in Client : ClientStep(c)
  \/ AdriftStep \/ ApiFails
  \/ FromWorkers(TimePasses)
  \/ \E s \in Slot : LoopStep(s)
  \/ ProcessStep \/ (\E w \in Worker : Restart(w))
  \/ Poll

PipelineSpec == PipelineInit /\ [][PipelineNext]_pipelineVars

(* The fairness of the parts, each under the steps of the others.          *)
FairPipelineSpec ==
  /\ PipelineSpec
  /\ \A c \in Client : WF_pipelineVars(ClientStep(c))
  /\ WF_pipelineVars(AdriftStep)
  /\ WF_pipelineVars(FromWorkers(TimePasses))
  /\ \A s \in Slot : WF_pipelineVars(LoopStep(s))
  /\ \A w \in Worker : WF_pipelineVars(Restart(w))

-----------------------------------------------------------------------------
Accepted(c) == request[c] = "accepted"
HasLanded(c) == Accepted(c) /\ \A i \in DOMAIN Batch[c] : Landed(replies[c][i])

\* A 202 is a promise the workers keep: each event of the request has a row
\* under its id or is in the dead-letter stream, or else it is in the stream
\* under the id the client was given, unread or pending (or cut off by
\* MAXLEN, where that is allowed to happen).
AcceptedIsInCustody ==
  \A c \in Client : Accepted(c) =>
    \A i \in DOMAIN Batch[c] :
      LET m == replies[c][i]
      IN /\ m \in 1..Len(log) /\ log[m] = Batch[c][i]
         /\ Landed(m) \/ m > cursor \/ m \in Pending \/ m <= trimmed

\* load_test.py:122 "drained in": once a client that has its 202 sees neither
\* lag nor pending entries, all it sent is stored or dead-lettered, whatever
\* other clients, leftovers of broken connections and workers still do.
DrainedMeansLanded == \A c \in drained : HasLanded(c)

\* An event that was accepted ends in the table or in the dead-letter stream,
\* through lost replies, repeated requests, crashes and restarts.
AcceptedLands == \A c \in Client : Accepted(c) ~> HasLanded(c)

\* To the API's clients too the pipeline is the Ledger: what they send, twice
\* or under one id, is recorded once.
PipelineImplementsLedger == L!LedgerSpec
=============================================================================
