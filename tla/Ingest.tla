------------------------------- MODULE Ingest -------------------------------
(***************************************************************************)
(* POST /events and POST /events/batch (app/api/events.py) over            *)
(* EventQueue.publish and publish_many, with producers that repeat a       *)
(* request until it is answered with 202: "503 tells the producer to       *)
(* retry".  A single event is a batch of one.                              *)
(*                                                                         *)
(* publish_many is a pipeline without MULTI: Redis runs its XADDs one by   *)
(* one, between those of other connections, and each may fail by itself.   *)
(* When the connection breaks, commands that are under way may still run,  *)
(* after the 503 and beside the next attempt; they are adrift.             *)
(***************************************************************************)
EXTENDS EventQueue

CONSTANTS
  Producer,
  Batch,         \* the events of a producer's request
  MAX_BATCH_SIZE,
  MaxFaults      \* bound: errors and broken connections in a behaviour

ASSUME IngestAssumption ==
  /\ Batch \in [Producer -> Seq(Payload) \ {<<>>}]
  /\ MAX_BATCH_SIZE \in Nat /\ MaxFaults \in Nat

VARIABLES
  request,   \* per producer: "unsent", "open", "retry", "accepted", "too_large"
  replies,   \* per producer: the entry ids of the open request, Failed for an error
  attempts,  \* per producer: requests sent
  adrift,    \* requests given up by the API, and their next command for Redis
  received,  \* EVENTS_RECEIVED
  faults     \* faults so far

ingestVars == <<request, replies, attempts, adrift, received, faults>>
vars == <<queueVars, ingestVars>>

Failed == 0
Size(p) == Len(Batch[p])
Served(p) == Len(replies[p])

Fault == faults < MaxFaults /\ faults' = faults + 1

Init ==
  /\ QueueInit
  /\ request = [p \in Producer |-> "unsent"]
  /\ replies = [p \in Producer |-> <<>>]
  /\ attempts = [p \in Producer |-> 0]
  /\ adrift = {} /\ received = 0 /\ faults = 0

Become(p, r) == request' = [request EXCEPT ![p] = r]

\* The request arrives: 413, or the pipeline is sent off.
\* (Bug variant: the events are counted before they are queued.)
PostCounting(p) ==
  /\ request[p] \in {"unsent", "retry"} /\ Size(p) <= MAX_BATCH_SIZE
  /\ Become(p, "open")
  /\ replies' = [replies EXCEPT ![p] = <<>>]
  /\ attempts' = [attempts EXCEPT ![p] = @ + 1]
  /\ received' = received + Size(p)
  /\ UNCHANGED <<queueVars, adrift, faults>>
Post(p) ==
  /\ request[p] \in {"unsent", "retry"}
  /\ IF Size(p) > MAX_BATCH_SIZE
     THEN Become(p, "too_large") /\ UNCHANGED <<replies, attempts>>
     ELSE /\ Become(p, "open")
          /\ replies' = [replies EXCEPT ![p] = <<>>]
          /\ attempts' = [attempts EXCEPT ![p] = @ + 1]
  /\ UNCHANGED <<queueVars, adrift, received, faults>>

\* Redis runs the next XADD of the pipeline.
Add(p) ==
  /\ request[p] = "open" /\ Served(p) < Size(p)
  /\ Publish(Batch[p][Served(p) + 1])
  /\ replies' = [replies EXCEPT ![p] = Append(@, Len(log) + 1)]
  /\ UNCHANGED <<request, attempts, adrift, received, faults>>

\* Redis answers the next XADD with an error, and goes on with the others.
AddFails(p) ==
  /\ request[p] = "open" /\ Served(p) < Size(p)
  /\ replies' = [replies EXCEPT ![p] = Append(@, Failed)]
  /\ Fault /\ UNCHANGED <<queueVars, request, attempts, adrift, received>>

\* execute() raises the first error among the replies: RedisError, 503.
\* (Bug variant: raise_on_error=False.)
RaisesNever(p) == FALSE
Raises(p) == \E i \in 1..Served(p) : replies[p][i] = Failed

Accept(p) ==
  /\ request[p] = "open" /\ Served(p) = Size(p) /\ ~Raises(p)
  /\ received' = received + Size(p)
  /\ UNCHANGED <<queueVars, replies, attempts, adrift>>

Answer202(p) == Accept(p) /\ Become(p, "accepted") /\ UNCHANGED faults

\* The 202 does not reach the producer.
Lose202(p) == Accept(p) /\ Become(p, "retry") /\ Fault

\* (Bug variant: an error that is neither raised nor answered.)
Answer503Never(p) == FALSE /\ UNCHANGED vars
Answer503(p) ==
  /\ request[p] = "open" /\ Served(p) = Size(p) /\ Raises(p)
  /\ Become(p, "retry")
  /\ UNCHANGED <<queueVars, replies, attempts, adrift, received, faults>>

\* What Redis may still run of a request when its connection is gone.
\* (Bug variant: a client library that sends the pipeline again by itself.)
LeftoverAll(p) == {[by |-> p, attempt |-> attempts[p], next |-> 1]}
Leftover(p) ==
  IF Served(p) = Size(p) THEN {}
  ELSE {[by |-> p, attempt |-> attempts[p], next |-> Served(p) + 1]}

\* The connection to Redis, or the API process, breaks under the request.
Break(p) ==
  /\ request[p] = "open"
  /\ Become(p, "retry")
  /\ adrift' = adrift \cup Leftover(p)
  /\ Fault /\ UNCHANGED <<queueVars, replies, attempts, received>>

\* Redis runs the next command of a connection nobody listens to any more,
\* or it has noticed, and what is left never arrives.
AddAdrift(c) ==
  /\ Publish(Batch[c.by][c.next])
  /\ adrift' = (adrift \ {c}) \cup
       (IF c.next = Size(c.by) THEN {} ELSE {[c EXCEPT !.next = @ + 1]})
  /\ UNCHANGED <<request, replies, attempts, received, faults>>

Sink(c) ==
  /\ adrift' = adrift \ {c}
  /\ UNCHANGED <<queueVars, request, replies, attempts, received, faults>>

RequestStep(p) == Post(p) \/ Add(p) \/ Answer202(p) \/ Answer503(p)

Next ==
  \/ \E p \in Producer :
       RequestStep(p) \/ AddFails(p) \/ Lose202(p) \/ Break(p)
  \/ \E c \in adrift : AddAdrift(c) \/ Sink(c)

Spec == Init /\ [][Next]_vars

(* A producer repeats what was not answered with 202, Redis and the API    *)
(* answer while they are up, and a dead connection is cleaned up.          *)
FairSpec ==
  /\ Spec
  /\ \A p \in Producer : WF_vars(RequestStep(p))
  /\ WF_vars(\E c \in adrift : AddAdrift(c) \/ Sink(c))

-----------------------------------------------------------------------------
Command == [by : Producer, attempt : Nat, next : Nat]

TypeOK ==
  /\ QueueTypeOK
  /\ request \in [Producer -> {"unsent", "open", "retry", "accepted", "too_large"}]
  /\ replies \in [Producer -> Seq(Nat)]
  /\ attempts \in [Producer -> Nat]
  /\ adrift \subseteq {c \in Command : c.next \in 1..Size(c.by)}
  /\ received \in Nat /\ faults \in 0..MaxFaults

\* A 202 is true: each event of the batch is in the stream under the id that
\* was returned for it, in the order of the batch, whatever other requests,
\* failed commands and leftovers of broken connections came in between.
AcceptedIsQueued ==
  \A p \in Producer : request[p] = "accepted" =>
    /\ Served(p) = Size(p)
    /\ \A i \in 1..Size(p) :
         /\ replies[p][i] \in 1..Len(log)
         /\ log[replies[p][i]] = Batch[p][i]
         /\ \A j \in 1..(i - 1) : replies[p][j] < replies[p][i]

(* No event that can be sent is in two places of the batches: nobody sends *)
(* it twice but by a retry.                                                *)
EventsDiffer ==
  \A p, q \in Producer : Size(q) <= MAX_BATCH_SIZE =>
    \A i \in 1..Size(p), j \in 1..Size(q) : Batch[p][i] = Batch[q][j] => p = q /\ i = j

\* Where EventsDiffer, an event is in the stream at most as often as it was
\* sent: retries are the only source of the duplicates that the consumer has to
\* swallow.
CopiesBounded ==
  \A p \in Producer : \A i \in DOMAIN Batch[p] :
    Cardinality({m \in 1..Len(log) : log[m] = Batch[p][i]}) <= attempts[p]

\* events_received_total never exceeds what was queued (README.md: "accepted by
\* the API and queued"), though lost replies make it fall short.
ReceivedIsQueued == received <= Len(log)

\* A producer that follows the 503s is answered for good.
EveryoneAnswered ==
  \A p \in Producer : <>(request[p] \in {"accepted", "too_large"})
=============================================================================
