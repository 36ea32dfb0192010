# Transaction pipeline: specification and proofs

The program takes payment events over HTTP, queues them in a Redis stream,
converts and stores them in PostgreSQL by worker processes, and serves per-user
summaries and histories. This directory holds TLA+ modules that model it, TLC
configurations that check them, and TLAPS proofs. Paths below are those of the
repository (`app/...` is `src/app/...` in `PROJECT.json`).

    producer --POST--> API --XADD--> stream "transactions" --XREADGROUP--> worker(s)
                                        |  pending list   <--XAUTOCLAIM--    |   |
                                        |                 <--XACK----------- |   |
                                        +--> stream "transactions.dlq" <-----+   |
    client --GET--> API --SELECT--> table "transactions" <--INSERT .. DO NOTHING-+

To run something: `tlc -workers 2 -config Consumer.cfg MCEventConsumer` (the pairs
are listed under "Runs"), `tlapm EventConsumerProofs.tla`.

## 1. Inventory

| component | code | state | operations | modules |
|---|---|---|---|---|
| event queue | `app/queue.py` | stream, group cursor, pending list, DLQ (all in Redis) | publish, publish_many, read, claim_stale (XAUTOCLAIM, XPENDING), ack, dead_letter, ensure_group, stats | `EventQueue` |
| consumer | `app/consumer.py` | two message loops and a metrics loop, a semaphore, a stop event | read a batch, reclaim stale entries, triage, handle, ack, dead-letter, stop | `EventConsumer` |
| processor, retry | `app/processor.py`, `app/retry.py`, `app/exceptions.py` | none of its own | convert, insert, retry transient failures | `EventConsumer` (`Attempt*`), `Money` |
| repository, table | `app/repository.py`, `app/models.py` | the table | insert_if_absent, get_summary, count, list | `EventConsumer`, `Money`, `History` |
| money | `app/money.py` | none | quantize, convert | `Money` |
| history endpoint | `app/api/users.py` | none; a client walks it | COUNT then SELECT of a page | `History` |
| ingest endpoints | `app/api/events.py` | EVENTS_RECEIVED | one event, a batch; 413, 503, 202 | `Ingest` |
| worker process | `app/worker.py` | alive or not | wait for dependencies, init_db, boot, SIGTERM, crash | `Recovery` (start-up), `EventConsumer` (boot to stop under load) |
| API process | `app/main.py`, `app/api/system.py`, `app/dependencies.py` | alive or not | lifespan (init_db, ensure_group), health, live, metrics, queue stats | `Recovery` (lifespan), `Pipeline` (lag and pending) |
| exchange rates | `app/rates.py` | a cache key per currency in Redis | get_rate: read cache, fetch, write cache | `RateCache`; its outcomes in `EventConsumer` |
| event schema | `app/schemas.py` | none | validate at the API, validate again in the worker | `Schema`; its outcome (`Kind`) in `EventConsumer` |
| infrastructure | `app/db.py`, `app/config.py`, `app/redis_client.py` | the table's existence, pools, settings | create_all | `Recovery` (create_all); settings are constants |
| deployment, load generator | `docker-compose.yml`, `scripts/load_test.py` | Redis' append-only file; counts of a load test | restarts, fsync; publish, wait_for_drain | `Recovery`, `Pipeline` |
| observability | `app/metrics.py`, `app/logging_config.py` | counters and gauges | count, log | the counters `credited` and `received` only |

How they interact. The API and the workers share nothing but Redis and
PostgreSQL. Workers of one consumer group take entries from each other by idle
time alone, with no lock and no heartbeat. In a worker, the consume loop and the
reclaim loop are coroutines of one thread; they share a semaphore, a consumer
name and the stop event, and every `await` lets the other move.

What is hard here:

- a crash or a lost reply between the COMMIT of a row and the XACK of its batch;
- an entry reclaimed while another loop, perhaps of the same process, is still
  working on it, so that one stores it and another parks it;
- `claim_stale` asks for the delivery counts one `await` after the claim, in a
  window of XPENDING that may not contain what was claimed;
- batches: one XACK for many messages, one exception among many coroutines, one
  semaphore for two loops;
- MAXLEN cutting the stream under entries nobody has read;
- failures that look transient and never end;
- COUNT and SELECT of a page in two snapshots, OFFSET shifting under inserts;
- a pipeline without MULTI of which some commands ran, and producers that repeat
  the whole batch;
- processes and databases that come up in any order, race for the table and the
  group, and give up after some attempts;
- a Redis that comes back without its last second, under workers that go on acking
  what they got from it before;
- a rate that is written to a shared cache long after it was fetched;
- one schema that validates an event twice, before and after it normalised it.

What makes each part correct:

- queue and consumer: an accepted event is never nowhere; it is acked only with
  its row committed or its dead letter written; a row is written once; nothing is
  parked without cause; everything ends up somewhere; stop stops;
- money: nearest, ties away from zero, refunds cancel, order kept, drift bounded;
- history: a walk shows what was there when it began;
- ingest: a 202 is true; copies come only from retries; everyone is answered;
- recovery: what was on disk once survives; all processes end up serving;
- rates: a cached rate is as young as the TTL says, give or take the delay of its
  write; old quotes disappear;
- schema: what is stored is the instant and the code that the client sent, and the second
  validation neither fails nor changes anything that the first let pass, lengths apart;
- the whole: what a client has a 202 for is in custody until it has landed, and a
  drained queue means that it has.

The hazards, each at its line and with the properties that cover it, are in
`PROJECT.json`.

## 2. Modules

`EventQueue` is Redis as the wrapper class uses it: one operator per command, a
command being one atomic state change. `EventConsumer` and `Ingest` extend it and
say what a lost reply or a failed call means to the caller.

`EventConsumer` models the workers. A *slot* is one loop of one worker;
`stage[s][m]` says how far the coroutines of that slot have come with entry `m`,
and stands for the local variables `messages`, `retryable`, `results` and `done`.

| action | code |
|---|---|
| `Read`, `ReadLost`, `ReadNothing` | one `queue.read` of `_consume_loop`, its exception, its empty reply |
| `Claim`, `ClaimLost` | XAUTOCLAIM of `_reclaim_loop` |
| `Triage`, `TriageFails` | XPENDING and the split by `max_deliveries`; the exception that drops the batch |
| `BuryExcess`, `Bury` | `_dead_letter`, from the reclaim loop and from `_handle_one` |
| `Start` | entering the semaphore and `_parse` |
| `AttemptStores`, `AttemptStoresUnheard`, `AttemptFails`, `AttemptIsHopeless`, `AttemptBreaks` | one call of `process` in `retry_transient`: STORED or DUPLICATE, commit without its reply, transient, permanent, unexpected |
| `Finish` | the end of `_handle_batch` with its one XACK, which may fail |
| `LeaveLoop`, `NextIteration` | the `while not self._stop.is_set()` of both loops |
| `Crash`, `RequestStop`, `Boot` | the process |
| `Producer`, `TimePasses` | XADDs of the API, idle time |

`Ledger` is the abstract specification: accept, record once, set aside.
`EventConsumer` implements it with `accepted <- log`, `table <- rows`,
`aside <- {d.id : d \in dlq}`; everything else the workers do is a stutter.

`Money` is `money.py` in integers (a Decimal is a count of its last place) with
the rows and the running sum of a user; `exact` is a history variable, the sum
nobody computes. `History` is `GET /users/{id}/transactions` walked by a client
with a worker inserting rows between any two statements; `seen`, `known` and
`raced` are history variables. `Ingest` is `POST /events` and `/events/batch` as
pipelines of single XADDs; `adrift` are commands of broken connections that Redis
may still run after the 503.

`Pipeline` composes the two over one stream: it extends `EventConsumer` and instantiates
`Ingest` on the same queue variables, with steps of the parts interleaved and the
variables of the other part unchanged. The producer of `EventConsumer`, which adds
whatever it likes, is replaced by the API. `Poll` is `wait_for_drain` of
`scripts/load_test.py`; `drained` remembers who had its 202 when it found nothing
left.

`Recovery` models what the other modules assume: `Start`, `Ping`, `Select`, `NotReady`
(`worker.main` and `wait_for_dependencies`, with its attempts), `CheckTable` and
`CreateTable` (the two statements of `create_all`), `EnsureGroup`, `StartupFails`; the API
goes from `Start` to `CheckTable` at once, as `main.lifespan` does. Then `Post`, `Read`,
`Reclaim`, `Store`, `Bury`, `GiveUp`, `Ack` are the pipeline reduced to what a loss of data
can tell apart: which entries are in the stream, before the cursor, pending,
dead-lettered, stored. `Fsync` writes them to `disk`, and a `GoesDown("redis")` may put
back what was there. The loops' `ReadFails` stands for a Redis that does not answer
and for NOGROUP, which the code does not tell apart.

`RateCache` is `get_rate` by any number of coroutines, of any workers, for one currency:
`Hit`, `Miss` (no key, an unreadable value, or no Redis), `Fetch`, `FetchFails`, `Write`, with a
source whose quote changes (`RateSource` is pluggable; the one in the repository
is a constant table). `age` and `slowest` are history variables.

`Schema` follows one event through `Post`, `Judge` (the API's validation) and `Parse` (the
worker's). `Normalise`, `IsAlpha` and `ToUtc` are the validators, applied to sequences of
character classes and to times with a zone. The worker's conversion of the time has no failing
branch in `Parse`: that it cannot overflow is `OnlyTheApiOverflows`. Which letters a code has is left out; how
many, and in which case, is not. `SameInstant` and `InRange` say what a time means without the validators.

Each `MC*` module only gives constants their values. Definitions marked "Bug
variant" in a comment are plausible mistakes, used by the mutants of
`PROJECT.json`: each property is shown to fail when the real definition is
replaced by one of them. No action uses them.

Abstractions. Entry ids are 1, 2, 3, ...; a payload is a model value with an
event id and a *kind*, which is what processing it comes to: `ok`, `unknown` (no
such currency), `invalid` (cannot be parsed back: `Schema` shows how that happens) or `unstorable` (the database refuses it
at every attempt). `idle` and `deliveries` saturate at the only values they are
compared with. Backoff, blocking and sleeping are time passing. A tick is much
longer than a round trip, so a tick between XAUTOCLAIM and the reply to XPENDING
is a stall of the process and is charged as a fault.

## 3. Runs

| run | cfg | shows |
|---|---|---|
| consumer | `Consumer` | two workers, two bodies under one event id, two faults: `NothingLost`, `OneStoredReport`, `FirstWriteWins`, `IInv` (as an invariant of what is reachable), `ImplementsLedger` |
| kinds | `Kinds` | one worker with two permits, events of all four kinds, and a MAXLEN of one, so that entries vanish from under their reader and owner: `StagesHoldTrue`, `RowsAreConverted`, `ParkedWithCause`, `ImplementsLedger`, `TypeOK`, and `Custody`: the consumer dropped only what was cut |
| settles | `Settles` | XAUTOCLAIM sees two of three pending entries, and those the database refuses for ever may come first: `EveryEntrySettles`, `StopTerminates` (a stopped worker stops), and `OverCapOnlyIfCrowdedOut`: a message over the cap is processed again only when an older entry crowded it out of the XPENDING reply |
| count_window | `CountWindow` | expected violation, see "Findings" |
| pipeline | `Pipeline` | API and worker together, a batch that may be repeated, a fault of each: `AcceptedIsInCustody`, `DrainedMeansLanded`, `PipelineImplementsLedger`, and `AcceptedLands`: a 202 is followed by a row or a dead letter |
| ingest | `Ingest` | a batch of two, a single event, a batch too large; two faults: `AcceptedIsQueued`, `CopiesBounded`, `ReceivedIsQueued`, `EveryoneAnswered` |
| recovery | `Recovery` | one API, one worker, two entries, two crashes or outages, a race for the table: `RecoveryInv`, `SyncedSurvives`, `SettlesOnceGroupIsSynced`, `EveryProcessServes` |
| lost_group | `LostGroup` | expected violation |
| rate_cache | `RateCache` | two callers, a source that changes its quote: `RateInv`, `HitsAreYoung`, `QuoteSettles` |
| schema | `Schema` | every currency of up to four characters, every time and zone: `ParsedAsAccepted` (what is stored has the client's instant and letters), `DeadByLengthOnly`, `OnlyTheApiOverflows` (the worker's conversion never fails) |
| money | `Money` | amounts -6..6 at four rates, up to two rows: `HandChecked`, `RefundsCancel`, `OrderKept`, `DriftBounded` |
| history | `History` | any query over five rows, inserts anywhere: `NothingLeftBehind`, `NoEmptyPage`, `MissedOnlyByRace`, `TypeOK` |

Bounds. `MaxEntries` bounds the XADDs, `MaxFaults` the faults of a behaviour,
`MaxRows` the rows of `Money`; the rest are values of settings made small.

- Two entries and two workers are enough for every pair the code cares about: two
  copies of an event, an entry and a later one in a batch, an owner and a thief,
  the two loops of one worker. `MaxDeliveries = 1` puts the cap one reclaim
  away; `Kinds` has 2, so that an entry one delivery short of the cap is told from
  one at the cap and one over it. `MaxAttempts = 2` gives a retry and an exhaustion.
- Two faults (three in `Kinds`, one in `Settles`) allow one to break something and one to break its repair (a commit
  without its reply, then a crash; a failed ack, then a failed dead letter). A
  fault is a lost reply, a failed call, a dependency that is down, an unexpected
  exception, a crash, a stop request, or a stall between XAUTOCLAIM and XPENDING.
- `Settles` has `ScanFactor = 1` instead of the ten of Redis 7, so that three pending
  entries exceed the scan of a batch of two: entries that are not stale yet, or that
  fail again and again, hide others. `ScanFactor` is ten in the other runs, where the
  scan sees everything.
- `Kinds` has `MaxLen = 1` with two entries, so that one is cut while it is unread,
  pending or in a worker's hands; everywhere else `MaxLen = MaxEntries` and nothing is cut.
- `Money` counts in quarters of a quantum: the rates give exact products, ties,
  and remainders on both sides of a tie, for both signs. The proofs cover every
  other unit, amount and rate.
- `History` has rows with equal timestamps, a row of another user, page sizes one
  and two, and a `limit` above the maximum page size. The walk may be repeated,
  with any query.
- `Ingest` has room for every copy that two faults can produce, so no XADD is
  held back by `MaxEntries`.
- `Pipeline` has one client whose batch of two is sent again when its connection breaks
  or its 202 is lost, next to one fault of the worker. `MaxEntries` is 3: a second
  attempt is accepted after a first that added at most one entry, and not otherwise.
  Two workers are in `Consumer`, and the proofs cover any number of clients, entries
  and workers.
- `Recovery`: two faults are a loss of Redis and a crash, or two losses. `STARTUP_MAX_ATTEMPTS`
  is 2 instead of 30: an attempt that is repeated and one that ends the process.
  The API and the worker are the two that race for the table.
- `RateCache`: a TTL of two ticks; ages saturate at four, above what a hit
  can have when one write is two ticks late. Two quotes are an old and a new one.
- `Schema`: a currency of four characters is one above the limit; four times and the
  zones -1, 0, 1 put instants inside and outside both ends.

Symmetry: the two workers of `Consumer` are interchangeable, and that run has no
liveness property. Deadlock is checked everywhere but where the system may stop: in
`Ingest` and `Pipeline`, whose clients stop once they are answered, and in `Schema`,
where an event's way has an end.

Fairness of `EventConsumer!FairSpec`. Time passes. A loop that can take a step
takes one: each loop is a coroutine of an event loop in which every wait is an
await, commands to Redis and PostgreSQL have an outcome, and faults are finite.
A worker that is down is started again: `restart: unless-stopped` in
`docker-compose.yml`. After a SIGTERM that docker did not send this is the same; a container that was stopped by
`docker stop` stays down until somebody starts it, so that there `EveryEntrySettles` rests on the operator. Producers owe nothing. Fairness is per loop, never per
message: within a loop the choice of which coroutine goes on is free, and a batch
ends because each of its messages can take only finitely many steps. In
`Ingest!FairSpec` producers follow "503 tells the producer to retry", the API and
Redis answer while they are up, and a dead connection ends. `FairPipelineSpec` takes the
fairness of both, per client, loop and worker. In `Recovery!FairSpec` processes that ended
are started again (`restart: unless-stopped`) and loops go on; Redis writes its file
(`--appendfsync everysec`); outages end, which is an assumption on whoever operates
Redis and PostgreSQL, for which the compose file has no restart policy. A Redis may
lose its data under workers that stay up, since `REDIS_URL` can name any other
machine. In `RateCache!FairSpec` time passes and a call that has begun goes on.

## 4. Proofs

Everything below is for every value of the constants that meets the assumptions
`QueueAssumption`, `ConsumerAssumption`, `MoneyAssumption`, `HistoryAssumption`,
`IngestAssumption`, `PipelineAssumption`, `RecoveryAssumption`, `RateAssumption`, `SchemaAssumption`: any set of workers, any number of entries, faults, attempts,
permits, any batch size and cap. The assumptions are types and `NoX \notin X`;
two of substance are that a rate is positive and that the rows are finitely many.
Three theorems have a hypothesis besides, stated with them: `MaxLen >= MaxEntries` in
`NothingIsLost` and `DrainedIsLanded`, `EventsDiffer` in `CopiesStayBounded`.

**EventConsumerProofs** begins with lemmas about the commands of `EventQueue`: each keeps
the types of the queue; what XREADGROUP, XAUTOCLAIM and a dead letter do to cursor,
owners and delivery counts; that the count XPENDING reports is never more than the
real one; that nothing is cut off below `MaxLen`.

It then proves `InductiveInvariant == Spec => []IInv`. `IInv` is the
conjunction of seven named parts. Only `TypeOK` is inductive alone; the others need
each other:

- `Custody` (an accepted entry is unread, pending, landed or trimmed) can only be
  broken by what frees an entry: the XACK of `Finish`, a dead letter, the deleted
  ids of XAUTOCLAIM. It survives `Finish` because of
- `StagesHoldTrue`: `done` means the row is there, `excess` that the cap was
  passed, `dying` that the payload is hopeless. This is knowledge a loop acts on
  long after it got it, while others reclaim, store and park the same entry; it is
  stable because rows are never removed and delivery counts never sink.
- `Delivered` says that what is pending, parked or held has been read, so
  that publishing cannot change the payload under it.
- `OneStoredReport`, `RowsAreConverted` and `ParkedWithCause` follow the row, the
  counter and the dead letter.
- `TypeOK` bounds all of it.

The proof of a step divides the work: each action changes the queue by one of
the five queue commands or the table by an insert, so lemmas about a *queue step*
and a *table step* do the common part once, and each action has a lemma of its
own for the stages. `FirstWriteWins` follows from the same invariant, and so does
`LedgerImplemented == Spec => ImplementsLedger`: every step accepts one event,
records one under a free id, sets one aside, or leaves log, rows and DLQ alone.
`NothingIsLost` proves `NothingLost` for `MaxLen >= MaxEntries`, the condition under which
the comment in `consumer.py:84` is right.

`CapMissedOnlyIfCrowdedOut == Spec => OverCapOnlyIfCrowdedOut` is about finding 1. The
promise of the documentation, `NoRetryOverCap`, is broken by the code; this theorem says how far. XPENDING shows the lowest `n` entries the worker owns, `n` being the
size of the batch. If all the entries it owns below `m` were in the batch, they would be
fewer than `n`, since `m` itself is in the batch: then `m` is in the window and its true count is
reported. Only `Triage` moves an entry from `claimed` to `queued`, and it does so by the
reported count.

**MoneyProofs** goes from the bounds of integer division to `HalfUpNearest`, to
`quantize_usd` being nearest, odd and monotone, and to the invariant that
`2|total * Unit - exact| <= count * Unit`.

**HistoryProofs** rests on rank lemmas (an insert never lowers a rank; the ranks of
the matching rows are exactly 0 .. n-1). Its invariant adds to the properties that what
the client has not seen is at or beyond its offset, and that `total` is still the
count as long as nothing raced.

**IngestProofs** strengthens `AcceptedIsQueued` to open requests: every reply so far
that is not an error is the id of an entry that holds the event at that place.

`EveryEntryWasSent` is where the stream comes from. A command is a producer, one of its
attempts and a place in the batch; `EntriesWereSent` gives every entry of the stream a command
of its own, which has been run and will not be run again. For that an attempt must be
either open or adrift and never both (`AttemptsInv`): a broken connection takes over
exactly the commands that were left, and the retry is another attempt. `CopiesStayBounded`
counts: the copies of an event have different commands with the same producer and
place, so they have different attempts. It assumes `EventsDiffer`, since copies of one event in
two batches are indistinguishable to any count: nobody sends the same event
from two places on purpose. (`load_test.py --duplicate-ratio` repeats an id, with another body, which is
another event here.) What is repeated on purpose is bounded by `EveryEntryWasSent`, place by place. A batch
that is too large is excepted because it is never sent. `MCIngest` assumes `EventsDiffer` of its batches,
so TLC evaluates it.

`ReceivedStaysQueued` needs no such assumption. `CountsEntries` says that as many entries as the
counter shows belong to no open request, and `ReportsDiffer` that open requests have no
entry in common; a 202 then adds the entries of one request to those that are counted.

**PipelineProofs** puts the two together. A step of the API either leaves the queue
alone or is one XADD, hence a producer's step; a step of the workers leaves the
log alone. From the first, with an invariant that types the API's variables,
`PipelineIsConsumer == PipelineSpec => Spec`: all of **EventConsumerProofs** holds of the composition,
`LedgerKept` among it. From the second, replies that were true stay true under every
step of the workers; with `Custody` this is `AcceptedKept`. `DrainedIsLanded` combines
`NothingIsLost` with the poll: with a lag of 0 every entry is before the cursor, with
nothing pending it has landed, and what has landed and was accepted stays so.

**RecoveryProofs** proves `RecoveryInv`, and from it `SyncedSurvives`. `SyncedSurvives` says what holds now;
to survive the next loss, the same must hold of `disk`, so the invariant has
`Accounted(redis)` and `Accounted(disk)`, each relative to the *current* rows, which PostgreSQL
keeps. Entries of `disk` may be stored and acked since: that is fine, as rows only
grow. `cursor <= posted` is needed because a new entry must be unread to a group that was
read to its end, and `done \subseteq rows` because an XACK may hit a Redis whose pending list
is an older one.

**RateCacheProofs** strengthens `RateInv` by `HandsFull`: a caller that is about to write has a
rate. A rate is then at most as old as its time in the cache plus the age it had
when it was written, and `slowest` bounds the latter; `HitsStayYoung` reads this off at a hit.

**SchemaProofs** is about any number of characters, times and zones. `Upper` concatenates what each
character becomes, and the fold in its definition cannot be reasoned about for every length; but a
currency that passes has a length of three before it is normalised, so `FlattenUnfolds`
unfolds it as far as that. `NormaliseType` says that what comes out is in capitals,
`CapitalsStay` that normalising three capital letters changes nothing, and
`LettersWereLetters` goes back: three letters come of three letters, unless one of them grew.
`UtcIsTheInstant` says of `_to_utc` that it keeps the instant, fails just for the instants that
`datetime` does not have, and never fails for what it returned. `SchemaInv` carries this
from the body to the stream and to the worker. `DiesByLengthOnly`, `OverflowStaysAtTheApi` and
`ParsedStaysAccepted` (which compares what the worker stores with what the client sent) follow from it.

Every safety and action property that a passing run checks is proved, and so are the
two refinements. Only model-checked: liveness (`EveryEntrySettles`, `StopTerminates`, `EveryoneAnswered`,
`AcceptedLands`, `EveryProcessServes`, `SettlesOnceGroupIsSynced`, `QuoteSettles`), since fairness and
ENABLED are out of the prover's reach.

## 5. Findings

1. `count_window`. `_delivery_counts` (`app/queue.py:184`) lists the lowest
   `len(claimed)` entries the worker owns. If it owns lower ones it did not just
   claim, a claimed id is missing from the reply and counts as delivered once, so
   a message over `MAX_DELIVERIES` is retried and not dead-lettered as
   `README.md:196` says. One lost XAUTOCLAIM reply is enough. `EveryEntrySettles` shows that
   this delays the dead letter and does not prevent it, and `CapMissedOnlyIfCrowdedOut`
   proves that an older entry outside of the batch is the only way it comes about.
2. `lost_group`. The group is created at start only (`app/consumer.py:59`). If Redis comes back
   without it, both loops log NOGROUP and back off for ever, while the API goes on
   accepting: the outage does not end by itself as `app/consumer.py:84` says. Any restart of a
   process repairs it, with `id="0"` so that nothing is skipped
   (`SettlesOnceGroupIsSynced`, `SyncedSurvives`).

Some properties carry a condition where the documentation has none. Each condition
is there because of what the code does without it:

- `Custody` excepts what MAXLEN has cut, and `NothingIsLost` assumes `MaxLen >= MaxEntries`:
  `publish` trims without regard to the group (`app/queue.py:66`), so "Nothing is lost"
  (`app/consumer.py:84`) holds only below `stream_max_len`.
- `MissedOnlyByRace` excepts a row inserted between COUNT and SELECT (`app/api/users.py:71`):
  it takes a place on the page, and `has_more` is then false for a row that was there
  all along. `OnlyTheRaceMisses` proves that this is the only way.
- `SyncedSurvives` is about entries on disk: the 202 is sent when XADD is applied and
  Redis writes its file once a second, so "the event is durable in Redis"
  (`README.md:90`) is true a second later.
- `DeadByLengthOnly` names how an accepted event can be refused by the worker: the
  length of a currency is checked before strip and upper (`app/schemas.py:41`), so
  `"EU "` is accepted and queued as `EU`.
- `ParsedAsAccepted` excepts codes with a letter that grows in upper case, for the same reason:
  `"ße "` has three characters and is queued as `SSE`.
- `DrainedMeansLanded` is about a group that exists: without one, `stats`
  (`app/queue.py:235`) reports a lag of 0 whatever waits.
- `Schema` has a stage `broken`: a timestamp whose UTC instant is outside of `datetime`
  raises OverflowError in `_to_utc` (`app/schemas.py:59`), which is no validation error,
  and the request is answered with 500 where `README.md:303` says 422. `OverflowStaysAtTheApi` proves that
  this ends there: the worker would take the error for a bug and retry the event up to the cap.

Two more remarks. The comment at `app/processor.py:92` counts an exhausted pool among the
failures that are retried; SQLAlchemy's TimeoutError is no DBAPIError, so it is handled
as an unexpected exception (`AttemptBreaks`): the entry is kept, without a retry in the process.
And `build_event` (`scripts/load_test.py:23`) speaks of "an exact replay of an earlier one" but repeats only the
id: amount, user and time are new, so what the load test exercises is `FirstWriteWins`, two bodies under one id.

## 6. Not modelled

- Trimming of the DLQ, which has the same MAXLEN: parked entries beyond it vanish.
  `dlq` is the set of what was ever added, so an entry that is parked twice shows once.
- What MAXLEN does to the lag Redis reports (it may be unknown, and is then taken
  for 0): `Lag` is right only below MAXLEN, as assumed by `DrainedIsLanded`.
- A statement of a crashed worker that PostgreSQL or Redis runs only after the
  entry was delivered again: a crash here comes before or after each command.
- A PostgreSQL that loses committed rows.
- The metrics loop of a worker, health and metrics endpoints, counters other than
  `credited` and `received`, logging: they read, and no decision depends on them.
- Connection pools and settings: pure I/O; what a failed call leads to is modelled
  where the call is made. Length and jitter of backoff.
- Formats of ids and amounts, and the response models.
- The pacing of the load generator and the events it makes up.

## 7. Plan

The plan is done: `EventQueue`, `EventConsumer`, `Ledger`, `Money`, `History`, `Ingest`, `Recovery`, `RateCache`,
`Pipeline`, `Schema`, each with its runs; every safety property has a proof. What could come next:

1. trimming of the DLQ, and the lag under trimming, in `EventQueue`;
2. loss of Redis data in `EventConsumer` itself, where delivery counts start again;
3. a `Pipeline` with two clients and two workers, beyond what TLC explores in minutes.
