# strev in TLA+

TLA+ specifications, TLC models and TLAPS proofs for strev, a Rust library of
message publishers, subscribers and a router over several backends (`crates/`).
Paths below are relative to `src/crates/` unless they name a top-level file.

## Inventory

Every backend offers `Publisher::publish` and `Subscriber::subscribe`; a subscriber
leases messages into a bounded `MessageStream`, and each leased message carries a
one-shot responder whose verdict (Ack, or Nack, which is also what dropping the
message means) tells the backend to settle or redeliver it. The router runs one
consumer task per handler and settles each message from the handler's result;
middlewares wrap the handler, decorators the publisher or the subscriber.

| Component | State | Operations | Hard part | Correct when |
|---|---|---|---|---|
| `strev-channel` | map topic -> senders, two bounded queues and a forwarder per stream, a verdict task per message | publish, publish_after, subscribe, close | locks held across awaits, writers that block a thread, requeue races | nothing lost, one copy per message, batches whole, publish returns |
| `strev-postgres` publisher, subscriber | message, offset, consume tables; poller and flusher per subscription | publish, publish_tx, poll_once, ack_flusher | READ COMMITTED statements of many sessions, visibility timeouts, crashes, ignored errors | watermark below everything unacked, leases exclusive, acks final, everything acked in the end |
| `strev-postgres` retention | none of its own | purge_once | purge against moving watermarks and groups that subscribe meanwhile | purges only what the groups it counted have acked |
| `strev-redis` publisher, subscriber | stream, pending list; poller and flusher per subscription, one connection for both | XREADGROUP, XAUTOCLAIM, XADD, XACK | errors ignored between two commands, lost replies, slow consumers, crashes | unacked messages undelivered or pending, one handler per entry, everything acked in the end |
| `strev-mongodb` queue, retention | messages, a cursor document per group, lease per document; poller and flusher | publish, poll (read, scan, save the cursor, claim), ack_flusher, purge_once | the cursor is read, moved and saved without a lock; errors restart from the smallest id | as for PostgreSQL |
| `strev-mongodb` change streams | resume token per group | watch, hand over, store the token | hand-over and token are two steps; a stream starts from now without a token | the token never passes what was not handed over |
| delayed publishing of `strev-redis`, `-mongodb`, `-postgres` | staged messages | publish_after, promote_once | publish and remove are two commands (one statement in PostgreSQL), several promoters | acked messages published, none more often than promoters and errors explain |
| `strev-kafka` | position, committed offset, assignment | publish, receive, commit, seek | lost commits, rebalance between receive and verdict, ignored seek error | partition order, nothing lost |
| `strev-nats` | durable pull consumer; queue group | publish, receive, ack, nak | ack_wait under a slow consumer, lost acks | nothing lost, one holder until ack_wait runs out |
| `strev-amqp` | queue, unacked deliveries per channel | publish, receive, ack, nack, requeue | channels that end under unacked messages, prefetch | nothing stored is lost |
| `strev/router.rs` | registrations, one task per handler, shutdown token | run, process_message | refused subscriptions, panics, close timeout, publish after ack | leases settled, shutdown clean, cancel returns |
| `strev/message.rs`, `stream.rs`, `outcome.rs` | one-shot responder, bounded stream | ack, nack, drop, leased | a verdict that never comes | every lease resolves |
| `strev/middleware/*`, `strev-telemetry` | dedup keys, breaker state | wrap, handle | chains whose members work against each other; keys recorded before success; wall clock | nothing forgotten, no storms on a broken handler |
| `strev/forwarder.rs`, `requeuer.rs`, `fanin.rs` | none | relay from topic to topic | ack after a publish that may fail, messages nacked for ever | relayed or redelivered |
| `strev/requestreply.rs` | pending waiters | request, listener, respond | timeout, failure and dropped future against the reply | no waiter left behind, every call returns |
| `strev/decorator.rs` | a task and a stream per decorated subscription | transform | one more stream between lease and handler | leases carried over |
| `strev-cqrs` | handler tables | send, publish, dispatch | several handlers of one event, verdicts of unknown messages | every handler of an event gets it |
| `strev-cloudevents` | a task and a stream | encode, decode | the decoded message replaces the leased one | acks reach the transport |
| `strev-testsuite` | none | tests | none | not modelled: test code |

`PROJECT.json` lists each component with its status, and under `hazards` what is hard
to test, at its line, with the properties that watch it.

## Modules

| Module | What it is |
|---|---|
| `LeasedDelivery` | The abstract promise of a subscriber that redelivers: a message accepted for a stream is ready, leased or acked; a nack makes it ready again; only an ended stream gives messages up. No queues, tasks or locks. |
| `Channel` | `strev-channel/src/lib.rs` for one topic; refines `LeasedDelivery`. |
| `PostgresQueue` | `strev-postgres`: inserts, poller, flusher, retention, crashes, for one topic. |
| `RedisStream` | `strev-redis` publisher and subscriber for one stream key and its consumer groups. |
| `MongoQueue` | `strev-mongodb`: inserts, poller, flusher, retention, crashes, for one topic. |
| `DelayPromoter` | `publish_after` and the promoters of Redis, MongoDB and PostgreSQL; the variable `backend` says which. |
| `BrokerStream` | What the subscribers of AMQP, NATS, Kafka and change streams share: a publish call of several messages, the task of `subscribe`, the stream, the consumer. |
| `Kafka`, `Amqp`, `NatsStream`, `NatsCore`, `ChangeStream` | Each extends `BrokerStream` with its server, its task and its verdicts; the variable `kind` says which one runs. |
| `Brokers` | Their next-state relation, fairness and properties. |
| `Router` | `strev/src/router.rs`: `run`, consumer tasks, `process_message`. |
| `Consumer` | An application: publishers, topics, subscriber decorators, the consumers' tasks and the verdict of the router. |
| `Middleware` | Extends `Consumer` with the fourteen middlewares and telemetry. |
| `Handlers` | Extends it with the innermost handlers: the application's own, CQRS, forwarder, requeuer, fan-in, responder. |
| `RequestReply` | Extends it with the client of `requestreply.rs` and its listener. |
| `Application` | Next-state relation, fairness and properties of all four. |
| `*_proofs` | Theorems and proofs about `Channel`, `PostgresQueue`, `RedisStream`, `MongoQueue`, `DelayPromoter`, `Brokers`, `Router`, `Application`. Each states the lemmas about sequences and sets it uses. |
| `MC*` | Constants and scenarios of the small instances; one `.cfg` per run. |

A definition whose comment begins with *Mutant* is a faulty variant of the definition it
precedes (a guard dropped, an update that repeats). No specification uses it; it shows
that a property would notice such a fault.

### Channel

`known`/`topic` are the map's entry for the topic, `readers` the `publish` calls that
hold its read guard. `raw`, `fwd`, `out` are the two bounded queues and the
forwarder's hand; `held` is what the consumer took; `nacked` and `resend` are verdict
tasks that have a Nack, and that have upgraded the weak sender and are sending. A
message is in at most one of these places, so the task bound to it needs no variable.

`publish` is split at its awaits: `PublishGet` takes the guard, `PublishSend` is one
`send().await`, `PublishDrop` drops the guard and enters `alter`, `PublishAlter` prunes.
A send may yield even when there is room (tokio's cooperative budget), so other tasks run
between any two of these. A call that waits for the write lock (`alter`, `entry`,
`clear`) does not yield: it is in `Blocked` and occupies a worker thread; every other
step needs `FreeWorker`. New readers are not held up by a waiting writer, as in DashMap's
lock.

### PostgresQueue

A row is its id. `Insert` takes an id from the sequence when the statement runs,
`Commit` makes it visible; `Rollback` burns it. `poll_once` is `PollStart` (the
`is_closed` check), `PollSkip` or `PollLock` (`FOR UPDATE SKIP LOCKED`), `PollScan`
(`advance_watermark`), `PollPick` and `PollCommit` (the snapshot of the claim and its
upsert: other sessions may write between the two), `PollFail` (a statement fails, the
transaction rolls back), then `SendNext` or `SendClosed`. `row[g][m]` is the consume row:
none, held, expired or acked. Time exists only as `LeaseExpires`. `ack_flusher` takes
any nonempty part of the verdicts that wait for it, then runs the acks' and the nacks'
UPDATE as two steps, each of which may fail and be forgotten. `Crash` is the death of the
subscriber's process. A commit whose answer is lost needs no action of its own: its
effect is that of a crash right after `PollCommit`. The purge of consumed rows is one
statement but two steps: `PurgeBegin` reads the lowest watermark and picks rows in its
snapshot, `PurgeCommit` makes the deletes visible (`PurgeFail`: it failed), and `purge` holds
what lies between, the groups counted and the rows picked. The purge by age looks at no other
table, so its snapshot and its commit may be one step. The delay promoter inserts into the
messages table like any other session, so it is one of `Pubs`.

### RedisStream

`log[i]` is the message of stream entry `i`; `last`, `pel` and `idle` are the server's part
of a consumer group: last delivered entry, pending entries, and those of them whose idle
time has reached `claim_idle`. One pass of the poller is `PollTop`, `PollRead`
(XREADGROUP) or `PollReadErr`, `PollClaim` (XAUTOCLAIM), then per entry `SkipGarbled`,
`SendNext`, or, with the stream gone, `SendClosed`, `RequeueAdd` and `RequeueAck`. The flusher
takes any nonempty part of the waiting verdicts (`FlushTake`), adds the nacked messages
again (`FlushAdd`) and acks all originals (`FlushAck`). Each command is a step, and its
error path is a disjunct of the step: `Refused` commands have no effect, except that a
pipeline may have run in part. XADD is refused only where `AddsFail` allows it.

`Break` is the loss of the connection that poller and flusher share, before or after the
server ran the command on its way; the connection never comes back, so neither does the
subscription. `IdlePasses` is the only trace of time. An entry without a handler always
becomes idle; under a handler it counts against `MaxTimeouts`.

### MongoQueue

A document is its ObjectId, which the driver picks when `insert_many` is called
(`InsertMany`); `Inserted` is the server inserting the next one, or refusing the rest. A
round of the poller is `PollTop` (`is_closed`), `PollRead`, `PollScan`, `PollSave`
(`advance_cursor`: three commands, nothing locked between them), then up to `BatchSize`
times `PollClaim` (`find_one_and_update` on the first claimable document above `mark[s]`,
the poller's copy of the cursor) and `Send`. An error of `advance_cursor` makes the round
claim from the smallest id (`PollErr`, the
`unwrap_or_else(|_| min_object_id())` of `queue_subscriber.rs:120`); a claim whose reply is an error may
have taken the lease. `SendClosed` is a hand-over to a stream that is gone, with
`expire_lease`. `FlushTake`, `FlushAcks`, `FlushNacks` are `ack_flusher`. The purge reads the
lowest cursor (`PurgeFloor`) and deletes up to there later (`PurgeDelete`).

### DelayPromoter

`staged` are the messages waiting, `due` those whose time has come. With Redis and MongoDB
a round is a fetch, then publish and remove for each message: two commands, and an error or
a restart ends the round between any two; with PostgreSQL one statement moves a batch
(`DELETE ... SKIP LOCKED` into `INSERT`). `accepted` is what `publish_after` acked; a
message may be staged although the call failed. `added` counts how often a message was
published.

### Brokers

`log` is what the server has stored, `ready` what it may deliver (AMQP, JetStream), `out[s]`
what it has delivered to `s` and not settled, `mark` the committed offset or the resume
token. The task of a subscription goes from `recv` to `send`; Kafka's then waits for the
verdict (`await`: one message in flight), a change stream's stores its token (`store`).
Verdict tasks are external to that: `AmqpVerdict`, `StreamVerdict`, `Commit`, `Seek`. The
servers are modelled as far as the code relies on them: AMQP requeues what is unacked on a
channel that ends, JetStream delivers again when `ack_wait` is over, Kafka assigns a
partition to one member and refuses commits of others, core NATS picks one member of a
queue group and forgets. Messages of core NATS and change streams carry no lease.

### Router

`run` subscribes the handlers in order (`SubscribeOk`, `SubscribeErr`), waits for the
token (`SeeCancel`), joins (`Joined`) or gives up (`CloseTimeout`). A task selects between
the token and its stream; `HandleOk` settles the verdict first and publishes afterwards,
topic by topic (`PublishTopic`); `HandleErr` nacks; `HandlePanic` unwinds, which drops
responder and stream. Dropped messages go back to the transport's `backlog`. The
transport is external (`Lease`, the settling half of `SettleAck`/`SettleNack`). Here the
handler is a black box; `Application` opens it.

### Application

`app` is a deployment: who publishes, and for each consumer its topic, how it subscribes,
its chain of middlewares and its handler. A delivery (`run[c]`) goes down the chain one
middleware at a time and its result comes back up, one action per middleware and
direction, so that other consumers, a timeout, a breaker's clock, the end of a
deduplicator's window and a crash come between any two of them. Results are `ack`, `nack`,
`err`, `skip` (an error `IgnoreErrors` picks) and `panic`. A `Timeout` that fires drops all
below it, at an await of theirs (`Awaits`). `Settle` is the router's verdict. `BusSend`,
`ForwarderPublish`, `TransformPublish`, `EncodePublish` are the publishers;
`TransformNext` and `DecodeNext` the decorating tasks, with a bounded stream of their own.
Topics are queues that put a nacked message at their end, as `strev-channel` does. What a
consumer holds comes back to its topic as long as it is leased (`Leased`); what the
CloudEvents subscriber hands on is not, and stays in the topic anyway (finding 4).

The client of request-reply is `client[r]` with `pending` (the map of waiters) and `answers`
(the one-shot channels). The waiter is registered before the publish, removed by the
listener, by an error of publish or after the timeout; a dropped `request()` future removes
nothing and leaks its entry, which `WaitersMatch` leaves out on purpose (`dropped`).

## Runs

| Run | Question | Result |
|---|---|---|
| `channel` | two `publish` calls (one delayed, one of a batch of two), a nack, a dropped stream, full queues, `subscribe` and `close` | `TypeOK`, `OnePlace`, `NoLoss`, `BatchOrder`, `WholeBatch`, `PublishReturns`, `EventuallyAcked` hold; `Channel` refines `LeasedDelivery` (`ImplementsDelivery`) |
| `channel_one_thread` | one worker thread, two calls | `PublishReturns` fails: finding 1 |
| `pg_queue` | two pollers of a group, or one in each of two groups; a nack, a visibility timeout, a failing statement, a dropped stream, a crash, both purges | `TypeOK`, `NothingSkipped`, `ExclusiveLease`, `AckFinal`, `PurgeSafe`, `EventuallyDone` hold |
| `pg_overlap` | two inserting sessions | `NothingSkipped` fails: finding 2 |
| `redis` | two consumers of a group, a garbled entry, a nack, a refused command, an idle limit, a dropped stream, a broken connection, a crash | `TypeOK`, `NoLoss`, `ExclusiveEntry`, `EventuallyDone` hold |
| `redis_full` | one refused XADD | `NoLoss` fails: finding 3 |
| `delay_promoter` | two promoters of each backend, two errors or restarts | `StagedSafe`, `AddedAtMost`, `EventuallyPromoted` hold |
| `router` | a stuck handler beside one that fails, panics, is refused or sees its stream end; a failed publish | `TypeOK`, `NoLeaseLeaked`, `CleanShutdown`, `CancelReturns`, `CancelStopsTasks` hold |
| `mongo_queue` | two pollers that share a cursor nobody locks, and one fault of any kind | `TypeOK`, `NothingSkipped`, `ExclusiveLease`, `EventuallyDone` hold |
| `brokers` | AMQP, JetStream, core NATS, Kafka, change streams; two subscriptions and two faults | `TypeOK`, `NoLoss`, `PartitionOrder`, `ExclusiveDelivery`, `EventuallyDone` hold |
| `application` | thirteen deployments of middlewares, relays, CQRS, decorators and request-reply | `TypeOK`, `NothingLost`, `NoStorm`, `WaitersMatch`, `EventuallySettled` hold |
| `cloudevents` | an acked message behind the CloudEvents subscriber, no fault at all | `AckCommits` fails: finding 4 |

Deadlock is checked except where the system may really stop. `channel_one_thread` stops:
that is the finding. A broker or an application whose messages are all acked waits for
the next one (`brokers`, `application`, `cloudevents`); whether anything stops too early
there is what `EventuallyDone` and `EventuallySettled` say.

The deployments of `application` are in `MCApplication`: a chain with `PoisonQueue`,
`Timeout` and `Retry` whose poison topic a requeuer reads; a poison topic nobody reads,
with `IgnoreErrors` and `Duplicator`; a `CircuitBreaker` under a `Retry` and under a
`Timeout`; a `Deduplicator` alone and under a `Retry`; a command processor; two event
handlers behind the router's `Deduplicator`; an outbox with a forwarder that acks or nacks
what it cannot forward; a fan-in behind `RandomFail`; request-reply; CloudEvents.

### Bounds

Each bound is a constant and stands in the guard of the action it bounds.

- Queues hold one message (`BufferSize`) and so do consumers (`MaxHeld`), AMQP's window
  (`Prefetch`) and Kafka's: full, waiting, and room again all occur with two or three
  messages. Batches have two messages and a neighbour of one. Two subscriptions, calls,
  groups, promoters or handlers are the least that can race.
- `MaxId`, `Msgs` and `Ids` bound what is published. The properties relate at most two
  messages (a lower one that is not acked, a higher one that is).
- `MaxFaults`, `MaxNacks`, `MaxTimeouts`, `MaxErrors`, `MaxLost`, `MaxFails` and an
  application's `maxFaults` bound how often the environment misbehaves; `MaxLoad` (Redis)
  bounds messages and faults together, so that one message with two faults and two messages
  with one both occur. `Attempts` and `MaxFailures` are 2: the least at which a retry
  differs from a first call and a run of failures from a single one.
- `Droppable`, `Crashable` and `Breakable` name the one subscription that may go, so that
  its neighbour is left to pick up what it had.
- Two runs start from more than one state to stay small; the actions are the same. `channel`:
  one stream and both calls, or both streams and one call. `pg_queue`: two subscribers of
  one group with faults, or one subscriber in each of two groups with a backlog of two
  messages and no more faults. Groups share the messages and their sequence, and meet only in
  the purge, which here takes one row at a time (`PurgeBatch`).
- `Workers` is 4 in `channel`: more than there are calls that can wait for the map's write
  lock at once.

### Fairness

The runtime polls every ready task, so tasks, pollers, flushers, promoters, listeners
and timers are weakly fair; with `FreeWorker` as a guard this gives a `Channel` task
nothing while every worker is blocked. Beyond that:

- A consumer settles what it took: of the messages it holds, one is acked or nacked in the
  end. Router handlers in `Stuck` are excepted. Nacks, failures and panics are faults with a
  budget, so a handler succeeds at last.
- A transaction commits or rolls back; an insert or publish call goes on.
- A lease, an idle limit or `ack_wait` runs out. For JetStream only that of a message no
  consumer has is fair: one still held need not time out.
- A staged message comes due, an open breaker's and a deduplicator's time passes.

Nothing else is forced: no publish, cancel, error, crash, drop, close, end of a stream,
lost reply, rebalance or purge. In `redis` the consumer whose connection broke keeps its
messages for good; only the other one's XAUTOCLAIM brings them back. A Redis promoter whose
connection stays broken is one that is not restarted.

## Findings

1. `strev-channel/src/lib.rs:44`: `publish` holds the map's read guard across
   `send().await`, and the writers of the map wait for it without yielding. With as many
   calls in `alter`, `entry` or `clear` as worker threads, nothing drains the queue the
   guard's holder waits for. On a current-thread runtime a single such call is enough.
2. `strev-postgres/src/subscriber.rs:303`: ids are taken at INSERT and seen at COMMIT. A
   transaction that commits after a younger id was acked lies below the watermark, is
   never claimed, and is deleted by retention. `publish_tx` inside a longer
   business transaction, concurrent `publish` calls and the delay promoter all do this.
3. `strev-redis/src/subscriber.rs:336` (and 290): the result of the XADD that re-adds a
   nacked message is ignored and the XACK of the original follows. When the server
   refuses the one and not the other, as it does at `maxmemory`, the message is in neither
   place. `NothingLost` shows that this is the only way to lose one.
4. `strev-cloudevents/src/subscriber.rs:40`: the decoded message that is handed on has no
   responder, and the leased message it came from is dropped, which is a Nack. The
   transport redelivers whatever the handler acks, for ever.

Read in the code while modelling it; no run is about them:

- `strev-postgres/src/retention.rs:11`: the purge reads `MIN(last_id)` in its statement's
  snapshot, and its deletes become visible at its commit. A group that subscribes in between
  (`subscriber.rs:64`, offset row at 0) is not counted, yet its poller claims what is about to
  go: its consumer may have a message in hand when the row is deleted, and a nack or a crash
  then loses it. "Deletes messages every group on the topic has already acked" (9, and 54)
  holds for the groups that were there when the statement began, and that is what
  `PurgeSafe` and `RetentionSafe` say. Asked of every group that has an offset row at the
  commit, `PurgeSafe` fails in the instance of `pg_queue` with two groups.
- `strev-redis/src/delay.rs:91`, `strev-mongodb/src/delay.rs:36` and the README (268)
  recommend a single promoter "for exactly-once promotion". With Redis and MongoDB the
  publish precedes the removal, so even a single one publishes twice after an error or a
  restart between the two. `AddedAtMost` is what remains.
- `Deduplicator`'s default key is the message's uuid, and every delivery is a new message with
  a new uuid (`message.rs:61`, `71`, `132`; subscribers drop the `strev-uuid` they receive). So
  by default it takes nothing for a duplicate, although the README (269) offers it against the
  duplicates of several promoters (`UuidDeduplicator` in the model). With a key of the
  application's that is the same at each delivery, it is recorded before the handler succeeds
  (`middleware/deduplicator.rs:78`): the redelivery of a failed message is acked unhandled,
  and one `Deduplicator` given to the router is shared by all handlers. `NothingLost` names
  these cases (`TakenForDuplicate`) and shows that there are no others.
- `strev-kafka/src/subscriber.rs:123` ignores the error of the seek back to a nacked
  message; a later commit then passes it (`refused`).
- A MongoDB change stream without a token, or with one it cannot read, starts from now, and
  the task ends at the first error of the stream.
- AMQP channels are never put in confirm mode (`strev-amqp/src/publisher.rs:64`): the
  awaited confirmation says nothing about the message.
- `CircuitBreaker` subtracts wall-clock times without a sign
  (`middleware/circuit_breaker.rs:50`): after the clock was set back, an open breaker panics
  in a debug build and lets calls through in a release build (`ClockBehind`). A `Timeout`
  outside it drops a call before it is recorded.
- A dropped `request()` future leaves its entry in the map of waiters.
- `InstantAck` has no effect under the router, which settles by the handler's result.

## Proofs

TLAPS proves, for every value of the constants that meets the module's named ASSUME:

- `Channel_proofs`: `TypeCorrect`; `NothingLost` (`Spec => []NoLoss`);
  `BatchesAreWhole` (`Spec => []WholeBatch`). `NoLoss` alone is not inductive: the
  map's entry might list a stream whose forwarder is gone. `EntryInv` adds that
  `pi`/`pj` stay within the batch and the sender list while a call holds the guard
  (`Walking`) and that the entry lists distinct, subscribed streams, of which the open
  ones have their forwarder (`Entries`); `OneForwarded` says the
  forwarder has one message in hand. For `WholeBatch` the invariant is `Reached`: how far
  each walking call has come, for every stream in the entry, which is stable because the
  entry does not change while `readers` is not empty.
  `OneCopyPerStream` (`Spec => []OnePlace`) rests on `PlaceInv`: a stream's copies are
  distinct and each in one of its seven places (`OneCopy`), all of them were offered to it,
  and a call has offered a stream only its messages before the current one, and that one
  only if the call has passed the stream's sender (`Offers`).
  `BatchesKeepOrder` (`Spec => []BatchOrder`) adds `OrderInv`: what an open stream has not
  yet seen of what it was offered stands in one line of stream buffer, forwarder and raw queue
  (`Lined`), a batch stands in it in its order (`Ordered`), and what is sent again was seen.
  `KeepsThePromise` (`Spec => ImplementsDelivery`) maps every step to one of `LeasedDelivery`
  or to a stutter: `PlaceInv` makes a published message new and a taken one leave the ready
  set, and `GoneIsEnded` says that a message is given up only where the stream has ended.
- `PostgresQueue_proofs`: `TypeCorrect`; `AckIsFinal` (`Spec => AckFinal`) and
  `LeaseIsExclusive` (`Spec => []ExclusiveLease`), without a condition; `WatermarkSound`
  (`OneSession /\ Spec => []NothingSkipped`) and
  `RetentionSafe` (`OneSession /\ Spec => PurgeSafe`, for the groups that had an offset row when
  the purge began: `PurgeInv` says that they have acked the rows it picked, which stays so
  because acks are not taken back, `DoneGrows`). `OneSession` says that all
  inserts come from one session; without it the property is false (finding 2). The
  inductive `WatermarkInv` relates what the proof needs: all watermarks, committed or in
  an open poll, are below the sequence (`BelowSeq`), uncommitted rows are above every
  visible row and every watermark (`WritingNewest`), acked rows are done (`AckedIsDone`),
  and an open poll's mark is as sound as a committed one (`MarkSound`).
  `TypeCorrect` rests on lemmas about the claim: the `BatchSize` smallest ids of a finite
  set are at most `BatchSize`, and `InOrder` lists each of them once. `LeaseInv` says that
  ids a poller ever saw belong to no open transaction (`Fresh`), that the row lock gives a
  group one open poll (`Locked`), and, while no lease ran out under a consumer, that a
  copy in flight is leased, ahead of the watermark and of the mark of any open poll, and
  its group's only one (`Leases`), that it is in one place (`OneCopy`), and that what a
  poll is about to claim is in nobody's hands until it commits (`Picks`), which is what
  makes a claim whose snapshot is older than its write safe.
- `MongoQueue_proofs`: `TypeCorrect`; `NothingIsSkipped` (`Spec => []NothingSkipped` for a
  single publisher, as ids of several are not inserted in their order); `LeaseIsExclusive`
  (`Spec => []ExclusiveLease`, no condition). That pollers set the cursor back and forth
  without a lock does no harm because every value any of them has read, computed or saved
  is sound: `CursorInv` says of cursors and of the pollers' marks alike that what is behind
  them is done (`BehindAcked`), and that ids still being inserted are above all of them and
  above all visible documents (`InOrder`). `LeaseInv` says that without an expired lease
  under a consumer a copy in flight is leased and its group's only one (`Leases`) and that
  it is in one place of its subscription (`OneCopy`: buffer, consumer, verdict or flush).
- `Router_proofs`: `ShutdownIsClean` (`Spec => []CleanShutdown`), from `ShutdownInv`:
  nothing is left to publish (a failed publish is logged, not tried again), because
  only the handlers subscribed so far have tasks (`SpawnedInOrder`), work is left in `todo`
  only while its task publishes (`TodoOwned`), and everything made is sent, lost or still
  in the hands of a publishing task (`ProducedTracked`). `NoLeaseIsLeaked`
  (`Spec => []NoLeaseLeaked`), from `LeaseInv`: every message is at the transport, in the
  stream, unsettled in the handler's hand or acked, a task that publishes has settled, and
  one that has ended has no stream. `TypeCorrect` follows from both and the types of the history.
- `RedisStream_proofs`: `TypeCorrect`, and `NothingLost` (`Spec => []NoLoss` if `AddsFail`
  is FALSE). `NoLoss` is not inductive, as a settled entry says nothing about the copies that
  stand in for it. `LossInv` says of each settled entry that its message was acked or
  a *later* entry carries it (`SettledInv`), and the same, one step ahead, of every entry that
  a requeue or a flush is about to settle (`CommitInv`), unless its connection is broken and
  the XACK cannot be run either. Of all entries of an unacked message the last has no later
  copy, so it is not settled (`LastEntryLives`; the last one exists because `<` is well-founded).
  `EntryIsExclusive` (`Spec => []ExclusiveEntry`, no condition): `LeaseInv` adds that a copy
  in flight is not idle, and that a subscription has it in one place (`OneCopy`: unsent,
  buffered, held, a queued verdict or the flusher's). The last is what makes settling safe:
  a settled entry leaves the pending list, so no other place may still have it.
- `DelayPromoter_proofs`: `TypeCorrect`, `AckedIsStaged` (`Spec => []StagedSafe`) and
  `PromotedPerPromoter` (`Spec => []AddedAtMost`). `CountInv` counts: while a message is staged,
  it was published once by each promoter about to remove it; afterwards only those that had
  fetched it before can publish it, and they are others (`DisjointBound`).
- `Brokers_proofs`: `TypeCorrect`, `NothingIsLost` (`Spec => []NoLoss`), `PartitionInOrder`
  (`Spec => []PartitionOrder`) and `DeliveryIsExclusive` (`Spec => []ExclusiveDelivery`), all
  from one invariant `IInv` and for all five backends. What `NoLoss` promises differs: for JetStream
  and Kafka that what was stored or reported is acked or still to be delivered (for Kafka until a
  seek is refused), for AMQP the same of what a queue stored but not of what `publish` reported,
  for a change stream that the token passes only what was handed over or skipped, for core NATS
  nothing. `NoLoss` says where a message is, not
  how it got there, so `IInv` has a part for each way it travels. For all: messages are
  numbered in the order they are sent in, so what is anywhere in the system is older than what
  is still to come (`SentInOrder`); a task has one message in hand (`InHand`); what a consumer
  has or answers was handed over (`Accounted`); what `publish` reported is in the log
  (`Reported`). AMQP and JetStream: an unacked message is in the queue or out to exactly one
  subscription (`Queued`), and what a subscription has in its stream, hands or verdicts is one
  copy of what is out to it (`Leases`), but for an AMQP channel that was closed. Core NATS: what
  one subscription got is out to no other and not yet handed over (`OnceAtMost`). Kafka: the task
  awaits the verdict of one message, and while it does not, nothing is out (`OneAtATime`), so that
  all before the committed offset and the position is acked (`Committed`); a change of owner starts
  at the committed offset, which is why a rebalance overtakes nothing. Change streams: what the
  token passed was handed over or skipped, and what the task passed besides is in its hand
  (`Passed`). A token that goes to the newest message needs the log to have one: `<` is
  well-founded below `MaxId`.
- `Application_proofs`: four theorems, for every set of deployments that meets the ASSUMEs below.
  - `WaitersAlwaysMatch` (`Spec => []WaitersMatch`). `WaiterInv` adds that no call has both an
    entry in the map and an answer in its channel: the listener takes the entry out in the step
    that answers.
  - `TypeCorrect` (`Spec => []TypeOK`). That a `Retry` calls at most `Attempts` times needs
    `Counted`: whatever lies below a call going down has no calls counted yet, because a call
    clears the counts below it, whatever a `Timeout` or an error left there.
  - `NoRetryStorm` (`Spec => []NoStorm`), from `BreakerInv`: a call inside a breaker was let in
    by one that was not open, and the errors of the handler are at most those the breaker has
    recorded and the one on its way up to it (`Guarded`).
  - `NothingIsLost` (`Spec => []NothingLost`), from `LossInv`. `NothingLost` is not inductive: it
    would be satisfied by a relay that leads elsewhere, or by a call about to be acked unhandled.
    `NoneLost` follows a message along the relays that lead to the end in question (`Path`), and
    does not count a call whose result is an ack (`Kept`). A middleware makes an ack
    out of nothing only as a duplicate, an ignored error or a message sent to its poison topic
    (`WrapAcks`). For the duplicates, `SeenKeys` traces every key to a call that is still inside
    its `Deduplicator` (`Within`), or to a message that was handled or has failed (`Ruled`);
    `AckedWithin` and `Failures` say that a call which comes out of it again has been one or the
    other. A handler's own `Deduplicator` around the router's may also have let in what the
    inner one dropped; then whoever left the router's key accounts for it (`Excused`, `Held`).
    `Unleased` covers what has no lease to bring it back: it is still in its topic.

Assumptions are those a module names. Most say that a bound is a natural number. Two of
`Application` describe the application that is built from the library, which the library does not
check. But for the last, none of their clauses can be dropped: TLC finds the property violated in
deployments that break one.

- `RoutingAssumption`, for `NothingIsLost`: what is published goes to a topic of each end or of a
  relay that leads there, and so does a poison topic that anybody reads: one with a handler of
  its own is not covered, as `NothingLost` wants every message at every end. The keys of a
  `Deduplicator` are looked up once in a chain: of two with the same repository the inner one
  takes for a duplicate what the outer one has just let in. One of a handler's own and the
  router's may stand in one chain, in either order. None stands in a chain that relays, as
  no end would see what it drops after a failed call.
- `CircuitAssumption`, for `NoRetryStorm`: inside a `CircuitBreaker` nothing calls again after
  an error (a `Retry` there fails the handler `Attempts` times per failure recorded), makes an
  ack of an error (`IgnoreErrors`, `PoisonQueue`) or acks by itself what closes the
  breaker again (a `Deduplicator` with a redelivered message); and no `DelayOnError` waits there
  with an error in hand when a `Timeout` outside may drop it unrecorded. That there is one
  breaker in a chain is a limit of the model: `breaker[c]` is the state of one.

`DeploymentAssumption` says that chains are made of the modelled middlewares. The deployments of
`application` satisfy all of them, and TLC checks that on each run. The strengthened invariants
(`IInv`, `Types`, `BreakerInv`, `LossInv`) were checked with TLC on the same instances.

Only model-checked: everything temporal under fairness (`PublishReturns`,
`EventuallyAcked`, `EventuallyDone`, `EventuallyPromoted`, `CancelReturns`,
`CancelStopsTasks`, `EventuallySettled`), which the prover does not reach. Every invariant and
action property of a passing run is proved.

## Not modelled

- `strev-testsuite`: test code.
- Stream trimming of Redis (`MAXLEN`): it deletes unacked entries by configuration.
- Lag queries, metrics, spans and logging: they change no state of the system.
- Payloads, marshallers and wire formats, beyond whether something can be decoded; the
  lengths of sleeps, backoffs and throttles: a sleep is a step that may be late.
- `requeuer.rs:97` and `middleware/delay_on_error.rs:44`: the retry counter's `u32` and
  `multiplier.powi` overflow after more retries than a bounded run makes.
- `router.rs:301`: a handler that publishes to a bounded topic it reads itself waits for
  room its own task would make. Topics of `Application` are unbounded; `Router` does not
  relate what is published to what is consumed.
- Two MongoDB publishers: ObjectIds of two processes (or of one within a second) are not
  inserted in order, so a lower id may appear below the cursor; the runs and
  `NothingIsSkipped` have one publisher. Retention that meets a group without a cursor document.
- What clients fetch ahead. The NATS client leases a whole pull batch from the server before
  the task asks for the first message; `StreamReceive` leases one message when the task takes
  it. A Kafka member that has not yet heard that it lost the partition may still read messages it
  had prefetched; `KafkaReceive` wants the owner. The first makes `ack_wait` run out
  under messages nobody has been handed yet, the second lets a message be handled by the old and
  the new owner, which the model has only for the message in hand at the rebalance.
- More than one topic per backend: topics share tables and connections but no state that
  a step of one reads from another.
