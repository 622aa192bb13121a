------------------------------ MODULE Consumer ------------------------------
(***************************************************************************)
(* An application of crates/strev as one process runs it: the consumers of *)
(* a Router, each with a topic, a subscriber (decorated or not), a chain   *)
(* of middlewares and a handler that may publish to another topic.  A call *)
(* goes down the chain, its result comes back up, and the router settles   *)
(* the lease.  The modules that extend this one add the middlewares, the   *)
(* handlers of the library and the request-reply client.                   *)
(*                                                                         *)
(* A topic is a queue for each of its consumers; what is nacked goes back  *)
(* to its end, as in strev-channel.                                        *)
(***************************************************************************)
EXTENDS Integers, Sequences, FiniteSets, SequencesExt

CONSTANTS
  Consumers,    \* names of consumers
  Deployments,  \* [producers, entry, ids, maxFaults, cons]; cons[c]: the settings of
                \* a consumer, or Absent; bounds: ids are published, maxFaults failures,
                \* timeouts, panics and crashes happen
  Ids,          \* the messages
  Odd,          \* those without what a handler or a codec looks for
  Attempts,     \* Retry::max_attempts
  MaxFailures,  \* CircuitBreaker::max_failures
  BufferSize    \* the decorators' MessageStream::channel(256)

Middlewares ==
  {"Throttle", "DelayOnError", "CorrelationId", "InstantAck", "Telemetry", "Retry",
   "Duplicator", "Recoverer", "IgnoreErrors", "RandomFail", "PoisonQueue", "Timeout",
   "Deduplicator", "RouterDeduplicator", "UuidDeduplicator", "CircuitBreaker"}

ASSUME ConsumerAssumption ==
  /\ Ids \subseteq Nat \ {0} /\ Odd \subseteq Ids /\ "router" \notin Consumers
  /\ {Attempts, MaxFailures, BufferSize} \subseteq Nat \ {0}

ASSUME DeploymentAssumption ==
  \A a \in Deployments :
    /\ a.ids \subseteq Ids /\ a.maxFaults \in Nat
    /\ \A c \in Consumers : a.cons[c].chain \in Seq(Middlewares)

VARIABLES
  app,       \* the deployment that runs
  unsent,    \* messages the application has not published yet
  produced,  \* those it was told are published
  queue,     \* queue[c]: the topic, as consumer c has yet to receive it
  stream,    \* stream[c]: what a subscriber decorator passed on
  run,       \* run[c]: the delivery c is working on
  breaker,   \* breaker[c]: the CircuitBreakerState of its chain
  seen,      \* keys in the Deduplicators' repositories
  client,    \* client[r]: where the call of request() for r is
  pending,   \* RequestReply::pending
  answers,   \* replies in the oneshot channel of their request
  done,      \* history: done[c], messages whose handling by c is complete
  failed,    \* history: failed[c], messages some call in c did not ack
  acked,     \* history: acked[c], messages the router acked for c
  burst,     \* history: burst[c], errors of the handler since it last succeeded
             \* or the breaker had reason to let it run
  faults     \* count, for app.maxFaults

appVars    == <<app, unsent, produced>>
topicVars  == <<queue, stream>>
memVars    == <<breaker, seen>>
clientVars == <<client, pending, answers>>
vars == <<appVars, topicVars, run, memVars, clientVars, done, failed, acked,
          burst, faults>>

Absent == [topic |-> "none", via |-> "direct", chain |-> <<>>, handler |-> "none",
           to |-> "none", lax |-> FALSE]
Chain(c) == app.cons[c].chain
Results == {"ack", "nack", "err", "skip", "panic"}  \* Ok of a verdict, an Err, a panic
Errs == {"err", "skip"}                             \* skip: one IgnoreErrors ignores
Closed == [failures |-> 0, since |-> "recent"]

Idle(c) == [task |-> "idle", id |-> 0, depth |-> 0, result |-> "ack",
            calls |-> [p \in DOMAIN Chain(c) |-> 0]]
Dead(c) == [Idle(c) EXCEPT !.task = "dead"]

Init ==
  /\ app \in Deployments /\ unsent = app.ids /\ produced = {}
  /\ queue = [c \in Consumers |-> <<>>] /\ stream = [c \in Consumers |-> <<>>]
  /\ run = [c \in Consumers |-> Idle(c)]
  /\ breaker = [c \in Consumers |-> Closed] /\ seen = {}
  /\ client = [r \in Ids |-> "idle"] /\ pending = {} /\ answers = {}
  /\ done = [c \in Consumers |-> {}] /\ failed = [c \in Consumers |-> {}]
  /\ acked = [c \in Consumers |-> {}] /\ burst = [c \in Consumers |-> 0] /\ faults = 0

\* Not a part of the code: one of the faults the bound leaves room for.
Fault == faults < app.maxFaults /\ faults' = faults + 1

HasConsumer(t) == \E c \in Consumers : app.cons[c].topic = t

\* Whether what c is given has a lease.
Leased(c) == app.cons[c].via # "cloudevents"

\* The queues once publish(t, id) has stored the message.
Published(t, id) ==
  [c \in Consumers |-> IF app.cons[c].topic = t THEN Append(queue[c], id) ELSE queue[c]]

-----------------------------------------------------------------------------
(* The publishers of the application: an error may come after the effect.  *)

Produce(id) ==
  /\ unsent' = unsent \ {id}
  /\ \/ /\ queue' = Published(app.entry, id) /\ produced' = produced \cup {id}
        /\ UNCHANGED faults
     \/ Fault /\ queue' \in {queue, Published(app.entry, id)} /\ UNCHANGED produced
  /\ UNCHANGED <<app, stream, run, memVars, clientVars, done, failed, acked, burst>>

\* CommandBus::send and EventBus::publish, to the topic of the type's NAME.
BusSend(id) == "bus" \in app.producers /\ id \in unsent /\ Produce(id)

\* ForwarderPublisher: everything goes to the forwarder's topic, marked.
ForwarderPublish(id) == "forwarder" \in app.producers /\ id \in unsent /\ Produce(id)

\* A transform, then the inner publisher.
TransformPublish(id) == "transform" \in app.producers /\ id \in unsent /\ Produce(id)

\* CloudEvents: what cannot be encoded is refused before anything is published.
EncodePublish(id) ==
  /\ "encode" \in app.producers /\ id \in unsent
  /\ \/ id \notin Odd /\ Produce(id)
     \/ id \in Odd /\ unsent' = unsent \ {id}
        /\ UNCHANGED <<app, produced, topicVars, run, memVars, clientVars, done,
                       failed, acked, burst, faults>>

-----------------------------------------------------------------------------
(* The subscriber decorators: a task between the subscriber and a stream.  *)

PassOn(c) ==
  /\ queue[c] # <<>> /\ run[c].task # "dead" /\ Len(stream[c]) < BufferSize
  /\ stream' = [stream EXCEPT ![c] = Append(@, Head(queue[c]))]
  /\ UNCHANGED <<appVars, run, memVars, clientVars, done, failed, acked, burst, faults>>

\* The transformed message keeps its lease.
TransformNext(c) ==
  /\ app.cons[c].via = "transform" /\ PassOn(c)
  /\ queue' = [queue EXCEPT ![c] = Tail(@)]

\* decode() makes a message of its own, which has no lease: see Leased.  The one
\* that has is dropped, which is a nack; so is one that cannot be decoded.
DecodeNext(c) ==
  /\ app.cons[c].via = "cloudevents" /\ queue[c] # <<>>
  /\ \/ Head(queue[c]) \notin Odd /\ PassOn(c)
     \/ /\ Head(queue[c]) \in Odd /\ run[c].task # "dead"
        /\ UNCHANGED <<appVars, stream, run, memVars, clientVars, done, failed, acked,
                       burst, faults>>
  /\ queue' = [queue EXCEPT ![c] = Append(Tail(@), Head(@))]

-----------------------------------------------------------------------------
(* The consumer's task.                                                    *)

Begin(c, id) ==
  /\ run[c].task = "idle"
  /\ run' = [run EXCEPT ![c].task = "down", ![c].id = id, ![c].depth = 1]
  /\ UNCHANGED <<appVars, memVars, clientVars, done, failed, acked, burst, faults>>

\* The next message of the stream; process_message takes its responder.
Deliver(c) ==
  /\ app.cons[c].handler # "listen"
  /\ \/ /\ app.cons[c].via = "direct" /\ queue[c] # <<>>
        /\ Begin(c, Head(queue[c]))
        /\ queue' = [queue EXCEPT ![c] = Tail(@)] /\ UNCHANGED stream
     \/ /\ stream[c] # <<>>
        /\ Begin(c, Head(stream[c]))
        /\ stream' = [stream EXCEPT ![c] = Tail(@)] /\ UNCHANGED queue

\* The leases c holds: those of its stream and of the delivery under way.
Leases(c) ==
  IF ~Leased(c) THEN <<>>
  ELSE stream[c] \o IF run[c].task \in {"down", "up"} THEN <<run[c].id>> ELSE <<>>

\* The router's verdict: an Err is a nack, and so is a lease that a panic drops
\* with the task and its stream.  Without a lease nobody hears it.
Settle(c) ==
  /\ run[c].task = "up" /\ run[c].depth = 0
  /\ \/ /\ run[c].result = "ack"
        /\ acked' = [acked EXCEPT ![c] = @ \cup {run[c].id}]
        /\ run' = [run EXCEPT ![c] = Idle(c)] /\ UNCHANGED topicVars
     \/ /\ run[c].result \in Errs \cup {"nack"}
        /\ run' = [run EXCEPT ![c] = Idle(c)]
        /\ queue' = IF Leased(c) THEN [queue EXCEPT ![c] = Append(@, run[c].id)]
                                     ELSE queue
        /\ UNCHANGED <<stream, acked>>
     \/ /\ run[c].result = "panic"
        /\ run' = [run EXCEPT ![c] = Dead(c)]
        /\ queue' = [queue EXCEPT ![c] = @ \o Leases(c)]
        /\ stream' = [stream EXCEPT ![c] = <<>>] /\ UNCHANGED acked
  /\ UNCHANGED <<appVars, memVars, clientVars, done, failed, burst, faults>>

\* The process dies and starts again: its topics have what it had not acked,
\* its breakers and repositories are new.  The request-reply client is another
\* process.
Crash ==
  /\ Fault
  /\ queue' = [c \in Consumers |-> queue[c] \o Leases(c)]
  /\ stream' = [c \in Consumers |-> <<>>] /\ run' = [c \in Consumers |-> Idle(c)]
  /\ breaker' = [c \in Consumers |-> Closed] /\ seen' = {}
  /\ burst' = [c \in Consumers |-> 0]
  /\ UNCHANGED <<appVars, clientVars, done, failed, acked>>
=============================================================================
