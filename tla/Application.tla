---------------------------- MODULE Application ----------------------------
(* The application: publishers, consumers, clients, and what it promises.  *)
EXTENDS RequestReply

Publish(id) == \/ BusSend(id) \/ ForwarderPublish(id)
               \/ TransformPublish(id) \/ EncodePublish(id)

Decorate(c) == TransformNext(c) \/ DecodeNext(c)

Work(c) == Deliver(c) \/ Wrap(c) \/ Handle(c) \/ Settle(c)

Next ==
  \/ Crash \/ WindowEnds
  \/ \E c \in Consumers : \/ Work(c) \/ Decorate(c) \/ ListenerNext(c)
                     \/ TimeoutFires(c) \/ Tick(c)
  \/ \E r \in Ids : \/ Publish(r) \/ Await(r)
                    \/ RequestStart(r) \/ RequestFails(r) \/ RequestDropped(r)

Spec == Init /\ [][Next]_vars

(* Tasks run and timers end; nothing forces a failure or a publish, and a  *)
(* consumer that a panic has ended stays ended.                            *)
Fairness ==
  /\ \A c \in Consumers : /\ WF_vars(Work(c)) /\ WF_vars(Decorate(c))
                          /\ WF_vars(ListenerNext(c)) /\ WF_vars(Tick(c))
  /\ \A r \in Ids : WF_vars(Await(r))

FairSpec == Spec /\ Fairness

-----------------------------------------------------------------------------
(* What an application must be like for its messages to arrive.            *)

Relays == {"forwarder", "requeuer", "fanin", "listen"}
EndsOf(a) == {c \in Consumers : a.cons[c] # Absent /\ a.cons[c].handler \notin Relays}
CarriersOf(a) == {c \in Consumers : a.cons[c].handler \in Relays \ {"listen"}}

\* What is published for c comes to c, or to a relay of F that passes it on to c
\* or to another relay of F.  So does what they send to a poison topic, if
\* anybody reads that.
Feeds(a, F, c) ==
  /\ \E e \in F \cup {c} : a.cons[e].topic = a.entry
  /\ \A e \in F \cup {c} :
       \/ \E f \in F \cup {c} : a.cons[f].topic = a.cons[e].to
       \/ e = c /\ "PoisonQueue" \notin ToSet(a.cons[c].chain)
       \/ e = c /\ \A f \in Consumers : a.cons[f].topic # a.cons[e].to

\* The same keys are looked up once in a chain: a Deduplicator with keys of its
\* own, and the router's, stand there once each, and in no chain that relays.
Dedups == {"Deduplicator", "RouterDeduplicator"}
DedupsOnce(a) ==
  \A c \in Consumers : \A p, q \in DOMAIN a.cons[c].chain :
    a.cons[c].chain[p] \in Dedups =>
      c \in EndsOf(a) /\ (a.cons[c].chain[q] = a.cons[c].chain[p] => p = q)

ASSUME RoutingAssumption ==
  \A a \in Deployments :
    /\ \A c \in EndsOf(a) : \E F \in SUBSET CarriersOf(a) : Feeds(a, F, c)
    /\ DedupsOnce(a)

\* Between a CircuitBreaker and its handler there is nothing that calls again after
\* an error, makes an ack of one or acks by itself, nor what a Timeout outside can
\* interrupt with an error in hand.  Nor is there another breaker: breaker[c] is one.
Transparent == {"Throttle", "CorrelationId", "InstantAck", "Telemetry", "Timeout",
                "Recoverer", "RandomFail", "Duplicator", "UuidDeduplicator"}

ASSUME CircuitAssumption ==
  \A a \in Deployments, c \in Consumers : \A p, q \in DOMAIN a.cons[c].chain :
    a.cons[c].chain[p] = "CircuitBreaker" /\ p < q =>
      \/ a.cons[c].chain[q] \in Transparent
      \/ a.cons[c].chain[q] = "DelayOnError" /\ "Timeout" \notin ToSet(a.cons[c].chain)

-----------------------------------------------------------------------------
(* Properties.                                                             *)

Waiting(c, id) == id \in ToSet(queue[c]) \cup ToSet(stream[c])

InFlight(c, id) == run[c].task \in {"down", "up"} /\ run[c].id = id

ClientStates == {"idle", "publishing", "waiting", "expired", "answered",
                 "timedout", "failed", "dropped"}

\* Every variable has its type, a call in progress is at its place in the chain,
\* and a Retry has called at most Attempts times, a Duplicator twice, all others
\* once.
TypeOK ==
  /\ app \in Deployments /\ unsent \cup produced \subseteq Ids
  /\ queue \in [Consumers -> Seq(Ids)] /\ stream \in [Consumers -> Seq(Ids)]
  /\ \A c \in Consumers :
       /\ Len(stream[c]) <= BufferSize
       /\ run[c].task \in {"idle", "down", "up", "dead"} /\ run[c].result \in Results
       /\ run[c].depth \in 0..Len(Chain(c)) + 1
       /\ \A p \in DOMAIN Chain(c) : run[c].calls[p] \in
            0..(CASE Chain(c)[p] = "Retry" -> Attempts
                  [] Chain(c)[p] = "Duplicator" -> 2 [] OTHER -> 1)
       /\ breaker[c].failures \in 0..MaxFailures + 1
       /\ breaker[c].since \in {"recent", "elapsed", "negative"}
  /\ client \in [Ids -> ClientStates] /\ pending \cup answers \subseteq Ids
  /\ faults \in 0..app.maxFaults

Ends == EndsOf(app)

\* Consumer c has handled the message, or it is on its way there: in a topic, a
\* stream, a chain, a relay or a poison topic.
HandledOrComing(c, id) ==
  \E e \in {c} \cup (Consumers \ Ends) :
    id \in done[e] \/ Waiting(e, id) \/ InFlight(e, id)

\* A Deduplicator saw the message in a call that failed afterwards, or, when it
\* is the router's, in the chain of another handler.
TakenForDuplicate(c, id) ==
  \/ "Deduplicator" \in ToSet(Chain(c)) /\ id \in failed[c]
  \/ /\ "RouterDeduplicator" \in ToSet(Chain(c))
     /\ \E e \in Ends : id \in failed[e] \/ (e # c /\ HandledOrComing(e, id))

\* What was published is handled by every consumer meant for it, or is on its
\* way, whatever fails, times out, panics or crashes in between.  Only a
\* Deduplicator can ack what was never handled.
NothingLost ==
  \A id \in produced, c \in Ends : HandledOrComing(c, id) \/ TakenForDuplicate(c, id)

\* Behind a CircuitBreaker a handler fails at most MaxFailures times in a row
\* before it is left alone for reset_timeout, and once after each; only a clock
\* that is set back, or a crash, starts the count again.
NoStorm ==
  \A c \in Consumers : "CircuitBreaker" \in ToSet(Chain(c)) =>
    burst[c] <= IF breaker[c].since = "recent" THEN MaxFailures ELSE 1

\* A call of request() that has returned has left no waiter behind, and one that
\* waits has its waiter registered or its answer at hand.
WaitersMatch ==
  \A r \in Ids :
    /\ client[r] \in {"idle", "answered", "timedout", "failed"} => r \notin pending \cup answers
    /\ client[r] \in {"publishing", "waiting"} => r \in pending \cup answers

\* For ever unhandled: no destination, and the forwarder reports that as an error.
Undeliverable(c, id) ==
  app.cons[c].handler = "forwarder" /\ ~app.cons[c].lax /\ id \in Odd

Settled(c) ==
  \/ run[c].task = "dead" \/ app.cons[c].via = "cloudevents"
  \/ \A id \in Ids : ~Undeliverable(c, id) => ~Waiting(c, id) /\ ~InFlight(c, id)

\* In the end every consumer has acked all it was given, unless a panic ended it,
\* and every request() has returned: no retry, open breaker or message that is
\* nacked again and again keeps the others waiting.
EventuallySettled ==
  <>[](/\ \A c \in Consumers : Settled(c)
       /\ \A r \in Ids : ~Pending(r) \/ client[r] = "idle")

\* A message the router has acked is not delivered to that consumer again
\* (README.md: "Acking commits it").
AckCommits ==
  \A c \in Consumers : \A id \in acked[c] : ~Waiting(c, id)
=============================================================================
