--------------------------- MODULE MCApplication ---------------------------
(* Small applications for TLC: chains in the order the README recommends   *)
(* and in orders that make middlewares work against each other.            *)
EXTENDS Application

Reader(topic, via, chain, handler, to, lax) ==
  [topic |-> topic, via |-> via, chain |-> chain, handler |-> handler, to |-> to, lax |-> lax]

Plain(topic, chain, handler) == Reader(topic, "direct", chain, handler, "rest", FALSE)

App(producers, entry, ids, maxFaults, cons) ==
  [producers |-> producers, entry |-> entry, ids |-> ids, maxFaults |-> maxFaults,
   cons |-> [c \in Consumers |-> IF c \in DOMAIN cons THEN cons[c] ELSE Absent]]

\* A poison topic and a requeuer that takes its messages back.
Pipeline == App({"bus"}, "in", {1}, 3,
  [c1 |-> Reader("in", "direct", <<"Recoverer", "PoisonQueue", "Timeout", "Retry">>,
                   "user", "poison", FALSE),
   c2 |-> Reader("poison", "direct", <<>>, "requeuer", "in", FALSE)])

\* A poison topic nobody reads, with errors that are ignored.
Poison == App({"bus"}, "in", Ids, 3,
  [c1 |-> Plain("in", <<"Telemetry", "PoisonQueue", "IgnoreErrors", "Duplicator">>, "user")])

Breaker(outer) == App({"bus"}, "in", Ids, 3,
  [c1 |-> Plain("in", outer \o <<"CircuitBreaker", "Throttle">>, "user")])

Dedup(chain) == App({"bus"}, "in", Ids, 3, [c1 |-> Plain("in", chain, "user")])

Commands == App({"bus"}, "in", Ids, 3,
  [c1 |-> Reader("in", "direct", <<>>, "typed", "rest", TRUE)])

\* An event with two handlers behind the router's Deduplicator.
Events == App({"bus"}, "in", {1}, 3,
  [c1 |-> Reader("in", "direct", <<"RouterDeduplicator">>, "typed", "rest", TRUE),
   c2 |-> Reader("in", "direct", <<"RouterDeduplicator">>, "typed", "rest", FALSE)])

Outbox(lax) == App({"forwarder"}, "outbox", Ids, 2,
  [c1 |-> Reader("outbox", "direct", <<>>, "forwarder", "in", lax),
   c2 |-> Reader("in", "transform", <<"DelayOnError", "InstantAck">>, "user", "rest", FALSE)])

Funnel == App({"transform"}, "a", {1}, 3,
  [c1 |-> Reader("a", "direct", <<"RandomFail">>, "fanin", "in", FALSE),
   c2 |-> Reader("in", "direct", <<"CorrelationId", "UuidDeduplicator">>, "user", "rest", FALSE)])

Requests == App({"client"}, "requests", Ids, 2,
  [c1 |-> Reader("requests", "direct", <<>>, "responder", "replies", FALSE),
   c2 |-> Plain("replies", <<>>, "listen")])

Events10(maxFaults) == App({"encode", "transform"}, "in", Ids, maxFaults,
  [c1 |-> Reader("in", "cloudevents", <<>>, "user", "rest", FALSE)])

MCDeployments ==
  {Pipeline, Poison, Breaker(<<"Retry">>), Breaker(<<"Timeout">>),
   Dedup(<<"Deduplicator">>), Dedup(<<"Retry", "Deduplicator">>), Commands, Events,
   Outbox(TRUE), Outbox(FALSE), Funnel, Requests, Events10(3)}

CloudEvents == {Events10(0)}
=============================================================================
