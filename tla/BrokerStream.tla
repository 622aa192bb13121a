--------------------------- MODULE BrokerStream ---------------------------
(***************************************************************************)
(* What the subscribers of crates/strev-amqp, strev-nats, strev-kafka and  *)
(* the change streams of strev-mongodb share: a publisher, the task that   *)
(* receives from the server and sends into a bounded MessageStream, and    *)
(* the consumer of that stream.  One topic, one consumer group.  The       *)
(* modules that extend this one add each server and its verdicts.          *)
(*                                                                         *)
(* A message is its place in the order of publishing.                      *)
(***************************************************************************)
EXTENDS Integers, Sequences, FiniteSets, FiniteSetsExt, Functions

CONSTANTS
  Subs,        \* subscribe() calls of the group, each with its own task
  MaxId,       \* bound: messages published
  BufferSize,  \* MessageStream::channel(buffer_size)
  MaxHeld,     \* messages a consumer holds at once
  MaxFaults,   \* bound: nacks, errors, lost replies, drops, crashes, rebalances
  Droppable,   \* the subscriptions whose stream may be dropped
  Crashable    \* the subscriptions whose process may die

ASSUME BrokerAssumption ==
  /\ MaxId \in Nat /\ BufferSize \in Nat \ {0} /\ MaxHeld \in Nat \ {0}
  /\ MaxFaults \in Nat /\ Droppable \subseteq Subs /\ Crashable \subseteq Subs

Ids == 1..MaxId
Kinds == {"amqp", "jetstream", "core", "kafka", "changes"}

VARIABLES
  kind,      \* the backend in use
  next,      \* the last message handed to publish()
  batch,     \* the messages of the publish() call under way
  sending,   \* those it has not sent yet
  failed,    \* one of them was refused
  reported,  \* history: messages whose publish() returned Ok
  log,       \* messages the server has stored
  ready,     \* amqp, jetstream: those it may deliver
  out,       \* out[s]: those it has delivered to s and not settled
  mark,      \* kafka: the committed offset; changes: the resume token
  owner,     \* kafka: the subscription the partition is assigned to, if any
  task,      \* task[s]: off, recv, send, await, store, gone, dead
  position,  \* kafka, changes: position[s], the last message s received
  got,       \* got[s]: the message received and not handed over yet, if any
  buffer,    \* buffer[s]: the stream's bounded buffer
  held,      \* held[s]: how often the consumer holds each message
  verdicts,  \* verdicts[s]: <<message, disposition>> on their way to the server
  dropped,   \* the subscriptions whose stream was dropped
  handed,    \* history: messages sent into a stream
  done,      \* history: messages acked by a consumer
  skipped,   \* history: messages a change stream without a token started after
  late,      \* history: deliveries that ran out with a copy in flight
  refused,   \* history: a seek failed on a partition that was assigned
  faults     \* count, for MaxFaults

pubVars   == <<kind, next, batch, sending, failed, reported>>
logVars   == <<log, mark, owner>>
srvVars   == <<logVars, ready, out>>
taskVars  == <<task, position, got, handed>>
leaseVars == <<buffer, held, verdicts, dropped, done>>
histVars  == <<skipped, late, refused>>
faultVars == <<histVars, faults>>
vars == <<pubVars, srvVars, taskVars, leaseVars, faultVars>>

-----------------------------------------------------------------------------
Init ==
  /\ kind \in Kinds /\ next = 0
  /\ batch = {} /\ sending = {} /\ failed = FALSE /\ reported = {}
  /\ log = {} /\ ready = {} /\ out = [s \in Subs |-> {}]
  /\ mark = 0 /\ owner = {}
  /\ task = [s \in Subs |-> "off"] /\ position = [s \in Subs |-> 0]
  /\ got = [s \in Subs |-> {}] /\ buffer = [s \in Subs |-> <<>>]
  /\ held = [s \in Subs |-> [m \in Ids |-> 0]]
  /\ verdicts = [s \in Subs |-> {}] /\ dropped = {}
  /\ handed = {} /\ done = {} /\ skipped = {} /\ late = FALSE
  /\ refused = FALSE /\ faults = 0

\* Not a part of the code: one of the faults MaxFaults leaves room for.
Fault == faults < MaxFaults /\ faults' = faults + 1

Live(s) == task[s] \notin {"off", "gone", "dead"}

\* A copy of m on the way through s, its verdict included.
InFlight(s, m) ==
  \/ m \in got[s] \cup Range(buffer[s]) \/ held[s][m] > 0
  \/ \E d \in {"ack", "nack"} : <<m, d>> \in verdicts[s]

IsMin(m, S) == m \in S /\ \A k \in S : m <= k

-----------------------------------------------------------------------------
(* publish() sends every message before it awaits the first reply.         *)

PublishStart ==
  /\ batch = {}
  /\ \E n \in 1..(MaxId - next) :
       /\ next' = next + n
       /\ batch' = (next + 1)..(next + n)
  /\ sending' = batch'
  /\ UNCHANGED <<kind, failed, reported, srvVars, taskVars, leaseVars, faultVars>>

\* The next message is refused, at once or by a reply the call awaits later.
PublishErr ==
  /\ Fault
  /\ \E m \in sending : IsMin(m, sending) /\ sending' \in {{}, sending \ {m}}
  /\ failed' = TRUE
  /\ UNCHANGED <<kind, next, batch, reported, srvVars, taskVars, leaseVars, histVars>>

\* Ok acks the whole batch, an error nacks it, what the server stored included.
PublishEnd ==
  /\ batch # {} /\ sending = {}
  /\ reported' = IF failed THEN reported ELSE reported \cup batch
  /\ batch' = {} /\ failed' = FALSE
  /\ UNCHANGED <<kind, next, sending, srvVars, taskVars, leaseVars, faultVars>>

-----------------------------------------------------------------------------
(* The task of subscribe().                                                *)

\* Mutant: one message more than the stream's capacity.
HasRoomTooMuch(s) == Len(buffer[s]) <= BufferSize

HasRoom(s) == Len(buffer[s]) < BufferSize

\* tx.send(msg).await; what comes next is the backend's.
SendInto(s, state) ==
  /\ task[s] = "send" /\ s \notin dropped /\ HasRoom(s)
  /\ \E m \in got[s] : buffer' = [buffer EXCEPT ![s] = Append(@, m)]
  /\ task' = [task EXCEPT ![s] = state]
  /\ handed' = handed \cup got[s]
  /\ got' = [got EXCEPT ![s] = {}]
  /\ UNCHANGED <<position, held, verdicts, dropped, done>>

\* The stream is gone: closed() or a failed send ends the task, which drops the
\* message it has.
TaskEnd(s) ==
  /\ task[s] \in {"recv", "send"} /\ s \in dropped
  /\ task' = [task EXCEPT ![s] = "gone"]
  /\ got' = [got EXCEPT ![s] = {}]
  /\ UNCHANGED <<position, handed>>

\* The server has given m to s.
Receive(s, m) ==
  /\ got' = [got EXCEPT ![s] = {m}]
  /\ task' = [task EXCEPT ![s] = "send"]

\* The verdict tasks' next answer to the server.
Verdict(s, m, d) ==
  /\ <<m, d>> \in verdicts[s]
  /\ verdicts' = [verdicts EXCEPT ![s] = @ \ {<<m, d>>}]

-----------------------------------------------------------------------------
(* The consumer.                                                           *)

\* Leased: dropping a message is a verdict.  The others are plain copies.
Leased == kind \in {"amqp", "jetstream", "kafka"}

Take(s) ==
  /\ s \notin dropped /\ buffer[s] # <<>>
  /\ Cardinality({m \in Ids : held[s][m] > 0}) < MaxHeld
  /\ held' = [held EXCEPT ![s][Head(buffer[s])] = @ + 1]
  /\ buffer' = [buffer EXCEPT ![s] = Tail(@)]
  /\ UNCHANGED <<pubVars, srvVars, taskVars, verdicts, dropped, done, faultVars>>

Answer(s, m, d) ==
  verdicts' = [verdicts EXCEPT ![s] = IF Leased THEN @ \cup {<<m, d>>} ELSE @]

Ack(s, m) ==
  /\ held[s][m] > 0
  /\ held' = [held EXCEPT ![s][m] = @ - 1]
  /\ done' = done \cup {m}
  /\ Answer(s, m, "ack")
  /\ UNCHANGED <<pubVars, srvVars, taskVars, buffer, dropped, faultVars>>

\* A nack, or a message dropped without a verdict.
Nack(s, m) ==
  /\ held[s][m] > 0 /\ Fault
  /\ held' = [held EXCEPT ![s][m] = @ - 1]
  /\ Answer(s, m, "nack")
  /\ UNCHANGED <<pubVars, srvVars, taskVars, buffer, dropped, done, histVars>>

DropStream(s) ==
  /\ s \in Droppable \ dropped /\ Live(s) /\ Fault
  /\ dropped' = dropped \cup {s}
  /\ verdicts' = [verdicts EXCEPT ![s] =
                   IF Leased THEN @ \cup (Range(buffer[s]) \X {"nack"}) ELSE @]
  /\ buffer' = [buffer EXCEPT ![s] = <<>>]
  /\ UNCHANGED <<pubVars, srvVars, taskVars, held, done, histVars>>

\* The process of s dies; what the server makes of it is the backend's.
Die(s) ==
  /\ s \in Crashable /\ Live(s) /\ Fault
  /\ task' = [task EXCEPT ![s] = "dead"]
  /\ got' = [got EXCEPT ![s] = {}]
  /\ buffer' = [buffer EXCEPT ![s] = <<>>]
  /\ held' = [held EXCEPT ![s] = [m \in Ids |-> 0]]
  /\ verdicts' = [verdicts EXCEPT ![s] = {}]
  /\ UNCHANGED <<pubVars, position, handed, dropped, done, histVars>>
=============================================================================
