------------------------------- MODULE Amqp -------------------------------
(* crates/strev-amqp: a fanout exchange and one durable queue per group.   *)
EXTENDS BrokerStream

CONSTANT Prefetch  \* AmqpSubscriberConfig::prefetch

ASSUME PrefetchAssumption == Prefetch \in Nat \ {0}

\* The queue exists once a subscriber has declared and bound it.
Bound == \E s \in Subs : task[s] # "off"

\* basic_publish.  The channel is not in confirm mode, so nobody notices that a
\* message did not arrive; the exchange drops what no queue is bound for.
AmqpPublish(m) ==
  /\ kind = "amqp" /\ IsMin(m, sending)
  /\ sending' = sending \ {m}
  /\ \/ /\ log' = IF Bound THEN log \cup {m} ELSE log
        /\ ready' = IF Bound THEN ready \cup {m} ELSE ready
        /\ UNCHANGED faults
     \/ Fault /\ UNCHANGED <<log, ready>>
  /\ UNCHANGED <<kind, next, batch, failed, reported, out, mark, owner, taskVars,
                 leaseVars, histVars>>

\* Mutant: a broker that forgets what was unacked.
RequeueNothing(s) == out' = [out EXCEPT ![s] = {}] /\ UNCHANGED ready

\* The end of a channel: the broker requeues what is unacked on it.
Requeue(s) ==
  /\ ready' = ready \cup out[s]
  /\ out' = [out EXCEPT ![s] = {}]

AmqpSubscribe(s) ==
  /\ kind = "amqp" /\ task[s] = "off"
  /\ task' = [task EXCEPT ![s] = "recv"]
  /\ UNCHANGED <<pubVars, srvVars, position, got, handed, leaseVars, faultVars>>

AmqpReceive(s, m) ==
  /\ kind = "amqp" /\ task[s] = "recv" /\ s \notin dropped
  /\ IsMin(m, ready) /\ Cardinality(out[s]) < Prefetch
  /\ ready' = ready \ {m}
  /\ out' = [out EXCEPT ![s] = @ \cup {m}]
  /\ Receive(s, m)
  /\ UNCHANGED <<pubVars, logVars, position, handed, leaseVars, faultVars>>

AmqpSend(s) ==
  /\ kind = "amqp" /\ SendInto(s, "recv")
  /\ UNCHANGED <<pubVars, srvVars, faultVars>>

AmqpEnd(s) ==
  /\ kind = "amqp" /\ TaskEnd(s) /\ Requeue(s)
  /\ UNCHANGED <<pubVars, logVars, leaseVars, faultVars>>

\* The connection is lost: next() yields None, and the consumer's stream ends
\* behind what is buffered.
AmqpLost(s) ==
  /\ kind = "amqp" /\ task[s] = "recv" /\ s \in Droppable /\ Fault
  /\ task' = [task EXCEPT ![s] = "gone"]
  /\ Requeue(s)
  /\ UNCHANGED <<pubVars, logVars, position, got, handed, leaseVars, histVars>>

AmqpCrash(s) ==
  /\ kind = "amqp" /\ Die(s) /\ Requeue(s) /\ UNCHANGED logVars

\* The verdict task: ack, or nack with requeue.  On a closed channel either is
\* an error, which is ignored.
AmqpVerdict(s, m, d) ==
  /\ kind = "amqp" /\ Verdict(s, m, d)
  /\ out' = [out EXCEPT ![s] = @ \ {m}]
  /\ ready' = IF d = "nack" /\ m \in out[s] THEN ready \cup {m} ELSE ready
  /\ UNCHANGED <<pubVars, logVars, taskVars, buffer, held, dropped, done, faultVars>>

\* lag(): message_count of the queue, without what is unacked.
AmqpLag == ready

AmqpTask(s) == \/ \E m \in Ids : AmqpReceive(s, m)
               \/ AmqpSend(s) \/ AmqpEnd(s)
=============================================================================
