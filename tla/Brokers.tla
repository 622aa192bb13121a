------------------------------ MODULE Brokers ------------------------------
(* The backends whose server keeps the messages, one of them at a time.    *)
EXTENDS Amqp, NatsStream, NatsCore, Kafka, ChangeStream

Send(m) == \/ AmqpPublish(m) \/ StreamPublish(m) \/ CorePublish(m)
           \/ KafkaPublish(m) \/ InsertChange(m)

Subscribe(s) == \/ AmqpSubscribe(s) \/ StreamSubscribe(s) \/ CoreSubscribe(s)
                \/ KafkaSubscribe(s) \/ Watch(s)

Task(s) == \/ AmqpTask(s) \/ StreamTask(s) \/ CoreTask(s)
           \/ KafkaTask(s) \/ ChangeTask(s)

Crash(s) == \/ AmqpCrash(s) \/ StreamCrash(s) \/ CoreCrash(s)
            \/ KafkaCrash(s) \/ ChangeCrash(s)

Lost(s) == AmqpLost(s) \/ StreamLost(s) \/ CoreLost(s) \/ ChangeErr(s)

Settled(s) == \E m \in Ids, d \in {"ack", "nack"} :
                AmqpVerdict(s, m, d) \/ StreamVerdict(s, m, d)

Next == \/ PublishStart \/ PublishErr \/ PublishEnd
        \/ \E m \in Ids : Send(m)
        \/ \E s \in Subs :
             \/ Subscribe(s) \/ Task(s) \/ Settled(s) \/ Crash(s) \/ Lost(s)
             \/ Take(s) \/ DropStream(s)
             \/ \E m \in Ids : Ack(s, m) \/ Nack(s, m) \/ AckWait(s, m)

Spec == Init /\ [][Next]_vars

(* Tasks and verdict tasks run, the consumer takes and settles, ack_wait   *)
(* ends for what nobody has any more.  Nothing forces a fault, a publish() *)
(* or a subscribe().                                                       *)
Fairness ==
  \A s \in Subs :
    /\ WF_vars(Task(s)) /\ WF_vars(Settled(s)) /\ WF_vars(Take(s))
    /\ WF_vars(\E m \in Ids : Ack(s, m))
    /\ WF_vars(\E m \in Ids : ~InFlight(s, m) /\ AckWait(s, m))

FairSpec == Spec /\ Fairness

-----------------------------------------------------------------------------
(* Properties.                                                             *)

ServerTypeOK ==
  /\ kind \in Kinds /\ next \in 0..MaxId /\ failed \in BOOLEAN
  /\ sending \subseteq batch /\ batch \subseteq Ids /\ reported \subseteq Ids
  /\ log \subseteq Ids /\ ready \subseteq Ids /\ out \in [Subs -> SUBSET Ids]
  /\ mark \in 0..MaxId /\ owner \subseteq Subs /\ Cardinality(owner) <= 1

TaskTypeOK ==
  /\ task \in [Subs -> {"off", "recv", "send", "await", "store", "gone", "dead"}]
  /\ position \in [Subs -> 0..MaxId] /\ got \in [Subs -> SUBSET Ids]
  /\ held \in [Subs -> [Ids -> Nat]] /\ buffer \in [Subs -> Seq(Ids)]
  /\ verdicts \in [Subs -> SUBSET (Ids \X {"ack", "nack"})]
  /\ dropped \subseteq Subs /\ handed \subseteq Ids /\ done \subseteq Ids
  /\ skipped \subseteq Ids /\ late \in BOOLEAN /\ refused \in BOOLEAN
  /\ faults \in 0..MaxFaults

\* Every variable has its type; neither a stream nor, with AMQP, a channel has
\* more messages than its limit.
TypeOK ==
  /\ ServerTypeOK /\ TaskTypeOK
  /\ \A s \in Subs : /\ Len(buffer[s]) <= BufferSize
                     /\ kind = "amqp" => Cardinality(out[s]) <= Prefetch

\* The server will deliver m, for the first time or again.
Deliverable(m) ==
  CASE kind = "amqp"      -> m \in AmqpLag \cup UNION {out[s] : s \in Subs}
    [] kind = "jetstream" -> m \in StreamLag
    [] kind = "kafka"     -> m \in KafkaLag \/ refused
    [] OTHER              -> m > mark \/ m \in handed \cup skipped

\* Whatever commits, acks and naks are lost and whoever has the partition: what
\* JetStream or Kafka stored or publish() reported there is acked by a consumer, or
\* counted in the lag and will be delivered, of Kafka only until a seek is refused;
\* for AMQP this is said of what the queue has stored, not of what publish()
\* reported.  A change stream promises no more than that the token never passes
\* an event that was not handed over, unless a subscription found no token and
\* started behind it.  Core NATS, which forgets, promises nothing.
NoLoss ==
  kind # "core" =>
    \A m \in log \cup (IF kind = "amqp" THEN {} ELSE reported) :
      m \in done \/ Deliverable(m)

\* A message on its way through a consumer of the partition means that every
\* earlier one was acked: a nack holds the partition up, and neither a rebalance
\* nor a lost commit lets a later message overtake it.
PartitionOrder ==
  kind = "kafka" /\ ~refused =>
    \A s \in Subs, m \in Ids : InFlight(s, m) => \A k \in log : k < m => k \in done

\* Unless a stream was dropped, a process died, a partition was taken away or
\* ack_wait ran out, no two consumers of the group have the same message; with
\* core NATS no message is handed over twice at all.
ExclusiveDelivery ==
  /\ kind \in {"amqp", "jetstream"} /\ ~late =>
       \A s, t \in Subs, m \in Ids :
         InFlight(s, m) /\ InFlight(t, m) => s = t \/ {task[s], task[t]} \cap {"gone"} # {}
                                                  \/ dropped \cap {s, t} # {}
  /\ kind = "core" =>
       \A s \in Subs : (out[s] \cup got[s]) \cap handed = {}

Served == \E s \in Subs : Live(s) /\ s \notin dropped

\* With a lease, everything stored is acked in the end as long as one
\* subscription is left, whatever became of the others.
EventuallyDone ==
  []<>(Leased /\ Served /\ ~refused => log \subseteq done)
=============================================================================
