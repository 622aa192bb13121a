--------------------------- MODULE Brokers_proofs ---------------------------
(***************************************************************************)
(* What holds of Brokers for any subscriptions, messages, limits and       *)
(* faults, and for each of its backends: the types and limits; that what   *)
(* was published is acked or will be delivered; that Kafka hands over the  *)
(* messages of a partition in their order; that consumers of a queue do    *)
(* not share a message, and core NATS delivers once at most.               *)
(***************************************************************************)
EXTENDS Brokers, SequenceTheorems, FiniteSetTheorems, WellFoundedInduction,
        TLAPS

-----------------------------------------------------------------------------
(* What Append adds to a queue, and Head and Tail take apart, and what     *)
(* stays without repetitions.                                              *)

LEMMA AppendFacts ==
  ASSUME NEW S, NEW q \in Seq(S), NEW e \in S
  PROVE  /\ Append(q, e) \in Seq(S) /\ Len(Append(q, e)) = Len(q) + 1
         /\ Range(Append(q, e)) = Range(q) \cup {e}
BY AppendProperties, LenProperties DEF Range

LEMMA TailFacts ==
  ASSUME NEW S, NEW q \in Seq(S), q # <<>>
  PROVE  /\ Head(q) \in S /\ Tail(q) \in Seq(S) /\ Len(Tail(q)) = Len(q) - 1
         /\ Range(q) = {Head(q)} \cup Range(Tail(q))
<1>1. \A i \in DOMAIN q : i = 1 \/ (i - 1 \in DOMAIN Tail(q) /\ Tail(q)[i - 1] = q[i])
  OBVIOUS
<1>2. /\ 1 \in DOMAIN q /\ Head(q) = q[1]
      /\ \A i \in DOMAIN Tail(q) : i + 1 \in DOMAIN q /\ Tail(q)[i] = q[i + 1]
  OBVIOUS
<1>. QED
  BY <1>1, <1>2, HeadTailProperties DEF Range

LEMMA EmptyFacts == Range(<<>>) = {} /\ Len(<<>>) = 0 /\ \A S : <<>> \in Seq(S)
BY DEF Range

Distinct(q) == \A i, j \in DOMAIN q : q[i] = q[j] => i = j

LEMMA AppendDistinct ==
  ASSUME NEW S, NEW q \in Seq(S), NEW e \in S, Distinct(q), e \notin Range(q)
  PROVE  Distinct(Append(q, e))
BY DEF Distinct, Range

LEMMA TailDistinct ==
  ASSUME NEW S, NEW q \in Seq(S), q # <<>>, Distinct(q)
  PROVE  Distinct(Tail(q)) /\ Head(q) \notin Range(Tail(q))
BY DEF Distinct, Range

LEMMA EmptyDistinct == Distinct(<<>>)
BY DEF Distinct

-----------------------------------------------------------------------------
(* Type correctness, one group of variables at a time.                     *)

PubOK == /\ kind \in Kinds /\ next \in 0..MaxId /\ failed \in BOOLEAN
         /\ batch \subseteq Ids /\ sending \subseteq batch /\ reported \subseteq Ids

LogOK == log \subseteq Ids /\ mark \in 0..MaxId /\ owner \subseteq Subs /\ Cardinality(owner) <= 1

QueueOK == /\ ready \subseteq Ids /\ out \in [Subs -> SUBSET Ids]
           /\ kind = "amqp" => \A s \in Subs : Cardinality(out[s]) <= Prefetch

TaskOK ==
  /\ task \in [Subs -> {"off", "recv", "send", "await", "store", "gone", "dead"}]
  /\ position \in [Subs -> 0..MaxId] /\ got \in [Subs -> SUBSET Ids] /\ handed \subseteq Ids

StreamOK == buffer \in [Subs -> Seq(Ids)] /\ \A s \in Subs : Len(buffer[s]) <= BufferSize

HeldOK == /\ held \in [Subs -> [Ids -> Nat]] /\ dropped \subseteq Subs /\ done \subseteq Ids
          /\ verdicts \in [Subs -> SUBSET (Ids \X {"ack", "nack"})]

HistOK == /\ skipped \subseteq Ids /\ late \in BOOLEAN /\ refused \in BOOLEAN
          /\ faults \in 0..MaxFaults

LEMMA TypeParts ==
  /\ TypeOK <=> PubOK /\ LogOK /\ QueueOK /\ TaskOK /\ StreamOK /\ HeldOK /\ HistOK
  /\ TypeOK' <=> PubOK' /\ LogOK' /\ QueueOK' /\ TaskOK' /\ StreamOK' /\ HeldOK' /\ HistOK'
BY DEF TypeOK, ServerTypeOK, TaskTypeOK, PubOK, LogOK, QueueOK, TaskOK, StreamOK, HeldOK, HistOK

\* A group keeps its type while its variables do not change.
LEMMA TypeFrame ==
  ASSUME TypeOK
  PROVE  /\ UNCHANGED pubVars => PubOK'
         /\ UNCHANGED logVars => LogOK'
         /\ UNCHANGED <<kind, ready, out>> => QueueOK'
         /\ UNCHANGED taskVars => TaskOK'
         /\ UNCHANGED buffer => StreamOK'
         /\ UNCHANGED <<held, dropped, done, verdicts>> => HeldOK'
         /\ UNCHANGED faultVars => HistOK'
BY TypeParts DEF PubOK, LogOK, QueueOK, TaskOK, StreamOK, HeldOK, HistOK, pubVars, logVars,
     taskVars, faultVars, histVars

\* A set of messages is finite.
LEMMA IdsFinite == \A S \in SUBSET Ids : IsFiniteSet(S) /\ Cardinality(S) \in Nat
<1>1. IsFiniteSet(Ids)
  BY FS_Interval, BrokerAssumption DEF Ids
<1>. QED
  BY <1>1, FS_Subset, FS_CardinalityType

\* A fault is one of those MaxFaults allows.
LEMMA FaultType ==
  ASSUME TypeOK, Fault, UNCHANGED skipped, late' \in BOOLEAN, refused' \in BOOLEAN
  PROVE  HistOK'
BY TypeParts, BrokerAssumption DEF HistOK, Fault

\* The publisher.
LEMMA PublishType ==
  ASSUME TypeOK, PublishStart \/ PublishErr \/ PublishEnd
  PROVE  TypeOK'
<1>1. CASE PublishStart
  <2>1. PubOK'
    BY <1>1, TypeParts, BrokerAssumption DEF PublishStart, PubOK, Ids
  <2>. QED
    BY <1>1, <2>1, TypeFrame, TypeParts DEF PublishStart, srvVars, leaseVars
<1>2. CASE PublishErr
  <2>1. PubOK'
    BY <1>2, TypeParts DEF PublishErr, PubOK
  <2>. QED
    BY <1>2, <2>1, TypeFrame, TypeParts, FaultType DEF PublishErr, srvVars, leaseVars,
       histVars, HistOK
<1>3. CASE PublishEnd
  <2>1. PubOK'
    BY <1>3, TypeParts DEF PublishEnd, PubOK
  <2>. QED
    BY <1>3, <2>1, TypeFrame, TypeParts DEF PublishEnd, srvVars, leaseVars
<1>. QED
  BY <1>1, <1>2, <1>3

\* A message sent.
LEMMA SendType ==
  ASSUME TypeOK, NEW m \in Ids, Send(m)
  PROVE  TypeOK'
<1>1. PubOK' /\ TaskOK' /\ StreamOK' /\ HeldOK' /\ HistOK'
  <2>1. /\ sending' = sending \ {m} /\ UNCHANGED <<kind, next, batch, failed, reported>>
        /\ UNCHANGED <<taskVars, leaseVars, histVars>>
        /\ UNCHANGED faults \/ Fault
    BY DEF Send, AmqpPublish, StreamPublish, CorePublish, KafkaPublish, InsertChange, faultVars
  <2>2. PubOK'
    BY <2>1, TypeParts DEF PubOK
  <2>3. HistOK'
    BY <2>1, TypeParts, TypeFrame, FaultType DEF HistOK, histVars, faultVars
  <2>. QED
    BY <2>1, <2>2, <2>3, TypeFrame DEF leaseVars
<1>2. LogOK'
  BY TypeParts DEF LogOK, Send, AmqpPublish, StreamPublish, CorePublish, KafkaPublish,
     InsertChange, logVars
<1>3. QueueOK'
  BY TypeParts DEF QueueOK, Send, AmqpPublish, StreamPublish, CorePublish, KafkaPublish,
     InsertChange
<1>. QED
  BY <1>1, <1>2, <1>3, TypeParts

\* What a task does with the message it has.
LEMMA HandOverType ==
  ASSUME TypeOK, NEW s \in Subs, NEW state \in {"recv", "await", "store"}, SendInto(s, state),
         UNCHANGED <<pubVars, srvVars, faultVars>>
  PROVE  TypeOK'
<1>1. PICK m \in got[s] : buffer' = [buffer EXCEPT ![s] = Append(@, m)]
  BY DEF SendInto
<1>2. PICK q \in Seq(Ids) : q = buffer[s] /\ Len(q) < BufferSize
  BY TypeParts DEF StreamOK, SendInto, HasRoom
<1>3. PICK r \in Seq(Ids) : r = Append(q, m) /\ Len(r) = Len(q) + 1
  BY <1>2, AppendFacts, TypeParts DEF TaskOK
<1>4. StreamOK'
  BY <1>1, <1>2, <1>3, TypeParts, BrokerAssumption DEF StreamOK
<1>5. TaskOK'
  BY TypeParts DEF TaskOK, SendInto
<1>. QED
  BY <1>4, <1>5, TypeFrame, TypeParts DEF SendInto, pubVars, srvVars

LEMMA TaskEndType ==
  ASSUME TypeOK, NEW s \in Subs, TaskEnd(s)
  PROVE  TaskOK'
BY TypeParts DEF TaskOK, TaskEnd

LEMMA ReceiveType ==
  ASSUME TypeOK, NEW s \in Subs, NEW m \in Ids, Receive(s, m), UNCHANGED handed,
         UNCHANGED position \/ position' = [position EXCEPT ![s] = m]
  PROVE  TaskOK'
<1>1. m \in 0..MaxId
  BY BrokerAssumption DEF Ids
<1>. QED
  BY <1>1, TypeParts DEF TaskOK, Receive

\* A subscription whose task starts or ends.
LEMMA StateType ==
  ASSUME TypeOK, NEW s \in Subs,
         task' = [task EXCEPT ![s] = "recv"] \/ task' = [task EXCEPT ![s] = "gone"],
         UNCHANGED <<position, got, handed>>
  PROVE  TaskOK'
BY TypeParts DEF TaskOK

LEMMA DieType ==
  ASSUME TypeOK, NEW s \in Subs, Die(s)
  PROVE  PubOK' /\ TaskOK' /\ StreamOK' /\ HeldOK' /\ HistOK'
<1>1. PubOK' /\ HistOK'
  BY TypeFrame, TypeParts, FaultType DEF Die, HistOK, histVars
<1>2. TaskOK'
  BY TypeParts DEF TaskOK, Die
<1>3. StreamOK'
  BY TypeParts, EmptyFacts, BrokerAssumption DEF StreamOK, Die
<1>4. HeldOK'
  BY TypeParts DEF HeldOK, Die
<1>. QED
  BY <1>1, <1>2, <1>3, <1>4

LEMMA VerdictType ==
  ASSUME TypeOK, NEW s \in Subs, NEW m \in Ids, NEW d \in {"ack", "nack"}, Verdict(s, m, d),
         UNCHANGED <<held, dropped, done>>
  PROVE  HeldOK'
BY TypeParts DEF HeldOK, Verdict

\* Neither what a channel that ends leaves nor what is answered exceeds the limit.
LEMMA RequeueType ==
  ASSUME TypeOK, NEW s \in Subs, Requeue(s), UNCHANGED kind
  PROVE  QueueOK'
<1>1. Cardinality({}) <= Prefetch
  BY FS_EmptySet, PrefetchAssumption
<1>. QED
  BY <1>1, TypeParts DEF QueueOK, Requeue

LEMMA SettleType ==
  ASSUME TypeOK, NEW s \in Subs, NEW m \in Ids, out' = [out EXCEPT ![s] = @ \ {m}],
         ready' \in {ready, ready \cup {m}}, UNCHANGED kind
  PROVE  QueueOK'
<1>1. Cardinality(out[s] \ {m}) <= Prefetch \/ kind # "amqp"
  <2>1. out[s] \in SUBSET Ids /\ IsFiniteSet(out[s]) /\ Cardinality(out[s]) \in Nat
    BY IdsFinite, TypeParts DEF QueueOK
  <2>2. Cardinality(out[s] \ {m}) <= Cardinality(out[s]) /\ Cardinality(out[s] \ {m}) \in Nat
    BY <2>1, FS_RemoveElement, IdsFinite
  <2>. QED
    BY <2>1, <2>2, TypeParts, PrefetchAssumption DEF QueueOK
<1>. QED
  BY <1>1, TypeParts DEF QueueOK

LEMMA AmqpType ==
  ASSUME TypeOK, NEW s \in Subs,
         \/ AmqpSubscribe(s) \/ AmqpTask(s) \/ AmqpCrash(s) \/ AmqpLost(s)
         \/ \E m \in Ids, d \in {"ack", "nack"} : AmqpVerdict(s, m, d)
  PROVE  TypeOK'
<1>1. CASE AmqpSubscribe(s)
  BY <1>1, StateType, TypeFrame, TypeParts DEF AmqpSubscribe, pubVars, srvVars, leaseVars
<1>2. ASSUME NEW n \in Ids, AmqpReceive(s, n) PROVE TypeOK'
  <2>1. Cardinality(out[s] \cup {n}) <= Prefetch
    <3>1. out[s] \in SUBSET Ids /\ IsFiniteSet(out[s]) /\ Cardinality(out[s]) \in Nat
      BY IdsFinite, TypeParts DEF QueueOK
    <3>2. Cardinality(out[s] \cup {n})
            = IF n \in out[s] THEN Cardinality(out[s]) ELSE Cardinality(out[s]) + 1
      BY <3>1, FS_AddElement
    <3>. QED
      BY <1>2, <3>1, <3>2, PrefetchAssumption DEF AmqpReceive
  <2>2. QueueOK'
    BY <1>2, <2>1, TypeParts DEF AmqpReceive, QueueOK, pubVars
  <2>. QED
    BY <1>2, <2>2, ReceiveType, TypeFrame, TypeParts DEF AmqpReceive, leaseVars
<1>3. CASE AmqpSend(s)
  BY <1>3, HandOverType DEF AmqpSend
<1>4. CASE AmqpEnd(s)
  BY <1>4, TaskEndType, RequeueType, TypeFrame, TypeParts DEF AmqpEnd, leaseVars, pubVars
<1>5. CASE AmqpCrash(s)
  BY <1>5, DieType, RequeueType, TypeFrame, TypeParts DEF AmqpCrash, Die, pubVars
<1>6. CASE AmqpLost(s)
  <2>1. QueueOK' /\ TaskOK'
    BY <1>6, StateType, RequeueType DEF AmqpLost, pubVars
  <2>2. HistOK'
    BY <1>6, FaultType, TypeParts DEF AmqpLost, histVars, HistOK
  <2>. QED
    BY <1>6, <2>1, <2>2, TypeFrame, TypeParts DEF AmqpLost, leaseVars
<1>7. ASSUME NEW m \in Ids, NEW d \in {"ack", "nack"}, AmqpVerdict(s, m, d) PROVE TypeOK'
  <2>1. QueueOK' /\ HeldOK'
    BY <1>7, SettleType, VerdictType DEF AmqpVerdict, pubVars
  <2>. QED
    BY <1>7, <2>1, TypeFrame, TypeParts DEF AmqpVerdict
<1>. QED
  BY <1>1, <1>2, <1>3, <1>4, <1>5, <1>6, <1>7 DEF AmqpTask

LEMMA StreamType ==
  ASSUME TypeOK, NEW s \in Subs,
         \/ StreamSubscribe(s) \/ StreamTask(s) \/ StreamCrash(s) \/ StreamLost(s)
         \/ \E m \in Ids, d \in {"ack", "nack"} : StreamVerdict(s, m, d)
         \/ \E m \in Ids : AckWait(s, m)
  PROVE  TypeOK'
<1>1. CASE StreamSubscribe(s)
  BY <1>1, StateType, TypeFrame, TypeParts DEF StreamSubscribe, pubVars, srvVars, leaseVars
<1>2. ASSUME NEW n \in Ids, StreamReceive(s, n) PROVE TypeOK'
  <2>1. QueueOK'
    BY <1>2, TypeParts DEF StreamReceive, QueueOK, pubVars
  <2>. QED
    BY <1>2, <2>1, ReceiveType, TypeFrame, TypeParts DEF StreamReceive, leaseVars
<1>3. CASE StreamSend(s)
  BY <1>3, HandOverType DEF StreamSend
<1>4. CASE StreamEnd(s)
  BY <1>4, TaskEndType, TypeFrame, TypeParts DEF StreamEnd, leaseVars, pubVars, srvVars
<1>5. CASE StreamCrash(s)
  BY <1>5, DieType, TypeFrame, TypeParts DEF StreamCrash, Die, pubVars, srvVars
<1>6. CASE StreamLost(s)
  <2>1. HistOK'
    BY <1>6, FaultType, TypeParts DEF StreamLost, histVars, HistOK
  <2>. QED
    BY <1>6, <2>1, StateType, TypeFrame, TypeParts DEF StreamLost, leaseVars, pubVars, srvVars
<1>7. ASSUME NEW m \in Ids, NEW d \in {"ack", "nack"}, StreamVerdict(s, m, d) PROVE TypeOK'
  <2>1. HeldOK'
    BY <1>7, VerdictType DEF StreamVerdict
  <2>2. QueueOK'
    BY <1>7, TypeParts DEF StreamVerdict, QueueOK, pubVars
  <2>3. HistOK'
    BY <1>7, TypeParts, TypeFrame, FaultType DEF StreamVerdict, HistOK, histVars, faultVars
  <2>. QED
    BY <1>7, <2>1, <2>2, <2>3, TypeFrame, TypeParts DEF StreamVerdict
<1>8. ASSUME NEW m \in Ids, AckWait(s, m) PROVE TypeOK'
  <2>1. QueueOK'
    BY <1>8, TypeParts DEF AckWait, QueueOK, pubVars
  <2>2. HistOK'
    BY <1>8, TypeParts, FaultType DEF AckWait, HistOK
  <2>. QED
    BY <1>8, <2>1, <2>2, TypeFrame, TypeParts DEF AckWait, leaseVars
<1>. QED
  BY <1>1, <1>2, <1>3, <1>4, <1>5, <1>6, <1>7, <1>8 DEF StreamTask

LEMMA CoreType ==
  ASSUME TypeOK, NEW s \in Subs,
         CoreSubscribe(s) \/ CoreTask(s) \/ CoreCrash(s) \/ CoreLost(s)
  PROVE  TypeOK'
<1>1. CASE CoreSubscribe(s)
  BY <1>1, StateType, TypeFrame, TypeParts DEF CoreSubscribe, pubVars, srvVars, leaseVars
<1>2. ASSUME NEW n \in Ids, CoreReceive(s, n) PROVE TypeOK'
  <2>1. QueueOK'
    BY <1>2, TypeParts DEF CoreReceive, QueueOK, pubVars
  <2>. QED
    BY <1>2, <2>1, ReceiveType, TypeFrame, TypeParts DEF CoreReceive, leaseVars
<1>3. CASE CoreSend(s)
  BY <1>3, HandOverType DEF CoreSend
<1>4. kind = "core" /\ UNCHANGED kind /\ Unsubscribed(s) => QueueOK'
  BY TypeParts DEF QueueOK, Unsubscribed
<1>5. CASE CoreEnd(s)
  BY <1>4, <1>5, TaskEndType, TypeFrame, TypeParts DEF CoreEnd, leaseVars, pubVars, Unsubscribed
<1>6. CASE CoreCrash(s)
  BY <1>4, <1>6, DieType, TypeFrame, TypeParts DEF CoreCrash, Die, pubVars, Unsubscribed
<1>7. CASE CoreLost(s)
  <2>1. HistOK'
    BY <1>7, FaultType, TypeParts DEF CoreLost, histVars, HistOK
  <2>. QED
    BY <1>4, <1>7, <2>1, StateType, TypeFrame, TypeParts
       DEF CoreLost, leaseVars, pubVars, Unsubscribed
<1>. QED
  BY <1>1, <1>2, <1>3, <1>5, <1>6, <1>7 DEF CoreTask

LEMMA KafkaType ==
  ASSUME TypeOK, NEW s \in Subs, KafkaSubscribe(s) \/ KafkaTask(s) \/ KafkaCrash(s)
  PROVE  TypeOK'
<1>1. CASE KafkaSubscribe(s)
  BY <1>1, StateType, TypeFrame, TypeParts DEF KafkaSubscribe, pubVars, srvVars, leaseVars
<1>2. ASSUME NEW n \in Ids, KafkaReceive(s, n) PROVE TypeOK'
  BY <1>2, ReceiveType, TypeFrame, TypeParts DEF KafkaReceive, leaseVars, pubVars, srvVars
<1>3. CASE KafkaSend(s)
  BY <1>3, HandOverType DEF KafkaSend
<1>4. CASE KafkaEnd(s)
  BY <1>4, TaskEndType, TypeFrame, TypeParts DEF KafkaEnd, leaseVars, pubVars, srvVars
<1>5. CASE KafkaCrash(s)
  BY <1>5, DieType, TypeFrame, TypeParts DEF KafkaCrash, Die, pubVars, srvVars
<1>6. ASSUME NEW n \in Ids, Commit(s, n) PROVE TypeOK'
  <2>1. HeldOK'
    BY <1>6, VerdictType DEF Commit
  <2>2. TaskOK' /\ LogOK'
    BY <1>6, TypeParts, BrokerAssumption DEF Commit, TaskOK, LogOK, Ids
  <2>3. HistOK'
    BY <1>6, TypeParts, TypeFrame, FaultType DEF Commit, HistOK, histVars, faultVars
  <2>. QED
    BY <1>6, <2>1, <2>2, <2>3, TypeFrame, TypeParts DEF Commit, pubVars
<1>7. ASSUME NEW n \in Ids, Seek(s, n) PROVE TypeOK'
  <2>1. HeldOK'
    BY <1>7, VerdictType DEF Seek
  <2>2. n - 1 \in 0..MaxId
    BY BrokerAssumption DEF Ids
  <2>3. TaskOK'
    BY <1>7, <2>2, TypeParts DEF Seek, TaskOK
  <2>4. HistOK'
    BY <1>7, TypeParts, FaultType DEF Seek, HistOK
  <2>. QED
    BY <1>7, <2>1, <2>3, <2>4, TypeFrame, TypeParts DEF Seek, pubVars, srvVars
<1>8. CASE Assign(s)
  <2>1. LogOK'
    <3>1. Cardinality({s}) = 1
      BY FS_Singleton
    <3>. QED
      BY <1>8, <3>1, TypeParts DEF Assign, LogOK
  <2>2. TaskOK'
    BY <1>8, TypeParts DEF Assign, TaskOK, LogOK
  <2>3. HistOK'
    BY <1>8, TypeParts, TypeFrame, FaultType DEF Assign, HistOK, histVars, faultVars
  <2>. QED
    BY <1>8, <2>1, <2>2, <2>3, TypeFrame, TypeParts DEF Assign, leaseVars, pubVars
<1>. QED
  BY <1>1, <1>2, <1>3, <1>4, <1>5, <1>6, <1>7, <1>8 DEF KafkaTask

\* Where a change stream without a token starts.
LEMMA LogEnd ==
  ASSUME TypeOK
  PROVE  /\ Max(log \cup {0}) \in log \cup {0} /\ Max(log \cup {0}) \in 0..MaxId
         /\ \A k \in log : k <= Max(log \cup {0})
<1>1. log \cup {0} \subseteq 0..MaxId
  BY TypeParts, BrokerAssumption DEF LogOK, Ids
<1> DEFINE T == {n \in Nat : \E k \in log \cup {0} : n = MaxId - k}
<1>2. T # {} /\ T \subseteq Nat
  <2>1. MaxId \in T
    BY BrokerAssumption
  <2>. QED
    BY <2>1
<1>3. PICK n \in T : \A j \in T : ~(<<j, n>> \in OpToRel(<, Nat))
  BY <1>2, NatLessThanWellFounded, WFMin
<1>4. PICK k \in log \cup {0} : n = MaxId - k
  OBVIOUS
<1>5. \A j \in log \cup {0} : k >= j
  <2>1. SUFFICES ASSUME NEW j \in log \cup {0}, ~(k >= j) PROVE FALSE
    OBVIOUS
  <2>2. MaxId - j \in Nat /\ MaxId - j < n
    BY <1>1, <1>4, <2>1, BrokerAssumption
  <2>3. MaxId - j \in T
    BY <2>2
  <2>. QED
    BY <1>3, <2>2, <2>3 DEF OpToRel
<1>6. Max(log \cup {0}) \in log \cup {0} /\ \A j \in log \cup {0} : Max(log \cup {0}) >= j
  BY <1>4, <1>5 DEF Max
<1>. QED
  BY <1>1, <1>6, BrokerAssumption

LEMMA ChangeType ==
  ASSUME TypeOK, NEW s \in Subs, Watch(s) \/ ChangeTask(s) \/ ChangeCrash(s) \/ ChangeErr(s)
  PROVE  TypeOK'
<1>1. CASE Watch(s)
  <2>1. TaskOK'
    BY <1>1, LogEnd, TypeParts DEF Watch, TaskOK, LogOK
  <2>2. HistOK'
    BY <1>1, TypeParts, BrokerAssumption DEF Watch, HistOK, LogOK, Fault
  <2>. QED
    BY <1>1, <2>1, <2>2, TypeFrame, TypeParts DEF Watch, leaseVars, pubVars, srvVars
<1>2. ASSUME NEW n \in Ids, NextChange(s, n) PROVE TypeOK'
  BY <1>2, ReceiveType, TypeFrame, TypeParts DEF NextChange, leaseVars, pubVars, srvVars
<1>3. CASE ChangeSend(s)
  BY <1>3, HandOverType DEF ChangeSend
<1>4. CASE ChangeEnd(s)
  BY <1>4, TaskEndType, TypeFrame, TypeParts DEF ChangeEnd, leaseVars, pubVars, srvVars
<1>5. CASE ChangeCrash(s)
  BY <1>5, DieType, TypeFrame, TypeParts DEF ChangeCrash, Die, pubVars, srvVars
<1>6. CASE ChangeErr(s)
  <2>1. HistOK'
    BY <1>6, FaultType, TypeParts DEF ChangeErr, histVars, HistOK
  <2>. QED
    BY <1>6, <2>1, StateType, TypeFrame, TypeParts DEF ChangeErr, leaseVars, pubVars, srvVars
<1>7. CASE StoreToken(s)
  <2>1. TaskOK' /\ LogOK'
    BY <1>7, TypeParts DEF StoreToken, TaskOK, LogOK
  <2>2. HistOK'
    BY <1>7, TypeParts, TypeFrame, FaultType DEF StoreToken, HistOK, histVars, faultVars
  <2>. QED
    BY <1>7, <2>1, <2>2, TypeFrame, TypeParts DEF StoreToken, leaseVars, pubVars
<1>. QED
  BY <1>1, <1>2, <1>3, <1>4, <1>5, <1>6, <1>7 DEF ChangeTask

\* The consumer.
LEMMA ConsumerType ==
  ASSUME TypeOK, NEW s \in Subs,
         Take(s) \/ DropStream(s) \/ \E m \in Ids : Ack(s, m) \/ Nack(s, m)
  PROVE  TypeOK'
<1>1. CASE Take(s)
  <2>1. PICK q \in Seq(Ids) : q = buffer[s] /\ q # <<>> /\ Len(q) <= BufferSize /\ Len(q) \in Nat
    BY <1>1, TypeParts, LenProperties DEF Take, StreamOK
  <2>2. Head(q) \in Ids /\ Tail(q) \in Seq(Ids) /\ Len(Tail(q)) = Len(q) - 1
    BY <2>1, TailFacts
  <2>3. StreamOK'
    BY <1>1, <2>1, <2>2, TypeParts, BrokerAssumption DEF StreamOK, Take
  <2>4. HeldOK'
    BY <1>1, <2>1, <2>2, TypeParts DEF HeldOK, Take
  <2>. QED
    BY <1>1, <2>3, <2>4, TypeFrame, TypeParts DEF Take, pubVars, srvVars
<1>2. CASE DropStream(s)
  <2>1. StreamOK'
    BY <1>2, TypeParts, EmptyFacts, BrokerAssumption DEF StreamOK, DropStream
  <2>2. Range(buffer[s]) \subseteq Ids
    BY TypeParts DEF StreamOK, Range
  <2>3. HeldOK'
    BY <1>2, <2>2, TypeParts DEF HeldOK, DropStream
  <2>4. HistOK'
    BY <1>2, FaultType, TypeParts DEF DropStream, histVars, HistOK
  <2>. QED
    BY <1>2, <2>1, <2>3, <2>4, TypeFrame, TypeParts DEF DropStream, pubVars, srvVars
<1>3. ASSUME NEW m \in Ids, Ack(s, m) PROVE TypeOK'
  <2>1. HeldOK'
    BY <1>3, TypeParts DEF HeldOK, Ack, Answer
  <2>. QED
    BY <1>3, <2>1, TypeFrame, TypeParts DEF Ack, pubVars, srvVars
<1>4. ASSUME NEW m \in Ids, Nack(s, m) PROVE TypeOK'
  <2>1. HeldOK'
    BY <1>4, TypeParts DEF HeldOK, Nack, Answer
  <2>2. HistOK'
    BY <1>4, FaultType, TypeParts DEF Nack, histVars, HistOK
  <2>. QED
    BY <1>4, <2>1, <2>2, TypeFrame, TypeParts DEF Nack, pubVars, srvVars
<1>. QED
  BY <1>1, <1>2, <1>3, <1>4

\* TypeOK: every variable has its type, no stream and no AMQP channel holds more than
\* its limit.
THEOREM TypeCorrect == Spec => []TypeOK
<1>1. Init => TypeOK
  <2> SUFFICES ASSUME Init PROVE TypeOK
    OBVIOUS
  <2>1. 0 \in 0..MaxId /\ 0 \in 0..MaxFaults
    BY BrokerAssumption
  <2>5. PubOK
    BY <2>1 DEF Init, PubOK
  <2>6. HistOK
    BY <2>1 DEF Init, HistOK
  <2>4. HeldOK /\ TaskOK
    BY BrokerAssumption DEF Init, HeldOK, TaskOK
  <2>2. LogOK /\ QueueOK
    BY FS_EmptySet, BrokerAssumption, PrefetchAssumption DEF Init, LogOK, QueueOK
  <2>3. StreamOK
    BY EmptyFacts, BrokerAssumption DEF Init, StreamOK
  <2>. QED
    BY <2>2, <2>3, <2>4, <2>5, <2>6, TypeParts
<1>2. TypeOK /\ [Next]_vars => TypeOK'
  <2> SUFFICES ASSUME TypeOK, [Next]_vars PROVE TypeOK'
    OBVIOUS
  <2>1. CASE UNCHANGED vars
    BY <2>1, TypeFrame, TypeParts DEF vars, pubVars, srvVars, leaseVars
  <2>2. ASSUME NEW s \in Subs,
               Subscribe(s) \/ Task(s) \/ Settled(s) \/ Crash(s) \/ Lost(s) \/ Take(s)
               \/ DropStream(s) \/ \E m \in Ids : Ack(s, m) \/ Nack(s, m) \/ AckWait(s, m)
        PROVE  TypeOK'
    <3>1. CASE Settled(s)
      BY <3>1, AmqpType, StreamType DEF Settled
    <3>2. CASE \E m \in Ids : Ack(s, m) \/ Nack(s, m) \/ AckWait(s, m)
      BY <3>2, StreamType, ConsumerType
    <3>3. CASE Take(s) \/ DropStream(s)
      BY <3>3, ConsumerType
    <3>4. CASE Subscribe(s) \/ Task(s) \/ Crash(s) \/ Lost(s)
      BY <3>4, AmqpType, StreamType, CoreType, KafkaType, ChangeType
         DEF Subscribe, Task, Crash, Lost
    <3>. QED
      BY <2>2, <3>1, <3>2, <3>3, <3>4
  <2>. QED
    BY <2>1, <2>2, PublishType, SendType DEF Next
<1>. QED
  BY <1>1, <1>2, PTL DEF Spec

-----------------------------------------------------------------------------
(* The inductive invariant.                                                *)

\* A message sent before all those the call under way has not sent yet.
Old(m) == m <= next /\ \A k \in sending : m < k

\* Messages are numbered in the order they are sent in, so that what is anywhere in
\* the system is older than what is still to be sent.
SentInOrder ==
  /\ sending \subseteq batch /\ \A m \in batch : m <= next
  /\ \A m \in log \cup ready \cup handed : Old(m)
  /\ Old(mark)
  /\ \A s \in Subs : Old(position[s]) /\ \A m \in out[s] \cup got[s] : Old(m)

\* A task has one message, while it sends it.
InHand == \A s \in Subs : /\ \A k, m \in got[s] : k = m
                          /\ task[s] # "send" => got[s] = {}

\* What a stream or a consumer has was handed over, and what is answered for it is what
\* the consumer said.
Accounted ==
  \A s \in Subs :
    /\ Range(buffer[s]) \subseteq handed
    /\ \A m \in Ids : held[s][m] > 0 => m \in handed
    /\ \A v \in verdicts[s] : v[1] \in handed /\ (v[2] = "ack" => v[1] \in done)

\* What publish() waits a reply for is stored, unless it was refused.
Reported ==
  kind \notin {"amqp", "core"} =>
    reported \subseteq log /\ (failed \/ batch \ sending \subseteq log)

\* amqp, jetstream: the queue has an unacked message, or one subscription has it.
Queued ==
  kind \in {"amqp", "jetstream"} =>
    /\ \A m \in log : m \in done \/ m \in ready \/ \E s \in Subs : m \in out[s]
    /\ \A s \in Subs : ready \cap out[s] = {}
    /\ \A s, t \in Subs : s # t => out[s] \cap out[t] = {}

\* The copies of s are distinct and in one place each.
OneCopy(s) ==
  /\ Distinct(buffer[s])
  /\ \A m \in got[s] : m \notin Range(buffer[s]) /\ held[s][m] = 0
  /\ \A m \in Range(buffer[s]) : held[s][m] = 0
  /\ \A m \in Ids : held[s][m] <= 1
  /\ \A v \in verdicts[s] :
       /\ v[1] \notin got[s] \cup Range(buffer[s]) /\ held[s][v[1]] = 0
       /\ \A w \in verdicts[s] : v[1] = w[1] => v = w

\* amqp, jetstream: what a subscription has is unacked on it, but for the rest of a
\* channel that was closed.
Leases ==
  kind \in {"amqp", "jetstream"} /\ ~late =>
    \A s \in Subs : ~(kind = "amqp" /\ task[s] = "gone") =>
      OneCopy(s) /\ \A m \in Ids : InFlight(s, m) => m \in out[s]

\* core: one subscription gets a message, once.
OnceAtMost ==
  kind = "core" =>
    /\ \A s \in Subs : (out[s] \cup got[s]) \cap handed = {}
    /\ \A s, t \in Subs : out[s] \cap got[t] = {}
    /\ \A s, t \in Subs : s # t => out[s] \cap out[t] = {} /\ got[s] \cap got[t] = {}

\* kafka: a task that awaits a verdict has one message with the stream or its consumer,
\* any other none.
NothingOut(s) == buffer[s] = <<>> /\ verdicts[s] = {} /\ \A m \in Ids : held[s][m] = 0

OnlyOut(s, m) ==
  \/ buffer[s] = <<m>> /\ verdicts[s] = {} /\ \A k \in Ids : held[s][k] = 0
  \/ /\ buffer[s] = <<>> /\ verdicts[s] = {}
     /\ held[s][m] = 1 /\ \A k \in Ids \ {m} : held[s][k] = 0
  \/ /\ buffer[s] = <<>> /\ \A k \in Ids : held[s][k] = 0
     /\ \E d \in {"ack", "nack"} : verdicts[s] = {<<m, d>>}

OneAtATime ==
  kind = "kafka" =>
    \A s \in Subs : IF task[s] = "await" THEN \E m \in Ids : OnlyOut(s, m) ELSE NothingOut(s)

DoneUpTo(n) == \A k \in log : k <= n => k \in done

\* kafka: everything before the committed offset, the consumer's position and a message
\* on its way is acked.
Committed ==
  kind = "kafka" /\ ~refused =>
    /\ DoneUpTo(mark)
    /\ \A s \in Subs, m \in Ids : InFlight(s, m) => DoneUpTo(m - 1)
    /\ \A s \in owner : task[s] # "off" /\ \A k \in log :
         task[s] \in {"recv", "send", "await"} /\ k <= position[s] =>
           k \in done \/ (task[s] # "recv" /\ InFlight(s, k))

\* changes: what the token or a task has passed was handed over or skipped.
Passed ==
  kind = "changes" =>
    /\ \A k \in log : k <= mark => k \in handed \cup skipped
    /\ \A s \in Subs : \A k \in log :
         task[s] \in {"recv", "send", "store"} /\ k <= position[s] =>
           k \in handed \cup skipped \cup got[s]

IInv == /\ TypeOK /\ SentInOrder /\ InHand /\ Accounted /\ Reported /\ Queued /\ Leases
        /\ OnceAtMost /\ OneAtATime /\ Committed /\ Passed

-----------------------------------------------------------------------------
(* The steps of a subscription.                                            *)

ServerStep(s) == \/ Subscribe(s) \/ Task(s) \/ Settled(s) \/ Crash(s) \/ Lost(s)
                 \/ \E m \in Ids : AckWait(s, m)

ConsumerStep(s) == Take(s) \/ DropStream(s) \/ \E m \in Ids : Ack(s, m) \/ Nack(s, m)

\* What a step of a task, of a verdict or of the server does to the stream and its consumer:
\* nothing, or it hands a message over, settles a verdict or is the end of the process.
LEMMA ServerStepShape ==
  ASSUME NEW s \in Subs, ServerStep(s)
  PROVE  /\ UNCHANGED <<pubVars, log>>
         /\ \/ UNCHANGED <<leaseVars, handed>>
            \/ \E state \in {"recv", "await", "store"} : SendInto(s, state)
            \/ /\ \E m \in Ids, d \in {"ack", "nack"} : Verdict(s, m, d)
               /\ UNCHANGED <<buffer, held, dropped, done, handed>>
            \/ Die(s)
<1> USE DEF pubVars, srvVars, logVars, taskVars, leaseVars
<1>1. CASE Subscribe(s)
  BY <1>1 DEF Subscribe, AmqpSubscribe, StreamSubscribe, CoreSubscribe, KafkaSubscribe, Watch
<1>2. CASE Lost(s) \/ \E m \in Ids : AckWait(s, m)
  BY <1>2 DEF Lost, AmqpLost, StreamLost, CoreLost, ChangeErr, Unsubscribed, AckWait
<1>3. CASE Crash(s)
  BY <1>3 DEF Crash, AmqpCrash, StreamCrash, CoreCrash, KafkaCrash, ChangeCrash, Die, Unsubscribed
<1>4. CASE Settled(s)
  BY <1>4 DEF Settled, AmqpVerdict, StreamVerdict
<1>5. CASE \/ AmqpEnd(s) \/ StreamEnd(s) \/ CoreEnd(s) \/ KafkaEnd(s) \/ ChangeEnd(s)
           \/ StoreToken(s) \/ Assign(s)
  BY <1>5 DEF AmqpEnd, StreamEnd, CoreEnd, KafkaEnd, ChangeEnd, StoreToken, Assign, TaskEnd,
     Unsubscribed
<1>6. CASE AmqpSend(s) \/ StreamSend(s) \/ CoreSend(s) \/ KafkaSend(s) \/ ChangeSend(s)
  BY <1>6 DEF AmqpSend, StreamSend, CoreSend, KafkaSend, ChangeSend
<1>7. CASE \E m \in Ids : \/ AmqpReceive(s, m) \/ StreamReceive(s, m) \/ CoreReceive(s, m)
                          \/ KafkaReceive(s, m) \/ NextChange(s, m)
  BY <1>7 DEF AmqpReceive, StreamReceive, CoreReceive, KafkaReceive, NextChange
<1>8. CASE \E m \in Ids : Commit(s, m) \/ Seek(s, m)
  BY <1>8 DEF Commit, Seek
<1>. QED
  BY <1>1, <1>2, <1>3, <1>4, <1>5, <1>6, <1>7, <1>8
     DEF ServerStep, Task, AmqpTask, StreamTask, CoreTask, KafkaTask, ChangeTask

LEMMA NextSteps ==
  Next => \/ PublishStart \/ PublishErr \/ PublishEnd \/ \E m \in Ids : Send(m)
          \/ \E s \in Subs : ServerStep(s) \/ ConsumerStep(s)
BY DEF Next, ServerStep, ConsumerStep

LEMMA KindKept == Next => UNCHANGED kind
<1>1. ASSUME NEW s \in Subs, ServerStep(s) \/ ConsumerStep(s) PROVE UNCHANGED kind
  BY <1>1, ServerStepShape DEF ConsumerStep, Take, DropStream, Ack, Nack, pubVars
<1>. QED
  BY <1>1, NextSteps DEF PublishStart, PublishErr, PublishEnd, Send, AmqpPublish, StreamPublish,
     CorePublish, KafkaPublish, InsertChange

\* A step of a subscription is one of the backend in use.
LEMMA BackendSteps ==
  ASSUME NEW s \in Subs, ServerStep(s)
  PROVE  /\ kind = "amqp" =>
              \/ AmqpSubscribe(s) \/ AmqpTask(s) \/ AmqpCrash(s) \/ AmqpLost(s)
              \/ \E m \in Ids, d \in {"ack", "nack"} : AmqpVerdict(s, m, d)
         /\ kind = "jetstream" =>
              \/ StreamSubscribe(s) \/ StreamTask(s) \/ StreamCrash(s) \/ StreamLost(s)
              \/ \E m \in Ids, d \in {"ack", "nack"} : StreamVerdict(s, m, d)
              \/ \E m \in Ids : AckWait(s, m)
         /\ kind = "core" => CoreSubscribe(s) \/ CoreTask(s) \/ CoreCrash(s) \/ CoreLost(s)
         /\ kind = "kafka" => KafkaSubscribe(s) \/ KafkaTask(s) \/ KafkaCrash(s)
         /\ kind = "changes" => Watch(s) \/ ChangeTask(s) \/ ChangeCrash(s) \/ ChangeErr(s)
<1>1. CASE Subscribe(s)
  BY <1>1 DEF Subscribe, AmqpSubscribe, StreamSubscribe, CoreSubscribe, KafkaSubscribe, Watch
<1>2. CASE Crash(s)
  BY <1>2 DEF Crash, AmqpCrash, StreamCrash, CoreCrash, KafkaCrash, ChangeCrash
<1>3. CASE Lost(s)
  BY <1>3 DEF Lost, AmqpLost, StreamLost, CoreLost, ChangeErr
<1>4. CASE Settled(s) \/ \E m \in Ids : AckWait(s, m)
  BY <1>4 DEF Settled, AmqpVerdict, StreamVerdict, AckWait
<1>5. CASE Task(s)
  <2>1. /\ AmqpTask(s) => kind = "amqp"
        /\ StreamTask(s) => kind = "jetstream"
        /\ CoreTask(s) => kind = "core"
        /\ KafkaTask(s) => kind = "kafka"
        /\ ChangeTask(s) => kind = "changes"
    BY DEF AmqpTask, AmqpReceive, AmqpSend, AmqpEnd, StreamTask, StreamReceive, StreamSend,
       StreamEnd,
       CoreTask, CoreReceive, CoreSend, CoreEnd, KafkaTask, KafkaReceive, Commit, Seek, KafkaSend,
       KafkaEnd, Assign, ChangeTask, NextChange, ChangeSend, StoreToken, ChangeEnd
  <2>. QED
    BY <1>5, <2>1 DEF Task
<1>. QED
  BY <1>1, <1>2, <1>3, <1>4, <1>5 DEF ServerStep

\* So is a message that is sent.
LEMMA BackendSends ==
  ASSUME NEW m \in Ids, Send(m)
  PROVE  /\ kind = "amqp" => AmqpPublish(m)
         /\ kind = "jetstream" => StreamPublish(m)
         /\ kind = "core" => CorePublish(m)
         /\ kind = "kafka" => KafkaPublish(m)
         /\ kind = "changes" => InsertChange(m)
BY DEF Send, AmqpPublish, StreamPublish, CorePublish, KafkaPublish, InsertChange

-----------------------------------------------------------------------------
(* The invariants every backend has.                                       *)

LEMMA ReportedStep ==
  ASSUME TypeOK, SentInOrder, Reported, Next
  PROVE  Reported'
<1>1. CASE PublishStart \/ PublishErr \/ PublishEnd
  BY <1>1, TypeParts DEF PubOK, SentInOrder, Reported, PublishStart, PublishErr, PublishEnd,
     Ids, srvVars, logVars
<1>2. ASSUME NEW m \in Ids, Send(m) PROVE Reported'
  BY <1>2, TypeParts DEF PubOK, Reported, Send, AmqpPublish, StreamPublish, CorePublish,
     KafkaPublish, InsertChange, Kinds
<1>3. ASSUME NEW s \in Subs, ServerStep(s) \/ ConsumerStep(s) PROVE Reported'
  <2>1. UNCHANGED <<pubVars, log>>
    BY <1>3, ServerStepShape DEF ConsumerStep, Take, DropStream, Ack, Nack, srvVars, logVars
  <2>. QED
    BY <2>1 DEF Reported, pubVars
<1>. QED
  BY <1>1, <1>2, <1>3, NextSteps

LEMMA InHandStep ==
  ASSUME TypeOK, InHand, Next
  PROVE  InHand'
<1>1. CASE UNCHANGED <<task, got>>
  BY <1>1 DEF InHand
<1>2. ASSUME NEW s \in Subs,
             got' = [got EXCEPT ![s] = {}],
             \E t \in {"recv", "await", "store", "gone", "dead"} : task' = [task EXCEPT ![s] = t]
      PROVE  InHand'
  BY <1>2, TypeParts DEF InHand, TaskOK
<1>3. ASSUME NEW s \in Subs, NEW m \in Ids, Receive(s, m)
      PROVE  InHand'
  BY <1>3, TypeParts DEF InHand, TaskOK, Receive
<1>4. ASSUME NEW s \in Subs, task[s] # "send", UNCHANGED got,
             \E t \in {"recv", "gone"} : task' = [task EXCEPT ![s] = t]
      PROVE  InHand'
  BY <1>4, TypeParts DEF InHand, TaskOK
<1>5. CASE PublishStart \/ PublishErr \/ PublishEnd \/ \E m \in Ids : Send(m)
  BY <1>1, <1>5 DEF PublishStart, PublishErr, PublishEnd, Send, AmqpPublish, StreamPublish,
     CorePublish, KafkaPublish, InsertChange, taskVars
<1>6. ASSUME NEW s \in Subs, ConsumerStep(s) PROVE InHand'
  BY <1>1, <1>6 DEF ConsumerStep, Take, DropStream, Ack, Nack, taskVars
<1>7. ASSUME NEW s \in Subs, ServerStep(s) PROVE InHand'
  <2>1. CASE Subscribe(s)
    BY <1>4, <2>1 DEF Subscribe, AmqpSubscribe, StreamSubscribe, CoreSubscribe, KafkaSubscribe,
       Watch
  <2>2. CASE Lost(s)
    BY <1>4, <2>2 DEF Lost, AmqpLost, StreamLost, CoreLost, ChangeErr
  <2>3. CASE \E m \in Ids : AckWait(s, m)
    BY <1>1, <2>3 DEF AckWait, taskVars
  <2>4. CASE Settled(s)
    BY <1>1, <2>4 DEF Settled, AmqpVerdict, StreamVerdict, taskVars
  <2>5. CASE Crash(s)
    BY <1>2, <2>5 DEF Crash, AmqpCrash, StreamCrash, CoreCrash, KafkaCrash, ChangeCrash, Die
  <2>6. CASE AmqpEnd(s) \/ StreamEnd(s) \/ CoreEnd(s) \/ KafkaEnd(s) \/ ChangeEnd(s)
    BY <1>2, <2>6 DEF AmqpEnd, StreamEnd, CoreEnd, KafkaEnd, ChangeEnd, TaskEnd
  <2>7. CASE AmqpSend(s) \/ StreamSend(s) \/ CoreSend(s) \/ KafkaSend(s) \/ ChangeSend(s)
    BY <1>2, <2>7 DEF AmqpSend, StreamSend, CoreSend, KafkaSend, ChangeSend, SendInto
  <2>8. CASE \E m \in Ids : \/ AmqpReceive(s, m) \/ StreamReceive(s, m) \/ CoreReceive(s, m)
                            \/ KafkaReceive(s, m) \/ NextChange(s, m)
    BY <1>3, <2>8 DEF AmqpReceive, StreamReceive, CoreReceive, KafkaReceive, NextChange
  <2>9. CASE StoreToken(s) \/ \E m \in Ids : Commit(s, m) \/ Seek(s, m)
    BY <1>4, <2>9 DEF StoreToken, Commit, Seek
  <2>10. CASE Assign(s)
    BY <1>1, <2>10 DEF Assign
  <2>. QED
    BY <1>7, <2>1, <2>2, <2>3, <2>4, <2>5, <2>6, <2>7, <2>8, <2>9, <2>10
       DEF ServerStep, Task, AmqpTask, StreamTask, CoreTask, KafkaTask, ChangeTask
<1>. QED
  BY <1>5, <1>6, <1>7, NextSteps

\* What is older than a message still to be sent stays so while nothing is sent.
LEMMA OrderFrame ==
  ASSUME TypeOK, SentInOrder, UNCHANGED <<pubVars, log>>,
         \A m \in ready' \cup handed' : Old(m), Old(mark'),
         \A s \in Subs : Old(position'[s]) /\ \A m \in out'[s] \cup got'[s] : Old(m)
  PROVE  SentInOrder'
BY DEF SentInOrder, Old, pubVars

LEMMA SentInOrderStep ==
  ASSUME TypeOK, SentInOrder, Accounted, Next
  PROVE  SentInOrder'
<1>1. CASE PublishStart
  <2>1. PICK n \in 1..(MaxId - next) : next' = next + n /\ batch' = (next + 1)..(next + n)
    BY <1>1 DEF PublishStart
  <2>2. /\ sending' = batch' /\ sending = {} /\ next \in Nat /\ n \in Nat /\ next < next'
        /\ UNCHANGED <<srvVars, taskVars>>
    BY <1>1, <2>1, TypeParts, BrokerAssumption DEF PublishStart, PubOK
  <2>3. ASSUME NEW m \in 0..MaxId, Old(m) PROVE Old(m)'
    BY <2>1, <2>2, <2>3, BrokerAssumption DEF Old
  <2>4. \A m \in batch' : m <= next'
    BY <2>1, <2>2
  <2>. QED
    BY <2>2, <2>3, <2>4, TypeParts, BrokerAssumption
       DEF SentInOrder, srvVars, logVars, taskVars, LogOK, QueueOK, TaskOK, Ids
<1>2. CASE PublishErr \/ PublishEnd
  BY <1>2, TypeParts DEF SentInOrder, Old, PublishErr, PublishEnd, srvVars, logVars, taskVars,
     PubOK
<1>3. ASSUME NEW m \in Ids, Send(m) PROVE SentInOrder'
  <2>1. /\ \A k \in sending' : m < k
        /\ sending' = sending \ {m} /\ UNCHANGED <<next, batch, mark, taskVars>>
        /\ log' \subseteq log \cup {m} /\ ready' \subseteq ready \cup {m} /\ m \in sending
    BY <1>3, TypeParts DEF Send, AmqpPublish, StreamPublish, CorePublish, KafkaPublish,
       InsertChange,
       IsMin, PubOK, Ids, logVars
  <2>2. \A s \in Subs : out'[s] \subseteq out[s] \cup {m}
    BY <1>3, TypeParts DEF QueueOK, Send, AmqpPublish, StreamPublish, CorePublish,
       KafkaPublish, InsertChange
  <2>3. Old(m)' /\ \A k : Old(k) => Old(k)'
    BY <2>1 DEF Old, SentInOrder
  <2>. QED
    BY <2>1, <2>2, <2>3 DEF SentInOrder, taskVars
<1>4. ASSUME NEW s \in Subs, ConsumerStep(s) PROVE SentInOrder'
  BY <1>4, OrderFrame DEF SentInOrder, ConsumerStep, Take, DropStream, Ack, Nack, srvVars,
     logVars, taskVars
<1>5. ASSUME NEW s \in Subs, ServerStep(s) PROVE SentInOrder'
  <2>1. UNCHANGED <<pubVars, log>>
    BY <1>5, ServerStepShape
  <2> USE <2>1, OrderFrame, TypeParts DEF SentInOrder, QueueOK, TaskOK
  <2>2. CASE Subscribe(s)
    <3>1. CASE Watch(s)
      <4>1. Max(log \cup {0}) \in log \cup {0}
        BY LogEnd
      <4>2. Old(0)
        BY TypeParts DEF SentInOrder, Old, PubOK, Ids
      <4>. QED
        BY <3>1, <4>1, <4>2 DEF Watch, srvVars, logVars
    <3>2. CASE ~Watch(s)
      BY <2>2, <3>2 DEF Subscribe, AmqpSubscribe, StreamSubscribe, CoreSubscribe, KafkaSubscribe,
         srvVars, logVars
    <3>. QED
      BY <3>1, <3>2
  <2>3. CASE Lost(s) \/ \E m \in Ids : AckWait(s, m)
    BY <2>3 DEF Lost, AmqpLost, StreamLost, CoreLost, ChangeErr, Unsubscribed, AckWait, Requeue,
       srvVars, logVars, taskVars
  <2>4. CASE Crash(s)
    BY <2>4 DEF Crash, AmqpCrash, StreamCrash, CoreCrash, KafkaCrash, ChangeCrash, Die,
       Unsubscribed, Requeue, srvVars, logVars
  <2>5. CASE Settled(s)
    BY <2>5 DEF Settled, AmqpVerdict, StreamVerdict, taskVars, logVars
  <2>6. CASE \/ AmqpEnd(s) \/ StreamEnd(s) \/ CoreEnd(s) \/ KafkaEnd(s) \/ ChangeEnd(s)
             \/ StoreToken(s) \/ Assign(s)
    BY <2>6 DEF AmqpEnd, StreamEnd, CoreEnd, KafkaEnd, ChangeEnd, StoreToken, Assign, TaskEnd,
       Unsubscribed, Requeue, srvVars, logVars
  <2>7. CASE AmqpSend(s) \/ StreamSend(s) \/ CoreSend(s) \/ KafkaSend(s) \/ ChangeSend(s)
    <3>1. /\ handed' = handed \cup got[s] /\ got' = [got EXCEPT ![s] = {}]
          /\ UNCHANGED <<position, srvVars>>
      BY <2>7 DEF AmqpSend, StreamSend, CoreSend, KafkaSend, ChangeSend, SendInto
    <3>. QED
      BY <3>1 DEF srvVars, logVars
  <2>8. CASE \E m \in Ids : \/ AmqpReceive(s, m) \/ StreamReceive(s, m) \/ CoreReceive(s, m)
                            \/ KafkaReceive(s, m) \/ NextChange(s, m)
    <3>1. PICK m \in Ids : \/ AmqpReceive(s, m) \/ StreamReceive(s, m) \/ CoreReceive(s, m)
                           \/ KafkaReceive(s, m) \/ NextChange(s, m)
      BY <2>8
    <3>2. /\ Old(m) /\ got' = [got EXCEPT ![s] = {m}]
          /\ position' = position \/ position' = [position EXCEPT ![s] = m]
          /\ UNCHANGED <<handed, mark>> /\ ready' \subseteq ready
      BY <3>1 DEF AmqpReceive, StreamReceive, CoreReceive, KafkaReceive, NextChange, Receive,
         IsMin,
         srvVars, logVars
    <3>3. \A t \in Subs : out'[t] \subseteq out[t] \cup {m}
      BY <3>1 DEF AmqpReceive, StreamReceive, CoreReceive, KafkaReceive, NextChange, srvVars
    <3>. QED
      BY <3>2, <3>3
  <2>9. ASSUME NEW m \in Ids, Commit(s, m) \/ Seek(s, m) PROVE SentInOrder'
    <3>1. m \in handed
      BY <2>9 DEF Accounted, Commit, Seek, Verdict
    <3>2. Old(m) /\ Old(m - 1)
      BY <3>1, TypeParts DEF Old, PubOK, Ids
    <3>. QED
      BY <2>9, <3>2 DEF Commit, Seek, srvVars, logVars
  <2>. QED
    BY <1>5, <2>2, <2>3, <2>4, <2>5, <2>6, <2>7, <2>8, <2>9
       DEF ServerStep, Task, AmqpTask, StreamTask, CoreTask, KafkaTask, ChangeTask
<1>. QED
  BY <1>1, <1>2, <1>3, <1>4, <1>5, NextSteps

\* What a stream's buffer has once a message is sent into it.
LEMMA SentInto ==
  ASSUME TypeOK, InHand, NEW s \in Subs, NEW state, SendInto(s, state)
  PROVE  \E m \in Ids : \E r \in Seq(Ids) :
           /\ got[s] = {m} /\ r = Append(buffer[s], m)
           /\ Range(r) = Range(buffer[s]) \cup {m}
           /\ buffer' = [buffer EXCEPT ![s] = r] /\ handed' = handed \cup {m}
<1>1. PICK m \in got[s] : buffer' = [buffer EXCEPT ![s] = Append(@, m)]
  BY DEF SendInto
<1>2. m \in Ids /\ got[s] = {m}
  BY <1>1, TypeParts DEF TaskOK, InHand
<1>3. PICK q \in Seq(Ids) : q = buffer[s]
  BY TypeParts DEF StreamOK
<1>4. Append(q, m) \in Seq(Ids) /\ Range(Append(q, m)) = Range(q) \cup {m}
  BY <1>2, AppendFacts
<1>5. handed' = handed \cup {m}
  BY <1>2 DEF SendInto
<1>. QED
  BY <1>1, <1>2, <1>3, <1>4, <1>5

\* What is left of it when the consumer takes one.
LEMMA Taken ==
  ASSUME TypeOK, NEW s \in Subs, Take(s)
  PROVE  \E m \in Ids : \E r \in Seq(Ids) :
           /\ buffer[s] # <<>> /\ m = Head(buffer[s]) /\ r = Tail(buffer[s])
           /\ Range(buffer[s]) = {m} \cup Range(r)
           /\ buffer' = [buffer EXCEPT ![s] = r]
           /\ held' = [held EXCEPT ![s][m] = @ + 1]
<1>1. PICK q \in Seq(Ids) : q = buffer[s] /\ q # <<>>
  BY TypeParts DEF StreamOK, Take
<1>2. PICK m \in Ids : m = Head(q)
  BY <1>1, TailFacts
<1>3. PICK r \in Seq(Ids) : r = Tail(q) /\ Range(q) = {m} \cup Range(r)
  BY <1>1, <1>2, TailFacts
<1>. QED
  BY <1>1, <1>2, <1>3 DEF Take

LEMMA AccountedStep ==
  ASSUME TypeOK, InHand, Accounted, Next
  PROVE  Accounted'
<1>1. CASE UNCHANGED <<leaseVars, handed>>
  BY <1>1 DEF Accounted, leaseVars
<1>2. CASE PublishStart \/ PublishErr \/ PublishEnd \/ \E m \in Ids : Send(m)
  BY <1>1, <1>2 DEF PublishStart, PublishErr, PublishEnd, Send, AmqpPublish, StreamPublish,
     CorePublish, KafkaPublish, InsertChange, taskVars
<1>3. ASSUME NEW s \in Subs, ServerStep(s) PROVE Accounted'
  <2>1. ASSUME NEW state, SendInto(s, state) PROVE Accounted'
    <3>1. PICK m \in Ids : \E r \in Seq(Ids) :
            /\ Range(r) = Range(buffer[s]) \cup {m}
            /\ buffer' = [buffer EXCEPT ![s] = r] /\ handed' = handed \cup {m}
      BY <2>1, SentInto
    <3>2. UNCHANGED <<held, verdicts, done>>
      BY <2>1 DEF SendInto
    <3>. QED
      BY <3>1, <3>2, TypeParts DEF Accounted, StreamOK
  <2>2. ASSUME NEW m \in Ids, NEW d \in {"ack", "nack"}, Verdict(s, m, d),
               UNCHANGED <<buffer, held, dropped, done, handed>>
        PROVE  Accounted'
    BY <2>2, TypeParts DEF Accounted, Verdict, HeldOK
  <2>3. CASE Die(s)
    BY <2>3, EmptyFacts, TypeParts DEF Accounted, Die, StreamOK, HeldOK
  <2>. QED
    BY <1>1, <1>3, <2>1, <2>2, <2>3, ServerStepShape
<1>4. ASSUME NEW s \in Subs, Take(s) PROVE Accounted'
  <2>1. PICK m \in Ids : \E r \in Seq(Ids) :
          /\ Range(buffer[s]) = {m} \cup Range(r) /\ buffer' = [buffer EXCEPT ![s] = r]
          /\ held' = [held EXCEPT ![s][m] = @ + 1]
    BY <1>4, Taken
  <2>2. UNCHANGED <<verdicts, done, handed>>
    BY <1>4 DEF Take, taskVars
  <2>3. m \in handed /\ \A t \in Subs : Range(buffer'[t]) \subseteq Range(buffer[t])
    BY <2>1, TypeParts DEF Accounted, StreamOK
  <2>4. \A t \in Subs, k \in Ids : held'[t][k] > 0 => held[t][k] > 0 \/ k = m
    BY <2>1, TypeParts DEF HeldOK
  <2>. QED
    BY <2>2, <2>3, <2>4 DEF Accounted
<1>5. ASSUME NEW s \in Subs, DropStream(s) PROVE Accounted'
  <2>1. /\ UNCHANGED <<held, done, handed>> /\ buffer' = [buffer EXCEPT ![s] = <<>>]
        /\ \A t \in Subs : verdicts'[t] \subseteq verdicts[t] \cup (Range(buffer[t]) \X {"nack"})
    BY <1>5, TypeParts DEF DropStream, taskVars, HeldOK
  <2>2. \A t \in Subs : Range(buffer'[t]) \subseteq Range(buffer[t])
    BY <2>1, EmptyFacts, TypeParts DEF StreamOK
  <2>. QED
    BY <2>1, <2>2 DEF Accounted
<1>6. ASSUME NEW s \in Subs, NEW m \in Ids, Ack(s, m) \/ Nack(s, m) PROVE Accounted'
  <2>1. /\ UNCHANGED <<buffer, handed>> /\ m \in handed /\ held[s][m] \in Nat
        /\ held' = [held EXCEPT ![s][m] = @ - 1] /\ done \subseteq done'
    BY <1>6, TypeParts DEF Ack, Nack, taskVars, Accounted, HeldOK
  <2>2. \A t \in Subs : \A k \in Ids : held'[t][k] > 0 => held[t][k] > 0
    BY <2>1, TypeParts DEF HeldOK
  <2>3. \A t \in Subs : \A v \in verdicts'[t] :
          v \in verdicts[t] \/ (v = <<m, "ack">> /\ m \in done') \/ v = <<m, "nack">>
    BY <1>6, TypeParts DEF Ack, Nack, Answer, HeldOK
  <2>. QED
    BY <2>1, <2>2, <2>3 DEF Accounted
<1>. QED
  BY <1>2, <1>3, <1>4, <1>5, <1>6, NextSteps DEF ConsumerStep

-----------------------------------------------------------------------------
(* Where the copies of a message go.                                       *)

LEMMA FlightKnown ==
  ASSUME Accounted, NEW s \in Subs, NEW m \in Ids, InFlight(s, m)
  PROVE  m \in got[s] \cup handed
<1>1. \A d \in {"ack", "nack"} : <<m, d>> \in verdicts[s] => m \in handed
  BY DEF Accounted
<1>. QED
  BY <1>1 DEF InFlight, Accounted

\* Nothing is added to what is on its way when a task ends, a verdict is answered or a
\* process dies.
LEMMA FlightShrinks ==
  ASSUME TypeOK, NEW s \in Subs,
         \/ TaskEnd(s) /\ UNCHANGED leaseVars
         \/ Die(s)
         \/ /\ \E m \in Ids, d \in {"ack", "nack"} : Verdict(s, m, d)
            /\ UNCHANGED <<got, buffer, held, dropped, done>>
  PROVE  \A t \in Subs, k \in Ids : InFlight(t, k)' => InFlight(t, k)
<1>1. CASE TaskEnd(s) /\ UNCHANGED leaseVars
  BY <1>1, TypeParts DEF TaskEnd, leaseVars, InFlight, TaskOK
<1>2. CASE Die(s)
  BY <1>2, TypeParts, EmptyFacts DEF Die, InFlight, TaskOK, StreamOK, HeldOK
<1>3. CASE /\ \E m \in Ids, d \in {"ack", "nack"} : Verdict(s, m, d)
           /\ UNCHANGED <<got, buffer, held, dropped, done>>
  BY <1>3, TypeParts DEF Verdict, InFlight, HeldOK
<1>. QED
  BY <1>1, <1>2, <1>3

\* What a task hands over stays on its way.
LEMMA FlightSent ==
  ASSUME TypeOK, InHand, NEW s \in Subs, NEW state, SendInto(s, state)
  PROVE  \A t \in Subs, k \in Ids : InFlight(t, k)' <=> InFlight(t, k)
<1>1. PICK m \in Ids : \E r \in Seq(Ids) :
        /\ got[s] = {m} /\ Range(r) = Range(buffer[s]) \cup {m}
        /\ buffer' = [buffer EXCEPT ![s] = r]
  BY SentInto
<1>2. got' = [got EXCEPT ![s] = {}] /\ UNCHANGED <<held, verdicts>>
  BY DEF SendInto
<1>3. \A t \in Subs : got'[t] \cup Range(buffer'[t]) = got[t] \cup Range(buffer[t])
  BY <1>1, <1>2, TypeParts DEF TaskOK, StreamOK
<1>. QED
  BY <1>2, <1>3 DEF InFlight

\* With a lease, so does what a consumer takes, settles or drops.
LEMMA FlightConsumed ==
  ASSUME TypeOK, Leased, NEW s \in Subs, ConsumerStep(s)
  PROVE  \A t \in Subs, k \in Ids : InFlight(t, k)' <=> InFlight(t, k)
<1>1. CASE Take(s)
  <2>1. PICK m \in Ids : \E r \in Seq(Ids) :
          /\ Range(buffer[s]) = {m} \cup Range(r) /\ buffer' = [buffer EXCEPT ![s] = r]
          /\ held' = [held EXCEPT ![s][m] = @ + 1]
    BY <1>1, Taken
  <2>2. UNCHANGED <<verdicts, got>>
    BY <1>1 DEF Take, taskVars
  <2>3. \A t \in Subs, k \in Ids : held'[t][k] > 0 <=> held[t][k] > 0 \/ (t = s /\ k = m)
    BY <2>1, TypeParts DEF HeldOK
  <2>4. /\ m \in Range(buffer[s]) /\ \A t \in Subs : Range(buffer'[t]) \subseteq Range(buffer[t])
        /\ \A t \in Subs, k \in Ids :
             k \in Range(buffer[t]) => k \in Range(buffer'[t]) \/ (t = s /\ k = m)
    BY <2>1, TypeParts DEF StreamOK
  <2>. QED
    BY <2>2, <2>3, <2>4 DEF InFlight
<1>2. CASE DropStream(s)
  <2>1. /\ UNCHANGED <<held, got>> /\ buffer' = [buffer EXCEPT ![s] = <<>>]
        /\ verdicts' = [verdicts EXCEPT ![s] = @ \cup (Range(buffer[s]) \X {"nack"})]
    BY <1>2 DEF DropStream, taskVars
  <2>2. \A t \in Subs : Range(buffer'[t]) = IF t = s THEN {} ELSE Range(buffer[t])
    BY <2>1, EmptyFacts, TypeParts DEF StreamOK
  <2>3. \A t \in Subs, k \in Ids, d \in {"ack", "nack"} :
          <<k, d>> \in verdicts'[t]
          <=> <<k, d>> \in verdicts[t] \/ (t = s /\ k \in Range(buffer[s]) /\ d = "nack")
    BY <2>1, TypeParts DEF HeldOK
  <2>4. \A t \in Subs, k \in Ids :
          (\E d \in {"ack", "nack"} : <<k, d>> \in verdicts'[t])
          <=> \/ \E d \in {"ack", "nack"} : <<k, d>> \in verdicts[t]
              \/ t = s /\ k \in Range(buffer[s])
    BY <2>3
  <2>5. ASSUME NEW t \in Subs, NEW k \in Ids PROVE InFlight(t, k)' <=> InFlight(t, k)
    <3>1. CASE t = s
      BY <2>1, <2>2, <2>4, <3>1 DEF InFlight
    <3>2. CASE t # s
      BY <2>1, <2>2, <2>4, <3>2 DEF InFlight
    <3>. QED
      BY <3>1, <3>2
  <2>. QED
    BY <2>5
<1>3. ASSUME NEW m \in Ids, NEW d \in {"ack", "nack"},
             \/ d = "ack" /\ Ack(s, m)
             \/ d = "nack" /\ Nack(s, m)
      PROVE  \A t \in Subs, k \in Ids : InFlight(t, k)' <=> InFlight(t, k)
  <2>1. /\ UNCHANGED <<buffer, got>> /\ held[s][m] > 0 /\ held' = [held EXCEPT ![s][m] = @ - 1]
        /\ verdicts' = [verdicts EXCEPT ![s] = @ \cup {<<m, d>>}]
    BY <1>3 DEF Ack, Nack, Answer, taskVars
  <2>2. \A t \in Subs, k \in Ids, c \in {"ack", "nack"} :
          <<k, c>> \in verdicts'[t] <=> <<k, c>> \in verdicts[t] \/ (t = s /\ k = m /\ c = d)
    BY <2>1, TypeParts DEF HeldOK
  <2>3. \A t \in Subs, k \in Ids :
          held[t][k] > 0 <=> held'[t][k] > 0 \/ (t = s /\ k = m /\ held[t][k] > 0)
    BY <2>1, TypeParts DEF HeldOK
  <2>. QED
    BY <2>1, <2>2, <2>3 DEF InFlight
<1>. QED
  BY <1>1, <1>2, <1>3 DEF ConsumerStep

-----------------------------------------------------------------------------
(* Kafka.                                                                  *)

LEMMA OneAtATimeStep ==
  ASSUME TypeOK, InHand, OneAtATime, Next
  PROVE  OneAtATime'
<1>1. CASE kind # "kafka"
  BY <1>1, KindKept DEF OneAtATime
<1> SUFFICES ASSUME kind = "kafka" PROVE OneAtATime'
  BY <1>1
<1>2. ASSUME NEW s \in Subs,
             \A t \in Subs \ {s} : UNCHANGED <<task[t], buffer[t], held[t], verdicts[t]>>,
             IF task'[s] = "await" THEN \E m \in Ids : OnlyOut(s, m)' ELSE NothingOut(s)'
      PROVE  OneAtATime'
  BY <1>2 DEF OneAtATime, OnlyOut, NothingOut
<1>3. CASE UNCHANGED <<task, buffer, held, verdicts>>
  BY <1>3, KindKept DEF OneAtATime, OnlyOut, NothingOut
<1>4. CASE PublishStart \/ PublishErr \/ PublishEnd \/ \E m \in Ids : Send(m)
  BY <1>3, <1>4 DEF PublishStart, PublishErr, PublishEnd, Send, AmqpPublish, StreamPublish,
     CorePublish, KafkaPublish, InsertChange, taskVars, leaseVars
<1>5. ASSUME NEW s \in Subs, ConsumerStep(s) PROVE OneAtATime'
  <2>1. UNCHANGED task /\ \A t \in Subs \ {s} : UNCHANGED <<buffer[t], held[t], verdicts[t]>>
    BY <1>5, TypeParts DEF ConsumerStep, Take, DropStream, Ack, Nack, Answer, taskVars,
       StreamOK, HeldOK
  <2>2. CASE task[s] # "await"
    <3>1. NothingOut(s) /\ Range(buffer[s]) = {}
      BY <2>2, EmptyFacts DEF OneAtATime, NothingOut
    <3>2. CASE DropStream(s)
      BY <1>2, <2>1, <2>2, <3>1, <3>2, TypeParts DEF DropStream, NothingOut, HeldOK, StreamOK
    <3>. QED
      BY <1>5, <3>1, <3>2 DEF ConsumerStep, Take, Ack, Nack, NothingOut
  <2>3. CASE task[s] = "await"
    <3>1. PICK n \in Ids : OnlyOut(s, n)
      BY <2>3 DEF OneAtATime
    <3>2. CASE Take(s)
      <4>1. buffer[s] = <<n>> /\ verdicts[s] = {} /\ \A k \in Ids : held[s][k] = 0
        BY <3>1, <3>2 DEF OnlyOut, Take
      <4>2. Head(buffer[s]) = n /\ Tail(buffer[s]) = <<>>
        BY <4>1
      <4>3. buffer'[s] = <<>> /\ verdicts'[s] = {} /\ held'[s] = [held[s] EXCEPT ![n] = @ + 1]
        BY <3>2, <4>1, <4>2, TypeParts DEF Take, StreamOK, HeldOK
      <4>4. OnlyOut(s, n)'
        BY <4>1, <4>3, TypeParts DEF OnlyOut, HeldOK
      <4>. QED
        BY <1>2, <2>1, <2>3, <4>4
    <3>3. CASE DropStream(s)
      <4>1. /\ UNCHANGED held /\ buffer'[s] = <<>>
            /\ verdicts'[s] = verdicts[s] \cup (Range(buffer[s]) \X {"nack"})
        BY <3>3, TypeParts DEF DropStream, StreamOK, HeldOK, Leased
      <4>2. CASE buffer[s] = <<>>
        <5>1. verdicts'[s] = verdicts[s]
          BY <4>1, <4>2, EmptyFacts
        <5>. QED
          BY <1>2, <2>1, <2>3, <3>1, <4>1, <4>2, <5>1 DEF OnlyOut
      <4>3. CASE buffer[s] # <<>>
        <5>1. buffer[s] = <<n>> /\ verdicts[s] = {} /\ \A k \in Ids : held[s][k] = 0
          BY <3>1, <4>3 DEF OnlyOut
        <5>2. Range(buffer[s]) = {n}
          BY <5>1 DEF Range
        <5>3. verdicts'[s] = {<<n, "nack">>}
          BY <4>1, <5>1, <5>2
        <5>4. OnlyOut(s, n)'
          BY <4>1, <5>1, <5>3 DEF OnlyOut
        <5>. QED
          BY <1>2, <2>1, <2>3, <5>4
      <4>. QED
        BY <4>2, <4>3
    <3>4. ASSUME NEW m \in Ids, NEW d \in {"ack", "nack"},
                 \/ d = "ack" /\ Ack(s, m)
                 \/ d = "nack" /\ Nack(s, m)
          PROVE  OneAtATime'
      <4>1. /\ held[s][m] > 0 /\ UNCHANGED buffer /\ held'[s] = [held[s] EXCEPT ![m] = @ - 1]
            /\ verdicts'[s] = verdicts[s] \cup {<<m, d>>}
        BY <3>4, TypeParts DEF Ack, Nack, Answer, Leased, HeldOK
      <4>2. /\ m = n /\ buffer[s] = <<>> /\ verdicts[s] = {}
            /\ held[s][m] = 1 /\ \A k \in Ids \ {m} : held[s][k] = 0
        BY <3>1, <4>1 DEF OnlyOut
      <4>3. \A k \in Ids : held'[s][k] = 0
        BY <4>1, <4>2, TypeParts DEF HeldOK
      <4>4. OnlyOut(s, n)'
        BY <4>1, <4>2, <4>3 DEF OnlyOut
      <4>. QED
        BY <1>2, <2>1, <2>3, <4>4
    <3>. QED
      BY <1>5, <3>2, <3>3, <3>4 DEF ConsumerStep
  <2>. QED
    BY <2>2, <2>3
<1>6. ASSUME NEW s \in Subs, ServerStep(s) PROVE OneAtATime'
  <2>1. CASE Assign(s)
    BY <1>3, <2>1 DEF Assign, leaseVars
  <2>2. CASE KafkaSubscribe(s) \/ KafkaEnd(s) \/ \E m \in Ids : KafkaReceive(s, m)
    <3>1. /\ task[s] # "await" /\ task'[s] # "await"
          /\ \A t \in Subs \ {s} : task'[t] = task[t] /\ UNCHANGED leaseVars
      BY <2>2, TypeParts DEF KafkaSubscribe, KafkaEnd, TaskEnd, KafkaReceive, Receive, TaskOK
    <3>2. UNCHANGED <<buffer, held, verdicts>>
      BY <2>2 DEF KafkaSubscribe, KafkaEnd, KafkaReceive, leaseVars
    <3>. QED
      BY <1>2, <3>1, <3>2 DEF OneAtATime, NothingOut
  <2>3. CASE KafkaSend(s)
    <3>1. NothingOut(s)
      BY <2>3 DEF OneAtATime, KafkaSend, SendInto
    <3>2. PICK m \in got[s] : buffer' = [buffer EXCEPT ![s] = Append(@, m)]
      BY <2>3 DEF KafkaSend, SendInto
    <3>3. m \in Ids /\ Append(<<>>, m) = <<m>>
      BY <3>2, TypeParts DEF TaskOK
    <3>4. buffer'[s] = <<m>> /\ task'[s] = "await" /\ UNCHANGED <<held, verdicts>>
      BY <2>3, <3>1, <3>2, <3>3, TypeParts DEF KafkaSend, SendInto, TaskOK, StreamOK, NothingOut
    <3>5. OnlyOut(s, m)'
      BY <3>1, <3>4 DEF OnlyOut, NothingOut
    <3>6. \A t \in Subs \ {s} : UNCHANGED <<task[t], buffer[t], held[t], verdicts[t]>>
      BY <2>3, <3>2, TypeParts DEF KafkaSend, SendInto, TaskOK, StreamOK
    <3>. QED
      BY <1>2, <3>3, <3>4, <3>5, <3>6
  <2>4. CASE KafkaCrash(s)
    <3>1. NothingOut(s)' /\ task'[s] # "await"
      BY <2>4, TypeParts DEF KafkaCrash, Die, NothingOut, TaskOK, StreamOK, HeldOK
    <3>2. \A t \in Subs \ {s} : UNCHANGED <<task[t], buffer[t], held[t], verdicts[t]>>
      BY <2>4, TypeParts DEF KafkaCrash, Die, TaskOK, StreamOK, HeldOK
    <3>. QED
      BY <1>2, <3>1, <3>2
  <2>5. ASSUME NEW m \in Ids, NEW d \in {"ack", "nack"}, task[s] = "await", Verdict(s, m, d),
               task' = [task EXCEPT ![s] = "recv"], UNCHANGED <<buffer, held>>
        PROVE  OneAtATime'
    <3>1. PICK n \in Ids : OnlyOut(s, n)
      BY <2>5 DEF OneAtATime
    <3>2. /\ buffer[s] = <<>> /\ verdicts[s] = {<<m, d>>} /\ \A k \in Ids : held[s][k] = 0
      BY <2>5, <3>1 DEF OnlyOut, Verdict
    <3>3. NothingOut(s)' /\ task'[s] # "await"
      BY <2>5, <3>2, TypeParts DEF Verdict, NothingOut, TaskOK, HeldOK
    <3>4. \A t \in Subs \ {s} : UNCHANGED <<task[t], buffer[t], held[t], verdicts[t]>>
      BY <2>5, TypeParts DEF Verdict, TaskOK, HeldOK
    <3>. QED
      BY <1>2, <3>3, <3>4
  <2>. QED
    BY <1>6, <2>1, <2>2, <2>3, <2>4, <2>5, BackendSteps DEF KafkaTask, Commit, Seek
<1>. QED
  BY <1>4, <1>5, <1>6, NextSteps

LEMMA CommittedStep ==
  ASSUME TypeOK, SentInOrder, InHand, Accounted, OneAtATime, Committed, Next
  PROVE  Committed'
<1>1. CASE kind # "kafka" \/ refused'
  BY <1>1, KindKept DEF Committed
<1>2. kind = "kafka" /\ refused => refused'
  <2>1. ASSUME NEW s \in Subs, kind = "kafka", ServerStep(s) PROVE refused => refused'
    BY <2>1, BackendSteps DEF KafkaTask, KafkaSubscribe, KafkaCrash, Die, KafkaReceive, KafkaSend,
       KafkaEnd, Commit, Seek, Assign, faultVars, histVars
  <2>2. ASSUME NEW s \in Subs, ConsumerStep(s) PROVE UNCHANGED refused
    BY <2>2 DEF ConsumerStep, Take, DropStream, Ack, Nack, faultVars, histVars
  <2>3. PublishStart \/ PublishErr \/ PublishEnd => UNCHANGED refused
    BY DEF PublishStart, PublishErr, PublishEnd, faultVars, histVars
  <2>4. (\E m \in Ids : Send(m)) => UNCHANGED refused
    BY DEF Send, AmqpPublish, StreamPublish, CorePublish, KafkaPublish, InsertChange,
       faultVars, histVars
  <2>. QED
    BY <1>1, <2>1, <2>2, <2>3, <2>4, NextSteps
<1> SUFFICES ASSUME kind = "kafka", ~refused PROVE Committed'
  BY <1>1, <1>2
\* An acked message stays acked, and what is stored next comes behind everything else.
<1>3. ASSUME done \subseteq done', log' = log,
             mark' = mark \/ DoneUpTo(mark'),
             \A s \in Subs, m \in Ids : InFlight(s, m)' => InFlight(s, m) \/ DoneUpTo(m - 1),
             \A s \in owner' : task'[s] # "off" /\ \A k \in log :
               task'[s] \in {"recv", "send", "await"} /\ k <= position'[s] =>
                 k \in done' \/ (task'[s] # "recv" /\ InFlight(s, k)')
      PROVE  Committed'
  BY <1>3 DEF Committed, DoneUpTo
<1>4. CASE PublishStart \/ PublishErr \/ PublishEnd
  BY <1>3, <1>4 DEF PublishStart, PublishErr, PublishEnd, srvVars, logVars, taskVars, leaseVars,
     Committed, InFlight
<1>5. ASSUME NEW m \in Ids, Send(m) PROVE Committed'
  <2>1. /\ log' = log \cup {m} /\ UNCHANGED <<mark, owner, taskVars, leaseVars>> /\ m \in sending
    BY <1>5 DEF Send, AmqpPublish, StreamPublish, CorePublish, KafkaPublish, InsertChange, IsMin
  <2>2. /\ mark < m /\ \A s \in Subs : position[s] < m
        /\ \A k \in handed : k < m
        /\ \A s \in Subs : \A k \in got[s] : k < m
    BY <2>1 DEF SentInOrder, Old
  <2>3. \A s \in Subs, k \in Ids : InFlight(s, k) => k < m
    BY <2>2, FlightKnown
  <2>4. UNCHANGED done /\ \A s \in Subs, k \in Ids : InFlight(s, k)' <=> InFlight(s, k)
    BY <2>1 DEF taskVars, leaseVars, InFlight
  <2>5. \A s \in Subs : position[s] \in 0..MaxId
    BY TypeParts DEF TaskOK
  <2>6. /\ DoneUpTo(mark)'
        /\ \A s \in Subs, k \in Ids : InFlight(s, k) => DoneUpTo(k - 1)'
    BY <2>1, <2>2, <2>3, <2>4, TypeParts DEF Committed, DoneUpTo, LogOK, Ids, taskVars
  <2>7. \A s \in owner : task[s] # "off" /\ \A k \in log' :
          task[s] \in {"recv", "send", "await"} /\ k <= position[s] =>
            k \in done \/ (task[s] # "recv" /\ InFlight(s, k))
    BY <2>1, <2>2, <2>5, TypeParts DEF Committed, LogOK, Ids
  <2>8. UNCHANGED <<kind, mark, owner, task, position>>
    BY <2>1, <1>5, KindKept, NextSteps DEF taskVars
  <2>9. \A s \in owner' : task'[s] # "off" /\ \A k \in log' :
          task'[s] \in {"recv", "send", "await"} /\ k <= position'[s] =>
            k \in done' \/ (task'[s] # "recv" /\ InFlight(s, k)')
    BY <2>1, <2>4, <2>7, <2>8, TypeParts DEF LogOK
  <2>10. \A s \in Subs, k \in Ids : InFlight(s, k)' => DoneUpTo(k - 1)'
    BY <2>4, <2>6
  <2>. QED
    BY <2>6, <2>9, <2>10 DEF Committed
<1>6. ASSUME NEW s \in Subs, ConsumerStep(s) PROVE Committed'
  <2>1. \A t \in Subs, k \in Ids : InFlight(t, k)' <=> InFlight(t, k)
    BY <1>6, FlightConsumed DEF Leased
  <2>2. done \subseteq done' /\ UNCHANGED <<srvVars, taskVars>>
    BY <1>6 DEF ConsumerStep, Take, DropStream, Ack, Nack
  <2>. QED
    BY <1>3, <2>1, <2>2, TypeParts DEF srvVars, logVars, taskVars, Committed, LogOK
<1>7. ASSUME NEW s \in Subs, ServerStep(s) PROVE Committed'
  <2> USE TypeParts DEF TaskOK, LogOK
  <2>1. CASE Assign(s)
    <3>1. /\ UNCHANGED <<got, leaseVars, log, mark, task>>
          /\ owner' = {s} /\ position'[s] = mark /\ Live(s)
      BY <2>1 DEF Assign
    <3>2. \A t \in Subs, k \in Ids : InFlight(t, k)' <=> InFlight(t, k)
      BY <3>1 DEF InFlight, leaseVars
    <3>. QED
      BY <1>3, <3>1, <3>2 DEF Committed, DoneUpTo, Live, leaseVars
  <2>2. CASE KafkaSubscribe(s)
    <3>1. /\ UNCHANGED <<got, leaseVars, log, mark, owner, position>> /\ s \notin owner
          /\ \A t \in Subs \ {s} : task'[t] = task[t]
      BY <2>2 DEF KafkaSubscribe, srvVars, logVars, Committed
    <3>2. \A t \in Subs, k \in Ids : InFlight(t, k)' <=> InFlight(t, k)
      BY <3>1 DEF InFlight, leaseVars
    <3>. QED
      BY <1>3, <3>1, <3>2 DEF Committed, leaseVars
  <2>3. ASSUME NEW m \in Ids, KafkaReceive(s, m) PROVE Committed'
    <3>1. /\ UNCHANGED <<leaseVars, log, mark, owner>> /\ s \in owner /\ task[s] = "recv"
          /\ got' = [got EXCEPT ![s] = {m}] /\ task'[s] = "send" /\ position'[s] = m
          /\ \A t \in Subs \ {s} : task'[t] = task[t] /\ position'[t] = position[t]
          /\ \A k \in log : k < m => k <= position[s]
      BY <2>3, TypeParts DEF KafkaReceive, Receive, srvVars, logVars, IsMin, Ids
    <3>2. DoneUpTo(m - 1)
      BY <3>1, TypeParts DEF Committed, DoneUpTo, Ids
    <3>3. /\ \A t \in Subs, k \in Ids : InFlight(t, k)' => InFlight(t, k) \/ k = m
          /\ InFlight(s, m)'
          /\ \A t \in Subs \ {s} : \A k \in Ids : InFlight(t, k)' <=> InFlight(t, k)
      BY <3>1 DEF InFlight, leaseVars
    <3>4. \A k \in log : k <= m => k \in done \/ k = m
      BY <3>2 DEF DoneUpTo, Ids
    <3>5. \A t \in owner : task'[t] # "off" /\ \A k \in log :
            task'[t] \in {"recv", "send", "await"} /\ k <= position'[t] =>
              k \in done \/ (task'[t] # "recv" /\ InFlight(t, k)')
      BY <3>1, <3>3, <3>4 DEF Committed
    <3>. QED
      BY <1>3, <3>1, <3>2, <3>3, <3>5 DEF leaseVars
  <2>4. CASE KafkaSend(s)
    <3>1. SendInto(s, "await") /\ UNCHANGED <<srvVars, position, done>> /\ task[s] = "send"
          /\ task' = [task EXCEPT ![s] = "await"]
      BY <2>4 DEF KafkaSend, SendInto
    <3>2. \A t \in Subs, k \in Ids : InFlight(t, k)' <=> InFlight(t, k)
      BY <3>1, FlightSent
    <3>. QED
      BY <1>3, <3>1, <3>2 DEF Committed, srvVars, logVars
  <2>5. CASE KafkaEnd(s)
    <3>1. /\ UNCHANGED <<leaseVars, log, mark, owner, position>>
          /\ TaskEnd(s) /\ task'[s] = "gone"
          /\ \A t \in Subs \ {s} : task'[t] = task[t] /\ got'[t] = got[t]
      BY <2>5 DEF KafkaEnd, TaskEnd, srvVars, logVars
    <3>2. /\ \A t \in Subs, k \in Ids : InFlight(t, k)' => InFlight(t, k)
          /\ \A t \in Subs \ {s}, k \in Ids : InFlight(t, k)' <=> InFlight(t, k)
      BY <3>1, FlightShrinks DEF InFlight, leaseVars
    <3>. QED
      BY <1>3, <3>1, <3>2 DEF Committed, leaseVars
  <2>6. CASE KafkaCrash(s)
    <3>1. /\ UNCHANGED <<log, mark, owner, position, done>> /\ Die(s) /\ task'[s] = "dead"
          /\ \A t \in Subs \ {s} : UNCHANGED <<task[t], got[t], buffer[t], held[t], verdicts[t]>>
      BY <2>6 DEF KafkaCrash, Die, srvVars, logVars, StreamOK, HeldOK
    <3>2. /\ \A t \in Subs, k \in Ids : InFlight(t, k)' => InFlight(t, k)
          /\ \A t \in Subs \ {s}, k \in Ids : InFlight(t, k)' <=> InFlight(t, k)
      BY <3>1, FlightShrinks DEF InFlight
    <3>. QED
      BY <1>3, <3>1, <3>2 DEF Committed
  <2>7. ASSUME NEW m \in Ids, Commit(s, m) \/ Seek(s, m) PROVE Committed'
    <3> DEFINE d == IF Commit(s, m) THEN "ack" ELSE "nack"
    <3>1. /\ Verdict(s, m, d) /\ task[s] = "await" /\ task' = [task EXCEPT ![s] = "recv"]
          /\ UNCHANGED <<log, owner, got, buffer, held, dropped, done>>
      BY <2>7 DEF Commit, Seek, srvVars, logVars
    <3>2. d \in {"ack", "nack"} /\ <<m, d>> \in verdicts[s]
      BY <3>1 DEF Verdict
    <3>3. /\ \A t \in Subs, k \in Ids : InFlight(t, k)' => InFlight(t, k)
          /\ \A t \in Subs \ {s}, k \in Ids : InFlight(t, k)' <=> InFlight(t, k)
      BY <3>1, <3>2, FlightShrinks DEF InFlight, Verdict, HeldOK
    <3>4. DoneUpTo(m - 1)
      BY <3>2 DEF Committed, InFlight
    \* Only the message that was answered was on its way.
    <3>5. \A k \in Ids : InFlight(s, k) => k = m
      <4>1. PICK n \in Ids : OnlyOut(s, n)
        BY <3>1 DEF OneAtATime
      <4>2. /\ got[s] = {} /\ verdicts[s] = {<<m, d>>} /\ buffer[s] = <<>>
            /\ \A k \in Ids : held[s][k] = 0
        BY <3>1, <3>2, <4>1 DEF OnlyOut, InHand
      <4>. QED
        BY <4>2, EmptyFacts DEF InFlight
    <3>6. CASE Commit(s, m)
      <4>1. m \in done
        BY <3>2, <3>6 DEF Accounted
      <4>2. DoneUpTo(m)
        BY <3>4, <4>1 DEF DoneUpTo, Ids
      <4>3. (mark' = mark \/ DoneUpTo(mark')) /\ UNCHANGED position
        BY <3>6, <4>2 DEF Commit
      <4>4. \A t \in owner : task'[t] # "off" /\ \A k \in log :
              task'[t] \in {"recv", "send", "await"} /\ k <= position[t] =>
                k \in done \/ (task'[t] # "recv" /\ InFlight(t, k)')
        BY <3>1, <3>3, <3>5, <4>1 DEF Committed
      <4>. QED
        BY <1>3, <3>1, <3>3, <4>3, <4>4
    <3>7. CASE Seek(s, m) /\ ~refused'
      <4>1. /\ UNCHANGED mark
            /\ position' = [position EXCEPT ![s] = IF s \in owner THEN m - 1 ELSE @]
        BY <3>7 DEF Seek, srvVars, logVars
      <4>2. m - 1 \in Int /\ \A k \in log : k <= m - 1 => k \in done
        BY <3>4 DEF DoneUpTo, Ids
      <4>3. \A t \in owner : task'[t] # "off" /\ \A k \in log :
              task'[t] \in {"recv", "send", "await"} /\ k <= position'[t] =>
                k \in done \/ (task'[t] # "recv" /\ InFlight(t, k)')
        BY <3>1, <3>3, <4>1, <4>2 DEF Committed
      <4>. QED
        BY <1>3, <3>1, <3>3, <4>1, <4>3
    <3>. QED
      BY <1>1, <2>7, <3>6, <3>7
  <2>. QED
    BY <1>7, <2>1, <2>2, <2>3, <2>4, <2>5, <2>6, <2>7, BackendSteps DEF KafkaTask
<1>. QED
  BY <1>4, <1>5, <1>6, <1>7, NextSteps

-----------------------------------------------------------------------------
(* The change streams of MongoDB.                                          *)

LEMMA PassedStep ==
  ASSUME TypeOK, SentInOrder, InHand, Passed, Next
  PROVE  Passed'
<1>1. CASE kind # "changes"
  BY <1>1, KindKept DEF Passed
<1> SUFFICES ASSUME kind = "changes" PROVE Passed'
  BY <1>1
<1>2. CASE UNCHANGED <<logVars, taskVars, skipped>>
  BY <1>2, KindKept DEF Passed, logVars, taskVars
<1>3. CASE PublishStart \/ PublishErr \/ PublishEnd
  BY <1>2, <1>3 DEF PublishStart, PublishErr, PublishEnd, srvVars, faultVars, histVars
<1>4. ASSUME NEW m \in Ids, Send(m) PROVE Passed'
  <2>1. /\ InsertChange(m) /\ log' = log \cup {m} /\ m \in sending
        /\ UNCHANGED <<kind, mark, taskVars, skipped>>
    BY <1>4, BackendSends DEF InsertChange, IsMin, faultVars, histVars
  <2>2. mark < m /\ \A s \in Subs : position[s] < m
    BY <2>1 DEF SentInOrder, Old
  <2>. QED
    BY <2>1, <2>2, TypeParts DEF Passed, taskVars, LogOK, TaskOK, Ids
<1>5. ASSUME NEW s \in Subs, ConsumerStep(s) PROVE Passed'
  BY <1>2, <1>5 DEF ConsumerStep, Take, DropStream, Ack, Nack, srvVars, faultVars, histVars
<1>6. ASSUME NEW s \in Subs, ServerStep(s) PROVE Passed'
  <2> USE TypeParts DEF Passed, TaskOK, LogOK
  <2>1. CASE Watch(s)
    <3>1. /\ UNCHANGED <<kind, log, mark, got, handed>> /\ task' = [task EXCEPT ![s] = "recv"]
          /\ \/ position' = [position EXCEPT ![s] = mark] /\ UNCHANGED skipped
             \/ /\ position' = [position EXCEPT ![s] = Max(log \cup {0})]
                /\ skipped' = skipped \cup log
      BY <2>1 DEF Watch, pubVars, srvVars, logVars
    <3>. QED
      BY <3>1
  <2>2. ASSUME NEW m \in Ids, NextChange(s, m) PROVE Passed'
    <3>1. /\ UNCHANGED <<kind, log, mark, handed, skipped>> /\ task[s] = "recv" /\ got[s] = {}
          /\ task' = [task EXCEPT ![s] = "send"] /\ got' = [got EXCEPT ![s] = {m}]
          /\ position' = [position EXCEPT ![s] = m]
          /\ \A k \in log : k < m => k <= position[s]
      BY <2>2 DEF NextChange, Receive, IsMin, InHand, pubVars, srvVars, logVars, faultVars,
         histVars, Ids
    <3>2. \A k \in log : k <= m => k < m \/ k = m
      BY DEF Ids
    <3>. QED
      BY <3>1, <3>2
  <2>3. CASE ChangeSend(s)
    <3>1. /\ UNCHANGED <<kind, log, mark, position, skipped>> /\ task[s] = "send"
          /\ task' = [task EXCEPT ![s] = "store"] /\ handed' = handed \cup got[s]
          /\ got' = [got EXCEPT ![s] = {}]
      BY <2>3 DEF ChangeSend, SendInto, pubVars, srvVars, logVars, faultVars, histVars
    <3>. QED
      BY <3>1
  <2>4. CASE StoreToken(s)
    <3>1. /\ UNCHANGED <<kind, log, position, got, handed, skipped>>
          /\ task[s] = "store" /\ got[s] = {}
          /\ mark' \in {mark, position[s]} /\ task' = [task EXCEPT ![s] = "recv"]
      BY <2>4 DEF StoreToken, InHand, pubVars, histVars
    <3>. QED
      BY <3>1
  <2>5. CASE ChangeEnd(s) \/ ChangeErr(s) \/ ChangeCrash(s)
    <3>1. /\ UNCHANGED <<kind, log, mark, position, handed, skipped>>
          /\ task' \in {[task EXCEPT ![s] = "gone"], [task EXCEPT ![s] = "dead"]}
          /\ got' \in {got, [got EXCEPT ![s] = {}]}
      BY <2>5 DEF ChangeEnd, TaskEnd, ChangeErr, ChangeCrash, Die, pubVars, srvVars, logVars,
         faultVars, histVars
    <3>. QED
      BY <3>1
  <2>. QED
    BY <1>6, <2>1, <2>2, <2>3, <2>4, <2>5, BackendSteps DEF ChangeTask
<1>. QED
  BY <1>3, <1>4, <1>5, <1>6, NextSteps

-----------------------------------------------------------------------------
(* Core NATS.                                                              *)

LEMMA OnceAtMostStep ==
  ASSUME TypeOK, SentInOrder, InHand, OnceAtMost, Next
  PROVE  OnceAtMost'
<1>1. CASE kind # "core"
  BY <1>1, KindKept DEF OnceAtMost
<1> SUFFICES ASSUME kind = "core" PROVE OnceAtMost'
  BY <1>1
<1>2. CASE UNCHANGED <<out, got, handed>>
  BY <1>2, KindKept DEF OnceAtMost
<1>3. CASE PublishStart \/ PublishErr \/ PublishEnd
  BY <1>2, <1>3 DEF PublishStart, PublishErr, PublishEnd, srvVars, taskVars
<1>4. ASSUME NEW m \in Ids, Send(m) PROVE OnceAtMost'
  <2>1. /\ CorePublish(m) /\ m \in sending /\ UNCHANGED <<kind, got, handed>>
        /\ UNCHANGED out \/ \E s \in Subs : out' = [out EXCEPT ![s] = @ \cup {m}]
    BY <1>4, BackendSends DEF CorePublish, IsMin, taskVars
  <2>2. \A s \in Subs : m \notin handed \cup out[s] \cup got[s]
    BY <2>1, TypeParts DEF SentInOrder, Old, Ids
  <2>. QED
    BY <2>1, <2>2, TypeParts DEF OnceAtMost, QueueOK
<1>5. ASSUME NEW s \in Subs, ConsumerStep(s) PROVE OnceAtMost'
  BY <1>2, <1>5 DEF ConsumerStep, Take, DropStream, Ack, Nack, srvVars, taskVars
<1>6. ASSUME NEW s \in Subs, ServerStep(s) PROVE OnceAtMost'
  <2> USE TypeParts DEF OnceAtMost, TaskOK, QueueOK
  <2>1. CASE CoreSubscribe(s)
    BY <1>2, <2>1 DEF CoreSubscribe, srvVars
  <2>2. ASSUME NEW m \in Ids, CoreReceive(s, m) PROVE OnceAtMost'
    BY <2>2 DEF CoreReceive, Receive, IsMin, pubVars
  <2>3. CASE CoreSend(s)
    <3>1. /\ UNCHANGED <<kind, out>> /\ handed' = handed \cup got[s]
          /\ got' = [got EXCEPT ![s] = {}]
      BY <2>3 DEF CoreSend, SendInto, pubVars, srvVars
    <3>. QED
      BY <3>1
  <2>4. CASE CoreEnd(s) \/ CoreLost(s) \/ CoreCrash(s)
    <3>1. UNCHANGED <<kind, handed>> /\ out' = [out EXCEPT ![s] = {}]
          /\ got' \in {got, [got EXCEPT ![s] = {}]}
      BY <2>4 DEF CoreEnd, TaskEnd, CoreLost, CoreCrash, Die, Unsubscribed, pubVars
    <3>. QED
      BY <3>1
  <2>. QED
    BY <1>6, <2>1, <2>2, <2>3, <2>4, BackendSteps DEF CoreTask
<1>. QED
  BY <1>3, <1>4, <1>5, <1>6, NextSteps

-----------------------------------------------------------------------------
(* AMQP and JetStream.                                                     *)

Queueing == kind \in {"amqp", "jetstream"}

LEMMA QueuedStep ==
  ASSUME TypeOK, SentInOrder, Accounted, Queued, Next
  PROVE  Queued'
<1>1. CASE ~Queueing
  BY <1>1, KindKept DEF Queued, Queueing
<1> SUFFICES ASSUME Queueing PROVE Queued'
  BY <1>1
<1>2. CASE UNCHANGED <<log, ready, out>> /\ done \subseteq done'
  BY <1>2, KindKept DEF Queued
<1>3. CASE PublishStart \/ PublishErr \/ PublishEnd
  BY <1>2, <1>3 DEF PublishStart, PublishErr, PublishEnd, srvVars, logVars, leaseVars
<1>4. ASSUME NEW m \in Ids, Send(m) PROVE Queued'
  <2>1. /\ m \in sending /\ UNCHANGED <<kind, out, done>>
        /\ \/ UNCHANGED <<log, ready>>
           \/ log' = log \cup {m} /\ ready' = ready \cup {m}
    BY <1>4, BackendSends DEF Queueing, AmqpPublish, StreamPublish, IsMin, leaseVars
  <2>2. \A s \in Subs : m \notin out[s]
    BY <2>1, TypeParts DEF SentInOrder, Old, Ids
  <2>. QED
    BY <2>1, <2>2 DEF Queued
<1>5. ASSUME NEW s \in Subs, ConsumerStep(s) PROVE Queued'
  BY <1>2, <1>5 DEF ConsumerStep, Take, DropStream, Ack, Nack, srvVars, logVars
\* What is unacked on s is requeued.
<1>6. ASSUME NEW s \in Subs, Requeue(s), UNCHANGED <<kind, log, done>> PROVE Queued'
  BY <1>6, TypeParts DEF Queued, Requeue, QueueOK
\* A message of the queue is delivered to s.
<1>7. ASSUME NEW s \in Subs, NEW m \in ready, ready' = ready \ {m},
             out' = [out EXCEPT ![s] = @ \cup {m}], UNCHANGED <<kind, log, done>>
      PROVE  Queued'
  BY <1>7, TypeParts DEF Queued, QueueOK
\* A delivery is over: the message is acked or back in the queue.
<1>8. ASSUME NEW s \in Subs, NEW m \in Ids, out' = [out EXCEPT ![s] = @ \ {m}],
             \/ UNCHANGED ready /\ (m \in done \/ m \notin out[s])
             \/ m \in out[s] /\ ready' = ready \cup {m},
             UNCHANGED <<kind, log, done>>
      PROVE  Queued'
  BY <1>8, TypeParts DEF Queued, QueueOK
<1>9. ASSUME NEW s \in Subs, NEW m \in Ids, <<m, "ack">> \in verdicts[s] PROVE m \in done
  BY <1>9 DEF Accounted
<1>10. ASSUME NEW s \in Subs, ServerStep(s), kind = "amqp" PROVE Queued'
  <2>1. CASE AmqpSubscribe(s) \/ AmqpSend(s)
    BY <1>2, <2>1 DEF AmqpSubscribe, AmqpSend, SendInto, srvVars, logVars, leaseVars
  <2>2. CASE AmqpEnd(s) \/ AmqpLost(s) \/ AmqpCrash(s)
    BY <1>6, <2>2 DEF AmqpEnd, AmqpLost, AmqpCrash, Die, pubVars, logVars, leaseVars
  <2>3. ASSUME NEW m \in Ids, AmqpReceive(s, m) PROVE Queued'
    BY <1>7, <2>3 DEF AmqpReceive, IsMin, pubVars, logVars, leaseVars
  <2>4. ASSUME NEW m \in Ids, NEW d \in {"ack", "nack"}, AmqpVerdict(s, m, d) PROVE Queued'
    BY <1>8, <1>9, <2>4 DEF AmqpVerdict, Verdict, pubVars, logVars
  <2>. QED
    BY <1>10, <2>1, <2>2, <2>3, <2>4, BackendSteps DEF AmqpTask
<1>11. ASSUME NEW s \in Subs, ServerStep(s), kind = "jetstream" PROVE Queued'
  <2>1. CASE \/ StreamSubscribe(s) \/ StreamSend(s) \/ StreamEnd(s)
             \/ StreamLost(s) \/ StreamCrash(s)
    BY <1>2, <2>1 DEF StreamSubscribe, StreamSend, SendInto, StreamEnd, StreamLost,
       StreamCrash, Die,
       srvVars, logVars, leaseVars
  <2>2. ASSUME NEW m \in Ids, StreamReceive(s, m) PROVE Queued'
    BY <1>7, <2>2 DEF StreamReceive, IsMin, pubVars, logVars, leaseVars
  <2>3. ASSUME NEW m \in Ids, AckWait(s, m) PROVE Queued'
    BY <1>8, <2>3 DEF AckWait, pubVars, logVars, leaseVars
  <2>4. ASSUME NEW m \in Ids, NEW d \in {"ack", "nack"}, StreamVerdict(s, m, d) PROVE Queued'
    <3>1. UNCHANGED <<kind, log, done>> /\ <<m, d>> \in verdicts[s]
      BY <2>4 DEF StreamVerdict, Verdict, pubVars, logVars
    <3>2. CASE d = "ack" /\ out' = [t \in Subs |-> out[t] \ {m}] /\ ready' = ready \ {m}
      BY <1>9, <3>1, <3>2, TypeParts DEF Queued, QueueOK
    <3>3. CASE /\ out' = [out EXCEPT ![s] = @ \ {m}]
               /\ ready' = IF m \in out[s] THEN ready \cup {m} ELSE ready
      BY <1>8, <3>1, <3>3
    <3>. QED
      BY <1>2, <2>4, <3>1, <3>2, <3>3 DEF StreamVerdict
  <2>. QED
    BY <1>11, <2>1, <2>2, <2>3, <2>4, BackendSteps DEF StreamTask
<1>. QED
  BY <1>3, <1>4, <1>5, <1>10, <1>11, NextSteps DEF Queueing

\* A subscription of AMQP whose channel was closed.
Apart(s) == kind = "amqp" /\ task[s] = "gone"

Lease(s) == OneCopy(s) /\ \A m \in Ids : InFlight(s, m) => m \in out[s]

\* The consumer keeps one copy of each message.
LEMMA OneCopyConsumed ==
  ASSUME TypeOK, Leased, NEW s \in Subs, ConsumerStep(s), OneCopy(s)
  PROVE  OneCopy(s)'
<1> USE TypeParts DEF OneCopy
<1>1. CASE Take(s)
  <2>1. PICK m \in Ids : \E r \in Seq(Ids) :
          /\ buffer[s] # <<>> /\ m = Head(buffer[s]) /\ r = Tail(buffer[s])
          /\ Range(buffer[s]) = {m} \cup Range(r)
          /\ buffer' = [buffer EXCEPT ![s] = r]
          /\ held' = [held EXCEPT ![s][m] = @ + 1]
    BY <1>1, Taken
  <2>2. PICK q \in Seq(Ids) : q = buffer[s]
    BY DEF StreamOK
  <2>3. PICK r \in Seq(Ids) : r = Tail(q) /\ Range(q) = {m} \cup Range(r) /\ buffer'[s] = r
    BY <2>1, <2>2 DEF StreamOK
  <2>4. Distinct(r) /\ m \notin Range(r)
    BY <2>1, <2>2, <2>3, TailDistinct
  <2>5. /\ held[s][m] = 0 /\ held'[s][m] = 1
        /\ \A k \in Ids \ {m} : held'[s][k] = held[s][k]
    BY <2>1, <2>2, <2>3 DEF HeldOK
  <2>6. UNCHANGED <<got, verdicts>>
    BY <1>1 DEF Take, taskVars
  <2>7. m \in Range(q) /\ \A k \in Range(r) : k \in Range(q) /\ k # m
    BY <2>3, <2>4
  <2>11. Range(q) \subseteq Ids
    BY <2>2 DEF Range
  <2>8. ASSUME NEW k \in Ids PROVE held'[s][k] <= 1
    <3>1. held[s][k] <= 1
      OBVIOUS
    <3>. QED
      BY <2>5, <3>1
  <2>9. \A v \in verdicts[s] : v[1] \in Ids
    BY DEF HeldOK
  <2>10. \A k \in got[s] : k \in Ids
    BY DEF TaskOK
  <2>. QED
    BY <2>2, <2>3, <2>4, <2>5, <2>6, <2>7, <2>8, <2>9, <2>10, <2>11
<1>2. CASE DropStream(s)
  <2>1. /\ UNCHANGED <<held, got>> /\ buffer'[s] = <<>>
        /\ verdicts'[s] = verdicts[s] \cup (Range(buffer[s]) \X {"nack"})
    BY <1>2 DEF DropStream, taskVars, StreamOK, HeldOK
  <2>2. Distinct(<<>>) /\ Range(<<>>) = {}
    BY EmptyFacts, EmptyDistinct
  <2>3. \A v \in verdicts'[s] : v \in verdicts[s] \/ \E k \in Range(buffer[s]) : v = <<k, "nack">>
    BY <2>1
  <2>. QED
    BY <2>1, <2>2, <2>3
<1>3. ASSUME NEW m \in Ids, NEW d \in {"ack", "nack"},
             \/ d = "ack" /\ Ack(s, m)
             \/ d = "nack" /\ Nack(s, m)
      PROVE  OneCopy(s)'
  <2>1. /\ UNCHANGED <<buffer, got>> /\ held[s][m] > 0 /\ held' = [held EXCEPT ![s][m] = @ - 1]
        /\ verdicts'[s] = verdicts[s] \cup {<<m, d>>}
    BY <1>3 DEF Ack, Nack, Answer, taskVars, HeldOK
  <2>2. /\ held[s][m] = 1 /\ held'[s][m] = 0
        /\ \A k \in Ids \ {m} : held'[s][k] = held[s][k]
    BY <2>1 DEF HeldOK
  <2>3. /\ Range(buffer[s]) \subseteq Ids /\ got[s] \subseteq Ids
        /\ \A v \in verdicts[s] : v[1] \in Ids
    BY DEF StreamOK, TaskOK, HeldOK, Range
  <2>4. m \notin got[s] \cup Range(buffer[s]) /\ \A v \in verdicts[s] : v[1] # m
    BY <2>2
  <2>. QED
    BY <2>1, <2>2, <2>3, <2>4
<1>. QED
  BY <1>1, <1>2, <1>3 DEF ConsumerStep

\* So does a task: it has received what was not on its way through the subscription.
LEMMA LeaseReceived ==
  ASSUME TypeOK, NEW s \in Subs, NEW m \in Ids, got[s] = {}, m \notin out[s],
         got'[s] = {m}, out'[s] = out[s] \cup {m}, UNCHANGED leaseVars, Lease(s)
  PROVE  Lease(s)'
<1>1. ~InFlight(s, m)
  BY DEF Lease
<1>2. \A v \in verdicts[s] : v[1] # m
  BY <1>1, TypeParts DEF InFlight, HeldOK
<1>3. held[s][m] = 0 /\ m \notin Range(buffer[s])
  BY <1>1, TypeParts DEF InFlight, HeldOK
<1>4. OneCopy(s)'
  BY <1>2, <1>3 DEF Lease, OneCopy, leaseVars
<1>5. \A k \in Ids : InFlight(s, k)' => InFlight(s, k) \/ k = m
  BY DEF InFlight, leaseVars
<1>. QED
  BY <1>4, <1>5 DEF Lease

LEMMA LeaseSent ==
  ASSUME TypeOK, InHand, NEW s \in Subs, NEW state, SendInto(s, state), UNCHANGED out, Lease(s)
  PROVE  Lease(s)'
<1>1. PICK m \in Ids : \E r \in Seq(Ids) :
        /\ got[s] = {m} /\ r = Append(buffer[s], m)
        /\ Range(r) = Range(buffer[s]) \cup {m} /\ buffer' = [buffer EXCEPT ![s] = r]
  BY SentInto
<1>2. PICK q \in Seq(Ids) : q = buffer[s]
  BY TypeParts DEF StreamOK
<1>3. PICK r \in Seq(Ids) : r = Append(q, m) /\ Range(r) = Range(q) \cup {m} /\ buffer'[s] = r
  BY <1>1, <1>2, TypeParts DEF StreamOK
<1>4. m \notin Range(q) /\ held[s][m] = 0 /\ Distinct(q)
  BY <1>1, <1>2 DEF Lease, OneCopy
<1>5. Distinct(r)
  BY <1>2, <1>3, <1>4, AppendDistinct
<1>6. got'[s] = {} /\ UNCHANGED <<held, verdicts>>
  BY TypeParts DEF SendInto, TaskOK
<1>7. OneCopy(s)'
  BY <1>1, <1>2, <1>3, <1>4, <1>5, <1>6 DEF Lease, OneCopy
<1>. QED
  BY <1>7, FlightSent DEF Lease

\* An answered message is not on its way any more.
LEMMA LeaseAnswered ==
  ASSUME TypeOK, NEW s \in Subs, NEW m \in Ids, NEW d \in {"ack", "nack"}, Verdict(s, m, d),
         UNCHANGED <<got, buffer, held>>, out[s] \ {m} \subseteq out'[s], Lease(s)
  PROVE  Lease(s)' /\ m \in out[s]
<1>1. <<m, d>> \in verdicts[s] /\ verdicts'[s] = verdicts[s] \ {<<m, d>>}
  BY TypeParts DEF Verdict, HeldOK
<1>2. OneCopy(s)'
  BY <1>1 DEF Lease, OneCopy
<1>3. /\ m \notin got[s] \cup Range(buffer[s]) /\ held[s][m] = 0
      /\ \A c \in {"ack", "nack"} : <<m, c>> \in verdicts[s] => c = d
  BY <1>1 DEF Lease, OneCopy
<1>4. ~InFlight(s, m)'
  BY <1>1, <1>3 DEF InFlight
<1>5. \A k \in Ids : InFlight(s, k)' => InFlight(s, k)
  BY <1>1 DEF InFlight
<1>6. InFlight(s, m)
  BY <1>1 DEF InFlight
<1>. QED
  BY <1>2, <1>4, <1>5, <1>6 DEF Lease

LEMMA LeaseEmptied ==
  ASSUME NEW s \in Subs, got'[s] = {}, buffer'[s] = <<>>, verdicts'[s] = {},
         \A m \in Ids : held'[s][m] = 0
  PROVE  Lease(s)'
<1>1. Distinct(<<>>) /\ Range(<<>>) = {}
  BY EmptyFacts, EmptyDistinct
<1>. QED
  BY <1>1 DEF Lease, OneCopy, InFlight

LEMMA LeasesStep ==
  ASSUME TypeOK, InHand, Queued, Leases, Next
  PROVE  Leases'
<1>1. CASE ~Queueing
  BY <1>1, KindKept DEF Leases, Queueing
<1> SUFFICES ASSUME Queueing PROVE Leases'
  BY <1>1
<1>2. late => late'
  <2>1. ASSUME NEW s \in Subs, ServerStep(s) PROVE late => late'
    BY <2>1, BackendSteps DEF Queueing, AmqpSubscribe, AmqpTask, AmqpReceive, AmqpSend,
       AmqpEnd, AmqpCrash,
       AmqpLost, AmqpVerdict, StreamSubscribe, StreamTask, StreamReceive, StreamSend, StreamEnd,
       StreamCrash, StreamLost, StreamVerdict, AckWait, Die, faultVars, histVars
  <2>2. ASSUME NEW s \in Subs, ConsumerStep(s) PROVE UNCHANGED late
    BY <2>2 DEF ConsumerStep, Take, DropStream, Ack, Nack, faultVars, histVars
  <2>3. PublishStart \/ PublishErr \/ PublishEnd => UNCHANGED late
    BY DEF PublishStart, PublishErr, PublishEnd, faultVars, histVars
  <2>4. (\E m \in Ids : Send(m)) => UNCHANGED late
    BY DEF Send, AmqpPublish, StreamPublish, CorePublish, KafkaPublish, InsertChange,
       faultVars, histVars
  <2>. QED
    BY <2>1, <2>2, <2>3, <2>4, NextSteps
<1> SUFFICES ASSUME ~late' PROVE Leases'
  BY DEF Leases
<1>3. \A s \in Subs : Apart(s) \/ Lease(s)
  BY <1>2 DEF Leases, Queueing, Apart, Lease
\* What happens to one subscription leaves the others alone.
<1>4. ASSUME NEW s \in Subs, Apart(s)' \/ Lease(s)',
             \A t \in Subs \ {s} :
               /\ UNCHANGED <<task[t], got[t], buffer[t], held[t], verdicts[t]>>
               /\ \A m \in Ids : Lease(t) /\ m \in out[t] /\ InFlight(t, m) => m \in out'[t]
      PROVE  Leases'
  <2>1. ASSUME NEW t \in Subs, t # s PROVE Apart(t)' \/ Lease(t)'
    <3>1. (Apart(t) <=> Apart(t)') /\ (OneCopy(t) <=> OneCopy(t)')
          /\ \A m \in Ids : InFlight(t, m) <=> InFlight(t, m)'
      BY <1>4, <2>1, KindKept DEF Apart, OneCopy, InFlight
    <3>. QED
      BY <1>3, <1>4, <2>1, <3>1 DEF Lease
  <2>. QED
    BY <1>4, <2>1 DEF Leases, Lease, Apart
<1>5. CASE UNCHANGED <<out, taskVars, leaseVars>>
  BY <1>3, <1>5, KindKept DEF Leases, Lease, Apart, OneCopy, InFlight, taskVars, leaseVars
<1>6. CASE PublishStart \/ PublishErr \/ PublishEnd
  BY <1>5, <1>6 DEF PublishStart, PublishErr, PublishEnd, srvVars
<1>7. ASSUME NEW m \in Ids, Send(m) PROVE Leases'
  BY <1>5, <1>7, BackendSends DEF Queueing, AmqpPublish, StreamPublish
<1>8. ASSUME NEW s \in Subs, ConsumerStep(s) PROVE Leases'
  <2>1. /\ UNCHANGED <<srvVars, taskVars>>
        /\ \A t \in Subs \ {s} : UNCHANGED <<buffer[t], held[t], verdicts[t]>>
    BY <1>8, TypeParts DEF ConsumerStep, Take, DropStream, Ack, Nack, Answer, StreamOK, HeldOK
  <2>2. Apart(s)' \/ Lease(s)'
    BY <1>3, <1>8, <2>1, OneCopyConsumed, FlightConsumed, KindKept
       DEF Apart, Lease, Leased, Queueing, taskVars, srvVars
  <2>. QED
    BY <1>4, <2>1, <2>2 DEF srvVars, taskVars
<1>9. ASSUME NEW s \in Subs, ServerStep(s) PROVE Leases'
  <2> USE TypeParts DEF TaskOK, QueueOK
  <2>1. CASE AmqpSubscribe(s) \/ StreamSubscribe(s) \/ StreamLost(s)
    <3>1. /\ UNCHANGED <<out, got, leaseVars>> /\ ~Apart(s)
          /\ \A t \in Subs \ {s} : task'[t] = task[t]
      BY <2>1 DEF AmqpSubscribe, StreamSubscribe, StreamLost, srvVars, Apart
    <3>2. Lease(s)'
      BY <1>3, <3>1 DEF Lease, OneCopy, InFlight, leaseVars
    <3>. QED
      BY <1>4, <3>1, <3>2 DEF leaseVars
  <2>2. ASSUME NEW m \in Ids, AmqpReceive(s, m) \/ StreamReceive(s, m) PROVE Leases'
    <3>1. /\ UNCHANGED leaseVars /\ task[s] = "recv" /\ m \in ready
          /\ got' = [got EXCEPT ![s] = {m}] /\ task' = [task EXCEPT ![s] = "send"]
          /\ out' = [out EXCEPT ![s] = @ \cup {m}]
      BY <2>2 DEF AmqpReceive, StreamReceive, Receive, IsMin
    <3>2. got[s] = {} /\ m \notin out[s] /\ Lease(s)
      BY <1>3, <3>1 DEF InHand, Queued, Queueing, Apart
    <3>3. Lease(s)'
      BY <3>1, <3>2, LeaseReceived
    <3>. QED
      BY <1>4, <3>1, <3>3 DEF leaseVars
  <2>3. CASE AmqpSend(s) \/ StreamSend(s)
    <3>1. SendInto(s, "recv") /\ UNCHANGED out
      BY <2>3 DEF AmqpSend, StreamSend, srvVars
    <3>2. Lease(s)'
      BY <1>3, <3>1, LeaseSent DEF SendInto, Apart
    <3>3. \A t \in Subs \ {s} : UNCHANGED <<task[t], got[t], buffer[t], held[t], verdicts[t]>>
      BY <3>1 DEF SendInto, StreamOK
    <3>. QED
      BY <1>4, <3>1, <3>2, <3>3
  <2>4. CASE StreamEnd(s)
    <3>1. /\ UNCHANGED <<out, leaseVars>> /\ TaskEnd(s) /\ got'[s] = {} /\ task[s] # "gone"
          /\ \A t \in Subs \ {s} : UNCHANGED <<task[t], got[t]>>
      BY <2>4 DEF StreamEnd, TaskEnd, srvVars
    <3>2. Lease(s)'
      BY <1>3, <3>1, FlightShrinks DEF Lease, OneCopy, leaseVars, Apart
    <3>. QED
      BY <1>4, <3>1, <3>2 DEF leaseVars
  <2>5. CASE AmqpEnd(s) \/ AmqpLost(s)
    <3>1. /\ UNCHANGED leaseVars /\ Apart(s)'
          /\ \A t \in Subs \ {s} : UNCHANGED <<task[t], got[t], out[t]>>
      BY <2>5 DEF AmqpEnd, AmqpLost, TaskEnd, Requeue, Apart, pubVars
    <3>. QED
      BY <1>4, <3>1 DEF leaseVars
  <2>6. CASE AmqpCrash(s) \/ StreamCrash(s)
    <3>1. /\ \A t \in Subs \ {s} :
               UNCHANGED <<task[t], got[t], buffer[t], held[t], verdicts[t], out[t]>>
          /\ got'[s] = {} /\ buffer'[s] = <<>> /\ verdicts'[s] = {}
          /\ \A m \in Ids : held'[s][m] = 0
      BY <2>6 DEF AmqpCrash, StreamCrash, Die, Requeue, srvVars, StreamOK, HeldOK
    <3>. QED
      BY <1>4, <3>1, LeaseEmptied
  <2>7. ASSUME NEW m \in Ids, NEW d \in {"ack", "nack"},
               AmqpVerdict(s, m, d) \/ StreamVerdict(s, m, d)
        PROVE  Leases'
    <3>1. /\ Verdict(s, m, d) /\ UNCHANGED <<task, got, buffer, held>>
          /\ out[s] \ {m} \subseteq out'[s]
          /\ \A t \in Subs \ {s} : verdicts'[t] = verdicts[t] /\ out[t] \ {m} \subseteq out'[t]
          /\ out' = [out EXCEPT ![s] = @ \ {m}] \/ kind = "jetstream"
      BY <2>7 DEF AmqpVerdict, StreamVerdict, Verdict, taskVars, HeldOK
    <3>2. CASE Apart(s)
      BY <1>4, <3>1, <3>2, KindKept DEF Apart
    <3>3. CASE Lease(s)
      <4>1. Lease(s)' /\ m \in out[s]
        BY <3>1, <3>3, LeaseAnswered
      <4>2. \A t \in Subs \ {s} : m \notin out[t]
        BY <4>1 DEF Queued, Queueing
      <4>. QED
        BY <1>4, <3>1, <4>1, <4>2
    <3>. QED
      BY <1>3, <3>2, <3>3
  <2>8. ASSUME NEW m \in Ids, AckWait(s, m) PROVE Leases'
    <3>1. /\ UNCHANGED <<taskVars, leaseVars>> /\ ~InFlight(s, m) /\ kind = "jetstream"
          /\ out' = [out EXCEPT ![s] = @ \ {m}]
      BY <2>8 DEF AckWait
    <3>2. Lease(s)'
      BY <1>3, <3>1 DEF Lease, OneCopy, InFlight, taskVars, leaseVars, Apart
    <3>. QED
      BY <1>4, <3>1, <3>2 DEF taskVars, leaseVars
  <2>. QED
    BY <1>9, <2>1, <2>2, <2>3, <2>4, <2>5, <2>6, <2>7, <2>8, BackendSteps
       DEF Queueing, AmqpTask, StreamTask
<1>. QED
  BY <1>6, <1>7, <1>8, <1>9, NextSteps

-----------------------------------------------------------------------------
(* The invariant, and what it says.                                        *)

LEMMA InductiveInvariant == Spec => []IInv
<1>1. Init => SentInOrder /\ InHand /\ Accounted /\ Reported /\ Passed /\ Queued /\ OnceAtMost
  <2> SUFFICES ASSUME Init
               PROVE  /\ SentInOrder /\ InHand /\ Accounted /\ Reported
                      /\ Passed /\ Queued /\ OnceAtMost
    OBVIOUS
  <2>1. SentInOrder /\ InHand /\ Reported /\ Passed /\ Queued /\ OnceAtMost
    BY BrokerAssumption DEF Init, SentInOrder, Old, InHand, Reported, Passed, Queued, OnceAtMost
  <2>2. Accounted
    BY EmptyFacts DEF Init, Accounted
  <2>. QED
    BY <2>1, <2>2
<1>2. Init => Leases /\ OneAtATime /\ Committed
  <2> SUFFICES ASSUME Init PROVE Leases /\ OneAtATime /\ Committed
    OBVIOUS
  <2>1. \A s \in Subs : NothingOut(s) /\ OneCopy(s) /\ \A m \in Ids : ~InFlight(s, m)
    BY EmptyFacts, EmptyDistinct DEF Init, NothingOut, OneCopy, InFlight
  <2>. QED
    BY <2>1 DEF Init, Leases, OneAtATime, Committed, DoneUpTo
<1>3. IInv /\ [Next]_vars => SentInOrder' /\ InHand' /\ Accounted' /\ Reported' /\ Queued'
                             /\ Leases' /\ OnceAtMost' /\ OneAtATime' /\ Committed' /\ Passed'
  <2>1. CASE Next
    BY <2>1, SentInOrderStep, InHandStep, AccountedStep, ReportedStep, QueuedStep, LeasesStep,
       OnceAtMostStep, OneAtATimeStep, CommittedStep, PassedStep DEF IInv
  <2>2. CASE UNCHANGED vars
    <3> USE <2>2 DEF IInv, vars, pubVars, srvVars, logVars, taskVars, leaseVars, faultVars,
    histVars
    <3>1. IInv => /\ SentInOrder' /\ InHand' /\ Accounted' /\ Reported'
                  /\ Queued' /\ Passed' /\ OnceAtMost'
      BY DEF SentInOrder, Old, InHand, Accounted, Reported, Queued, Passed, OnceAtMost
    <3>2. IInv => Leases'
      BY DEF Leases, OneCopy, InFlight
    <3>3. IInv => OneAtATime' /\ Committed'
      BY DEF OneAtATime, OnlyOut, NothingOut, Committed, DoneUpTo, InFlight
    <3>. QED
      BY <3>1, <3>2, <3>3
  <2>. QED
    BY <2>1, <2>2
<1>. QED
  BY <1>1, <1>2, <1>3, TypeCorrect, PTL DEF Spec, IInv

\* NoLoss: whatever faults, crashes, rebalances and lost answers there are, what JetStream
\* or Kafka stored or publish() reported there, and what an AMQP queue stored, is acked or
\* still to be delivered, for Kafka as long as no seek was refused; and the token of a
\* change stream passes only what was handed over or skipped for want of a token.  It says
\* nothing of core NATS, nor of what publish() reported to AMQP and no queue stored.
THEOREM NothingIsLost == Spec => []NoLoss
<1>1. IInv => NoLoss
  <2> SUFFICES ASSUME IInv, kind # "core",
                      NEW m \in log \cup (IF kind = "amqp" THEN {} ELSE reported)
               PROVE  m \in done \/ Deliverable(m)
    BY DEF NoLoss
  <2>1. m \in log /\ mark \in Nat /\ m \in Nat /\ kind \in Kinds
    BY TypeParts, BrokerAssumption DEF IInv, Reported, PubOK, LogOK, Ids
  <2>2. CASE kind \in {"amqp", "jetstream"}
    BY <2>1, <2>2 DEF IInv, Queued, Deliverable, AmqpLag, StreamLag
  <2>3. CASE kind = "kafka"
    BY <2>1, <2>3 DEF IInv, Committed, DoneUpTo, Deliverable, KafkaLag
  <2>4. CASE kind = "changes"
    BY <2>1, <2>4 DEF IInv, Passed, Deliverable
  <2>. QED
    BY <2>1, <2>2, <2>3, <2>4 DEF Kinds
<1>. QED
  BY <1>1, InductiveInvariant, PTL

\* PartitionOrder: with Kafka no nack, rebalance or lost commit lets a message overtake an
\* earlier one that is not acked, unless a seek was refused.
THEOREM PartitionInOrder == Spec => []PartitionOrder
<1>1. IInv => PartitionOrder
  BY TypeParts DEF IInv, Committed, DoneUpTo, PartitionOrder, LogOK, Ids
<1>. QED
  BY <1>1, InductiveInvariant, PTL

\* ExclusiveDelivery: no two consumers of a group have the same message of an AMQP queue or
\* of JetStream unless one of them was given up, and core NATS hands nothing over twice.
THEOREM DeliveryIsExclusive == Spec => []ExclusiveDelivery
<1>1. IInv => ExclusiveDelivery
  BY DEF IInv, Leases, Queued, OnceAtMost, ExclusiveDelivery
<1>. QED
  BY <1>1, InductiveInvariant, PTL
=============================================================================
