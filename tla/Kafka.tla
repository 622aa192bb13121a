------------------------------- MODULE Kafka -------------------------------
(* crates/strev-kafka: one partition, a consumer group with manual commits *)
(* and one message in flight at a time.  The offset of a message is its    *)
(* number.                                                                 *)
EXTENDS BrokerStream

\* send_result; the call awaits the delivery reports.
KafkaPublish(m) ==
  /\ kind = "kafka" /\ IsMin(m, sending)
  /\ sending' = sending \ {m}
  /\ log' = log \cup {m}
  /\ UNCHANGED <<kind, next, batch, failed, reported, mark, owner, ready, out,
                 taskVars, leaseVars, faultVars>>

KafkaSubscribe(s) ==
  /\ kind = "kafka" /\ task[s] = "off"
  /\ task' = [task EXCEPT ![s] = "recv"]
  /\ UNCHANGED <<pubVars, srvVars, position, got, handed, leaseVars, faultVars>>

\* The group gives the partition to s, because nobody alive has it or in a
\* rebalance; s reads on after the committed offset.
Assign(s) ==
  /\ kind = "kafka" /\ Live(s) /\ s \notin owner
  /\ IF \E t \in owner : Live(t) THEN Fault ELSE UNCHANGED faults
  /\ owner' = {s}
  /\ position' = [position EXCEPT ![s] = mark]
  /\ UNCHANGED <<pubVars, log, mark, ready, out, task, got, handed, leaseVars,
                 histVars>>

\* consumer.recv(); a message that was received before a rebalance is sent all
\* the same.
KafkaReceive(s, m) ==
  /\ kind = "kafka" /\ task[s] = "recv" /\ s \in owner \ dropped
  /\ IsMin(m, {k \in log : k > position[s]})
  /\ position' = [position EXCEPT ![s] = m]
  /\ Receive(s, m)
  /\ UNCHANGED <<pubVars, srvVars, handed, leaseVars, faultVars>>

\* The task then waits for the verdict.
KafkaSend(s) ==
  /\ kind = "kafka" /\ SendInto(s, "await")
  /\ UNCHANGED <<pubVars, srvVars, faultVars>>

KafkaEnd(s) ==
  /\ kind = "kafka" /\ TaskEnd(s)
  /\ UNCHANGED <<pubVars, srvVars, leaseVars, faultVars>>

KafkaCrash(s) == kind = "kafka" /\ Die(s) /\ UNCHANGED srvVars

\* Ack: an asynchronous commit, which the broker refuses from a consumer that
\* lost the partition and which may be lost.
Commit(s, m) ==
  /\ kind = "kafka" /\ task[s] = "await" /\ Verdict(s, m, "ack")
  /\ task' = [task EXCEPT ![s] = "recv"]
  /\ \/ mark' = (IF s \in owner THEN m ELSE mark) /\ UNCHANGED faults
     \/ Fault /\ UNCHANGED mark
  /\ UNCHANGED <<pubVars, log, owner, ready, out, position, got, handed, buffer,
                 held, dropped, done, histVars>>

\* Mutant: a nack that reads on.
SeekNot(s, m) ==
  /\ kind = "kafka" /\ task[s] = "await" /\ Verdict(s, m, "nack")
  /\ task' = [task EXCEPT ![s] = "recv"]
  /\ UNCHANGED <<pubVars, srvVars, position, got, handed, buffer, held, dropped,
                 done, faultVars>>

\* Nack: seek back to the message.  Its error is ignored; without the partition
\* there is nothing to seek in.
Seek(s, m) ==
  /\ kind = "kafka" /\ task[s] = "await" /\ Verdict(s, m, "nack")
  /\ task' = [task EXCEPT ![s] = "recv"]
  /\ \/ /\ position' = [position EXCEPT ![s] = IF s \in owner THEN m - 1 ELSE @]
        /\ UNCHANGED <<refused, faults>>
     \/ s \in owner /\ Fault /\ refused' = TRUE /\ UNCHANGED position
  /\ UNCHANGED <<pubVars, srvVars, got, handed, buffer, held, dropped, done, late,
                 skipped>>

\* lag(): high watermark minus committed offset.
KafkaLag == {m \in log : m > mark}

KafkaTask(s) == \/ \E m \in Ids : KafkaReceive(s, m) \/ Commit(s, m) \/ Seek(s, m)
                \/ KafkaSend(s) \/ KafkaEnd(s) \/ Assign(s)
=============================================================================
