---------------------------- MODULE NatsStream ----------------------------
(* publisher.rs and subscriber.rs of crates/strev-nats: a JetStream stream *)
(* and one durable pull consumer per group and topic.                      *)
EXTENDS BrokerStream

\* publish_with_headers, whose ack the call awaits.
StreamPublish(m) ==
  /\ kind = "jetstream" /\ IsMin(m, sending)
  /\ sending' = sending \ {m}
  /\ log' = log \cup {m} /\ ready' = ready \cup {m}
  /\ UNCHANGED <<kind, next, batch, failed, reported, out, mark, owner, taskVars,
                 leaseVars, faultVars>>

\* The stream and the durable consumer are created, or found as they are.
StreamSubscribe(s) ==
  /\ kind = "jetstream" /\ task[s] = "off"
  /\ task' = [task EXCEPT ![s] = "recv"]
  /\ UNCHANGED <<pubVars, srvVars, position, got, handed, leaseVars, faultVars>>

StreamReceive(s, m) ==
  /\ kind = "jetstream" /\ task[s] = "recv" /\ s \notin dropped /\ IsMin(m, ready)
  /\ ready' = ready \ {m}
  /\ out' = [out EXCEPT ![s] = @ \cup {m}]
  /\ Receive(s, m)
  /\ UNCHANGED <<pubVars, logVars, position, handed, leaseVars, faultVars>>

StreamSend(s) ==
  /\ kind = "jetstream" /\ SendInto(s, "recv")
  /\ UNCHANGED <<pubVars, srvVars, faultVars>>

\* What the task had received stays with the server until ack_wait is over.
StreamEnd(s) ==
  /\ kind = "jetstream" /\ TaskEnd(s)
  /\ UNCHANGED <<pubVars, srvVars, leaseVars, faultVars>>

\* messages() fails or ends: the task returns, and the consumer's stream ends
\* with it.
StreamLost(s) ==
  /\ kind = "jetstream" /\ task[s] = "recv" /\ s \in Droppable /\ Fault
  /\ task' = [task EXCEPT ![s] = "gone"]
  /\ UNCHANGED <<pubVars, srvVars, position, got, handed, leaseVars, histVars>>

StreamCrash(s) == kind = "jetstream" /\ Die(s) /\ UNCHANGED srvVars

\* ack() removes the message, from whichever delivery it comes; Nak gives it
\* back.  Either may be lost, and the error is ignored.
StreamVerdict(s, m, d) ==
  /\ kind = "jetstream" /\ Verdict(s, m, d)
  /\ \/ /\ d = "ack"
        /\ out' = [t \in Subs |-> out[t] \ {m}]
        /\ ready' = ready \ {m}
        /\ UNCHANGED faults
     \/ /\ d = "nack"
        /\ out' = [out EXCEPT ![s] = @ \ {m}]
        /\ ready' = IF m \in out[s] THEN ready \cup {m} ELSE ready
        /\ UNCHANGED faults
     \/ Fault /\ UNCHANGED <<ready, out>>
  /\ UNCHANGED <<pubVars, logVars, taskVars, buffer, held, dropped, done, histVars>>

\* Mutant: the server takes a delivery for settled when ack_wait is over.
AckWaitForgets(s, m) ==
  /\ kind = "jetstream" /\ m \in out[s] /\ ~InFlight(s, m)
  /\ out' = [out EXCEPT ![s] = @ \ {m}]
  /\ UNCHANGED <<pubVars, logVars, ready, taskVars, leaseVars, faultVars>>

\* ack_wait is over, with a copy in flight or without one.
AckWait(s, m) ==
  /\ kind = "jetstream" /\ m \in out[s]
  /\ IF InFlight(s, m) THEN Fault /\ late' = TRUE
                    ELSE UNCHANGED <<late, faults>>
  /\ out' = [out EXCEPT ![s] = @ \ {m}]
  /\ ready' = ready \cup {m}
  /\ UNCHANGED <<pubVars, logVars, taskVars, leaseVars, skipped, refused>>

\* lag(): num_pending + num_ack_pending.
StreamLag == ready \cup UNION {out[s] : s \in Subs}

StreamTask(s) == \/ \E m \in Ids : StreamReceive(s, m)
                 \/ StreamSend(s) \/ StreamEnd(s)
=============================================================================
