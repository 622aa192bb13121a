----------------------------- MODULE NatsCore -----------------------------
(* core_nats.rs of crates/strev-nats: a queue group without persistence,   *)
(* acknowledgement or redelivery.                                          *)
EXTENDS BrokerStream

\* The server passes a message to one subscription of the queue group, or drops
\* it when there is none or when the connection breaks.
CorePublish(m) ==
  /\ kind = "core" /\ IsMin(m, sending)
  /\ sending' = sending \ {m}
  /\ \/ /\ \E s \in Subs : Live(s) /\ out' = [out EXCEPT ![s] = @ \cup {m}]
        /\ UNCHANGED faults
     \/ (\A s \in Subs : ~Live(s)) /\ UNCHANGED <<out, faults>>
     \/ Fault /\ UNCHANGED out
  /\ UNCHANGED <<kind, next, batch, failed, reported, logVars, ready, taskVars,
                 leaseVars, histVars>>

CoreSubscribe(s) ==
  /\ kind = "core" /\ task[s] = "off"
  /\ task' = [task EXCEPT ![s] = "recv"]
  /\ UNCHANGED <<pubVars, srvVars, position, got, handed, leaseVars, faultVars>>

\* Mutant: the subscription keeps what was received.
CoreReceiveAgain(s, m) ==
  /\ kind = "core" /\ task[s] = "recv" /\ s \notin dropped /\ IsMin(m, out[s])
  /\ Receive(s, m)
  /\ UNCHANGED <<pubVars, srvVars, position, handed, leaseVars, faultVars>>

\* subscription.next()
CoreReceive(s, m) ==
  /\ kind = "core" /\ task[s] = "recv" /\ s \notin dropped /\ IsMin(m, out[s])
  /\ out' = [out EXCEPT ![s] = @ \ {m}]
  /\ Receive(s, m)
  /\ UNCHANGED <<pubVars, logVars, ready, position, handed, leaseVars, faultVars>>

CoreSend(s) ==
  /\ kind = "core" /\ SendInto(s, "recv")
  /\ UNCHANGED <<pubVars, srvVars, faultVars>>

\* Unsubscribes; what the client has queued is gone.
Unsubscribed(s) == out' = [out EXCEPT ![s] = {}] /\ UNCHANGED <<logVars, ready>>

CoreEnd(s) ==
  /\ kind = "core" /\ TaskEnd(s) /\ Unsubscribed(s)
  /\ UNCHANGED <<pubVars, leaseVars, faultVars>>

\* next() yields None.
CoreLost(s) ==
  /\ kind = "core" /\ task[s] = "recv" /\ s \in Droppable /\ Fault
  /\ task' = [task EXCEPT ![s] = "gone"]
  /\ Unsubscribed(s)
  /\ UNCHANGED <<pubVars, position, got, handed, leaseVars, histVars>>

CoreCrash(s) == kind = "core" /\ Die(s) /\ Unsubscribed(s)

CoreTask(s) == \/ \E m \in Ids : CoreReceive(s, m)
               \/ CoreSend(s) \/ CoreEnd(s)
=============================================================================
