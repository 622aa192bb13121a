--------------------------- MODULE ChangeStream ---------------------------
(* subscriber.rs of crates/strev-mongodb: a change stream per subscription *)
(* and one resume token per group and topic.  Messages are not leased.     *)
EXTENDS BrokerStream

\* insert_many, one document of it.
InsertChange(m) ==
  /\ kind = "changes" /\ IsMin(m, sending)
  /\ sending' = sending \ {m}
  /\ log' = log \cup {m}
  /\ UNCHANGED <<kind, next, batch, failed, reported, mark, owner, ready, out,
                 taskVars, leaseVars, faultVars>>

\* watch(), after the stored token or, without one, from now on.  An error while
\* the token is read counts as none.
Watch(s) ==
  /\ kind = "changes" /\ task[s] = "off"
  /\ task' = [task EXCEPT ![s] = "recv"]
  /\ \/ /\ mark # 0 /\ position' = [position EXCEPT ![s] = mark]
        /\ UNCHANGED <<skipped, faults>>
     \/ /\ IF mark = 0 THEN UNCHANGED faults ELSE Fault
        /\ position' = [position EXCEPT ![s] = Max(log \cup {0})]
        /\ skipped' = skipped \cup log
  /\ UNCHANGED <<pubVars, srvVars, got, handed, leaseVars, late, refused>>

NextChange(s, m) ==
  /\ kind = "changes" /\ task[s] = "recv" /\ s \notin dropped
  /\ IsMin(m, {k \in log : k > position[s]})
  /\ position' = [position EXCEPT ![s] = m]
  /\ Receive(s, m)
  /\ UNCHANGED <<pubVars, srvVars, handed, leaseVars, faultVars>>

ChangeSend(s) ==
  /\ kind = "changes" /\ SendInto(s, "store")
  /\ UNCHANGED <<pubVars, srvVars, faultVars>>

\* update_one of the token; its error is ignored.
StoreToken(s) ==
  /\ kind = "changes" /\ task[s] = "store"
  /\ \/ mark' = position[s] /\ UNCHANGED faults
     \/ Fault /\ UNCHANGED mark
  /\ task' = [task EXCEPT ![s] = "recv"]
  /\ UNCHANGED <<pubVars, log, owner, ready, out, position, got, handed, leaseVars,
                 histVars>>

ChangeEnd(s) ==
  /\ kind = "changes" /\ TaskEnd(s)
  /\ UNCHANGED <<pubVars, srvVars, leaseVars, faultVars>>

\* An error of the change stream ends the task, and the consumer's stream with
\* it.
ChangeErr(s) ==
  /\ kind = "changes" /\ task[s] = "recv" /\ s \in Droppable /\ Fault
  /\ task' = [task EXCEPT ![s] = "gone"]
  /\ UNCHANGED <<pubVars, srvVars, position, got, handed, leaseVars, histVars>>

ChangeCrash(s) == kind = "changes" /\ Die(s) /\ UNCHANGED srvVars

ChangeTask(s) == \/ \E m \in Ids : NextChange(s, m)
                 \/ ChangeSend(s) \/ StoreToken(s) \/ ChangeEnd(s)
=============================================================================
