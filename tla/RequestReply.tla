---------------------------- MODULE RequestReply ----------------------------
(***************************************************************************)
(* The client of requestreply.rs: calls of request() that wait for a       *)
(* reply, and the listener on the reply topic, which finds the waiting     *)
(* call by the correlation id.  A request is its message; its correlation  *)
(* id is unique.                                                           *)
(***************************************************************************)
EXTENDS Handlers

Pending(r) == client[r] \in {"publishing", "waiting", "expired"}

\* The waiter is registered before the request is published.
RequestStart(r) ==
  /\ "client" \in app.producers /\ r \in unsent /\ client[r] = "idle"
  /\ client' = [client EXCEPT ![r] = "publishing"] /\ pending' = pending \cup {r}
  /\ UNCHANGED <<appVars, topicVars, run, memVars, answers, done, failed, acked,
                 burst, faults>>

RequestPublish(r) ==
  /\ client[r] = "publishing"
  /\ client' = [client EXCEPT ![r] = "waiting"] /\ queue' = Published(app.entry, r)
  /\ unsent' = unsent \ {r} /\ produced' = produced \cup {r}
  /\ UNCHANGED <<app, stream, run, memVars, pending, answers, done, failed, acked,
                 burst, faults>>

\* The request may have been stored when publish() fails.
RequestFails(r) ==
  /\ client[r] = "publishing" /\ Fault
  /\ client' = [client EXCEPT ![r] = "failed"]
  /\ pending' = pending \ {r} /\ answers' = answers \ {r}
  /\ queue' \in {queue, Published(app.entry, r)} /\ unsent' = unsent \ {r}
  /\ UNCHANGED <<app, produced, stream, run, memVars, done, failed, acked, burst>>

\* The listener takes the waiter out, sends it the reply and acks.
ListenerNext(c) ==
  /\ app.cons[c].handler = "listen" /\ queue[c] # <<>>
  /\ LET r == Head(queue[c]) IN
       /\ pending' = pending \ {r}
       /\ answers' = IF r \in pending /\ Pending(r) THEN answers \cup {r} ELSE answers
  /\ queue' = [queue EXCEPT ![c] = Tail(@)]
  /\ UNCHANGED <<appVars, stream, run, memVars, client, done, failed, acked, burst, faults>>

RequestReturns(r) ==
  /\ client[r] = "waiting" /\ r \in answers
  /\ client' = [client EXCEPT ![r] = "answered"] /\ answers' = answers \ {r}
  /\ UNCHANGED <<appVars, topicVars, run, memVars, pending, done, failed, acked,
                 burst, faults>>

\* timeout() polls the receiver first: it fires only without an answer.  The
\* listener may still find the waiter until it is removed.
RequestTimeout(r) ==
  /\ client[r] = "waiting" /\ r \notin answers
  /\ client' = [client EXCEPT ![r] = "expired"]
  /\ UNCHANGED <<appVars, topicVars, run, memVars, pending, answers, done, failed,
                 acked, burst, faults>>

\* Mutant: the timeout leaves the waiter to the listener.
RequestLeaves(r) ==
  /\ client[r] = "expired"
  /\ client' = [client EXCEPT ![r] = "timedout"] /\ answers' = answers \ {r}
  /\ UNCHANGED <<appVars, topicVars, run, memVars, pending, done, failed, acked,
                 burst, faults>>

RequestForget(r) ==
  /\ client[r] = "expired"
  /\ client' = [client EXCEPT ![r] = "timedout"]
  /\ pending' = pending \ {r} /\ answers' = answers \ {r}
  /\ UNCHANGED <<appVars, topicVars, run, memVars, done, failed, acked, burst, faults>>

\* The caller drops the future at an await: nothing removes the waiter.
RequestDropped(r) ==
  /\ client[r] \in {"publishing", "waiting"} /\ Fault
  /\ client' = [client EXCEPT ![r] = "dropped"] /\ answers' = answers \ {r}
  /\ UNCHANGED <<appVars, topicVars, run, memVars, pending, done, failed, acked, burst>>

Await(r) == \/ RequestPublish(r) \/ RequestReturns(r)
            \/ RequestTimeout(r) \/ RequestForget(r)
=============================================================================
