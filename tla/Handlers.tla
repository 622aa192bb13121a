------------------------------ MODULE Handlers ------------------------------
(* The innermost handler of a chain: the application's own, or one of the  *)
(* library's that relays, replies or dispatches.                           *)
EXTENDS Middleware

AtHandler(c, h) ==
  /\ app.cons[c].handler = h
  /\ run[c].task = "down" /\ run[c].depth = Len(Chain(c)) + 1

\* The handler returns r (or panics); burst counts its errors, as far as it matters.
Finish(c, r) ==
  /\ Return(c, r)
  /\ burst' = [burst EXCEPT ![c] = CASE r \in Errs            -> IF @ > MaxFailures THEN @ ELSE @ + 1
                                     [] r \in {"ack", "nack"} -> 0
                                     [] r = "panic"           -> @]

Complete(c) == done' = [done EXCEPT ![c] = @ \cup {run[c].id}]

-----------------------------------------------------------------------------
\* The application's closure does what it likes.
UserHandler(c) ==
  /\ AtHandler(c, "user")
  /\ \/ Finish(c, "ack") /\ Complete(c) /\ UNCHANGED faults
     \/ Fault /\ (\E r \in Results \ {"ack"} : Finish(c, r)) /\ UNCHANGED done
  /\ UNCHANGED <<appVars, topicVars, memVars, clientVars, acked>>

\* TypedHandler of a command or event processor: another type's NAME or a
\* payload that does not decode is acked; so is an error with ack_on_error.
TypedHandler(c) ==
  /\ AtHandler(c, "typed")
  /\ \/ Finish(c, "ack") /\ Complete(c) /\ UNCHANGED faults
     \/ /\ run[c].id \notin Odd /\ Fault
        /\ IF app.cons[c].lax THEN Finish(c, "ack") /\ Complete(c)
                              ELSE Finish(c, "err") /\ UNCHANGED done
     \/ /\ run[c].id \notin Odd /\ Fault /\ Finish(c, "panic") /\ UNCHANGED done
  /\ UNCHANGED <<appVars, topicVars, memVars, clientVars, acked>>

-----------------------------------------------------------------------------
(* The relays: publish a copy, then ack; an error nacks, and the copy may  *)
(* have been stored all the same.                                          *)

Relayed(c) == Published(app.cons[c].to, run[c].id)

\* Mutant: the error of publish() is dropped.
PublishAndAck(c) ==
  \/ Finish(c, "ack") /\ queue' = Relayed(c) /\ UNCHANGED faults
  \/ Fault /\ Finish(c, "ack") /\ queue' \in {queue, Relayed(c)}

PublishThenAck(c) ==
  \/ Finish(c, "ack") /\ queue' = Relayed(c) /\ UNCHANGED faults
  \/ Fault /\ Finish(c, "err") /\ queue' \in {queue, Relayed(c)}

\* Forwarder: a message without a destination is acked or an error, as
\* configured.
Forward(c) ==
  /\ AtHandler(c, "forwarder")
  /\ IF run[c].id \in Odd
     THEN /\ IF app.cons[c].lax THEN Finish(c, "ack") /\ Complete(c)
                                ELSE Finish(c, "err") /\ UNCHANGED done
          /\ UNCHANGED <<queue, faults>>
     ELSE PublishThenAck(c) /\ UNCHANGED done
  /\ UNCHANGED <<appVars, stream, memVars, clientVars, acked>>

\* Requeuer: the resolver of the application may fail.
Requeue(c) ==
  /\ AtHandler(c, "requeuer")
  /\ \/ Fault /\ Finish(c, "err") /\ UNCHANGED queue
     \/ PublishThenAck(c)
  /\ UNCHANGED <<appVars, stream, memVars, clientVars, done, acked>>

FanIn(c) ==
  /\ AtHandler(c, "fanin") /\ PublishThenAck(c)
  /\ UNCHANGED <<appVars, stream, memVars, clientVars, done, acked>>

\* RequestReply::respond: the responder runs on a copy; its reply carries the
\* request's correlation id to its reply-to topic.  A request without them is
\* acked, and there is no reply.
Respond(c) ==
  /\ AtHandler(c, "responder")
  /\ \/ Fault /\ (\E r \in {"err", "panic"} : Finish(c, r)) /\ UNCHANGED <<queue, done>>
     \/ /\ run[c].id \in Odd /\ Finish(c, "ack") /\ Complete(c) /\ UNCHANGED <<queue, faults>>
     \/ /\ run[c].id \notin Odd /\ PublishThenAck(c)
        /\ IF Relayed(c) = queue' THEN Complete(c) ELSE UNCHANGED done
  /\ UNCHANGED <<appVars, stream, memVars, clientVars, acked>>

Handle(c) == \/ UserHandler(c) \/ TypedHandler(c) \/ Forward(c)
             \/ Requeue(c) \/ FanIn(c) \/ Respond(c)
=============================================================================
