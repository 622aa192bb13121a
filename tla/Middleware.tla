----------------------------- MODULE Middleware -----------------------------
(***************************************************************************)
(* The built-in middlewares (crates/strev/src/middleware, and Telemetry of *)
(* strev-telemetry).  Each wraps the next handler of the chain: Down calls *)
(* it, Up has its result.  A panic unwinds through all but the Recoverer.  *)
(* What a middleware makes of a message keeps its payload and metadata but *)
(* has a new uuid, and no lease: only the router's verdict settles it.     *)
(***************************************************************************)
EXTENDS Consumer

Here(c, mw) == run[c].depth \in DOMAIN Chain(c) /\ Chain(c)[run[c].depth] = mw
Down(c, mw) == run[c].task = "down" /\ Here(c, mw)
Up(c, mw)   == run[c].task = "up" /\ Here(c, mw)
Result(c)   == run[c].result
Calls(c)    == run[c].calls[run[c].depth]

Call(c) ==
  LET d == run[c].depth
      calls == run[c].calls
  IN /\ run' = [run EXCEPT ![c].task = "down", ![c].depth = d + 1,
                  ![c].calls = [p \in DOMAIN calls |->
                    IF p = d THEN calls[p] + 1 ELSE IF p > d THEN 0 ELSE calls[p]]]
     /\ UNCHANGED failed

ReturnTo(c, d, r) ==
  /\ run' = [run EXCEPT ![c].task = "up", ![c].depth = d, ![c].result = r]
  /\ failed' = IF r = "ack" THEN failed
                            ELSE [failed EXCEPT ![c] = @ \cup {run[c].id}]

Return(c, r) == ReturnTo(c, run[c].depth - 1, r)

Through(c, mw) ==
  /\ \/ Down(c, mw) /\ Call(c)
     \/ Up(c, mw) /\ Return(c, Result(c))
  /\ UNCHANGED <<appVars, topicVars, memVars, clientVars, done, acked, burst, faults>>

-----------------------------------------------------------------------------
Throttle(c)      == Through(c, "Throttle")       \* sleeps first
DelayOnError(c)  == Through(c, "DelayOnError")   \* sleeps after an error
CorrelationId(c) == Through(c, "CorrelationId")
InstantAck(c)    == Through(c, "InstantAck")     \* acks a message without a lease
Telemetry(c)     == Through(c, "Telemetry")

\* Mutant: an inclusive range of attempts.
AgainInclusive(c) == Result(c) \in Errs /\ Calls(c) <= Attempts

\* Calls again after an Err, not after an Ok that is a nack.
Again(c) == Result(c) \in Errs /\ Calls(c) < Attempts

Retry(c) ==
  /\ \/ Down(c, "Retry") /\ Call(c)
     \/ Up(c, "Retry") /\ IF Again(c) THEN Call(c) ELSE Return(c, Result(c))
  /\ UNCHANGED <<appVars, topicVars, memVars, clientVars, done, acked, burst, faults>>

\* The copy first, then the message itself unless the copy's call failed.
Duplicator(c) ==
  /\ \/ Down(c, "Duplicator") /\ Call(c)
     \/ /\ Up(c, "Duplicator")
        /\ IF Calls(c) = 1 /\ Result(c) \in {"ack", "nack"} THEN Call(c)
                                                           ELSE Return(c, Result(c))
  /\ UNCHANGED <<appVars, topicVars, memVars, clientVars, done, acked, burst, faults>>

Recoverer(c) ==
  /\ \/ Down(c, "Recoverer") /\ Call(c)
     \/ /\ Up(c, "Recoverer")
        /\ Return(c, IF Result(c) = "panic" THEN "err" ELSE Result(c))
  /\ UNCHANGED <<appVars, topicVars, memVars, clientVars, done, acked, burst, faults>>

\* An error the predicate picks is an ack: the message counts as handled.
IgnoreErrors(c) ==
  /\ \/ Down(c, "IgnoreErrors") /\ Call(c) /\ UNCHANGED done
     \/ Up(c, "IgnoreErrors") /\ Result(c) # "skip" /\ Return(c, Result(c)) /\ UNCHANGED done
     \/ /\ Up(c, "IgnoreErrors") /\ Result(c) = "skip" /\ Return(c, "ack")
        /\ done' = [done EXCEPT ![c] = @ \cup {run[c].id}]
  /\ UNCHANGED <<appVars, topicVars, memVars, clientVars, acked, burst, faults>>

\* The hash of a uuid, new for each delivery and each retry, decides.
RandomFail(c) ==
  /\ \/ Down(c, "RandomFail") /\ Call(c) /\ UNCHANGED faults
     \/ Down(c, "RandomFail") /\ Fault /\ Return(c, "err")
     \/ Up(c, "RandomFail") /\ Return(c, Result(c)) /\ UNCHANGED faults
  /\ UNCHANGED <<appVars, topicVars, memVars, clientVars, done, acked, burst>>

\* An error goes to the poison topic and is acked; a publish that fails leaves
\* the error, stored or not.  A topic nobody consumes keeps the message.
Poisoned(c) == Published(app.cons[c].to, run[c].id)

PoisonQueue(c) ==
  /\ \/ Down(c, "PoisonQueue") /\ Call(c) /\ UNCHANGED <<queue, done, faults>>
     \/ /\ Up(c, "PoisonQueue") /\ Result(c) \notin Errs /\ Return(c, Result(c))
        /\ UNCHANGED <<queue, done, faults>>
     \/ /\ Up(c, "PoisonQueue") /\ Result(c) \in Errs /\ Return(c, "ack")
        /\ queue' = Poisoned(c) /\ UNCHANGED faults
        /\ done' = IF HasConsumer(app.cons[c].to) THEN done
                   ELSE [done EXCEPT ![c] = @ \cup {run[c].id}]
     \/ /\ Up(c, "PoisonQueue") /\ Result(c) \in Errs /\ Return(c, Result(c))
        /\ Fault /\ queue' \in {queue, Poisoned(c)} /\ UNCHANGED done
  /\ UNCHANGED <<appVars, stream, memVars, clientVars, acked, burst>>

-----------------------------------------------------------------------------
(* Deduplicator: the repository is shared by all handlers when it sits on  *)
(* the router.  With the uuid for a key nothing is ever seen twice, since  *)
(* every delivery and every copy has a uuid of its own.                    *)

Scope(c) ==
  CASE Here(c, "Deduplicator")       -> {c}
    [] Here(c, "RouterDeduplicator") -> {"router"}
    [] Here(c, "UuidDeduplicator")   -> {}

Keys(c) == Scope(c) \X {run[c].id}

IsDuplicate(c) == Keys(c) \cap seen # {}

\* A duplicate is acked; anything else is seen from now on, whatever becomes of
\* the call.
Deduplicator(c) ==
  /\ \E mw \in {"Deduplicator", "RouterDeduplicator", "UuidDeduplicator"} :
       \/ Down(c, mw) /\ IsDuplicate(c) /\ Return(c, "ack") /\ UNCHANGED seen
       \/ Down(c, mw) /\ ~IsDuplicate(c) /\ Call(c) /\ seen' = seen \cup Keys(c)
       \/ Up(c, mw) /\ Return(c, Result(c)) /\ UNCHANGED seen
  /\ UNCHANGED <<appVars, topicVars, breaker, clientVars, done, acked, burst, faults>>

\* The window of a key ends: retain() forgets it.
WindowEnds ==
  /\ \E k \in seen : seen' = seen \ {k}
  /\ UNCHANGED <<appVars, topicVars, run, breaker, clientVars, done, failed, acked,
                 burst, faults>>

-----------------------------------------------------------------------------
(* CircuitBreaker: since says how the time since the last failure compares *)
(* with reset_timeout.                                                     *)

\* Mutant: open for good, no half-open state.
StaysOpen(c) == breaker[c].failures >= MaxFailures

IsOpen(c) == breaker[c].failures >= MaxFailures /\ breaker[c].since = "recent"

\* Of a clock that went back, the unsigned difference panics in a debug build;
\* in a release build it wraps to more than any timeout.
ClockBehind(c) == breaker[c].failures >= MaxFailures /\ breaker[c].since = "negative"

RecordSuccess(c) == breaker' = [breaker EXCEPT ![c].failures = 0]

\* Mutant: last_failure_ms is not stored.
CountFailure(c) ==
  breaker' = [breaker EXCEPT ![c].failures = IF @ > MaxFailures THEN @ ELSE @ + 1]

RecordFailure(c) ==
  breaker' = [breaker EXCEPT ![c].failures = IF @ > MaxFailures THEN @ ELSE @ + 1,
                             ![c].since = "recent"]

CircuitBreaker(c) ==
  /\ \/ Down(c, "CircuitBreaker") /\ IsOpen(c) /\ Return(c, "err") /\ UNCHANGED breaker
     \/ Down(c, "CircuitBreaker") /\ ClockBehind(c) /\ Return(c, "panic") /\ UNCHANGED breaker
     \/ Down(c, "CircuitBreaker") /\ ~IsOpen(c) /\ Call(c) /\ UNCHANGED breaker
     \/ /\ Up(c, "CircuitBreaker") /\ Result(c) \in {"ack", "nack"}
        /\ RecordSuccess(c) /\ Return(c, Result(c))
     \/ /\ Up(c, "CircuitBreaker") /\ Result(c) \in Errs
        /\ RecordFailure(c) /\ Return(c, Result(c))
     \/ Up(c, "CircuitBreaker") /\ Result(c) = "panic" /\ Return(c, "panic") /\ UNCHANGED breaker
  /\ UNCHANGED <<appVars, topicVars, seen, clientVars, done, acked, burst, faults>>

\* reset_timeout has passed, or the wall clock was set back.
Tick(c) ==
  /\ breaker[c].since # "elapsed" /\ breaker[c].failures > 0
  /\ \/ breaker' = [breaker EXCEPT ![c].since = "elapsed"] /\ UNCHANGED faults
     \/ Fault /\ breaker' = [breaker EXCEPT ![c].since = "negative"]
  /\ burst' = [burst EXCEPT ![c] = 0]
  /\ UNCHANGED <<appVars, topicVars, run, seen, clientVars, done, failed, acked>>

-----------------------------------------------------------------------------
\* The call below is at an await: a handler runs, or a middleware sleeps or
\* publishes.
Awaits(c) ==
  \/ run[c].task = "down"
  \/ /\ run[c].task = "up" /\ Result(c) \in Errs
     /\ \/ Here(c, "Retry") /\ Again(c)
        \/ Here(c, "PoisonQueue") \/ Here(c, "DelayOnError")

\* A Timeout drops the whole call below it; nothing below sees an error.
TimeoutFires(c) ==
  \E p \in DOMAIN Chain(c) :
    /\ Chain(c)[p] = "Timeout" /\ p < run[c].depth /\ Awaits(c) /\ Fault
    /\ ReturnTo(c, p - 1, "err")
    /\ UNCHANGED <<appVars, topicVars, memVars, clientVars, done, acked, burst>>

Timeout(c) == Through(c, "Timeout")

Wrap(c) ==
  \/ Throttle(c) \/ DelayOnError(c) \/ CorrelationId(c) \/ InstantAck(c)
  \/ Telemetry(c) \/ Retry(c) \/ Duplicator(c) \/ Recoverer(c) \/ IgnoreErrors(c)
  \/ RandomFail(c) \/ PoisonQueue(c) \/ Deduplicator(c) \/ CircuitBreaker(c)
  \/ Timeout(c)
=============================================================================
