---------------------------- MODULE RedisStream ----------------------------
(***************************************************************************)
(* The Redis Streams backend, crates/strev-redis: publisher.rs and         *)
(* subscriber.rs, for one stream key.                                      *)
(*                                                                         *)
(* The server's part is external: the log of entries and, per consumer     *)
(* group, the last delivered entry and the pending entries list.  A        *)
(* subscription's poller and ack flusher share one multiplexed connection; *)
(* once that breaks, every later command fails.  A command the server      *)
(* refuses has no effect.  Of time only XAUTOCLAIM's idle limit is left.   *)
(* MAXLEN trimming (off by default) is not modelled.                       *)
(***************************************************************************)
EXTENDS Naturals, Sequences, FiniteSets, Functions, SequencesExt

CONSTANTS
  Groups,      \* consumer groups
  Subs,        \* subscribe() calls, each with its poller and ack flusher
  GroupOf,     \* GroupOf[s]: the consumer group of s
  Msgs,        \* messages publishers send
  Garbled,     \* the messages unmarshal() refuses, written by someone else
  BatchSize,   \* COUNT of XREADGROUP
  BufferSize,  \* MessageStream::channel(buffer_size)
  MaxHeld,     \* messages a consumer holds at once
  AddsFail,    \* whether the server may refuse an XADD (maxmemory)
  MaxNacks,    \* bound: nacks of all consumers together
  MaxTimeouts, \* bound: idle limits that pass while a copy is in flight
  MaxErrors,   \* bound: commands refused
  MaxLoad,     \* bound: messages and faults of all kinds together
  Droppable,   \* the subscriptions whose stream may be dropped
  Crashable,   \* the subscriptions whose process may die
  Breakable    \* the subscriptions whose connection may break

ASSUME RedisAssumption ==
  /\ GroupOf \in [Subs -> Groups] /\ Garbled \subseteq Msgs
  /\ BatchSize \in Nat \ {0} /\ BufferSize \in Nat \ {0}
  /\ MaxHeld \in Nat \ {0} /\ AddsFail \in BOOLEAN
  /\ MaxNacks \in Nat /\ MaxTimeouts \in Nat /\ MaxErrors \in Nat
  /\ MaxLoad \in Nat
  /\ Droppable \subseteq Subs /\ Crashable \subseteq Subs
  /\ Breakable \subseteq Subs

VARIABLES
  log,       \* the stream: log[i] is the message of entry i
  groups,    \* the groups that XGROUP CREATE has made
  last,      \* last[g]: last delivered entry
  pel,       \* pel[g]: pending entries
  idle,      \* idle[g]: pending entries idle for claim_idle
  poll,      \* poll[s]: off, top, read, claim, send, add, ack, gone or dead
  entries,   \* entries[s]: entries of the loop still to be sent, in order
  buffer,    \* buffer[s]: the stream's bounded buffer
  held,      \* held[s]: entries the consumer holds
  verdicts,  \* verdicts[s]: <<entry, disposition>> queued for the flusher
  flush,     \* flush[s]: the flusher's step, XACK ids and XADD messages
  dropped,   \* the subscriptions whose stream was dropped
  broken,    \* the subscriptions whose connection is broken
  nacks,     \* count, for MaxNacks
  timeouts,  \* count, for MaxTimeouts
  errors,    \* count, for MaxErrors
  done       \* history: done[g], the messages a consumer of g acked

serverVars == <<log, groups, last, pel, idle>>
pollVars   == <<poll, entries>>
leaseVars  == <<buffer, held, verdicts, flush, dropped>>
countVars  == <<nacks, timeouts, errors>>
vars == <<serverVars, pollVars, leaseVars, broken, countVars, done>>

-----------------------------------------------------------------------------
NoFlush == [step |-> "idle", ids |-> {}, again |-> <<>>]

Init ==
  /\ log = <<>> /\ groups = {}
  /\ last = [g \in Groups |-> 0]
  /\ pel = [g \in Groups |-> {}] /\ idle = [g \in Groups |-> {}]
  /\ poll = [s \in Subs |-> "off"] /\ entries = [s \in Subs |-> <<>>]
  /\ buffer = [s \in Subs |-> <<>>] /\ held = [s \in Subs |-> <<>>]
  /\ verdicts = [s \in Subs |-> <<>>] /\ flush = [s \in Subs |-> NoFlush]
  /\ dropped = {} /\ broken = {}
  /\ nacks = 0 /\ timeouts = 0 /\ errors = 0
  /\ done = [g \in Groups |-> {}]

\* Not a part of the code: room for another message or fault within MaxLoad.
LoadLeft == nacks + timeouts + errors + Cardinality(dropped) + Cardinality(broken)
              + Cardinality({s \in Subs : poll[s] = "dead"})
              + Cardinality(Range(log)) < MaxLoad

\* A copy of entry i that the subscription s still has to settle.
InFlight(s, i) ==
  \/ i \in Range(entries[s]) \cup Range(buffer[s]) \cup Range(held[s])
  \/ \E d \in {"ack", "nack"} : <<i, d>> \in Range(verdicts[s])
  \/ i \in flush[s].ids

Members(g) == {s \in Subs : GroupOf[s] = g}

\* The sequences of all members of I in ascending order (there is one).
Ascending(I) ==
  {q \in [1..Cardinality(I) -> I] :
     Range(q) = I /\ \A j, k \in DOMAIN q : j < k => q[j] < q[k]}

(* How a command on the connection of s may end.                           *)
Answered(s) == s \notin broken /\ UNCHANGED errors
Refused(s)  == \/ s \in broken /\ UNCHANGED errors
               \/ s \notin broken /\ errors < MaxErrors /\ LoadLeft /\ errors' = errors + 1

\* XACK: the entries leave the pending list.
Settled(g, I) ==
  /\ pel' = [pel EXCEPT ![g] = @ \ I]
  /\ idle' = [idle EXCEPT ![g] = @ \ I]

-----------------------------------------------------------------------------
(* publisher.rs.  publish() pipelines one XADD per message; when it fails  *)
(* some of them may have been run, so each XADD is a step of its own.      *)

Publish(m) ==
  /\ m \notin Range(log) /\ LoadLeft
  /\ log' = Append(log, m)
  /\ UNCHANGED <<groups, last, pel, idle, pollVars, leaseVars, broken,
                 countVars, done>>

-----------------------------------------------------------------------------
(* subscriber.rs, subscribe() and the poller.                              *)

\* ensure_consumer_group(): the group starts at entry 0 unless it exists.
Subscribe(s) ==
  /\ poll[s] = "off"
  /\ groups' = groups \cup {GroupOf[s]}
  /\ poll' = [poll EXCEPT ![s] = "top"]
  /\ UNCHANGED <<log, last, pel, idle, entries, leaseVars, broken, countVars,
                 done>>

\* The is_closed() check at the top of the loop.
PollTop(s) ==
  /\ poll[s] = "top"
  /\ poll' = [poll EXCEPT ![s] = IF s \in dropped THEN "gone" ELSE "read"]
  /\ UNCHANGED <<serverVars, entries, leaseVars, broken, countVars, done>>

\* The server's side of XREADGROUP >: at most BatchSize new entries.
Fresh(g) == {i \in DOMAIN log : last[g] < i /\ i <= last[g] + BatchSize}

Deliver(g) ==
  /\ last' = [last EXCEPT ![g] = @ + Cardinality(Fresh(g))]
  /\ pel' = [pel EXCEPT ![g] = @ \cup Fresh(g)]

\* XREADGROUP; when it has blocked for long enough it delivers nothing.
PollRead(s) ==
  /\ poll[s] = "read"
  /\ Answered(s)
  /\ Deliver(GroupOf[s])
  /\ \E q \in Ascending(Fresh(GroupOf[s])) :
       entries' = [entries EXCEPT ![s] = q]
  /\ poll' = [poll EXCEPT ![s] = "claim"]
  /\ UNCHANGED <<log, groups, idle, leaseVars, broken, nacks, timeouts, done>>

\* XREADGROUP failed: sleep a second and start over.
PollReadErr(s) ==
  /\ poll[s] = "read"
  /\ Refused(s)
  /\ poll' = [poll EXCEPT ![s] = "top"]
  /\ UNCHANGED <<serverVars, entries, leaseVars, broken, nacks, timeouts, done>>

\* Mutant: XAUTOCLAIM with a min-idle-time of zero.
AnyPending(g) == pel[g]

\* Mutant: XAUTOCLAIM is never given anything.
NonePending(g) == {}

IdlePending(g) == idle[g]

\* XAUTOCLAIM from entry 0: idle entries, whoever had them, join the batch
\* and are fresh again.
PollClaim(s) ==
  LET g == GroupOf[s]
  IN /\ poll[s] = "claim"
     /\ \/ /\ Answered(s)
           /\ \E q \in Ascending(IdlePending(g)) :
                entries' = [entries EXCEPT ![s] = @ \o q]
           /\ idle' = [idle EXCEPT ![g] = @ \ IdlePending(g)]
        \/ Refused(s) /\ UNCHANGED <<entries, idle>>
     /\ poll' = [poll EXCEPT ![s] = "send"]
     /\ UNCHANGED <<log, groups, last, pel, leaseVars, broken, nacks, timeouts,
                    done>>

\* The batch is through.
PollDone(s) ==
  /\ poll[s] = "send" /\ entries[s] = <<>>
  /\ poll' = [poll EXCEPT ![s] = "top"]
  /\ UNCHANGED <<serverVars, entries, leaseVars, broken, countVars, done>>

\* unmarshal() gives None: the entry is settled and skipped.
SkipGarbled(s) ==
  /\ poll[s] = "send" /\ entries[s] # <<>>
  /\ log[Head(entries[s])] \in Garbled
  /\ \/ Answered(s) /\ Settled(GroupOf[s], {Head(entries[s])})
     \/ Refused(s) /\ UNCHANGED <<pel, idle>>
  /\ entries' = [entries EXCEPT ![s] = Tail(@)]
  /\ UNCHANGED <<log, groups, last, poll, leaseVars, broken, nacks, timeouts,
                 done>>

\* Mutant: one message more than the stream's capacity.
HasRoomTooMuch(s) == Len(buffer[s]) <= BufferSize

HasRoom(s) == Len(buffer[s]) < BufferSize

\* tx.send(leased).await.
SendNext(s) ==
  /\ poll[s] = "send" /\ entries[s] # <<>> /\ s \notin dropped
  /\ log[Head(entries[s])] \notin Garbled
  /\ HasRoom(s)
  /\ buffer' = [buffer EXCEPT ![s] = Append(@, Head(entries[s]))]
  /\ entries' = [entries EXCEPT ![s] = Tail(@)]
  /\ UNCHANGED <<serverVars, poll, held, verdicts, flush, dropped, broken,
                 countVars, done>>

\* The stream is gone: reenqueue() this entry, forget the others.
SendClosed(s) ==
  /\ poll[s] = "send" /\ entries[s] # <<>> /\ s \in dropped
  /\ log[Head(entries[s])] \notin Garbled
  /\ poll' = [poll EXCEPT ![s] = "add"]
  /\ UNCHANGED <<serverVars, entries, leaseVars, broken, countVars, done>>

\* reenqueue(): the XADD, whose error is ignored ...
RequeueAdd(s) ==
  /\ poll[s] = "add"
  /\ \/ Answered(s) /\ log' = Append(log, log[Head(entries[s])])
     \/ (AddsFail \/ s \in broken) /\ Refused(s) /\ UNCHANGED log
  /\ poll' = [poll EXCEPT ![s] = "ack"]
  /\ UNCHANGED <<groups, last, pel, idle, entries, leaseVars, broken, nacks,
                 timeouts, done>>

\* ... and the XACK of the original.
RequeueAck(s) ==
  /\ poll[s] = "ack"
  /\ \/ Answered(s) /\ Settled(GroupOf[s], {Head(entries[s])})
     \/ Refused(s) /\ UNCHANGED <<pel, idle>>
  /\ entries' = [entries EXCEPT ![s] = <<>>]
  /\ poll' = [poll EXCEPT ![s] = "top"]
  /\ UNCHANGED <<log, groups, last, leaseVars, broken, nacks, timeouts, done>>

-----------------------------------------------------------------------------
(* The consumer and the verdict tasks.                                     *)

Take(s) ==
  /\ s \notin dropped /\ buffer[s] # <<>> /\ Len(held[s]) < MaxHeld
  /\ held' = [held EXCEPT ![s] = Append(@, Head(buffer[s]))]
  /\ buffer' = [buffer EXCEPT ![s] = Tail(@)]
  /\ UNCHANGED <<serverVars, pollVars, verdicts, flush, dropped, broken,
                 countVars, done>>

Settle(s, k, d) ==
  /\ held' = [held EXCEPT ![s] = RemoveAt(@, k)]
  /\ verdicts' = [verdicts EXCEPT ![s] = Append(@, <<held[s][k], d>>)]

Ack(s) ==
  /\ \E k \in DOMAIN held[s] :
       /\ Settle(s, k, "ack")
       /\ done' = [done EXCEPT ![GroupOf[s]] = @ \cup {log[held[s][k]]}]
  /\ UNCHANGED <<serverVars, pollVars, buffer, flush, dropped, broken, countVars>>

Nack(s) ==
  /\ nacks < MaxNacks /\ LoadLeft /\ nacks' = nacks + 1
  /\ \E k \in DOMAIN held[s] : Settle(s, k, "nack")
  /\ UNCHANGED <<serverVars, pollVars, buffer, flush, dropped, broken, timeouts,
                 errors, done>>

\* Buffered messages resolve to Nack.
DropStream(s) ==
  /\ s \in Droppable \ dropped /\ poll[s] \notin {"off", "dead"} /\ LoadLeft
  /\ dropped' = dropped \cup {s}
  /\ verdicts' = [verdicts EXCEPT ![s] =
                    @ \o [k \in DOMAIN buffer[s] |-> <<buffer[s][k], "nack">>]]
  /\ buffer' = [buffer EXCEPT ![s] = <<>>]
  /\ UNCHANGED <<serverVars, pollVars, held, flush, broken, countVars, done>>

-----------------------------------------------------------------------------
(* ack_flusher(): XADD the nacked messages, then XACK everything taken.    *)

\* Mutant: nacks that are coalesced behind the first verdict are not re-added.
TakeFirstNack(s) ==
  /\ flush[s].step = "idle"
  /\ \E n \in 1..Len(verdicts[s]) :
       LET V == SubSeq(verdicts[s], 1, n)
       IN /\ flush' = [flush EXCEPT ![s] =
                        [step |-> "add", ids |-> {V[k][1] : k \in DOMAIN V},
                         again |-> IF V[1][2] = "nack" THEN <<log[V[1][1]]>>
                                   ELSE <<>>]]
          /\ verdicts' = [verdicts EXCEPT ![s] = SubSeq(@, n + 1, Len(@))]
  /\ UNCHANGED <<serverVars, pollVars, buffer, held, dropped, broken, countVars,
                 done>>

\* The verdicts queued by now, or the first of them.
FlushTake(s) ==
  /\ flush[s].step = "idle"
  /\ \E n \in 1..Len(verdicts[s]) :
       LET V == SubSeq(verdicts[s], 1, n)
       IN /\ \E q \in Ascending({k \in 1..n : V[k][2] = "nack"}) :
               flush' = [flush EXCEPT ![s] =
                          [step |-> "add", ids |-> {V[k][1] : k \in 1..n},
                           again |-> [j \in DOMAIN q |-> log[V[q[j]][1]]]]]
          /\ verdicts' = [verdicts EXCEPT ![s] = SubSeq(@, n + 1, Len(@))]
  /\ UNCHANGED <<serverVars, pollVars, buffer, held, dropped, broken, countVars,
                 done>>

\* The pipeline of XADDs, if there is one.  Its error is ignored; some of its
\* commands may have been run.
FlushAdd(s) ==
  /\ flush[s].step = "add"
  /\ IF flush[s].again = <<>>
     THEN UNCHANGED <<log, errors>>
     ELSE \/ Answered(s) /\ log' = log \o flush[s].again
          \/ /\ AddsFail \/ s \in broken
             /\ Refused(s)
             /\ \E n \in 0..(Len(flush[s].again) - 1) :
                  /\ s \in broken => n = 0
                  /\ log' = log \o SubSeq(flush[s].again, 1, n)
  /\ flush' = [flush EXCEPT ![s].step = "ack", ![s].again = <<>>]
  /\ UNCHANGED <<groups, last, pel, idle, pollVars, buffer, held, verdicts,
                 dropped, broken, nacks, timeouts, done>>

FlushAck(s) ==
  /\ flush[s].step = "ack"
  /\ \/ Answered(s) /\ Settled(GroupOf[s], flush[s].ids)
     \/ Refused(s) /\ UNCHANGED <<pel, idle>>
  /\ flush' = [flush EXCEPT ![s] = NoFlush]
  /\ UNCHANGED <<log, groups, last, pollVars, buffer, held, verdicts, dropped,
                 broken, nacks, timeouts, done>>

-----------------------------------------------------------------------------
(* Time and failures.                                                      *)

\* claim_idle passes for a pending entry.  With a copy in flight it counts
\* against MaxTimeouts; an entry nobody handles always becomes idle.
IdlePasses(g, i) ==
  /\ i \in pel[g] \ idle[g]
  /\ IF \E s \in Members(g) : InFlight(s, i)
     THEN timeouts < MaxTimeouts /\ LoadLeft /\ timeouts' = timeouts + 1
     ELSE UNCHANGED timeouts
  /\ idle' = [idle EXCEPT ![g] = @ \cup {i}]
  /\ UNCHANGED <<log, groups, last, pel, pollVars, leaseVars, broken, nacks,
                 errors, done>>

\* The connection breaks.  A command on its way may still have been run: its
\* reply is what matters for XREADGROUP and XAUTOCLAIM alone.
Break(s) ==
  /\ s \in Breakable \ broken /\ poll[s] \notin {"off", "dead"} /\ LoadLeft
  /\ broken' = broken \cup {s}
  /\ \/ UNCHANGED <<last, pel, idle, poll>>
     \/ /\ poll[s] = "read" /\ Deliver(GroupOf[s])
        /\ poll' = [poll EXCEPT ![s] = "top"] /\ UNCHANGED idle
     \/ /\ poll[s] = "claim"
        /\ idle' = [idle EXCEPT ![GroupOf[s]] = @ \ IdlePending(GroupOf[s])]
        /\ poll' = [poll EXCEPT ![s] = "send"] /\ UNCHANGED <<last, pel>>
  /\ UNCHANGED <<log, groups, entries, leaseVars, countVars, done>>

\* The subscriber's process dies.
Crash(s) ==
  /\ s \in Crashable /\ poll[s] \notin {"off", "dead"} /\ LoadLeft
  /\ poll' = [poll EXCEPT ![s] = "dead"]
  /\ entries' = [entries EXCEPT ![s] = <<>>]
  /\ buffer' = [buffer EXCEPT ![s] = <<>>] /\ held' = [held EXCEPT ![s] = <<>>]
  /\ verdicts' = [verdicts EXCEPT ![s] = <<>>]
  /\ flush' = [flush EXCEPT ![s] = NoFlush]
  /\ UNCHANGED <<serverVars, dropped, broken, countVars, done>>

-----------------------------------------------------------------------------
Poll(s) == \/ Subscribe(s) \/ PollTop(s) \/ PollRead(s) \/ PollReadErr(s)
           \/ PollClaim(s) \/ PollDone(s) \/ SkipGarbled(s) \/ SendNext(s)
           \/ SendClosed(s) \/ RequeueAdd(s) \/ RequeueAck(s)

Consume(s) == Take(s) \/ Ack(s) \/ Nack(s) \/ DropStream(s)

Flush(s) == FlushTake(s) \/ FlushAdd(s) \/ FlushAck(s)

Next == \/ \E m \in Msgs : Publish(m)
        \/ \E s \in Subs : Poll(s) \/ Consume(s) \/ Flush(s) \/ Break(s) \/ Crash(s)
        \/ \E g \in Groups : \E i \in pel[g] : IdlePasses(g, i)

Spec == Init /\ [][Next]_vars

(* Pollers and flushers keep running, a consumer settles what it takes,    *)
(* and an entry nobody handles becomes idle.  Nothing forces a nack, an    *)
(* error, a crash, a broken connection or a dropped stream.                *)
Fairness ==
  /\ \A s \in Subs :
       /\ WF_vars(Poll(s)) /\ WF_vars(Flush(s)) /\ WF_vars(Take(s))
       /\ WF_vars(Ack(s) \/ Nack(s))
  /\ \A g \in Groups : WF_vars(\E i \in pel[g] : IdlePasses(g, i))

FairSpec == Spec /\ Fairness

-----------------------------------------------------------------------------
(* Properties.                                                             *)

ServerTypeOK ==
  /\ log \in Seq(Msgs) /\ groups \subseteq Groups
  /\ last \in [Groups -> 0..Len(log)]
  /\ DOMAIN pel = Groups /\ DOMAIN idle = Groups
  /\ \A g \in Groups : idle[g] \subseteq pel[g] /\ pel[g] \subseteq 1..last[g]
  /\ done \in [Groups -> SUBSET Msgs]

SubTypeOK(s) ==
  LET Delivered == 1..last[GroupOf[s]]
  IN /\ poll[s] \in {"off", "top", "read", "claim", "send", "add", "ack",
                      "gone", "dead"}
     /\ entries[s] \in Seq(Delivered)
     /\ poll[s] \in {"add", "ack"} => entries[s] # <<>>
     /\ buffer[s] \in Seq(Delivered) /\ Len(buffer[s]) <= BufferSize
     /\ held[s] \in Seq(Delivered) /\ Len(held[s]) <= MaxHeld
     /\ verdicts[s] \in Seq(Delivered \X {"ack", "nack"})
     /\ flush[s] \in [step : {"idle", "add", "ack"},
                      ids : SUBSET Delivered, again : Seq(Msgs)]

CountTypeOK ==
  /\ nacks \in 0..MaxNacks /\ timeouts \in 0..MaxTimeouts
  /\ errors \in 0..MaxErrors

\* Every variable has its type, no buffer outgrows its limit, and whatever a
\* subscription handles has been delivered to its group.
TypeOK ==
  /\ ServerTypeOK /\ CountTypeOK
  /\ DOMAIN poll = Subs /\ DOMAIN entries = Subs /\ DOMAIN buffer = Subs
  /\ DOMAIN held = Subs /\ DOMAIN verdicts = Subs /\ DOMAIN flush = Subs
  /\ dropped \subseteq Subs /\ broken \subseteq Subs
  /\ \A s \in Subs : SubTypeOK(s)

\* A message in the stream stays deliverable to every group until a consumer
\* of the group has acked it: an entry of it is undelivered or pending, however
\* nacks, crashes, lost replies and refused commands interleave.
NoLoss ==
  \A g \in Groups : \A m \in Range(log) \ (Garbled \cup done[g]) :
    \E i \in DOMAIN log : log[i] = m /\ (i > last[g] \/ i \in pel[g])

\* An entry is handled by one subscription of its group, and stays pending
\* while it is, unless claim_idle ran out under one of them.
ExclusiveEntry ==
  timeouts = 0 =>
    \A s, t \in Subs, i \in DOMAIN log :
      InFlight(s, i) => /\ i \in pel[GroupOf[s]]
                        /\ GroupOf[s] = GroupOf[t] /\ InFlight(t, i) => s = t

\* Every group that subscribed works off its backlog, although one of its
\* subscriptions breaks or dies with a message in its hands.
EventuallyDone ==
  []<>(\A g \in groups : Range(log) \ Garbled \subseteq done[g])
=============================================================================
