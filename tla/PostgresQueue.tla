--------------------------- MODULE PostgresQueue ---------------------------
(***************************************************************************)
(* The PostgreSQL queue, crates/strev-postgres: the tables of schema.rs,   *)
(* the inserts of publisher.rs, the poller and the ack flusher of          *)
(* subscriber.rs and the purge of retention.rs, for one topic.             *)
(*                                                                         *)
(* A message is the id its row gets from the BIGSERIAL sequence when the   *)
(* INSERT runs; other sessions see the row once its transaction commits.   *)
(* Statements run at READ COMMITTED: each one is a step, or two where the  *)
(* snapshot it reads and the rows it writes may belong to different        *)
(* moments.  Time appears only as leases that may run out.                 *)
(***************************************************************************)
EXTENDS Integers, Sequences, FiniteSets, Functions

CONSTANTS
  Groups,      \* consumer groups
  Subs,        \* subscribe() calls, each with its poller and ack flusher
  GroupOf,     \* GroupOf[s]: the consumer group of s
  Pubs,        \* database sessions that insert messages
  MaxId,       \* bound: ids the sequence hands out
  BatchSize,   \* LIMIT of the claim
  ScanLimit,   \* ADVANCE_SCAN_LIMIT
  PurgeBatch,  \* LIMIT of the purges, PostgresRetentionConfig::batch_size
  BufferSize,  \* MessageStream::channel(buffer_size)
  MaxHeld,     \* messages a consumer holds at once
  MaxNacks,    \* bound: nacks of all consumers together
  MaxTimeouts, \* bound: leases that run out while a copy is in flight
  MaxErrors,   \* bound: statements that fail
  MaxFaults,   \* bound: these, dropped streams and crashes together;
               \* the purge by age stops with the last of them
  Droppable,   \* the subscriptions whose stream may be dropped
  Crashable,   \* the subscriptions whose process may die
  MaxAge       \* whether PostgresRetention has a max_age

ASSUME PostgresAssumption ==
  /\ GroupOf \in [Subs -> Groups]
  /\ MaxId \in Nat /\ BatchSize \in Nat \ {0} /\ ScanLimit \in Nat \ {0}
  /\ PurgeBatch \in Nat \ {0}
  /\ BufferSize \in Nat \ {0} /\ MaxHeld \in Nat \ {0}
  /\ MaxNacks \in Nat /\ MaxTimeouts \in Nat /\ MaxErrors \in Nat
  /\ MaxFaults \in Nat
  /\ Droppable \subseteq Subs /\ Crashable \subseteq Subs
  /\ MaxAge \in BOOLEAN

Ids == 1..MaxId

VARIABLES
  seq,       \* the last id strev_messages' sequence handed out
  writing,   \* writing[p]: rows of p's open transaction
  messages,  \* committed rows of strev_messages
  offset,    \* offset[g]: strev_offsets.last_id, -1 without a row
  row,       \* row[g][m]: strev_consume, none, held, expired or acked
  lock,      \* lock[g]: the subscriptions whose open poll locks the offset row
  poll,      \* poll[s]: off, idle, start, scan, claim, upsert, send, dead
  mark,      \* mark[s]: watermark of the open poll, not yet committed
  picked,    \* picked[s]: ids in the claim's snapshot
  batch,     \* batch[s]: claimed ids still to be sent, in order
  buffer,    \* buffer[s]: the stream's bounded buffer
  held,      \* held[s]: bag of the ids the consumer holds, as id -> count
  verdicts,  \* verdicts[s]: <<id, disposition>> on their way to the flusher
  flush,     \* flush[s]: the flusher's current acks and nacks, and its step
  dropped,   \* the subscriptions whose stream was dropped
  nacks,     \* count, for MaxNacks
  timeouts,  \* count, for MaxTimeouts
  errors,    \* count, for MaxErrors
  purge,     \* the open purge: groups it counted, rows it deletes at commit
  done       \* history: done[g], the ids g acked in the table

tableVars == <<seq, writing, messages, offset, row>>
pollVars  == <<lock, poll, mark, picked, batch>>
leaseVars == <<buffer, held, verdicts, flush, dropped>>
countVars == <<nacks, timeouts, errors>>
vars == <<tableVars, pollVars, leaseVars, countVars, purge, done>>

-----------------------------------------------------------------------------
NoFlush == [step |-> "idle", acks |-> {}, nacks |-> {}]
NoPurge == [counted |-> {}, rows |-> {}]

\* The processes of down are not running, k faults have already happened, and
\* n messages were published before anyone subscribed.
InitWith(down, k, n) ==
  /\ seq = n /\ writing = [p \in Pubs |-> {}] /\ messages = 1..n
  /\ offset = [g \in Groups |-> -1]
  /\ row = [g \in Groups |-> [m \in Ids |-> "none"]]
  /\ lock = [g \in Groups |-> {}]
  /\ poll = [s \in Subs |-> IF s \in down THEN "dead" ELSE "off"]
  /\ mark = [s \in Subs |-> 0]
  /\ picked = [s \in Subs |-> {}] /\ batch = [s \in Subs |-> <<>>]
  /\ buffer = [s \in Subs |-> <<>>]
  /\ held = [s \in Subs |-> [m \in Ids |-> 0]]
  /\ verdicts = [s \in Subs |-> {}] /\ flush = [s \in Subs |-> NoFlush]
  /\ dropped = {} /\ nacks = 0 /\ timeouts = 0 /\ errors = k
  /\ purge = NoPurge /\ done = [g \in Groups |-> {}]

Init == InitWith({}, 0, 0)

\* Not a part of the code: room for another fault within MaxFaults.
FaultLeft == nacks + timeouts + errors + Cardinality(dropped)
               + Cardinality({s \in Subs : poll[s] = "dead"}) < MaxFaults

\* A lease of m that some process of group g may still settle.
InFlight(s, m) ==
  \/ m \in Range(batch[s]) \/ m \in Range(buffer[s]) \/ held[s][m] > 0
  \/ \E d \in {"ack", "nack"} : <<m, d>> \in verdicts[s]
  \/ m \in flush[s].acks \cup flush[s].nacks

Members(g) == {s \in Subs : GroupOf[s] = g}

\* locked_until := now() - 1s for rows not yet acked.
ExpireRows(g, M) ==
  row' = [row EXCEPT ![g] =
           [m \in Ids |-> IF m \in M /\ @[m] = "held" THEN "expired" ELSE @[m]]]

-----------------------------------------------------------------------------
(* publisher.rs.  publish() is one auto-committed INSERT per chunk,        *)
(* publish_tx() an INSERT inside the caller's transaction; the delay       *)
(* promoter inserts the due messages the same way.                         *)

\* One row of an INSERT takes the next id.
Insert(p) ==
  /\ seq < MaxId
  /\ seq' = seq + 1
  /\ writing' = [writing EXCEPT ![p] = @ \cup {seq + 1}]
  /\ UNCHANGED <<messages, offset, row, pollVars, leaseVars, countVars, purge, done>>

Commit(p) ==
  /\ writing[p] # {}
  /\ messages' = messages \cup writing[p]
  /\ writing' = [writing EXCEPT ![p] = {}]
  /\ UNCHANGED <<seq, offset, row, pollVars, leaseVars, countVars, purge, done>>

\* The statement failed or the caller rolled back: the ids are used up.
Rollback(p) ==
  /\ writing[p] # {}
  /\ writing' = [writing EXCEPT ![p] = {}]
  /\ UNCHANGED <<seq, messages, offset, row, pollVars, leaseVars, countVars,
                 purge, done>>

-----------------------------------------------------------------------------
(* subscriber.rs, subscribe() and poll_once().                             *)

\* The offset row is created at 0 unless the group already has one.
Subscribe(s) ==
  /\ poll[s] = "off"
  /\ poll' = [poll EXCEPT ![s] = "idle"]
  /\ offset' = [offset EXCEPT ![GroupOf[s]] = IF @ = -1 THEN 0 ELSE @]
  /\ UNCHANGED <<seq, writing, messages, row, lock, mark, picked, batch,
                 leaseVars, countVars, purge, done>>

\* Mutant: the offset row is read without FOR UPDATE.
NeverLocked(g) == TRUE

Unlocked(g) == lock[g] = {}

\* The poller looks at is_closed() once per poll, before it begins.
PollStart(s) ==
  /\ poll[s] = "idle" /\ s \notin dropped
  /\ poll' = [poll EXCEPT ![s] = "start"]
  /\ UNCHANGED <<tableVars, lock, mark, picked, batch, leaseVars, countVars,
                 purge, done>>

\* SELECT ... FOR UPDATE SKIP LOCKED: another poll has the row, give up.
PollSkip(s) ==
  /\ poll[s] = "start" /\ ~Unlocked(GroupOf[s])
  /\ poll' = [poll EXCEPT ![s] = "idle"]
  /\ UNCHANGED <<tableVars, lock, mark, picked, batch, leaseVars, countVars,
                 purge, done>>

PollLock(s) ==
  /\ poll[s] = "start" /\ Unlocked(GroupOf[s])
  /\ lock' = [lock EXCEPT ![GroupOf[s]] = {s}]
  /\ poll' = [poll EXCEPT ![s] = "scan"]
  /\ mark' = [mark EXCEPT ![s] = offset[GroupOf[s]]]
  /\ UNCHANGED <<tableVars, picked, batch, leaseVars, countVars, purge, done>>

\* Mutant: the watermark jumps to any acked row.
AnyAcked(g, last) == {m \in messages : m > last /\ row[g][m] = "acked"}

\* The rows advance_watermark() scans and moves the watermark over: acked,
\* with every visible row before them acked, among the first ScanLimit rows.
AckedPrefix(g, last) ==
  {m \in messages :
     /\ m > last
     /\ \A k \in messages : last < k /\ k <= m => row[g][k] = "acked"
     /\ Cardinality({k \in messages : last < k /\ k <= m}) <= ScanLimit}

\* advance_watermark(); its writes are committed with the poll.
PollScan(s) ==
  LET prefix == AckedPrefix(GroupOf[s], mark[s])
  IN /\ poll[s] = "scan"
     /\ IF prefix = {}
        THEN UNCHANGED mark
        ELSE \E m \in prefix : /\ \A k \in prefix : k <= m
                               /\ mark' = [mark EXCEPT ![s] = m]
     /\ poll' = [poll EXCEPT ![s] = "claim"]
     /\ UNCHANGED <<tableVars, lock, picked, batch, leaseVars, countVars, purge, done>>

\* Mutant: the claim takes only messages that never had a lease.
ClaimableOnce(s) ==
  {m \in messages : m > mark[s] /\ row[GroupOf[s]][m] = "none"}

Claimable(s) ==
  {m \in messages : m > mark[s] /\ row[GroupOf[s]][m] \in {"none", "expired"}}

\* The snapshot of the claim: the BatchSize smallest claimable ids.
PollPick(s) ==
  /\ poll[s] = "claim"
  /\ picked' = [picked EXCEPT ![s] =
       {m \in Claimable(s) :
          Cardinality({k \in Claimable(s) : k <= m}) <= BatchSize}]
  /\ poll' = [poll EXCEPT ![s] = "upsert"]
  /\ UNCHANGED <<tableVars, lock, mark, batch, leaseVars, countVars, purge, done>>

\* Mutant: the upsert also writes acked = EXCLUDED.acked.
UpsertedFresh(state) == "held"

\* ON CONFLICT DO UPDATE sets locked_until alone, so a row acked since the
\* snapshot stays acked; its message is returned with the others.
Upserted(state) == IF state = "acked" THEN "acked" ELSE "held"

InOrder(M) == CHOOSE q \in [1..Cardinality(M) -> M] :
                \A i, k \in DOMAIN q : i < k => q[i] < q[k]

\* The upsert, the commit of the poll and the pruning of compacted rows.
PollCommit(s) ==
  LET g == GroupOf[s]
  IN /\ poll[s] = "upsert"
     /\ offset' = [offset EXCEPT ![g] = mark[s]]
     /\ row' = [row EXCEPT ![g] =
                 [m \in Ids |->
                    CASE m \in picked[s] -> Upserted(@[m])
                      [] offset[g] < mark[s] /\ m <= mark[s] -> "none"
                      [] OTHER -> @[m]]]
     /\ batch' = [batch EXCEPT ![s] = InOrder(picked[s])]
     /\ picked' = [picked EXCEPT ![s] = {}]
     /\ lock' = [lock EXCEPT ![g] = {}]
     /\ poll' = [poll EXCEPT ![s] = IF picked[s] = {} THEN "idle" ELSE "send"]
     /\ UNCHANGED <<seq, writing, messages, mark, leaseVars, countVars, purge, done>>

\* Any statement of the poll fails: the transaction rolls back.
PollFail(s) ==
  /\ poll[s] \in {"start", "scan", "claim", "upsert"} /\ errors < MaxErrors /\ FaultLeft
  /\ errors' = errors + 1
  /\ lock' = [lock EXCEPT ![GroupOf[s]] = @ \ {s}]
  /\ poll' = [poll EXCEPT ![s] = "idle"]
  /\ picked' = [picked EXCEPT ![s] = {}]
  /\ UNCHANGED <<tableVars, mark, batch, leaseVars, nacks, timeouts, purge, done>>

\* Mutant: one message more than the stream's capacity.
HasRoomTooMuch(s) == Len(buffer[s]) <= BufferSize

HasRoom(s) == Len(buffer[s]) < BufferSize

\* sender.send(message).await for the next claimed row.
SendNext(s) ==
  /\ poll[s] = "send" /\ s \notin dropped
  /\ HasRoom(s)
  /\ buffer' = [buffer EXCEPT ![s] = Append(@, Head(batch[s]))]
  /\ batch' = [batch EXCEPT ![s] = Tail(@)]
  /\ poll' = [poll EXCEPT ![s] = IF Len(batch[s]) = 1 THEN "idle" ELSE "send"]
  /\ UNCHANGED <<tableVars, lock, mark, picked, held, verdicts, flush, dropped,
                 countVars, purge, done>>

\* The stream is gone: expire_lease() for this row, which may fail, then the
\* poll returns and the rest of the batch keeps its leases.
SendClosed(s) ==
  /\ poll[s] = "send" /\ s \in dropped
  /\ \/ /\ ExpireRows(GroupOf[s], {Head(batch[s])})
        /\ UNCHANGED errors
     \/ /\ errors < MaxErrors /\ FaultLeft /\ errors' = errors + 1
        /\ UNCHANGED row
  /\ batch' = [batch EXCEPT ![s] = <<>>]
  /\ poll' = [poll EXCEPT ![s] = "idle"]
  /\ UNCHANGED <<seq, writing, messages, offset, lock, mark, picked, leaseVars,
                 nacks, timeouts, purge, done>>

-----------------------------------------------------------------------------
(* The consumer, external to the crate.                                    *)

Holding(s) == {m \in Ids : held[s][m] > 0}

Take(s) ==
  /\ s \notin dropped /\ buffer[s] # <<>>
  /\ Cardinality(Holding(s)) < MaxHeld
  /\ held' = [held EXCEPT ![s][Head(buffer[s])] = @ + 1]
  /\ buffer' = [buffer EXCEPT ![s] = Tail(@)]
  /\ UNCHANGED <<tableVars, pollVars, verdicts, flush, dropped, countVars, purge, done>>

\* The message's verdict task hands its verdict to the flusher.
Settle(s, m, d) ==
  /\ held[s][m] > 0
  /\ held' = [held EXCEPT ![s][m] = @ - 1]
  /\ verdicts' = [verdicts EXCEPT ![s] = @ \cup {<<m, d>>}]

Ack(s, m) ==
  /\ Settle(s, m, "ack")
  /\ UNCHANGED <<tableVars, pollVars, buffer, flush, dropped, countVars, purge, done>>

Nack(s, m) ==
  /\ nacks < MaxNacks /\ FaultLeft /\ nacks' = nacks + 1
  /\ Settle(s, m, "nack")
  /\ UNCHANGED <<tableVars, pollVars, buffer, flush, dropped, timeouts, errors,
                 purge, done>>

\* Buffered messages resolve to Nack; the poller notices at its next step.
DropStream(s) ==
  /\ s \in Droppable \ dropped /\ poll[s] \notin {"off", "dead"} /\ FaultLeft
  /\ dropped' = dropped \cup {s}
  /\ verdicts' = [verdicts EXCEPT ![s] = @ \cup (Range(buffer[s]) \X {"nack"})]
  /\ buffer' = [buffer EXCEPT ![s] = <<>>]
  /\ UNCHANGED <<tableVars, pollVars, held, flush, countVars, purge, done>>

-----------------------------------------------------------------------------
(* ack_flusher(): one batch at a time, its acks first.                     *)

\* The verdicts that have reached the flusher by now.
FlushTake(s) ==
  /\ flush[s].step = "idle"
  /\ \E V \in SUBSET verdicts[s] \ {{}} :
       /\ flush' = [flush EXCEPT ![s] =
                     [step  |-> "acks",
                      acks  |-> {m \in Ids : <<m, "ack">> \in V},
                      nacks |-> {m \in Ids : <<m, "nack">> \in V}]]
       /\ verdicts' = [verdicts EXCEPT ![s] = @ \ V]
  /\ UNCHANGED <<tableVars, pollVars, buffer, held, dropped, countVars, purge, done>>

\* UPDATE ... SET acked = true, on the rows that still exist.
AckRows(g, M) ==
  /\ row' = [row EXCEPT ![g] =
              [m \in Ids |-> IF m \in M /\ @[m] # "none" THEN "acked" ELSE @[m]]]
  /\ done' = [done EXCEPT ![g] = @ \cup {m \in M : row[g][m] # "none"}]

\* The acks' UPDATE; its error is ignored and the verdicts are forgotten.
FlushAcks(s) ==
  /\ flush[s].step = "acks"
  /\ \/ AckRows(GroupOf[s], flush[s].acks) /\ UNCHANGED errors
     \/ /\ flush[s].acks # {} /\ errors < MaxErrors /\ FaultLeft /\ errors' = errors + 1
        /\ UNCHANGED <<row, done>>
  /\ flush' = [flush EXCEPT ![s].step = "nacks", ![s].acks = {}]
  /\ UNCHANGED <<seq, writing, messages, offset, pollVars, buffer, held,
                 verdicts, dropped, nacks, timeouts, purge>>

\* The nacks' UPDATE, with its AND NOT acked.
FlushNacks(s) ==
  /\ flush[s].step = "nacks"
  /\ \/ ExpireRows(GroupOf[s], flush[s].nacks) /\ UNCHANGED errors
     \/ /\ flush[s].nacks # {} /\ errors < MaxErrors /\ FaultLeft /\ errors' = errors + 1
        /\ UNCHANGED row
  /\ flush' = [flush EXCEPT ![s] = NoFlush]
  /\ UNCHANGED <<seq, writing, messages, offset, pollVars, buffer, held,
                 verdicts, dropped, nacks, timeouts, purge, done>>

-----------------------------------------------------------------------------
(* Time, crashes and retention.                                            *)

\* The visibility timeout passes.  With a copy still in flight it counts
\* against MaxTimeouts; a lease nobody will settle always runs out.
LeaseExpires(g, m) ==
  /\ row[g][m] = "held"
  /\ IF \E s \in Members(g) : InFlight(s, m)
     THEN timeouts < MaxTimeouts /\ FaultLeft /\ timeouts' = timeouts + 1
     ELSE UNCHANGED timeouts
  /\ ExpireRows(g, {m})
  /\ UNCHANGED <<seq, writing, messages, offset, pollVars, leaseVars, nacks,
                 errors, purge, done>>

\* The subscriber's process dies; the server rolls its open poll back.
Crash(s) ==
  /\ s \in Crashable /\ poll[s] \notin {"off", "dead"} /\ FaultLeft
  /\ poll' = [poll EXCEPT ![s] = "dead"]
  /\ lock' = [g \in Groups |-> lock[g] \ {s}]
  /\ picked' = [picked EXCEPT ![s] = {}]
  /\ batch' = [batch EXCEPT ![s] = <<>>]
  /\ buffer' = [buffer EXCEPT ![s] = <<>>]
  /\ held' = [held EXCEPT ![s] = [m \in Ids |-> 0]]
  /\ verdicts' = [verdicts EXCEPT ![s] = {}]
  /\ flush' = [flush EXCEPT ![s] = NoFlush]
  /\ UNCHANGED <<tableVars, mark, dropped, countVars, purge, done>>

\* Mutant: MAX(last_id) in place of MIN(last_id).
ConsumedBySome == {m \in messages : \E g \in Groups : m <= offset[g]}

\* The rows at or below the topic's lowest watermark.
Consumed == {m \in messages : /\ \E g \in Groups : offset[g] # -1
                              /\ \A g \in Groups : offset[g] # -1 => m <= offset[g]}

\* PURGE_CONSUMED_SQL takes its snapshot: the groups that have an offset row
\* by then, and the consumed rows, or as many of them as LIMIT lets through.
PurgeBegin ==
  /\ purge = NoPurge
  /\ \E M \in SUBSET Consumed \ {{}} :
       /\ M = Consumed \/ Cardinality(M) = PurgeBatch
       /\ Cardinality(M) <= PurgeBatch
       /\ purge' = [counted |-> {g \in Groups : offset[g] # -1}, rows |-> M]
  /\ UNCHANGED <<tableVars, pollVars, leaseVars, countVars, done>>

\* Its deletes become visible; a group may have subscribed since the snapshot.
PurgeCommit ==
  /\ purge # NoPurge
  /\ messages' = messages \ purge.rows
  /\ purge' = NoPurge
  /\ UNCHANGED <<seq, writing, offset, row, pollVars, leaseVars, countVars,
                 done>>

\* The statement fails or its session dies; purge_once() runs again later.
PurgeFail ==
  /\ purge # NoPurge
  /\ purge' = NoPurge
  /\ UNCHANGED <<tableVars, pollVars, leaseVars, countVars, done>>

\* PURGE_AGED_SQL, after the other: rows past the age, consumed or not.
PurgeAged ==
  /\ MaxAge /\ FaultLeft /\ purge = NoPurge
  /\ \E M \in SUBSET messages \ {{}} :
       Cardinality(M) <= PurgeBatch /\ messages' = messages \ M
  /\ UNCHANGED <<seq, writing, offset, row, pollVars, leaseVars, countVars,
                 purge, done>>

-----------------------------------------------------------------------------
Publish(p) == Insert(p) \/ Commit(p) \/ Rollback(p)

Poll(s) == \/ Subscribe(s) \/ PollStart(s) \/ PollSkip(s) \/ PollLock(s)
           \/ PollScan(s) \/ PollPick(s) \/ PollCommit(s) \/ PollFail(s)
           \/ SendNext(s) \/ SendClosed(s)

Consume(s) == \/ Take(s) \/ DropStream(s)
              \/ \E m \in Ids : Ack(s, m) \/ Nack(s, m)

Flush(s) == FlushTake(s) \/ FlushAcks(s) \/ FlushNacks(s)

Purge == PurgeBegin \/ PurgeCommit \/ PurgeFail \/ PurgeAged

Next == \/ \E p \in Pubs : Publish(p)
        \/ \E s \in Subs : Poll(s) \/ Consume(s) \/ Flush(s) \/ Crash(s)
        \/ \E g \in Groups, m \in Ids : LeaseExpires(g, m)
        \/ Purge

Spec == Init /\ [][Next]_vars

(* Pollers, flushers and transactions keep running, a consumer settles     *)
(* what it takes, and a lease nobody can settle runs out.  Nothing forces  *)
(* a nack, an error, a crash, a dropped stream or a purge.                 *)
Fairness ==
  /\ \A p \in Pubs : WF_vars(Commit(p) \/ Rollback(p))
  /\ \A s \in Subs :
       /\ WF_vars(Poll(s)) /\ WF_vars(Flush(s)) /\ WF_vars(Take(s))
       /\ WF_vars(\E m \in Ids : Ack(s, m) \/ Nack(s, m))
  /\ \A g \in Groups : WF_vars(\E m \in Ids : LeaseExpires(g, m))

FairSpec == Spec /\ Fairness

-----------------------------------------------------------------------------
(* Properties.                                                             *)

TableTypeOK ==
  /\ seq \in 0..MaxId /\ messages \subseteq Ids
  /\ writing \in [Pubs -> SUBSET Ids]
  /\ offset \in [Groups -> -1..MaxId]
  /\ row \in [Groups -> [Ids -> {"none", "held", "expired", "acked"}]]
  /\ done \in [Groups -> SUBSET Ids]

PollTypeOK ==
  /\ lock \in [Groups -> SUBSET Subs]
  /\ poll \in [Subs -> {"off", "idle", "start", "scan", "claim", "upsert", "send",
                     "dead"}]
  /\ mark \in [Subs -> -1..MaxId] /\ picked \in [Subs -> SUBSET Ids]
  /\ flush \in [Subs -> [step : {"idle", "acks", "nacks"},
                         acks : SUBSET Ids, nacks : SUBSET Ids]]

\* Every variable has its type, and no buffer outgrows its limit.
TypeOK ==
  /\ TableTypeOK /\ PollTypeOK
  /\ purge \in [counted : SUBSET Groups, rows : SUBSET Ids]
  /\ batch \in [Subs -> Seq(Ids)] /\ buffer \in [Subs -> Seq(Ids)]
  /\ \A s \in Subs : Len(buffer[s]) <= BufferSize /\ Len(batch[s]) <= BatchSize
  /\ held \in [Subs -> [Ids -> Nat]] /\ dropped \subseteq Subs
  /\ verdicts \in [Subs -> SUBSET (Ids \X {"ack", "nack"})]
  /\ nacks \in 0..MaxNacks /\ timeouts \in 0..MaxTimeouts /\ errors \in 0..MaxErrors

\* The watermark never passes a message its group has not acked: a poll only
\* looks above the watermark, so such a message would never be delivered.
NothingSkipped ==
  \A g \in Groups : \A m \in messages : m <= offset[g] => m \in done[g]

\* Two subscribers of a group hold the same message only after a visibility
\* timeout ran out under one of them; until then the copy that is in flight is
\* the only one, and the row says it is leased (unless retention deleted the
\* message meanwhile).
ExclusiveLease ==
  timeouts = 0 =>
    \A s, t \in Subs, m \in Ids :
      InFlight(s, m) => /\ m \in messages => row[GroupOf[s]][m] = "held"
                        /\ GroupOf[s] = GroupOf[t] /\ InFlight(t, m) => s = t

\* An ack is final: no late nack, expiry or claim that raced with it takes the
\* row back, until the watermark has moved over it.
AckFinal ==
  [][\A g \in Groups, m \in Ids :
       row[g][m] = "acked" => row'[g][m] = "acked" \/ m <= offset'[g]]_vars

\* However groups poll and consume while the purge of consumed rows runs, it
\* deletes only messages that every group has acked whose offset row was there
\* when it began.
PurgeSafe ==
  [][PurgeCommit => \A m \in messages \ messages' : \A g \in purge.counted :
                      m \in done[g]]_vars

\* Every group that subscribed works off its backlog: a committed message is
\* acked by it in the end, whatever one of its subscribers does (retention by
\* age excepted).
EventuallyDone ==
  []<>(\A g \in Groups : offset[g] # -1 => messages \subseteq done[g])
=============================================================================
