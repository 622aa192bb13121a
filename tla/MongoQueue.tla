---------------------------- MODULE MongoQueue ----------------------------
(***************************************************************************)
(* The MongoDB queue, crates/strev-mongodb: the inserts of publisher.rs,   *)
(* the poller and the ack flusher of queue_subscriber.rs and the purge of  *)
(* retention.rs, for one topic.                                            *)
(*                                                                         *)
(* A message is its ObjectId, which the driver picks before insert_many    *)
(* is sent; other clients see the document when the server has inserted    *)
(* it.  Each command is atomic for one document, and nothing is locked     *)
(* from one command to the next.  Time appears only as leases that may run *)
(* out.                                                                    *)
(***************************************************************************)
EXTENDS Integers, Sequences, FiniteSets, Functions

CONSTANTS
  Groups,      \* consumer groups
  Subs,        \* subscribe() calls, each with its poller and ack flusher
  GroupOf,     \* GroupOf[s]: the consumer group of s
  Pubs,        \* clients that publish
  MaxId,       \* bound: ObjectIds that are handed out
  BatchSize,   \* claims of one round
  ScanLimit,   \* ADVANCE_SCAN_LIMIT
  BufferSize,  \* MessageStream::channel(buffer_size)
  MaxHeld,     \* messages a consumer holds at once
  MaxFaults,   \* bound: nacks, timeouts, errors, drops, crashes, purges
  Droppable,   \* the subscriptions whose stream may be dropped
  Crashable    \* the subscriptions whose process may die

ASSUME MongoAssumption ==
  /\ GroupOf \in [Subs -> Groups]
  /\ MaxId \in Nat /\ BatchSize \in Nat \ {0} /\ ScanLimit \in Nat \ {0}
  /\ BufferSize \in Nat \ {0} /\ MaxHeld \in Nat \ {0} /\ MaxFaults \in Nat
  /\ Droppable \subseteq Subs /\ Crashable \subseteq Subs

Ids == 1..MaxId

VARIABLES
  next,      \* the last ObjectId handed out
  inserting, \* inserting[p]: documents of p's insert_many not inserted yet
  messages,  \* the documents of the messages collection
  cursor,    \* cursor[g]: the group's cursor document, 0 without one
  entry,     \* entry[g][m]: consumed.<g> of m: none, held, expired or acked
  poll,      \* poll[s]: off, top, read, scan, save, claim, send, gone, dead
  mark,      \* mark[s]: the cursor the poller works with
  claims,    \* claims[s]: claims left in this round
  claimed,   \* claimed[s]: the message claimed and not handed over, if any
  buffer,    \* buffer[s]: the stream's bounded buffer
  held,      \* held[s]: how often the consumer holds each id
  verdicts,  \* verdicts[s]: <<id, disposition>> on their way to the flusher
  flush,     \* flush[s]: the flusher's current acks and nacks, and its step
  dropped,   \* the subscriptions whose stream was dropped
  floor,     \* the lowest cursor a purge under way has read, else 0
  timeouts,  \* history: leases that ran out with a copy in flight
  faults,    \* count, for MaxFaults
  done       \* history: done[g], the messages g acked in the collection

pubVars   == <<next, inserting>>
dbVars    == <<messages, cursor, entry, done, floor>>
pollVars  == <<poll, mark, claims, claimed>>
leaseVars == <<buffer, held, verdicts, flush, dropped>>
faultVars == <<timeouts, faults>>
vars == <<pubVars, dbVars, pollVars, leaseVars, faultVars>>

-----------------------------------------------------------------------------
NoFlush == [step |-> "idle", acks |-> {}, nacks |-> {}]

Init ==
  /\ next = 0 /\ inserting = [p \in Pubs |-> {}] /\ messages = {}
  /\ cursor = [g \in Groups |-> 0]
  /\ entry = [g \in Groups |-> [m \in Ids |-> "none"]]
  /\ poll = [s \in Subs |-> "off"]
  /\ mark = [s \in Subs |-> 0] /\ claims = [s \in Subs |-> 0]
  /\ claimed = [s \in Subs |-> {}] /\ buffer = [s \in Subs |-> <<>>]
  /\ held = [s \in Subs |-> [m \in Ids |-> 0]]
  /\ verdicts = [s \in Subs |-> {}] /\ flush = [s \in Subs |-> NoFlush]
  /\ dropped = {} /\ floor = 0 /\ timeouts = 0 /\ faults = 0
  /\ done = [g \in Groups |-> {}]

\* Not a part of the code: one of the faults MaxFaults leaves room for.
Fault == faults < MaxFaults /\ faults' = faults + 1

\* A copy of m that s still has to settle.
InFlight(s, m) ==
  \/ m \in claimed[s] \cup Range(buffer[s]) \/ held[s][m] > 0
  \/ \E d \in {"ack", "nack"} : <<m, d>> \in verdicts[s]
  \/ m \in flush[s].acks \cup flush[s].nacks

Members(g) == {s \in Subs : GroupOf[s] = g}

\* locked_until := now - 1s where acked is false.
Expire(g, M) ==
  entry' = [entry EXCEPT ![g] =
             [m \in Ids |-> IF m \in M /\ @[m] = "held" THEN "expired" ELSE @[m]]]

-----------------------------------------------------------------------------
(* publisher.rs                                                            *)

\* publish(): the driver gives the documents their ids and sends them.
InsertMany(p) ==
  /\ inserting[p] = {}
  /\ \E n \in 1..(MaxId - next) :
       /\ inserting' = [inserting EXCEPT ![p] = (next + 1)..(next + n)]
       /\ next' = next + n
  /\ UNCHANGED <<dbVars, pollVars, leaseVars, faultVars>>

\* The server inserts them in order, or refuses one and all after it; the call
\* then nacks the whole batch, the documents that went in included.
Inserted(p) ==
  /\ inserting[p] # {}
  /\ \/ \E m \in inserting[p] :
          /\ \A k \in inserting[p] : m <= k
          /\ messages' = messages \cup {m}
          /\ inserting' = [inserting EXCEPT ![p] = @ \ {m}]
          /\ UNCHANGED faults
     \/ /\ Fault
        /\ inserting' = [inserting EXCEPT ![p] = {}]
        /\ UNCHANGED messages
  /\ UNCHANGED <<next, cursor, entry, done, floor, pollVars, leaseVars,
                 timeouts>>

-----------------------------------------------------------------------------
(* queue_subscriber.rs, the poller.                                        *)

Subscribe(s) ==
  /\ poll[s] = "off"
  /\ poll' = [poll EXCEPT ![s] = "top"]
  /\ UNCHANGED <<pubVars, dbVars, mark, claims, claimed, leaseVars, faultVars>>

\* is_closed() is looked at once per round.
PollTop(s) ==
  /\ poll[s] = "top"
  /\ poll' = [poll EXCEPT ![s] = IF s \in dropped THEN "gone" ELSE "read"]
  /\ UNCHANGED <<pubVars, dbVars, mark, claims, claimed, leaseVars, faultVars>>

\* The round is over; its cursor is forgotten.
EndRound(s, state) ==
  /\ poll' = [poll EXCEPT ![s] = state]
  /\ mark' = [mark EXCEPT ![s] = 0]
  /\ claims' = [claims EXCEPT ![s] = 0]

\* advance_cursor() is over, the round's claims begin above c.
StartClaims(s, c) ==
  /\ mark' = [mark EXCEPT ![s] = c]
  /\ claims' = [claims EXCEPT ![s] = BatchSize]
  /\ poll' = [poll EXCEPT ![s] = "claim"]

\* read_cursor()
PollRead(s) ==
  /\ poll[s] = "read"
  /\ mark' = [mark EXCEPT ![s] = cursor[GroupOf[s]]]
  /\ poll' = [poll EXCEPT ![s] = "scan"]
  /\ UNCHANGED <<pubVars, dbVars, claims, claimed, leaseVars, faultVars>>

\* Mutant: the scan steps over a message that is not acked.
AnyAcked(g, c) == {m \in messages : m > c /\ entry[g][m] = "acked"}

\* The first ScanLimit messages after c, up to the first that is not acked.
AckedPrefix(g, c) ==
  {m \in messages :
     /\ m > c
     /\ \A k \in messages : c < k /\ k <= m => entry[g][k] = "acked"
     /\ Cardinality({k \in messages : c < k /\ k <= m}) <= ScanLimit}

PollScan(s) ==
  LET prefix == AckedPrefix(GroupOf[s], mark[s])
  IN /\ poll[s] = "scan"
     /\ IF prefix = {}
        THEN StartClaims(s, mark[s])
        ELSE /\ \E m \in prefix : /\ \A k \in prefix : k <= m
                                  /\ mark' = [mark EXCEPT ![s] = m]
             /\ poll' = [poll EXCEPT ![s] = "save"]
             /\ UNCHANGED claims
     /\ UNCHANGED <<pubVars, dbVars, claimed, leaseVars, faultVars>>

\* update_one with upsert; another poller may have moved the cursor since.
PollSave(s) ==
  /\ poll[s] = "save"
  /\ cursor' = [cursor EXCEPT ![GroupOf[s]] = mark[s]]
  /\ StartClaims(s, mark[s])
  /\ UNCHANGED <<pubVars, messages, entry, done, floor, claimed, leaseVars,
                 faultVars>>

\* advance_cursor() fails: claim from the smallest id.
PollErr(s) ==
  /\ poll[s] \in {"read", "scan", "save"}
  /\ Fault
  /\ StartClaims(s, 0)
  /\ UNCHANGED <<pubVars, dbVars, claimed, leaseVars, timeouts>>

\* Mutant: the filter of claim_one() forgets locked_until.
ClaimableHeld(s) ==
  {m \in messages : m > mark[s] /\ entry[GroupOf[s]][m] # "acked"}

\* Mutant: the filter of claim_one() takes documents without an entry only.
ClaimableOnce(s) ==
  {m \in messages : m > mark[s] /\ entry[GroupOf[s]][m] = "none"}

\* The filter of claim_one().
Claimable(s) ==
  {m \in messages : m > mark[s] /\ entry[GroupOf[s]][m] \in {"none", "expired"}}

\* find_one_and_update on the first of them.  When its reply is an error the
\* lease may have been taken all the same, and the round is over.
PollClaim(s) ==
  /\ poll[s] = "claim" /\ claims[s] > 0
  /\ \E m \in Claimable(s) :
       /\ \A k \in Claimable(s) : m <= k
       /\ entry' = [entry EXCEPT ![GroupOf[s]][m] = "held"]
       /\ \/ /\ claimed' = [claimed EXCEPT ![s] = {m}]
             /\ claims' = [claims EXCEPT ![s] = @ - 1]
             /\ poll' = [poll EXCEPT ![s] = "send"]
             /\ UNCHANGED <<mark, faults>>
          \/ Fault /\ EndRound(s, "top") /\ UNCHANGED claimed
  /\ UNCHANGED <<pubVars, messages, cursor, done, floor, leaseVars, timeouts>>

\* The batch is full, nothing is claimable, or the claim failed.
PollEnd(s) ==
  /\ poll[s] = "claim"
  /\ \/ (claims[s] = 0 \/ Claimable(s) = {}) /\ UNCHANGED faults
     \/ Fault
  /\ EndRound(s, "top")
  /\ UNCHANGED <<pubVars, dbVars, claimed, leaseVars, timeouts>>

\* Mutant: one message more than the stream's capacity.
HasRoomTooMuch(s) == Len(buffer[s]) <= BufferSize

HasRoom(s) == Len(buffer[s]) < BufferSize

\* sender.send(message).await
Send(s) ==
  /\ poll[s] = "send" /\ s \notin dropped /\ HasRoom(s)
  /\ \E m \in claimed[s] : buffer' = [buffer EXCEPT ![s] = Append(@, m)]
  /\ claimed' = [claimed EXCEPT ![s] = {}]
  /\ poll' = [poll EXCEPT ![s] = "claim"]
  /\ UNCHANGED <<pubVars, dbVars, mark, claims, held, verdicts, flush, dropped,
                 faultVars>>

\* The stream is gone: expire_lease(), whose error is ignored, and return.
SendClosed(s) ==
  /\ poll[s] = "send" /\ s \in dropped
  /\ \/ Expire(GroupOf[s], claimed[s]) /\ UNCHANGED faults
     \/ Fault /\ UNCHANGED entry
  /\ claimed' = [claimed EXCEPT ![s] = {}]
  /\ EndRound(s, "gone")
  /\ UNCHANGED <<pubVars, messages, cursor, done, floor, leaseVars, timeouts>>

-----------------------------------------------------------------------------
(* The consumer and the verdict tasks.                                     *)

Take(s) ==
  /\ s \notin dropped /\ buffer[s] # <<>>
  /\ Cardinality({m \in Ids : held[s][m] > 0}) < MaxHeld
  /\ held' = [held EXCEPT ![s][Head(buffer[s])] = @ + 1]
  /\ buffer' = [buffer EXCEPT ![s] = Tail(@)]
  /\ UNCHANGED <<pubVars, dbVars, pollVars, verdicts, flush, dropped, faultVars>>

\* An ack, a nack or a message dropped without either.
Settle(s, m) ==
  /\ held[s][m] > 0
  /\ held' = [held EXCEPT ![s][m] = @ - 1]
  /\ \/ /\ verdicts' = [verdicts EXCEPT ![s] = @ \cup {<<m, "ack">>}]
        /\ UNCHANGED faults
     \/ /\ Fault
        /\ verdicts' = [verdicts EXCEPT ![s] = @ \cup {<<m, "nack">>}]
  /\ UNCHANGED <<pubVars, dbVars, pollVars, buffer, flush, dropped, timeouts>>

\* Buffered messages resolve to Nack.
DropStream(s) ==
  /\ s \in Droppable \ dropped /\ poll[s] \notin {"off", "dead"}
  /\ Fault
  /\ dropped' = dropped \cup {s}
  /\ verdicts' = [verdicts EXCEPT ![s] = @ \cup (Range(buffer[s]) \X {"nack"})]
  /\ buffer' = [buffer EXCEPT ![s] = <<>>]
  /\ UNCHANGED <<pubVars, dbVars, pollVars, held, flush, timeouts>>

-----------------------------------------------------------------------------
(* ack_flusher()                                                           *)

\* The verdicts that are there by now.
FlushTake(s) ==
  /\ flush[s].step = "idle"
  /\ \E V \in SUBSET verdicts[s] \ {{}} :
       /\ flush' = [flush EXCEPT ![s] =
                     [step  |-> "acks",
                      acks  |-> {m \in Ids : <<m, "ack">> \in V},
                      nacks |-> {m \in Ids : <<m, "nack">> \in V}]]
       /\ verdicts' = [verdicts EXCEPT ![s] = @ \ V]
  /\ UNCHANGED <<pubVars, dbVars, pollVars, buffer, held, dropped, faultVars>>

\* update_many of the acks, on the documents that still exist.
FlushAcks(s) ==
  LET g == GroupOf[s]
      M == flush[s].acks \cap messages
  IN /\ flush[s].step = "acks"
     /\ \/ /\ entry' = [entry EXCEPT ![g] =
                         [m \in Ids |-> IF m \in M THEN "acked" ELSE @[m]]]
           /\ done' = [done EXCEPT ![g] = @ \cup M]
           /\ UNCHANGED faults
        \/ flush[s].acks # {} /\ Fault /\ UNCHANGED <<entry, done>>
     /\ flush' = [flush EXCEPT ![s].step = "nacks", ![s].acks = {}]
     /\ UNCHANGED <<pubVars, messages, cursor, floor, pollVars, buffer, held,
                    verdicts, dropped, timeouts>>

\* update_many of the nacks, where acked is false.
FlushNacks(s) ==
  /\ flush[s].step = "nacks"
  /\ \/ Expire(GroupOf[s], flush[s].nacks) /\ UNCHANGED faults
     \/ flush[s].nacks # {} /\ Fault /\ UNCHANGED entry
  /\ flush' = [flush EXCEPT ![s] = NoFlush]
  /\ UNCHANGED <<pubVars, messages, cursor, done, floor, pollVars, buffer, held,
                 verdicts, dropped, timeouts>>

-----------------------------------------------------------------------------
(* Time, crashes and retention.                                            *)

\* The visibility timeout passes, with a copy in flight or without one.
LeaseExpires(g, m) ==
  /\ entry[g][m] = "held"
  /\ IF \E s \in Members(g) : InFlight(s, m)
     THEN Fault /\ timeouts' = timeouts + 1
     ELSE UNCHANGED faultVars
  /\ Expire(g, {m})
  /\ UNCHANGED <<pubVars, messages, cursor, done, floor, pollVars, leaseVars>>

\* The subscriber's process dies.
Crash(s) ==
  /\ s \in Crashable /\ poll[s] \notin {"off", "dead"}
  /\ Fault
  /\ EndRound(s, "dead")
  /\ claimed' = [claimed EXCEPT ![s] = {}]
  /\ buffer' = [buffer EXCEPT ![s] = <<>>]
  /\ held' = [held EXCEPT ![s] = [m \in Ids |-> 0]]
  /\ verdicts' = [verdicts EXCEPT ![s] = {}]
  /\ flush' = [flush EXCEPT ![s] = NoFlush]
  /\ UNCHANGED <<pubVars, dbVars, dropped, timeouts>>

\* purge_once() reads the lowest of the topic's cursor documents ...
PurgeFloor ==
  /\ floor = 0 /\ Fault
  /\ \E g \in Groups :
       /\ cursor[g] # 0
       /\ \A h \in Groups : cursor[h] # 0 => cursor[g] <= cursor[h]
       /\ floor' = cursor[g]
  /\ UNCHANGED <<pubVars, messages, cursor, entry, done, pollVars, leaseVars,
                 timeouts>>

\* ... and deletes messages up to there; limit picks any of them.
PurgeDelete ==
  /\ floor # 0
  /\ \E M \in SUBSET {m \in messages : m <= floor} : messages' = messages \ M
  /\ floor' = 0
  /\ UNCHANGED <<pubVars, cursor, entry, done, pollVars, leaseVars, faultVars>>

\* The filter of lag(), which counts what is not acked above the cursor.
Lag(g) == {m \in messages : m > cursor[g] /\ entry[g][m] # "acked"}

-----------------------------------------------------------------------------
Poll(s) == \/ Subscribe(s) \/ PollTop(s) \/ PollRead(s) \/ PollScan(s)
           \/ PollSave(s) \/ PollErr(s) \/ PollClaim(s) \/ PollEnd(s)
           \/ Send(s) \/ SendClosed(s)

Flush(s) == FlushTake(s) \/ FlushAcks(s) \/ FlushNacks(s)

Next == \/ \E p \in Pubs : InsertMany(p) \/ Inserted(p)
        \/ \E s \in Subs : \/ Poll(s) \/ Take(s) \/ DropStream(s) \/ Flush(s)
                           \/ Crash(s) \/ \E m \in Ids : Settle(s, m)
        \/ \E g \in Groups, m \in Ids : LeaseExpires(g, m)
        \/ PurgeFloor \/ PurgeDelete

Spec == Init /\ [][Next]_vars

(* Pollers, flushers and inserts keep running, a consumer settles what it  *)
(* takes, and a lease nobody can settle runs out.  MaxFaults ends the      *)
(* faults; nothing forces one, nor a purge.                                *)
Fairness ==
  /\ \A p \in Pubs : WF_vars(Inserted(p))
  /\ \A s \in Subs :
       /\ WF_vars(Poll(s)) /\ WF_vars(Flush(s)) /\ WF_vars(Take(s))
       /\ WF_vars(\E m \in Ids : Settle(s, m))
  /\ \A g \in Groups : WF_vars(\E m \in Ids : LeaseExpires(g, m))

FairSpec == Spec /\ Fairness

-----------------------------------------------------------------------------
(* Properties.                                                             *)

DbTypeOK ==
  /\ next \in 0..MaxId /\ messages \subseteq Ids
  /\ inserting \in [Pubs -> SUBSET Ids]
  /\ floor \in 0..MaxId /\ cursor \in [Groups -> 0..MaxId]
  /\ done \in [Groups -> SUBSET Ids]
  /\ entry \in [Groups -> [Ids -> {"none", "held", "expired", "acked"}]]

PollTypeOK ==
  /\ poll \in [Subs -> {"off", "top", "read", "scan", "save", "claim", "send",
                        "gone", "dead"}]
  /\ mark \in [Subs -> 0..MaxId] /\ claims \in [Subs -> 0..BatchSize]
  /\ claimed \in [Subs -> SUBSET Ids]

LeaseTypeOK ==
  /\ buffer \in [Subs -> Seq(Ids)] /\ held \in [Subs -> [Ids -> Nat]]
  /\ \A s \in Subs : Len(buffer[s]) <= BufferSize
  /\ verdicts \in [Subs -> SUBSET (Ids \X {"ack", "nack"})]
  /\ flush \in [Subs -> [step : {"idle", "acks", "nacks"},
                         acks : SUBSET Ids, nacks : SUBSET Ids]]
  /\ dropped \subseteq Subs /\ timeouts \in Nat /\ faults \in Nat

\* Every variable has its type, and no buffer outgrows its limit.
TypeOK == DbTypeOK /\ PollTypeOK /\ LeaseTypeOK

\* Neither a group's cursor document nor the cursor a poller works with passes
\* a message the group has not acked, although pollers of one group read, scan
\* and save it at the same time and may set it back; lag() misses none either.
NothingSkipped ==
  /\ \A g \in Groups : Lag(g) = messages \ done[g]
  /\ \A m \in messages, s \in Subs : m <= mark[s] => m \in done[GroupOf[s]]

\* Two subscribers of a group hold the same message only after a visibility
\* timeout ran out under one of them; until then the copy in flight is the only
\* one, and the document says it is leased.
ExclusiveLease ==
  timeouts = 0 =>
    \A s, t \in Subs, m \in Ids :
      InFlight(s, m) => /\ entry[GroupOf[s]][m] = "held"
                        /\ GroupOf[s] = GroupOf[t] /\ InFlight(t, m) => s = t

Served(g) == \E s \in Members(g) : poll[s] \notin {"off", "gone", "dead"}

\* A group that has a poller left works off its backlog, whatever becomes of
\* its other subscribers.
EventuallyDone ==
  []<>(\A g \in Groups : Served(g) => messages \subseteq done[g])
=============================================================================
