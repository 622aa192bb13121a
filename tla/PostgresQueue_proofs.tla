----------------------- MODULE PostgresQueue_proofs -----------------------
(***************************************************************************)
(* Proofs about PostgresQueue for every number of groups, subscribers and  *)
(* messages: everything keeps its type and its limit, an ack is final, no  *)
(* two subscribers of a group hold a message before a lease runs out; and  *)
(* where one session at a time inserts messages, the watermark never       *)
(* passes an unacked message, and the purge of consumed rows deletes none  *)
(* that a group it counted has not acked.                                  *)
(***************************************************************************)
EXTENDS PostgresQueue, SequenceTheorems, FiniteSetTheorems, TLAPS

-----------------------------------------------------------------------------
(* What Append adds to a queue, and Head and Tail take apart, and what     *)
(* stays without repetitions.                                              *)

LEMMA AppendFacts ==
  ASSUME NEW S, NEW q \in Seq(S), NEW e \in S
  PROVE  /\ Append(q, e) \in Seq(S) /\ Len(Append(q, e)) = Len(q) + 1
         /\ Range(Append(q, e)) = Range(q) \cup {e}
BY AppendProperties, LenProperties DEF Range

LEMMA TailFacts ==
  ASSUME NEW S, NEW q \in Seq(S), q # <<>>
  PROVE  /\ Head(q) \in S /\ Tail(q) \in Seq(S) /\ Len(Tail(q)) = Len(q) - 1
         /\ Range(q) = {Head(q)} \cup Range(Tail(q))
<1>1. \A i \in DOMAIN q : i = 1 \/ (i - 1 \in DOMAIN Tail(q) /\ Tail(q)[i - 1] = q[i])
  OBVIOUS
<1>2. /\ 1 \in DOMAIN q /\ Head(q) = q[1]
      /\ \A i \in DOMAIN Tail(q) : i + 1 \in DOMAIN q /\ Tail(q)[i] = q[i + 1]
  OBVIOUS
<1>. QED
  BY <1>1, <1>2, HeadTailProperties DEF Range

LEMMA EmptyFacts == Range(<<>>) = {} /\ Len(<<>>) = 0 /\ \A S : <<>> \in Seq(S)
BY DEF Range

Distinct(q) == \A i, j \in DOMAIN q : q[i] = q[j] => i = j

LEMMA AppendDistinct ==
  ASSUME NEW S, NEW q \in Seq(S), NEW e \in S, Distinct(q), e \notin Range(q)
  PROVE  Distinct(Append(q, e))
BY DEF Distinct, Range

LEMMA TailDistinct ==
  ASSUME NEW S, NEW q \in Seq(S), q # <<>>, Distinct(q)
  PROVE  Distinct(Tail(q)) /\ Head(q) \notin Range(Tail(q))
BY DEF Distinct, Range

LEMMA EmptyDistinct == Distinct(<<>>)
BY DEF Distinct

CoreTypeOK == TableTypeOK /\ PollTypeOK

\* The tables, the poll and the flusher's batch keep their types.
LEMMA CoreTypeInit == ASSUME Init PROVE CoreTypeOK
BY PostgresAssumption DEF Init, InitWith, CoreTypeOK, TableTypeOK, PollTypeOK, Ids, NoFlush

\* The actions that insert, commit and purge rows.
LEMMA CoreTypePublish ==
  ASSUME CoreTypeOK, NEW p \in Pubs, Publish(p)
  PROVE  CoreTypeOK'
<1> USE PostgresAssumption DEF CoreTypeOK, TableTypeOK, PollTypeOK, Ids,
            pollVars, leaseVars, countVars
<1>1. CASE Insert(p)
  <2>1. seq + 1 \in 1..MaxId /\ seq' = seq + 1
    BY <1>1 DEF Insert
  <2>2. writing' \in [Pubs -> SUBSET (1..MaxId)]
    BY <1>1, <2>1 DEF Insert
  <2>. QED
    BY <1>1, <2>1, <2>2 DEF Insert
<1>2. CASE Commit(p)
  BY <1>2 DEF Commit
<1>3. CASE Rollback(p)
  BY <1>3 DEF Rollback
<1>. QED
  BY <1>1, <1>2, <1>3 DEF Publish

\* The purges only ever delete messages.
LEMMA PurgeFrame ==
  ASSUME Purge
  PROVE  /\ messages' \subseteq messages
         /\ UNCHANGED <<seq, writing, offset, row, pollVars, leaseVars, countVars, done>>
BY DEF Purge, PurgeBegin, PurgeCommit, PurgeFail, PurgeAged, tableVars

LEMMA CoreTypePurge ==
  ASSUME CoreTypeOK, Purge
  PROVE  CoreTypeOK'
<1> USE PostgresAssumption DEF CoreTypeOK, TableTypeOK, PollTypeOK, Ids,
            pollVars, leaseVars, countVars
<1>1. /\ messages' \subseteq messages
      /\ UNCHANGED <<seq, writing, offset, row, pollVars, leaseVars, done>>
  BY PurgeFrame
<1>. QED
  BY <1>1

\* Expiring rows keeps the type of the lease table.
LEMMA ExpireRowsType ==
  ASSUME TableTypeOK, NEW g \in Groups, NEW M, ExpireRows(g, M)
  PROVE  row' \in [Groups -> [Ids -> {"none", "held", "expired", "acked"}]]
BY DEF TableTypeOK, ExpireRows

LEMMA CoreTypePoll ==
  ASSUME CoreTypeOK, NEW s \in Subs, Poll(s)
  PROVE  CoreTypeOK'
<1> USE PostgresAssumption DEF CoreTypeOK, TableTypeOK, PollTypeOK,
            tableVars, leaseVars, countVars
<1>0. GroupOf[s] \in Groups
  OBVIOUS
<1>1. CASE Subscribe(s)
  BY <1>0, <1>1 DEF Subscribe
<1>2. CASE PollLock(s)
  BY <1>0, <1>2 DEF PollLock
<1>3. CASE PollScan(s)
  <2>0. AckedPrefix(GroupOf[s], mark[s]) \subseteq messages
    BY Zenon DEF AckedPrefix
  <2>1. AckedPrefix(GroupOf[s], mark[s]) \subseteq -1..MaxId
    BY <2>0, messages \subseteq 1..MaxId, 1..MaxId \subseteq -1..MaxId DEF Ids
  <2>2. \/ mark' = mark
        \/ \E m \in -1..MaxId : mark' = [mark EXCEPT ![s] = m]
    BY <1>3, <2>1 DEF PollScan
  <2>3. mark' \in [Subs -> -1..MaxId]
    BY <2>2
  <2>. QED
    BY <1>3, <2>3 DEF PollScan
<1>4. CASE PollPick(s)
  BY <1>4 DEF PollPick, Claimable
<1>5. CASE PollCommit(s)
  <2>1. row' \in [Groups -> [Ids -> {"none", "held", "expired", "acked"}]]
    BY <1>0, <1>5 DEF PollCommit, Upserted
  <2>. QED
    BY <1>0, <1>5, <2>1 DEF PollCommit
<1>6. CASE PollFail(s)
  BY <1>0, <1>6 DEF PollFail
<1>7. CASE SendNext(s)
  BY <1>7 DEF SendNext
<1>9. CASE PollStart(s) \/ PollSkip(s)
  BY <1>9 DEF PollStart, PollSkip
<1>8. CASE SendClosed(s)
  <2>1. row' \in [Groups -> [Ids -> {"none", "held", "expired", "acked"}]]
    BY <1>0, <1>8, ExpireRowsType DEF SendClosed
  <2>. QED
    BY <1>8, <2>1 DEF SendClosed
<1>. QED
  BY <1>1, <1>2, <1>3, <1>4, <1>5, <1>6, <1>7, <1>8, <1>9 DEF Poll

LEMMA CoreTypeConsume ==
  ASSUME CoreTypeOK, NEW s \in Subs, Consume(s) \/ Crash(s)
  PROVE  CoreTypeOK'
<1> USE PostgresAssumption DEF CoreTypeOK, TableTypeOK, PollTypeOK, tableVars,
        pollVars, countVars
<1>1. CASE Take(s)
  BY <1>1 DEF Take
<1>2. ASSUME NEW m \in Ids, Ack(s, m) PROVE CoreTypeOK'
  BY <1>2 DEF Ack
<1>3. ASSUME NEW m \in Ids, Nack(s, m) PROVE CoreTypeOK'
  BY <1>3 DEF Nack
<1>4. CASE DropStream(s)
  BY <1>4 DEF DropStream
<1>5. CASE Crash(s)
  BY <1>5 DEF Crash, NoFlush
<1>. QED
  BY <1>1, <1>2, <1>3, <1>4, <1>5 DEF Consume

LEMMA CoreTypeFlush ==
  ASSUME CoreTypeOK, NEW s \in Subs, Flush(s)
  PROVE  CoreTypeOK'
<1> USE PostgresAssumption DEF CoreTypeOK, TableTypeOK, PollTypeOK, pollVars
<1>0. GroupOf[s] \in Groups
  OBVIOUS
<1>1. CASE FlushTake(s)
  BY <1>1 DEF FlushTake, tableVars, countVars
<1>2. CASE FlushAcks(s)
  <2>1. /\ row' \in [Groups -> [Ids -> {"none", "held", "expired", "acked"}]]
        /\ done' \in [Groups -> SUBSET Ids]
    <3>1. flush[s].acks \subseteq Ids
      OBVIOUS
    <3>2. CASE AckRows(GroupOf[s], flush[s].acks)
      BY <1>0, <3>1, <3>2 DEF AckRows
    <3>. QED
      BY <1>2, <3>2 DEF FlushAcks
  <2>2. flush' \in [Subs -> [step : {"idle", "acks", "nacks"},
                            acks : SUBSET Ids, nacks : SUBSET Ids]]
    <3>1. [flush[s] EXCEPT !.step = "nacks", !.acks = {}]
            \in [step : {"idle", "acks", "nacks"}, acks : SUBSET Ids, nacks : SUBSET Ids]
      OBVIOUS
    <3>2. flush' = [flush EXCEPT ![s] = [flush[s] EXCEPT !.step = "nacks", !.acks = {}]]
      BY <1>2 DEF FlushAcks
    <3>. QED
      BY <3>1, <3>2
  <2>. QED
    BY <1>2, <2>1, <2>2 DEF FlushAcks
<1>3. CASE FlushNacks(s)
  <2>1. row' \in [Groups -> [Ids -> {"none", "held", "expired", "acked"}]]
    BY <1>0, <1>3, ExpireRowsType DEF FlushNacks
  <2>. QED
    BY <1>3, <2>1 DEF FlushNacks, NoFlush
<1>. QED
  BY <1>1, <1>2, <1>3 DEF Flush

LEMMA CoreTypeExpire ==
  ASSUME CoreTypeOK, NEW g \in Groups, NEW m \in Ids, LeaseExpires(g, m)
  PROVE  CoreTypeOK'
<1>1. row' \in [Groups -> [Ids -> {"none", "held", "expired", "acked"}]]
  BY ExpireRowsType DEF LeaseExpires, CoreTypeOK
<1>. QED
  BY <1>1 DEF LeaseExpires, CoreTypeOK, TableTypeOK, PollTypeOK, pollVars,
              leaseVars

LEMMA CoreTypeStep == ASSUME CoreTypeOK, [Next]_vars PROVE CoreTypeOK'
<1>1. CASE Next
  BY <1>1, CoreTypePublish, CoreTypePurge, CoreTypePoll, CoreTypeConsume,
     CoreTypeFlush, CoreTypeExpire DEF Next
<1>2. CASE UNCHANGED vars
  BY <1>2 DEF CoreTypeOK, TableTypeOK, PollTypeOK, vars, tableVars, pollVars,
              leaseVars
<1>. QED
  BY <1>1, <1>2

\* Whatever pollers, flushers, consumers and publishers do, the tables, the
\* open polls and the flusher's batches keep their types.
THEOREM CoreTypeCorrect == Spec => []CoreTypeOK
<1>1. Init => CoreTypeOK
  BY CoreTypeInit
<1>2. CoreTypeOK /\ [Next]_vars => CoreTypeOK'
  BY CoreTypeStep
<1>. QED
  BY <1>1, <1>2, PTL DEF Spec

-----------------------------------------------------------------------------
(* The watermark.  NothingSkipped is not inductive: the watermark may move *)
(* over the ids an open transaction has not committed yet.  With one       *)
(* inserting session those ids lie above every committed row, so above     *)
(* every watermark computed from committed rows.                           *)

OneSession == \A p, q \in Pubs : p = q

Polling(s) == poll[s] \in {"scan", "claim", "upsert"}

\* No id is above the sequence, committed or used as a watermark.
BelowSeq == /\ \A m \in messages : m <= seq
            /\ \A g \in Groups : offset[g] <= seq
            /\ \A s \in Subs : mark[s] <= seq

\* The rows still uncommitted are newer than all that was ever seen.
WritingNewest ==
  \A p \in Pubs : \A x \in writing[p] :
    /\ x <= seq
    /\ \A m \in messages : m < x
    /\ \A g \in Groups : offset[g] < x
    /\ \A s \in Subs : mark[s] < x

\* A row that says acked stands for an ack of the group.
AckedIsDone ==
  \A g \in Groups, m \in Ids : row[g][m] = "acked" => m \in done[g]

\* The watermark an open poll is about to commit skips nothing either.
MarkSound ==
  \A s \in Subs : Polling(s) =>
    \A m \in messages : m <= mark[s] => m \in done[GroupOf[s]]

WatermarkInv ==
  /\ CoreTypeOK /\ BelowSeq /\ WritingNewest /\ AckedIsDone /\ MarkSound
  /\ NothingSkipped

LEMMA WatermarkInit == ASSUME Init PROVE WatermarkInv
<1>1. CoreTypeOK
  BY CoreTypeInit
<1>2. BelowSeq /\ WritingNewest /\ AckedIsDone /\ MarkSound /\ NothingSkipped
  BY PostgresAssumption DEF Init, InitWith, BelowSeq, WritingNewest, AckedIsDone,
     MarkSound, Polling, NothingSkipped
<1>. QED
  BY <1>1, <1>2 DEF WatermarkInv

\* A step that leaves the tables, the marks and the polls alone, or only
\* forgets messages and adds acks, keeps the invariant.
LEMMA WatermarkFrame ==
  ASSUME WatermarkInv, CoreTypeOK',
         seq' = seq, writing' = writing, messages' \subseteq messages,
         offset' = offset, mark' = mark,
         \A s \in Subs : Polling(s)' => Polling(s),
         \A g \in Groups : done[g] \subseteq done'[g],
         \A g \in Groups, m \in Ids :
           row'[g][m] = "acked" => row[g][m] = "acked" \/ m \in done'[g]
  PROVE  WatermarkInv'
<1> USE PostgresAssumption DEF WatermarkInv
<1>1. BelowSeq'
  BY DEF BelowSeq
<1>2. WritingNewest'
  BY DEF WritingNewest
<1>3. AckedIsDone'
  BY DEF AckedIsDone
<1>4. MarkSound'
  BY DEF MarkSound
<1>5. NothingSkipped'
  BY DEF NothingSkipped
<1>. QED
  BY <1>1, <1>2, <1>3, <1>4, <1>5

LEMMA WatermarkPublish ==
  ASSUME OneSession, WatermarkInv, NEW p \in Pubs, Publish(p)
  PROVE  WatermarkInv'
<1> USE PostgresAssumption DEF WatermarkInv, pollVars, leaseVars
<1>0. CoreTypeOK'
  BY CoreTypePublish
<1>t. /\ seq \in Int /\ messages \subseteq Int /\ writing \in [Pubs -> SUBSET Int]
      /\ offset \in [Groups -> Int] /\ mark \in [Subs -> Int]
  BY DEF CoreTypeOK, TableTypeOK, PollTypeOK, Ids
<1>1. CASE Insert(p)
  <2>1. BelowSeq'
    BY <1>1, <1>t DEF Insert, BelowSeq
  <2>2. WritingNewest'
    BY <1>1, <1>t DEF Insert, WritingNewest, BelowSeq
  <2>3. AckedIsDone' /\ MarkSound' /\ NothingSkipped'
    BY <1>1 DEF Insert, AckedIsDone, MarkSound, Polling, NothingSkipped
  <2>. QED
    BY <1>0, <2>1, <2>2, <2>3
<1>2. CASE Commit(p)
  <2>0. \A q \in Pubs : writing'[q] = {}
    BY <1>2, <1>t DEF Commit, OneSession
  <2>1. BelowSeq'
    BY <1>2, <1>t DEF Commit, BelowSeq, WritingNewest
  <2>2. WritingNewest'
    BY <2>0 DEF WritingNewest
  <2>3. AckedIsDone'
    BY <1>2 DEF Commit, AckedIsDone
  <2>4. MarkSound'
    BY <1>2, <1>t DEF Commit, MarkSound, Polling, WritingNewest
  <2>5. \A h \in Groups : \A m \in writing[p] : ~(m <= offset[h])
    BY <1>t DEF WritingNewest
  <2>6. NothingSkipped'
    BY <1>2, <2>5 DEF Commit, NothingSkipped
  <2>. QED
    BY <1>0, <2>1, <2>2, <2>3, <2>4, <2>6
<1>3. CASE Rollback(p)
  <2>0. \A q \in Pubs : writing'[q] \subseteq writing[q]
    BY <1>3, <1>t DEF Rollback
  <2>1. WritingNewest'
    BY <1>3, <2>0 DEF Rollback, WritingNewest
  <2>2. BelowSeq'
    BY <1>3 DEF Rollback, BelowSeq
  <2>3. AckedIsDone'
    BY <1>3 DEF Rollback, AckedIsDone
  <2>4. MarkSound' /\ NothingSkipped'
    BY <1>3 DEF Rollback, MarkSound, Polling, NothingSkipped
  <2>. QED
    BY <1>0, <2>1, <2>2, <2>3, <2>4
<1>. QED
  BY <1>1, <1>2, <1>3 DEF Publish

LEMMA WatermarkPoll ==
  ASSUME WatermarkInv, NEW s \in Subs, Poll(s)
  PROVE  WatermarkInv'
<1> USE PostgresAssumption DEF WatermarkInv, leaseVars
<1> DEFINE g == GroupOf[s]
<1>0. CoreTypeOK'
  BY CoreTypePoll
<1>t. /\ seq \in Int /\ messages \subseteq Ids /\ Ids \subseteq Int
      /\ offset \in [Groups -> -1..MaxId] /\ -1..MaxId \subseteq Int
      /\ mark \in [Subs -> -1..MaxId] /\ g \in Groups
      /\ DOMAIN poll = Subs /\ poll = [t \in Subs |-> poll[t]]
      /\ row \in [Groups -> [Ids -> {"none", "held", "expired", "acked"}]]
  BY DEF CoreTypeOK, TableTypeOK, PollTypeOK, Ids
<1>1. CASE Subscribe(s)
  <2>1. \A h \in Groups : offset'[h] = offset[h] \/ offset'[h] = 0
    BY <1>1, <1>t DEF Subscribe
  <2>2. BelowSeq'
    BY <1>1, <1>t, <2>1, seq >= 0 DEF Subscribe, BelowSeq, CoreTypeOK, TableTypeOK
  <2>3. WritingNewest'
    BY <1>1, <2>1, \A p \in Pubs : \A x \in writing[p] : x \in Int /\ 0 < x
    DEF Subscribe, WritingNewest, CoreTypeOK, TableTypeOK, Ids
  <2>4. AckedIsDone' /\ MarkSound'
    BY <1>1, <1>t DEF Subscribe, AckedIsDone, MarkSound, Polling
  <2>5. NothingSkipped'
    BY <1>1, <1>t, <2>1, \A m \in messages : 0 < m
    DEF Subscribe, NothingSkipped, Ids
  <2>. QED
    BY <1>0, <2>2, <2>3, <2>4, <2>5
<1>2. CASE PollLock(s)
  <2>a. /\ mark'[s] = offset[g]
        /\ \A t \in Subs \ {s} : mark'[t] = mark[t] /\ poll'[t] = poll[t]
    BY <1>2, <1>t DEF PollLock
  <2>1. /\ \A t \in Subs : mark'[t] \in {mark[t], offset[g]}
        /\ \A t \in Subs \ {s} : Polling(t)' => Polling(t) /\ mark'[t] = mark[t]
        /\ mark'[s] = offset[g]
    <3>1. \A t \in Subs : mark'[t] \in {mark[t], offset[g]}
      BY <2>a
    <3>2. \A t \in Subs \ {s} : Polling(t)' => Polling(t)
      BY <2>a DEF Polling
    <3>. QED
      BY <2>a, <3>1, <3>2
  <2>2. BelowSeq'
    BY <1>2, <1>t, <2>1 DEF PollLock, tableVars, BelowSeq
  <2>3. WritingNewest'
    BY <1>2, <1>t, <2>1 DEF PollLock, tableVars, WritingNewest
  <2>4. AckedIsDone' /\ NothingSkipped'
    BY <1>2 DEF PollLock, tableVars, AckedIsDone, NothingSkipped
  <2>5. MarkSound'
    BY <1>2, <1>t, <2>1 DEF PollLock, tableVars, MarkSound, NothingSkipped
  <2>. QED
    BY <1>0, <2>2, <2>3, <2>4, <2>5
<1>3. CASE PollScan(s)
  <2>1. \/ mark' = mark
        \/ \E m \in messages :
             /\ mark' = [mark EXCEPT ![s] = m]
             /\ \A k \in messages :
                  mark[s] < k /\ k <= m => row[g][k] = "acked"
    BY <1>3 DEF PollScan, AckedPrefix
  <2>2. /\ \A t \in Subs : mark'[t] = mark[t] \/ mark'[t] \in messages
        /\ \A t \in Subs \ {s} : Polling(t)' => Polling(t) /\ mark'[t] = mark[t]
        /\ Polling(s)
    BY <1>3, <1>t, <2>1 DEF PollScan, Polling
  <2>3. BelowSeq'
    BY <1>3, <1>t, <2>2 DEF PollScan, tableVars, BelowSeq
  <2>4. WritingNewest'
    BY <1>3, <1>t, <2>2 DEF PollScan, tableVars, WritingNewest
  <2>5. AckedIsDone' /\ NothingSkipped'
    BY <1>3 DEF PollScan, tableVars, AckedIsDone, NothingSkipped
  <2>6. \A m \in messages : m <= mark'[s] => m \in done[g]
    BY <1>t, <2>1, <2>2 DEF MarkSound, AckedIsDone
  <2>7. MarkSound'
    BY <1>3, <2>2, <2>6 DEF PollScan, tableVars, MarkSound
  <2>. QED
    BY <1>0, <2>3, <2>4, <2>5, <2>7
<1>4. CASE PollPick(s)
  <2>1. \A t \in Subs : Polling(t)' => Polling(t)
    BY <1>4, <1>t DEF PollPick, Polling
  <2>. QED
    BY <1>0, <1>4, <2>1, WatermarkFrame DEF PollPick, tableVars
<1>5. CASE PollCommit(s)
  <2>a. \A h \in Groups :
          offset'[h] = offset[h] \/ (h = g /\ offset'[h] = mark[s])
    BY <1>5, <1>t DEF PollCommit
  <2>b. /\ \A t \in Subs : poll'[t] = poll[t] \/ poll'[t] \in {"idle", "send"}
        /\ poll[s] = "upsert"
    BY <1>5, <1>t DEF PollCommit
  <2>1. /\ \A h \in Groups :
             offset'[h] = offset[h] \/ (h = g /\ offset'[h] = mark[s])
        /\ \A t \in Subs : Polling(t)' => Polling(t)
        /\ Polling(s)
    BY <2>a, <2>b DEF Polling
  <2>2. BelowSeq'
    BY <1>5, <1>t, <2>1 DEF PollCommit, BelowSeq
  <2>3. WritingNewest'
    BY <1>5, <1>t, <2>1 DEF PollCommit, WritingNewest
  <2>4. \A h \in Groups, m \in Ids : row'[h][m] = "acked" => row[h][m] = "acked"
    BY <1>5, <1>t DEF PollCommit, Upserted
  <2>5. AckedIsDone'
    BY <1>5, <2>4 DEF PollCommit, AckedIsDone
  <2>6. MarkSound'
    BY <1>5, <2>1 DEF PollCommit, MarkSound
  <2>7. NothingSkipped'
    BY <1>5, <2>1 DEF PollCommit, NothingSkipped, MarkSound
  <2>. QED
    BY <1>0, <2>2, <2>3, <2>5, <2>6, <2>7
<1>6. CASE PollFail(s)
  <2>1. \A t \in Subs : Polling(t)' => Polling(t)
    BY <1>6, <1>t DEF PollFail, Polling
  <2>. QED
    BY <1>0, <1>6, <2>1, WatermarkFrame DEF PollFail, tableVars
<1>7. CASE SendNext(s)
  <2>1. \A t \in Subs : Polling(t)' => Polling(t)
    BY <1>7, <1>t DEF SendNext, Polling
  <2>. QED
    BY <1>0, <1>7, <2>1, WatermarkFrame DEF SendNext, tableVars
<1>8. CASE SendClosed(s)
  <2>1. \A t \in Subs : Polling(t)' => Polling(t)
    BY <1>8, <1>t DEF SendClosed, Polling
  <2>2. \A h \in Groups, m \in Ids : row'[h][m] = "acked" => row[h][m] = "acked"
    <3>1. CASE ExpireRows(g, {Head(batch[s])})
      BY <1>t, <3>1 DEF ExpireRows
    <3>2. CASE row' = row
      BY <3>2
    <3>. QED
      BY <1>8, <3>1, <3>2 DEF SendClosed
  <2>. QED
    BY <1>0, <1>8, <2>1, <2>2, WatermarkFrame DEF SendClosed
<1>9. CASE PollStart(s) \/ PollSkip(s)
  <2>1. \A t \in Subs : Polling(t)' => Polling(t)
    BY <1>9, <1>t DEF PollStart, PollSkip, Polling
  <2>. QED
    BY <1>0, <1>9, <2>1, WatermarkFrame DEF PollStart, PollSkip, tableVars
<1>. QED
  BY <1>1, <1>2, <1>3, <1>4, <1>5, <1>6, <1>7, <1>8, <1>9 DEF Poll

LEMMA WatermarkConsume ==
  ASSUME WatermarkInv, NEW s \in Subs, Consume(s) \/ Crash(s)
  PROVE  WatermarkInv'
<1>0. CoreTypeOK'
  BY CoreTypeConsume DEF WatermarkInv
<1>1. /\ UNCHANGED <<tableVars, mark, done>>
      /\ poll' = poll \/ poll' = [poll EXCEPT ![s] = "dead"]
  BY DEF Consume, Take, Ack, Nack, DropStream, Crash, pollVars
<1>2. \A t \in Subs : poll'[t] = poll[t] \/ poll'[t] = "dead"
  BY <1>1 DEF WatermarkInv, CoreTypeOK, PollTypeOK
<1>3. \A t \in Subs : Polling(t)' => Polling(t)
  BY <1>2 DEF Polling
<1>. QED
  BY <1>0, <1>1, <1>3, WatermarkFrame DEF tableVars

LEMMA WatermarkFlush ==
  ASSUME WatermarkInv, NEW s \in Subs, Flush(s)
  PROVE  WatermarkInv'
<1> USE PostgresAssumption
<1>0. CoreTypeOK'
  BY CoreTypeFlush DEF WatermarkInv
<1>t. /\ row \in [Groups -> [Ids -> {"none", "held", "expired", "acked"}]]
      /\ done \in [Groups -> SUBSET Ids] /\ GroupOf[s] \in Groups
  BY DEF WatermarkInv, CoreTypeOK, TableTypeOK
<1>1. CASE FlushTake(s)
  BY <1>0, <1>1, WatermarkFrame DEF FlushTake, tableVars, pollVars, Polling
<1>2. CASE FlushAcks(s)
  <2>1. /\ \A g \in Groups : done[g] \subseteq done'[g]
        /\ \A g \in Groups, m \in Ids :
             row'[g][m] = "acked" => row[g][m] = "acked" \/ m \in done'[g]
    <3>1. CASE AckRows(GroupOf[s], flush[s].acks)
      BY <1>t, <3>1 DEF AckRows
    <3>2. CASE row' = row /\ done' = done
      BY <3>2
    <3>. QED
      BY <1>2, <3>1, <3>2 DEF FlushAcks
  <2>. QED
    BY <1>0, <1>2, <2>1, WatermarkFrame DEF FlushAcks, pollVars, Polling
<1>3. CASE FlushNacks(s)
  <2>1. \A g \in Groups, m \in Ids : row'[g][m] = "acked" => row[g][m] = "acked"
    <3>1. CASE ExpireRows(GroupOf[s], flush[s].nacks)
      BY <1>t, <3>1 DEF ExpireRows
    <3>2. CASE row' = row
      BY <3>2
    <3>. QED
      BY <1>3, <3>1, <3>2 DEF FlushNacks
  <2>. QED
    BY <1>0, <1>3, <2>1, WatermarkFrame DEF FlushNacks, pollVars, Polling
<1>. QED
  BY <1>1, <1>2, <1>3 DEF Flush

LEMMA WatermarkExpire ==
  ASSUME WatermarkInv, NEW g \in Groups, NEW m \in Ids, LeaseExpires(g, m)
  PROVE  WatermarkInv'
<1>0. CoreTypeOK'
  BY CoreTypeExpire DEF WatermarkInv
<1>1. \A h \in Groups, k \in Ids : row'[h][k] = "acked" => row[h][k] = "acked"
  BY DEF LeaseExpires, ExpireRows, WatermarkInv, CoreTypeOK, TableTypeOK
<1>. QED
  BY <1>0, <1>1, WatermarkFrame DEF LeaseExpires, pollVars, Polling

LEMMA WatermarkPurge ==
  ASSUME WatermarkInv, Purge
  PROVE  WatermarkInv'
<1>0. CoreTypeOK'
  BY CoreTypePurge DEF WatermarkInv
<1>1. /\ messages' \subseteq messages
      /\ UNCHANGED <<seq, writing, offset, row, pollVars, leaseVars, done>>
  BY PurgeFrame
<1>. QED
  BY <1>0, <1>1, WatermarkFrame DEF pollVars, Polling

LEMMA WatermarkStep ==
  ASSUME OneSession, WatermarkInv, [Next]_vars PROVE WatermarkInv'
<1>1. CASE Next
  BY <1>1, WatermarkPublish, WatermarkPoll, WatermarkConsume, WatermarkFlush,
     WatermarkExpire, WatermarkPurge DEF Next
<1>2. CASE UNCHANGED vars
  <2>1. CoreTypeOK'
    BY <1>2 DEF WatermarkInv, CoreTypeOK, TableTypeOK, PollTypeOK, vars,
                tableVars, pollVars, leaseVars
  <2>. QED
    BY <1>2, <2>1, WatermarkFrame DEF vars, tableVars, pollVars, Polling
<1>. QED
  BY <1>1, <1>2

\* With one session inserting at a time, the watermark of no group ever passes
\* a message the group has not acked, whatever its subscribers, their crashes,
\* failed statements and retention do.
THEOREM WatermarkSound == OneSession /\ Spec => []NothingSkipped
<1>1. Init => WatermarkInv
  BY WatermarkInit
<1>2. OneSession /\ WatermarkInv /\ [Next]_vars => WatermarkInv'
  BY WatermarkStep
<1>3. WatermarkInv => NothingSkipped
  BY DEF WatermarkInv
<1>4. CASE OneSession
  <2>1. WatermarkInv /\ [Next]_vars => WatermarkInv'
    BY <1>2, <1>4
  <2>. QED
    BY <1>1, <2>1, <1>3, PTL DEF Spec
<1>5. CASE ~OneSession
  BY <1>5
<1>. QED
  BY <1>4, <1>5

\* Only the purge's own steps open and close it, and only the flusher's first
\* UPDATE adds acks to the record.
LEMMA HistoryFrame ==
  ASSUME [Next]_vars
  PROVE  /\ ~Purge => UNCHANGED purge
         /\ (~\E s \in Subs : FlushAcks(s)) => UNCHANGED done
<1>1. ASSUME NEW p \in Pubs, Publish(p) PROVE UNCHANGED <<purge, done>>
  BY <1>1 DEF Publish, Insert, Commit, Rollback
<1>2. ASSUME NEW s \in Subs, Poll(s) PROVE UNCHANGED <<purge, done>>
  <2>1. CASE Subscribe(s) \/ PollStart(s) \/ PollSkip(s) \/ PollLock(s)
    BY <2>1 DEF Subscribe, PollStart, PollSkip, PollLock
  <2>2. CASE PollScan(s) \/ PollPick(s) \/ PollCommit(s) \/ PollFail(s)
    BY <2>2 DEF PollScan, PollPick, PollCommit, PollFail
  <2>3. CASE SendNext(s) \/ SendClosed(s)
    BY <2>3 DEF SendNext, SendClosed
  <2>. QED
    BY <1>2, <2>1, <2>2, <2>3 DEF Poll
<1>3. ASSUME NEW s \in Subs, Consume(s) \/ Crash(s) PROVE UNCHANGED <<purge, done>>
  BY <1>3 DEF Consume, Take, DropStream, Ack, Nack, Crash
<1>4. ASSUME NEW s \in Subs, FlushTake(s) \/ FlushNacks(s) PROVE UNCHANGED <<purge, done>>
  BY <1>4 DEF FlushTake, FlushNacks
<1>5. ASSUME NEW s \in Subs, FlushAcks(s) PROVE UNCHANGED purge
  BY <1>5 DEF FlushAcks
<1>6. ASSUME NEW g \in Groups, NEW m \in Ids, LeaseExpires(g, m)
      PROVE  UNCHANGED <<purge, done>>
  BY <1>6 DEF LeaseExpires
<1>7. CASE UNCHANGED vars
  BY <1>7 DEF vars
<1>. QED
  BY <1>1, <1>2, <1>3, <1>4, <1>5, <1>6, <1>7, PurgeFrame DEF Next, Flush

\* Acks are never taken off the record.
LEMMA DoneGrows ==
  ASSUME CoreTypeOK, [Next]_vars PROVE \A g \in Groups : done[g] \subseteq done'[g]
<1>1. ASSUME NEW s \in Subs, FlushAcks(s) PROVE \A g \in Groups : done[g] \subseteq done'[g]
  BY <1>1 DEF FlushAcks, AckRows, CoreTypeOK, TableTypeOK
<1>. QED
  BY <1>1, HistoryFrame

PurgeTypeOK == purge \in [counted : SUBSET Groups, rows : SUBSET Ids]

LEMMA PurgeTypeInit == ASSUME Init PROVE PurgeTypeOK
BY DEF Init, InitWith, NoPurge, PurgeTypeOK

LEMMA PurgeTypeStep ==
  ASSUME CoreTypeOK, PurgeTypeOK, [Next]_vars PROVE PurgeTypeOK'
<1>1. CASE PurgeBegin
  <2>1. Consumed \subseteq Ids
    BY DEF Consumed, CoreTypeOK, TableTypeOK
  <2>. QED
    BY <1>1, <2>1 DEF PurgeBegin, PurgeTypeOK
<1>2. CASE PurgeCommit \/ PurgeFail
  BY <1>2 DEF PurgeCommit, PurgeFail, NoPurge, PurgeTypeOK
<1>3. CASE PurgeAged
  BY <1>3 DEF PurgeAged, PurgeTypeOK
<1>4. CASE ~Purge
  BY <1>4, HistoryFrame DEF PurgeTypeOK
<1>. QED
  BY <1>1, <1>2, <1>3, <1>4 DEF Purge

\* What the open purge is about to delete is acked by the groups it counted:
\* their watermarks had passed it in the snapshot, and acks are not taken back.
PurgeInv == \A g \in purge.counted, m \in purge.rows : m \in done[g]

LEMMA PurgeInvStep ==
  ASSUME WatermarkInv, PurgeTypeOK, PurgeInv, [Next]_vars PROVE PurgeInv'
<1>1. CASE PurgeBegin
  <2>1. PICK M \in SUBSET Consumed :
          purge' = [counted |-> {g \in Groups : offset[g] # -1}, rows |-> M]
    BY <1>1 DEF PurgeBegin
  <2>2. \A g \in Groups, m \in Consumed : offset[g] # -1 => m \in done[g]
    BY DEF Consumed, WatermarkInv, NothingSkipped
  <2>3. done' = done
    BY <1>1 DEF PurgeBegin
  <2>. QED
    BY <2>1, <2>2, <2>3 DEF PurgeInv
<1>2. CASE PurgeCommit \/ PurgeFail
  BY <1>2 DEF PurgeCommit, PurgeFail, NoPurge, PurgeInv
<1>3. CASE UNCHANGED purge
  BY <1>3, DoneGrows DEF PurgeInv, PurgeTypeOK, WatermarkInv
<1>. QED
  BY <1>1, <1>2, <1>3, HistoryFrame DEF Purge, PurgeAged

\* Then the purge of consumed rows, however long its statement runs and whoever
\* subscribes, polls and acks meanwhile, deletes only what every group has acked
\* that had an offset row when it began.
THEOREM RetentionSafe == OneSession /\ Spec => PurgeSafe
<1> DEFINE Inv == WatermarkInv /\ PurgeTypeOK /\ PurgeInv
<1>1. Init => Inv
  BY WatermarkInit, PurgeTypeInit DEF Init, InitWith, NoPurge, PurgeInv
<1>2. OneSession /\ Inv /\ [Next]_vars => Inv'
  BY WatermarkStep, PurgeTypeStep, PurgeInvStep DEF WatermarkInv
<1>3. Inv /\ [Next]_vars =>
        [PurgeCommit => \A m \in messages \ messages' : \A g \in purge.counted :
           m \in done[g]]_vars
  BY DEF PurgeCommit, PurgeInv
<1>4. CASE OneSession
  <2>1. Inv /\ [Next]_vars => Inv'
    BY <1>2, <1>4
  <2>. HIDE DEF Inv
  <2>. QED
    BY <1>1, <2>1, <1>3, PTL DEF Spec, PurgeSafe
<1>5. CASE ~OneSession
  BY <1>5
<1>. QED
  BY <1>4, <1>5

-----------------------------------------------------------------------------
(* Acks.                                                                   *)

AckKept == \A g \in Groups, m \in Ids :
             row[g][m] = "acked" => row'[g][m] = "acked" \/ m <= offset'[g]

\* Expiring rows spares the acked ones.
LEMMA ExpireKeepsAcks ==
  ASSUME CoreTypeOK, NEW g \in Groups, NEW M, ExpireRows(g, M)
  PROVE  AckKept
BY DEF CoreTypeOK, TableTypeOK, ExpireRows, AckKept

LEMMA AckStep == ASSUME CoreTypeOK, [Next]_vars PROVE AckKept
<1> USE PostgresAssumption
<1>t. row \in [Groups -> [Ids -> {"none", "held", "expired", "acked"}]]
  BY DEF CoreTypeOK, TableTypeOK
<1>0. CASE row' = row
  BY <1>0 DEF AckKept
<1>1. ASSUME NEW s \in Subs, PollCommit(s) PROVE AckKept
  <2> DEFINE g == GroupOf[s]
  <2>1. g \in Groups /\ offset'[g] = mark[s]
    BY <1>1 DEF PollCommit, CoreTypeOK, TableTypeOK
  <2>2. \A h \in Groups \ {g} : row'[h] = row[h]
    BY <1>1, <1>t DEF PollCommit
  <2>3. \A m \in Ids : row[g][m] = "acked" => row'[g][m] = "acked" \/ m <= mark[s]
    BY <1>1, <1>t, <2>1 DEF PollCommit, Upserted
  <2>. QED
    BY <2>1, <2>2, <2>3 DEF AckKept
<1>2. ASSUME NEW s \in Subs, SendClosed(s) PROVE AckKept
  <2>1. GroupOf[s] \in Groups
    OBVIOUS
  <2>. QED
    BY <1>0, <1>2, <2>1, ExpireKeepsAcks DEF SendClosed
<1>3. ASSUME NEW s \in Subs, FlushAcks(s) PROVE AckKept
  <2>1. CASE AckRows(GroupOf[s], flush[s].acks)
    BY <1>t, <2>1 DEF AckRows, AckKept
  <2>. QED
    BY <1>0, <1>3, <2>1 DEF FlushAcks
<1>4. ASSUME NEW s \in Subs, FlushNacks(s) PROVE AckKept
  <2>1. GroupOf[s] \in Groups
    OBVIOUS
  <2>. QED
    BY <1>0, <1>4, <2>1, ExpireKeepsAcks DEF FlushNacks
<1>5. ASSUME NEW g \in Groups, NEW m \in Ids, LeaseExpires(g, m) PROVE AckKept
  BY <1>5, ExpireKeepsAcks DEF LeaseExpires
<1>6. \/ row' = row
      \/ \E s \in Subs : \/ PollCommit(s) \/ SendClosed(s) \/ FlushAcks(s)
                         \/ FlushNacks(s)
      \/ \E g \in Groups, m \in Ids : LeaseExpires(g, m)
  BY PurgeFrame
  DEF Next, vars, tableVars, Publish, Insert, Commit, Rollback, Poll,
     Subscribe, PollStart, PollSkip, PollLock, PollScan, PollPick, PollFail,
     SendNext,
     Consume, Take, DropStream, Ack, Nack, Flush, FlushTake,
     Crash
<1>. QED
  BY <1>0, <1>1, <1>2, <1>3, <1>4, <1>5, <1>6

\* An ack is final for any number of sessions, subscribers and timeouts: no
\* late nack, expiry or racing claim takes it back before the watermark has
\* moved over the message.
THEOREM AckIsFinal == Spec => AckFinal
<1>1. CoreTypeOK /\ [Next]_vars =>
        [\A g \in Groups, m \in Ids :
           row[g][m] = "acked" => row'[g][m] = "acked" \/ m <= offset'[g]]_vars
  BY AckStep DEF AckKept
<1>. QED
  BY <1>1, CoreTypeCorrect, PTL DEF Spec, AckFinal

-----------------------------------------------------------------------------
(* The claim lists its ids in their order.                                 *)

\* The rank of an element among those of a finite set of numbers.
Rank(M) == [m \in M |-> Cardinality({k \in M : k <= m})]

LEMMA RankFacts ==
  ASSUME NEW M \in SUBSET Nat, IsFiniteSet(M)
  PROVE  /\ Cardinality(M) \in Nat
         /\ Rank(M) \in [M -> 1..Cardinality(M)]
         /\ \A m, k \in M : m < k <=> Rank(M)[m] < Rank(M)[k]
         /\ Rank(M) \in Injection(M, 1..Cardinality(M))
<1> DEFINE Below(m) == {k \in M : k <= m}
<1>1. \A m \in M : Below(m) \in SUBSET M /\ m \in Below(m)
  OBVIOUS
<1>2. ASSUME NEW m \in M
      PROVE  /\ IsFiniteSet(Below(m)) /\ Cardinality(Below(m)) \in Nat
             /\ Cardinality(Below(m)) # 0 /\ Cardinality(Below(m)) <= Cardinality(M)
  <2>1. IsFiniteSet(Below(m)) /\ Cardinality(Below(m)) <= Cardinality(M)
    BY <1>1, FS_Subset
  <2>2. Cardinality(Below(m)) \in Nat /\ (Cardinality(Below(m)) = 0 <=> Below(m) = {})
    BY <2>1, FS_CardinalityType, FS_EmptySet
  <2>. QED
    BY <1>1, <2>1, <2>2
<1>3. Cardinality(M) \in Nat
  BY FS_CardinalityType
<1>4. ASSUME NEW m \in M, NEW k \in M, m < k
      PROVE  Cardinality(Below(m)) < Cardinality(Below(k))
  <2>0. \A x \in M : x \in Nat /\ m \in Nat /\ k \in Nat
    OBVIOUS
  <2>1. Below(m) \in SUBSET Below(k) /\ k \in Below(k) /\ k \notin Below(m)
    <3>1. \A x \in M : x <= m => x <= k
      BY <1>4, <2>0
    <3>2. k <= k /\ ~(k <= m)
      BY <1>4, <2>0
    <3>. QED
      BY <3>1, <3>2
  <2>2. /\ Cardinality(Below(m)) <= Cardinality(Below(k))
        /\ Cardinality(Below(k)) = Cardinality(Below(m)) => Below(k) = Below(m)
    BY <1>2, <2>1, FS_Subset
  <2>. HIDE DEF Below
  <2>. QED
    BY <1>2, <2>1, <2>2
<1>5. \A m \in M : Rank(M)[m] = Cardinality(Below(m))
  BY DEF Rank
<1>6. Rank(M) \in [M -> 1..Cardinality(M)]
  <2>1. \A m \in M : Cardinality(Below(m)) \in 1..Cardinality(M)
    <3> HIDE DEF Below
    <3>. QED  BY <1>2, <1>3
  <2>. QED
    BY <2>1 DEF Rank
<1> HIDE DEF Below
<1>7. ASSUME NEW m \in M, NEW k \in M PROVE m < k <=> Rank(M)[m] < Rank(M)[k]
  <2>1. m \in Nat /\ k \in Nat /\ Rank(M)[m] \in Nat /\ Rank(M)[k] \in Nat
    BY <1>2, <1>5
  <2>2. m < k => Rank(M)[m] < Rank(M)[k]
    BY <1>4, <1>5
  <2>3. k < m => Rank(M)[k] < Rank(M)[m]
    BY <1>4, <1>5
  <2>. QED
    BY <2>1, <2>2, <2>3
<1>8. \A m, k \in M : Rank(M)[m] = Rank(M)[k] => m = k
  <2> SUFFICES ASSUME NEW m \in M, NEW k \in M, Rank(M)[m] = Rank(M)[k] PROVE m = k
    OBVIOUS
  <2>1. ~(m < k) /\ ~(k < m) /\ m \in Nat /\ k \in Nat
    BY <1>2, <1>5, <1>7
  <2>. QED
    BY <2>1
<1>. QED
  BY <1>3, <1>6, <1>7, <1>8 DEF Injection, IsInjective

\* An increasing enumeration exists, and InOrder is one.
LEMMA InOrderFacts ==
  ASSUME NEW M \in SUBSET Nat, IsFiniteSet(M)
  PROVE  /\ InOrder(M) \in Seq(M) /\ Len(InOrder(M)) = Cardinality(M)
         /\ Cardinality(M) \in Nat
         /\ Range(InOrder(M)) = M /\ Distinct(InOrder(M))
<1> DEFINE n == Cardinality(M)
           Enum(q) == \A i, k \in DOMAIN q : i < k => q[i] < q[k]
           r == Rank(M)
<1>1. /\ n \in Nat /\ r \in [M -> 1..n] /\ r \in Injection(M, 1..n)
      /\ \A m, k \in M : m < k <=> r[m] < r[k]
  BY RankFacts
<1>2. IsFiniteSet(1..n) /\ Cardinality(1..n) = n
  BY <1>1, FS_Interval
<1>3. r \in Surjection(M, 1..n)
  BY <1>1, <1>2, FS_Injection
<1> HIDE DEF r, n
<1>4. \E q \in [1..n -> M] : Enum(q)
  <2> DEFINE q == [i \in 1..n |-> CHOOSE m \in M : r[m] = i]
  <2>1. \A i \in 1..n : q[i] \in M /\ r[q[i]] = i
    BY <1>3 DEF Surjection
  <2>2. q \in [1..n -> M] /\ DOMAIN q = 1..n
    BY <2>1
  <2> HIDE DEF q
  <2>3. \A i, k \in 1..n : i < k => q[i] < q[k]
    BY <1>1, <2>1
  <2>. QED
    BY <2>2, <2>3
<1>5. InOrder(M) \in [1..n -> M] /\ Enum(InOrder(M))
  BY <1>4 DEF InOrder, n
<1> DEFINE q == InOrder(M)
<1> HIDE DEF q
<1>6. q \in Seq(M) /\ Len(q) = n /\ DOMAIN q = 1..n
  BY <1>1, <1>5 DEF q
<1>7. \A i, k \in 1..n : q[i] = q[k] => i = k
  <2> SUFFICES ASSUME NEW i \in 1..n, NEW k \in 1..n, q[i] = q[k] PROVE i = k
    OBVIOUS
  <2>0. q[i] \in M /\ q[k] \in M
    BY <1>5 DEF q
  <2>1. q[i] \in Nat /\ q[k] \in Nat
    BY <2>0, Zenon
  <2>3. i \in Nat /\ k \in Nat
    BY <1>1
  <2>2. (i < k => q[i] < q[k]) /\ (k < i => q[k] < q[i])
    BY <1>5, <1>6 DEF q
  <2>. QED
    BY <2>1, <2>2, <2>3
<1>8. q \in Injection(1..n, M)
  BY <1>5, <1>6, <1>7 DEF Injection, IsInjective, q
<1>9. q \in Surjection(1..n, M)
  BY <1>2, <1>8, FS_Injection DEF n
<1>10. Range(q) = M
  BY <1>6, <1>9 DEF Range, Surjection
<1>. QED
  BY <1>1, <1>6, <1>7, <1>10 DEF Distinct, n, q

\* LIMIT: no more than b elements have a rank of at most b.
LEMMA LimitFacts ==
  ASSUME NEW M \in SUBSET Nat, IsFiniteSet(M), NEW b \in Nat
  PROVE  Cardinality({m \in M : Cardinality({k \in M : k <= m}) <= b}) <= b
<1> DEFINE P == {m \in M : Cardinality({k \in M : k <= m}) <= b}
           f == [m \in P |-> Rank(M)[m]]
<1>1. \A m \in P : Rank(M)[m] \in 1..b
  <2>1. \A m \in P : Rank(M)[m] \in 1..Cardinality(M) /\ Rank(M)[m] <= b
    BY RankFacts DEF Rank
  <2>. QED
    BY <2>1, RankFacts
<1>2. P \subseteq M
  OBVIOUS
<1> HIDE DEF P
<1>3. f \in Injection(P, 1..b)
  <2>1. f \in [P -> 1..b]
    BY <1>1
  <2>2. \A m, k \in P : f[m] = f[k] => m = k
    BY <1>2, RankFacts DEF Injection, IsInjective
  <2>. QED
    BY <2>1, <2>2 DEF Injection, IsInjective
<1>4. IsFiniteSet(1..b) /\ Cardinality(1..b) = b
  BY FS_Interval
<1>5. Cardinality(P) <= b
  BY <1>3, <1>4, FS_Injection
<1>. QED
  BY <1>5 DEF P

-----------------------------------------------------------------------------
(* All types, with the limits of the claim and of the stream.              *)

CopyTypeOK ==
  /\ batch \in [Subs -> Seq(Ids)] /\ buffer \in [Subs -> Seq(Ids)]
  /\ \A s \in Subs : Len(buffer[s]) <= BufferSize /\ Len(batch[s]) <= BatchSize
  /\ held \in [Subs -> [Ids -> Nat]] /\ dropped \subseteq Subs
  /\ verdicts \in [Subs -> SUBSET (Ids \X {"ack", "nack"})]
  /\ nacks \in 0..MaxNacks /\ timeouts \in 0..MaxTimeouts /\ errors \in 0..MaxErrors

\* A poll claims no more than its LIMIT, and hands over only what it has.
ClaimSize == \A s \in Subs : /\ Cardinality(picked[s]) <= BatchSize
                             /\ poll[s] = "send" => batch[s] # <<>>

TypeInv == CoreTypeOK /\ CopyTypeOK /\ ClaimSize

LEMMA IdsFacts == /\ IsFiniteSet(Ids) /\ Ids \in SUBSET Nat
                  /\ BufferSize \in Nat /\ BatchSize \in Nat
                  /\ MaxNacks \in Nat /\ MaxTimeouts \in Nat /\ MaxErrors \in Nat
<1>1. Ids \in SUBSET Nat /\ \A m \in Ids : m <= MaxId
  BY PostgresAssumption DEF Ids
<1>. QED
  BY <1>1, PostgresAssumption, FS_BoundedSetOfNaturals

LEMMA CopyTypeInit == ASSUME Init PROVE CopyTypeOK /\ ClaimSize
<1>1. CopyTypeOK
  BY PostgresAssumption, IdsFacts, EmptyFacts DEF Init, InitWith, CopyTypeOK
<1>2. ClaimSize
  BY IdsFacts, FS_EmptySet DEF Init, InitWith, ClaimSize
<1>. QED
  BY <1>1, <1>2

\* A claim is a sequence of ids, and so is what the poll hands over of it.
LEMMA BatchType ==
  ASSUME TypeInv, NEW s \in Subs, Poll(s)
  PROVE  /\ batch' \in [Subs -> Seq(Ids)] /\ \A t \in Subs : Len(batch'[t]) <= BatchSize
         /\ ClaimSize'
<1> USE IdsFacts DEF TypeInv, CoreTypeOK, CopyTypeOK, PollTypeOK, ClaimSize
<1>1. CASE PollPick(s)
  <2>1. picked' = [picked EXCEPT ![s] =
          {m \in Claimable(s) : Cardinality({k \in Claimable(s) : k <= m}) <= BatchSize}]
    BY <1>1 DEF PollPick
  <2>2. Claimable(s) \in SUBSET Ids
    BY DEF Claimable, TableTypeOK
  <2>3. IsFiniteSet(Claimable(s)) /\ Claimable(s) \in SUBSET Nat
    BY <2>2, FS_Subset
  <2>4. Cardinality(picked'[s]) <= BatchSize
    BY <2>1, <2>3, LimitFacts
  <2>. QED
    BY <1>1, <2>1, <2>4 DEF PollPick
<1>2. CASE PollCommit(s)
  <2>1. /\ batch' = [batch EXCEPT ![s] = InOrder(picked[s])]
        /\ picked' = [picked EXCEPT ![s] = {}]
        /\ poll' = [poll EXCEPT ![s] = IF picked[s] = {} THEN "idle" ELSE "send"]
    BY <1>2 DEF PollCommit
  <2>2. picked[s] \in SUBSET Ids
    OBVIOUS
  <2>3. IsFiniteSet(picked[s]) /\ picked[s] \in SUBSET Nat
    BY <2>2, FS_Subset
  <2>4. /\ InOrder(picked[s]) \in Seq(picked[s])
        /\ Len(InOrder(picked[s])) = Cardinality(picked[s])
        /\ Range(InOrder(picked[s])) = picked[s]
    BY <2>3, InOrderFacts
  <2>5. InOrder(picked[s]) \in Seq(Ids)
    BY <2>2, <2>4
  <2>6. picked[s] # {} => InOrder(picked[s]) # <<>>
    BY <2>4, EmptyFacts
  <2>7. Cardinality({}) = 0
    BY FS_EmptySet
  <2>8. batch' \in [Subs -> Seq(Ids)] /\ \A t \in Subs : Len(batch'[t]) <= BatchSize
    BY <2>1, <2>4, <2>5
  <2>9. ClaimSize'
    BY <2>1, <2>6, <2>7
  <2>. QED
    BY <2>8, <2>9
<1>3. CASE SendNext(s)
  <2>1. /\ batch' = [batch EXCEPT ![s] = Tail(@)] /\ picked' = picked
        /\ poll' = [poll EXCEPT ![s] = IF Len(batch[s]) = 1 THEN "idle" ELSE "send"]
    BY <1>3 DEF SendNext
  <2>2. batch[s] \in Seq(Ids) /\ batch[s] # <<>>
    BY <1>3 DEF SendNext
  <2>3. /\ Tail(batch[s]) \in Seq(Ids) /\ Len(Tail(batch[s])) = Len(batch[s]) - 1
        /\ Len(batch[s]) \in Nat
    BY <2>2, TailFacts
  <2>4. Len(batch[s]) # 1 => Tail(batch[s]) # <<>>
    <3>1. Len(batch[s]) # 1 => Len(Tail(batch[s])) # 0
      BY <2>3
    <3>. QED
      BY <3>1, EmptyFacts, Zenon
  <2>. QED
    BY <2>1, <2>3, <2>4
<1>4. CASE SendClosed(s)
  BY <1>4, EmptyFacts DEF SendClosed
<1>5. CASE PollFail(s)
  <2>1. Cardinality({}) = 0
    BY FS_EmptySet
  <2>. QED
    BY <1>5, <2>1 DEF PollFail
<1>6. CASE Subscribe(s) \/ PollStart(s) \/ PollSkip(s) \/ PollLock(s) \/ PollScan(s)
  <2>1. batch' = batch /\ picked' = picked /\ \A t \in Subs : poll'[t] = "send" => poll[t] = "send"
    BY <1>6 DEF Subscribe, PollStart, PollSkip, PollLock, PollScan
  <2>. QED
    BY <2>1
<1>. QED
  BY <1>1, <1>2, <1>3, <1>4, <1>5, <1>6 DEF Poll

LEMMA CopyTypePoll ==
  ASSUME TypeInv, NEW s \in Subs, Poll(s) PROVE CopyTypeOK' /\ ClaimSize'
<1> USE IdsFacts DEF CopyTypeOK
<1>0. TypeInv => CopyTypeOK
  BY DEF TypeInv
<1>1. CASE SendNext(s)
  <2>1. /\ buffer' = [buffer EXCEPT ![s] = Append(@, Head(batch[s]))]
        /\ Len(buffer[s]) < BufferSize
        /\ UNCHANGED <<held, verdicts, dropped, countVars>>
    BY <1>1 DEF SendNext, HasRoom
  <2>2. batch[s] \in Seq(Ids) /\ batch[s] # <<>> /\ buffer[s] \in Seq(Ids)
    BY <1>1 DEF SendNext, TypeInv, ClaimSize
  <2>3. Head(batch[s]) \in Ids /\ Len(buffer[s]) \in Nat
    BY <2>2, TailFacts
  <2>4. /\ Append(buffer[s], Head(batch[s])) \in Seq(Ids)
        /\ Len(Append(buffer[s], Head(batch[s]))) = Len(buffer[s]) + 1
    BY <2>2, <2>3, AppendFacts
  <2>. QED
    BY <1>0, <2>1, <2>3, <2>4, BatchType DEF countVars
<1>2. CASE ~SendNext(s)
  <2>1. /\ UNCHANGED <<buffer, held, verdicts, dropped, nacks, timeouts>>
        /\ errors' = errors \/ (errors < MaxErrors /\ errors' = errors + 1)
    BY <1>2 DEF Poll, Subscribe, PollStart, PollSkip, PollLock, PollScan, PollPick,
                PollCommit, PollFail, SendClosed, leaseVars, countVars
  <2>. QED
    BY <1>0, <2>1, BatchType
<1>. QED
  BY <1>1, <1>2

LEMMA CopyTypeConsume ==
  ASSUME TypeInv, NEW s \in Subs, Consume(s) \/ Flush(s) PROVE CopyTypeOK' /\ ClaimSize'
<1> USE IdsFacts DEF CopyTypeOK
<1>0. CopyTypeOK /\ ClaimSize
  BY DEF TypeInv
<1>1. UNCHANGED <<poll, picked, batch>> /\ ClaimSize'
  BY <1>0 DEF Consume, Flush, Take, Ack, Nack, DropStream, FlushTake, FlushAcks,
              FlushNacks, pollVars, ClaimSize
<1>2. CASE Take(s)
  <2>1. buffer[s] \in Seq(Ids) /\ buffer[s] # <<>>
    BY <1>0, <1>2 DEF Take
  <2>2. Head(buffer[s]) \in Ids /\ Tail(buffer[s]) \in Seq(Ids) /\ Len(buffer[s]) \in Nat
        /\ Len(Tail(buffer[s])) = Len(buffer[s]) - 1
    BY <2>1, TailFacts
  <2>3. held' \in [Subs -> [Ids -> Nat]]
    <3>1. PICK m \in Ids : held' = [held EXCEPT ![s][m] = @ + 1]
      BY <1>2, <2>2 DEF Take
    <3>2. held \in [Subs -> [Ids -> Nat]]
      BY <1>0, Zenon
    <3>3. held[s] \in [Ids -> Nat]
      BY <3>2, Zenon
    <3>4. held[s][m] \in Nat
      BY <3>3, Zenon
    <3>5. held[s][m] + 1 \in Nat
      BY <3>4
    <3>. QED
      BY <3>1, <3>2, <3>5
  <2>4. buffer' \in [Subs -> Seq(Ids)] /\ \A t \in Subs : Len(buffer'[t]) <= BufferSize
    BY <1>0, <1>2, <2>2 DEF Take
  <2>. QED
    BY <1>0, <1>1, <1>2, <2>3, <2>4 DEF Take, countVars
<1>3. ASSUME NEW m \in Ids, Ack(s, m) \/ Nack(s, m) PROVE CopyTypeOK'
  <2>1. PICK d \in {"ack", "nack"} : Settle(s, m, d)
    BY <1>3 DEF Ack, Nack
  <2>2. held' \in [Subs -> [Ids -> Nat]]
    <3>1. held \in [Subs -> [Ids -> Nat]]
      BY <1>0, Zenon
    <3>2. held[s][m] \in Nat
      BY <3>1
    <3>3. held[s][m] - 1 \in Nat
      BY <2>1, <3>2 DEF Settle
    <3>. QED
      BY <2>1, <3>1, <3>3 DEF Settle
  <2>3. verdicts' \in [Subs -> SUBSET (Ids \X {"ack", "nack"})]
    BY <1>0, <2>1 DEF Settle
  <2>4. /\ UNCHANGED <<buffer, dropped, timeouts, errors>>
        /\ nacks' = nacks \/ (nacks < MaxNacks /\ nacks' = nacks + 1)
    BY <1>3 DEF Ack, Nack, countVars
  <2>. QED
    BY <1>0, <1>1, <2>2, <2>3, <2>4
<1>5. CASE DropStream(s)
  <2>1. Range(buffer[s]) \subseteq Ids
    BY <1>0 DEF Range
  <2>2. Range(buffer[s]) \X {"nack"} \subseteq Ids \X {"ack", "nack"}
    BY <2>1
  <2>. QED
    BY <1>0, <1>1, <1>5, <2>2, EmptyFacts, PostgresAssumption DEF DropStream, countVars
<1>6. CASE Flush(s)
  <2>1. /\ UNCHANGED <<buffer, held, dropped, nacks, timeouts>>
        /\ errors' = errors \/ (errors < MaxErrors /\ errors' = errors + 1)
        /\ \/ verdicts' = verdicts
           \/ \E V : verdicts' = [verdicts EXCEPT ![s] = @ \ V]
    BY <1>6 DEF Flush, FlushTake, FlushAcks, FlushNacks, countVars
  <2>2. verdicts' \in [Subs -> SUBSET (Ids \X {"ack", "nack"})]
    <3>1. verdicts \in [Subs -> SUBSET (Ids \X {"ack", "nack"})]
      BY <1>0, Zenon
    <3>2. PICK K : K = Ids \X {"ack", "nack"}
      OBVIOUS
    <3>3. verdicts' \in [Subs -> SUBSET K]
      BY <2>1, <3>1, <3>2
    <3>. QED
      BY <3>2, <3>3
  <2>3. errors' \in 0..MaxErrors
    BY <1>0, <2>1
  <2>. QED
    BY <1>0, <1>1, <2>1, <2>2, <2>3
<1>. QED
  BY <1>1, <1>2, <1>3, <1>5, <1>6, <1>0 DEF Consume

LEMMA CrashClaim ==
  ASSUME CoreTypeOK, ClaimSize, NEW s \in Subs, Crash(s) PROVE ClaimSize'
<1>1. /\ picked'[s] = {} /\ poll'[s] = "dead"
      /\ \A t \in Subs \ {s} :
           picked'[t] = picked[t] /\ poll'[t] = poll[t] /\ batch'[t] = batch[t]
  BY DEF Crash, CoreTypeOK, PollTypeOK
<1>2. Cardinality(picked'[s]) <= BatchSize
  BY <1>1, FS_EmptySet, IdsFacts
<1>. QED
  BY <1>1, <1>2 DEF ClaimSize

LEMMA CopyTypeOther ==
  ASSUME TypeInv,
         \/ UNCHANGED vars \/ Purge \/ \E p \in Pubs : Publish(p)
         \/ \E s \in Subs : Crash(s)
         \/ \E g \in Groups, m \in Ids : LeaseExpires(g, m)
  PROVE  CopyTypeOK' /\ ClaimSize'
<1> USE IdsFacts DEF TypeInv, CopyTypeOK
<1>1. CASE \/ UNCHANGED vars \/ Purge \/ \E p \in Pubs : Publish(p)
  BY <1>1, PurgeFrame DEF ClaimSize, vars, Publish, Insert, Commit, Rollback,
              pollVars, leaseVars, countVars
<1>2. ASSUME NEW s \in Subs, Crash(s) PROVE CopyTypeOK' /\ ClaimSize'
  <2>2. ClaimSize'
    BY <1>2, CrashClaim
  <2>3. buffer' \in [Subs -> Seq(Ids)] /\ \A t \in Subs : Len(buffer'[t]) <= BufferSize
    BY <1>2, EmptyFacts DEF Crash
  <2>4. batch' \in [Subs -> Seq(Ids)] /\ \A t \in Subs : Len(batch'[t]) <= BatchSize
    BY <1>2, EmptyFacts DEF Crash
  <2>5. held' \in [Subs -> [Ids -> Nat]] /\ verdicts' \in [Subs -> SUBSET (Ids \X {"ack", "nack"})]
    BY <1>2 DEF Crash
  <2>. QED
    BY <1>2, <2>2, <2>3, <2>4, <2>5 DEF Crash, countVars
<1>3. ASSUME NEW g \in Groups, NEW m \in Ids, LeaseExpires(g, m) PROVE CopyTypeOK' /\ ClaimSize'
  BY <1>3 DEF LeaseExpires, pollVars, leaseVars, ClaimSize
<1>. QED
  BY <1>1, <1>2, <1>3

LEMMA TypeStep == ASSUME TypeInv, [Next]_vars PROVE TypeInv'
<1>1. CoreTypeOK'
  BY CoreTypeStep DEF TypeInv
<1>2. CASE \E s \in Subs : Poll(s) \/ Consume(s) \/ Flush(s)
  BY <1>1, <1>2, CopyTypePoll, CopyTypeConsume DEF TypeInv
<1>3. CASE ~\E s \in Subs : Poll(s) \/ Consume(s) \/ Flush(s)
  <2>1. \/ UNCHANGED vars \/ Purge \/ \E p \in Pubs : Publish(p)
        \/ \E s \in Subs : Crash(s)
        \/ \E g \in Groups, m \in Ids : LeaseExpires(g, m)
    BY <1>3 DEF Next
  <2>2. CopyTypeOK' /\ ClaimSize'
    BY <2>1, CopyTypeOther
  <2>. QED
    BY <1>1, <2>2 DEF TypeInv
<1>. QED
  BY <1>2, <1>3

LEMMA TypeInit == ASSUME Init PROVE TypeInv
BY CoreTypeInit, CopyTypeInit DEF TypeInv

\* Every variable keeps its type; the claim respects its LIMIT and the stream its
\* capacity.
THEOREM TypeCorrect == Spec => []TypeOK
<1>1. TypeInv /\ PurgeTypeOK => TypeOK
  BY DEF TypeInv, CoreTypeOK, CopyTypeOK, PurgeTypeOK, TypeOK
<1>2. TypeInv /\ PurgeTypeOK /\ [Next]_vars => TypeInv' /\ PurgeTypeOK'
  BY TypeStep, PurgeTypeStep DEF TypeInv
<1>. QED
  BY <1>1, <1>2, TypeInit, PurgeTypeInit, PTL DEF Spec
-----------------------------------------------------------------------------
(* Leases.  A copy of a message is in one place at a time: in the batch of *)
(* the poll that claimed it, in the stream, held, a verdict, or in the     *)
(* flusher's hands.                                                        *)

InVerdict(s, m) == <<m, "ack">> \in verdicts[s] \/ <<m, "nack">> \in verdicts[s]
InFlush(s, m)   == m \in flush[s].acks \cup flush[s].nacks

\* An id that was claimable once belongs to no open transaction, so its row
\* does not appear again after retention deleted it.
Fresh ==
  /\ messages \subseteq 1..seq
  /\ \A p \in Pubs : writing[p] \subseteq 1..seq /\ writing[p] \cap messages = {}
  /\ \A p, q \in Pubs : p # q => writing[p] \cap writing[q] = {}
  /\ \A s \in Subs, m \in Ids : InFlight(s, m) \/ m \in picked[s] =>
       m <= seq /\ \A p \in Pubs : m \notin writing[p]

\* The row lock gives a group one open poll at a time.
Locked == \A s \in Subs : Polling(s) => lock[GroupOf[s]] = {s}

CopyAt(s, m) ==
  /\ held[s][m] \in {0, 1}
  /\ m \in Range(batch[s]) => /\ m \notin Range(buffer[s]) /\ held[s][m] = 0
                              /\ ~InVerdict(s, m) /\ ~InFlush(s, m)
  /\ m \in Range(buffer[s]) => /\ held[s][m] = 0
                               /\ ~InVerdict(s, m) /\ ~InFlush(s, m)
  /\ held[s][m] = 1 => ~InVerdict(s, m) /\ ~InFlush(s, m)
  /\ InVerdict(s, m) => ~InFlush(s, m)
  /\ ~(<<m, "ack">> \in verdicts[s] /\ <<m, "nack">> \in verdicts[s])
  /\ ~(m \in flush[s].acks /\ m \in flush[s].nacks)

OneCopy(s) == /\ Distinct(batch[s]) /\ Distinct(buffer[s])
              /\ \A m \in Ids : CopyAt(s, m)

\* A copy in flight is leased, ahead of the watermark and of the mark of an open
\* poll, and the group's only one.
Leases ==
  \A s \in Subs, m \in Ids :
    InFlight(s, m) =>
      /\ \A t \in Subs : GroupOf[s] = GroupOf[t] /\ InFlight(t, m) => s = t
      /\ m \in messages =>
           /\ row[GroupOf[s]][m] = "held" /\ m > offset[GroupOf[s]]
           /\ \A t \in Subs : GroupOf[s] = GroupOf[t] /\ Polling(t) => m > mark[t]

\* What a poll is about to claim is nobody's, and stays so until it commits.
Picks ==
  \A s \in Subs : \A m \in picked[s] : poll[s] = "upsert" =>
    /\ m > mark[s] /\ row[GroupOf[s]][m] \in {"none", "expired"}
    /\ \A t \in Subs : GroupOf[s] = GroupOf[t] => ~InFlight(t, m)

LeaseInv ==
  /\ Fresh /\ Locked
  /\ timeouts = 0 => Leases /\ Picks /\ \A s \in Subs : OneCopy(s)

LEMMA LeaseInit == ASSUME Init PROVE LeaseInv
<1>1. \A s \in Subs : picked[s] = {} /\ \A m \in Ids : ~InFlight(s, m)
  BY EmptyFacts DEF Init, InitWith, InFlight, NoFlush
<1>2. \A s \in Subs : OneCopy(s)
  BY EmptyFacts, EmptyDistinct
     DEF Init, InitWith, OneCopy, CopyAt, InVerdict, InFlush, NoFlush
<1>3. Fresh
  BY <1>1 DEF Init, InitWith, Fresh
<1>4. Locked
  BY DEF Init, InitWith, Locked, Polling
<1>. QED
  BY <1>1, <1>2, <1>3, <1>4 DEF LeaseInv, Leases, Picks

LEMMA InFlightPlaces ==
  ASSUME NEW s \in Subs, NEW m \in Ids
  PROVE  InFlight(s, m) <=> \/ m \in Range(batch[s]) \/ m \in Range(buffer[s])
                            \/ held[s][m] > 0 \/ InVerdict(s, m) \/ InFlush(s, m)
BY DEF InFlight, InVerdict, InFlush

\* Nothing that is said of the copies of subscription s changes.
LEMMA CopyFrame ==
  ASSUME NEW s \in Subs,
         /\ batch'[s] = batch[s] /\ buffer'[s] = buffer[s] /\ held'[s] = held[s]
         /\ verdicts'[s] = verdicts[s] /\ flush'[s] = flush[s]
  PROVE  /\ OneCopy(s)' <=> OneCopy(s)
         /\ \A m : InFlight(s, m)' <=> InFlight(s, m)
BY DEF OneCopy, CopyAt, InFlight, InVerdict, InFlush

LEMMA CopiesSame ==
  ASSUME UNCHANGED <<batch, buffer, held, verdicts, flush>>
  PROVE  /\ \A s \in Subs : OneCopy(s)' <=> OneCopy(s)
         /\ \A s \in Subs : \A m : InFlight(s, m)' <=> InFlight(s, m)
BY CopyFrame

\* Sessions that insert: a committed row was in no poller's hands before.
LEMMA PublishLease ==
  ASSUME TypeInv, LeaseInv, NEW p \in Pubs, Publish(p) PROVE LeaseInv'
<1>1. /\ UNCHANGED <<offset, row, lock, poll, mark, picked, timeouts>>
      /\ UNCHANGED <<batch, buffer, held, verdicts, flush>>
  BY DEF Publish, Insert, Commit, Rollback, pollVars, leaseVars, countVars
<1>2. /\ seq \in Nat /\ seq' \in {seq, seq + 1} /\ messages \subseteq messages'
      /\ \A q \in Pubs \ {p} : writing'[q] = writing[q]
      /\ \/ seq' = seq + 1 /\ writing'[p] = writing[p] \cup {seq + 1} /\ messages' = messages
         \/ seq' = seq /\ writing'[p] = {} /\ messages' \subseteq messages \cup writing[p]
  BY DEF TypeInv, CoreTypeOK, TableTypeOK, Publish, Insert, Commit, Rollback
<1>3. Fresh /\ Locked
  BY DEF LeaseInv
<1>4. \A s \in Subs, m \in Ids : InFlight(s, m)' <=> InFlight(s, m)
  BY <1>1, CopiesSame
<1>5. Fresh'
  <2>1. /\ messages \subseteq 1..seq
        /\ \A q \in Pubs : writing[q] \subseteq 1..seq /\ writing[q] \cap messages = {}
        /\ \A q, r \in Pubs : q # r => writing[q] \cap writing[r] = {}
        /\ \A s \in Subs, m \in Ids : InFlight(s, m) \/ m \in picked[s] =>
             m <= seq /\ \A q \in Pubs : m \notin writing[q]
    BY <1>3 DEF Fresh
  <2>2. seq + 1 \notin 1..seq /\ 1..seq \subseteq 1..(seq + 1) /\ seq + 1 \in 1..(seq + 1)
    BY <1>2
  <2>3. /\ messages' \subseteq 1..seq'
        /\ \A q \in Pubs : writing'[q] \subseteq 1..seq'
    BY <1>2, <2>1, <2>2
  <2>4. \A q \in Pubs : writing'[q] \cap messages' = {}
    BY <1>2, <2>1, <2>2
  <2>5. \A q, r \in Pubs : q # r => writing'[q] \cap writing'[r] = {}
    BY <1>2, <2>1, <2>2
  <2>6. ASSUME NEW s \in Subs, NEW m \in Ids, InFlight(s, m)' \/ m \in picked'[s]
        PROVE  m <= seq' /\ \A q \in Pubs : m \notin writing'[q]
    <3>1. m <= seq /\ \A q \in Pubs : m \notin writing[q]
      BY <1>1, <1>4, <2>1, <2>6
    <3>2. m \in Nat
      BY IdsFacts
    <3>. QED
      BY <1>2, <3>1, <3>2
  <2>. QED
    BY <2>3, <2>4, <2>5, <2>6 DEF Fresh
<1>6. Locked'
  BY <1>1, <1>3 DEF Locked, Polling
<1>7. ASSUME timeouts = 0, Leases PROVE Leases'
  <2>1. \A s \in Subs, m \in Ids : InFlight(s, m) /\ m \in messages' => m \in messages
    BY <1>2, <1>3 DEF Fresh
  <2>. QED
    BY <1>1, <1>4, <1>7, <2>1 DEF Leases, Polling
<1>8. ASSUME Picks PROVE Picks'
  <2>1. \A s \in Subs : picked[s] \subseteq Ids
    BY DEF TypeInv, CoreTypeOK, PollTypeOK
  <2>. QED
    BY <1>1, <1>4, <1>8, <2>1 DEF Picks
<1>9. \A s \in Subs : OneCopy(s)' <=> OneCopy(s)
  BY <1>1, CopiesSame
<1>. QED
  BY <1>1, <1>5, <1>6, <1>7, <1>8, <1>9 DEF LeaseInv

\* A step that changes neither copies, leases, watermarks nor open polls, except
\* that polls may end.
LEMMA QuietLease ==
  ASSUME TypeInv, LeaseInv, Locked',
         UNCHANGED <<seq, writing, row, mark, timeouts, batch, buffer, held, verdicts, flush>>,
         messages' \subseteq messages,
         \A g \in Groups, m \in Ids : m > offset[g] => m > offset'[g],
         \A s \in Subs : /\ Polling(s)' => Polling(s)
                         /\ picked'[s] \subseteq picked[s]
                         /\ poll'[s] = "upsert" => poll[s] = "upsert"
  PROVE  LeaseInv'
<1>1. /\ \A s \in Subs, m \in Ids : InFlight(s, m)' <=> InFlight(s, m)
      /\ \A s \in Subs : OneCopy(s)' <=> OneCopy(s)
  BY CopiesSame
<1>2. \A s \in Subs : picked[s] \subseteq Ids /\ GroupOf[s] \in Groups
  BY PostgresAssumption DEF TypeInv, CoreTypeOK, PollTypeOK
<1>3. Fresh'
  <2>1. \A s \in Subs, m \in Ids : InFlight(s, m)' \/ m \in picked'[s]
                                     => InFlight(s, m) \/ m \in picked[s]
    BY <1>1
  <2>. QED
    BY <2>1 DEF LeaseInv, Fresh
<1>4. Leases => Leases'
  BY <1>1, <1>2 DEF Leases
<1>5. Picks => Picks'
  BY <1>1, <1>2 DEF Picks
<1>. QED
  BY <1>1, <1>3, <1>4, <1>5 DEF LeaseInv

LEMMA PurgeLease == ASSUME TypeInv, LeaseInv, Purge PROVE LeaseInv'
<1>1. /\ messages' \subseteq messages
      /\ UNCHANGED <<seq, writing, offset, row, pollVars, leaseVars, timeouts>>
  BY PurgeFrame DEF countVars
<1>2. Locked' /\ \A s \in Subs : Polling(s)' <=> Polling(s)
  BY <1>1 DEF LeaseInv, Locked, Polling, pollVars
<1>. QED
  BY <1>1, <1>2, QuietLease DEF pollVars, leaseVars

\* Subscribing and the steps that open no poll, and a poll that fails.
LEMMA PollQuietLease ==
  ASSUME TypeInv, LeaseInv, NEW s \in Subs,
         Subscribe(s) \/ PollStart(s) \/ PollSkip(s) \/ PollFail(s)
  PROVE  LeaseInv'
<1>0. CoreTypeOK /\ Locked /\ GroupOf \in [Subs -> Groups]
  BY PostgresAssumption DEF TypeInv, LeaseInv
<1>1. /\ UNCHANGED <<seq, writing, messages, row, mark, timeouts>>
      /\ UNCHANGED <<batch, buffer, held, verdicts, flush>>
      /\ poll'[s] \in {"idle", "start"} /\ \A t \in Subs \ {s} : poll'[t] = poll[t]
      /\ \A t \in Subs : picked'[t] \subseteq picked[t]
  BY <1>0 DEF CoreTypeOK, PollTypeOK, Subscribe, PollStart, PollSkip, PollFail, tableVars,
              leaseVars, countVars
<1>2. \A g \in Groups, m \in Ids : m > offset[g] => m > offset'[g]
  <2>1. CASE Subscribe(s)
    <3>1. \A g \in Groups : offset'[g] = offset[g] \/ offset'[g] = 0
      BY <1>0, <2>1 DEF Subscribe, CoreTypeOK, TableTypeOK
    <3>2. \A m \in Ids : m > 0
      BY PostgresAssumption DEF Ids
    <3>. QED
      BY <3>1, <3>2
  <2>2. CASE ~Subscribe(s)
    BY <2>2 DEF PollStart, PollSkip, PollFail, tableVars
  <2>. QED
    BY <2>1, <2>2
<1>3. \A g \in Groups : lock'[g] = lock[g] \/ (lock'[g] = lock[g] \ {s} /\ g = GroupOf[s])
  BY <1>0 DEF CoreTypeOK, PollTypeOK, Subscribe, PollStart, PollSkip, PollFail
<1>4. Locked'
  <2> SUFFICES ASSUME NEW t \in Subs, Polling(t)' PROVE lock'[GroupOf[t]] = {t}
    BY DEF Locked
  <2>1. t # s /\ Polling(t)
    BY <1>1 DEF Polling
  <2>2. lock[GroupOf[t]] = {t} /\ GroupOf[t] \in Groups
    BY <1>0, <2>1 DEF Locked
  <2>. QED
    BY <1>3, <2>1, <2>2
<1>. QED
  BY <1>1, <1>2, <1>4, QuietLease DEF Polling

\* The poll that has just locked the row sees the committed watermark.
LEMMA LockLease ==
  ASSUME TypeInv, LeaseInv, NEW s \in Subs, PollLock(s) PROVE LeaseInv'
<1> DEFINE g == GroupOf[s]
<1>0. CoreTypeOK /\ Fresh /\ Locked /\ g \in Groups
  BY PostgresAssumption DEF TypeInv, LeaseInv
<1>1. /\ lock[g] = {} /\ lock' = [lock EXCEPT ![g] = {s}]
      /\ poll' = [poll EXCEPT ![s] = "scan"] /\ mark' = [mark EXCEPT ![s] = offset[g]]
      /\ UNCHANGED <<seq, writing, messages, offset, row, picked, timeouts>>
      /\ UNCHANGED <<batch, buffer, held, verdicts, flush>>
  BY DEF PollLock, Unlocked, tableVars, leaseVars, countVars
<1>2. /\ poll'[s] = "scan" /\ mark'[s] = offset[g]
      /\ \A t \in Subs \ {s} : poll'[t] = poll[t] /\ mark'[t] = mark[t]
      /\ lock'[g] = {s} /\ \A h \in Groups \ {g} : lock'[h] = lock[h]
  BY <1>0, <1>1 DEF CoreTypeOK, PollTypeOK
<1>3. /\ \A t \in Subs, m \in Ids : InFlight(t, m)' <=> InFlight(t, m)
      /\ \A t \in Subs : OneCopy(t)' <=> OneCopy(t)
  BY <1>1, CopiesSame
<1>4. \A t \in Subs : GroupOf[t] \in Groups /\ picked[t] \subseteq Ids
                      /\ (Polling(t) => GroupOf[t] # g)
  <2>1. \A t \in Subs : GroupOf[t] \in Groups /\ picked[t] \subseteq Ids
    BY <1>0, PostgresAssumption DEF CoreTypeOK, PollTypeOK
  <2>2. \A t \in Subs : Polling(t) => GroupOf[t] # g
    BY <1>0, <1>1 DEF Locked
  <2>. QED
    BY <2>1, <2>2
<1>5. Locked'
  BY <1>0, <1>2, <1>4 DEF Locked, Polling
<1>6. Fresh'
  BY <1>0, <1>1, <1>3 DEF Fresh
<1>7. Leases => Leases'
  BY <1>1, <1>2, <1>3 DEF Leases, Polling
<1>8. Picks => Picks'
  BY <1>1, <1>2, <1>3, <1>4 DEF Picks
<1>. QED
  BY <1>1, <1>3, <1>5, <1>6, <1>7, <1>8 DEF LeaseInv

\* The mark moves over acked rows, so over nothing that is in flight.
LEMMA ScanLease ==
  ASSUME TypeInv, LeaseInv, NEW s \in Subs, PollScan(s) PROVE LeaseInv'
<1> DEFINE g == GroupOf[s]
<1>0. CoreTypeOK /\ Fresh /\ Locked /\ g \in Groups
  BY PostgresAssumption DEF TypeInv, LeaseInv
<1>1. /\ poll[s] = "scan" /\ poll' = [poll EXCEPT ![s] = "claim"]
      /\ UNCHANGED <<lock, seq, writing, messages, offset, row, picked, timeouts>>
      /\ UNCHANGED <<batch, buffer, held, verdicts, flush>>
  BY DEF PollScan, tableVars, leaseVars, countVars
<1>2. \/ mark' = mark
      \/ \E m \in AckedPrefix(g, mark[s]) : mark' = [mark EXCEPT ![s] = m]
  BY DEF PollScan
<1>i. mark[s] \in Int /\ \A m \in messages : m \in Int
  <2>1. mark[s] \in -1..MaxId /\ messages \subseteq Ids
    BY <1>0 DEF CoreTypeOK, PollTypeOK, TableTypeOK
  <2>. QED
    BY <2>1, IdsFacts, PostgresAssumption
<1>3. /\ poll'[s] = "claim" /\ \A t \in Subs \ {s} : poll'[t] = poll[t] /\ mark'[t] = mark[t]
      /\ \A m \in messages : mark[s] < m /\ m <= mark'[s] => row[g][m] = "acked"
  <2>1. poll'[s] = "claim" /\ \A t \in Subs \ {s} : poll'[t] = poll[t] /\ mark'[t] = mark[t]
    BY <1>0, <1>1, <1>2 DEF CoreTypeOK, PollTypeOK
  <2>2. CASE mark' = mark
    BY <1>i, <2>1, <2>2
  <2>3. ASSUME NEW x \in AckedPrefix(g, mark[s]), mark' = [mark EXCEPT ![s] = x]
        PROVE  \A m \in messages : mark[s] < m /\ m <= mark'[s] => row[g][m] = "acked"
    <3>1. mark'[s] = x
      BY <1>0, <2>3 DEF CoreTypeOK, PollTypeOK
    <3>. QED
      BY <2>3, <3>1 DEF AckedPrefix
  <2>. QED
    BY <1>2, <2>1, <2>2, <2>3
<1>4. /\ \A t \in Subs, m \in Ids : InFlight(t, m)' <=> InFlight(t, m)
      /\ \A t \in Subs : OneCopy(t)' <=> OneCopy(t)
      /\ \A t \in Subs : Polling(t)' <=> Polling(t)
  BY <1>1, <1>3, CopiesSame DEF Polling
<1>5. Locked' /\ Fresh'
  BY <1>0, <1>1, <1>4 DEF Locked, Fresh
<1>6. ASSUME Leases PROVE Leases'
  <2> SUFFICES ASSUME NEW t \in Subs, NEW m \in Ids, InFlight(t, m), m \in messages,
                      GroupOf[t] = g
               PROVE  m > mark'[s]
    BY <1>1, <1>3, <1>4, <1>6 DEF Leases
  <2>1. row[g][m] = "held" /\ m > mark[s]
    BY <1>1, <1>6 DEF Leases, Polling
  <2>2. m \in Int /\ mark[s] \in Int /\ mark'[s] \in Int
    <3>1. CoreTypeOK'
      BY <1>0, CoreTypePoll DEF Poll
    <3>2. mark[s] \in -1..MaxId /\ mark'[s] \in -1..MaxId
      BY <1>0, <3>1 DEF CoreTypeOK, PollTypeOK
    <3>. QED
      BY <3>2, IdsFacts, PostgresAssumption
  <2>. QED
    BY <1>3, <2>1, <2>2
<1>7. ASSUME Picks PROVE Picks'
  <2>1. \A t \in Subs : picked[t] \subseteq Ids
    BY <1>0 DEF CoreTypeOK, PollTypeOK
  <2>. QED
    BY <1>1, <1>3, <1>4, <1>7, <2>1 DEF Picks
<1>. QED
  BY <1>1, <1>4, <1>5, <1>6, <1>7 DEF LeaseInv

\* The claim's snapshot: what is in flight is leased, so not in it.
LEMMA PickLease ==
  ASSUME TypeInv, LeaseInv, NEW s \in Subs, PollPick(s) PROVE LeaseInv'
<1> DEFINE g == GroupOf[s]
<1>0. CoreTypeOK /\ Fresh /\ Locked /\ g \in Groups
  BY PostgresAssumption DEF TypeInv, LeaseInv
<1>1. /\ poll[s] = "claim" /\ poll' = [poll EXCEPT ![s] = "upsert"]
      /\ UNCHANGED <<lock, mark, seq, writing, messages, offset, row, timeouts>>
      /\ UNCHANGED <<batch, buffer, held, verdicts, flush>>
  BY DEF PollPick, tableVars, leaseVars, countVars
<1>2. /\ poll'[s] = "upsert" /\ picked'[s] \subseteq Claimable(s)
      /\ \A t \in Subs \ {s} : poll'[t] = poll[t] /\ picked'[t] = picked[t]
  BY <1>0 DEF PollPick, CoreTypeOK, PollTypeOK
<1>3. \A m \in picked'[s] : /\ m \in messages /\ m \in Ids /\ m > mark[s]
                            /\ row[g][m] \in {"none", "expired"}
  BY <1>0, <1>2 DEF Claimable, CoreTypeOK, TableTypeOK
<1>4. /\ \A t \in Subs, m \in Ids : InFlight(t, m)' <=> InFlight(t, m)
      /\ \A t \in Subs : OneCopy(t)' <=> OneCopy(t)
      /\ \A t \in Subs : Polling(t)' <=> Polling(t)
  BY <1>1, <1>2, CopiesSame DEF Polling
<1>5. Locked'
  BY <1>0, <1>1, <1>4 DEF Locked
<1>6. Fresh'
  <2> SUFFICES ASSUME NEW t \in Subs, NEW m \in Ids, InFlight(t, m) \/ m \in picked'[t]
               PROVE  m <= seq /\ \A p \in Pubs : m \notin writing[p]
    BY <1>0, <1>1, <1>4 DEF Fresh
  <2>1. CASE InFlight(t, m) \/ m \in picked[t]
    BY <1>0, <2>1 DEF Fresh
  <2>2. CASE m \in messages
    BY <1>0, <2>2 DEF Fresh, CoreTypeOK, TableTypeOK
  <2>. QED
    BY <1>2, <1>3, <2>1, <2>2
<1>7. Leases => Leases'
  BY <1>1, <1>4 DEF Leases
<1>8. ASSUME Leases, Picks PROVE Picks'
  <2>1. ASSUME NEW m \in picked'[s], NEW t \in Subs, GroupOf[t] = g PROVE ~InFlight(t, m)
    BY <1>3, <1>8, <2>1 DEF Leases
  <2>2. \A t \in Subs : picked[t] \subseteq Ids
    BY <1>0 DEF CoreTypeOK, PollTypeOK
  <2>. QED
    BY <1>1, <1>2, <1>3, <1>4, <1>8, <2>1, <2>2 DEF Picks
<1>. QED
  BY <1>1, <1>4, <1>5, <1>6, <1>7, <1>8 DEF LeaseInv

\* The claim is committed: it takes what it picked and compacts rows behind the
\* new watermark, where nothing that still exists is in flight.
LEMMA CommitLease ==
  ASSUME TypeInv, LeaseInv, NEW s \in Subs, PollCommit(s) PROVE LeaseInv'
<1> DEFINE g == GroupOf[s]
<1>0. CoreTypeOK /\ CopyTypeOK /\ Fresh /\ Locked /\ g \in Groups /\ GroupOf \in [Subs -> Groups]
  BY PostgresAssumption DEF TypeInv, LeaseInv
<1>1. /\ poll[s] = "upsert" /\ lock' = [lock EXCEPT ![g] = {}]
      /\ poll' = [poll EXCEPT ![s] = IF picked[s] = {} THEN "idle" ELSE "send"]
      /\ offset' = [offset EXCEPT ![g] = mark[s]]
      /\ picked' = [picked EXCEPT ![s] = {}]
      /\ batch' = [batch EXCEPT ![s] = InOrder(picked[s])]
      /\ UNCHANGED <<mark, seq, writing, messages, timeouts, buffer, held, verdicts, flush>>
  BY DEF PollCommit, leaseVars, countVars
<1>2. \A h \in Groups, m \in Ids :
        row'[h][m] = IF h # g THEN row[h][m]
                     ELSE CASE m \in picked[s] -> Upserted(row[g][m])
                            [] offset[g] < mark[s] /\ m <= mark[s] -> "none"
                            [] OTHER -> row[g][m]
  BY <1>0 DEF PollCommit, CoreTypeOK, TableTypeOK
<1>3. picked[s] \subseteq Ids /\ Range(InOrder(picked[s])) = picked[s]
      /\ Distinct(InOrder(picked[s]))
  <2>1. picked[s] \in SUBSET Ids
    BY <1>0 DEF CoreTypeOK, PollTypeOK
  <2>2. IsFiniteSet(picked[s]) /\ picked[s] \in SUBSET Nat
    BY <2>1, IdsFacts, FS_Subset
  <2>. QED
    BY <2>1, <2>2, InOrderFacts
<1>4. /\ poll'[s] \in {"idle", "send"} /\ offset'[g] = mark[s] /\ lock'[g] = {}
      /\ picked'[s] = {} /\ batch'[s] = InOrder(picked[s])
      /\ \A t \in Subs \ {s} :
           poll'[t] = poll[t] /\ picked'[t] = picked[t] /\ batch'[t] = batch[t]
      /\ \A h \in Groups \ {g} : lock'[h] = lock[h] /\ offset'[h] = offset[h]
  BY <1>0, <1>1 DEF CoreTypeOK, TableTypeOK, PollTypeOK, CopyTypeOK
<1>5. \A t \in Subs \ {s} : /\ OneCopy(t)' <=> OneCopy(t)
                            /\ \A m : InFlight(t, m)' <=> InFlight(t, m)
  BY <1>1, <1>4, CopyFrame
<1>6. \A m \in Ids : InFlight(s, m)' => InFlight(s, m) \/ m \in picked[s]
  BY <1>1, <1>3, <1>4 DEF InFlight
<1>7. \A t \in Subs : Polling(t)' => /\ Polling(t) /\ t # s /\ GroupOf[t] # g
  <2> SUFFICES ASSUME NEW t \in Subs, Polling(t)'
               PROVE  Polling(t) /\ t # s /\ GroupOf[t] # g
    OBVIOUS
  <2>1. t # s /\ Polling(t) /\ Polling(s)
    BY <1>1, <1>4 DEF Polling
  <2>2. lock[GroupOf[t]] = {t} /\ lock[g] = {s}
    BY <1>0, <2>1 DEF Locked
  <2>. QED
    BY <2>1, <2>2
<1>8. Locked'
  BY <1>0, <1>4, <1>7 DEF Locked
<1>9. Fresh'
  <2>1. \A t \in Subs, m \in Ids :
          InFlight(t, m)' \/ m \in picked'[t] => InFlight(t, m) \/ m \in picked[t]
    BY <1>4, <1>5, <1>6
  <2>. QED
    BY <1>0, <1>1, <2>1 DEF Fresh
<1>10. SUFFICES ASSUME timeouts = 0
                PROVE  Leases' /\ Picks' /\ \A t \in Subs : OneCopy(t)'
  BY <1>1, <1>8, <1>9 DEF LeaseInv
<1>11. Leases /\ Picks /\ \A t \in Subs : OneCopy(t)
  BY <1>10 DEF LeaseInv
<1>12. \A m \in picked[s] :
         /\ m > mark[s] /\ row'[g][m] = "held"
         /\ \A t \in Subs : GroupOf[t] = g => ~InFlight(t, m)
  <2> SUFFICES ASSUME NEW m \in picked[s]
               PROVE  /\ m > mark[s] /\ row'[g][m] = "held"
                      /\ \A t \in Subs : GroupOf[t] = g => ~InFlight(t, m)
    OBVIOUS
  <2>1. /\ m > mark[s] /\ row[g][m] \in {"none", "expired"}
        /\ \A t \in Subs : GroupOf[t] = g => ~InFlight(t, m)
    BY <1>1, <1>11 DEF Picks
  <2>2. row'[g][m] = Upserted(row[g][m])
    <3>1. m \in Ids /\ g = GroupOf[s]
      BY <1>3
    <3>2. row'[g] = [k \in Ids |->
                      CASE k \in picked[s] -> Upserted(row[g][k])
                        [] offset[g] < mark[s] /\ k <= mark[s] -> "none"
                        [] OTHER -> row[g][k]]
      BY <1>0 DEF PollCommit, CoreTypeOK, TableTypeOK
    <3>3. mark[s] \in Int /\ m \in Int
      <4>1. mark[s] \in -1..MaxId
        BY <1>0 DEF CoreTypeOK, PollTypeOK
      <4>. QED
        BY <3>1, <4>1, IdsFacts, PostgresAssumption
    <3>4. ~(m <= mark[s])
      BY <2>1, <3>3
    <3>. QED
      BY <3>1, <3>2, <3>4
  <2>. QED
    BY <2>1, <2>2 DEF Upserted
<1>13. OneCopy(s)'
  <2>1. ASSUME NEW m \in picked[s]
        PROVE  m \notin Range(buffer[s]) /\ held[s][m] = 0 /\ ~InVerdict(s, m) /\ ~InFlush(s, m)
    <3>1. ~InFlight(s, m) /\ m \in Ids
      BY <1>3, <1>12
    <3>2. held[s][m] \in {0, 1}
      BY <1>11, <3>1 DEF OneCopy, CopyAt
    <3>. QED
      BY <3>1, <3>2, InFlightPlaces
  <2>2. Range(batch'[s]) = picked[s] /\ Distinct(batch'[s])
    BY <1>3, <1>4
  <2>3. \A m : /\ InVerdict(s, m)' <=> InVerdict(s, m)
               /\ InFlush(s, m)' <=> InFlush(s, m)
    BY <1>1 DEF InVerdict, InFlush
  <2>. QED
    BY <1>1, <1>11, <2>1, <2>2, <2>3 DEF OneCopy, CopyAt
<1>14. Leases'
  <2> SUFFICES ASSUME NEW t \in Subs, NEW m \in Ids, InFlight(t, m)'
               PROVE  /\ \A u \in Subs : GroupOf[t] = GroupOf[u] /\ InFlight(u, m)' => t = u
                      /\ m \in messages =>
                           /\ row'[GroupOf[t]][m] = "held" /\ m > offset'[GroupOf[t]]
                           /\ \A u \in Subs : GroupOf[t] = GroupOf[u] /\ Polling(u)' => m > mark[u]
    BY <1>1 DEF Leases
  <2>1. GroupOf[t] \in Groups
    BY <1>0
  <2>2. CASE t = s /\ m \in picked[s]
    <3>1. \A u \in Subs : GroupOf[u] = g /\ InFlight(u, m)' => u = s
      BY <1>5, <1>12, <2>2
    <3>. QED
      BY <1>4, <1>7, <1>12, <2>2, <3>1
  <2>3. CASE ~(t = s /\ m \in picked[s])
    <3>1. InFlight(t, m)
      BY <1>5, <1>6, <2>3
    <3>2. GroupOf[t] = g => m \notin picked[s]
      BY <1>12, <3>1
    <3>3. \A u \in Subs : GroupOf[t] = GroupOf[u] /\ InFlight(u, m)' => InFlight(u, m)
      BY <1>5, <1>6, <3>2
    <3>4. m \in messages => row[GroupOf[t]][m] = "held" /\ (GroupOf[t] = g => m > mark[s])
      BY <1>1, <1>11, <3>1 DEF Leases, Polling
    <3>5. m \in messages => row'[GroupOf[t]][m] = "held" /\ m > offset'[GroupOf[t]]
      <4>1. CASE GroupOf[t] = g
        <5>1. m > mark[s] => ~(m <= mark[s])
          <6>1. m \in Int /\ mark[s] \in Int
            <7>1. mark[s] \in -1..MaxId
              BY <1>0 DEF CoreTypeOK, PollTypeOK
            <7>. QED
              BY <7>1, IdsFacts, PostgresAssumption
          <6>. QED
            BY <6>1
        <5>. QED
          BY <1>0, <1>2, <1>4, <3>2, <3>4, <4>1, <5>1
      <4>2. CASE GroupOf[t] # g
        BY <1>2, <1>4, <1>11, <2>1, <3>1, <4>2 DEF Leases
      <4>. QED
        BY <4>1, <4>2
    <3>6. m \in messages =>
            \A u \in Subs : GroupOf[t] = GroupOf[u] /\ Polling(u)' => m > mark[u]
      BY <1>7, <1>11, <3>1 DEF Leases
    <3>. QED
      BY <1>11, <3>1, <3>3, <3>5, <3>6 DEF Leases
  <2>. QED
    BY <2>2, <2>3
<1>15. Picks'
  <2> SUFFICES ASSUME NEW t \in Subs, NEW m \in picked'[t], poll'[t] = "upsert"
               PROVE  /\ m > mark[t] /\ row'[GroupOf[t]][m] \in {"none", "expired"}
                      /\ \A u \in Subs : GroupOf[t] = GroupOf[u] => ~InFlight(u, m)'
    BY <1>1 DEF Picks
  <2>1. /\ t # s /\ GroupOf[t] # g /\ GroupOf[t] \in Groups
        /\ m \in picked[t] /\ poll[t] = "upsert" /\ m \in Ids
    BY <1>0, <1>4, <1>7 DEF Polling, CoreTypeOK, PollTypeOK
  <2>2. /\ m > mark[t] /\ row[GroupOf[t]][m] \in {"none", "expired"}
        /\ \A u \in Subs : GroupOf[t] = GroupOf[u] => ~InFlight(u, m)
    BY <1>11, <2>1 DEF Picks
  <2>. QED
    BY <1>2, <1>5, <2>1, <2>2
<1>. QED
  BY <1>5, <1>11, <1>13, <1>14, <1>15

-----------------------------------------------------------------------------
\* A step of s alone, which passes its copies on or loses some; leases change
\* only of what nobody has in flight or is about to claim.
LEMMA PassOn ==
  ASSUME TypeInv, LeaseInv, NEW s \in Subs, Locked',
         UNCHANGED <<seq, writing, messages, offset, mark, timeouts>>,
         \A t \in Subs : /\ Polling(t)' => Polling(t)
                         /\ picked'[t] \subseteq picked[t]
                         /\ poll'[t] = "upsert" => poll[t] = "upsert",
         \A t \in Subs \ {s} :
           /\ batch'[t] = batch[t] /\ buffer'[t] = buffer[t] /\ held'[t] = held[t]
           /\ verdicts'[t] = verdicts[t] /\ flush'[t] = flush[t],
         \A m \in Ids : InFlight(s, m)' => InFlight(s, m),
         timeouts = 0 => OneCopy(s)',
         \A t \in Subs, m \in Ids :
           timeouts = 0 /\ InFlight(t, m)' /\ row[GroupOf[t]][m] = "held"
             => row'[GroupOf[t]][m] = "held",
         \A t \in Subs, m \in Ids :
           timeouts = 0 /\ row[GroupOf[t]][m] \in {"none", "expired"}
           /\ (\A u \in Subs : GroupOf[t] = GroupOf[u] => ~InFlight(u, m))
             => row'[GroupOf[t]][m] \in {"none", "expired"}
  PROVE  LeaseInv'
<1>1. \A t \in Subs, m \in Ids : InFlight(t, m)' => InFlight(t, m)
  BY CopyFrame
<1>2. \A t \in Subs : picked[t] \subseteq Ids
  BY DEF TypeInv, CoreTypeOK, PollTypeOK
<1>3. Fresh'
  <2>1. \A t \in Subs, m \in Ids :
          InFlight(t, m)' \/ m \in picked'[t] => InFlight(t, m) \/ m \in picked[t]
    BY <1>1
  <2>. QED
    BY <2>1 DEF LeaseInv, Fresh
<1> SUFFICES ASSUME timeouts = 0 PROVE Leases' /\ Picks' /\ \A t \in Subs : OneCopy(t)'
  BY <1>3 DEF LeaseInv
<1>4. Leases /\ Picks /\ \A t \in Subs : OneCopy(t)
  BY DEF LeaseInv
<1>5. \A t \in Subs : OneCopy(t)'
  BY <1>4, CopyFrame
<1>6. Leases'
  BY <1>1, <1>4 DEF Leases
<1>7. Picks'
  <2> SUFFICES ASSUME NEW t \in Subs, NEW m \in picked'[t], poll'[t] = "upsert"
               PROVE  /\ m > mark[t] /\ row'[GroupOf[t]][m] \in {"none", "expired"}
                      /\ \A u \in Subs : GroupOf[t] = GroupOf[u] => ~InFlight(u, m)'
    BY DEF Picks
  <2>1. m \in picked[t] /\ poll[t] = "upsert" /\ m \in Ids
    BY <1>2
  <2>2. /\ m > mark[t] /\ row[GroupOf[t]][m] \in {"none", "expired"}
        /\ \A u \in Subs : GroupOf[t] = GroupOf[u] => ~InFlight(u, m)
    BY <1>4, <2>1 DEF Picks
  <2>. QED
    BY <1>1, <2>1, <2>2
<1>. QED
  BY <1>5, <1>6, <1>7

\* A step that leaves polls and leases alone.
LEMMA PassOnRows ==
  ASSUME TypeInv, LeaseInv, NEW s \in Subs,
         UNCHANGED <<tableVars, lock, mark, timeouts>>,
         \A t \in Subs : /\ Polling(t)' => Polling(t)
                         /\ picked'[t] \subseteq picked[t]
                         /\ poll'[t] = "upsert" => poll[t] = "upsert",
         \A t \in Subs \ {s} :
           /\ batch'[t] = batch[t] /\ buffer'[t] = buffer[t] /\ held'[t] = held[t]
           /\ verdicts'[t] = verdicts[t] /\ flush'[t] = flush[t],
         \A m \in Ids : InFlight(s, m)' => InFlight(s, m),
         timeouts = 0 => OneCopy(s)'
  PROVE  LeaseInv'
<1>1. Locked'
  BY DEF LeaseInv, Locked
<1>2. UNCHANGED <<seq, writing, messages, offset, mark, timeouts>> /\ row' = row
  BY DEF tableVars
<1>3. /\ \A t \in Subs, m \in Ids :
           timeouts = 0 /\ InFlight(t, m)' /\ row[GroupOf[t]][m] = "held"
             => row'[GroupOf[t]][m] = "held"
      /\ \A t \in Subs, m \in Ids :
           timeouts = 0 /\ row[GroupOf[t]][m] \in {"none", "expired"}
           /\ (\A u \in Subs : GroupOf[t] = GroupOf[u] => ~InFlight(u, m))
             => row'[GroupOf[t]][m] \in {"none", "expired"}
  BY <1>2
<1>. QED
  BY <1>1, <1>2, <1>3, PassOn

LEMMA SendLease ==
  ASSUME TypeInv, LeaseInv, NEW s \in Subs, SendNext(s) PROVE LeaseInv'
<1> DEFINE m == Head(batch[s])
<1>0. CoreTypeOK /\ CopyTypeOK
  BY DEF TypeInv
<1>1. /\ buffer' = [buffer EXCEPT ![s] = Append(@, m)]
      /\ batch' = [batch EXCEPT ![s] = Tail(@)]
      /\ poll[s] = "send" /\ poll' = [poll EXCEPT ![s] = IF Len(batch[s]) = 1 THEN "idle" ELSE "send"]
      /\ UNCHANGED <<tableVars, lock, mark, picked, held, verdicts, flush, timeouts>>
  BY DEF SendNext, countVars
<1>2. batch[s] \in Seq(Ids) /\ batch[s] # <<>> /\ buffer[s] \in Seq(Ids)
  BY <1>1 DEF TypeInv, CopyTypeOK, ClaimSize
<1>3. m \in Ids /\ Range(batch[s]) = {m} \cup Range(Tail(batch[s]))
  BY <1>2, TailFacts
<1>4. /\ buffer'[s] = Append(buffer[s], m) /\ batch'[s] = Tail(batch[s])
      /\ \A t \in Subs \ {s} : batch'[t] = batch[t] /\ buffer'[t] = buffer[t] /\ poll'[t] = poll[t]
      /\ poll'[s] \in {"idle", "send"}
  BY <1>0, <1>1 DEF CoreTypeOK, PollTypeOK, CopyTypeOK
<1>5. Range(buffer'[s]) = Range(buffer[s]) \cup {m}
  BY <1>2, <1>3, <1>4, AppendFacts
<1>6. \A k \in Ids : InFlight(s, k)' => InFlight(s, k)
  BY <1>1, <1>3, <1>4, <1>5 DEF InFlight
<1>7. ASSUME timeouts = 0 PROVE OneCopy(s)'
  <2>1. OneCopy(s)
    BY <1>7 DEF LeaseInv
  <2>2. CopyAt(s, m) /\ m \in Range(batch[s])
    BY <1>3, <2>1 DEF OneCopy
  <2>3. m \notin Range(buffer[s]) /\ held[s][m] = 0 /\ ~InVerdict(s, m) /\ ~InFlush(s, m)
    BY <2>2 DEF CopyAt
  <2>4. Distinct(buffer'[s])
    BY <1>2, <1>3, <1>4, <2>1, <2>3, AppendDistinct DEF OneCopy
  <2>5. Distinct(batch'[s]) /\ m \notin Range(batch'[s])
    BY <1>2, <1>4, <2>1, TailDistinct DEF OneCopy
  <2>6. \A k : /\ InVerdict(s, k)' <=> InVerdict(s, k)
               /\ InFlush(s, k)' <=> InFlush(s, k)
    BY <1>1 DEF InVerdict, InFlush
  <2>7. \A k \in Ids : k \in Range(batch'[s]) => k \in Range(batch[s])
    BY <1>3, <1>4
  <2>. QED
    BY <1>1, <1>5, <2>1, <2>3, <2>4, <2>5, <2>6, <2>7 DEF OneCopy, CopyAt
<1>8. \A t \in Subs : /\ Polling(t)' => Polling(t)
                      /\ picked'[t] \subseteq picked[t]
                      /\ poll'[t] = "upsert" => poll[t] = "upsert"
  BY <1>1, <1>4 DEF Polling
<1>. QED
  BY <1>1, <1>4, <1>6, <1>7, <1>8, PassOnRows

LEMMA TakeLease ==
  ASSUME TypeInv, LeaseInv, NEW s \in Subs, Take(s) PROVE LeaseInv'
<1> DEFINE m == Head(buffer[s])
<1>0. CoreTypeOK /\ CopyTypeOK
  BY DEF TypeInv
<1>1. /\ held' = [held EXCEPT ![s][m] = @ + 1]
      /\ buffer' = [buffer EXCEPT ![s] = Tail(@)]
      /\ UNCHANGED <<tableVars, pollVars, verdicts, flush, timeouts>>
  BY DEF Take, countVars
<1>2. buffer[s] \in Seq(Ids) /\ buffer[s] # <<>>
  BY <1>0 DEF Take, CopyTypeOK
<1>3. m \in Ids /\ Range(buffer[s]) = {m} \cup Range(Tail(buffer[s]))
  BY <1>2, TailFacts
<1>4. /\ buffer'[s] = Tail(buffer[s])
      /\ \A k \in Ids : held'[s][k] = IF k = m THEN held[s][m] + 1 ELSE held[s][k]
      /\ \A t \in Subs \ {s} : held'[t] = held[t] /\ buffer'[t] = buffer[t]
  BY <1>0, <1>1, <1>3 DEF CopyTypeOK
<1>p. UNCHANGED <<lock, poll, mark, picked, batch>>
  BY <1>1 DEF pollVars
<1>5. \A k \in Ids : InFlight(s, k)' => InFlight(s, k)
  BY <1>1, <1>p, <1>3, <1>4 DEF InFlight
<1>6. ASSUME timeouts = 0 PROVE OneCopy(s)'
  <2>1. OneCopy(s)
    BY <1>6 DEF LeaseInv
  <2>2. Distinct(buffer'[s]) /\ m \notin Range(buffer'[s])
    BY <1>2, <1>4, <2>1, TailDistinct DEF OneCopy
  <2>3. CopyAt(s, m) /\ m \in Range(buffer[s])
    BY <1>3, <2>1 DEF OneCopy
  <2>4. /\ m \notin Range(batch[s]) /\ held[s][m] = 0
        /\ ~InVerdict(s, m) /\ ~InFlush(s, m)
    BY <2>3 DEF CopyAt
  <2>5. held'[s][m] = 1 /\ \A k \in Ids : k # m => held'[s][k] = held[s][k]
    BY <1>3, <1>4, <2>4
  <2>6. \A k : /\ InVerdict(s, k)' <=> InVerdict(s, k)
               /\ InFlush(s, k)' <=> InFlush(s, k)
    BY <1>1 DEF InVerdict, InFlush
  <2>7. \A k \in Ids : k # m => (k \in Range(buffer'[s]) <=> k \in Range(buffer[s]))
    BY <1>3, <1>4
  <2>. QED
    BY <1>1, <1>p, <2>1, <2>2, <2>4, <2>5, <2>6, <2>7 DEF OneCopy, CopyAt
<1>. QED
  BY <1>1, <1>p, <1>4, <1>5, <1>6, PassOnRows DEF Polling

LEMMA SettleLease ==
  ASSUME TypeInv, LeaseInv, NEW s \in Subs, NEW m \in Ids, Ack(s, m) \/ Nack(s, m)
  PROVE  LeaseInv'
<1>0. CoreTypeOK /\ CopyTypeOK
  BY DEF TypeInv
<1>1. PICK d \in {"ack", "nack"} : Settle(s, m, d)
  BY DEF Ack, Nack
<1>2. /\ held[s][m] > 0 /\ held' = [held EXCEPT ![s][m] = @ - 1]
      /\ verdicts' = [verdicts EXCEPT ![s] = @ \cup {<<m, d>>}]
      /\ UNCHANGED <<tableVars, pollVars, buffer, flush, timeouts>>
  BY <1>1 DEF Settle, Ack, Nack, countVars
<1>p. UNCHANGED <<lock, poll, mark, picked, batch>>
  BY <1>2 DEF pollVars
<1>3. /\ verdicts'[s] = verdicts[s] \cup {<<m, d>>}
      /\ \A k \in Ids : held'[s][k] = IF k = m THEN held[s][m] - 1 ELSE held[s][k]
      /\ \A t \in Subs \ {s} : held'[t] = held[t] /\ verdicts'[t] = verdicts[t]
  BY <1>0, <1>2 DEF CopyTypeOK
<1>4. \A k \in Ids : InFlight(s, k)' => InFlight(s, k)
  BY <1>2, <1>p, <1>3 DEF InFlight
<1>5. ASSUME timeouts = 0 PROVE OneCopy(s)'
  <2>1. OneCopy(s)
    BY <1>5 DEF LeaseInv
  <2>2. CopyAt(s, m)
    BY <2>1 DEF OneCopy
  <2>3. held[s][m] = 1
    BY <1>2, <2>2 DEF CopyAt
  <2>4. held'[s][m] = 0
    BY <1>3, <2>3
  <2>5. /\ \A k : InFlush(s, k)' <=> InFlush(s, k)
        /\ \A k : k # m => (InVerdict(s, k)' <=> InVerdict(s, k))
        /\ \A k, e : k # m => (<<k, e>> \in verdicts'[s] <=> <<k, e>> \in verdicts[s])
    BY <1>2, <1>3 DEF InVerdict, InFlush
  <2>6. /\ m \notin Range(batch[s]) /\ m \notin Range(buffer[s])
        /\ ~InVerdict(s, m) /\ ~InFlush(s, m)
    BY <2>2, <2>3 DEF CopyAt
  <2>7. ~(<<m, "ack">> \in verdicts'[s] /\ <<m, "nack">> \in verdicts'[s])
    BY <1>3, <2>6 DEF InVerdict
  <2>8. \A k \in Ids : k # m => held'[s][k] = held[s][k]
    BY <1>3
  <2>9. batch' = batch /\ buffer' = buffer /\ flush' = flush
    BY <1>2, <1>p
  <2>. QED
    BY <2>1, <2>4, <2>5, <2>6, <2>7, <2>8, <2>9 DEF OneCopy, CopyAt
<1>. QED
  BY <1>2, <1>p, <1>3, <1>4, <1>5, PassOnRows DEF Polling

LEMMA DropLease ==
  ASSUME TypeInv, LeaseInv, NEW s \in Subs, DropStream(s) PROVE LeaseInv'
<1>0. CoreTypeOK /\ CopyTypeOK
  BY DEF TypeInv
<1>1. /\ verdicts' = [verdicts EXCEPT ![s] = @ \cup (Range(buffer[s]) \X {"nack"})]
      /\ buffer' = [buffer EXCEPT ![s] = <<>>]
      /\ UNCHANGED <<tableVars, pollVars, held, flush, timeouts>>
  BY DEF DropStream, countVars
<1>p. UNCHANGED <<lock, poll, mark, picked, batch>>
  BY <1>1 DEF pollVars
<1>2. /\ verdicts'[s] = verdicts[s] \cup (Range(buffer[s]) \X {"nack"})
      /\ buffer'[s] = <<>>
      /\ \A t \in Subs \ {s} : buffer'[t] = buffer[t] /\ verdicts'[t] = verdicts[t]
  BY <1>0, <1>1 DEF CopyTypeOK
<1>3. \A k : /\ <<k, "ack">> \in verdicts'[s] <=> <<k, "ack">> \in verdicts[s]
             /\ <<k, "nack">> \in verdicts'[s] <=>
                  <<k, "nack">> \in verdicts[s] \/ k \in Range(buffer[s])
  BY <1>2
<1>4. \A k \in Ids : InFlight(s, k)' => InFlight(s, k)
  BY <1>1, <1>p, <1>2, <1>3, EmptyFacts DEF InFlight
<1>5. ASSUME timeouts = 0 PROVE OneCopy(s)'
  <2>1. OneCopy(s)
    BY <1>5 DEF LeaseInv
  <2>. QED
    BY <1>1, <1>p, <1>2, <1>3, <2>1, EmptyFacts, EmptyDistinct
       DEF OneCopy, CopyAt, InVerdict, InFlush
<1>. QED
  BY <1>1, <1>p, <1>2, <1>4, <1>5, PassOnRows DEF Polling

LEMMA CrashLease ==
  ASSUME TypeInv, LeaseInv, NEW s \in Subs, Crash(s) PROVE LeaseInv'
<1>0. CoreTypeOK /\ CopyTypeOK /\ Locked /\ GroupOf \in [Subs -> Groups]
  BY PostgresAssumption DEF TypeInv, LeaseInv
<1>1. UNCHANGED <<seq, writing, messages, offset, row, mark, timeouts>>
  BY DEF Crash, tableVars, countVars
<1>2. /\ batch'[s] = <<>> /\ buffer'[s] = <<>> /\ held'[s] = [m \in Ids |-> 0]
      /\ verdicts'[s] = {} /\ flush'[s] = NoFlush /\ poll'[s] = "dead" /\ picked'[s] = {}
      /\ \A t \in Subs \ {s} :
           /\ batch'[t] = batch[t] /\ buffer'[t] = buffer[t] /\ held'[t] = held[t]
           /\ verdicts'[t] = verdicts[t] /\ flush'[t] = flush[t]
           /\ poll'[t] = poll[t] /\ picked'[t] = picked[t]
      /\ \A g \in Groups : lock'[g] = lock[g] \ {s}
  BY <1>0 DEF Crash, CoreTypeOK, PollTypeOK, CopyTypeOK
<1>3. OneCopy(s)' /\ \A m \in Ids : ~InFlight(s, m)'
  BY <1>2, EmptyFacts, EmptyDistinct DEF OneCopy, CopyAt, InFlight, InVerdict, InFlush, NoFlush
<1>4. Locked'
  BY <1>0, <1>2 DEF Locked, Polling
<1>5. \A t \in Subs : /\ Polling(t)' => Polling(t)
                      /\ picked'[t] \subseteq picked[t]
                      /\ poll'[t] = "upsert" => poll[t] = "upsert"
  BY <1>2 DEF Polling
<1>6. /\ \A t \in Subs, m \in Ids :
           timeouts = 0 /\ InFlight(t, m)' /\ row[GroupOf[t]][m] = "held"
             => row'[GroupOf[t]][m] = "held"
      /\ \A t \in Subs, m \in Ids :
           timeouts = 0 /\ row[GroupOf[t]][m] \in {"none", "expired"}
           /\ (\A u \in Subs : GroupOf[t] = GroupOf[u] => ~InFlight(u, m))
             => row'[GroupOf[t]][m] \in {"none", "expired"}
  BY <1>1
<1>7. \A m \in Ids : InFlight(s, m)' => InFlight(s, m)
  BY <1>3
<1>. QED
  BY <1>1, <1>2, <1>3, <1>4, <1>5, <1>6, <1>7, PassOn

\* A step of s that ends leases of copies it no longer has.
LEMMA PassOnEnd ==
  ASSUME TypeInv, LeaseInv, NEW s \in Subs, NEW M, Locked',
         UNCHANGED <<seq, writing, messages, offset, mark, timeouts>>,
         \A t \in Subs : /\ Polling(t)' => Polling(t)
                         /\ picked'[t] \subseteq picked[t]
                         /\ poll'[t] = "upsert" => poll[t] = "upsert",
         \A t \in Subs \ {s} :
           /\ batch'[t] = batch[t] /\ buffer'[t] = buffer[t] /\ held'[t] = held[t]
           /\ verdicts'[t] = verdicts[t] /\ flush'[t] = flush[t],
         \A m \in Ids : InFlight(s, m)' => InFlight(s, m),
         timeouts = 0 => OneCopy(s)',
         \A g \in Groups, m \in Ids :
           row'[g][m] = row[g][m] \/ (g = GroupOf[s] /\ m \in M),
         \A m \in M : InFlight(s, m) /\ (timeouts = 0 => ~InFlight(s, m)')
  PROVE  LeaseInv'
<1>1. GroupOf \in [Subs -> Groups]
  BY PostgresAssumption
<1>2. ASSUME timeouts = 0, NEW t \in Subs, NEW m \in Ids, InFlight(t, m)',
             row[GroupOf[t]][m] = "held"
      PROVE  row'[GroupOf[t]][m] = "held"
  <2>1. SUFFICES ASSUME GroupOf[t] = GroupOf[s], m \in M PROVE FALSE
    BY <1>1, <1>2
  <2>2. InFlight(t, m) /\ InFlight(s, m)
    BY <1>2, <2>1, CopyFrame
  <2>3. s = t
    BY <1>2, <2>1, <2>2 DEF LeaseInv, Leases
  <2>. QED
    BY <1>2, <2>1, <2>3
<1>3. ASSUME NEW t \in Subs, NEW m \in Ids, row[GroupOf[t]][m] \in {"none", "expired"},
             \A u \in Subs : GroupOf[t] = GroupOf[u] => ~InFlight(u, m)
      PROVE  row'[GroupOf[t]][m] \in {"none", "expired"}
  <2>1. ~(GroupOf[t] = GroupOf[s] /\ m \in M)
    BY <1>3
  <2>. QED
    BY <1>1, <1>3, <2>1
<1>. QED
  BY <1>2, <1>3, PassOn

\* The poll finds the stream closed: it gives up the lease of one copy and forgets
\* the others.
LEMMA SendClosedLease ==
  ASSUME TypeInv, LeaseInv, NEW s \in Subs, SendClosed(s) PROVE LeaseInv'
<1>0. CoreTypeOK /\ CopyTypeOK /\ Locked /\ GroupOf \in [Subs -> Groups]
  BY PostgresAssumption DEF TypeInv, LeaseInv
<1>1. /\ poll[s] = "send" /\ poll' = [poll EXCEPT ![s] = "idle"]
      /\ batch' = [batch EXCEPT ![s] = <<>>]
      /\ UNCHANGED <<seq, writing, messages, offset, lock, mark, picked, timeouts>>
      /\ UNCHANGED <<buffer, held, verdicts, flush>>
  BY DEF SendClosed, leaseVars
<1>2. /\ poll'[s] = "idle" /\ batch'[s] = <<>>
      /\ \A t \in Subs \ {s} : poll'[t] = poll[t] /\ batch'[t] = batch[t]
  BY <1>0, <1>1 DEF CoreTypeOK, PollTypeOK, CopyTypeOK
<1>3. PICK m \in Ids : m = Head(batch[s]) /\ m \in Range(batch[s]) /\ InFlight(s, m)
  <2>1. batch[s] \in Seq(Ids) /\ batch[s] # <<>>
    BY <1>0, <1>1 DEF TypeInv, CopyTypeOK, ClaimSize
  <2>2. Head(batch[s]) \in Ids /\ Head(batch[s]) \in Range(batch[s])
    BY <2>1, TailFacts
  <2>. QED
    BY <2>2 DEF InFlight
<1>M. PICK M : M = {m}
  OBVIOUS
<1>4. \A g \in Groups, k \in Ids :
        row'[g][k] = row[g][k] \/ (g = GroupOf[s] /\ k \in M)
  BY <1>0, <1>M, <1>3 DEF SendClosed, ExpireRows, CoreTypeOK, TableTypeOK
<1>5. \A k \in Ids : InFlight(s, k)' => InFlight(s, k)
  BY <1>1, <1>2, EmptyFacts DEF InFlight
<1>6. ASSUME timeouts = 0 PROVE OneCopy(s)' /\ ~InFlight(s, m)'
  <2>1. OneCopy(s)
    BY <1>6 DEF LeaseInv
  <2>2. OneCopy(s)'
    BY <1>1, <1>2, <2>1, EmptyFacts, EmptyDistinct
       DEF OneCopy, CopyAt, InVerdict, InFlush
  <2>3. m \notin Range(buffer[s]) /\ held[s][m] = 0 /\ ~InVerdict(s, m) /\ ~InFlush(s, m)
    BY <1>3, <2>1 DEF OneCopy, CopyAt
  <2>4. ~InFlight(s, m)'
    BY <1>1, <1>2, <2>3, EmptyFacts DEF InFlight, InVerdict, InFlush
  <2>. QED
    BY <2>2, <2>4
<1>7. \A t \in Subs : /\ Polling(t)' => Polling(t)
                      /\ picked'[t] \subseteq picked[t]
                      /\ poll'[t] = "upsert" => poll[t] = "upsert"
  BY <1>1, <1>2 DEF Polling
<1>8. Locked'
  BY <1>0, <1>1, <1>7 DEF Locked
<1>9. \A k \in M : InFlight(s, k) /\ (timeouts = 0 => ~InFlight(s, k)')
  BY <1>M, <1>3, <1>6
<1>10. /\ timeouts = 0 => OneCopy(s)'
       /\ \A t \in Subs \ {s} :
            /\ batch'[t] = batch[t] /\ buffer'[t] = buffer[t] /\ held'[t] = held[t]
            /\ verdicts'[t] = verdicts[t] /\ flush'[t] = flush[t]
  BY <1>1, <1>2, <1>6
<1>. QED
  BY <1>1, <1>4, <1>5, <1>7, <1>8, <1>9, <1>10, PassOnEnd

LEMMA TakeVerdictsLease ==
  ASSUME TypeInv, LeaseInv, NEW s \in Subs, FlushTake(s) PROVE LeaseInv'
<1>0. CopyTypeOK /\ CoreTypeOK
  BY DEF TypeInv
<1>1. PICK V \in SUBSET verdicts[s] :
        /\ flush' = [flush EXCEPT ![s] =
                      [step  |-> "acks",
                       acks  |-> {m \in Ids : <<m, "ack">> \in V},
                       nacks |-> {m \in Ids : <<m, "nack">> \in V}]]
        /\ verdicts' = [verdicts EXCEPT ![s] = @ \ V]
  BY DEF FlushTake
<1>2. UNCHANGED <<tableVars, lock, poll, mark, picked, batch, buffer, held, timeouts>>
  BY DEF FlushTake, pollVars, countVars
<1>3. /\ flush'[s].acks = {m \in Ids : <<m, "ack">> \in V}
      /\ flush'[s].nacks = {m \in Ids : <<m, "nack">> \in V}
      /\ verdicts'[s] = verdicts[s] \ V
      /\ \A t \in Subs \ {s} : flush'[t] = flush[t] /\ verdicts'[t] = verdicts[t]
  BY <1>0, <1>1 DEF CoreTypeOK, PollTypeOK, CopyTypeOK
<1>4. \A k \in Ids : InFlight(s, k)' => InFlight(s, k)
  BY <1>2, <1>3 DEF InFlight
<1>5. ASSUME timeouts = 0 PROVE OneCopy(s)'
  <2>1. OneCopy(s)
    BY <1>5 DEF LeaseInv
  <2>2. \A k \in Ids : /\ InVerdict(s, k)' => InVerdict(s, k)
                       /\ InFlush(s, k)' => InVerdict(s, k)
                       /\ InVerdict(s, k)' => ~InFlush(s, k)'
    BY <1>3, <2>1 DEF InVerdict, InFlush, OneCopy, CopyAt
  <2>3. \A k \in Ids : /\ ~(<<k, "ack">> \in verdicts'[s] /\ <<k, "nack">> \in verdicts'[s])
                       /\ ~(k \in flush'[s].acks /\ k \in flush'[s].nacks)
    BY <1>3, <2>1 DEF OneCopy, CopyAt
  <2>. QED
    BY <1>2, <2>1, <2>2, <2>3 DEF OneCopy, CopyAt
<1>6. \A t \in Subs : /\ Polling(t)' => Polling(t)
                      /\ picked'[t] \subseteq picked[t]
                      /\ poll'[t] = "upsert" => poll[t] = "upsert"
  BY <1>2 DEF Polling
<1>. QED
  BY <1>2, <1>3, <1>4, <1>5, <1>6, PassOnRows

\* An UPDATE of the flusher settles the ids M it has in hand.
LEMMA UpdateLease ==
  ASSUME TypeInv, LeaseInv, NEW s \in Subs, FlushAcks(s) \/ FlushNacks(s) PROVE LeaseInv'
<1> DEFINE g == GroupOf[s]
<1>M. PICK M : M = IF flush[s].step = "acks" THEN flush[s].acks ELSE flush[s].nacks
  OBVIOUS
<1>0. /\ CoreTypeOK /\ Locked /\ g \in Groups
      /\ flush[s].acks \subseteq Ids /\ flush[s].nacks \subseteq Ids
  BY PostgresAssumption DEF TypeInv, LeaseInv, CoreTypeOK, PollTypeOK
<1>1. /\ UNCHANGED <<seq, writing, messages, offset, lock, poll, mark, picked, timeouts>>
      /\ UNCHANGED <<batch, buffer, held, verdicts>>
      /\ \A t \in Subs \ {s} : flush'[t] = flush[t]
      /\ flush'[s].acks = {}
      /\ flush'[s].nacks = (IF flush[s].step = "acks" THEN flush[s].nacks ELSE {})
  <2>1. CASE FlushAcks(s)
    BY <1>0, <2>1 DEF FlushAcks, pollVars, CoreTypeOK, PollTypeOK
  <2>2. CASE FlushNacks(s)
    BY <1>0, <2>2 DEF FlushNacks, NoFlush, pollVars, CoreTypeOK, PollTypeOK
  <2>. QED
    BY <2>1, <2>2
<1>2. \A h \in Groups, k \in Ids : row'[h][k] = row[h][k] \/ (h = g /\ k \in M)
  <2>1. CASE FlushAcks(s)
    BY <1>0, <1>M, <2>1 DEF FlushAcks, AckRows, CoreTypeOK, TableTypeOK
  <2>2. CASE FlushNacks(s)
    BY <1>0, <1>M, <2>2 DEF FlushNacks, ExpireRows, CoreTypeOK, TableTypeOK
  <2>. QED
    BY <2>1, <2>2
<1>3. \A k \in Ids : InFlight(s, k)' => InFlight(s, k)
  BY <1>1 DEF InFlight
<1>4. \A k \in M : k \in Ids /\ InFlight(s, k) /\ InFlush(s, k)
  BY <1>0, <1>M DEF InFlight, InFlush
<1>5. ASSUME timeouts = 0 PROVE OneCopy(s)' /\ \A k \in M : ~InFlight(s, k)'
  <2>1. OneCopy(s)
    BY <1>5 DEF LeaseInv
  <2>2. \A k : InFlush(s, k)' => InFlush(s, k)
    BY <1>1 DEF InFlush
  <2>3. \A k : ~(k \in flush'[s].acks /\ k \in flush'[s].nacks)
    BY <1>1
  <2>4. OneCopy(s)'
    BY <1>1, <2>1, <2>2, <2>3 DEF OneCopy, CopyAt, InVerdict
  <2>5. ASSUME NEW k \in M PROVE ~InFlight(s, k)'
    <3>1. CopyAt(s, k) /\ InFlush(s, k)
      BY <1>4, <2>1 DEF OneCopy
    <3>2. /\ k \notin Range(batch[s]) /\ k \notin Range(buffer[s]) /\ held[s][k] = 0
          /\ ~InVerdict(s, k) /\ ~(k \in flush[s].acks /\ k \in flush[s].nacks)
      BY <3>1 DEF CopyAt
    <3>. QED
      BY <1>M, <1>1, <3>2 DEF InFlight, InVerdict
  <2>. QED
    BY <2>4, <2>5
<1>6. \A t \in Subs : /\ Polling(t)' => Polling(t)
                      /\ picked'[t] \subseteq picked[t]
                      /\ poll'[t] = "upsert" => poll[t] = "upsert"
  BY <1>1 DEF Polling
<1>7. Locked'
  BY <1>0, <1>1, <1>6 DEF Locked
<1>8. \A k \in M : InFlight(s, k) /\ (timeouts = 0 => ~InFlight(s, k)')
  BY <1>4, <1>5
<1>. QED
  BY <1>1, <1>2, <1>3, <1>5, <1>6, <1>7, <1>8, PassOnEnd

\* A lease that runs out with a copy in flight ends what is promised; without
\* one it is of concern to nobody.
LEMMA ExpiryLease ==
  ASSUME TypeInv, LeaseInv, NEW g \in Groups, NEW m \in Ids, LeaseExpires(g, m)
  PROVE  LeaseInv'
<1>0. /\ timeouts \in Nat /\ GroupOf \in [Subs -> Groups]
      /\ UNCHANGED <<seq, writing, messages, offset, lock, poll, mark, picked>>
      /\ UNCHANGED <<batch, buffer, held, verdicts, flush>>
  BY IdsFacts, PostgresAssumption DEF TypeInv, CopyTypeOK, LeaseExpires, pollVars, leaseVars
<1>1. /\ \A s \in Subs, k \in Ids : InFlight(s, k)' <=> InFlight(s, k)
      /\ \A s \in Subs : OneCopy(s)' <=> OneCopy(s)
  BY <1>0, CopiesSame
<1>2. Fresh' /\ Locked'
  BY <1>0, <1>1 DEF LeaseInv, Fresh, Locked, Polling
<1>3. CASE \E s \in Members(g) : InFlight(s, m)
  <2>1. timeouts' # 0
    BY <1>0, <1>3 DEF LeaseExpires
  <2>. QED
    BY <1>2, <2>1 DEF LeaseInv
<1>4. CASE ~\E s \in Members(g) : InFlight(s, m)
  <2>1. timeouts' = timeouts
    BY <1>4 DEF LeaseExpires
  <2>2. \A h \in Groups, k \in Ids :
          /\ row[h][k] = "held" => row'[h][k] = "held" \/ (h = g /\ k = m)
          /\ row[h][k] \in {"none", "expired"} => row'[h][k] = row[h][k]
    BY DEF LeaseExpires, ExpireRows, TypeInv, CoreTypeOK, TableTypeOK
  <2>3. \A t \in Subs : GroupOf[t] \in Groups /\ (GroupOf[t] = g => ~InFlight(t, m))
    BY <1>0, <1>4 DEF Members
  <2>4. Leases => Leases'
    BY <1>0, <1>1, <2>2, <2>3 DEF Leases, Polling
  <2>5. Picks => Picks'
    <3>1. \A t \in Subs : picked[t] \subseteq Ids
      BY DEF TypeInv, CoreTypeOK, PollTypeOK
    <3>. QED
      BY <1>0, <1>1, <2>2, <2>3, <3>1 DEF Picks
  <2>. QED
    BY <1>1, <1>2, <2>1, <2>4, <2>5 DEF LeaseInv
<1>. QED
  BY <1>3, <1>4

LEMMA StutterLease == ASSUME TypeInv, LeaseInv, UNCHANGED vars PROVE LeaseInv'
<1>1. UNCHANGED <<tableVars, lock, poll, mark, picked, batch, buffer, held, verdicts, flush,
                  timeouts>>
  BY DEF vars, pollVars, leaseVars, countVars
<1>2. Locked' /\ \A s \in Subs : Polling(s)' <=> Polling(s)
  BY <1>1 DEF LeaseInv, Locked, Polling
<1>. QED
  BY <1>1, <1>2, QuietLease DEF tableVars

LEMMA LeaseStep == ASSUME TypeInv, LeaseInv, [Next]_vars PROVE LeaseInv'
<1>1. ASSUME NEW s \in Subs, Poll(s) PROVE LeaseInv'
  BY <1>1, PollQuietLease, LockLease, ScanLease, PickLease, CommitLease, SendLease,
     SendClosedLease DEF Poll
<1>2. ASSUME NEW s \in Subs, Consume(s) PROVE LeaseInv'
  BY <1>2, TakeLease, SettleLease, DropLease DEF Consume
<1>3. ASSUME NEW s \in Subs, Flush(s) PROVE LeaseInv'
  BY <1>3, TakeVerdictsLease, UpdateLease DEF Flush
<1>. QED
  BY <1>1, <1>2, <1>3, PublishLease, PurgeLease, CrashLease, ExpiryLease, StutterLease DEF Next

\* Until a visibility timeout runs out under a consumer, no two subscriptions of a
\* group have the same message and what is in flight is leased, although the claim
\* reads and writes at different moments, polls fail and crash, and the watermark
\* and the flusher's updates move meanwhile.
THEOREM LeaseIsExclusive == Spec => []ExclusiveLease
<1>1. Init => TypeInv /\ LeaseInv
  BY TypeInit, LeaseInit
<1>2. TypeInv /\ LeaseInv /\ [Next]_vars => TypeInv' /\ LeaseInv'
  BY TypeStep, LeaseStep
<1>3. LeaseInv => ExclusiveLease
  BY DEF LeaseInv, Leases, ExclusiveLease
<1>. QED
  BY <1>1, <1>2, <1>3, PTL DEF Spec
=============================================================================
