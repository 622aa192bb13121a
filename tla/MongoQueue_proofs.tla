------------------------ MODULE MongoQueue_proofs ------------------------
(***************************************************************************)
(* What the MongoDB queue keeps for any number of groups, subscribers,     *)
(* messages, faults and crashes: its types, the cursors that never pass    *)
(* what is not acked, and the leases that are exclusive until one runs     *)
(* out.                                                                    *)
(***************************************************************************)
EXTENDS MongoQueue, SequenceTheorems, TLAPS

-----------------------------------------------------------------------------
(* What Append adds to a queue, and Head and Tail take apart, and what     *)
(* stays without repetitions.                                              *)

LEMMA AppendFacts ==
  ASSUME NEW S, NEW q \in Seq(S), NEW e \in S
  PROVE  /\ Append(q, e) \in Seq(S) /\ Len(Append(q, e)) = Len(q) + 1
         /\ Range(Append(q, e)) = Range(q) \cup {e}
BY AppendProperties, LenProperties DEF Range

LEMMA TailFacts ==
  ASSUME NEW S, NEW q \in Seq(S), q # <<>>
  PROVE  /\ Head(q) \in S /\ Tail(q) \in Seq(S) /\ Len(Tail(q)) = Len(q) - 1
         /\ Range(q) = {Head(q)} \cup Range(Tail(q))
<1>1. \A i \in DOMAIN q : i = 1 \/ (i - 1 \in DOMAIN Tail(q) /\ Tail(q)[i - 1] = q[i])
  OBVIOUS
<1>2. /\ 1 \in DOMAIN q /\ Head(q) = q[1]
      /\ \A i \in DOMAIN Tail(q) : i + 1 \in DOMAIN q /\ Tail(q)[i] = q[i + 1]
  OBVIOUS
<1>. QED
  BY <1>1, <1>2, HeadTailProperties DEF Range

LEMMA EmptyFacts == Range(<<>>) = {} /\ Len(<<>>) = 0 /\ \A S : <<>> \in Seq(S)
BY DEF Range

Distinct(q) == \A i, j \in DOMAIN q : q[i] = q[j] => i = j

LEMMA AppendDistinct ==
  ASSUME NEW S, NEW q \in Seq(S), NEW e \in S, Distinct(q), e \notin Range(q)
  PROVE  Distinct(Append(q, e))
BY DEF Distinct, Range

LEMMA TailDistinct ==
  ASSUME NEW S, NEW q \in Seq(S), q # <<>>, Distinct(q)
  PROVE  Distinct(Tail(q)) /\ Head(q) \notin Range(Tail(q))
BY DEF Distinct, Range

LEMMA EmptyDistinct == Distinct(<<>>)
BY DEF Distinct

-----------------------------------------------------------------------------
(* Types.                                                                  *)

LEMMA TypeInit == ASSUME Init PROVE TypeOK
<1>1. DbTypeOK /\ PollTypeOK
  BY MongoAssumption DEF Init, DbTypeOK, PollTypeOK, Ids
<1>2. LeaseTypeOK
  BY MongoAssumption, EmptyFacts DEF Init, LeaseTypeOK, NoFlush
<1>. QED
  BY <1>1, <1>2 DEF TypeOK

LEMMA ExpireType ==
  ASSUME DbTypeOK, NEW g, NEW M, Expire(g, M)
  PROVE  entry' \in [Groups -> [Ids -> {"none", "held", "expired", "acked"}]]
BY DEF Expire, DbTypeOK

\* The database.
LEMMA DbStep == ASSUME TypeOK, Next PROVE DbTypeOK'
<1> USE DEF DbTypeOK
<1>0. DbTypeOK /\ PollTypeOK /\ Ids = 1..MaxId /\ MaxId \in Nat
  BY MongoAssumption DEF TypeOK, Ids
<1>1. CASE UNCHANGED <<pubVars, dbVars>>
  BY <1>0, <1>1 DEF pubVars, dbVars
<1>2. ASSUME NEW p \in Pubs, InsertMany(p) \/ Inserted(p) PROVE DbTypeOK'
  <2>1. ASSUME InsertMany(p) PROVE DbTypeOK'
    <3>1. PICK n \in 1..(MaxId - next) :
            /\ inserting' = [inserting EXCEPT ![p] = (next + 1)..(next + n)]
            /\ next' = next + n /\ UNCHANGED dbVars
      BY <2>1 DEF InsertMany
    <3>2. next + n \in 0..MaxId /\ (next + 1)..(next + n) \subseteq Ids
      BY <1>0, <3>1
    <3>. QED
      BY <1>0, <3>1, <3>2 DEF dbVars
  <2>2. ASSUME Inserted(p) PROVE DbTypeOK'
    <3>1. PICK I \in SUBSET Ids : inserting' = [inserting EXCEPT ![p] = I]
      BY <1>0, <2>2 DEF Inserted
    <3>2. messages' \subseteq Ids
      BY <1>0, <2>2 DEF Inserted
    <3>3. UNCHANGED <<next, cursor, entry, done, floor>>
      BY <2>2 DEF Inserted
    <3>. QED
      BY <1>0, <3>1, <3>2, <3>3
  <2>. QED
    BY <1>2, <2>1, <2>2
<1>3. ASSUME NEW s \in Subs, PollSave(s) PROVE DbTypeOK'
  BY <1>0, <1>3 DEF PollSave, PollTypeOK, pubVars
<1>4. ASSUME NEW s \in Subs, PollClaim(s) PROVE DbTypeOK'
  <2>1. PICK m \in messages : entry' = [entry EXCEPT ![GroupOf[s]][m] = "held"]
    BY <1>4 DEF PollClaim, Claimable
  <2>. QED
    BY <1>0, <1>4, <2>1 DEF PollClaim, pubVars
<1>5. ASSUME NEW s \in Subs, SendClosed(s) PROVE DbTypeOK'
  BY <1>0, <1>5, ExpireType DEF SendClosed, pubVars
<1>6. ASSUME NEW s \in Subs, FlushAcks(s) PROVE DbTypeOK'
  <2>1. /\ UNCHANGED <<next, inserting, messages, cursor, floor>>
        /\ \/ UNCHANGED <<entry, done>>
           \/ \E M \in SUBSET messages :
                /\ entry' = [entry EXCEPT ![GroupOf[s]] =
                              [m \in Ids |-> IF m \in M THEN "acked" ELSE @[m]]]
                /\ done' = [done EXCEPT ![GroupOf[s]] = @ \cup M]
    BY <1>6 DEF FlushAcks, pubVars
  <2>2. CASE UNCHANGED <<entry, done>>
    BY <1>0, <2>1, <2>2
  <2>3. ASSUME NEW M \in SUBSET messages,
               entry' = [entry EXCEPT ![GroupOf[s]] =
                          [m \in Ids |-> IF m \in M THEN "acked" ELSE @[m]]],
               done' = [done EXCEPT ![GroupOf[s]] = @ \cup M]
        PROVE DbTypeOK'
    <3>1. entry' \in [Groups -> [Ids -> {"none", "held", "expired", "acked"}]]
      BY <1>0, <2>3
    <3>2. done' \in [Groups -> SUBSET Ids]
      BY <1>0, <2>3
    <3>. QED
      BY <1>0, <2>1, <3>1, <3>2
  <2>. QED
    BY <2>1, <2>2, <2>3
<1>7. ASSUME NEW s \in Subs, FlushNacks(s) PROVE DbTypeOK'
  BY <1>0, <1>7, ExpireType DEF FlushNacks, pubVars
<1>8. ASSUME NEW g \in Groups, NEW m \in Ids, LeaseExpires(g, m) PROVE DbTypeOK'
  BY <1>0, <1>8, ExpireType DEF LeaseExpires, pubVars
<1>9. CASE PurgeFloor \/ PurgeDelete
  <2>1. CASE PurgeFloor
    <3>1. PICK g \in Groups : floor' = cursor[g]
      BY <2>1 DEF PurgeFloor
    <3>2. floor' \in 0..MaxId /\ UNCHANGED <<next, inserting, messages, cursor, entry, done>>
      BY <1>0, <2>1, <3>1 DEF PurgeFloor, pubVars
    <3>. QED
      BY <1>0, <3>2
  <2>2. CASE PurgeDelete
    BY <1>0, <2>2 DEF PurgeDelete, pubVars
  <2>. QED
    BY <1>9, <2>1, <2>2
<1>10. ASSUME NEW s \in Subs,
              \/ Subscribe(s) \/ PollTop(s) \/ PollRead(s) \/ PollScan(s)
              \/ PollErr(s) \/ PollEnd(s) \/ Send(s) \/ Take(s) \/ DropStream(s)
              \/ FlushTake(s) \/ Crash(s) \/ \E m \in Ids : Settle(s, m)
       PROVE  UNCHANGED <<pubVars, dbVars>>
  BY <1>10 DEF Subscribe, PollTop, PollRead, PollScan, PollErr, PollEnd, Send, Take,
               DropStream, FlushTake, Crash, Settle
<1>. QED
  BY <1>1, <1>2, <1>3, <1>4, <1>5, <1>6, <1>7, <1>8, <1>9, <1>10
     DEF Next, Poll, Flush

\* The pollers.
LEMMA PollTypeStep == ASSUME TypeOK, Next PROVE PollTypeOK'
<1> USE DEF PollTypeOK
<1>0. /\ PollTypeOK /\ 0 \in 0..MaxId /\ 0 \in 0..BatchSize /\ BatchSize \in 0..BatchSize
      /\ messages \subseteq Ids /\ Ids \subseteq 0..MaxId
      /\ \A s \in Subs : cursor[GroupOf[s]] \in 0..MaxId
  BY MongoAssumption DEF TypeOK, DbTypeOK, Ids
<1>1. CASE UNCHANGED pollVars
  BY <1>0, <1>1 DEF pollVars
<1>2. ASSUME NEW s \in Subs, Subscribe(s) \/ PollTop(s) \/ PollRead(s) \/ Send(s)
      PROVE PollTypeOK'
  BY <1>0, <1>2 DEF Subscribe, PollTop, PollRead, Send
<1>3. ASSUME NEW s \in Subs, NEW c \in 0..MaxId, StartClaims(s, c), UNCHANGED claimed
      PROVE PollTypeOK'
  BY <1>0, <1>3 DEF StartClaims
<1>4. ASSUME NEW s \in Subs, PollScan(s) \/ PollSave(s) \/ PollErr(s) PROVE PollTypeOK'
  <2>1. CASE PollScan(s)
    <3>1. AckedPrefix(GroupOf[s], mark[s]) \subseteq messages /\ mark[s] \in 0..MaxId
      BY <1>0 DEF AckedPrefix
    <3>2. CASE AckedPrefix(GroupOf[s], mark[s]) = {}
      BY <1>3, <2>1, <3>1, <3>2 DEF PollScan
    <3>3. CASE AckedPrefix(GroupOf[s], mark[s]) # {}
      <4>1. PICK m \in messages : mark' = [mark EXCEPT ![s] = m]
        BY <2>1, <3>1, <3>3 DEF PollScan
      <4>2. UNCHANGED <<claims, claimed>> /\ poll' = [poll EXCEPT ![s] = "save"]
        BY <2>1, <3>3 DEF PollScan
      <4>3. m \in 0..MaxId
        BY <1>0
      <4>. QED
        BY <1>0, <4>1, <4>2, <4>3
    <3>. QED
      BY <3>2, <3>3
  <2>2. CASE PollSave(s) \/ PollErr(s)
    BY <1>0, <1>3, <2>2 DEF PollSave, PollErr
  <2>. QED
    BY <1>4, <2>1, <2>2
<1>5. ASSUME NEW s \in Subs, NEW state \in {"top", "gone", "dead"}, EndRound(s, state),
             claimed' \in [Subs -> SUBSET Ids]
      PROVE PollTypeOK'
  BY <1>0, <1>5 DEF EndRound
<1>6. ASSUME NEW s \in Subs, PollEnd(s) \/ SendClosed(s) \/ Crash(s) PROVE PollTypeOK'
  BY <1>0, <1>5, <1>6 DEF PollEnd, SendClosed, Crash
<1>7. ASSUME NEW s \in Subs, PollClaim(s) PROVE PollTypeOK'
  <2>1. CASE EndRound(s, "top") /\ UNCHANGED claimed
    BY <1>0, <1>5, <2>1
  <2>2. ASSUME NEW m \in messages, claims[s] > 0,
               claimed' = [claimed EXCEPT ![s] = {m}],
               claims' = [claims EXCEPT ![s] = @ - 1],
               poll' = [poll EXCEPT ![s] = "send"], mark' = mark
        PROVE PollTypeOK'
    <3>1. claims[s] - 1 \in 0..BatchSize
      BY <1>0, <2>2, MongoAssumption
    <3>. QED
      BY <1>0, <2>2, <3>1
  <2>. QED
    BY <1>7, <2>1, <2>2 DEF PollClaim, Claimable
<1>8. ASSUME NEW s \in Subs, Take(s) \/ DropStream(s) \/ Flush(s) \/ \E m \in Ids : Settle(s, m)
      PROVE  UNCHANGED pollVars
  BY <1>8 DEF Take, DropStream, Flush, FlushTake, FlushAcks, FlushNacks, Settle
<1>9. CASE \/ \E p \in Pubs : InsertMany(p) \/ Inserted(p)
           \/ \E g \in Groups, m \in Ids : LeaseExpires(g, m)
           \/ PurgeFloor \/ PurgeDelete
  BY <1>1, <1>9 DEF InsertMany, Inserted, LeaseExpires, PurgeFloor, PurgeDelete
<1>. QED
  BY <1>1, <1>2, <1>4, <1>6, <1>7, <1>8, <1>9 DEF Next, Poll

\* The streams, consumers and flushers.
LEMMA FaultType ==
  ASSUME faults \in Nat, Fault \/ UNCHANGED faults PROVE faults' \in Nat
BY DEF Fault

LEMMA LeaseTypeStep == ASSUME TypeOK, Next PROVE LeaseTypeOK'
<1>0. LeaseTypeOK /\ faults \in Nat /\ timeouts \in Nat
  BY DEF TypeOK, LeaseTypeOK
<1>1. ASSUME UNCHANGED <<leaseVars, timeouts>>, Fault \/ UNCHANGED faults PROVE LeaseTypeOK'
  BY <1>0, <1>1, FaultType DEF LeaseTypeOK, leaseVars
<1>2. ASSUME NEW s \in Subs, Subscribe(s) \/ PollTop(s) \/ PollRead(s) \/ PollScan(s)
               \/ PollSave(s) \/ PollErr(s) \/ PollClaim(s) \/ PollEnd(s) \/ SendClosed(s)
      PROVE  LeaseTypeOK'
  BY <1>1, <1>2 DEF Subscribe, PollTop, PollRead, PollScan, PollSave, PollErr, PollClaim,
       PollEnd, SendClosed, faultVars
<1>3. CASE \/ \E p \in Pubs : InsertMany(p) \/ Inserted(p)
           \/ PurgeFloor \/ PurgeDelete
  BY <1>1, <1>3 DEF InsertMany, Inserted, PurgeFloor, PurgeDelete, faultVars
<1>4. ASSUME NEW g \in Groups, NEW m \in Ids, LeaseExpires(g, m) PROVE LeaseTypeOK'
  <2>1. timeouts' \in Nat /\ faults' \in Nat /\ UNCHANGED leaseVars
    BY <1>0, <1>4, FaultType DEF LeaseExpires, faultVars
  <2>. QED
    BY <1>0, <2>1 DEF LeaseTypeOK, leaseVars
<1>5. ASSUME NEW s \in Subs, Send(s) PROVE LeaseTypeOK'
  <2>1. PICK m \in claimed[s] : buffer' = [buffer EXCEPT ![s] = Append(@, m)]
    BY <1>5 DEF Send
  <2>2. m \in Ids /\ buffer[s] \in Seq(Ids) /\ Len(buffer[s]) \in Nat /\ Len(buffer[s]) < BufferSize
    BY <1>0, <1>5 DEF TypeOK, PollTypeOK, LeaseTypeOK, Send, HasRoom
  <2>3. Append(buffer[s], m) \in Seq(Ids) /\ Len(Append(buffer[s], m)) <= BufferSize
    BY <2>2, AppendFacts, MongoAssumption
  <2>4. UNCHANGED <<held, verdicts, flush, dropped, timeouts, faults>>
    BY <1>5 DEF Send, faultVars
  <2>. QED
    BY <1>0, <2>1, <2>3, <2>4 DEF LeaseTypeOK
<1>6. ASSUME NEW s \in Subs, Take(s) PROVE LeaseTypeOK'
  <2>1. buffer[s] \in Seq(Ids) /\ buffer[s] # <<>> /\ Len(buffer[s]) <= BufferSize
    BY <1>0, <1>6 DEF LeaseTypeOK, Take
  <2>2. /\ Head(buffer[s]) \in Ids /\ Tail(buffer[s]) \in Seq(Ids)
        /\ Len(Tail(buffer[s])) <= BufferSize
    BY <2>1, TailFacts, MongoAssumption
  <2>3. /\ held' = [held EXCEPT ![s][Head(buffer[s])] = @ + 1]
        /\ buffer' = [buffer EXCEPT ![s] = Tail(@)]
        /\ UNCHANGED <<verdicts, flush, dropped, timeouts, faults>>
    BY <1>6 DEF Take, faultVars
  <2>. QED
    BY <1>0, <2>2, <2>3 DEF LeaseTypeOK
<1>7. ASSUME NEW s \in Subs, NEW m \in Ids, Settle(s, m) PROVE LeaseTypeOK'
  <2>1. /\ held' = [held EXCEPT ![s][m] = @ - 1] /\ held[s][m] > 0
        /\ \E d \in {"ack", "nack"} :
             verdicts' = [verdicts EXCEPT ![s] = @ \cup {<<m, d>>}]
        /\ UNCHANGED <<buffer, flush, dropped, timeouts>>
        /\ faults' \in Nat
    BY <1>0, <1>7, FaultType DEF Settle
  <2>2. held[s][m] \in Nat /\ held[s][m] - 1 \in Nat
    BY <1>0, <2>1 DEF LeaseTypeOK
  <2>. QED
    BY <1>0, <2>1, <2>2 DEF LeaseTypeOK
<1>8. ASSUME NEW s \in Subs, DropStream(s) PROVE LeaseTypeOK'
  <2>1. /\ dropped' = dropped \cup {s}
        /\ verdicts' = [verdicts EXCEPT ![s] = @ \cup (Range(buffer[s]) \X {"nack"})]
        /\ buffer' = [buffer EXCEPT ![s] = <<>>]
        /\ UNCHANGED <<held, flush, timeouts>> /\ faults' \in Nat
    BY <1>0, <1>8, FaultType DEF DropStream
  <2>2. Range(buffer[s]) \subseteq Ids
    BY <1>0 DEF LeaseTypeOK, Range
  <2>. QED
    BY <1>0, <2>1, <2>2, EmptyFacts, MongoAssumption DEF LeaseTypeOK
<1>9. ASSUME NEW s \in Subs, Flush(s) PROVE LeaseTypeOK'
  <2>1. /\ flush' \in [Subs -> [step : {"idle", "acks", "nacks"},
                                acks : SUBSET Ids, nacks : SUBSET Ids]]
        /\ verdicts' \in [Subs -> SUBSET (Ids \X {"ack", "nack"})]
    <3>1. CASE FlushTake(s)
      <4>1. PICK V \in SUBSET verdicts[s] :
              /\ flush' = [flush EXCEPT ![s] =
                            [step  |-> "acks",
                             acks  |-> {m \in Ids : <<m, "ack">> \in V},
                             nacks |-> {m \in Ids : <<m, "nack">> \in V}]]
              /\ verdicts' = [verdicts EXCEPT ![s] = @ \ V]
        BY <3>1 DEF FlushTake
      <4>. QED
        BY <1>0, <4>1 DEF LeaseTypeOK
    <3>2. CASE FlushAcks(s)
      <4>1. flush' = [flush EXCEPT ![s].step = "nacks", ![s].acks = {}] /\ verdicts' = verdicts
        BY <3>2 DEF FlushAcks
      <4>2. PICK F : F = [step : {"idle", "acks", "nacks"},
                          acks : SUBSET Ids, nacks : SUBSET Ids]
        OBVIOUS
      <4>3. flush \in [Subs -> F] /\ flush[s] \in F
        BY <1>0, <4>2 DEF LeaseTypeOK
      <4>4. [flush[s] EXCEPT !.step = "nacks", !.acks = {}] \in F
        BY <4>2, <4>3
      <4>5. flush' = [flush EXCEPT ![s] = [flush[s] EXCEPT !.step = "nacks", !.acks = {}]]
        BY <4>1, <4>3
      <4>6. flush' \in [Subs -> F]
        BY <4>3, <4>4, <4>5
      <4>. QED
        BY <1>0, <4>1, <4>2, <4>6 DEF LeaseTypeOK
    <3>3. CASE FlushNacks(s)
      BY <1>0, <3>3 DEF FlushNacks, NoFlush, LeaseTypeOK
    <3>. QED
      BY <1>9, <3>1, <3>2, <3>3 DEF Flush
  <2>2. UNCHANGED <<buffer, held, dropped, timeouts>> /\ faults' \in Nat
    BY <1>0, <1>9, FaultType DEF Flush, FlushTake, FlushAcks, FlushNacks, faultVars
  <2>. QED
    BY <1>0, <2>1, <2>2 DEF LeaseTypeOK
<1>10. ASSUME NEW s \in Subs, Crash(s) PROVE LeaseTypeOK'
  <2>1. faults' \in Nat /\ UNCHANGED <<timeouts, dropped>>
    BY <1>0, <1>10, FaultType DEF Crash
  <2>. QED
    BY <1>0, <1>10, <2>1, EmptyFacts, MongoAssumption DEF Crash, LeaseTypeOK, NoFlush
<1>. QED
  BY <1>2, <1>3, <1>4, <1>5, <1>6, <1>7, <1>8, <1>9, <1>10 DEF Next, Poll

LEMMA TypeStep == ASSUME TypeOK, [Next]_vars PROVE TypeOK'
<1>1. CASE Next
  BY <1>1, DbStep, PollTypeStep, LeaseTypeStep DEF TypeOK
<1>2. CASE UNCHANGED vars
  BY <1>2 DEF vars, pubVars, dbVars, pollVars, leaseVars, faultVars, TypeOK, DbTypeOK,
              PollTypeOK, LeaseTypeOK
<1>. QED
  BY <1>1, <1>2

\* Every variable has its type in every reachable state; no stream outgrows its
\* buffer, whatever is claimed, dropped or retried.
THEOREM TypeCorrect == Spec => []TypeOK
BY TypeInit, TypeStep, PTL DEF Spec

-----------------------------------------------------------------------------
(* Cursors: ObjectIds must become visible in their order, which they do    *)
(* with one publisher at a time.                                           *)

IdTypeOK ==
  /\ next \in Nat /\ messages \subseteq Ids
  /\ inserting \in [Pubs -> SUBSET Ids]
  /\ cursor \in [Groups -> Nat]
  /\ entry \in [Groups -> [Ids -> {"none", "held", "expired", "acked"}]]
  /\ done \in [Groups -> SUBSET Ids]
  /\ mark \in [Subs -> Nat]

\* The ids still to be inserted are above everything a cursor may have reached.
InOrder ==
  /\ \A m \in messages : m <= next
  /\ \A p \in Pubs : \A k \in inserting[p] :
       /\ k <= next
       /\ \A m \in messages : m < k
       /\ \A g \in Groups : cursor[g] < k
       /\ \A s \in Subs : mark[s] < k
  /\ \A g \in Groups : cursor[g] <= next
  /\ \A s \in Subs : mark[s] <= next

AckedIsDone == \A g \in Groups, m \in Ids : entry[g][m] = "acked" <=> m \in done[g]

\* The cursors, and the marks of the pollers that read them.
BehindAcked ==
  /\ \A g \in Groups : \A m \in messages : m <= cursor[g] => m \in done[g]
  /\ \A s \in Subs : \A m \in messages : m <= mark[s] => m \in done[GroupOf[s]]

CursorInv == IdTypeOK /\ InOrder /\ AckedIsDone /\ BehindAcked

LEMMA CursorInit == ASSUME Init PROVE CursorInv
BY MongoAssumption DEF Init, CursorInv, IdTypeOK, InOrder, AckedIsDone, BehindAcked, Ids

\* Nothing the invariant is about changes.
LEMMA CursorFrame ==
  ASSUME CursorInv, UNCHANGED <<next, inserting, messages, cursor, entry, done, mark>>
  PROVE  CursorInv'
BY DEF CursorInv, IdTypeOK, InOrder, AckedIsDone, BehindAcked

\* Only the lease of a message that is not acked changes.
LEMMA EntryStep ==
  ASSUME CursorInv, UNCHANGED <<next, inserting, messages, cursor, done, mark>>,
         entry' \in [Groups -> [Ids -> {"none", "held", "expired", "acked"}]],
         \A g \in Groups, m \in Ids : entry'[g][m] = "acked" <=> entry[g][m] = "acked"
  PROVE  CursorInv'
BY DEF CursorInv, IdTypeOK, InOrder, AckedIsDone, BehindAcked

LEMMA ExpireKeepsAcked ==
  ASSUME CursorInv, NEW g \in Groups, NEW M, Expire(g, M)
  PROVE  /\ entry' \in [Groups -> [Ids -> {"none", "held", "expired", "acked"}]]
         /\ \A h \in Groups, m \in Ids : entry'[h][m] = "acked" <=> entry[h][m] = "acked"
<1>1. \A h \in Groups : entry'[h] = IF h = g
        THEN [m \in Ids |-> IF m \in M /\ entry[g][m] = "held" THEN "expired" ELSE entry[g][m]]
        ELSE entry[h]
  BY DEF Expire, CursorInv, IdTypeOK
<1>2. entry' \in [Groups -> [Ids -> {"none", "held", "expired", "acked"}]]
  BY DEF Expire, CursorInv, IdTypeOK
<1>. QED
  BY <1>1, <1>2

LEMMA ExpireStep ==
  ASSUME CursorInv, NEW g \in Groups, NEW M, Expire(g, M),
         UNCHANGED <<next, inserting, messages, cursor, done, mark>>
  PROVE  CursorInv'
BY ExpireKeepsAcked, EntryStep

\* One poller's mark changes, to one that is behind what its group acked.
LEMMA MarkStep ==
  ASSUME CursorInv, NEW s \in Subs, NEW c \in Nat, mark' = [mark EXCEPT ![s] = c],
         c <= next, \A p \in Pubs : \A k \in inserting[p] : c < k,
         \A m \in messages : m <= c => m \in done[GroupOf[s]],
         UNCHANGED <<next, inserting, messages, cursor, entry, done>>
  PROVE  CursorInv'
BY DEF CursorInv, IdTypeOK, InOrder, AckedIsDone, BehindAcked

\* The round of claims ends, or starts again from the smallest id.
LEMMA ResetStep ==
  ASSUME CursorInv, NEW s \in Subs, mark' = [mark EXCEPT ![s] = 0],
         UNCHANGED <<next, inserting, messages, cursor, entry, done>>
  PROVE  CursorInv'
<1>1. /\ 0 <= next /\ \A p \in Pubs : \A k \in inserting[p] : 0 < k
      /\ \A m \in messages : m <= 0 => m \in done[GroupOf[s]]
  BY MongoAssumption DEF CursorInv, IdTypeOK, Ids
<1>. QED
  BY <1>1, MarkStep

-----------------------------------------------------------------------------
(* The publisher.                                                          *)

LEMMA InsertManyStep ==
  ASSUME CursorInv, \A p, q \in Pubs : p = q, NEW p \in Pubs, InsertMany(p)
  PROVE  CursorInv'
<1>1. PICK n \in 1..(MaxId - next) :
        /\ inserting' = [inserting EXCEPT ![p] = (next + 1)..(next + n)]
        /\ next' = next + n
        /\ UNCHANGED <<messages, cursor, entry, done, mark>>
  BY DEF InsertMany, dbVars, pollVars
<1>2. /\ next' \in Nat /\ next < next' /\ next' <= MaxId /\ next \in Nat
      /\ \A k \in (next + 1)..(next + n) : k \in Ids /\ k <= next' /\ next < k
      /\ \A m \in Ids : m \in Nat
  BY <1>1, MongoAssumption DEF CursorInv, IdTypeOK, Ids
<1>3. IdTypeOK'
  BY <1>1, <1>2 DEF CursorInv, IdTypeOK
<1>4. \A q \in Pubs : inserting'[q] = (next + 1)..(next + n)
  BY <1>1 DEF CursorInv, IdTypeOK
<1>5. \A k \in (next + 1)..(next + n) :
        /\ k <= next' /\ k \in Nat /\ next < k
  BY <1>2 DEF Ids
<1>6. InOrder'
  BY <1>1, <1>2, <1>4, <1>5 DEF CursorInv, InOrder, IdTypeOK
<1>. QED
  BY <1>1, <1>3, <1>6 DEF CursorInv, AckedIsDone, BehindAcked

LEMMA InsertedStep ==
  ASSUME CursorInv, \A p, q \in Pubs : p = q, NEW p \in Pubs, Inserted(p)
  PROVE  CursorInv'
<1>0. UNCHANGED <<next, cursor, entry, done, mark>>
  BY DEF Inserted, pollVars
<1>1. CASE inserting' = [inserting EXCEPT ![p] = {}] /\ UNCHANGED messages
  BY <1>0, <1>1 DEF CursorInv, IdTypeOK, InOrder, AckedIsDone, BehindAcked
<1>2. ASSUME NEW m \in inserting[p], \A k \in inserting[p] : m <= k,
             messages' = messages \cup {m},
             inserting' = [inserting EXCEPT ![p] = @ \ {m}]
      PROVE  CursorInv'
  <2>1. m \in Ids /\ inserting[p] \subseteq Ids /\ \A k \in Ids : k \in Nat
    BY DEF CursorInv, IdTypeOK, Ids
  <2>2. IdTypeOK'
    BY <1>0, <1>2, <2>1 DEF CursorInv, IdTypeOK
  <2>3. \A q \in Pubs : inserting'[q] = inserting[p] \ {m}
    BY <1>2 DEF CursorInv, IdTypeOK
  <2>4. \A k \in inserting[p] \ {m} : m < k
    BY <1>2, <2>1
  <2>5. InOrder'
    BY <1>0, <1>2, <2>1, <2>3, <2>4 DEF CursorInv, InOrder
  <2>6. /\ \A g \in Groups : ~(m <= cursor[g])
        /\ \A s \in Subs : ~(m <= mark[s])
    BY <2>1 DEF CursorInv, InOrder, IdTypeOK
  <2>7. BehindAcked'
    BY <1>0, <1>2, <2>6 DEF CursorInv, BehindAcked
  <2>. QED
    BY <1>0, <2>2, <2>5, <2>7 DEF CursorInv, AckedIsDone
<1>. QED
  BY <1>1, <1>2 DEF Inserted

-----------------------------------------------------------------------------
(* The poller.                                                             *)

LEMMA ReadStep == ASSUME CursorInv, NEW s \in Subs, PollRead(s) PROVE CursorInv'
<1>1. GroupOf[s] \in Groups
  BY MongoAssumption
<1>2. UNCHANGED <<next, inserting, messages, cursor, entry, done>>
  BY DEF PollRead, pubVars, dbVars
<1>3. /\ cursor[GroupOf[s]] \in Nat /\ cursor[GroupOf[s]] <= next
      /\ \A p \in Pubs : \A k \in inserting[p] : cursor[GroupOf[s]] < k
      /\ \A m \in messages : m <= cursor[GroupOf[s]] => m \in done[GroupOf[s]]
  BY <1>1 DEF CursorInv, IdTypeOK, InOrder, BehindAcked
<1>. QED
  BY <1>2, <1>3, MarkStep DEF PollRead

\* The scan stops at the first message that is not acked.
LEMMA ScanStep == ASSUME CursorInv, NEW s \in Subs, PollScan(s) PROVE CursorInv'
<1> DEFINE g == GroupOf[s]
           prefix == AckedPrefix(g, mark[s])
<1>1. g \in Groups
  BY MongoAssumption
<1>2. UNCHANGED <<next, inserting, messages, cursor, entry, done>>
  BY DEF PollScan, pubVars, dbVars
<1>3. CASE mark' = [mark EXCEPT ![s] = mark[s]]
  BY <1>2, <1>3, CursorFrame DEF CursorInv, IdTypeOK
<1>4. ASSUME NEW m \in prefix, mark' = [mark EXCEPT ![s] = m] PROVE CursorInv'
  <2>1. /\ m \in messages /\ m \in Ids /\ m \in Nat /\ messages \subseteq Ids
        /\ \A k \in Ids : k \in Nat
    BY DEF AckedPrefix, CursorInv, IdTypeOK, Ids
  <2>2. \A k \in messages : k <= m => k \in done[g]
    <3>1. \A k \in messages : mark[s] < k /\ k <= m => entry[g][k] = "acked"
      BY DEF AckedPrefix
    <3>2. \A k \in messages : k <= mark[s] => k \in done[g]
      BY DEF CursorInv, BehindAcked
    <3>3. mark[s] \in Nat
      BY DEF CursorInv, IdTypeOK
    <3>4. \A k \in messages : entry[g][k] = "acked" => k \in done[g]
      BY <1>1, <2>1 DEF CursorInv, AckedIsDone
    <3>. QED
      BY <2>1, <3>1, <3>2, <3>3, <3>4
  <2>3. m <= next /\ \A p \in Pubs : \A k \in inserting[p] : m < k
    BY <2>1 DEF CursorInv, InOrder
  <2>. QED
    BY <1>2, <1>4, <2>1, <2>2, <2>3, MarkStep
<1>. QED
  BY <1>3, <1>4 DEF PollScan, StartClaims

\* Another poller may have moved the cursor on: it is set back, never too far.
LEMMA SaveStep == ASSUME CursorInv, NEW s \in Subs, PollSave(s) PROVE CursorInv'
<1>1. GroupOf[s] \in Groups
  BY MongoAssumption
<1>2. /\ cursor' = [cursor EXCEPT ![GroupOf[s]] = mark[s]]
      /\ mark' = [mark EXCEPT ![s] = mark[s]]
      /\ UNCHANGED <<next, inserting, messages, entry, done>>
  BY DEF PollSave, StartClaims, pubVars
<1>3. mark' = mark
  BY <1>2 DEF CursorInv, IdTypeOK
<1>. QED
  BY <1>1, <1>2, <1>3 DEF CursorInv, IdTypeOK, InOrder, AckedIsDone, BehindAcked

LEMMA ClaimStep == ASSUME CursorInv, NEW s \in Subs, PollClaim(s) PROVE CursorInv'
<1>1. GroupOf[s] \in Groups
  BY MongoAssumption
<1>2. PICK m \in Claimable(s) :
        /\ entry' = [entry EXCEPT ![GroupOf[s]][m] = "held"]
        /\ mark' = mark \/ mark' = [mark EXCEPT ![s] = 0]
        /\ UNCHANGED <<next, inserting, messages, cursor, done>>
  BY DEF PollClaim, EndRound, pubVars
<1>3. m \in Ids /\ entry[GroupOf[s]][m] # "acked"
  BY DEF Claimable, CursorInv, IdTypeOK
<1>4. entry' \in [Groups -> [Ids -> {"none", "held", "expired", "acked"}]]
  BY <1>1, <1>2, <1>3 DEF CursorInv, IdTypeOK
<1>5. \A g \in Groups, k \in Ids : entry'[g][k] = "acked" <=> entry[g][k] = "acked"
  BY <1>1, <1>2, <1>3 DEF CursorInv, IdTypeOK
<1>6. /\ IdTypeOK' /\ InOrder' /\ BehindAcked'
  <2>1. \A t \in Subs : mark'[t] \in {0, mark[t]}
    BY <1>2 DEF CursorInv, IdTypeOK
  <2>2. mark' \in [Subs -> Nat]
    BY <1>2 DEF CursorInv, IdTypeOK
  <2>3. \A k \in Ids : k \in Nat /\ 0 < k /\ ~(k <= 0)
    BY MongoAssumption DEF Ids
  <2>4. IdTypeOK'
    BY <1>2, <1>4, <2>2 DEF CursorInv, IdTypeOK
  <2>5. InOrder'
    BY <1>2, <2>1, <2>3 DEF CursorInv, InOrder, IdTypeOK
  <2>6. BehindAcked'
    BY <1>2, <2>1, <2>3 DEF CursorInv, BehindAcked, IdTypeOK
  <2>. QED
    BY <2>4, <2>5, <2>6
<1>. QED
  BY <1>2, <1>5, <1>6 DEF CursorInv, AckedIsDone

LEMMA PollStep == ASSUME CursorInv, NEW s \in Subs, Poll(s) PROVE CursorInv'
<1>1. CASE Subscribe(s) \/ PollTop(s) \/ Send(s)
  BY <1>1, CursorFrame DEF Subscribe, PollTop, Send, pubVars, dbVars
<1>2. CASE PollErr(s) \/ PollEnd(s)
  BY <1>2, ResetStep DEF PollErr, PollEnd, StartClaims, EndRound, pubVars, dbVars
<1>3. CASE SendClosed(s)
  <2>1. /\ GroupOf[s] \in Groups
        /\ mark' = [mark EXCEPT ![s] = 0]
        /\ UNCHANGED <<next, inserting, messages, cursor, done>>
        /\ Expire(GroupOf[s], claimed[s]) \/ UNCHANGED entry
    BY <1>3, MongoAssumption DEF SendClosed, EndRound, pubVars
  <2>2. /\ entry' \in [Groups -> [Ids -> {"none", "held", "expired", "acked"}]]
        /\ \A g \in Groups, m \in Ids : entry'[g][m] = "acked" <=> entry[g][m] = "acked"
    BY <2>1, ExpireKeepsAcked DEF CursorInv, IdTypeOK
  <2>3. \A k \in Ids : k \in Nat /\ 0 < k /\ ~(k <= 0)
    BY MongoAssumption DEF Ids
  <2>4. mark' \in [Subs -> Nat] /\ \A t \in Subs : mark'[t] \in {0, mark[t]}
    BY <2>1 DEF CursorInv, IdTypeOK
  <2>5. InOrder'
    BY <2>1, <2>3, <2>4 DEF CursorInv, InOrder, IdTypeOK
  <2>6. BehindAcked'
    BY <2>1, <2>3, <2>4 DEF CursorInv, BehindAcked, IdTypeOK
  <2>. QED
    BY <2>1, <2>2, <2>4, <2>5, <2>6 DEF CursorInv, IdTypeOK, AckedIsDone
<1>. QED
  BY <1>1, <1>2, <1>3, ReadStep, ScanStep, SaveStep, ClaimStep DEF Poll

-----------------------------------------------------------------------------
(* The flusher, time, crashes and the purge.                               *)

LEMMA FlushStep == ASSUME CursorInv, NEW s \in Subs, Flush(s) PROVE CursorInv'
<1>0. GroupOf[s] \in Groups
  BY MongoAssumption
<1>1. CASE FlushTake(s)
  BY <1>1, CursorFrame DEF FlushTake, pubVars, dbVars, pollVars
<1>2. CASE FlushNacks(s)
  BY <1>0, <1>2, ExpireStep, CursorFrame DEF FlushNacks, pubVars, pollVars
<1>3. CASE FlushAcks(s)
  <2> DEFINE g == GroupOf[s]
             M == flush[s].acks \cap messages
  <2>1. UNCHANGED <<next, inserting, messages, cursor, mark>>
    BY <1>3 DEF FlushAcks, pubVars, pollVars
  <2>2. CASE UNCHANGED <<entry, done>>
    BY <2>1, <2>2, CursorFrame
  <2>3. CASE /\ entry' = [entry EXCEPT ![g] =
                          [m \in Ids |-> IF m \in M THEN "acked" ELSE @[m]]]
             /\ done' = [done EXCEPT ![g] = @ \cup M]
    <3>1. M \subseteq Ids
      BY DEF CursorInv, IdTypeOK
    <3>2. IdTypeOK'
      BY <1>0, <2>1, <2>3, <3>1 DEF CursorInv, IdTypeOK
    <3>3. \A h \in Groups, m \in Ids :
            /\ entry'[h][m] = IF h = g /\ m \in M THEN "acked" ELSE entry[h][m]
            /\ m \in done'[h] <=> m \in done[h] \/ (h = g /\ m \in M)
      BY <1>0, <2>3, <3>1 DEF CursorInv, IdTypeOK
    <3>4. AckedIsDone'
      BY <3>3 DEF CursorInv, AckedIsDone
    <3>5. \A h \in Groups : done[h] \subseteq done'[h]
      BY <1>0, <2>3 DEF CursorInv, IdTypeOK
    <3>6. BehindAcked'
      BY <2>1, <3>5, MongoAssumption DEF CursorInv, BehindAcked
    <3>. QED
      BY <2>1, <3>2, <3>4, <3>6 DEF CursorInv, InOrder
  <2>. QED
    BY <1>3, <2>2, <2>3 DEF FlushAcks
<1>. QED
  BY <1>1, <1>2, <1>3 DEF Flush

LEMMA PurgeStep == ASSUME CursorInv, PurgeFloor \/ PurgeDelete PROVE CursorInv'
<1>1. CASE PurgeFloor
  BY <1>1, CursorFrame DEF PurgeFloor, pubVars, pollVars
<1>2. CASE PurgeDelete
  <2>1. messages' \subseteq messages /\ UNCHANGED <<next, inserting, cursor, entry, done, mark>>
    BY <1>2 DEF PurgeDelete, pubVars, pollVars
  <2>. QED
    BY <2>1 DEF CursorInv, IdTypeOK, InOrder, AckedIsDone, BehindAcked
<1>. QED
  BY <1>1, <1>2

LEMMA CursorStep ==
  ASSUME CursorInv, \A p, q \in Pubs : p = q, [Next]_vars
  PROVE  CursorInv'
<1>1. CASE UNCHANGED vars
  BY <1>1, CursorFrame DEF vars, pubVars, dbVars, pollVars
<1>2. ASSUME NEW p \in Pubs, InsertMany(p) \/ Inserted(p) PROVE CursorInv'
  BY <1>2, InsertManyStep, InsertedStep
<1>3. ASSUME NEW s \in Subs, Poll(s) \/ Flush(s) PROVE CursorInv'
  BY <1>3, PollStep, FlushStep
<1>4. ASSUME NEW s \in Subs, Take(s) \/ DropStream(s) \/ \E m \in Ids : Settle(s, m)
      PROVE  CursorInv'
  BY <1>4, CursorFrame DEF Take, DropStream, Settle, pubVars, dbVars, pollVars
<1>5. ASSUME NEW s \in Subs, Crash(s) PROVE CursorInv'
  BY <1>5, ResetStep DEF Crash, EndRound, pubVars, dbVars
<1>6. ASSUME NEW g \in Groups, NEW m \in Ids, LeaseExpires(g, m) PROVE CursorInv'
  BY <1>6, ExpireStep DEF LeaseExpires, pubVars, pollVars
<1>. QED
  BY <1>1, <1>2, <1>3, <1>4, <1>5, <1>6, PurgeStep DEF Next

\* With one publisher at a time, no cursor document and no cursor a poller works
\* with passes a message its group has not acked, and lag() counts exactly those:
\* although read_cursor, the scan and the update are three commands that any
\* number of pollers interleave, fail and repeat.
THEOREM NothingIsSkipped ==
  ASSUME \A p, q \in Pubs : p = q
  PROVE  Spec => []NothingSkipped
<1>1. Init => CursorInv
  BY CursorInit
<1>2. CursorInv /\ [Next]_vars => CursorInv'
  BY CursorStep
<1>3. CursorInv => NothingSkipped
  <2> SUFFICES ASSUME CursorInv PROVE NothingSkipped
    OBVIOUS
  <2>1. ASSUME NEW g \in Groups PROVE Lag(g) = messages \ done[g]
    <3>1. \A m \in messages : m \in Nat /\ m \in Ids /\ cursor[g] \in Nat
      BY <2>1 DEF CursorInv, IdTypeOK, Ids
    <3>. QED
      BY <2>1, <3>1 DEF Lag, CursorInv, AckedIsDone, BehindAcked
  <2>. QED
    BY <2>1 DEF NothingSkipped, CursorInv, BehindAcked
<1>. QED
  BY <1>1, <1>2, <1>3, PTL DEF Spec

-----------------------------------------------------------------------------
(* Leases.  A copy of a message is in one place at a time: claimed, in the *)
(* stream, held, a verdict, or in the flusher's hands.                     *)

InVerdict(s, m) == <<m, "ack">> \in verdicts[s] \/ <<m, "nack">> \in verdicts[s]
InFlush(s, m)   == m \in flush[s].acks \cup flush[s].nacks

CopyAt(s, m) ==
  /\ held[s][m] \in {0, 1}
  /\ m \in claimed[s] => /\ m \notin Range(buffer[s]) /\ held[s][m] = 0
                         /\ ~InVerdict(s, m) /\ ~InFlush(s, m)
  /\ m \in Range(buffer[s]) => /\ held[s][m] = 0
                               /\ ~InVerdict(s, m) /\ ~InFlush(s, m)
  /\ held[s][m] = 1 => ~InVerdict(s, m) /\ ~InFlush(s, m)
  /\ InVerdict(s, m) => ~InFlush(s, m)
  /\ ~(<<m, "ack">> \in verdicts[s] /\ <<m, "nack">> \in verdicts[s])
  /\ ~(m \in flush[s].acks /\ m \in flush[s].nacks)

OneCopy(s) == Distinct(buffer[s]) /\ \A m \in Ids : CopyAt(s, m)

\* A copy in flight is leased, and it is the group's only one.
Leases ==
  \A s, t \in Subs, m \in Ids :
    InFlight(s, m) => /\ entry[GroupOf[s]][m] = "held"
                      /\ GroupOf[s] = GroupOf[t] /\ InFlight(t, m) => s = t

LeaseInv == timeouts = 0 => Leases /\ \A s \in Subs : OneCopy(s)

LEMMA InFlightPlaces ==
  ASSUME TypeOK, NEW s \in Subs, NEW m \in Ids
  PROVE  InFlight(s, m) <=> \/ m \in claimed[s] \/ m \in Range(buffer[s]) \/ held[s][m] > 0
                            \/ InVerdict(s, m) \/ InFlush(s, m)
BY DEF InFlight, InVerdict, InFlush

LEMMA LeaseInit == ASSUME Init PROVE LeaseInv
BY EmptyFacts, EmptyDistinct
   DEF Init, LeaseInv, Leases, OneCopy, CopyAt, InFlight, InVerdict, InFlush, NoFlush

\* Nothing that is said of subscription s changes.
LEMMA CopyFrame ==
  ASSUME NEW s \in Subs,
         /\ claimed'[s] = claimed[s] /\ buffer'[s] = buffer[s] /\ held'[s] = held[s]
         /\ verdicts'[s] = verdicts[s] /\ flush'[s] = flush[s]
  PROVE  /\ OneCopy(s)' <=> OneCopy(s)
         /\ \A m : InFlight(s, m)' <=> InFlight(s, m)
BY DEF OneCopy, CopyAt, InFlight, InVerdict, InFlush

\* A step of s alone, which passes its copies on or loses some.
LEMMA PassOn ==
  ASSUME TypeOK, LeaseInv, NEW s \in Subs, timeouts' = timeouts,
         \A t \in Subs \ {s} :
           /\ claimed'[t] = claimed[t] /\ buffer'[t] = buffer[t] /\ held'[t] = held[t]
           /\ verdicts'[t] = verdicts[t] /\ flush'[t] = flush[t],
         timeouts = 0 =>
           /\ OneCopy(s)'
           /\ \A m \in Ids : InFlight(s, m)' => InFlight(s, m)
           /\ \A t \in Subs, m \in Ids :
                InFlight(t, m)' /\ entry[GroupOf[t]][m] = "held"
                  => entry'[GroupOf[t]][m] = "held"
  PROVE  LeaseInv'
<1> SUFFICES ASSUME timeouts = 0 PROVE Leases' /\ \A t \in Subs : OneCopy(t)'
  BY DEF LeaseInv
<1>1. Leases /\ \A t \in Subs : OneCopy(t)
  BY DEF LeaseInv
<1>2. \A t \in Subs : OneCopy(t)'
  BY <1>1, CopyFrame
<1>3. \A t \in Subs, m \in Ids : InFlight(t, m)' => InFlight(t, m)
  BY CopyFrame
<1>4. Leases'
  BY <1>1, <1>3 DEF Leases
<1>. QED
  BY <1>2, <1>4

\* The copies and leases are as they were.
LEMMA LeaseFrame ==
  ASSUME LeaseInv, UNCHANGED <<entry, claimed, buffer, held, verdicts, flush, timeouts>>
  PROVE  LeaseInv'
BY DEF LeaseInv, Leases, OneCopy, CopyAt, InFlight, InVerdict, InFlush

-----------------------------------------------------------------------------
\* The poller claims what is not leased, so nobody else has it.
LEMMA ClaimLease ==
  ASSUME TypeOK, LeaseInv, NEW s \in Subs, PollClaim(s) PROVE LeaseInv'
<1> DEFINE g == GroupOf[s]
<1>1. PICK m \in Claimable(s) :
        /\ entry' = [entry EXCEPT ![g][m] = "held"]
        /\ claimed' = claimed \/ claimed' = [claimed EXCEPT ![s] = {m}]
        /\ UNCHANGED <<buffer, held, verdicts, flush, timeouts>>
  BY DEF PollClaim, leaseVars
<1>2. g \in Groups /\ m \in Ids /\ entry[g][m] # "held"
  BY MongoAssumption DEF Claimable, TypeOK, DbTypeOK
<1>3. SUFFICES ASSUME timeouts = 0 PROVE Leases' /\ \A t \in Subs : OneCopy(t)'
  BY <1>1 DEF LeaseInv
<1>4. Leases /\ \A t \in Subs : OneCopy(t)
  BY <1>1, <1>3 DEF LeaseInv
<1>5. \A t \in Subs : GroupOf[t] = g => ~InFlight(t, m)
  BY <1>2, <1>4 DEF Leases
<1>6. \A h \in Groups, k \in Ids : entry'[h][k] = IF h = g /\ k = m THEN "held" ELSE entry[h][k]
  BY <1>1, <1>2 DEF TypeOK, DbTypeOK
<1>7. \A t \in Subs \ {s} : claimed'[t] = claimed[t]
  BY <1>1 DEF TypeOK, PollTypeOK
<1>8. claimed'[s] = claimed[s] \/ claimed'[s] = {m}
  BY <1>1 DEF TypeOK, PollTypeOK
<1>9. \A t \in Subs \ {s} : OneCopy(t)' /\ \A k \in Ids : InFlight(t, k)' <=> InFlight(t, k)
  BY <1>1, <1>4, <1>7, CopyFrame
<1>10. \A k \in Ids : InFlight(s, k)' => InFlight(s, k) \/ k = m
  BY <1>1, <1>8 DEF InFlight
<1>11. OneCopy(s)'
  <2>1. /\ m \notin Range(buffer[s]) /\ held[s][m] = 0
        /\ ~InVerdict(s, m) /\ ~InFlush(s, m)
    <3>1. held[s][m] \in {0, 1}
      BY <1>2, <1>4 DEF OneCopy, CopyAt
    <3>2. ~InFlight(s, m)
      BY <1>5
    <3>. QED
      BY <1>2, <3>1, <3>2, InFlightPlaces
  <2>. QED
    BY <1>1, <1>4, <1>8, <2>1 DEF OneCopy, CopyAt, InVerdict, InFlush
<1>12. ASSUME NEW t \in Subs, NEW k \in Ids, InFlight(t, k)'
       PROVE  /\ InFlight(t, k) \/ (t = s /\ k = m)
              /\ entry'[GroupOf[t]][k] = "held"
  <2>1. InFlight(t, k) \/ (t = s /\ k = m)
    BY <1>9, <1>10, <1>12
  <2>2. GroupOf[t] \in Groups
    BY MongoAssumption
  <2>. QED
    BY <1>4, <1>6, <2>1, <2>2 DEF Leases
<1>13. Leases'
  BY <1>4, <1>5, <1>12 DEF Leases
<1>. QED
  BY <1>9, <1>11, <1>13

LEMMA SendLease ==
  ASSUME TypeOK, LeaseInv, NEW s \in Subs, Send(s) PROVE LeaseInv'
<1>1. PICK m \in claimed[s] : buffer' = [buffer EXCEPT ![s] = Append(@, m)]
  BY DEF Send
<1>2. /\ claimed' = [claimed EXCEPT ![s] = {}]
      /\ UNCHANGED <<entry, held, verdicts, flush, timeouts>>
  BY DEF Send, dbVars, faultVars
<1>3. m \in Ids /\ buffer[s] \in Seq(Ids)
  BY DEF TypeOK, PollTypeOK, LeaseTypeOK
<1>4. /\ claimed'[s] = {} /\ buffer'[s] = Append(buffer[s], m)
      /\ \A t \in Subs \ {s} : claimed'[t] = claimed[t] /\ buffer'[t] = buffer[t]
  BY <1>1, <1>2 DEF TypeOK, PollTypeOK, LeaseTypeOK
<1>5. Range(buffer'[s]) = Range(buffer[s]) \cup {m}
  BY <1>3, <1>4, AppendFacts
<1>6. \A k \in Ids : InFlight(s, k)' => InFlight(s, k)
  BY <1>2, <1>4, <1>5 DEF InFlight
<1>7. ASSUME timeouts = 0 PROVE OneCopy(s)'
  <2>1. OneCopy(s)
    BY <1>7 DEF LeaseInv
  <2>0. CopyAt(s, m)
    BY <1>3, <2>1 DEF OneCopy
  <2>2. Distinct(buffer'[s])
    <3>1. m \notin Range(buffer[s])
      BY <2>0 DEF CopyAt
    <3>. QED
      BY <1>3, <1>4, <2>1, <3>1, AppendDistinct DEF OneCopy
  <2>3. \A k : /\ InVerdict(s, k)' <=> InVerdict(s, k)
               /\ InFlush(s, k)' <=> InFlush(s, k)
    BY <1>2 DEF InVerdict, InFlush
  <2>4. held[s][m] = 0 /\ ~InVerdict(s, m) /\ ~InFlush(s, m)
    BY <2>0 DEF CopyAt
  <2>. QED
    BY <1>2, <1>4, <1>5, <2>1, <2>2, <2>3, <2>4 DEF OneCopy, CopyAt
<1>. QED
  BY <1>2, <1>4, <1>6, <1>7, PassOn

LEMMA TakeLease ==
  ASSUME TypeOK, LeaseInv, NEW s \in Subs, Take(s) PROVE LeaseInv'
<1> DEFINE m == Head(buffer[s])
<1>1. /\ held' = [held EXCEPT ![s][m] = @ + 1]
      /\ buffer' = [buffer EXCEPT ![s] = Tail(@)]
      /\ UNCHANGED <<entry, claimed, verdicts, flush, timeouts>>
  BY DEF Take, dbVars, pollVars, faultVars
<1>2. /\ buffer[s] \in Seq(Ids) /\ buffer[s] # <<>>
  BY DEF Take, TypeOK, LeaseTypeOK
<1>3. m \in Ids /\ Range(buffer[s]) = {m} \cup Range(Tail(buffer[s]))
  BY <1>2, TailFacts
<1>4. /\ buffer'[s] = Tail(buffer[s])
      /\ \A k \in Ids : held'[s][k] = IF k = m THEN held[s][m] + 1 ELSE held[s][k]
      /\ \A t \in Subs \ {s} : held'[t] = held[t] /\ buffer'[t] = buffer[t]
  BY <1>1, <1>3 DEF TypeOK, LeaseTypeOK
<1>5. \A k \in Ids : InFlight(s, k)' => InFlight(s, k)
  BY <1>1, <1>3, <1>4 DEF InFlight
<1>6. ASSUME timeouts = 0 PROVE OneCopy(s)'
  <2>1. OneCopy(s)
    BY <1>6 DEF LeaseInv
  <2>2. Distinct(buffer'[s]) /\ m \notin Range(buffer'[s])
    BY <1>2, <1>4, <2>1, TailDistinct DEF OneCopy
  <2>0. CopyAt(s, m) /\ m \in Range(buffer[s])
    BY <1>3, <2>1 DEF OneCopy
  <2>3. held'[s][m] = 1 /\ \A k \in Ids : k # m => held'[s][k] = held[s][k]
    <3>1. held[s][m] = 0
      BY <2>0 DEF CopyAt
    <3>. QED
      BY <1>3, <1>4, <3>1
  <2>4. \A k : /\ InVerdict(s, k)' <=> InVerdict(s, k)
               /\ InFlush(s, k)' <=> InFlush(s, k)
    BY <1>1 DEF InVerdict, InFlush
  <2>5. /\ m \notin claimed[s] /\ ~InVerdict(s, m) /\ ~InFlush(s, m)
    BY <2>0 DEF CopyAt
  <2>6. \A k \in Ids : k # m => (k \in Range(buffer'[s]) <=> k \in Range(buffer[s]))
    BY <1>3, <1>4
  <2>. QED
    BY <1>1, <2>1, <2>2, <2>3, <2>4, <2>5, <2>6 DEF OneCopy, CopyAt
<1>. QED
  BY <1>1, <1>4, <1>5, <1>6, PassOn

LEMMA SettleLease ==
  ASSUME TypeOK, LeaseInv, NEW s \in Subs, NEW m \in Ids, Settle(s, m) PROVE LeaseInv'
<1>1. PICK d \in {"ack", "nack"} : verdicts' = [verdicts EXCEPT ![s] = @ \cup {<<m, d>>}]
  BY DEF Settle
<1>2. /\ held[s][m] > 0 /\ held' = [held EXCEPT ![s][m] = @ - 1]
      /\ UNCHANGED <<entry, claimed, buffer, flush, timeouts>>
  BY DEF Settle, dbVars, pollVars
<1>3. /\ verdicts'[s] = verdicts[s] \cup {<<m, d>>}
      /\ \A k \in Ids : held'[s][k] = IF k = m THEN held[s][m] - 1 ELSE held[s][k]
      /\ \A t \in Subs \ {s} : held'[t] = held[t] /\ verdicts'[t] = verdicts[t]
  BY <1>1, <1>2 DEF TypeOK, LeaseTypeOK
<1>4. \A k \in Ids : InFlight(s, k)' => InFlight(s, k)
  BY <1>2, <1>3 DEF InFlight
<1>5. ASSUME timeouts = 0 PROVE OneCopy(s)'
  <2>1. OneCopy(s)
    BY <1>5 DEF LeaseInv
  <2>0. CopyAt(s, m)
    BY <2>1 DEF OneCopy
  <2>2. held[s][m] = 1
    BY <1>2, <2>0 DEF CopyAt
  <2>3. held'[s][m] = 0
    BY <1>3, <2>2
  <2>4. /\ \A k : InFlush(s, k)' <=> InFlush(s, k)
        /\ \A k : k # m => (InVerdict(s, k)' <=> InVerdict(s, k))
        /\ \A k, e : k # m => (<<k, e>> \in verdicts'[s] <=> <<k, e>> \in verdicts[s])
    BY <1>2, <1>3 DEF InVerdict, InFlush
  <2>5. /\ m \notin claimed[s] /\ m \notin Range(buffer[s])
        /\ ~InVerdict(s, m) /\ ~InFlush(s, m)
    BY <2>0, <2>2 DEF CopyAt
  <2>6. ~(<<m, "ack">> \in verdicts'[s] /\ <<m, "nack">> \in verdicts'[s])
    BY <1>3, <2>5 DEF InVerdict
  <2>7. \A k \in Ids : k # m => held'[s][k] = held[s][k]
    BY <1>3
  <2>8. claimed' = claimed /\ buffer' = buffer /\ flush' = flush
    BY <1>2
  <2>. QED
    BY <2>1, <2>3, <2>4, <2>5, <2>6, <2>7, <2>8 DEF OneCopy, CopyAt
<1>. QED
  BY <1>2, <1>3, <1>4, <1>5, PassOn

LEMMA DropLease ==
  ASSUME TypeOK, LeaseInv, NEW s \in Subs, DropStream(s) PROVE LeaseInv'
<1>1. /\ verdicts' = [verdicts EXCEPT ![s] = @ \cup (Range(buffer[s]) \X {"nack"})]
      /\ buffer' = [buffer EXCEPT ![s] = <<>>]
      /\ UNCHANGED <<entry, claimed, held, flush, timeouts>>
  BY DEF DropStream, dbVars, pollVars
<1>2. /\ verdicts'[s] = verdicts[s] \cup (Range(buffer[s]) \X {"nack"})
      /\ buffer'[s] = <<>>
      /\ \A t \in Subs \ {s} : buffer'[t] = buffer[t] /\ verdicts'[t] = verdicts[t]
  BY <1>1 DEF TypeOK, LeaseTypeOK
<1>3. \A k : /\ <<k, "ack">> \in verdicts'[s] <=> <<k, "ack">> \in verdicts[s]
             /\ <<k, "nack">> \in verdicts'[s] <=>
                  <<k, "nack">> \in verdicts[s] \/ k \in Range(buffer[s])
  BY <1>2
<1>4. \A k \in Ids : InFlight(s, k)' => InFlight(s, k)
  BY <1>1, <1>2, <1>3, EmptyFacts DEF InFlight
<1>5. ASSUME timeouts = 0 PROVE OneCopy(s)'
  <2>1. OneCopy(s)
    BY <1>5 DEF LeaseInv
  <2>. QED
    BY <1>1, <1>2, <1>3, <2>1, EmptyFacts, EmptyDistinct DEF OneCopy, CopyAt, InVerdict, InFlush
<1>. QED
  BY <1>1, <1>2, <1>4, <1>5, PassOn

LEMMA CrashLease ==
  ASSUME TypeOK, LeaseInv, NEW s \in Subs, Crash(s) PROVE LeaseInv'
<1>1. /\ claimed' = [claimed EXCEPT ![s] = {}] /\ buffer' = [buffer EXCEPT ![s] = <<>>]
      /\ held' = [held EXCEPT ![s] = [m \in Ids |-> 0]]
      /\ verdicts' = [verdicts EXCEPT ![s] = {}] /\ flush' = [flush EXCEPT ![s] = NoFlush]
      /\ UNCHANGED <<entry, timeouts>>
  BY DEF Crash, dbVars
<1>2. /\ claimed'[s] = {} /\ buffer'[s] = <<>> /\ held'[s] = [m \in Ids |-> 0]
      /\ verdicts'[s] = {} /\ flush'[s] = NoFlush
      /\ \A t \in Subs \ {s} :
           /\ claimed'[t] = claimed[t] /\ buffer'[t] = buffer[t] /\ held'[t] = held[t]
           /\ verdicts'[t] = verdicts[t] /\ flush'[t] = flush[t]
  BY <1>1 DEF TypeOK, PollTypeOK, LeaseTypeOK
<1>3. OneCopy(s)' /\ \A m \in Ids : ~InFlight(s, m)'
  BY <1>2, EmptyFacts, EmptyDistinct DEF OneCopy, CopyAt, InFlight, InVerdict, InFlush, NoFlush
<1>. QED
  BY <1>1, <1>2, <1>3, PassOn

\* The message that was not handed over is given up, and so is its lease, unless
\* that fails.
LEMMA SendClosedLease ==
  ASSUME TypeOK, LeaseInv, NEW s \in Subs, SendClosed(s) PROVE LeaseInv'
<1> DEFINE g == GroupOf[s]
<1>1. /\ claimed' = [claimed EXCEPT ![s] = {}]
      /\ Expire(g, claimed[s]) \/ entry' = entry
      /\ UNCHANGED <<buffer, held, verdicts, flush, timeouts>>
  BY DEF SendClosed, leaseVars
<1>2. claimed'[s] = {} /\ \A t \in Subs \ {s} : claimed'[t] = claimed[t]
  BY <1>1 DEF TypeOK, PollTypeOK
<1>3. \A k \in Ids : InFlight(s, k)' => InFlight(s, k)
  BY <1>1, <1>2 DEF InFlight
<1>4. ASSUME timeouts = 0 PROVE OneCopy(s)'
  <2>1. OneCopy(s)
    BY <1>4 DEF LeaseInv
  <2>. QED
    BY <1>1, <1>2, <2>1 DEF OneCopy, CopyAt, InVerdict, InFlush
<1>5. \A h \in Groups, k \in Ids :
        entry[h][k] = "held" => entry'[h][k] = "held" \/ (h = g /\ k \in claimed[s])
  BY <1>1 DEF Expire, TypeOK, DbTypeOK
<1>6. ASSUME timeouts = 0, NEW t \in Subs, NEW m \in Ids, InFlight(t, m)',
             entry[GroupOf[t]][m] = "held"
      PROVE  entry'[GroupOf[t]][m] = "held"
  <2>1. SUFFICES ASSUME GroupOf[t] = g, m \in claimed[s] PROVE FALSE
    BY <1>5, <1>6, MongoAssumption
  <2>2. InFlight(s, m)
    BY <2>1 DEF InFlight
  <2>3. InFlight(t, m)
    BY <1>1, <1>2, <1>3, <1>6, CopyFrame
  <2>4. s = t
    BY <1>6, <2>1, <2>2, <2>3 DEF LeaseInv, Leases
  <2>5. OneCopy(s)
    BY <1>6 DEF LeaseInv
  <2>. QED
    BY <1>1, <1>2, <1>6, <2>1, <2>4, <2>5 DEF OneCopy, CopyAt, InFlight, InVerdict, InFlush
<1>. QED
  BY <1>1, <1>2, <1>3, <1>4, <1>6, PassOn

LEMMA FlushLease ==
  ASSUME TypeOK, LeaseInv, NEW s \in Subs, Flush(s) PROVE LeaseInv'
<1> DEFINE g == GroupOf[s]
<1>0. g \in Groups /\ flush[s].acks \subseteq Ids /\ flush[s].nacks \subseteq Ids
  BY MongoAssumption DEF TypeOK, LeaseTypeOK
<1>1. CASE FlushTake(s)
  <2>1. PICK V \in SUBSET verdicts[s] :
          /\ flush' = [flush EXCEPT ![s] =
                        [step  |-> "acks",
                         acks  |-> {m \in Ids : <<m, "ack">> \in V},
                         nacks |-> {m \in Ids : <<m, "nack">> \in V}]]
          /\ verdicts' = [verdicts EXCEPT ![s] = @ \ V]
    BY <1>1 DEF FlushTake
  <2>2. UNCHANGED <<entry, claimed, buffer, held, timeouts>>
    BY <1>1 DEF FlushTake, dbVars, pollVars, faultVars
  <2>3. /\ flush'[s].acks = {m \in Ids : <<m, "ack">> \in V}
        /\ flush'[s].nacks = {m \in Ids : <<m, "nack">> \in V}
        /\ verdicts'[s] = verdicts[s] \ V
        /\ \A t \in Subs \ {s} : flush'[t] = flush[t] /\ verdicts'[t] = verdicts[t]
    BY <2>1 DEF TypeOK, LeaseTypeOK
  <2>4. \A k \in Ids : InFlight(s, k)' => InFlight(s, k)
    BY <2>2, <2>3 DEF InFlight
  <2>5. ASSUME timeouts = 0 PROVE OneCopy(s)'
    <3>1. OneCopy(s)
      BY <2>5 DEF LeaseInv
    <3>2. \A k \in Ids : /\ InVerdict(s, k)' => InVerdict(s, k)
                         /\ InFlush(s, k)' => InVerdict(s, k)
                         /\ InVerdict(s, k)' => ~InFlush(s, k)'
      BY <2>3, <3>1 DEF InVerdict, InFlush, OneCopy, CopyAt
    <3>3. \A k \in Ids : /\ ~(<<k, "ack">> \in verdicts'[s] /\ <<k, "nack">> \in verdicts'[s])
                         /\ ~(k \in flush'[s].acks /\ k \in flush'[s].nacks)
      BY <2>3, <3>1 DEF OneCopy, CopyAt
    <3>. QED
      BY <2>2, <3>1, <3>2, <3>3 DEF OneCopy, CopyAt
  <2>. QED
    BY <2>2, <2>3, <2>4, <2>5, PassOn
<1>2. CASE FlushAcks(s) \/ FlushNacks(s)
  <2> DEFINE M == IF flush[s].step = "acks" THEN flush[s].acks ELSE flush[s].nacks
  <2>1. /\ UNCHANGED <<claimed, buffer, held, verdicts, timeouts>>
        /\ \A t \in Subs \ {s} : flush'[t] = flush[t]
        /\ flush'[s].acks = {}
        /\ flush'[s].nacks = (IF flush[s].step = "acks" THEN flush[s].nacks ELSE {})
    <3>1. CASE FlushAcks(s)
      BY <3>1 DEF FlushAcks, pollVars, TypeOK, LeaseTypeOK
    <3>2. CASE FlushNacks(s)
      BY <3>2 DEF FlushNacks, NoFlush, pollVars, TypeOK, LeaseTypeOK
    <3>. QED
      BY <1>2, <3>1, <3>2
  <2>2. \A h \in Groups, k \in Ids :
          entry[h][k] = "held" => entry'[h][k] = "held" \/ (h = g /\ k \in M)
    <3>1. CASE FlushAcks(s)
      BY <1>0, <3>1 DEF FlushAcks, TypeOK, DbTypeOK
    <3>2. CASE FlushNacks(s)
      BY <1>0, <3>2 DEF FlushNacks, Expire, TypeOK, DbTypeOK
    <3>. QED
      BY <1>2, <3>1, <3>2
  <2>3. \A k \in Ids : InFlight(s, k)' => InFlight(s, k)
    BY <2>1 DEF InFlight
  <2>4. ASSUME timeouts = 0 PROVE OneCopy(s)'
    <3>1. OneCopy(s)
      BY <2>4 DEF LeaseInv
    <3>2. \A k : InFlush(s, k)' => InFlush(s, k)
      BY <2>1 DEF InFlush
    <3>3. \A k : ~(k \in flush'[s].acks /\ k \in flush'[s].nacks)
      BY <2>1
    <3>. QED
      BY <2>1, <3>1, <3>2, <3>3 DEF OneCopy, CopyAt, InVerdict
  <2>5. ASSUME timeouts = 0, NEW t \in Subs, NEW m \in Ids, InFlight(t, m)',
               entry[GroupOf[t]][m] = "held"
        PROVE  entry'[GroupOf[t]][m] = "held"
    <3>1. SUFFICES ASSUME GroupOf[t] = g, m \in M PROVE FALSE
      BY <2>2, <2>5, MongoAssumption
    <3>2. InFlight(s, m) /\ InFlush(s, m)
      BY <3>1 DEF InFlight, InFlush
    <3>3. InFlight(t, m)
      BY <2>1, <2>3, <2>5, CopyFrame
    <3>4. s = t
      BY <2>5, <3>1, <3>2, <3>3 DEF LeaseInv, Leases
    <3>5. OneCopy(s)
      BY <2>5 DEF LeaseInv
    <3>6. InFlush(s, m)'
      <4>1. CopyAt(s, m)
        BY <3>5 DEF OneCopy
      <4>2. /\ m \notin claimed[s] /\ m \notin Range(buffer[s]) /\ held[s][m] = 0
            /\ ~InVerdict(s, m)
        BY <3>2, <4>1 DEF CopyAt
      <4>. QED
        BY <2>1, <2>5, <3>4, <4>2 DEF InFlight, InVerdict, InFlush
    <3>. QED
      <4>1. ~(m \in flush[s].acks /\ m \in flush[s].nacks)
        BY <3>5 DEF OneCopy, CopyAt
      <4>. QED
        BY <2>1, <3>1, <3>6, <4>1 DEF InFlush
  <2>. QED
    BY <2>1, <2>3, <2>4, <2>5, PassOn
<1>. QED
  BY <1>1, <1>2 DEF Flush

\* A lease that runs out with a copy in flight ends what is promised; without
\* one it is nobody's.
LEMMA ExpiryLease ==
  ASSUME TypeOK, LeaseInv, NEW g \in Groups, NEW m \in Ids, LeaseExpires(g, m)
  PROVE  LeaseInv'
<1>0. timeouts \in Nat /\ UNCHANGED <<claimed, buffer, held, verdicts, flush>>
  BY DEF TypeOK, LeaseTypeOK, LeaseExpires, pollVars, leaseVars
<1>1. CASE \E s \in Members(g) : InFlight(s, m)
  <2>1. timeouts' # 0
    BY <1>0, <1>1 DEF LeaseExpires
  <2>. QED
    BY <2>1 DEF LeaseInv
<1>2. CASE ~\E s \in Members(g) : InFlight(s, m)
  <2>1. timeouts' = timeouts
    BY <1>2 DEF LeaseExpires, faultVars
  <2>2. \A h \in Groups, k \in Ids :
          entry[h][k] = "held" => entry'[h][k] = "held" \/ (h = g /\ k = m)
    BY DEF LeaseExpires, Expire, TypeOK, DbTypeOK
  <2>3. \A t \in Subs : /\ OneCopy(t)' <=> OneCopy(t)
                        /\ \A k : InFlight(t, k)' <=> InFlight(t, k)
    BY <1>0, CopyFrame
  <2>4. \A t \in Subs : GroupOf[t] \in Groups /\ (GroupOf[t] = g => ~InFlight(t, m))
    BY <1>2, MongoAssumption DEF Members
  <2>5. ASSUME timeouts = 0 PROVE Leases'
    <3>1. Leases
      BY <2>5 DEF LeaseInv
    <3>. QED
      BY <2>2, <2>3, <2>4, <3>1 DEF Leases
  <2>. QED
    BY <2>1, <2>3, <2>5 DEF LeaseInv
<1>. QED
  BY <1>1, <1>2

LEMMA LeaseStep == ASSUME TypeOK, LeaseInv, [Next]_vars PROVE LeaseInv'
<1>1. CASE UNCHANGED vars
  BY <1>1, LeaseFrame DEF vars, dbVars, pollVars, leaseVars, faultVars
<1>2. CASE \/ \E p \in Pubs : InsertMany(p) \/ Inserted(p)
           \/ PurgeFloor \/ PurgeDelete
           \/ \E s \in Subs : \/ Subscribe(s) \/ PollTop(s) \/ PollRead(s) \/ PollScan(s)
                              \/ PollSave(s) \/ PollErr(s) \/ PollEnd(s)
  BY <1>2, LeaseFrame
     DEF InsertMany, Inserted, PurgeFloor, PurgeDelete, Subscribe, PollTop, PollRead,
         PollScan, PollSave, PollErr, PollEnd, dbVars, pollVars, leaseVars, faultVars
<1>. QED
  BY <1>1, <1>2, ClaimLease, SendLease, SendClosedLease, TakeLease, SettleLease, DropLease,
     CrashLease, FlushLease, ExpiryLease DEF Next, Poll

\* Until a visibility timeout runs out under a consumer, no two subscriptions of a
\* group have the same message and what is in flight is leased, although claims,
\* flushes and expire_lease() are separate commands without a lock and any of them
\* may fail.
THEOREM LeaseIsExclusive == Spec => []ExclusiveLease
<1>1. Init => TypeOK /\ LeaseInv
  BY TypeInit, LeaseInit
<1>2. TypeOK /\ LeaseInv /\ [Next]_vars => TypeOK' /\ LeaseInv'
  BY TypeStep, LeaseStep
<1>3. LeaseInv => ExclusiveLease
  BY DEF LeaseInv, Leases, ExclusiveLease
<1>. QED
  BY <1>1, <1>2, <1>3, PTL DEF Spec
=============================================================================
