------------------------- MODULE RedisStream_proofs -------------------------
(***************************************************************************)
(* What holds of RedisStream for any groups, subscriptions and messages:   *)
(* the types; as long as the server refuses no XADD, that no message is    *)
(* lost to a group before one of its consumers has acked it; and, until     *)
(* claim_idle runs out under a consumer, that one subscription of a group   *)
(* handles an entry.                                                       *)
(***************************************************************************)
EXTENDS RedisStream, SequenceTheorems, FiniteSetTheorems, WellFoundedInduction,
        TLAPS

-----------------------------------------------------------------------------
(* What Append adds to a queue, and Head and Tail take apart, and what     *)
(* stays without repetitions.                                              *)

LEMMA AppendFacts ==
  ASSUME NEW S, NEW q \in Seq(S), NEW e \in S
  PROVE  /\ Append(q, e) \in Seq(S) /\ Len(Append(q, e)) = Len(q) + 1
         /\ Range(Append(q, e)) = Range(q) \cup {e}
BY AppendProperties, LenProperties DEF Range

LEMMA TailFacts ==
  ASSUME NEW S, NEW q \in Seq(S), q # <<>>
  PROVE  /\ Head(q) \in S /\ Tail(q) \in Seq(S) /\ Len(Tail(q)) = Len(q) - 1
         /\ Range(q) = {Head(q)} \cup Range(Tail(q))
<1>1. \A i \in DOMAIN q : i = 1 \/ (i - 1 \in DOMAIN Tail(q) /\ Tail(q)[i - 1] = q[i])
  OBVIOUS
<1>2. /\ 1 \in DOMAIN q /\ Head(q) = q[1]
      /\ \A i \in DOMAIN Tail(q) : i + 1 \in DOMAIN q /\ Tail(q)[i] = q[i + 1]
  OBVIOUS
<1>. QED
  BY <1>1, <1>2, HeadTailProperties DEF Range

LEMMA EmptyFacts == Range(<<>>) = {} /\ Len(<<>>) = 0 /\ \A S : <<>> \in Seq(S)
BY DEF Range

Distinct(q) == \A i, j \in DOMAIN q : q[i] = q[j] => i = j

LEMMA AppendDistinct ==
  ASSUME NEW S, NEW q \in Seq(S), NEW e \in S, Distinct(q), e \notin Range(q)
  PROVE  Distinct(Append(q, e))
BY DEF Distinct, Range

LEMMA TailDistinct ==
  ASSUME NEW S, NEW q \in Seq(S), q # <<>>, Distinct(q)
  PROVE  Distinct(Tail(q)) /\ Head(q) \notin Range(Tail(q))
BY DEF Distinct, Range

LEMMA EmptyDistinct == Distinct(<<>>)
BY DEF Distinct

-----------------------------------------------------------------------------
(* Sequences.                                                              *)

\* The members of an ascending listing are those of the set.
LEMMA AscendingSeq ==
  ASSUME NEW I, IsFiniteSet(I), NEW q \in Ascending(I)
  PROVE  q \in Seq(I) /\ Range(q) = I
<1>1. Cardinality(I) \in Nat
  BY FS_CardinalityType
<1>2. q \in [1..Cardinality(I) -> I] /\ Range(q) = I
  BY DEF Ascending
<1> QED
  BY <1>1, <1>2, SeqDef

\* Taking out one element leaves elements of the sequence.
LEMMA RemoveAtSeq ==
  ASSUME NEW S, NEW q \in Seq(S), NEW k \in DOMAIN q
  PROVE  RemoveAt(q, k) \in Seq(S) /\ Len(RemoveAt(q, k)) <= Len(q)
<1>1. k \in 1..Len(q) /\ Len(q) \in Nat
  BY LenProperties
<1>2. SubSeq(q, 1, k - 1) \in Seq(S) /\ Len(SubSeq(q, 1, k - 1)) = k - 1
  BY <1>1, SubSeqProperties, ElementOfSeq
<1>3. SubSeq(q, k + 1, Len(q)) \in Seq(S)
      /\ Len(SubSeq(q, k + 1, Len(q))) = Len(q) - k
  BY <1>1, SubSeqProperties, ElementOfSeq
<1> QED
  BY <1>1, <1>2, <1>3, ConcatProperties DEF RemoveAt

\* A longer sequence has the elements of its parts.
LEMMA RangeConcat ==
  ASSUME NEW S, NEW q \in Seq(S), NEW r \in Seq(S)
  PROVE  \A x \in Range(q \o r) : x \in Range(q) \/ x \in Range(r)
<1>1. /\ Len(q) \in Nat /\ DOMAIN q = 1..Len(q)
      /\ Len(r) \in Nat /\ DOMAIN r = 1..Len(r)
  BY LenProperties
<1>2. /\ DOMAIN (q \o r) = 1..(Len(q) + Len(r))
      /\ \A i \in 1..Len(q) + Len(r) :
           (q \o r)[i] = IF i <= Len(q) THEN q[i] ELSE r[i - Len(q)]
  BY ConcatProperties, LenProperties
<1>3. \A i \in 1..(Len(q) + Len(r)) :
        IF i <= Len(q) THEN i \in 1..Len(q) ELSE i - Len(q) \in 1..Len(r)
  BY <1>1
<1> QED
  BY <1>1, <1>2, <1>3 DEF Range

LEMMA RangeAppend ==
  ASSUME NEW S, NEW q \in Seq(S), NEW e \in S
  PROVE  \A x \in Range(Append(q, e)) : x \in Range(q) \/ x = e
<1>1. <<e>> \in Seq(S) /\ Append(q, e) = q \o <<e>>
  BY AppendIsConcat
<1>2. \A x \in Range(<<e>>) : x = e
  BY DEF Range
<1> QED
  BY <1>1, <1>2, RangeConcat

\* A prefix keeps its elements.
LEMMA PrefixSeq ==
  ASSUME NEW S, NEW q \in Seq(S), NEW n \in 0..Len(q)
  PROVE  /\ SubSeq(q, 1, n) \in Seq(S)
         /\ n \in Nat
         /\ \A k \in 1..n : SubSeq(q, 1, n)[k] = q[k] /\ SubSeq(q, 1, n)[k] \in S
<1> DEFINE L == Len(q)
<1>1. L \in Nat /\ n \in 0..L /\ \A k \in 1..n : q[k] \in S
  BY LenProperties, ElementOfSeq
<1> HIDE DEF L
<1>2. 1 \in Int /\ n \in Int
  BY <1>1
<1>3. /\ SubSeq(q, 1, n) \in Seq(S)
      /\ \A k \in 1..(n - 1 + 1) : SubSeq(q, 1, n)[k] = q[1 + k - 1]
  BY <1>1, <1>2, SubSeqProperties
<1>4. n - 1 + 1 = n /\ \A k \in 1..n : 1 + k - 1 = k
  BY <1>1
<1> QED
  BY <1>1, <1>3, <1>4

\* What is left behind a prefix.
LEMMA SuffixSeq ==
  ASSUME NEW S, NEW q \in Seq(S), NEW n \in 1..Len(q)
  PROVE  /\ SubSeq(q, n + 1, Len(q)) \in Seq(S)
         /\ Range(SubSeq(q, n + 1, Len(q))) \subseteq Range(q)
         /\ Len(SubSeq(q, n + 1, Len(q))) = Len(q) - n
         /\ \A i \in 1..(Len(q) - n) : SubSeq(q, n + 1, Len(q))[i] = q[n + i]
<1>1. Len(q) \in Nat /\ DOMAIN q = 1..Len(q)
  BY LenProperties
<1>2. /\ SubSeq(q, n + 1, Len(q)) \in Seq(S)
      /\ Len(SubSeq(q, n + 1, Len(q))) = Len(q) - n
      /\ \A i \in 1..(Len(q) - n) : SubSeq(q, n + 1, Len(q))[i] = q[n + i]
  <2> DEFINE L == Len(q)
  <2>1. L \in Nat /\ n \in 1..L /\ \A i \in (n + 1)..L : q[i] \in S
    BY <1>1, ElementOfSeq
  <2> HIDE DEF L
  <2>2. n + 1 \in Int /\ L \in Int
    BY <2>1
  <2>3. /\ SubSeq(q, n + 1, L) \in Seq(S)
        /\ Len(SubSeq(q, n + 1, L))
             = IF n + 1 <= L THEN L - (n + 1) + 1 ELSE 0
        /\ \A i \in 1..(L - (n + 1) + 1) :
             SubSeq(q, n + 1, L)[i] = q[(n + 1) + i - 1]
    BY <2>1, <2>2, SubSeqProperties
  <2>4. /\ L - (n + 1) + 1 = L - n
        /\ (IF n + 1 <= L THEN L - (n + 1) + 1 ELSE 0) = L - n
        /\ \A i \in 1..(L - n) : (n + 1) + i - 1 = n + i
    BY <2>1
  <2>5. /\ SubSeq(q, n + 1, L) \in Seq(S)
        /\ Len(SubSeq(q, n + 1, L)) = L - n
        /\ \A i \in 1..(L - n) : SubSeq(q, n + 1, L)[i] = q[n + i]
    BY <2>3, <2>4, Zenon
  <2> QED
    BY <2>5 DEF L
<1>3. ASSUME NEW x \in Range(SubSeq(q, n + 1, Len(q))) PROVE x \in Range(q)
  <2>1. PICK i \in 1..(Len(q) - n) : x = q[n + i]
    BY <1>1, <1>2, LenProperties DEF Range
  <2> QED
    BY <1>1, <2>1 DEF Range
<1> QED
  BY <1>2, <1>3

-----------------------------------------------------------------------------
(* Types.                                                                  *)

\* Nothing that a subscription handles loses its type when its group is
\* delivered more.
LEMMA SubTypeKept ==
  ASSUME NEW s \in Subs, TypeOK, ServerTypeOK',
         last'[GroupOf[s]] >= last[GroupOf[s]],
         poll'[s] = poll[s], entries'[s] = entries[s], buffer'[s] = buffer[s],
         held'[s] = held[s], verdicts'[s] = verdicts[s], flush'[s] = flush[s]
  PROVE  SubTypeOK(s)'
<1> DEFINE D == 1..last[GroupOf[s]]
           E == 1..last'[GroupOf[s]]
<1>1. GroupOf[s] \in Groups
  BY RedisAssumption
<1>2. D \subseteq E
  BY <1>1, LenProperties DEF TypeOK, ServerTypeOK
<1>3. Seq(D) \subseteq Seq(E) /\ D \X {"ack", "nack"} \subseteq E \X {"ack", "nack"}
  BY <1>2, SeqMonotonic
<1>4. Seq(D \X {"ack", "nack"}) \subseteq Seq(E \X {"ack", "nack"})
  BY <1>3, SeqMonotonic
<1> HIDE DEF D, E
<1> QED
  BY <1>2, <1>3, <1>4 DEF TypeOK, SubTypeOK, D, E

\* XREADGROUP delivers entries of the log, in order and none twice.
LEMMA DeliverType ==
  ASSUME TypeOK, NEW g \in Groups
  PROVE  /\ IsFiniteSet(Fresh(g))
         /\ last[g] + Cardinality(Fresh(g)) \in last[g]..Len(log)
         /\ Fresh(g) = (last[g] + 1)..(last[g] + Cardinality(Fresh(g)))
<1>1. /\ last[g] \in Nat /\ Len(log) \in Nat /\ last[g] <= Len(log)
      /\ DOMAIN log = 1..Len(log) /\ BatchSize \in Nat
  BY RedisAssumption, LenProperties DEF TypeOK, ServerTypeOK
<1> DEFINE hi == IF last[g] + BatchSize <= Len(log) THEN last[g] + BatchSize
                 ELSE Len(log)
<1>2. Fresh(g) = (last[g] + 1)..hi /\ hi \in Nat /\ hi >= last[g]
  BY <1>1 DEF Fresh
<1>3. IsFiniteSet(Fresh(g)) /\ Cardinality(Fresh(g)) = hi - last[g]
  <2>1. last[g] + 1 \in Int /\ hi \in Int
    BY <1>1, <1>2
  <2>2. /\ IsFiniteSet((last[g] + 1)..hi)
        /\ Cardinality((last[g] + 1)..hi)
             = IF last[g] + 1 > hi THEN 0 ELSE hi - (last[g] + 1) + 1
    BY <2>1, FS_Interval
  <2> HIDE DEF hi
  <2> QED
    BY <1>1, <1>2, <2>2
<1> QED
  BY <1>1, <1>2, <1>3

\* The server's variables keep their types when a poller reads.
LEMMA DeliverServer ==
  ASSUME TypeOK, NEW g \in Groups, Deliver(g), UNCHANGED <<log, groups, idle, done>>
  PROVE  /\ ServerTypeOK'
         /\ \A h \in Groups : last'[h] >= last[h]
         /\ Fresh(g) \subseteq 1..last'[g]
<1>1. \A h \in Groups : last[h] \in 0..Len(log)
  BY DEF TypeOK, ServerTypeOK
<1>2. /\ last' \in [Groups -> 0..Len(log)]
      /\ \A h \in Groups : last'[h] >= last[h]
      /\ last'[g] = last[g] + Cardinality(Fresh(g))
  BY <1>1, DeliverType, LenProperties DEF TypeOK, ServerTypeOK, Deliver
<1>3. Fresh(g) \subseteq 1..last'[g]
  BY <1>1, <1>2, DeliverType, LenProperties DEF TypeOK, ServerTypeOK
<1>4. \A h \in Groups : idle[h] \subseteq pel'[h] /\ pel'[h] \subseteq 1..last'[h]
  <2> TAKE h \in Groups
  <2>1. idle[h] \subseteq pel[h] /\ pel[h] \subseteq 1..last[h] /\ last[h] \in Nat
    BY <1>1, LenProperties DEF TypeOK, ServerTypeOK
  <2>2. 1..last[h] \subseteq 1..last'[h]
    BY <1>1, <1>2, <2>1, LenProperties DEF TypeOK, ServerTypeOK
  <2>3. pel'[h] = IF h = g THEN pel[h] \cup Fresh(g) ELSE pel[h]
    BY DEF Deliver, TypeOK, ServerTypeOK
  <2> QED
    BY <1>3, <2>1, <2>2, <2>3
<1> QED
  BY <1>2, <1>3, <1>4 DEF TypeOK, ServerTypeOK, Deliver

\* A step of one subscription, whatever it does to its own state.
LEMMA TypeStep ==
  ASSUME TypeOK, NEW s \in Subs, ServerTypeOK', CountTypeOK',
         DOMAIN poll' = Subs, DOMAIN entries' = Subs,
         DOMAIN buffer' = Subs, DOMAIN held' = Subs, DOMAIN verdicts' = Subs,
         DOMAIN flush' = Subs, dropped' \subseteq Subs, broken' \subseteq Subs,
         SubTypeOK(s)', \A g \in Groups : last'[g] >= last[g],
         \A t \in Subs \ {s} :
           /\ poll'[t] = poll[t] /\ entries'[t] = entries[t]
           /\ buffer'[t] = buffer[t] /\ held'[t] = held[t]
           /\ verdicts'[t] = verdicts[t] /\ flush'[t] = flush[t]
  PROVE  TypeOK'
<1>1. \A t \in Subs \ {s} : SubTypeOK(t)'
  <2> TAKE t \in Subs \ {s}
  <2>1. GroupOf[t] \in Groups
    BY RedisAssumption
  <2> QED
    BY <2>1, SubTypeKept
<1>2. \A t \in Subs : SubTypeOK(t)'
  BY <1>1
<1> QED
  BY <1>2 DEF TypeOK

\* The steps of a poller that leave the server alone.
LEMMA PollLocalType ==
  ASSUME TypeOK, NEW s \in Subs,
         \/ PollTop(s) \/ PollReadErr(s) \/ PollDone(s) \/ SendNext(s)
         \/ SendClosed(s)
  PROVE  TypeOK'
<1>0. ServerTypeOK' /\ \A g \in Groups : last'[g] >= last[g]
  <2>1. UNCHANGED serverVars
    BY DEF PollTop, PollReadErr, PollDone, SendNext, SendClosed
  <2>2. \A g \in Groups : last[g] \in Nat
    BY LenProperties DEF TypeOK, ServerTypeOK
  <2> QED
    BY <2>1, <2>2 DEF TypeOK, ServerTypeOK, serverVars, PollTop, PollReadErr,
         PollDone, SendNext, SendClosed
<1>1. UNCHANGED last
  BY DEF PollTop, PollReadErr, PollDone, SendNext, SendClosed, serverVars
<1>2. CASE PollTop(s) \/ PollReadErr(s) \/ PollDone(s) \/ SendClosed(s)
  <2>1. CountTypeOK'
    BY <1>2, RedisAssumption DEF PollTop, PollReadErr, PollDone, SendClosed,
         Refused, TypeOK, CountTypeOK, countVars
  <2>2. SubTypeOK(s)'
    BY <1>1, <1>2 DEF PollTop, PollReadErr, PollDone, SendClosed, TypeOK,
         SubTypeOK, leaseVars
  <2>3. UNCHANGED <<leaseVars, broken, entries>>
    BY <1>2 DEF PollTop, PollReadErr, PollDone, SendClosed
  <2>4. /\ DOMAIN poll' = Subs
        /\ \A t \in Subs \ {s} : poll'[t] = poll[t]
    BY <1>2 DEF PollTop, PollReadErr, PollDone, SendClosed, TypeOK
  <2> QED
    BY <1>0, <2>1, <2>2, <2>3, <2>4, TypeStep DEF TypeOK, leaseVars
<1>3. CASE SendNext(s)
  <2>1. CountTypeOK'
    BY <1>3 DEF SendNext, TypeOK, CountTypeOK, countVars
  <2>2. SubTypeOK(s)'
    <3> DEFINE D == 1..last[GroupOf[s]]
    <3>1. entries[s] \in Seq(D) /\ entries[s] # <<>> /\ buffer[s] \in Seq(D)
      BY <1>3 DEF SendNext, TypeOK, SubTypeOK
    <3>2. Head(entries[s]) \in D /\ Tail(entries[s]) \in Seq(D)
      BY <3>1, HeadTailProperties
    <3>3. /\ Append(buffer[s], Head(entries[s])) \in Seq(D)
          /\ Len(Append(buffer[s], Head(entries[s]))) = Len(buffer[s]) + 1
      BY <3>1, <3>2, AppendProperties
    <3>4. Len(buffer[s]) + 1 <= BufferSize
      BY <1>3, <3>1, RedisAssumption, LenProperties DEF SendNext, HasRoom
    <3> HIDE DEF D
    <3>5. /\ entries'[s] \in Seq(D) /\ buffer'[s] \in Seq(D)
          /\ Len(buffer'[s]) <= BufferSize
      BY <1>3, <3>2, <3>3, <3>4 DEF SendNext, TypeOK
    <3> QED
      BY <1>1, <1>3, <3>5 DEF SendNext, TypeOK, SubTypeOK, D
  <2> QED
    BY <1>0, <1>3, <2>1, <2>2, TypeStep DEF SendNext, TypeOK
<1> QED
  BY <1>2, <1>3

\* XACK only takes entries off the pending list.
LEMMA SettledServer ==
  ASSUME TypeOK, NEW g \in Groups, NEW I, Settled(g, I),
         UNCHANGED <<log, groups, last, done>>
  PROVE  ServerTypeOK'
BY DEF TypeOK, ServerTypeOK, Settled

\* XADD only appends to the log.
LEMMA LogGrows ==
  ASSUME TypeOK, NEW q \in Seq(Msgs), log' = log \o q,
         UNCHANGED <<groups, last, pel, idle, done>>
  PROVE  /\ ServerTypeOK'
         /\ Len(log') = Len(log) + Len(q)
         /\ DOMAIN log \subseteq DOMAIN log'
         /\ \A i \in DOMAIN log : log'[i] = log[i]
         /\ \A k \in DOMAIN q : /\ Len(log) + k \in DOMAIN log'
                                /\ log'[Len(log) + k] = q[k]
<1>1. log \in Seq(Msgs) /\ Len(log) \in Nat /\ Len(q) \in Nat
      /\ DOMAIN log = 1..Len(log) /\ DOMAIN q = 1..Len(q)
  BY LenProperties DEF TypeOK, ServerTypeOK
<1>2. /\ log' \in Seq(Msgs) /\ Len(log') = Len(log) + Len(q)
      /\ \A i \in 1..Len(log) + Len(q) :
           log'[i] = IF i <= Len(log) THEN log[i] ELSE q[i - Len(log)]
  BY <1>1, ConcatProperties
<1>3. DOMAIN log' = 1..(Len(log) + Len(q))
  BY <1>2, LenProperties
<1>4. ServerTypeOK'
  <2>1. 0..Len(log) \subseteq 0..Len(log')
    BY <1>1, <1>2
  <2> QED
    BY <1>2, <2>1 DEF TypeOK, ServerTypeOK
<1>5. ASSUME NEW k \in DOMAIN q
      PROVE  Len(log) + k \in DOMAIN log' /\ log'[Len(log) + k] = q[k]
  <2>1. k \in 1..Len(q) /\ Len(log) + k \in 1..(Len(log) + Len(q))
        /\ ~(Len(log) + k <= Len(log)) /\ Len(log) + k - Len(log) = k
    BY <1>1
  <2> QED
    BY <1>2, <1>3, <2>1
<1>6. \A i \in DOMAIN log : i \in DOMAIN log' /\ log'[i] = log[i]
  BY <1>1, <1>2, <1>3
<1> QED
  BY <1>2, <1>4, <1>5, <1>6

\* The steps of a poller that change the server's state.
LEMMA PollServerType ==
  ASSUME TypeOK, NEW s \in Subs,
         \/ Subscribe(s) \/ PollRead(s) \/ PollClaim(s) \/ SkipGarbled(s)
         \/ RequeueAdd(s) \/ RequeueAck(s)
  PROVE  TypeOK'
<1> DEFINE g == GroupOf[s]
           D == 1..last[g]
<1>g. g \in Groups
  BY RedisAssumption
<1>e. /\ entries[s] \in Seq(D)
      /\ entries[s] # <<>> => Head(entries[s]) \in D /\ Tail(entries[s]) \in Seq(D)
  <2>1. entries[s] \in Seq(D)
    BY DEF TypeOK, SubTypeOK
  <2> QED
    BY <2>1, HeadTailProperties
<1>c. CountTypeOK'
  BY RedisAssumption DEF Subscribe, PollRead, PollClaim, SkipGarbled, RequeueAdd,
     RequeueAck, Answered, Refused, TypeOK, CountTypeOK, countVars
<1>l. UNCHANGED <<leaseVars, broken>>
  BY DEF Subscribe, PollRead, PollClaim, SkipGarbled, RequeueAdd, RequeueAck
<1>p. /\ DOMAIN poll' = Subs /\ DOMAIN entries' = Subs
      /\ \A t \in Subs \ {s} : poll'[t] = poll[t] /\ entries'[t] = entries[t]
  BY DEF Subscribe, PollRead, PollClaim, SkipGarbled, RequeueAdd, RequeueAck,
     TypeOK
<1>n. \A h \in Groups : last[h] \in Nat
  BY LenProperties DEF TypeOK, ServerTypeOK
<1> HIDE DEF g, D
<1>1. CASE Subscribe(s)
  <2>1. ServerTypeOK' /\ last' = last
    BY <1>1, <1>g DEF Subscribe, TypeOK, ServerTypeOK, g
  <2>2. SubTypeOK(s)'
    BY <1>1, <1>l, <2>1 DEF Subscribe, TypeOK, SubTypeOK, leaseVars
  <2> QED
    BY <1>c, <1>l, <1>p, <1>n, <2>1, <2>2, TypeStep DEF TypeOK, leaseVars
<1>2. CASE PollRead(s)
  <2>1. /\ ServerTypeOK' /\ \A h \in Groups : last'[h] >= last[h]
        /\ Fresh(g) \subseteq 1..last'[g]
    BY <1>2, <1>g, DeliverServer DEF PollRead, g
  <2>2. PICK q \in Ascending(Fresh(g)) : entries' = [entries EXCEPT ![s] = q]
    BY <1>2 DEF PollRead, g
  <2>3. entries'[s] \in Seq(1..last'[g])
    <3>1. q \in Seq(Fresh(g))
      BY <1>g, <2>2, DeliverType, AscendingSeq
    <3>2. Seq(Fresh(g)) \subseteq Seq(1..last'[g])
      BY <2>1, SeqMonotonic
    <3> QED
      BY <2>2, <3>1, <3>2 DEF TypeOK
  <2>4. SubTypeOK(s)'
    <3>1. D \subseteq 1..last'[g]
      BY <1>g, <1>n, <2>1, LenProperties DEF ServerTypeOK, D
    <3>2. Seq(D) \subseteq Seq(1..last'[g])
          /\ D \X {"ack", "nack"} \subseteq (1..last'[g]) \X {"ack", "nack"}
      BY <3>1, SeqMonotonic
    <3>3. Seq(D \X {"ack", "nack"}) \subseteq Seq((1..last'[g]) \X {"ack", "nack"})
      BY <3>2, SeqMonotonic
    <3>4. poll'[s] = "claim"
      BY <1>2 DEF PollRead, TypeOK
    <3> QED
      BY <1>l, <2>3, <3>1, <3>2, <3>3, <3>4 DEF TypeOK, SubTypeOK, leaseVars, g, D
  <2> QED
    BY <1>c, <1>l, <1>p, <2>1, <2>4, TypeStep DEF TypeOK, leaseVars
<1>3. CASE PollClaim(s)
  <2>1. ServerTypeOK' /\ last' = last
    <3>1. UNCHANGED <<log, groups, last, pel, nacks, timeouts>>
      BY <1>3 DEF PollClaim
    <3>2. \/ idle' = idle
          \/ idle' = [idle EXCEPT ![g] = @ \ IdlePending(g)]
      BY <1>3 DEF PollClaim, g
    <3>3. DOMAIN idle' = Groups /\ \A h \in Groups : idle'[h] \subseteq idle[h]
      BY <3>2 DEF TypeOK, ServerTypeOK
    <3>4. done' = done
      BY <1>3 DEF PollClaim
    <3> QED
      BY <3>1, <3>3, <3>4 DEF TypeOK, ServerTypeOK
  <2>2. entries'[s] \in Seq(D)
    <3>1. CASE entries' = entries
      BY <1>e, <3>1
    <3>2. ASSUME NEW q \in Ascending(IdlePending(g)),
                 entries' = [entries EXCEPT ![s] = @ \o q]
          PROVE  entries'[s] \in Seq(D)
      <4>1. IdlePending(g) \subseteq D
        BY <1>g DEF IdlePending, TypeOK, ServerTypeOK, D
      <4>2. IsFiniteSet(IdlePending(g))
        <5>1. 1 \in Int /\ last[g] \in Int
          BY <1>g, <1>n
        <5>2. IsFiniteSet(D)
          BY <5>1, FS_Interval DEF D
        <5> QED
          BY <4>1, <5>2, FS_Subset
      <4>3. q \in Seq(D)
        BY <4>1, <4>2, <3>2, AscendingSeq, SeqMonotonic
      <4> QED
        BY <1>e, <3>2, <4>3, ConcatProperties DEF TypeOK
    <3> QED
      BY <1>3, <3>1, <3>2 DEF PollClaim, g
  <2>3. SubTypeOK(s)'
    BY <1>3, <1>l, <2>1, <2>2 DEF PollClaim, TypeOK, SubTypeOK, leaseVars, g, D
  <2> QED
    BY <1>c, <1>l, <1>p, <1>n, <2>1, <2>3, TypeStep DEF TypeOK, leaseVars
<1>4. CASE SkipGarbled(s) \/ RequeueAck(s)
  <2>1. ServerTypeOK'
    BY <1>4, <1>g, SettledServer DEF SkipGarbled, RequeueAck, TypeOK,
       ServerTypeOK, g
  <2>2. last' = last
    BY <1>4 DEF SkipGarbled, RequeueAck
  <2>3. entries'[s] \in Seq(D)
    BY <1>4, <1>e, EmptySeq DEF SkipGarbled, RequeueAck, TypeOK
  <2>4. poll'[s] \in {"send", "top"}
    BY <1>4 DEF SkipGarbled, RequeueAck, TypeOK
  <2>5. SubTypeOK(s)'
    BY <1>l, <2>2, <2>3, <2>4 DEF TypeOK, SubTypeOK, leaseVars, g, D
  <2> QED
    BY <1>c, <1>l, <1>p, <1>n, <2>1, <2>2, <2>5, TypeStep DEF TypeOK, leaseVars
<1>5. CASE RequeueAdd(s)
  <2>1. last' = last /\ entries' = entries /\ poll'[s] = "ack"
    BY <1>5 DEF RequeueAdd, TypeOK
  <2>2. ServerTypeOK'
    <3>1. CASE log' = log
      BY <1>5, <3>1 DEF RequeueAdd, TypeOK, ServerTypeOK
    <3>2. CASE log' = Append(log, log[Head(entries[s])])
      <4>1. log \in Seq(Msgs) /\ D \subseteq DOMAIN log
        BY <1>g, <1>n, LenProperties DEF TypeOK, ServerTypeOK, D
      <4>2. Head(entries[s]) \in D
        BY <1>5, <1>e DEF RequeueAdd, TypeOK, SubTypeOK
      <4>3. log[Head(entries[s])] \in Msgs
        BY <4>1, <4>2, ElementOfSeq, LenProperties
      <4>4. /\ <<log[Head(entries[s])]>> \in Seq(Msgs)
            /\ log' = log \o <<log[Head(entries[s])]>>
        BY <3>2, <4>1, <4>3, AppendIsConcat
      <4> QED
        BY <1>5, <4>4, LogGrows DEF RequeueAdd
    <3> QED
      BY <1>5, <3>1, <3>2 DEF RequeueAdd
  <2>3. SubTypeOK(s)'
    BY <1>5, <1>l, <2>1 DEF RequeueAdd, TypeOK, SubTypeOK, leaseVars
  <2> QED
    BY <1>c, <1>l, <1>p, <1>n, <2>1, <2>2, <2>3, TypeStep DEF TypeOK, leaseVars
<1> QED
  BY <1>1, <1>2, <1>3, <1>4, <1>5

\* The steps of the consumer.
LEMMA ConsumeType ==
  ASSUME TypeOK, NEW s \in Subs, Consume(s)
  PROVE  TypeOK'
<1> DEFINE D == 1..last[GroupOf[s]]
           V == D \X {"ack", "nack"}
<1>g. GroupOf[s] \in Groups
  BY RedisAssumption
<1>1. /\ buffer[s] \in Seq(D) /\ held[s] \in Seq(D) /\ verdicts[s] \in Seq(V)
      /\ Len(buffer[s]) <= BufferSize /\ Len(held[s]) <= MaxHeld
  BY DEF TypeOK, SubTypeOK
<1>n. /\ \A h \in Groups : last[h] \in Nat
      /\ BufferSize \in Nat /\ MaxHeld \in Nat
  BY RedisAssumption, LenProperties DEF TypeOK, ServerTypeOK
<1>u. UNCHANGED <<serverVars, pollVars, flush, broken>>
  BY DEF Consume, Take, Ack, Nack, DropStream, serverVars
<1> HIDE DEF D, V
<1>s. ServerTypeOK' /\ last' = last
  <2>1. UNCHANGED <<log, groups, last, pel, idle>>
    BY <1>u DEF serverVars
  <2>2. done' \in [Groups -> SUBSET Msgs]
    <3>1. ASSUME NEW k \in DOMAIN held[s] PROVE log[held[s][k]] \in Msgs
      <4>1. held[s][k] \in D
        BY <1>1, <3>1, ElementOfSeq, LenProperties
      <4>2. log \in Seq(Msgs) /\ held[s][k] \in 1..Len(log)
        BY <1>g, <1>n, <4>1, LenProperties DEF TypeOK, ServerTypeOK, D
      <4> QED
        BY <4>2, ElementOfSeq
    <3>2. CASE Ack(s)
      BY <3>1, <3>2, <1>g DEF Ack, TypeOK, ServerTypeOK
    <3>3. CASE UNCHANGED done
      BY <3>3 DEF TypeOK, ServerTypeOK
    <3> QED
      BY <3>2, <3>3 DEF Consume, Take, Nack, DropStream
  <2> QED
    BY <2>1, <2>2 DEF TypeOK, ServerTypeOK
<1>2. CASE Take(s)
  <2>1. Head(buffer[s]) \in D /\ Tail(buffer[s]) \in Seq(D)
        /\ Len(Tail(buffer[s])) = Len(buffer[s]) - 1
    BY <1>1, <1>2, HeadTailProperties DEF Take
  <2>2. /\ Append(held[s], Head(buffer[s])) \in Seq(D)
        /\ Len(Append(held[s], Head(buffer[s]))) = Len(held[s]) + 1
    BY <1>1, <2>1, AppendProperties
  <2>3. Len(buffer[s]) \in Nat /\ Len(held[s]) \in Nat
    BY <1>1, LenProperties
  <2>4. /\ buffer'[s] \in Seq(D) /\ Len(buffer'[s]) <= BufferSize
        /\ held'[s] \in Seq(D) /\ Len(held'[s]) <= MaxHeld
        /\ verdicts'[s] \in Seq(V)
    BY <1>1, <1>2, <1>n, <2>1, <2>2, <2>3 DEF Take, TypeOK
  <2>5. CountTypeOK'
    BY <1>2 DEF Take, TypeOK, CountTypeOK, countVars
  <2>6. SubTypeOK(s)'
    BY <1>u, <1>s, <2>4 DEF TypeOK, SubTypeOK, pollVars, D, V
  <2>7. /\ DOMAIN buffer' = Subs /\ DOMAIN held' = Subs
        /\ \A t \in Subs \ {s} : buffer'[t] = buffer[t] /\ held'[t] = held[t]
        /\ UNCHANGED <<verdicts, dropped>>
    BY <1>2 DEF Take, TypeOK
  <2> QED
    BY <1>n, <1>s, <1>u, <2>5, <2>6, <2>7, TypeStep DEF TypeOK, pollVars
<1>3. CASE Ack(s) \/ Nack(s)
  <2>1. PICK k \in DOMAIN held[s], d \in {"ack", "nack"} : Settle(s, k, d)
    BY <1>3 DEF Ack, Nack
  <2>2. held[s][k] \in D
    BY <1>1, <2>1, ElementOfSeq, LenProperties
  <2>3. <<held[s][k], d>> \in V
    BY <2>2 DEF V
  <2>4. Append(verdicts[s], <<held[s][k], d>>) \in Seq(V)
    BY <1>1, <2>3, AppendProperties
  <2>5. /\ RemoveAt(held[s], k) \in Seq(D)
        /\ Len(RemoveAt(held[s], k)) <= Len(held[s])
    BY <1>1, <2>1, RemoveAtSeq
  <2>6. Len(RemoveAt(held[s], k)) <= MaxHeld
    BY <1>1, <1>n, <2>5, LenProperties
  <2>7. /\ held'[s] \in Seq(D) /\ Len(held'[s]) <= MaxHeld
        /\ verdicts'[s] \in Seq(V)
    BY <2>1, <2>4, <2>5, <2>6 DEF Settle, TypeOK
  <2>8. UNCHANGED <<buffer, dropped>>
    BY <1>3 DEF Ack, Nack
  <2>9. CountTypeOK'
    BY <1>3, RedisAssumption DEF Ack, Nack, TypeOK, CountTypeOK, countVars
  <2>10. SubTypeOK(s)'
    BY <1>1, <1>u, <1>s, <2>7, <2>8 DEF TypeOK, SubTypeOK, pollVars, D, V
  <2>11. /\ DOMAIN held' = Subs /\ DOMAIN verdicts' = Subs
         /\ \A t \in Subs \ {s} : held'[t] = held[t] /\ verdicts'[t] = verdicts[t]
    BY <2>1 DEF Settle, TypeOK
  <2> QED
    BY <1>n, <1>s, <1>u, <2>8, <2>9, <2>10, <2>11, TypeStep DEF TypeOK, pollVars
<1>4. CASE DropStream(s)
  <2> DEFINE N == [k \in DOMAIN buffer[s] |-> <<buffer[s][k], "nack">>]
  <2>1. N \in Seq(V)
    <3>1. Len(buffer[s]) \in Nat /\ DOMAIN buffer[s] = 1..Len(buffer[s])
      BY <1>1, LenProperties
    <3>2. \A k \in DOMAIN buffer[s] : <<buffer[s][k], "nack">> \in V
      BY <1>1, <3>1, ElementOfSeq DEF V
    <3>3. N \in [1..Len(buffer[s]) -> V]
      BY <3>1, <3>2
    <3> QED
      BY <3>1, <3>3, SeqDef
  <2> HIDE DEF N
  <2>2. verdicts[s] \o N \in Seq(V)
    BY <1>1, <2>1, ConcatProperties
  <2>3. /\ buffer'[s] = <<>> /\ verdicts'[s] \in Seq(V) /\ held' = held
    BY <1>4, <2>2 DEF DropStream, TypeOK, N
  <2>4. CountTypeOK'
    BY <1>4 DEF DropStream, TypeOK, CountTypeOK, countVars
  <2>5. <<>> \in Seq(D) /\ Len(<<>>) = 0
    BY EmptySeq
  <2>6. SubTypeOK(s)'
    BY <1>1, <1>n, <1>u, <1>s, <2>3, <2>5
       DEF TypeOK, SubTypeOK, pollVars, D, V
  <2>7. /\ DOMAIN buffer' = Subs /\ DOMAIN verdicts' = Subs
        /\ \A t \in Subs \ {s} : buffer'[t] = buffer[t] /\ verdicts'[t] = verdicts[t]
        /\ dropped' \subseteq Subs
    BY <1>4 DEF DropStream, TypeOK
  <2> QED
    BY <1>n, <1>s, <1>u, <2>3, <2>4, <2>6, <2>7, TypeStep DEF TypeOK, pollVars
<1> QED
  BY <1>2, <1>3, <1>4 DEF Consume

\* The steps of the flusher.
LEMMA FlushType ==
  ASSUME TypeOK, NEW s \in Subs, Flush(s)
  PROVE  TypeOK'
<1> DEFINE D == 1..last[GroupOf[s]]
           V == D \X {"ack", "nack"}
<1>g. GroupOf[s] \in Groups
  BY RedisAssumption
<1>1. /\ verdicts[s] \in Seq(V)
      /\ flush[s] \in [step : {"idle", "add", "ack"}, ids : SUBSET D,
                       again : Seq(Msgs)]
  BY DEF TypeOK, SubTypeOK
<1>n. \A h \in Groups : last[h] \in Nat
  BY LenProperties DEF TypeOK, ServerTypeOK
<1>u. UNCHANGED <<pollVars, buffer, held, dropped, broken, last>>
  BY DEF Flush, FlushTake, FlushAdd, FlushAck, serverVars
<1>c. CountTypeOK'
  BY RedisAssumption DEF Flush, FlushTake, FlushAdd, FlushAck, Answered, Refused,
     TypeOK, CountTypeOK, countVars
<1> HIDE DEF D, V
<1>2. CASE FlushTake(s)
  <2>1. ServerTypeOK'
    BY <1>2 DEF FlushTake, TypeOK, ServerTypeOK, serverVars
  <2>2. PICK n \in 1..Len(verdicts[s]) :
          LET W == SubSeq(verdicts[s], 1, n)
          IN /\ \E q \in Ascending({k \in 1..n : W[k][2] = "nack"}) :
                  flush' = [flush EXCEPT ![s] =
                             [step |-> "add", ids |-> {W[k][1] : k \in 1..n},
                              again |-> [j \in DOMAIN q |-> log[W[q[j]][1]]]]]
             /\ verdicts' = [verdicts EXCEPT ![s] = SubSeq(@, n + 1, Len(@))]
    BY <1>2 DEF FlushTake
  <2> DEFINE W == SubSeq(verdicts[s], 1, n)
             K == {k \in 1..n : W[k][2] = "nack"}
  <2>3. n \in Nat /\ \A k \in 1..n : W[k] = verdicts[s][k] /\ W[k] \in V
    BY <1>1, PrefixSeq
  <2> HIDE DEF W
  <2>4. PICK q \in Ascending(K) :
          flush' = [flush EXCEPT ![s] =
                     [step |-> "add", ids |-> {W[k][1] : k \in 1..n},
                      again |-> [j \in DOMAIN q |-> log[W[q[j]][1]]]]]
    BY <2>2 DEF W
  <2>5. \A k \in 1..n : W[k][1] \in D /\ log[W[k][1]] \in Msgs
    <3>1. log \in Seq(Msgs) /\ \A i \in D : i \in 1..Len(log)
      BY <1>g, <1>n, LenProperties DEF TypeOK, ServerTypeOK, D
    <3> QED
      BY <2>3, <3>1, ElementOfSeq DEF V
  <2>6. [j \in DOMAIN q |-> log[W[q[j]][1]]] \in Seq(Msgs)
    <3>1. 1 \in Int /\ n \in Int
      BY <2>3
    <3>2. IsFiniteSet(1..n)
      BY <3>1, FS_Interval
    <3>3. IsFiniteSet(K)
      BY <3>2, FS_Subset
    <3>4. q \in Seq(K)
      BY <2>4, <3>3, AscendingSeq
    <3>5. /\ Len(q) \in Nat /\ DOMAIN q = 1..Len(q)
          /\ \A j \in DOMAIN q : q[j] \in 1..n
      BY <3>4, LenProperties, ElementOfSeq
    <3>6. [j \in DOMAIN q |-> log[W[q[j]][1]]] \in [1..Len(q) -> Msgs]
      BY <2>5, <3>5
    <3> QED
      BY <3>5, <3>6, SeqDef
  <2>7. /\ flush'[s] \in [step : {"idle", "add", "ack"}, ids : SUBSET D,
                          again : Seq(Msgs)]
        /\ DOMAIN flush' = Subs /\ \A t \in Subs \ {s} : flush'[t] = flush[t]
    BY <2>4, <2>5, <2>6 DEF TypeOK
  <2>8. /\ verdicts'[s] \in Seq(V)
        /\ DOMAIN verdicts' = Subs
        /\ \A t \in Subs \ {s} : verdicts'[t] = verdicts[t]
    BY <1>1, <2>2, SuffixSeq DEF TypeOK
  <2>9. SubTypeOK(s)'
    BY <1>u, <2>7, <2>8 DEF TypeOK, SubTypeOK, pollVars, D, V
  <2>10. /\ DOMAIN flush' = Subs /\ DOMAIN verdicts' = Subs
         /\ \A t \in Subs \ {s} : flush'[t] = flush[t] /\ verdicts'[t] = verdicts[t]
    BY <2>7, <2>8
  <2> QED
    BY <1>c, <1>n, <1>u, <2>1, <2>9, <2>10, TypeStep DEF TypeOK, pollVars
<1>3. CASE FlushAdd(s)
  <2>1. ServerTypeOK'
    <3>1. CASE log' = log
      BY <1>3, <3>1 DEF FlushAdd, TypeOK, ServerTypeOK
    <3>2. ASSUME NEW q \in Seq(Msgs), log' = log \o q PROVE ServerTypeOK'
      BY <1>3, <3>2, LogGrows DEF FlushAdd
    <3>3. \A n \in 0..(Len(flush[s].again) - 1) :
            SubSeq(flush[s].again, 1, n) \in Seq(Msgs)
      BY <1>1, PrefixSeq
    <3> QED
      BY <1>1, <1>3, <3>1, <3>2, <3>3 DEF FlushAdd
  <2>2. flush'[s] = [flush[s] EXCEPT !.step = "ack", !.again = <<>>]
        /\ UNCHANGED verdicts
    BY <1>3 DEF FlushAdd, TypeOK
  <2>3. SubTypeOK(s)'
    <3>1. flush'[s] \in [step : {"idle", "add", "ack"}, ids : SUBSET D,
                         again : Seq(Msgs)]
      BY <1>1, <2>2, EmptySeq
    <3> QED
      BY <1>u, <2>2, <3>1 DEF TypeOK, SubTypeOK, pollVars, D
  <2>4. DOMAIN flush' = Subs /\ \A t \in Subs \ {s} : flush'[t] = flush[t]
    BY <1>3 DEF FlushAdd, TypeOK
  <2> QED
    BY <1>c, <1>n, <1>u, <2>1, <2>2, <2>3, <2>4, TypeStep DEF TypeOK, pollVars
<1>4. CASE FlushAck(s)
  <2>1. ServerTypeOK'
    BY <1>4, <1>g, SettledServer DEF FlushAck, TypeOK, ServerTypeOK
  <2>2. /\ flush'[s] = NoFlush /\ UNCHANGED verdicts
        /\ DOMAIN flush' = Subs /\ \A t \in Subs \ {s} : flush'[t] = flush[t]
    BY <1>4 DEF FlushAck, TypeOK
  <2>3. SubTypeOK(s)'
    BY <1>u, <2>2, EmptySeq DEF TypeOK, SubTypeOK, pollVars, NoFlush
  <2> QED
    BY <1>c, <1>n, <1>u, <2>1, <2>2, <2>3, TypeStep DEF TypeOK, pollVars
<1> QED
  BY <1>2, <1>3, <1>4 DEF Flush

\* Publishing, passing time, crashes and broken connections.
LEMMA OutsideType ==
  ASSUME TypeOK,
         \/ \E m \in Msgs : Publish(m)
         \/ \E s \in Subs : Break(s) \/ Crash(s)
         \/ \E g \in Groups : \E i \in pel[g] : IdlePasses(g, i)
  PROVE  TypeOK'
<1>n. \A h \in Groups : last[h] \in Nat
  BY LenProperties DEF TypeOK, ServerTypeOK
<1>1. ASSUME NEW m \in Msgs, Publish(m) PROVE TypeOK'
  <2>1. log \in Seq(Msgs) /\ <<m>> \in Seq(Msgs) /\ log' = log \o <<m>>
    BY <1>1, AppendIsConcat DEF Publish, TypeOK, ServerTypeOK
  <2>2. ServerTypeOK' /\ last' = last
    BY <1>1, <2>1, LogGrows DEF Publish
  <2>3. \A s \in Subs : SubTypeOK(s)'
    BY <1>1, <2>2 DEF Publish, TypeOK, SubTypeOK, pollVars, leaseVars
  <2> QED
    BY <1>1, <2>2, <2>3 DEF Publish, TypeOK, CountTypeOK, pollVars, leaseVars,
       countVars
<1>2. ASSUME NEW s \in Subs, Crash(s) PROVE TypeOK'
  <2>1. ServerTypeOK' /\ last' = last
    BY <1>2 DEF Crash, serverVars, TypeOK, ServerTypeOK
  <2>2. SubTypeOK(s)'
    BY <1>2, <2>1, EmptySeq, RedisAssumption
       DEF Crash, TypeOK, SubTypeOK, NoFlush
  <2>3. CountTypeOK'
    BY <1>2 DEF Crash, TypeOK, CountTypeOK, countVars
  <2> QED
    BY <1>2, <1>n, <2>1, <2>2, <2>3, TypeStep DEF Crash, TypeOK
<1>3. ASSUME NEW s \in Subs, Break(s) PROVE TypeOK'
  <2>g. GroupOf[s] \in Groups
    BY RedisAssumption
  <2>1. ServerTypeOK' /\ \A h \in Groups : last'[h] >= last[h]
    <3>1. CASE UNCHANGED <<last, pel, idle, poll>>
      BY <1>3, <1>n, <3>1 DEF Break, TypeOK, ServerTypeOK
    <3>2. CASE Deliver(GroupOf[s]) /\ UNCHANGED idle
      BY <1>3, <2>g, <3>2, DeliverServer DEF Break
    <3>3. CASE /\ idle' = [idle EXCEPT ![GroupOf[s]] = @ \ IdlePending(GroupOf[s])]
               /\ UNCHANGED <<last, pel>>
      BY <1>3, <1>n, <2>g, <3>3 DEF Break, TypeOK, ServerTypeOK
    <3> QED
      BY <1>3, <3>1, <3>2, <3>3 DEF Break
  <2>2. /\ poll'[s] \in {poll[s], "top", "send"}
        /\ poll'[s] \in {"add", "ack"} => poll'[s] = poll[s]
        /\ DOMAIN poll' = Subs /\ \A t \in Subs \ {s} : poll'[t] = poll[t]
    BY <1>3 DEF Break, TypeOK
  <2>3. SubTypeOK(s)'
    <3> DEFINE D == 1..last[GroupOf[s]]
               E == 1..last'[GroupOf[s]]
    <3>1. D \subseteq E
      BY <1>n, <2>1, <2>g, LenProperties DEF ServerTypeOK
    <3>2. Seq(D) \subseteq Seq(E)
          /\ D \X {"ack", "nack"} \subseteq E \X {"ack", "nack"}
      BY <3>1, SeqMonotonic
    <3>3. Seq(D \X {"ack", "nack"}) \subseteq Seq(E \X {"ack", "nack"})
      BY <3>2, SeqMonotonic
    <3> HIDE DEF D, E
    <3>4. UNCHANGED <<entries, leaseVars>>
      BY <1>3 DEF Break
    <3> QED
      BY <2>2, <3>1, <3>2, <3>3, <3>4 DEF TypeOK, SubTypeOK, leaseVars, D, E
  <2>4. CountTypeOK'
    BY <1>3 DEF Break, TypeOK, CountTypeOK, countVars
  <2>5. broken' \subseteq Subs /\ UNCHANGED <<entries, leaseVars>>
    BY <1>3 DEF Break, TypeOK
  <2> QED
    BY <2>1, <2>2, <2>3, <2>4, <2>5, TypeStep DEF TypeOK, leaseVars
<1>4. ASSUME NEW g \in Groups, NEW i \in pel[g], IdlePasses(g, i) PROVE TypeOK'
  <2>1. ServerTypeOK' /\ last' = last
    BY <1>4 DEF IdlePasses, TypeOK, ServerTypeOK
  <2>2. \A s \in Subs : SubTypeOK(s)'
    BY <1>4, <2>1 DEF IdlePasses, TypeOK, SubTypeOK, pollVars, leaseVars
  <2>3. CountTypeOK'
    BY <1>4, RedisAssumption DEF IdlePasses, TypeOK, CountTypeOK
  <2> QED
    BY <1>4, <2>1, <2>2, <2>3 DEF IdlePasses, TypeOK, pollVars, leaseVars
<1> QED
  BY <1>1, <1>2, <1>3, <1>4

\* RedisStream: types, the streams' capacity and delivered entries only.
THEOREM TypeCorrect == Spec => []TypeOK
<1>1. Init => TypeOK
  <2> SUFFICES ASSUME Init PROVE TypeOK
    OBVIOUS
  <2>1. \A S : <<>> \in Seq(S) /\ Len(<<>>) = 0
    BY EmptySeq
  <2>2. ServerTypeOK
    BY <2>1 DEF Init, ServerTypeOK
  <2>3. \A s \in Subs : SubTypeOK(s)
    BY <2>1, RedisAssumption DEF Init, SubTypeOK, NoFlush
  <2> QED
    BY <2>2, <2>3, RedisAssumption DEF Init, TypeOK, CountTypeOK
<1>2. TypeOK /\ [Next]_vars => TypeOK'
  <2> SUFFICES ASSUME TypeOK, [Next]_vars PROVE TypeOK'
    OBVIOUS
  <2>1. ASSUME NEW s \in Subs, Poll(s) PROVE TypeOK'
    BY <2>1, PollLocalType, PollServerType DEF Poll
  <2>2. CASE UNCHANGED vars
    BY <2>2 DEF vars, serverVars, pollVars, leaseVars, countVars, TypeOK,
       ServerTypeOK, CountTypeOK, SubTypeOK
  <2> QED
    BY <2>1, <2>2, ConsumeType, FlushType, OutsideType DEF Next
<1> QED
  BY <1>1, <1>2, PTL DEF Spec

-----------------------------------------------------------------------------
(* No loss.  An entry is settled only when its message was acked or a later *)
(* entry carries it, so the last entry of an unacked message never is.      *)

\* A later entry carries the message of entry i.
Copied(i) == \E k \in DOMAIN log : k > i /\ log[k] = log[i]

Safe(g, i) == log[i] \in done[g] \/ Copied(i)

SettledInv ==
  \A g \in Groups : \A i \in (1..last[g]) \ pel[g] :
    log[i] \in Garbled \/ Safe(g, i)

\* What s is about to settle may be settled, or its XACK will fail too.
CommitInv(s) ==
  /\ poll[s] = "ack" => s \in broken \/ Copied(Head(entries[s]))
  /\ \A v \in Range(verdicts[s]) : v[2] = "ack" => log[v[1]] \in done[GroupOf[s]]
  /\ flush[s].step = "add" =>
       \A i \in flush[s].ids :
         Safe(GroupOf[s], i) \/ log[i] \in Range(flush[s].again)
  /\ flush[s].step = "ack" =>
       s \in broken \/ \A i \in flush[s].ids : Safe(GroupOf[s], i)

LossInv == SettledInv /\ \A s \in Subs : CommitInv(s)

\* The log and the acks only grow.
Grown ==
  /\ \A i \in DOMAIN log : i \in DOMAIN log' /\ log'[i] = log[i]
  /\ \A g \in Groups : done[g] \subseteq done'[g]

LEMMA SafeKept ==
  ASSUME TypeOK, Grown, NEW i \in DOMAIN log
  PROVE  /\ log'[i] = log[i]
         /\ Copied(i) => Copied(i)'
         /\ \A g \in Groups : Safe(g, i) => Safe(g, i)'
BY DEF Grown, Copied, Safe

LEMMA HandledInLog ==
  ASSUME TypeOK, NEW s \in Subs
  PROVE  /\ GroupOf[s] \in Groups
         /\ \A g \in Groups : 1..last[g] \subseteq DOMAIN log
         /\ poll[s] \in {"add", "ack"} => Head(entries[s]) \in DOMAIN log
         /\ entries[s] # <<>> => Head(entries[s]) \in DOMAIN log
         /\ \A v \in Range(verdicts[s]) :
              v[1] \in DOMAIN log /\ v[2] \in {"ack", "nack"}
         /\ flush[s].ids \subseteq DOMAIN log
<1> DEFINE D == 1..last[GroupOf[s]]
<1>1. GroupOf[s] \in Groups
  BY RedisAssumption
<1>2. \A g \in Groups : 1..last[g] \subseteq DOMAIN log
  BY LenProperties DEF TypeOK, ServerTypeOK
<1>3. /\ entries[s] \in Seq(D) /\ verdicts[s] \in Seq(D \X {"ack", "nack"})
      /\ poll[s] \in {"add", "ack"} => entries[s] # <<>>
      /\ flush[s].ids \subseteq D
  BY DEF TypeOK, SubTypeOK
<1>4. entries[s] # <<>> => Head(entries[s]) \in D
  BY <1>3, HeadTailProperties
<1>5. \A v \in Range(verdicts[s]) : v \in D \X {"ack", "nack"}
  <2> HIDE DEF D
  <2> QED
    BY <1>3, ElementOfSeq, LenProperties DEF Range
<1> QED
  BY <1>1, <1>2, <1>3, <1>4, <1>5

\* A subscription that does not move keeps its commitments.
LEMMA CommitKept ==
  ASSUME TypeOK, Grown, NEW s \in Subs, CommitInv(s), broken \subseteq broken',
         poll'[s] = "ack" => poll[s] = "ack" /\ entries'[s] = entries[s],
         verdicts'[s] = verdicts[s], flush'[s] = flush[s]
  PROVE  CommitInv(s)'
<1>1. GroupOf[s] \in Groups
  BY HandledInLog
<1>2. ASSUME poll'[s] = "ack" PROVE s \in broken' \/ Copied(Head(entries[s]))'
  <2>1. Head(entries[s]) \in DOMAIN log /\ entries'[s] = entries[s]
        /\ (s \in broken \/ Copied(Head(entries[s])))
    BY <1>2, HandledInLog DEF CommitInv
  <2>2. Copied(Head(entries[s])) => Copied(Head(entries[s]))'
    <3> DEFINE i == Head(entries[s])
    <3>1. i \in DOMAIN log /\ i' = i
      BY <2>1
    <3> QED
      BY <2>1, <3>1 DEF Grown, Copied
  <2> QED
    BY <2>1, <2>2
<1>3. ASSUME NEW v \in Range(verdicts[s]), v[2] = "ack"
      PROVE  log'[v[1]] \in done'[GroupOf[s]]
  BY <1>1, <1>3, HandledInLog DEF CommitInv, Grown
<1>4. \A i \in flush[s].ids : /\ log'[i] = log[i]
                              /\ Safe(GroupOf[s], i) => Safe(GroupOf[s], i)'
  BY <1>1, HandledInLog, SafeKept
<1> QED
  BY <1>1, <1>2, <1>3, <1>4 DEF CommitInv

\* What is settled stays so; what is newly settled has to be safe.
LEMMA SettledKept ==
  ASSUME TypeOK, Grown, SettledInv,
         \A g \in Groups : \A i \in (1..last'[g]) \ pel'[g] :
           \/ i \in (1..last[g]) \ pel[g]
           \/ i \in DOMAIN log /\ (log[i] \in Garbled \/ Safe(g, i))
  PROVE  SettledInv'
<1> SUFFICES ASSUME NEW g \in Groups, NEW i \in (1..last'[g]) \ pel'[g]
             PROVE  log'[i] \in Garbled \/ Safe(g, i)'
  BY DEF SettledInv
<1>1. i \in DOMAIN log /\ (log[i] \in Garbled \/ Safe(g, i))
  <2>1. 1..last[g] \subseteq DOMAIN log
    BY LenProperties DEF TypeOK, ServerTypeOK
  <2> QED
    BY <2>1 DEF SettledInv
<1> QED
  BY <1>1, SafeKept

\* A copy appended to the log makes every earlier entry of its message safe.
LEMMA CopyAppended ==
  ASSUME TypeOK, NEW q \in Seq(Msgs), log' = log \o q,
         UNCHANGED <<groups, last, pel, idle, done>>
  PROVE  /\ Grown
         /\ \A i \in DOMAIN log : log[i] \in Range(q) => Copied(i)'
<1>1. Grown
  BY LogGrows DEF Grown
<1>2. ASSUME NEW i \in DOMAIN log, log[i] \in Range(q) PROVE Copied(i)'
  <2>1. PICK k \in DOMAIN q : q[k] = log[i]
    BY <1>2 DEF Range
  <2>2. Len(log) + k \in DOMAIN log' /\ log'[Len(log) + k] = q[k]
    BY <2>1, LogGrows
  <2>3. i <= Len(log) /\ i \in Nat /\ Len(log) \in Nat /\ k \in Nat /\ k > 0
    <3>1. log \in Seq(Msgs)
      BY DEF TypeOK, ServerTypeOK
    <3> QED
      BY <3>1, LenProperties
  <2>4. Len(log) + k > i
    BY <2>3
  <2>5. log'[i] = log[i]
    BY <1>1 DEF Grown
  <2> QED
    BY <2>1, <2>2, <2>4, <2>5 DEF Copied
<1> QED
  BY <1>1, <1>2

\* Steps that leave log, pending lists and acks alone disturb at most what
\* their subscription has queued.
LEMMA QuietStep ==
  ASSUME TypeOK, LossInv, UNCHANGED <<log, last, pel, done>>
  PROVE  Grown /\ SettledInv'
<1>1. Grown
  BY DEF Grown
<1> QED
  BY <1>1, SettledKept DEF LossInv

LEMMA QuietLoss ==
  ASSUME TypeOK, LossInv, NEW s \in Subs,
         \/ Subscribe(s) \/ PollTop(s) \/ PollReadErr(s) \/ PollClaim(s)
         \/ PollDone(s) \/ SendNext(s) \/ SendClosed(s) \/ Take(s) \/ Crash(s)
  PROVE  LossInv'
<1>1. UNCHANGED <<log, last, pel, done, broken>>
  BY DEF Subscribe, PollTop, PollReadErr, PollClaim, PollDone, SendNext,
     SendClosed, Take, Crash, serverVars
<1>2. \A t \in Subs \ {s} : CommitInv(t)'
  <2>1. \A t \in Subs \ {s} :
          /\ poll'[t] = poll[t] /\ entries'[t] = entries[t]
          /\ verdicts'[t] = verdicts[t] /\ flush'[t] = flush[t]
    BY DEF Subscribe, PollTop, PollReadErr, PollClaim, PollDone, SendNext,
       SendClosed, Take, Crash, TypeOK, pollVars, leaseVars
  <2> QED
    BY <1>1, <2>1, QuietStep, CommitKept DEF LossInv
<1>3. CASE ~Crash(s)
  <2>1. poll'[s] = "ack" => poll[s] = "ack" /\ entries'[s] = entries[s]
    BY <1>3 DEF Subscribe, PollTop, PollReadErr, PollClaim, PollDone, SendNext,
       SendClosed, Take, TypeOK, pollVars
  <2>2. UNCHANGED <<verdicts, flush>>
    BY <1>3 DEF Subscribe, PollTop, PollReadErr, PollClaim, PollDone, SendNext,
       SendClosed, Take, leaseVars
  <2>3. CommitInv(s)'
    BY <1>1, <2>1, <2>2, QuietStep, CommitKept DEF LossInv
  <2> QED
    BY <1>1, <1>2, <2>3, QuietStep DEF LossInv
<1>4. CASE Crash(s)
  <2>1. poll'[s] = "dead" /\ verdicts'[s] = <<>> /\ flush'[s].step = "idle"
    BY <1>4 DEF Crash, TypeOK, NoFlush
  <2>2. CommitInv(s)'
    BY <2>1 DEF CommitInv, Range
  <2> QED
    BY <1>1, <1>2, <2>2, QuietStep DEF LossInv
<1> QED
  BY <1>3, <1>4

LEMMA IdleLoss ==
  ASSUME TypeOK, LossInv, NEW g \in Groups, NEW i \in pel[g], IdlePasses(g, i)
  PROVE  LossInv'
<1>1. UNCHANGED <<log, last, pel, done, broken, poll, entries, verdicts, flush>>
  BY DEF IdlePasses, pollVars, leaseVars
<1>2. \A t \in Subs : CommitInv(t)'
  BY <1>1, QuietStep, CommitKept DEF LossInv
<1> QED
  BY <1>1, <1>2, QuietStep DEF LossInv

\* XREADGROUP only delivers entries that it also makes pending.
LEMMA DeliverLoss ==
  ASSUME TypeOK, LossInv, NEW s \in Subs, PollRead(s) \/ Break(s)
  PROVE  LossInv'
<1>g. GroupOf[s] \in Groups
  BY HandledInLog
<1>1. UNCHANGED <<log, done, verdicts, flush>> /\ broken \subseteq broken'
  BY DEF PollRead, Break, leaseVars
<1>2. Grown
  BY <1>1 DEF Grown
<1>3. \A h \in Groups : (1..last'[h]) \ pel'[h] \subseteq (1..last[h]) \ pel[h]
  <2>1. CASE UNCHANGED <<last, pel>>
    BY <2>1
  <2>2. CASE Deliver(GroupOf[s])
    <3> DEFINE g == GroupOf[s]
    <3>1. \A h \in Groups : last'[h] = IF h = g THEN last[g] + Cardinality(Fresh(g))
                                       ELSE last[h]
      BY <2>2 DEF Deliver, TypeOK, ServerTypeOK
    <3>2. \A h \in Groups : pel'[h] = IF h = g THEN pel[g] \cup Fresh(g) ELSE pel[h]
      BY <2>2 DEF Deliver, TypeOK, ServerTypeOK
    <3>3. /\ Fresh(g) = (last[g] + 1)..last'[g]
          /\ last[g] \in Nat /\ last'[g] \in Nat
      <4>1. last[g] \in 0..Len(log) /\ Len(log) \in Nat
        BY <1>g, LenProperties DEF TypeOK, ServerTypeOK
      <4>2. last'[g] \in last[g]..Len(log)
        BY <1>g, <3>1, DeliverType
      <4> QED
        BY <1>g, <3>1, <4>1, <4>2, DeliverType
    <3>4. 1..last'[g] \subseteq (1..last[g]) \cup Fresh(g)
      BY <3>3
    <3> HIDE DEF g
    <3> QED
      BY <3>1, <3>2, <3>4
  <2> QED
    BY <2>1, <2>2 DEF PollRead, Break
<1>4. SettledInv'
  BY <1>2, <1>3, SettledKept DEF LossInv
<1>5. \A t \in Subs : /\ poll'[t] = "ack" => poll[t] = "ack" /\ entries'[t] = entries[t]
                      /\ verdicts'[t] = verdicts[t] /\ flush'[t] = flush[t]
  BY <1>1 DEF PollRead, Break, TypeOK
<1>6. \A t \in Subs : CommitInv(t)'
  BY <1>1, <1>2, <1>5, CommitKept DEF LossInv
<1> QED
  BY <1>4, <1>6 DEF LossInv

\* XACK settles what the code has made sure of.
LEMMA SettleLoss ==
  ASSUME TypeOK, LossInv, NEW s \in Subs,
         SkipGarbled(s) \/ RequeueAck(s) \/ FlushAck(s)
  PROVE  LossInv'
<1>g. GroupOf[s] \in Groups
  BY HandledInLog
<1>1. UNCHANGED <<log, last, done, broken, verdicts>>
  BY DEF SkipGarbled, RequeueAck, FlushAck, leaseVars
<1>2. Grown
  BY <1>1 DEF Grown
<1> DEFINE Due == {i \in DOMAIN log : log[i] \in Garbled \/ Safe(GroupOf[s], i)}
<1>3. \/ UNCHANGED pel
      \/ \E I \in SUBSET Due : pel' = [pel EXCEPT ![GroupOf[s]] = @ \ I]
  <2>1. CASE SkipGarbled(s)
    <3>1. {Head(entries[s])} \in SUBSET Due
      BY <2>1, HandledInLog DEF SkipGarbled
    <3> QED
      BY <2>1, <3>1 DEF SkipGarbled, Settled
  <2>2. CASE RequeueAck(s)
    <3>1. Head(entries[s]) \in DOMAIN log
          /\ (s \in broken \/ Copied(Head(entries[s])))
      BY <2>2, HandledInLog DEF RequeueAck, LossInv, CommitInv
    <3>2. CASE s \in broken
      BY <2>2, <3>2 DEF RequeueAck, Answered
    <3>3. CASE Copied(Head(entries[s]))
      <4>1. {Head(entries[s])} \in SUBSET Due
        BY <3>1, <3>3 DEF Safe
      <4> QED
        BY <2>2, <4>1 DEF RequeueAck, Settled
    <3> QED
      BY <3>1, <3>2, <3>3
  <2>3. CASE FlushAck(s)
    <3>1. s \in broken \/ \A i \in flush[s].ids : Safe(GroupOf[s], i)
      BY <2>3 DEF FlushAck, LossInv, CommitInv
    <3>2. CASE s \in broken
      BY <2>3, <3>2 DEF FlushAck, Answered
    <3>3. CASE \A i \in flush[s].ids : Safe(GroupOf[s], i)
      <4>1. flush[s].ids \in SUBSET Due
        BY <3>3, HandledInLog
      <4> QED
        BY <2>3, <4>1 DEF FlushAck, Settled
    <3> QED
      BY <3>1, <3>2, <3>3
  <2> QED
    BY <2>1, <2>2, <2>3
<1>4. \A g \in Groups : \A i \in (1..last'[g]) \ pel'[g] :
        \/ i \in (1..last[g]) \ pel[g]
        \/ i \in DOMAIN log /\ (log[i] \in Garbled \/ Safe(g, i))
  BY <1>1, <1>3 DEF TypeOK, ServerTypeOK
<1>5. SettledInv'
  BY <1>2, <1>4, SettledKept DEF LossInv
<1>6. \A t \in Subs \ {s} : CommitInv(t)'
  <2>1. \A t \in Subs \ {s} : /\ poll'[t] = poll[t] /\ entries'[t] = entries[t]
                              /\ flush'[t] = flush[t]
    BY DEF SkipGarbled, RequeueAck, FlushAck, TypeOK, pollVars, leaseVars
  <2> QED
    BY <1>1, <1>2, <2>1, CommitKept DEF LossInv
<1>7. CommitInv(s)'
  <2>1. CASE SkipGarbled(s) \/ RequeueAck(s)
    <3>1. poll'[s] # "ack" /\ flush'[s] = flush[s]
      BY <2>1 DEF SkipGarbled, RequeueAck, TypeOK, leaseVars
    <3> QED
      BY <1>1, <1>2, <3>1, CommitKept DEF LossInv
  <2>2. CASE FlushAck(s)
    <3>1. flush'[s].step = "idle" /\ UNCHANGED <<poll, entries>>
      BY <2>2 DEF FlushAck, NoFlush, TypeOK, pollVars
    <3>2. /\ CommitInv(s)
          /\ Copied(Head(entries[s])) => Copied(Head(entries[s]))'
      BY <1>1, <3>1 DEF LossInv, Copied
    <3> QED
      BY <1>1, <3>1, <3>2 DEF CommitInv
  <2> QED
    BY <2>1, <2>2
<1> QED
  BY <1>5, <1>6, <1>7 DEF LossInv

\* A verdict that says ack belongs to a message that was acked.
LEMMA VerdictLoss ==
  ASSUME TypeOK, LossInv, NEW s \in Subs, Ack(s) \/ Nack(s) \/ DropStream(s)
  PROVE  LossInv'
<1>g. GroupOf[s] \in Groups
  BY HandledInLog
<1>1. UNCHANGED <<log, last, pel, broken, poll, entries, flush>>
  BY DEF Ack, Nack, DropStream, serverVars, pollVars
<1>2. Grown
  <2>1. \A h \in Groups : done[h] \subseteq done'[h]
    BY <1>g DEF Ack, Nack, DropStream, TypeOK, ServerTypeOK
  <2> QED
    BY <1>1, <2>1 DEF Grown
<1>3. SettledInv'
  BY <1>1, <1>2, SettledKept DEF LossInv
<1>4. \A t \in Subs \ {s} : CommitInv(t)'
  <2>1. \A t \in Subs \ {s} : verdicts'[t] = verdicts[t]
    BY DEF Ack, Nack, DropStream, Settle, TypeOK
  <2> QED
    BY <1>1, <1>2, <2>1, CommitKept DEF LossInv
<1>5. \A v \in Range(verdicts'[s]) :
        \/ v \in Range(verdicts[s])
        \/ v[2] = "nack"
        \/ v[1] \in DOMAIN log /\ log[v[1]] \in done'[GroupOf[s]]
  <2> DEFINE D == 1..last[GroupOf[s]]
             V == D \X {"ack", "nack"}
  <2>1. verdicts[s] \in Seq(V) /\ held[s] \in Seq(D) /\ D \subseteq DOMAIN log
    BY <1>g, HandledInLog DEF TypeOK, SubTypeOK
  <2> HIDE DEF D, V
  <2>2. CASE Ack(s) \/ Nack(s)
    <3>1. PICK k \in DOMAIN held[s], d \in {"ack", "nack"} :
            /\ Settle(s, k, d)
            /\ d = "ack" => log[held[s][k]] \in done'[GroupOf[s]]
      BY <2>2, <1>g DEF Ack, Nack, TypeOK, ServerTypeOK
    <3>2. held[s][k] \in D
      BY <2>1, <3>1, ElementOfSeq, LenProperties
    <3>3. <<held[s][k], d>> \in V
      BY <3>2 DEF V
    <3>4. verdicts'[s] = Append(verdicts[s], <<held[s][k], d>>)
      BY <3>1 DEF Settle, TypeOK
    <3>5. \A v \in Range(verdicts'[s]) :
            v \in Range(verdicts[s]) \/ v = <<held[s][k], d>>
      BY <2>1, <3>3, <3>4, RangeAppend
    <3> QED
      BY <2>1, <3>1, <3>2, <3>5
  <2>3. CASE DropStream(s)
    <3> DEFINE N == [k \in DOMAIN buffer[s] |-> <<buffer[s][k], "nack">>]
    <3>1. verdicts'[s] = verdicts[s] \o N
      BY <2>3 DEF DropStream, TypeOK
    <3>2. N \in Seq(V)
      <4>1. buffer[s] \in Seq(D)
        BY DEF TypeOK, SubTypeOK, D
      <4>2. Len(buffer[s]) \in Nat /\ DOMAIN buffer[s] = 1..Len(buffer[s])
        BY <4>1, LenProperties
      <4>3. \A k \in DOMAIN buffer[s] : <<buffer[s][k], "nack">> \in V
        BY <4>1, <4>2, ElementOfSeq DEF V
      <4>4. N \in [1..Len(buffer[s]) -> V]
        BY <4>2, <4>3
      <4> QED
        BY <4>2, <4>4, SeqDef
    <3>3. \A v \in Range(N) : v[2] = "nack"
      <4>1. \A k \in DOMAIN N : N[k][2] = "nack"
        OBVIOUS
      <4> HIDE DEF N
      <4> QED
        BY <4>1, Zenon DEF Range
    <3> HIDE DEF N
    <3>4. \A v \in Range(verdicts'[s]) : v \in Range(verdicts[s]) \/ v \in Range(N)
      BY <2>1, <3>1, <3>2, RangeConcat
    <3> QED
      BY <3>3, <3>4
  <2> QED
    BY <2>2, <2>3
<1>6. CommitInv(s)'
  <2>1. \A v \in Range(verdicts'[s]) :
          v[2] = "ack" => log'[v[1]] \in done'[GroupOf[s]]
    BY <1>g, <1>1, <1>2, <1>5 DEF LossInv, CommitInv, Grown
  <2>2. \A i \in flush[s].ids : /\ log'[i] = log[i]
                                /\ Safe(GroupOf[s], i) => Safe(GroupOf[s], i)'
    BY <1>g, <1>2, HandledInLog, SafeKept
  <2>3. Copied(Head(entries[s])) => Copied(Head(entries[s]))'
    BY <1>1 DEF Copied
  <2> QED
    BY <1>1, <2>1, <2>2, <2>3 DEF LossInv, CommitInv
<1> QED
  BY <1>3, <1>4, <1>6 DEF LossInv

\* Of the verdicts taken, the acks were acked and the nacks are re-added.
LEMMA FlushTakeLoss ==
  ASSUME TypeOK, LossInv, NEW s \in Subs, FlushTake(s)
  PROVE  LossInv'
<1>g. GroupOf[s] \in Groups
  BY HandledInLog
<1>1. UNCHANGED <<log, last, pel, done, broken, poll, entries>>
  BY DEF FlushTake, serverVars, pollVars
<1>2. Grown /\ SettledInv'
  BY <1>1, QuietStep
<1>3. \A t \in Subs \ {s} : CommitInv(t)'
  <2>1. \A t \in Subs \ {s} : verdicts'[t] = verdicts[t] /\ flush'[t] = flush[t]
    BY DEF FlushTake, TypeOK
  <2> QED
    BY <1>1, <1>2, <2>1, CommitKept DEF LossInv
<1> DEFINE V == (1..last[GroupOf[s]]) \X {"ack", "nack"}
<1>4. verdicts[s] \in Seq(V)
  BY DEF TypeOK, SubTypeOK
<1> HIDE DEF V
<1>5. PICK n \in 1..Len(verdicts[s]) :
        LET W == SubSeq(verdicts[s], 1, n)
        IN /\ \E q \in Ascending({k \in 1..n : W[k][2] = "nack"}) :
                flush' = [flush EXCEPT ![s] =
                           [step |-> "add", ids |-> {W[k][1] : k \in 1..n},
                            again |-> [j \in DOMAIN q |-> log[W[q[j]][1]]]]]
           /\ verdicts' = [verdicts EXCEPT ![s] = SubSeq(@, n + 1, Len(@))]
  BY DEF FlushTake
<1> DEFINE W == SubSeq(verdicts[s], 1, n)
           K == {k \in 1..n : W[k][2] = "nack"}
<1>6. \A k \in 1..n : W[k] \in V /\ W[k] \in Range(verdicts[s])
  <2>1. n \in 0..Len(verdicts[s]) /\ 1..n \subseteq DOMAIN verdicts[s]
    BY <1>4, LenProperties
  <2> QED
    BY <1>4, <2>1, PrefixSeq DEF Range
<1> HIDE DEF W
<1>7. PICK q \in Ascending(K) :
        flush' = [flush EXCEPT ![s] =
                   [step |-> "add", ids |-> {W[k][1] : k \in 1..n},
                    again |-> [j \in DOMAIN q |-> log[W[q[j]][1]]]]]
  BY <1>5 DEF W
<1>8. Range(q) = K
  BY DEF Ascending
<1>9. \A i \in flush'[s].ids :
        Safe(GroupOf[s], i) \/ log[i] \in Range(flush'[s].again)
  <2> SUFFICES ASSUME NEW k \in 1..n
               PROVE  Safe(GroupOf[s], W[k][1])
                      \/ log[W[k][1]] \in Range(flush'[s].again)
    BY <1>7 DEF TypeOK
  <2>1. CASE W[k][2] = "ack"
    BY <1>6, <2>1 DEF LossInv, CommitInv, Safe
  <2>2. CASE W[k][2] = "nack"
    <3>1. PICK j \in DOMAIN q : q[j] = k
      BY <1>8, <2>2 DEF Range
    <3>2. flush'[s].again = [x \in DOMAIN q |-> log[W[q[x]][1]]]
      BY <1>7 DEF TypeOK
    <3> QED
      BY <3>1, <3>2 DEF Range
  <2> QED
    BY <1>6, <2>1, <2>2 DEF V
<1>10. flush'[s].step = "add"
  BY <1>7 DEF TypeOK
<1>11. Range(verdicts'[s]) \subseteq Range(verdicts[s])
  BY <1>4, <1>5, SuffixSeq DEF TypeOK
<1>12. CommitInv(s)'
  <2>1. \A i : Safe(GroupOf[s], i)' <=> Safe(GroupOf[s], i)
    BY <1>1 DEF Safe, Copied
  <2>2. Copied(Head(entries[s]))' <=> Copied(Head(entries[s]))
    BY <1>1 DEF Copied
  <2> QED
    BY <1>1, <1>9, <1>10, <1>11, <2>1, <2>2 DEF LossInv, CommitInv
<1> QED
  BY <1>2, <1>3, <1>12 DEF LossInv

\* XADD first, XACK later: with the copies in the log the originals are safe.
LEMMA AddLoss ==
  ASSUME AddsFail = FALSE, TypeOK, LossInv,
         \/ \E m \in Msgs : Publish(m)
         \/ \E s \in Subs : RequeueAdd(s) \/ FlushAdd(s)
  PROVE  LossInv'
<1>l. log \in Seq(Msgs)
  BY DEF TypeOK, ServerTypeOK
<1>1. ASSUME NEW m \in Msgs, Publish(m) PROVE LossInv'
  <2>1. <<m>> \in Seq(Msgs) /\ log' = log \o <<m>>
    BY <1>1, <1>l, AppendIsConcat DEF Publish
  <2>2. Grown
    BY <1>1, <2>1, CopyAppended DEF Publish
  <2>3. SettledInv'
    BY <1>1, <2>2, SettledKept DEF Publish, LossInv, SettledInv, TypeOK, ServerTypeOK,
       HandledInLog
  <2>4. \A t \in Subs : CommitInv(t)'
    BY <1>1, <2>2, CommitKept DEF Publish, LossInv, pollVars, leaseVars
  <2> QED
    BY <2>3, <2>4 DEF LossInv
<1>2. ASSUME NEW s \in Subs, RequeueAdd(s) PROVE LossInv'
  <2>1. /\ UNCHANGED <<groups, last, pel, idle, done, entries, verdicts, flush,
                       broken>>
        /\ poll' = [poll EXCEPT ![s] = "ack"]
    BY <1>2 DEF RequeueAdd, leaseVars
  <2>2. Head(entries[s]) \in DOMAIN log
    BY <1>2, HandledInLog DEF RequeueAdd
  <2>3. Grown /\ (s \in broken \/ Copied(Head(entries[s]))')
    <3>1. CASE log' = Append(log, log[Head(entries[s])])
      <4>1. log[Head(entries[s])] \in Msgs
        BY <1>l, <2>2, ElementOfSeq, LenProperties
      <4> DEFINE q == <<log[Head(entries[s])]>>
      <4>2. q \in Seq(Msgs) /\ log' = log \o q
        BY <1>l, <3>1, <4>1, AppendIsConcat
      <4>3. log[Head(entries[s])] \in Range(q)
        BY DEF Range
      <4> HIDE DEF q
      <4>4. Grown /\ \A i \in DOMAIN log : log[i] \in Range(q) => Copied(i)'
        BY <2>1, <4>2, CopyAppended
      <4>5. \E k \in DOMAIN log' : k > Head(entries[s])
                                   /\ log'[k] = log'[Head(entries[s])]
        BY <2>2, <4>3, <4>4 DEF Copied
      <4> QED
        BY <2>1, <4>4, <4>5 DEF Copied
    <3>2. CASE s \in broken /\ log' = log
      BY <2>1, <3>2 DEF Grown
    <3> QED
      BY <1>2, <3>1, <3>2 DEF RequeueAdd
  <2>4. SettledInv'
    BY <2>1, <2>3, SettledKept, HandledInLog DEF LossInv, SettledInv, TypeOK, ServerTypeOK
  <2>5. \A t \in Subs \ {s} : CommitInv(t)'
    <3>1. \A t \in Subs \ {s} : poll'[t] = poll[t]
      BY <2>1 DEF TypeOK
    <3> QED
      BY <2>1, <2>3, <3>1, CommitKept DEF LossInv
  <2>6. CommitInv(s)'
    <3>1. \A i \in flush[s].ids :
            log'[i] = log[i] /\ (Safe(GroupOf[s], i) => Safe(GroupOf[s], i)')
      BY <2>3, HandledInLog, SafeKept
    <3>2. \A v \in Range(verdicts[s]) : log'[v[1]] = log[v[1]]
      BY <2>3, HandledInLog DEF Grown
    <3> QED
      BY <2>1, <2>3, <3>1, <3>2 DEF LossInv, CommitInv
  <2> QED
    BY <2>4, <2>5, <2>6 DEF LossInv
<1>3. ASSUME NEW s \in Subs, FlushAdd(s) PROVE LossInv'
  <2>1. /\ UNCHANGED <<groups, last, pel, idle, done, poll, entries, verdicts,
                       broken>>
        /\ \A t \in Subs \ {s} : flush'[t] = flush[t]
        /\ flush'[s].step = "ack" /\ flush'[s].ids = flush[s].ids
        /\ flush[s].step = "add"
    <3>1. flush' = [flush EXCEPT ![s].step = "ack", ![s].again = <<>>]
      BY <1>3 DEF FlushAdd
    <3>2. DOMAIN flush = Subs /\ flush[s] \in [step : {"idle", "add", "ack"},
                                              ids : SUBSET (1..last[GroupOf[s]]), again : Seq(Msgs)]
      BY DEF TypeOK, SubTypeOK
    <3>3. /\ \A t \in Subs \ {s} : flush'[t] = flush[t]
          /\ flush'[s].step = "ack" /\ flush'[s].ids = flush[s].ids
      BY <3>1, <3>2
    <3>4. /\ UNCHANGED <<groups, last, pel, idle, done, poll, entries, verdicts, broken>>
          /\ flush[s].step = "add"
      BY <1>3 DEF FlushAdd, pollVars
    <3>. QED
      BY <3>3, <3>4
  <2>2. flush[s].again \in Seq(Msgs)
    BY DEF TypeOK, SubTypeOK
  <2>3. /\ Grown
        /\ s \in broken \/ \A i \in DOMAIN log :
                             log[i] \in Range(flush[s].again) => Copied(i)'
    <3>1. CASE log' = log /\ (s \in broken \/ flush[s].again = <<>>)
      BY <2>1, <3>1 DEF Grown, Range
    <3>2. CASE log' = log \o flush[s].again
      BY <2>1, <2>2, <3>2, CopyAppended
    <3>3. CASE s \in broken /\ log' = log \o SubSeq(flush[s].again, 1, 0)
      <4>1. log' = log
        BY <1>l, <3>3, SubSeqEmpty, ConcatEmptySeq
      <4> QED
        BY <3>1, <3>3, <4>1
    <3> QED
      BY <1>3, <3>1, <3>2, <3>3 DEF FlushAdd
  <2>4. SettledInv'
    BY <2>1, <2>3, SettledKept, HandledInLog DEF LossInv, SettledInv, TypeOK, ServerTypeOK
  <2>5. \A t \in Subs \ {s} : CommitInv(t)'
    BY <2>1, <2>3, CommitKept DEF LossInv
  <2>6. CommitInv(s)'
    <3>1. \A i \in flush[s].ids :
            /\ i \in DOMAIN log
            /\ Safe(GroupOf[s], i) => Safe(GroupOf[s], i)'
      BY <2>3, HandledInLog, SafeKept
    <3>2. s \in broken \/ \A i \in flush[s].ids : Safe(GroupOf[s], i)'
      BY <2>1, <2>3, <3>1 DEF LossInv, CommitInv, Safe
    <3>3. \A v \in Range(verdicts[s]) : log'[v[1]] = log[v[1]]
      BY <2>3, HandledInLog DEF Grown
    <3>4. poll[s] = "ack" => s \in broken \/ Copied(Head(entries[s]))'
      <4>1. poll[s] = "ack" => Head(entries[s]) \in DOMAIN log
        BY HandledInLog
      <4>2. ASSUME NEW i \in DOMAIN log, Copied(i)
            PROVE  \E k \in DOMAIN log' : k > i /\ log'[k] = log'[i]
        BY <2>3, <4>2 DEF Grown, Copied
      <4> QED
        BY <2>1, <4>1, <4>2 DEF LossInv, CommitInv, Copied
    <3> QED
      BY <2>1, <3>2, <3>3, <3>4 DEF LossInv, CommitInv
  <2> QED
    BY <2>4, <2>5, <2>6 DEF LossInv
<1> QED
  BY <1>1, <1>2, <1>3

\* Among the entries of a message the last one is undelivered or pending.
LEMMA LastEntryLives ==
  ASSUME TypeOK, LossInv
  PROVE  NoLoss
<1> SUFFICES ASSUME NEW g \in Groups,
                    NEW m \in Range(log) \ (Garbled \cup done[g])
             PROVE  \E i \in DOMAIN log : log[i] = m /\ (i > last[g] \/ i \in pel[g])
  BY DEF NoLoss
<1>1. Len(log) \in Nat /\ DOMAIN log = 1..Len(log) /\ last[g] \in 0..Len(log)
  BY LenProperties DEF TypeOK, ServerTypeOK
<1> DEFINE T == {n \in Nat : \E i \in DOMAIN log : log[i] = m /\ n = Len(log) - i}
<1>2. T # {} /\ T \subseteq Nat
  <2>1. PICK i \in DOMAIN log : log[i] = m
    BY DEF Range
  <2>2. Len(log) - i \in Nat
    BY <1>1
  <2> QED
    BY <2>1, <2>2
<1>3. PICK n \in T : \A j \in T : ~(<<j, n>> \in OpToRel(<, Nat))
  BY <1>2, NatLessThanWellFounded, WFMin
<1>4. PICK i \in DOMAIN log : log[i] = m /\ n = Len(log) - i
  OBVIOUS
<1>5. ~Copied(i)
  <2> SUFFICES ASSUME NEW k \in DOMAIN log, k > i, log[k] = log[i] PROVE FALSE
    BY DEF Copied
  <2>1. Len(log) - k \in Nat /\ Len(log) - k < n /\ n \in Nat
    BY <1>1, <1>4
  <2>2. Len(log) - k \in T
    BY <1>4, <2>1
  <2> QED
    BY <1>3, <2>1, <2>2 DEF OpToRel
<1> QED
  BY <1>1, <1>4, <1>5 DEF LossInv, SettledInv, Safe

\* NoLoss: unless the server refuses an XADD, no interleaving of nacks,
\* redeliveries, dropped streams, lost replies, broken connections and crashes
\* takes a message from a group before the group has acked it.
THEOREM NothingLost ==
  ASSUME AddsFail = FALSE
  PROVE  Spec => []NoLoss
<1>1. Init => LossInv
  BY DEF Init, LossInv, SettledInv, CommitInv, NoFlush, Range
<1>2. TypeOK /\ LossInv /\ [Next]_vars => LossInv'
  <2> SUFFICES ASSUME TypeOK, LossInv, [Next]_vars PROVE LossInv'
    OBVIOUS
  <2>1. ASSUME NEW s \in Subs, Poll(s) \/ Consume(s) \/ Flush(s) PROVE LossInv'
    BY <2>1, QuietLoss, DeliverLoss, SettleLoss, VerdictLoss, FlushTakeLoss,
       AddLoss DEF Poll, Consume, Flush
  <2>2. CASE UNCHANGED vars
    BY <2>2 DEF vars, serverVars, pollVars, leaseVars, LossInv, SettledInv,
       CommitInv, Safe, Copied
  <2>3. ASSUME NEW s \in Subs, Break(s) \/ Crash(s) PROVE LossInv'
    BY <2>3, DeliverLoss, QuietLoss
  <2> QED
    BY <2>1, <2>2, <2>3, IdleLoss, AddLoss DEF Next
<1> QED
  BY <1>1, <1>2, TypeCorrect, LastEntryLives, PTL DEF Spec

-----------------------------------------------------------------------------
(* Sequences that list nothing twice.                                      *)

LEMMA ConcatDistinct ==
  ASSUME NEW S, NEW q \in Seq(S), NEW r \in Seq(S), Distinct(q), Distinct(r),
         \A i \in Range(q) : i \notin Range(r)
  PROVE  Distinct(q \o r) /\ \A i : i \in Range(q \o r) <=> i \in Range(q) \/ i \in Range(r)
<1>1. /\ Len(q) \in Nat /\ DOMAIN q = 1..Len(q)
      /\ Len(r) \in Nat /\ DOMAIN r = 1..Len(r)
  BY LenProperties
<1>2. /\ DOMAIN (q \o r) = 1..(Len(q) + Len(r))
      /\ \A i \in 1..(Len(q) + Len(r)) :
           (q \o r)[i] = IF i <= Len(q) THEN q[i] ELSE r[i - Len(q)]
  BY ConcatProperties, LenProperties
<1>3. \A i \in 1..(Len(q) + Len(r)) :
        IF i <= Len(q) THEN i \in 1..Len(q) ELSE i - Len(q) \in 1..Len(r)
  BY <1>1
<1>4. Distinct(q \o r)
  <2> SUFFICES ASSUME NEW i \in 1..(Len(q) + Len(r)), NEW j \in 1..(Len(q) + Len(r)),
                      (q \o r)[i] = (q \o r)[j]
               PROVE  i = j
    BY <1>2 DEF Distinct
  <2>1. CASE i <= Len(q) /\ j <= Len(q)
    BY <1>1, <1>2, <1>3, <2>1 DEF Distinct
  <2>2. CASE ~(i <= Len(q)) /\ ~(j <= Len(q))
    <3>1. i - Len(q) = j - Len(q)
      BY <1>1, <1>2, <1>3, <2>2 DEF Distinct
    <3>. QED
      BY <1>1, <3>1
  <2>3. CASE i <= Len(q) /\ ~(j <= Len(q))
    <3>1. (q \o r)[i] \in Range(q) /\ (q \o r)[j] \in Range(r)
      BY <1>1, <1>2, <1>3, <2>3 DEF Range
    <3>. QED
      BY <3>1
  <2>4. CASE ~(i <= Len(q)) /\ j <= Len(q)
    <3>1. (q \o r)[i] \in Range(r) /\ (q \o r)[j] \in Range(q)
      BY <1>1, <1>2, <1>3, <2>4 DEF Range
    <3>. QED
      BY <3>1
  <2>. QED
    BY <2>1, <2>2, <2>3, <2>4
<1>5. ASSUME NEW x, x \in Range(q) \/ x \in Range(r) PROVE x \in Range(q \o r)
  <2>1. CASE x \in Range(q)
    <3>1. PICK i \in 1..Len(q) : x = q[i]
      BY <1>1, <2>1 DEF Range
    <3>2. i \in 1..(Len(q) + Len(r)) /\ i <= Len(q)
      BY <1>1
    <3>. QED
      BY <1>2, <3>1, <3>2 DEF Range
  <2>2. CASE x \in Range(r)
    <3>1. PICK i \in 1..Len(r) : x = r[i]
      BY <1>1, <2>2 DEF Range
    <3>2. Len(q) + i \in 1..(Len(q) + Len(r)) /\ ~(Len(q) + i <= Len(q))
          /\ Len(q) + i - Len(q) = i
      BY <1>1
    <3>. QED
      BY <1>2, <3>1, <3>2 DEF Range
  <2>. QED
    BY <1>5, <2>1, <2>2
<1>. QED
  BY <1>4, <1>5, RangeConcat

LEMMA AscendingDistinct ==
  ASSUME NEW I, IsFiniteSet(I), I \in SUBSET Nat, NEW q \in Ascending(I)
  PROVE  q \in Seq(I) /\ Range(q) = I /\ Distinct(q)
<1>1. /\ Cardinality(I) \in Nat /\ DOMAIN q = 1..Cardinality(I)
      /\ \A j \in DOMAIN q : q[j] \in I
      /\ \A j, k \in DOMAIN q : j < k => q[j] < q[k]
  BY FS_CardinalityType DEF Ascending
<1>2. Distinct(q)
  <2> SUFFICES ASSUME NEW j \in DOMAIN q, NEW k \in DOMAIN q, q[j] = q[k] PROVE j = k
    BY DEF Distinct
  <2>1. q[j] \in Nat /\ j \in Nat /\ k \in Nat
    <3>1. PICK n \in Nat : j \in 1..n /\ k \in 1..n
      BY <1>1
    <3>2. q[j] \in I
      BY <1>1
    <3>3. q[j] \in Nat
      BY <3>2, Zenon
    <3>4. j \in Nat /\ k \in Nat
      BY <3>1
    <3>. QED
      BY <3>3, <3>4
  <2>2. ~(j < k) /\ ~(k < j)
    BY <1>1, <2>1
  <2>. QED
    BY <2>1, <2>2
<1>. QED
  BY <1>2, AscendingSeq

\* What RemoveAt leaves.
LEMMA RemoveAtElements ==
  ASSUME NEW S, NEW q \in Seq(S), NEW k \in DOMAIN q
  PROVE  /\ Len(q) \in Nat /\ k \in 1..Len(q) /\ DOMAIN q = 1..Len(q)
         /\ DOMAIN RemoveAt(q, k) = 1..(Len(q) - 1)
         /\ \A i \in 1..(Len(q) - 1) :
              RemoveAt(q, k)[i] = IF i <= k - 1 THEN q[i] ELSE q[i + 1]
<1> DEFINE L == Len(q)
           A == SubSeq(q, 1, k - 1)
           B == SubSeq(q, k + 1, L)
<1>1. L \in Nat /\ k \in 1..L /\ DOMAIN q = 1..L /\ \A i \in 1..L : q[i] \in S
  BY LenProperties, ElementOfSeq
<1>2. A \in Seq(S) /\ Len(A) = k - 1 /\ \A i \in 1..(k - 1) : A[i] = q[i]
  <2>1. k - 1 \in 0..Len(q)
    BY <1>1
  <2>2. A \in Seq(S) /\ \A i \in 1..(k - 1) : A[i] = q[i]
    BY <2>1, PrefixSeq
  <2>3. Len(A) = k - 1
    BY <1>1, SubSeqProperties, ElementOfSeq
  <2>. QED
    BY <2>2, <2>3
<1>3. B \in Seq(S) /\ Len(B) = L - k /\ \A i \in 1..(L - k) : B[i] = q[k + i]
  BY <1>1, SuffixSeq
<1>4. RemoveAt(q, k) = A \o B
  BY DEF RemoveAt
<1> HIDE DEF A, B
<1>5. /\ DOMAIN (A \o B) = 1..(L - 1)
      /\ \A i \in 1..(L - 1) : (A \o B)[i] = IF i <= k - 1 THEN q[i] ELSE q[i + 1]
  <2>1. /\ Len(A \o B) = (k - 1) + (L - k) /\ A \o B \in Seq(S)
        /\ \A i \in 1..((k - 1) + (L - k)) :
             (A \o B)[i] = IF i <= k - 1 THEN A[i] ELSE B[i - (k - 1)]
    <3>1. /\ A \o B \in Seq(S) /\ Len(A \o B) = Len(A) + Len(B)
          /\ \A i \in 1..(Len(A) + Len(B)) :
               (A \o B)[i] = IF i <= Len(A) THEN A[i] ELSE B[i - Len(A)]
      BY <1>2, <1>3, ConcatProperties
    <3>. QED
      BY <1>2, <1>3, <3>1, Zenon
  <2>2. (k - 1) + (L - k) = L - 1
    BY <1>1
  <2>3. \A i \in 1..(L - 1) : IF i <= k - 1 THEN i \in 1..(k - 1)
                              ELSE i - (k - 1) \in 1..(L - k) /\ k + (i - (k - 1)) = i + 1
    BY <1>1
  <2>4. DOMAIN (A \o B) = 1..(L - 1)
    BY <2>1, <2>2, LenProperties
  <2>. QED
    BY <1>2, <1>3, <2>1, <2>2, <2>3, <2>4
<1>. QED
  BY <1>1, <1>4, <1>5

LEMMA RemoveAtRange ==
  ASSUME NEW S, NEW q \in Seq(S), NEW k \in DOMAIN q
  PROVE  Range(RemoveAt(q, k)) \subseteq Range(q)
<1>1. PICK r : r = RemoveAt(q, k)
  OBVIOUS
<1>2. /\ Len(q) \in Nat /\ DOMAIN q = 1..Len(q) /\ DOMAIN r = 1..(Len(q) - 1)
      /\ \A i \in 1..(Len(q) - 1) : r[i] = IF i <= k - 1 THEN q[i] ELSE q[i + 1]
  BY <1>1, RemoveAtElements
<1>3. \A i \in 1..(Len(q) - 1) : i \in 1..Len(q) /\ i + 1 \in 1..Len(q)
  BY <1>2
<1>. QED
  BY <1>1, <1>2, <1>3 DEF Range

LEMMA RemoveAtDistinct ==
  ASSUME NEW S, NEW q \in Seq(S), NEW k \in DOMAIN q, Distinct(q)
  PROVE  /\ Distinct(RemoveAt(q, k))
         /\ \A x \in Range(RemoveAt(q, k)) : x \in Range(q) /\ x # q[k]
<1>1. PICK r : r = RemoveAt(q, k)
  OBVIOUS
<1>2. PICK L : L = Len(q)
  OBVIOUS
<1>3. /\ L \in Nat /\ k \in 1..L /\ DOMAIN q = 1..L /\ DOMAIN r = 1..(L - 1)
      /\ \A i \in 1..(L - 1) : r[i] = IF i <= k - 1 THEN q[i] ELSE q[i + 1]
  BY <1>1, <1>2, RemoveAtElements
<1>4. \A i \in 1..(L - 1) : /\ i \in 1..L /\ i + 1 \in 1..L
                            /\ (i <= k - 1 => i # k)
                            /\ (~(i <= k - 1) => i + 1 # k)
  BY <1>3
<1>5. Distinct(r)
  <2> SUFFICES ASSUME NEW i \in 1..(L - 1), NEW j \in 1..(L - 1), r[i] = r[j]
               PROVE  i = j
    BY <1>3 DEF Distinct
  <2>1. (IF i <= k - 1 THEN i ELSE i + 1) = (IF j <= k - 1 THEN j ELSE j + 1)
    BY <1>3, <1>4 DEF Distinct
  <2>. QED
    BY <1>3, <2>1
<1>6. \A x \in Range(r) : x \in Range(q) /\ x # q[k]
  <2> SUFFICES ASSUME NEW i \in 1..(L - 1) PROVE r[i] \in Range(q) /\ r[i] # q[k]
    BY <1>3 DEF Range
  <2>1. PICK j \in 1..L : j # k /\ r[i] = q[j]
    BY <1>3, <1>4
  <2>. QED
    BY <1>3, <2>1 DEF Distinct, Range
<1>. QED
  BY <1>1, <1>5, <1>6

\* A prefix and what is behind it have nothing in common.
LEMMA SplitDistinct ==
  ASSUME NEW S, NEW q \in Seq(S), Distinct(q), NEW n \in 1..Len(q)
  PROVE  /\ Distinct(SubSeq(q, n + 1, Len(q)))
         /\ \A x \in Range(SubSeq(q, n + 1, Len(q))) :
              x \in Range(q) /\ \A k \in 1..n : q[k] # x
<1> DEFINE L == Len(q)
           B == SubSeq(q, n + 1, L)
<1>1. L \in Nat /\ n \in 1..L /\ DOMAIN q = 1..L
  BY LenProperties
<1>2. B \in Seq(S) /\ Len(B) = L - n /\ \A i \in 1..(L - n) : B[i] = q[n + i]
  BY <1>1, SuffixSeq
<1> HIDE DEF B
<1>3. DOMAIN B = 1..(L - n)
  BY <1>2, LenProperties
<1>4. \A i \in 1..(L - n) : n + i \in 1..L /\ \A k \in 1..n : k \in 1..L /\ k # n + i
  BY <1>1
<1>5. ASSUME NEW i \in 1..(L - n), NEW x \in 1..L, B[i] = q[x] PROVE n + i = x
  <2>1. q[n + i] = q[x] /\ n + i \in DOMAIN q /\ x \in DOMAIN q
    BY <1>1, <1>2, <1>4, <1>5
  <2>. QED
    BY <2>1 DEF Distinct
<1>6. Distinct(B)
  <2> SUFFICES ASSUME NEW i \in 1..(L - n), NEW j \in 1..(L - n), B[i] = B[j] PROVE i = j
    BY <1>3 DEF Distinct
  <2>1. n + i = n + j
    BY <1>2, <1>4, <1>5
  <2>. QED
    BY <1>1, <2>1
<1>7. \A x \in Range(B) : x \in Range(q) /\ \A k \in 1..n : q[k] # x
  <2> SUFFICES ASSUME NEW i \in 1..(L - n)
               PROVE  B[i] \in Range(q) /\ \A k \in 1..n : q[k] # B[i]
    BY <1>3 DEF Range
  <2>1. B[i] = q[n + i] /\ n + i \in DOMAIN q
    BY <1>1, <1>2, <1>4
  <2>. QED
    BY <1>4, <1>5, <2>1 DEF Range
<1>. QED
  BY <1>6, <1>7 DEF B

-----------------------------------------------------------------------------
(* The entries of queued verdicts.                                         *)

Verdicts(D) == D \X {"ack", "nack"}

Firsts(v) == [k \in DOMAIN v |-> v[k][1]]

LEMMA FirstsSeq ==
  ASSUME NEW D, NEW v \in Seq(Verdicts(D))
  PROVE  /\ Firsts(v) \in Seq(D) /\ Len(Firsts(v)) = Len(v)
         /\ \A i : (\E d \in {"ack", "nack"} : <<i, d>> \in Range(v)) <=> i \in Range(Firsts(v))
<1>1. Len(v) \in Nat /\ DOMAIN v = 1..Len(v) /\ \A k \in 1..Len(v) : v[k] \in Verdicts(D)
  BY LenProperties, ElementOfSeq
<1>2. Firsts(v) \in [1..Len(v) -> D]
  BY <1>1 DEF Firsts, Verdicts
<1>3. Firsts(v) \in Seq(D)
  BY <1>1, <1>2, SeqDef
<1>4. Len(Firsts(v)) = Len(v)
  BY <1>1, <1>2, <1>3, LenProperties
<1>5. \A k \in 1..Len(v) : v[k] = <<v[k][1], v[k][2]>> /\ v[k][2] \in {"ack", "nack"}
  BY <1>1 DEF Verdicts
<1>6. ASSUME NEW i PROVE (\E d \in {"ack", "nack"} : <<i, d>> \in Range(v)) <=> i \in Range(Firsts(v))
  BY <1>1, <1>5 DEF Range, Firsts
<1>. QED
  BY <1>3, <1>4, <1>6

LEMMA FirstsAppend ==
  ASSUME NEW D, NEW v \in Seq(Verdicts(D)), NEW e \in D, NEW d \in {"ack", "nack"}
  PROVE  Firsts(Append(v, <<e, d>>)) = Append(Firsts(v), e)
<1>1. /\ Firsts(v) \in Seq(D) /\ Len(Firsts(v)) = Len(v) /\ Len(v) \in Nat
      /\ DOMAIN v = 1..Len(v) /\ <<e, d>> \in Verdicts(D)
  BY FirstsSeq, LenProperties DEF Verdicts
<1>2. /\ DOMAIN Append(v, <<e, d>>) = 1..(Len(v) + 1)
      /\ Append(v, <<e, d>>)[Len(v) + 1] = <<e, d>>
      /\ \A k \in 1..Len(v) : Append(v, <<e, d>>)[k] = v[k]
  BY <1>1, AppendProperties, LenProperties
<1>3. /\ Append(Firsts(v), e) \in [1..(Len(v) + 1) -> D]
      /\ Append(Firsts(v), e)[Len(v) + 1] = e
      /\ \A k \in 1..Len(v) : Append(Firsts(v), e)[k] = v[k][1]
  <2>1. /\ Append(Firsts(v), e) \in Seq(D) /\ Len(Append(Firsts(v), e)) = Len(v) + 1
        /\ Append(Firsts(v), e)[Len(v) + 1] = e
        /\ \A k \in 1..Len(v) : Append(Firsts(v), e)[k] = Firsts(v)[k]
    BY <1>1, AppendProperties
  <2>2. \A k \in 1..Len(v) : Firsts(v)[k] = v[k][1]
    BY <1>1 DEF Firsts
  <2>. QED
    BY <2>1, <2>2, LenProperties
<1>4. \A k \in 1..(Len(v) + 1) : k = Len(v) + 1 \/ k \in 1..Len(v)
  BY <1>1
<1>5. \A k \in 1..(Len(v) + 1) : Append(v, <<e, d>>)[k][1] = Append(Firsts(v), e)[k]
  BY <1>2, <1>3, <1>4
<1>. QED
  BY <1>2, <1>3, <1>5 DEF Firsts

\* Dropping a stream queues a nack for everything in its buffer.
LEMMA FirstsConcat ==
  ASSUME NEW D, NEW v \in Seq(Verdicts(D)), NEW b \in Seq(D)
  PROVE  Firsts(v \o [k \in DOMAIN b |-> <<b[k], "nack">>]) = Firsts(v) \o b
<1> DEFINE w == [k \in DOMAIN b |-> <<b[k], "nack">>]
<1>1. /\ Len(v) \in Nat /\ DOMAIN v = 1..Len(v)
      /\ Len(b) \in Nat /\ DOMAIN b = 1..Len(b) /\ \A k \in 1..Len(b) : b[k] \in D
  BY LenProperties, ElementOfSeq
<1>2. w \in Seq(Verdicts(D)) /\ Len(w) = Len(b) /\ \A k \in 1..Len(b) : w[k] = <<b[k], "nack">>
  <2>1. w \in [1..Len(b) -> Verdicts(D)]
    BY <1>1 DEF Verdicts
  <2>2. w \in Seq(Verdicts(D))
    BY <1>1, <2>1, SeqDef
  <2>. QED
    BY <1>1, <2>1, <2>2, LenProperties
<1> HIDE DEF w
<1>3. /\ DOMAIN (v \o w) = 1..(Len(v) + Len(b))
      /\ \A i \in 1..(Len(v) + Len(b)) :
           (v \o w)[i] = IF i <= Len(v) THEN v[i] ELSE w[i - Len(v)]
  <2> DEFINE T == Verdicts(D)
  <2>1. v \in Seq(T) /\ w \in Seq(T)
    BY <1>2
  <2> HIDE DEF T
  <2>2. /\ v \o w \in Seq(T) /\ Len(v \o w) = Len(v) + Len(w)
        /\ \A i \in 1..(Len(v) + Len(w)) :
             (v \o w)[i] = IF i <= Len(v) THEN v[i] ELSE w[i - Len(v)]
    BY <2>1, ConcatProperties
  <2>3. DOMAIN (v \o w) = 1..(Len(v) + Len(w))
    BY <2>2, LenProperties
  <2>. QED
    BY <1>2, <2>2, <2>3
<1>4. /\ Firsts(v) \o b \in [1..(Len(v) + Len(b)) -> D]
      /\ \A i \in 1..(Len(v) + Len(b)) :
           (Firsts(v) \o b)[i] = IF i <= Len(v) THEN Firsts(v)[i] ELSE b[i - Len(v)]
  <2> DEFINE F == Firsts(v)
  <2>1. F \in Seq(D) /\ Len(F) = Len(v)
    BY FirstsSeq
  <2> HIDE DEF F
  <2>2. /\ F \o b \in Seq(D) /\ Len(F \o b) = Len(v) + Len(b)
        /\ \A i \in 1..(Len(v) + Len(b)) :
             (F \o b)[i] = IF i <= Len(v) THEN F[i] ELSE b[i - Len(v)]
    BY <2>1, ConcatProperties
  <2>. QED
    BY <2>2, LenProperties DEF F
<1>5. \A i \in 1..(Len(v) + Len(b)) :
        IF i <= Len(v) THEN i \in 1..Len(v) ELSE i - Len(v) \in 1..Len(b)
  BY <1>1
<1>6. \A i \in 1..(Len(v) + Len(b)) : (v \o w)[i][1] = (Firsts(v) \o b)[i]
  BY <1>1, <1>2, <1>3, <1>4, <1>5 DEF Firsts
<1>7. Firsts(v \o w) = Firsts(v) \o b
  BY <1>3, <1>4, <1>6 DEF Firsts
<1>. QED
  BY <1>7 DEF w

LEMMA FirstsSuffix ==
  ASSUME NEW D, NEW v \in Seq(Verdicts(D)), NEW n \in 1..Len(v)
  PROVE  Firsts(SubSeq(v, n + 1, Len(v))) = SubSeq(Firsts(v), n + 1, Len(v))
<1> DEFINE L == Len(v)
           A == SubSeq(v, n + 1, L)
           B == SubSeq(Firsts(v), n + 1, L)
<1>1. L \in Nat /\ n \in 1..L /\ DOMAIN v = 1..L /\ Firsts(v) \in Seq(D) /\ Len(Firsts(v)) = L
  BY LenProperties, FirstsSeq
<1>2. A \in Seq(Verdicts(D)) /\ Len(A) = L - n /\ \A i \in 1..(L - n) : A[i] = v[n + i]
  BY <1>1, SuffixSeq
<1>3. B \in Seq(D) /\ Len(B) = L - n /\ \A i \in 1..(L - n) : B[i] = Firsts(v)[n + i]
  <2>1. n \in 1..Len(Firsts(v)) /\ B = SubSeq(Firsts(v), n + 1, Len(Firsts(v)))
    BY <1>1
  <2> HIDE DEF B
  <2>. QED
    BY <1>1, <2>1, SuffixSeq
<1> HIDE DEF A, B
<1>4. \A i \in 1..(L - n) : n + i \in 1..L
  BY <1>1
<1>5. DOMAIN A = 1..(L - n) /\ B \in [1..(L - n) -> D]
  BY <1>2, <1>3, LenProperties
<1>6. \A i \in 1..(L - n) : A[i][1] = B[i]
  BY <1>1, <1>2, <1>3, <1>4 DEF Firsts
<1>7. Firsts(A) = B
  BY <1>5, <1>6 DEF Firsts
<1>. QED
  BY <1>7 DEF A, B

-----------------------------------------------------------------------------
(* Leases.  While no idle limit has passed under a copy, an entry that one  *)
(* subscription handles is pending, not idle, and nobody else's; and it is  *)
(* in one place there: still to be sent, buffered, held, a queued verdict or *)
(* in the flusher's hands.                                                  *)

Judged(s) == Range(Firsts(verdicts[s]))

OneCopy(s) ==
  /\ Distinct(entries[s]) /\ Distinct(buffer[s]) /\ Distinct(held[s])
  /\ Distinct(Firsts(verdicts[s]))
  /\ \A i \in Range(entries[s]) : /\ i \notin Range(buffer[s]) /\ i \notin Range(held[s])
                                  /\ i \notin Judged(s) /\ i \notin flush[s].ids
  /\ \A i \in Range(buffer[s]) : /\ i \notin Range(held[s])
                                 /\ i \notin Judged(s) /\ i \notin flush[s].ids
  /\ \A i \in Range(held[s]) : i \notin Judged(s) /\ i \notin flush[s].ids
  /\ \A i \in Judged(s) : i \notin flush[s].ids

Leases ==
  \A s \in Subs : \A i : InFlight(s, i) =>
    /\ i \in pel[GroupOf[s]] /\ i \notin idle[GroupOf[s]]
    /\ \A t \in Subs : GroupOf[s] = GroupOf[t] /\ InFlight(t, i) => s = t

LeaseInv == timeouts = 0 => Leases /\ \A s \in Subs : OneCopy(s)

\* What the type invariant says of the places a copy may be in.
LEMMA PlaceTypes ==
  ASSUME TypeOK, NEW s \in Subs
  PROVE  LET D == 1..last[GroupOf[s]]
         IN /\ entries[s] \in Seq(D) /\ buffer[s] \in Seq(D) /\ held[s] \in Seq(D)
            /\ verdicts[s] \in Seq(Verdicts(D)) /\ flush[s].ids \subseteq D
            /\ GroupOf[s] \in Groups
BY RedisAssumption DEF TypeOK, SubTypeOK, Verdicts

LEMMA Places ==
  ASSUME TypeOK, NEW s \in Subs
  PROVE  \A i : InFlight(s, i) <=> \/ i \in Range(entries[s]) \/ i \in Range(buffer[s])
                                   \/ i \in Range(held[s]) \/ i \in Judged(s)
                                   \/ i \in flush[s].ids
<1>1. PICK D : verdicts[s] \in Seq(Verdicts(D))
  BY PlaceTypes
<1>2. \A i : (\E d \in {"ack", "nack"} : <<i, d>> \in Range(verdicts[s])) <=> i \in Judged(s)
  BY <1>1, FirstsSeq DEF Judged
<1>. QED
  BY <1>2 DEF InFlight

LEMMA PlacesNext ==
  ASSUME TypeOK', NEW s \in Subs
  PROVE  \A i : InFlight(s, i)' <=> \/ i \in Range(entries'[s]) \/ i \in Range(buffer'[s])
                                    \/ i \in Range(held'[s]) \/ i \in Judged(s)'
                                    \/ i \in flush'[s].ids
<1>1. PICK D : verdicts'[s] \in Seq(Verdicts(D))
  <2>1. verdicts'[s] \in Seq(Verdicts(1..last'[GroupOf[s]]))
    BY DEF TypeOK, SubTypeOK, Verdicts
  <2>. QED
    BY <2>1
<1>2. \A i : (\E d \in {"ack", "nack"} : <<i, d>> \in Range(verdicts'[s])) <=> i \in Judged(s)'
  BY <1>1, FirstsSeq DEF Judged
<1>. QED
  BY <1>2 DEF InFlight

\* What is said of a subscription that does not move.
LEMMA CopyFrame ==
  ASSUME NEW s \in Subs, entries'[s] = entries[s], buffer'[s] = buffer[s],
         held'[s] = held[s], verdicts'[s] = verdicts[s], flush'[s].ids = flush[s].ids
  PROVE  /\ OneCopy(s)' <=> OneCopy(s)
         /\ \A i : InFlight(s, i)' <=> InFlight(s, i)
BY DEF OneCopy, Judged, InFlight

\* A step of s that is given the entries N, which nobody had, and loses those in M.
LEMMA OwnStep ==
  ASSUME LeaseInv, NEW s \in Subs, NEW N, NEW M, UNCHANGED timeouts,
         \A t \in Subs \ {s} :
           /\ entries'[t] = entries[t] /\ buffer'[t] = buffer[t] /\ held'[t] = held[t]
           /\ verdicts'[t] = verdicts[t] /\ flush'[t].ids = flush[t].ids,
         \A i : InFlight(s, i)' => InFlight(s, i) \/ i \in N,
         timeouts = 0 => OneCopy(s)',
         timeouts = 0 => \A i \in N, t \in Subs : GroupOf[t] = GroupOf[s] => ~InFlight(t, i),
         \A i \in N : i \in pel'[GroupOf[s]] /\ i \notin idle'[GroupOf[s]],
         \A g \in Groups : \A i : i \in pel[g] /\ i \notin idle[g] =>
            (i \in pel'[g] /\ i \notin idle'[g]) \/ (g = GroupOf[s] /\ i \in M),
         timeouts = 0 => \A i \in M : InFlight(s, i) /\ ~InFlight(s, i)'
  PROVE  LeaseInv'
<1> SUFFICES ASSUME timeouts = 0 PROVE Leases' /\ \A t \in Subs : OneCopy(t)'
  BY DEF LeaseInv
<1>0. GroupOf \in [Subs -> Groups]
  BY RedisAssumption
<1>1. Leases /\ \A t \in Subs : OneCopy(t)
  BY DEF LeaseInv
<1>2. \A t \in Subs \ {s} : /\ OneCopy(t)'
                            /\ \A i : InFlight(t, i)' <=> InFlight(t, i)
  BY <1>1, CopyFrame
<1>3. ASSUME NEW t \in Subs, NEW i, InFlight(t, i)'
      PROVE  /\ i \in pel'[GroupOf[t]] /\ i \notin idle'[GroupOf[t]]
             /\ \A u \in Subs : GroupOf[t] = GroupOf[u] /\ InFlight(u, i)' => t = u
  <2>1. CASE t = s /\ i \in N
    BY <1>2, <2>1
  <2>2. CASE ~(t = s /\ i \in N)
    <3>1. InFlight(t, i)
      BY <1>2, <1>3, <2>2
    <3>2. GroupOf[t] = GroupOf[s] => i \notin N
      BY <3>1
    <3>3. \A u \in Subs : GroupOf[t] = GroupOf[u] /\ InFlight(u, i)' => InFlight(u, i)
      BY <1>2, <3>2
    <3>4. ~(GroupOf[t] = GroupOf[s] /\ i \in M)
      BY <1>1, <1>3, <3>1 DEF Leases
    <3>. QED
      BY <1>0, <1>1, <3>1, <3>3, <3>4 DEF Leases
  <2>. QED
    BY <2>1, <2>2
<1>. QED
  BY <1>2, <1>3 DEF Leases

\* A step of s that passes its copies on and touches no pending entry.
LEMMA PassOn ==
  ASSUME LeaseInv, NEW s \in Subs, UNCHANGED <<pel, idle, timeouts>>,
         \A t \in Subs \ {s} :
           /\ entries'[t] = entries[t] /\ buffer'[t] = buffer[t] /\ held'[t] = held[t]
           /\ verdicts'[t] = verdicts[t] /\ flush'[t].ids = flush[t].ids,
         \A i : InFlight(s, i)' => InFlight(s, i),
         timeouts = 0 => OneCopy(s)'
  PROVE  LeaseInv'
<1>1. PICK N : N = {}
  OBVIOUS
<1>2. /\ \A i \in N : FALSE
      /\ \A g \in Groups : \A i : i \in pel[g] /\ i \notin idle[g] =>
           (i \in pel'[g] /\ i \notin idle'[g]) \/ (g = GroupOf[s] /\ i \in N)
      /\ \A i : InFlight(s, i)' => InFlight(s, i) \/ i \in N
  BY <1>1
<1>3. /\ timeouts = 0 => \A i \in N, t \in Subs : GroupOf[t] = GroupOf[s] => ~InFlight(t, i)
      /\ \A i \in N : i \in pel'[GroupOf[s]] /\ i \notin idle'[GroupOf[s]]
      /\ timeouts = 0 => \A i \in N : InFlight(s, i) /\ ~InFlight(s, i)'
  BY <1>2
<1>. QED
  BY <1>2, <1>3, OwnStep

\* The steps that touch neither copies nor pending entries.
LEMMA QuietLease ==
  ASSUME LeaseInv, UNCHANGED <<entries, buffer, held, verdicts, pel, idle, timeouts>>,
         \A s \in Subs : flush'[s].ids = flush[s].ids
  PROVE  LeaseInv'
<1>1. \A s \in Subs : /\ OneCopy(s)' <=> OneCopy(s)
                      /\ \A i : InFlight(s, i)' <=> InFlight(s, i)
  BY CopyFrame
<1>. QED
  BY <1>1 DEF LeaseInv, Leases

\* XREADGROUP: what it delivers was delivered to nobody before.
LEMMA ReadLease ==
  ASSUME TypeOK, TypeOK', LeaseInv, NEW s \in Subs, PollRead(s) PROVE LeaseInv'
<1> DEFINE g == GroupOf[s]
<1>N. PICK N : N = Fresh(g)
  OBVIOUS
<1>1. PICK q \in Ascending(N) : entries' = [entries EXCEPT ![s] = q]
  BY <1>N DEF PollRead
<1>2. /\ UNCHANGED <<idle, timeouts>> /\ UNCHANGED <<buffer, held, verdicts, flush>>
      /\ pel' = [pel EXCEPT ![g] = @ \cup N]
  BY <1>N DEF PollRead, Deliver, leaseVars
<1>3. /\ entries'[s] = q /\ \A t \in Subs \ {s} : entries'[t] = entries[t]
      /\ pel'[g] = pel[g] \cup N /\ \A h \in Groups \ {g} : pel'[h] = pel[h]
      /\ g \in Groups
  BY <1>1, <1>2, RedisAssumption DEF TypeOK, ServerTypeOK
<1>4. q \in Seq(N) /\ Range(q) = N /\ Distinct(q)
  <2>1. IsFiniteSet(N) /\ N \in SUBSET Nat
    <3>1. Fresh(g) \subseteq DOMAIN log /\ DOMAIN log = 1..Len(log) /\ Len(log) \in Nat
      BY LenProperties DEF Fresh, TypeOK, ServerTypeOK
    <3>. QED
      BY <1>N, <1>3, <3>1, DeliverType
  <2>. QED
    BY <2>1, AscendingDistinct
<1>5. ASSUME NEW i \in N, NEW t \in Subs, GroupOf[t] = g
      PROVE  ~InFlight(t, i) /\ i \notin idle[g]
  <2>1. i \notin 1..last[g]
    <3>1. last[g] \in Nat /\ last[g] < i
      BY <1>N, <1>3, LenProperties DEF Fresh, TypeOK, ServerTypeOK
    <3>. QED
      BY <3>1
  <2>2. idle[g] \subseteq 1..last[g]
    BY <1>3 DEF TypeOK, ServerTypeOK
  <2>3. PICK D : D = 1..last[g]
    OBVIOUS
  <2>4. /\ entries[t] \in Seq(D) /\ buffer[t] \in Seq(D) /\ held[t] \in Seq(D)
        /\ verdicts[t] \in Seq(Verdicts(D)) /\ flush[t].ids \subseteq D
    BY <1>5, <2>3, PlaceTypes
  <2>5. Firsts(verdicts[t]) \in Seq(D)
    BY <2>4, FirstsSeq
  <2>6. \A r \in Seq(D) : Range(r) \subseteq D
    BY ElementOfSeq, LenProperties DEF Range
  <2>7. /\ Range(entries[t]) \subseteq D /\ Range(buffer[t]) \subseteq D
        /\ Range(held[t]) \subseteq D /\ Judged(t) \subseteq D
    BY <2>4, <2>5, <2>6 DEF Judged
  <2>8. i \notin D
    BY <2>1, <2>3
  <2>9. ~InFlight(t, i)
    BY <2>4, <2>7, <2>8, Places
  <2>. QED
    BY <2>1, <2>2, <2>9
<1>6. \A i : InFlight(s, i)' => InFlight(s, i) \/ i \in N
  BY <1>2, <1>3, <1>4 DEF InFlight
<1>7. ASSUME timeouts = 0 PROVE OneCopy(s)'
  <2>1. OneCopy(s)
    BY <1>7 DEF LeaseInv
  <2>2. \A i \in N : ~InFlight(s, i)
    BY <1>5
  <2>3. \A i \in N : /\ i \notin Range(buffer[s]) /\ i \notin Range(held[s])
                     /\ i \notin Judged(s) /\ i \notin flush[s].ids
    BY <2>2, Places
  <2>. QED
    BY <1>2, <1>3, <1>4, <2>1, <2>3 DEF OneCopy, Judged
<1>8. PICK M : M = {}
  OBVIOUS
<1>9. /\ \A i \in N : i \in pel'[g] /\ i \notin idle'[g]
      /\ \A h \in Groups : \A i : i \in pel[h] /\ i \notin idle[h] =>
           (i \in pel'[h] /\ i \notin idle'[h]) \/ (h = g /\ i \in M)
      /\ timeouts = 0 => \A i \in M : InFlight(s, i) /\ ~InFlight(s, i)'
      /\ timeouts = 0 => \A i \in N, t \in Subs : GroupOf[t] = g => ~InFlight(t, i)
  BY <1>2, <1>3, <1>5, <1>8
<1>10. \A t \in Subs \ {s} :
         /\ entries'[t] = entries[t] /\ buffer'[t] = buffer[t] /\ held'[t] = held[t]
         /\ verdicts'[t] = verdicts[t] /\ flush'[t].ids = flush[t].ids
  BY <1>2, <1>3
<1>. QED
  BY <1>2, <1>6, <1>7, <1>9, <1>10, OwnStep

\* XAUTOCLAIM: what has become idle is in nobody's hands, and fresh again when s has it.
LEMMA ClaimLease ==
  ASSUME TypeOK, TypeOK', LeaseInv, NEW s \in Subs, PollClaim(s) PROVE LeaseInv'
<1> DEFINE g == GroupOf[s]
<1>0. UNCHANGED <<pel, timeouts>> /\ UNCHANGED <<buffer, held, verdicts, flush>>
  BY DEF PollClaim, leaseVars
<1>1. CASE UNCHANGED <<entries, idle>>
  BY <1>0, <1>1, QuietLease
<1>2. CASE ~UNCHANGED <<entries, idle>>
  <2>N. PICK N : N = idle[g]
    OBVIOUS
  <2>1. PICK q \in Ascending(N) :
          entries' = [entries EXCEPT ![s] = @ \o q] /\ idle' = [idle EXCEPT ![g] = @ \ N]
    BY <1>2, <2>N DEF PollClaim, IdlePending
  <2>2. /\ entries'[s] = entries[s] \o q /\ \A t \in Subs \ {s} : entries'[t] = entries[t]
        /\ idle'[g] = {} /\ \A h \in Groups \ {g} : idle'[h] = idle[h]
        /\ g \in Groups
    BY <2>N, <2>1, RedisAssumption DEF TypeOK, ServerTypeOK
  <2>3. N \subseteq 1..last[g] /\ N \subseteq pel[g]
    BY <2>N, <2>2 DEF TypeOK, ServerTypeOK
  <2>4. q \in Seq(N) /\ Range(q) = N /\ Distinct(q)
    <3>1. PICK n \in Nat : n = last[g]
      BY <2>2, LenProperties DEF TypeOK, ServerTypeOK
    <3>2. IsFiniteSet(1..n)
      <4>1. 1 \in Int /\ n \in Int
        OBVIOUS
      <4>. QED
        BY <4>1, FS_Interval
    <3>3. N \in SUBSET (1..n)
      BY <2>3, <3>1
    <3>4. IsFiniteSet(N)
      BY <3>2, <3>3, FS_Subset
    <3>5. N \in SUBSET Nat
      BY <3>3
    <3>. QED
      BY <3>4, <3>5, AscendingDistinct
  <2>5. timeouts = 0 => \A i \in N, t \in Subs : GroupOf[t] = g => ~InFlight(t, i)
    BY <2>N DEF LeaseInv, Leases
  <2>6. PICK D : D = 1..last[g]
    OBVIOUS
  <2>7. entries[s] \in Seq(D) /\ q \in Seq(D)
    <3>1. Seq(N) \subseteq Seq(D)
      BY <2>3, <2>6, SeqMonotonic
    <3>. QED
      BY <2>4, <2>6, <3>1, PlaceTypes
  <2>8. \A x \in Range(entries'[s]) : x \in Range(entries[s]) \/ x \in N
    BY <2>2, <2>4, <2>7, RangeConcat
  <2>9. \A i : InFlight(s, i)' => InFlight(s, i) \/ i \in N
    BY <1>0, <2>8 DEF InFlight
  <2>10. ASSUME timeouts = 0 PROVE OneCopy(s)'
    <3>1. OneCopy(s)
      BY <2>10 DEF LeaseInv
    <3>2. \A i \in N : /\ i \notin Range(entries[s]) /\ i \notin Range(buffer[s])
                       /\ i \notin Range(held[s]) /\ i \notin Judged(s) /\ i \notin flush[s].ids
      BY <2>5, <2>10, Places
    <3>3. Distinct(entries'[s])
      BY <2>2, <2>4, <2>7, <3>1, <3>2, ConcatDistinct DEF OneCopy
    <3>. QED
      BY <1>0, <2>8, <3>1, <3>2, <3>3 DEF OneCopy, Judged
  <2>11. PICK M : M = {}
    OBVIOUS
  <2>12. /\ \A i \in N : i \in pel'[g] /\ i \notin idle'[g]
         /\ \A h \in Groups : \A i : i \in pel[h] /\ i \notin idle[h] =>
              (i \in pel'[h] /\ i \notin idle'[h]) \/ (h = g /\ i \in M)
         /\ timeouts = 0 => \A i \in M : InFlight(s, i) /\ ~InFlight(s, i)'
    BY <1>0, <2>2, <2>3, <2>11
  <2>13. \A t \in Subs \ {s} :
           /\ entries'[t] = entries[t] /\ buffer'[t] = buffer[t] /\ held'[t] = held[t]
           /\ verdicts'[t] = verdicts[t] /\ flush'[t].ids = flush[t].ids
    BY <1>0, <2>2
  <2>. QED
    BY <1>0, <2>5, <2>9, <2>10, <2>12, <2>13, OwnStep
<1>. QED
  BY <1>1, <1>2

\* A step of s that drops or passes copies on, and may settle those in M, which it
\* drops.
LEMMA SettleStep ==
  ASSUME TypeOK, LeaseInv, NEW s \in Subs, NEW M, UNCHANGED timeouts,
         Settled(GroupOf[s], M) \/ UNCHANGED <<pel, idle>>,
         \A t \in Subs \ {s} :
           /\ entries'[t] = entries[t] /\ buffer'[t] = buffer[t] /\ held'[t] = held[t]
           /\ verdicts'[t] = verdicts[t] /\ flush'[t].ids = flush[t].ids,
         \A i : InFlight(s, i)' => InFlight(s, i),
         timeouts = 0 => OneCopy(s)' /\ \A i \in M : InFlight(s, i) /\ ~InFlight(s, i)'
  PROVE  LeaseInv'
<1>1. PICK N : N = {}
  OBVIOUS
<1>2. /\ \A i : InFlight(s, i)' => InFlight(s, i) \/ i \in N
      /\ timeouts = 0 => \A i \in N, t \in Subs : GroupOf[t] = GroupOf[s] => ~InFlight(t, i)
      /\ \A i \in N : i \in pel'[GroupOf[s]] /\ i \notin idle'[GroupOf[s]]
  BY <1>1
<1>3. \A g \in Groups : \A i : i \in pel[g] /\ i \notin idle[g] =>
        (i \in pel'[g] /\ i \notin idle'[g]) \/ (g = GroupOf[s] /\ i \in M)
  BY RedisAssumption DEF Settled, TypeOK, ServerTypeOK
<1>. QED
  BY <1>2, <1>3, OwnStep

\* An entry that cannot be read is settled and skipped.
LEMMA GarbledLease ==
  ASSUME TypeOK, TypeOK', LeaseInv, NEW s \in Subs, SkipGarbled(s) PROVE LeaseInv'
<1>M. PICK M : M = {Head(entries[s])}
  OBVIOUS
<1>1. /\ entries[s] # <<>> /\ entries' = [entries EXCEPT ![s] = Tail(@)]
      /\ UNCHANGED timeouts /\ UNCHANGED <<buffer, held, verdicts, flush>>
      /\ Settled(GroupOf[s], M) \/ UNCHANGED <<pel, idle>>
  BY <1>M DEF SkipGarbled, leaseVars
<1>2. PICK D : entries[s] \in Seq(D)
  BY PlaceTypes
<1>3. /\ entries'[s] = Tail(entries[s]) /\ \A t \in Subs \ {s} : entries'[t] = entries[t]
      /\ Range(entries[s]) = {Head(entries[s])} \cup Range(Tail(entries[s]))
  BY <1>1, <1>2, TailFacts DEF TypeOK
<1>4. \A i : InFlight(s, i)' => InFlight(s, i)
  BY <1>1, <1>3 DEF InFlight
<1>5. ASSUME timeouts = 0 PROVE OneCopy(s)' /\ \A i \in M : InFlight(s, i) /\ ~InFlight(s, i)'
  <2>1. OneCopy(s)
    BY <1>5 DEF LeaseInv
  <2>2. Distinct(entries'[s]) /\ Head(entries[s]) \notin Range(entries'[s])
    BY <1>1, <1>2, <1>3, <2>1, TailDistinct DEF OneCopy
  <2>3. OneCopy(s)'
    BY <1>1, <1>3, <2>1, <2>2 DEF OneCopy, Judged
  <2>4. ASSUME NEW i \in M PROVE InFlight(s, i) /\ ~InFlight(s, i)'
    <3>1. i \in Range(entries[s]) /\ i \notin Range(entries'[s])
      BY <1>M, <1>3, <2>2, <2>4
    <3>2. /\ i \notin Range(buffer'[s]) /\ i \notin Range(held'[s]) /\ i \notin Judged(s)'
          /\ i \notin flush'[s].ids
      BY <1>1, <2>1, <3>1 DEF OneCopy, Judged
    <3>. QED
      BY <3>1, <3>2, Places, PlacesNext
  <2>. QED
    BY <2>3, <2>4
<1>6. \A t \in Subs \ {s} :
        /\ entries'[t] = entries[t] /\ buffer'[t] = buffer[t] /\ held'[t] = held[t]
        /\ verdicts'[t] = verdicts[t] /\ flush'[t].ids = flush[t].ids
  BY <1>1, <1>3
<1>. QED
  BY <1>1, <1>4, <1>5, <1>6, SettleStep

\* reenqueue() settles the entry it re-added and forgets the rest of the batch.
LEMMA RequeueLease ==
  ASSUME TypeOK, TypeOK', LeaseInv, NEW s \in Subs, RequeueAck(s) PROVE LeaseInv'
<1>M. PICK M : M = {Head(entries[s])}
  OBVIOUS
<1>1. /\ entries[s] # <<>> /\ entries' = [entries EXCEPT ![s] = <<>>]
      /\ UNCHANGED timeouts /\ UNCHANGED <<buffer, held, verdicts, flush>>
      /\ Settled(GroupOf[s], M) \/ UNCHANGED <<pel, idle>>
  BY <1>M DEF RequeueAck, leaseVars, TypeOK, SubTypeOK
<1>2. PICK D : entries[s] \in Seq(D)
  BY PlaceTypes
<1>3. /\ entries'[s] = <<>> /\ \A t \in Subs \ {s} : entries'[t] = entries[t]
      /\ Head(entries[s]) \in Range(entries[s])
  BY <1>1, <1>2, TailFacts DEF TypeOK
<1>4. \A i : InFlight(s, i)' => InFlight(s, i)
  BY <1>1, <1>3, EmptyFacts DEF InFlight
<1>5. ASSUME timeouts = 0 PROVE OneCopy(s)' /\ \A i \in M : InFlight(s, i) /\ ~InFlight(s, i)'
  <2>1. OneCopy(s)
    BY <1>5 DEF LeaseInv
  <2>2. OneCopy(s)'
    BY <1>1, <1>3, <2>1, EmptyFacts, EmptyDistinct DEF OneCopy, Judged
  <2>3. ASSUME NEW i \in M PROVE InFlight(s, i) /\ ~InFlight(s, i)'
    <3>1. i \in Range(entries[s]) /\ i \notin Range(entries'[s])
      BY <1>M, <1>3, EmptyFacts
    <3>2. /\ i \notin Range(buffer'[s]) /\ i \notin Range(held'[s]) /\ i \notin Judged(s)'
          /\ i \notin flush'[s].ids
      BY <1>1, <2>1, <3>1 DEF OneCopy, Judged
    <3>. QED
      BY <3>1, <3>2, Places, PlacesNext
  <2>. QED
    BY <2>2, <2>3
<1>6. \A t \in Subs \ {s} :
        /\ entries'[t] = entries[t] /\ buffer'[t] = buffer[t] /\ held'[t] = held[t]
        /\ verdicts'[t] = verdicts[t] /\ flush'[t].ids = flush[t].ids
  BY <1>1, <1>3
<1>. QED
  BY <1>1, <1>4, <1>5, <1>6, SettleStep

LEMMA SendLease ==
  ASSUME TypeOK, LeaseInv, NEW s \in Subs, SendNext(s) PROVE LeaseInv'
<1> DEFINE e == Head(entries[s])
<1>1. /\ entries[s] # <<>> /\ entries' = [entries EXCEPT ![s] = Tail(@)]
      /\ buffer' = [buffer EXCEPT ![s] = Append(@, e)]
      /\ UNCHANGED <<pel, idle, timeouts>> /\ UNCHANGED <<held, verdicts, flush>>
  BY DEF SendNext, serverVars, countVars
<1>2. PICK D : entries[s] \in Seq(D) /\ buffer[s] \in Seq(D)
  BY PlaceTypes
<1>3. /\ entries'[s] = Tail(entries[s]) /\ buffer'[s] = Append(buffer[s], e)
      /\ \A t \in Subs \ {s} : entries'[t] = entries[t] /\ buffer'[t] = buffer[t]
  BY <1>1 DEF TypeOK
<1>4. /\ e \in D /\ Range(entries[s]) = {e} \cup Range(entries'[s])
      /\ Range(buffer'[s]) = Range(buffer[s]) \cup {e}
  BY <1>1, <1>2, <1>3, TailFacts, AppendFacts
<1>5. \A i : InFlight(s, i)' => InFlight(s, i)
  BY <1>1, <1>4 DEF InFlight
<1>6. ASSUME timeouts = 0 PROVE OneCopy(s)'
  <2>1. OneCopy(s)
    BY <1>6 DEF LeaseInv
  <2>2. Distinct(entries'[s]) /\ e \notin Range(entries'[s])
    BY <1>1, <1>2, <1>3, <2>1, TailDistinct DEF OneCopy
  <2>3. /\ e \notin Range(buffer[s]) /\ e \notin Range(held[s]) /\ e \notin Judged(s)
        /\ e \notin flush[s].ids
    BY <1>4, <2>1 DEF OneCopy
  <2>4. Distinct(buffer'[s])
    BY <1>2, <1>3, <1>4, <2>1, <2>3, AppendDistinct DEF OneCopy
  <2>5. Judged(s)' = Judged(s)
    BY <1>1 DEF Judged
  <2>6. /\ held'[s] = held[s] /\ verdicts'[s] = verdicts[s] /\ flush'[s].ids = flush[s].ids
    BY <1>1
  <2>. QED
    BY <1>4, <2>1, <2>2, <2>3, <2>4, <2>5, <2>6 DEF OneCopy
<1>. QED
  BY <1>1, <1>3, <1>5, <1>6, PassOn

LEMMA TakeLease ==
  ASSUME TypeOK, LeaseInv, NEW s \in Subs, Take(s) PROVE LeaseInv'
<1> DEFINE e == Head(buffer[s])
<1>1. /\ buffer[s] # <<>> /\ buffer' = [buffer EXCEPT ![s] = Tail(@)]
      /\ held' = [held EXCEPT ![s] = Append(@, e)]
      /\ UNCHANGED <<pel, idle, timeouts>> /\ UNCHANGED <<entries, verdicts, flush>>
  BY DEF Take, serverVars, countVars, pollVars
<1>2. PICK D : held[s] \in Seq(D) /\ buffer[s] \in Seq(D)
  BY PlaceTypes
<1>3. /\ buffer'[s] = Tail(buffer[s]) /\ held'[s] = Append(held[s], e)
      /\ \A t \in Subs \ {s} : held'[t] = held[t] /\ buffer'[t] = buffer[t]
  BY <1>1 DEF TypeOK
<1>4. /\ e \in D /\ Range(buffer[s]) = {e} \cup Range(buffer'[s])
      /\ Range(held'[s]) = Range(held[s]) \cup {e}
  BY <1>1, <1>2, <1>3, TailFacts, AppendFacts
<1>5. \A i : InFlight(s, i)' => InFlight(s, i)
  BY <1>1, <1>4 DEF InFlight
<1>6. ASSUME timeouts = 0 PROVE OneCopy(s)'
  <2>1. OneCopy(s)
    BY <1>6 DEF LeaseInv
  <2>2. Distinct(buffer'[s]) /\ e \notin Range(buffer'[s])
    BY <1>1, <1>2, <1>3, <2>1, TailDistinct DEF OneCopy
  <2>3. /\ e \notin Range(entries[s]) /\ e \notin Range(held[s]) /\ e \notin Judged(s)
        /\ e \notin flush[s].ids
    BY <1>4, <2>1 DEF OneCopy
  <2>4. Distinct(held'[s])
    BY <1>2, <1>3, <1>4, <2>1, <2>3, AppendDistinct DEF OneCopy
  <2>5. Judged(s)' = Judged(s)
    BY <1>1 DEF Judged
  <2>6. entries'[s] = entries[s] /\ verdicts'[s] = verdicts[s] /\ flush'[s].ids = flush[s].ids
    BY <1>1
  <2>. QED
    BY <1>4, <2>1, <2>2, <2>3, <2>4, <2>5, <2>6 DEF OneCopy
<1>. QED
  BY <1>1, <1>3, <1>5, <1>6, PassOn

\* A verdict moves an entry from the consumer's hands to the queue of the flusher.
LEMMA VerdictLease ==
  ASSUME TypeOK, TypeOK', LeaseInv, NEW s \in Subs, Ack(s) \/ Nack(s) PROVE LeaseInv'
<1>1. PICK k \in DOMAIN held[s], d \in {"ack", "nack"} : Settle(s, k, d)
  BY DEF Ack, Nack
<1>2. /\ held' = [held EXCEPT ![s] = RemoveAt(@, k)]
      /\ verdicts' = [verdicts EXCEPT ![s] = Append(@, <<held[s][k], d>>)]
      /\ UNCHANGED <<pel, idle, timeouts>> /\ UNCHANGED <<entries, buffer, flush>>
  BY <1>1 DEF Ack, Nack, Settle, serverVars, pollVars, countVars
<1>e. PICK e : e = held[s][k]
  OBVIOUS
<1>3. PICK D : held[s] \in Seq(D) /\ verdicts[s] \in Seq(Verdicts(D))
  BY PlaceTypes
<1>4. /\ held'[s] = RemoveAt(held[s], k) /\ verdicts'[s] = Append(verdicts[s], <<e, d>>)
      /\ \A t \in Subs \ {s} : held'[t] = held[t] /\ verdicts'[t] = verdicts[t]
  BY <1>2, <1>e DEF TypeOK
<1>5. e \in D /\ e \in Range(held[s])
  BY <1>e, <1>3, ElementOfSeq, LenProperties DEF Range
<1>6. Firsts(verdicts'[s]) = Append(Firsts(verdicts[s]), e) /\ Firsts(verdicts[s]) \in Seq(D)
  BY <1>3, <1>4, <1>5, FirstsAppend, FirstsSeq
<1>7. Judged(s)' = Judged(s) \cup {e}
  BY <1>5, <1>6, AppendFacts DEF Judged
<1>8. Range(held'[s]) \subseteq Range(held[s])
  <2>1. Len(held[s]) \in Nat /\ DOMAIN held[s] = 1..Len(held[s])
    BY <1>3, LenProperties
  <2>2. k \in 1..Len(held[s])
    BY <2>1
  <2>. QED
    BY <1>3, <1>4, RemoveAtRange
<1>9. \A i : InFlight(s, i)' => InFlight(s, i)
  <2>1. \A i \in Judged(s)' : i \in Judged(s) \/ i \in Range(held[s])
    BY <1>5, <1>7
  <2>. QED
    BY <1>2, <1>8, <2>1, Places, PlacesNext
<1>10. ASSUME timeouts = 0 PROVE OneCopy(s)'
  <2>1. OneCopy(s)
    BY <1>10 DEF LeaseInv
  <2>2. Distinct(held'[s]) /\ e \notin Range(held'[s])
    BY <1>3, <1>4, <1>e, <2>1, RemoveAtDistinct DEF OneCopy
  <2>3. /\ e \notin Range(entries[s]) /\ e \notin Range(buffer[s]) /\ e \notin Judged(s)
        /\ e \notin flush[s].ids
    BY <1>5, <2>1 DEF OneCopy
  <2>4. Distinct(Firsts(verdicts'[s]))
    BY <1>5, <1>6, <2>1, <2>3, AppendDistinct DEF OneCopy, Judged
  <2>5. entries'[s] = entries[s] /\ buffer'[s] = buffer[s] /\ flush'[s].ids = flush[s].ids
    BY <1>2
  <2>. QED
    BY <1>7, <1>8, <2>1, <2>2, <2>3, <2>4, <2>5 DEF OneCopy
<1>. QED
  BY <1>2, <1>4, <1>9, <1>10, PassOn

\* A dropped stream turns what is in its buffer into nacks.
LEMMA DropLease ==
  ASSUME TypeOK, TypeOK', LeaseInv, NEW s \in Subs, DropStream(s) PROVE LeaseInv'
<1>1. /\ verdicts' = [verdicts EXCEPT ![s] =
                        @ \o [k \in DOMAIN buffer[s] |-> <<buffer[s][k], "nack">>]]
      /\ buffer' = [buffer EXCEPT ![s] = <<>>]
      /\ UNCHANGED <<pel, idle, timeouts>> /\ UNCHANGED <<entries, held, flush>>
  BY DEF DropStream, serverVars, pollVars, countVars
<1>2. PICK D : buffer[s] \in Seq(D) /\ verdicts[s] \in Seq(Verdicts(D))
  BY PlaceTypes
<1>3. /\ verdicts'[s] = verdicts[s] \o [k \in DOMAIN buffer[s] |-> <<buffer[s][k], "nack">>]
      /\ buffer'[s] = <<>>
      /\ \A t \in Subs \ {s} : buffer'[t] = buffer[t] /\ verdicts'[t] = verdicts[t]
  BY <1>1 DEF TypeOK
<1>4. Firsts(verdicts'[s]) = Firsts(verdicts[s]) \o buffer[s] /\ Firsts(verdicts[s]) \in Seq(D)
  BY <1>2, <1>3, FirstsConcat, FirstsSeq
<1>5. \A i \in Judged(s)' : i \in Judged(s) \/ i \in Range(buffer[s])
  BY <1>2, <1>4, RangeConcat DEF Judged
<1>6. \A i : InFlight(s, i)' => InFlight(s, i)
  BY <1>1, <1>3, <1>5, EmptyFacts, Places, PlacesNext
<1>7. ASSUME timeouts = 0 PROVE OneCopy(s)'
  <2>1. OneCopy(s)
    BY <1>7 DEF LeaseInv
  <2>2. Distinct(Firsts(verdicts'[s]))
    <3>1. \A i \in Range(Firsts(verdicts[s])) : i \notin Range(buffer[s])
      BY <2>1 DEF OneCopy, Judged
    <3>. QED
      BY <1>2, <1>4, <2>1, <3>1, ConcatDistinct DEF OneCopy
  <2>3. entries'[s] = entries[s] /\ held'[s] = held[s] /\ flush'[s].ids = flush[s].ids
    BY <1>1
  <2>. QED
    BY <1>3, <1>5, <2>1, <2>2, <2>3, EmptyFacts, EmptyDistinct DEF OneCopy
<1>. QED
  BY <1>1, <1>3, <1>6, <1>7, PassOn

LEMMA FlushTakeLease ==
  ASSUME TypeOK, TypeOK', LeaseInv, NEW s \in Subs, FlushTake(s) PROVE LeaseInv'
<1>0. PICK n \in 1..Len(verdicts[s]) :
        LET W == SubSeq(verdicts[s], 1, n)
        IN /\ \E q \in Ascending({k \in 1..n : W[k][2] = "nack"}) :
                flush' = [flush EXCEPT ![s] =
                           [step |-> "add", ids |-> {W[k][1] : k \in 1..n},
                            again |-> [j \in DOMAIN q |-> log[W[q[j]][1]]]]]
           /\ verdicts' = [verdicts EXCEPT ![s] = SubSeq(@, n + 1, Len(@))]
  BY DEF FlushTake
<1> DEFINE W == SubSeq(verdicts[s], 1, n)
<1> HIDE DEF W
<1>q. PICK q \in Ascending({k \in 1..n : W[k][2] = "nack"}) :
        flush' = [flush EXCEPT ![s] =
                   [step |-> "add", ids |-> {W[k][1] : k \in 1..n},
                    again |-> [j \in DOMAIN q |-> log[W[q[j]][1]]]]]
  BY <1>0 DEF W
<1>1. /\ flush'[s].ids = {W[k][1] : k \in 1..n}
      /\ verdicts' = [verdicts EXCEPT ![s] = SubSeq(@, n + 1, Len(@))]
      /\ \A t \in Subs \ {s} : flush'[t] = flush[t]
  BY <1>0, <1>q DEF TypeOK
<1>2. UNCHANGED <<pel, idle, timeouts>> /\ UNCHANGED <<entries, buffer, held>>
      /\ flush[s].step = "idle"
  BY DEF FlushTake, serverVars, pollVars, countVars
<1>3. PICK D : verdicts[s] \in Seq(Verdicts(D))
  BY PlaceTypes
<1>f. PICK f : f = Firsts(verdicts[s])
  OBVIOUS
<1>4. /\ f \in Seq(D) /\ Len(f) = Len(verdicts[s]) /\ n \in 1..Len(f)
      /\ DOMAIN f = 1..Len(f) /\ Len(f) \in Nat /\ DOMAIN verdicts[s] = 1..Len(f)
  BY <1>3, <1>f, FirstsSeq, LenProperties
<1>5. flush'[s].ids = {f[k] : k \in 1..n} /\ \A k \in 1..n : k \in DOMAIN f
  <2>1. n \in 0..Len(verdicts[s]) /\ 1..n \subseteq 1..Len(f)
    BY <1>4
  <2>2. \A k \in 1..n : W[k] = verdicts[s][k]
    BY <1>3, <2>1, PrefixSeq DEF W
  <2>3. \A k \in 1..n : f[k] = verdicts[s][k][1]
    BY <1>f, <1>4, <2>1 DEF Firsts
  <2>4. \A k \in 1..n : W[k][1] = f[k]
    BY <2>2, <2>3
  <2>5. {W[k][1] : k \in 1..n} = {f[k] : k \in 1..n}
    BY <2>4
  <2>. QED
    BY <1>1, <1>4, <2>1, <2>5
<1>6. /\ verdicts'[s] = SubSeq(verdicts[s], n + 1, Len(verdicts[s]))
      /\ \A t \in Subs \ {s} : verdicts'[t] = verdicts[t]
  BY <1>1 DEF TypeOK
<1>7. Firsts(verdicts'[s]) = SubSeq(f, n + 1, Len(f))
  BY <1>3, <1>f, <1>4, <1>6, FirstsSuffix
<1>8. Judged(s) = Range(f) /\ Judged(s)' = Range(SubSeq(f, n + 1, Len(f)))
  BY <1>f, <1>7 DEF Judged
<1>9. Judged(s)' \subseteq Judged(s) /\ flush'[s].ids \subseteq Judged(s)
  <2>1. Judged(s)' \subseteq Judged(s)
    BY <1>4, <1>8, SuffixSeq
  <2>2. flush'[s].ids \subseteq Judged(s)
    BY <1>5, <1>8 DEF Range
  <2>. QED
    BY <2>1, <2>2
<1>10. \A i : InFlight(s, i)' => InFlight(s, i)
  BY <1>2, <1>9, Places, PlacesNext
<1>11. ASSUME timeouts = 0 PROVE OneCopy(s)'
  <2>1. OneCopy(s) /\ Distinct(f)
    BY <1>f, <1>11 DEF LeaseInv, OneCopy
  <2>2. /\ Distinct(Firsts(verdicts'[s]))
        /\ \A i \in Judged(s)' : i \notin flush'[s].ids
    <3>1. PICK B : B = SubSeq(f, n + 1, Len(f))
      OBVIOUS
    <3>2. Distinct(B) /\ \A x \in Range(B) : \A k \in 1..n : f[k] # x
      BY <1>4, <2>1, <3>1, SplitDistinct
    <3>3. Firsts(verdicts'[s]) = B /\ Judged(s)' = Range(B)
      BY <1>7, <1>8, <3>1
    <3>4. \A i \in Range(B) : i \notin {f[k] : k \in 1..n}
      BY <3>2
    <3>. QED
      BY <1>5, <3>2, <3>3, <3>4
  <2>3. entries'[s] = entries[s] /\ buffer'[s] = buffer[s] /\ held'[s] = held[s]
    BY <1>2
  <2>. QED
    BY <1>9, <2>1, <2>2, <2>3 DEF OneCopy
<1>. QED
  BY <1>1, <1>2, <1>6, <1>10, <1>11, PassOn

\* The flusher settles what it has in hand.
LEMMA FlushAckLease ==
  ASSUME TypeOK, TypeOK', LeaseInv, NEW s \in Subs, FlushAck(s) PROVE LeaseInv'
<1>M. PICK M : M = flush[s].ids
  OBVIOUS
<1>1. /\ UNCHANGED timeouts /\ UNCHANGED <<entries, buffer, held, verdicts>>
      /\ flush' = [flush EXCEPT ![s] = NoFlush]
      /\ Settled(GroupOf[s], M) \/ UNCHANGED <<pel, idle>>
  BY <1>M DEF FlushAck, pollVars
<1>2. flush'[s].ids = {} /\ \A t \in Subs \ {s} : flush'[t] = flush[t]
  BY <1>1 DEF TypeOK, NoFlush
<1>3. Judged(s)' = Judged(s)
  BY <1>1 DEF Judged
<1>4. \A i : InFlight(s, i)' => InFlight(s, i)
  BY <1>1, <1>2 DEF InFlight
<1>5. ASSUME timeouts = 0 PROVE OneCopy(s)' /\ \A i \in M : InFlight(s, i) /\ ~InFlight(s, i)'
  <2>1. OneCopy(s)
    BY <1>5 DEF LeaseInv
  <2>2. OneCopy(s)'
    BY <1>1, <1>2, <1>3, <2>1 DEF OneCopy
  <2>3. \A i \in M : InFlight(s, i)
    BY <1>M, Places
  <2>4. ASSUME NEW i \in M PROVE ~InFlight(s, i)'
    <3>1. i \in flush[s].ids
      BY <1>M
    <3>2. /\ i \notin Range(entries'[s]) /\ i \notin Range(buffer'[s])
          /\ i \notin Range(held'[s]) /\ i \notin Judged(s)' /\ i \notin flush'[s].ids
      BY <1>1, <1>2, <1>3, <2>1, <3>1 DEF OneCopy
    <3>. QED
      BY <3>2, PlacesNext
  <2>. QED
    BY <2>2, <2>3, <2>4
<1>6. \A t \in Subs \ {s} :
        /\ entries'[t] = entries[t] /\ buffer'[t] = buffer[t] /\ held'[t] = held[t]
        /\ verdicts'[t] = verdicts[t] /\ flush'[t].ids = flush[t].ids
  BY <1>1, <1>2
<1>. QED
  BY <1>1, <1>4, <1>5, <1>6, SettleStep

LEMMA CrashLease ==
  ASSUME TypeOK, LeaseInv, NEW s \in Subs, Crash(s) PROVE LeaseInv'
<1>1. /\ entries'[s] = <<>> /\ buffer'[s] = <<>> /\ held'[s] = <<>> /\ verdicts'[s] = <<>>
      /\ flush'[s].ids = {} /\ UNCHANGED <<pel, idle, timeouts>>
      /\ \A t \in Subs \ {s} :
           /\ entries'[t] = entries[t] /\ buffer'[t] = buffer[t] /\ held'[t] = held[t]
           /\ verdicts'[t] = verdicts[t] /\ flush'[t].ids = flush[t].ids
  BY DEF Crash, TypeOK, NoFlush, serverVars, countVars
<1>2. Firsts(<<>>) = <<>>
  BY DEF Firsts
<1>3. OneCopy(s)'
  BY <1>1, <1>2, EmptyFacts, EmptyDistinct DEF OneCopy, Judged
<1>4. \A i : ~InFlight(s, i)'
  BY <1>1, EmptyFacts DEF InFlight
<1>. QED
  BY <1>1, <1>3, <1>4, PassOn

\* A broken connection: what an unanswered command did is that entries are pending
\* that no one handles, or are fresh again.
LEMMA BreakLease ==
  ASSUME TypeOK, LeaseInv, NEW s \in Subs, Break(s) PROVE LeaseInv'
<1>1. UNCHANGED <<entries, buffer, held, verdicts, flush, timeouts>>
  BY DEF Break, leaseVars, countVars
<1>2. \A g \in Groups : \A i : i \in pel[g] /\ i \notin idle[g] =>
        i \in pel'[g] /\ i \notin idle'[g]
  <2>0. /\ GroupOf[s] \in Groups /\ DOMAIN pel = Groups /\ DOMAIN idle = Groups
        /\ \/ UNCHANGED <<pel, idle>>
           \/ Deliver(GroupOf[s]) /\ UNCHANGED idle
           \/ idle' = [idle EXCEPT ![GroupOf[s]] = @ \ IdlePending(GroupOf[s])] /\ UNCHANGED pel
    BY RedisAssumption DEF Break, TypeOK, ServerTypeOK
  <2>1. CASE Deliver(GroupOf[s]) /\ UNCHANGED idle
    <3>1. PICK N : pel' = [pel EXCEPT ![GroupOf[s]] = @ \cup N]
      BY <2>1 DEF Deliver
    <3>. QED
      BY <2>0, <2>1, <3>1
  <2>2. CASE idle' = [idle EXCEPT ![GroupOf[s]] = @ \ IdlePending(GroupOf[s])] /\ UNCHANGED pel
    <3>1. PICK N : idle' = [idle EXCEPT ![GroupOf[s]] = @ \ N]
      BY <2>2
    <3>. QED
      BY <2>0, <2>2, <3>1
  <2>. QED
    BY <2>0, <2>1, <2>2
<1>3. \A t \in Subs : /\ OneCopy(t)' <=> OneCopy(t)
                      /\ \A i : InFlight(t, i)' <=> InFlight(t, i)
  BY <1>1, CopyFrame
<1>. QED
  BY <1>1, <1>2, <1>3, RedisAssumption DEF LeaseInv, Leases

\* The idle limit of an entry that nobody has in hand.
LEMMA IdleLease ==
  ASSUME TypeOK, LeaseInv, NEW g \in Groups, NEW i \in pel[g], IdlePasses(g, i)
  PROVE  LeaseInv'
<1>1. /\ UNCHANGED <<entries, buffer, held, verdicts, flush, pel>>
      /\ idle' = [idle EXCEPT ![g] = @ \cup {i}] /\ timeouts \in Nat
  BY RedisAssumption DEF IdlePasses, pollVars, leaseVars, TypeOK, CountTypeOK
<1>2. CASE \E s \in Members(g) : InFlight(s, i)
  <2>1. timeouts' # 0
    BY <1>1, <1>2 DEF IdlePasses
  <2>. QED
    BY <2>1 DEF LeaseInv
<1>3. CASE ~\E s \in Members(g) : InFlight(s, i)
  <2>1. timeouts' = timeouts
    BY <1>3 DEF IdlePasses
  <2>2. \A t \in Subs : GroupOf[t] \in Groups /\ (GroupOf[t] = g => ~InFlight(t, i))
    BY <1>3, RedisAssumption DEF Members
  <2>3. \A h \in Groups : \A k : k \in idle'[h] => k \in idle[h] \/ (h = g /\ k = i)
    BY <1>1 DEF TypeOK, ServerTypeOK
  <2>4. \A t \in Subs : /\ OneCopy(t)' <=> OneCopy(t)
                        /\ \A k : InFlight(t, k)' <=> InFlight(t, k)
    BY <1>1, CopyFrame
  <2>. QED
    BY <1>1, <2>1, <2>2, <2>3, <2>4 DEF LeaseInv, Leases
<1>. QED
  BY <1>2, <1>3

LEMMA LeaseStep ==
  ASSUME TypeOK, TypeOK', LeaseInv, [Next]_vars PROVE LeaseInv'
<1>1. ASSUME NEW s \in Subs,
             \/ Subscribe(s) \/ PollTop(s) \/ PollReadErr(s) \/ PollDone(s)
             \/ SendClosed(s) \/ RequeueAdd(s)
      PROVE  LeaseInv'
  BY <1>1, QuietLease DEF Subscribe, PollTop, PollReadErr, PollDone, SendClosed, RequeueAdd,
                          serverVars, leaseVars, countVars
<1>2. ASSUME NEW s \in Subs, FlushAdd(s) PROVE LeaseInv'
  <2>1. /\ UNCHANGED <<entries, buffer, held, verdicts, pel, idle, timeouts>>
        /\ \A t \in Subs : flush'[t].ids = flush[t].ids
    BY <1>2 DEF FlushAdd, pollVars, TypeOK, SubTypeOK
  <2>. QED
    BY <2>1, QuietLease
<1>3. CASE UNCHANGED vars \/ \E m \in Msgs : Publish(m)
  BY <1>3, QuietLease DEF vars, Publish, serverVars, pollVars, leaseVars, countVars
<1>4. ASSUME NEW s \in Subs, Poll(s) PROVE LeaseInv'
  BY <1>1, <1>4, ReadLease, ClaimLease, GarbledLease, SendLease, RequeueLease DEF Poll
<1>5. ASSUME NEW s \in Subs, Consume(s) \/ Flush(s) PROVE LeaseInv'
  BY <1>2, <1>5, TakeLease, VerdictLease, DropLease, FlushTakeLease, FlushAckLease
     DEF Consume, Flush
<1>. QED
  BY <1>3, <1>4, <1>5, CrashLease, BreakLease, IdleLease DEF Next

\* Until claim_idle runs out under a consumer, an entry is handled by one
\* subscription of its group and is pending meanwhile, however reads, claims, re-adds
\* and flushes of the subscriptions interleave and whatever commands fail.
THEOREM EntryIsExclusive == Spec => []ExclusiveEntry
<1>1. Init => LeaseInv
  <2> SUFFICES ASSUME Init PROVE Leases /\ \A s \in Subs : OneCopy(s)
    BY DEF LeaseInv
  <2>1. Firsts(<<>>) = <<>>
    BY DEF Firsts
  <2>2. \A s \in Subs : OneCopy(s)
    BY <2>1, EmptyFacts, EmptyDistinct DEF Init, OneCopy, Judged, NoFlush
  <2>3. \A s \in Subs : \A i : ~InFlight(s, i)
    BY EmptyFacts DEF Init, InFlight, NoFlush
  <2>. QED
    BY <2>2, <2>3 DEF Leases
<1>2. TypeOK /\ TypeOK' /\ LeaseInv /\ [Next]_vars => LeaseInv'
  BY LeaseStep
<1>3. LeaseInv => ExclusiveEntry
  BY DEF LeaseInv, Leases, ExclusiveEntry
<1>. QED
  BY <1>1, <1>2, <1>3, TypeCorrect, PTL DEF Spec
=============================================================================
