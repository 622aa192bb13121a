--------------------------- MODULE Channel_proofs ---------------------------
(***************************************************************************)
(* Proofs about Channel for any streams, calls, batches, buffer size and   *)
(* number of worker threads: its variables keep their types and its queues *)
(* their bound, no message of an open stream is lost, the read guard makes *)
(* every publish() call reach each stream with all of its batch, a stream  *)
(* has at most one copy of a message and first sees a batch in its order,  *)
(* and the backend implements LeasedDelivery.                              *)
(***************************************************************************)
EXTENDS Channel, FiniteSetTheorems, SequenceTheorems, TLAPS

-----------------------------------------------------------------------------
(* What Append adds to a queue, and Head and Tail take apart, and what     *)
(* stays without repetitions.                                              *)

LEMMA AppendFacts ==
  ASSUME NEW S, NEW q \in Seq(S), NEW e \in S
  PROVE  /\ Append(q, e) \in Seq(S) /\ Len(Append(q, e)) = Len(q) + 1
         /\ Range(Append(q, e)) = Range(q) \cup {e}
BY AppendProperties, LenProperties DEF Range

LEMMA TailFacts ==
  ASSUME NEW S, NEW q \in Seq(S), q # <<>>
  PROVE  /\ Head(q) \in S /\ Tail(q) \in Seq(S) /\ Len(Tail(q)) = Len(q) - 1
         /\ Range(q) = {Head(q)} \cup Range(Tail(q))
<1>1. \A i \in DOMAIN q : i = 1 \/ (i - 1 \in DOMAIN Tail(q) /\ Tail(q)[i - 1] = q[i])
  OBVIOUS
<1>2. /\ 1 \in DOMAIN q /\ Head(q) = q[1]
      /\ \A i \in DOMAIN Tail(q) : i + 1 \in DOMAIN q /\ Tail(q)[i] = q[i + 1]
  OBVIOUS
<1>. QED
  BY <1>1, <1>2, HeadTailProperties DEF Range

LEMMA EmptyFacts == Range(<<>>) = {} /\ Len(<<>>) = 0 /\ \A S : <<>> \in Seq(S)
BY DEF Range

Distinct(q) == \A i, j \in DOMAIN q : q[i] = q[j] => i = j

LEMMA AppendDistinct ==
  ASSUME NEW S, NEW q \in Seq(S), NEW e \in S, Distinct(q), e \notin Range(q)
  PROVE  Distinct(Append(q, e))
BY DEF Distinct, Range

LEMMA TailDistinct ==
  ASSUME NEW S, NEW q \in Seq(S), q # <<>>, Distinct(q)
  PROVE  Distinct(Tail(q)) /\ Head(q) \notin Range(Tail(q))
BY DEF Distinct, Range

LEMMA EmptyDistinct == Distinct(<<>>)
BY DEF Distinct

-----------------------------------------------------------------------------
(* Types.                                                                  *)

LEMMA TypeInit == ASSUME Init PROVE TypeOK
<1>1. CallTypeOK
  <2>1. /\ ppc = [p \in Pubs |-> "idle"] /\ pi = [p \in Pubs |-> 1]
        /\ pj = [p \in Pubs |-> 1] /\ stream = [s \in Subs |-> "absent"]
        /\ fpc = [s \in Subs |-> "off"]
    BY DEF Init, InitWith
  <2>2. known = FALSE /\ topic = <<>> /\ readers = {} /\ cpc = "idle"
    BY DEF Init, InitWith
  <2>. QED
    <3>1. ppc \in [Pubs -> {"idle", "timer", "send", "alter", "done"}]
      BY <2>1
    <3>2. pi \in [Pubs -> Nat \ {0}] /\ pj \in [Pubs -> Nat \ {0}]
      BY <2>1
    <3>3. /\ stream \in [Subs -> {"absent", "locking", "open", "dropped"}]
          /\ fpc \in [Subs -> {"off", "on", "gone"}]
      BY <2>1
    <3>. QED
      BY <2>2, <3>1, <3>2, <3>3, EmptyFacts DEF CallTypeOK
<1>2. QueueTypeOK
  <2>. BufferSize \in Nat
    BY ChannelAssumption
  <2>. QED
    BY EmptyFacts DEF Init, InitWith, QueueTypeOK
<1>3. SetTypeOK
  <2>. MaxNacks \in Nat
    BY ChannelAssumption
  <2>. QED
    BY DEF Init, InitWith, SetTypeOK
<1>. QED
  BY <1>1, <1>2, <1>3 DEF TypeOK

\* Which part of the type a step leaves alone.
LEMMA TypeFrame ==
  ASSUME TypeOK
  PROVE  /\ UNCHANGED <<known, topic, readers, ppc, pi, pj, cpc, stream, fpc>>
              => CallTypeOK'
         /\ UNCHANGED <<raw, out>> => QueueTypeOK'
         /\ UNCHANGED <<fwd, held, nacked, resend, acked, offered, seen, nacks>>
              => SetTypeOK'
BY DEF TypeOK, CallTypeOK, QueueTypeOK, SetTypeOK

\* A bounded queue that gets a new content, within its bound.
LEMMA QueueStep ==
  ASSUME QueueTypeOK, NEW s, NEW q \in Seq(Msgs), Len(q) <= BufferSize,
         \/ raw' = [raw EXCEPT ![s] = q] /\ out' = out
         \/ out' = [out EXCEPT ![s] = q] /\ raw' = raw
  PROVE  QueueTypeOK'
<1>1. CASE raw' = [raw EXCEPT ![s] = q] /\ out' = out
  <2>1. \A t \in Subs : raw'[t] = IF t = s THEN q ELSE raw[t]
    BY <1>1 DEF QueueTypeOK
  <2>. QED
    BY <1>1, <2>1 DEF QueueTypeOK
<1>2. CASE out' = [out EXCEPT ![s] = q] /\ raw' = raw
  <2>1. \A t \in Subs : out'[t] = IF t = s THEN q ELSE out[t]
    BY <1>2 DEF QueueTypeOK
  <2>. QED
    BY <1>2, <2>1 DEF QueueTypeOK
<1>. QED
  BY <1>1, <1>2

LEMMA BufferFacts == BufferSize \in Nat \ {0} /\ <<>> \in Seq(Msgs) /\ Len(<<>>) <= BufferSize
BY ChannelAssumption, EmptyFacts

\* What a publish() call sends is one of its messages.
LEMMA SentMessage ==
  ASSUME TypeOK, NEW p \in Pubs, pi[p] <= Len(Batch[p])
  PROVE  pi[p] \in DOMAIN Batch[p] /\ Batch[p][pi[p]] \in Msgs
<1>1. Batch[p] \in Seq(Msgs) /\ pi[p] \in Nat \ {0}
  BY ChannelAssumption DEF TypeOK, CallTypeOK
<1>. QED
  BY <1>1

LEMMA TypePublish ==
  ASSUME TypeOK, NEW p \in Pubs, Publish(p) PROVE TypeOK'
<1> USE DEF lockVars, subVars, histVars
<1>1. CASE StageDelayed(p)
  BY <1>1, TypeFrame DEF StageDelayed, TypeOK, CallTypeOK
<1>2. CASE PublishGet(p)
  <2>1. readers' \subseteq Pubs
    BY <1>2 DEF PublishGet, TypeOK, CallTypeOK
  <2>2. ppc' \in [Pubs -> {"idle", "timer", "send", "alter", "done"}]
    BY <1>2 DEF PublishGet, TypeOK, CallTypeOK
  <2>3. CallTypeOK'
    BY <1>2, <2>1, <2>2 DEF PublishGet, TypeOK, CallTypeOK
  <2>. QED
    BY <1>2, <2>3, TypeFrame DEF PublishGet, TypeOK
<1>3. CASE PublishSend(p)
  <2> DEFINE s == topic[pj[p]]
             m == Batch[p][pi[p]]
  <2>1. m \in Msgs
    BY <1>3, SentMessage DEF PublishSend
  <2>2. pi' \in [Pubs -> Nat \ {0}] /\ pj' \in [Pubs -> Nat \ {0}]
    <3>1. /\ pi' = pi \/ pi' = [pi EXCEPT ![p] = pi[p] + 1]
          /\ pj' = [pj EXCEPT ![p] = pj[p] + 1] \/ pj' = [pj EXCEPT ![p] = 1]
      BY <1>3 DEF PublishSend
    <3>2. pi \in [Pubs -> Nat \ {0}] /\ pj \in [Pubs -> Nat \ {0}]
      BY DEF TypeOK, CallTypeOK
    <3>. QED
      BY <3>1, <3>2
  <2>3. CallTypeOK'
    BY <1>3, <2>2 DEF PublishSend, TypeOK, CallTypeOK
  <2>4. \/ raw' = raw /\ offered' = offered
        \/ /\ ~RawFull(s)
           /\ raw' = [raw EXCEPT ![s] = Append(raw[s], m)]
           /\ offered' = [offered EXCEPT ![s] = offered[s] \cup {m}]
    BY <1>3 DEF PublishSend
  <2>5. UNCHANGED <<out, fwd, held, nacked, resend, acked, seen, nacks>>
    BY <1>3 DEF PublishSend
  <2>6. QueueTypeOK' /\ SetTypeOK'
    <3> HIDE DEF s, m
    <3>1. CASE raw' = raw /\ offered' = offered
      BY <2>5, <3>1, TypeFrame
    <3>2. CASE /\ ~RawFull(s)
               /\ raw' = [raw EXCEPT ![s] = Append(raw[s], m)]
               /\ offered' = [offered EXCEPT ![s] = offered[s] \cup {m}]
      <4>1. offered' \in [Subs -> SUBSET Msgs]
        BY <2>1, <3>2 DEF TypeOK, SetTypeOK
      <4>2. SetTypeOK'
        BY <2>5, <4>1 DEF TypeOK, SetTypeOK
      <4>3. CASE s \in Subs
        <5>1. raw[s] \in Seq(Msgs)
          BY <4>3 DEF TypeOK, QueueTypeOK
        <5>2. Append(raw[s], m) \in Seq(Msgs) /\ Len(Append(raw[s], m)) <= BufferSize
          BY <2>1, <3>2, <5>1, AppendFacts, BufferFacts DEF RawFull
        <5>. QED
          BY <2>5, <3>2, <4>2, <5>2, QueueStep DEF TypeOK
      <4>4. CASE s \notin Subs
        <5>1. raw' = raw
          BY <3>2, <4>4 DEF TypeOK, QueueTypeOK
        <5>. QED
          BY <2>5, <4>2, <5>1, TypeFrame
      <4>. QED
        BY <4>3, <4>4
    <3>. QED
      BY <2>4, <3>1, <3>2
  <2>. QED
    BY <2>3, <2>6 DEF TypeOK
<1>4. CASE PublishDrop(p)
  BY <1>4, TypeFrame DEF PublishDrop, TypeOK, CallTypeOK
<1>5. CASE PublishAlter(p)
  <2> DEFINE live == {i \in DOMAIN topic : fpc[topic[i]] # "gone"}
  <2>1. topic \in Seq(Subs)
    BY DEF TypeOK, CallTypeOK
  <2>2. Cardinality(live) \in Nat
    <3>1. IsFiniteSet(DOMAIN topic)
      BY <2>1, FS_Interval
    <3>. QED
      BY <3>1, FS_Subset, FS_CardinalityType
  <2>3. PICK k \in [1..Cardinality(live) -> live] :
                 topic' = [i \in DOMAIN k |-> topic[k[i]]]
    BY <1>5 DEF PublishAlter
  <2>4. topic' \in Seq(Subs)
    <3> DEFINE n == Cardinality(live)
    <3>1. DOMAIN k = 1..n /\ \A i \in 1..n : k[i] \in DOMAIN topic
      OBVIOUS
    <3>2. \A i \in DOMAIN topic : topic[i] \in Subs
      BY <2>1
    <3>3. n \in Nat
      BY <2>2
    <3> HIDE DEF n
    <3>4. \A i \in 1..n : topic[k[i]] \in Subs
      BY <3>1, <3>2
    <3>5. topic' = [i \in 1..n |-> topic[k[i]]]
      BY <2>3, <3>1
    <3>. QED
      BY <3>3, <3>4, <3>5, IsASeq
  <2>5. CallTypeOK'
    BY <1>5, <2>4 DEF PublishAlter, TypeOK, CallTypeOK
  <2>. QED
    BY <1>5, <2>5, TypeFrame DEF PublishAlter, TypeOK
<1>. QED
  BY <1>1, <1>2, <1>3, <1>4, <1>5 DEF Publish

LEMMA TypeSubscribe ==
  ASSUME TypeOK, NEW s \in Subs, Subscribe(s) PROVE TypeOK'
<1> USE DEF lockVars, pubVars, histVars
<1>1. CASE SubscribeCall(s)
  BY <1>1, TypeFrame DEF SubscribeCall, TypeOK, CallTypeOK
<1>2. CASE SubscribeEntry(s)
  <2>1. topic' \in Seq(Subs)
    BY <1>2, AppendFacts DEF SubscribeEntry, TypeOK, CallTypeOK
  <2>2. CallTypeOK'
    BY <1>2, <2>1 DEF SubscribeEntry, TypeOK, CallTypeOK
  <2>. QED
    BY <1>2, <2>2, TypeFrame DEF SubscribeEntry, TypeOK
<1>. QED
  BY <1>1, <1>2 DEF Subscribe

LEMMA TypeClose == ASSUME TypeOK, Close PROVE TypeOK'
<1> USE DEF lockVars, pubVars, subVars, histVars
<1>1. CASE CloseCall
  BY <1>1, TypeFrame DEF CloseCall, TypeOK, CallTypeOK
<1>2. CASE CloseClear
  BY <1>2, EmptyFacts, TypeFrame DEF CloseClear, TypeOK, CallTypeOK
<1>. QED
  BY <1>1, <1>2 DEF Close

LEMMA TypeForward ==
  ASSUME TypeOK, NEW s \in Subs, Forward(s) PROVE TypeOK'
<1> USE DEF lockVars, pubVars, histVars
<1>0. /\ fpc \in [Subs -> {"off", "on", "gone"}] /\ fwd \in [Subs -> SUBSET Msgs]
      /\ raw[s] \in Seq(Msgs) /\ out[s] \in Seq(Msgs) /\ QueueTypeOK
      /\ Len(raw[s]) <= BufferSize
  BY DEF TypeOK, CallTypeOK, SetTypeOK, QueueTypeOK
<1>1. CASE ForwardRecv(s)
  <2>1. /\ Head(raw[s]) \in Msgs /\ Tail(raw[s]) \in Seq(Msgs)
        /\ Len(Tail(raw[s])) <= BufferSize
    BY <1>0, <1>1, TailFacts, BufferFacts DEF ForwardRecv
  <2>2. raw' = [raw EXCEPT ![s] = <<>>] \/ raw' = [raw EXCEPT ![s] = Tail(raw[s])]
    BY <1>1 DEF ForwardRecv
  <2>3. out' = out
    BY <1>1 DEF ForwardRecv
  <2>4. QueueTypeOK'
    BY <1>0, <2>1, <2>2, <2>3, QueueStep, BufferFacts
  <2>5. fwd' = fwd \/ fwd' = [fwd EXCEPT ![s] = {Head(raw[s])}]
    BY <1>1 DEF ForwardRecv
  <2>6. fwd' \in [Subs -> SUBSET Msgs]
    BY <1>0, <2>1, <2>5
  <2>7. fpc' = fpc \/ fpc' = [fpc EXCEPT ![s] = "gone"]
    BY <1>1 DEF ForwardRecv
  <2>8. fpc' \in [Subs -> {"off", "on", "gone"}]
    BY <1>0, <2>7
  <2>9. CallTypeOK' /\ SetTypeOK'
    BY <1>1, <2>6, <2>8 DEF ForwardRecv, TypeOK, CallTypeOK, SetTypeOK
  <2>. QED
    BY <2>4, <2>9 DEF TypeOK
<1>2. CASE ForwardSend(s)
  <2>1. fwd' \in [Subs -> SUBSET Msgs]
    BY <1>0, <1>2 DEF ForwardSend
  <2>2. SetTypeOK'
    BY <1>2, <2>1 DEF ForwardSend, TypeOK, SetTypeOK
  <2>3. fpc' = fpc \/ fpc' = [fpc EXCEPT ![s] = "gone"]
    BY <1>2 DEF ForwardSend
  <2>4. fpc' \in [Subs -> {"off", "on", "gone"}]
    BY <1>0, <2>3
  <2>5. CallTypeOK'
    BY <1>2, <2>4 DEF ForwardSend, TypeOK, CallTypeOK
  <2>6. CASE stream[s] = "dropped"
    <3>1. raw' = [raw EXCEPT ![s] = <<>>] /\ out' = out
      BY <1>2, <2>6 DEF ForwardSend
    <3>. QED
      BY <1>0, <2>2, <2>5, <3>1, QueueStep, BufferFacts DEF TypeOK
  <2>7. CASE stream[s] # "dropped"
    <3>1. PICK m \in fwd[s] : out' = [out EXCEPT ![s] = Append(out[s], m)]
      BY <1>2, <2>7 DEF ForwardSend
    <3>2. raw' = raw /\ ~OutFull(s)
      BY <1>2, <2>7 DEF ForwardSend
    <3>3. m \in Msgs
      BY <1>0
    <3>4. Append(out[s], m) \in Seq(Msgs) /\ Len(Append(out[s], m)) <= BufferSize
      BY <1>0, <3>2, <3>3, AppendFacts, BufferFacts DEF OutFull
    <3>. QED
      BY <1>0, <2>2, <2>5, <3>1, <3>2, <3>4, QueueStep DEF TypeOK
  <2>. QED
    BY <2>6, <2>7
<1>3. CASE ForwardEnd(s)
  <2>1. CallTypeOK'
    BY <1>0, <1>3 DEF ForwardEnd, TypeOK, CallTypeOK
  <2>. QED
    BY <1>3, <2>1, TypeFrame DEF ForwardEnd, TypeOK
<1>. QED
  BY <1>1, <1>2, <1>3 DEF Forward

LEMMA TypeVerdict ==
  ASSUME TypeOK, NEW s \in Subs, NEW m \in Msgs,
         VerdictNack(s, m) \/ Resend(s, m)
  PROVE  TypeOK'
<1> USE DEF lockVars, pubVars, histVars
<1>0. /\ resend \in [Subs -> SUBSET Msgs] /\ nacked \in [Subs -> SUBSET Msgs]
      /\ raw[s] \in Seq(Msgs) /\ QueueTypeOK
  BY DEF TypeOK, SetTypeOK, QueueTypeOK
<1>1. CASE VerdictNack(s, m)
  <2>1. resend' = resend \/ resend' = [resend EXCEPT ![s] = resend[s] \cup {m}]
    BY <1>1 DEF VerdictNack
  <2>2. resend' \in [Subs -> SUBSET Msgs]
    BY <1>0, <2>1
  <2>3. nacked' \in [Subs -> SUBSET Msgs]
    BY <1>0, <1>1 DEF VerdictNack
  <2>4. SetTypeOK'
    BY <1>1, <2>2, <2>3 DEF VerdictNack, TypeOK, SetTypeOK
  <2>. QED
    BY <1>1, <2>4, TypeFrame DEF VerdictNack, TypeOK
<1>2. CASE Resend(s, m)
  <2>1. resend' \in [Subs -> SUBSET Msgs]
    BY <1>0, <1>2 DEF Resend
  <2>2. CallTypeOK' /\ SetTypeOK'
    BY <1>2, <2>1 DEF Resend, TypeOK, CallTypeOK, SetTypeOK
  <2>3. CASE fpc[s] = "gone"
    BY <1>2, <2>2, <2>3, TypeFrame DEF Resend, TypeOK
  <2>4. CASE fpc[s] # "gone"
    <3>1. /\ raw' = [raw EXCEPT ![s] = Append(raw[s], m)] /\ out' = out
          /\ ~RawFull(s)
      BY <1>2, <2>4 DEF Resend
    <3>2. Append(raw[s], m) \in Seq(Msgs) /\ Len(Append(raw[s], m)) <= BufferSize
      BY <1>0, <3>1, AppendFacts, BufferFacts DEF RawFull
    <3>. QED
      BY <1>0, <2>2, <3>1, <3>2, QueueStep DEF TypeOK
  <2>. QED
    BY <2>3, <2>4
<1>. QED
  BY <1>1, <1>2

LEMMA TypeConsume ==
  ASSUME TypeOK, NEW s \in Subs, Consume(s) PROVE TypeOK'
<1> USE DEF lockVars, pubVars, histVars
<1>0. /\ raw[s] \in Seq(Msgs) /\ out[s] \in Seq(Msgs) /\ QueueTypeOK
      /\ Len(out[s]) <= BufferSize
  BY DEF TypeOK, QueueTypeOK
<1>1. CASE Take(s)
  <2>1. /\ Head(out[s]) \in Msgs /\ Tail(out[s]) \in Seq(Msgs)
        /\ Len(Tail(out[s])) <= BufferSize
    BY <1>0, <1>1, TailFacts, BufferFacts DEF Take
  <2>2. QueueTypeOK'
    BY <1>0, <1>1, <2>1, QueueStep DEF Take
  <2>3. SetTypeOK'
    BY <1>1, <2>1 DEF Take, TypeOK, SetTypeOK
  <2>. QED
    BY <1>1, <2>2, <2>3, TypeFrame DEF Take, TypeOK
<1>2. ASSUME NEW m \in Msgs, Ack(s, m) PROVE TypeOK'
  BY <1>2, TypeFrame DEF Ack, TypeOK, SetTypeOK
<1>3. ASSUME NEW m \in Msgs, Nack(s, m) PROVE TypeOK'
  <2>1. nacks' \in [Subs -> 0..MaxNacks]
    BY <1>3, ChannelAssumption DEF Nack, TypeOK, SetTypeOK
  <2>. QED
    BY <1>3, <2>1, TypeFrame DEF Nack, TypeOK, SetTypeOK
<1>4. CASE DropStream(s)
  <2>1. QueueTypeOK'
    BY <1>0, <1>4, BufferFacts, QueueStep DEF DropStream
  <2>2. Range(out[s]) \subseteq Msgs
    BY <1>0 DEF Range
  <2>. QED
    BY <1>4, <2>1, <2>2, TypeFrame DEF DropStream, TypeOK, CallTypeOK, SetTypeOK
<1>. QED
  BY <1>1, <1>2, <1>3, <1>4 DEF Consume

LEMMA TypeStep == ASSUME TypeOK, [Next]_vars PROVE TypeOK'
<1>1. CASE UNCHANGED vars
  BY <1>1, TypeFrame DEF vars, lockVars, pubVars, subVars, histVars, TypeOK
<1>. QED
  BY <1>1, TypePublish, TypeSubscribe, TypeForward, TypeVerdict, TypeConsume,
     TypeClose DEF Next, Done, Verdict

\* Every reachable state is well typed, and neither queue of a stream ever
\* holds more messages than Channel::new's buffer_size.
THEOREM TypeCorrect == Spec => []TypeOK
BY TypeInit, TypeStep, PTL DEF Spec

-----------------------------------------------------------------------------
(* The read guard and the map entry.                                       *)

\* A sending call holds the guard and stands at a message of its batch and a
\* sender of the entry, or at the end of its batch.
Walking ==
  \A p \in Pubs :
    /\ ppc[p] = "send" => /\ p \in readers
                          /\ pi[p] <= Len(Batch[p]) + 1
                          /\ pj[p] = 1 \/ pj[p] <= Len(topic)
                          /\ pi[p] = Len(Batch[p]) + 1 => pj[p] = 1
    /\ ppc[p] \in {"idle", "timer"} => pi[p] = 1 /\ pj[p] = 1

\* The entry lists streams that were handed out, each once, and a live stream
\* that is listed has its forwarder.
Entries ==
  /\ known \/ Range(topic) = {}
  /\ \A i, k \in DOMAIN topic : topic[i] = topic[k] => i = k
  /\ \A i \in DOMAIN topic : stream[topic[i]] \in {"open", "dropped"}
  /\ \A s \in Subs :
       /\ stream[s] \in {"absent", "locking"} => fpc[s] = "off" /\ offered[s] = {}
       /\ stream[s] = "open" /\ Registered(s) => fpc[s] = "on"

EntryInv == TypeOK /\ Walking /\ Entries

LEMMA EntryInit == ASSUME Init PROVE EntryInv
<1>1. TypeOK
  BY TypeInit
<1>2. Walking
  BY DEF Init, InitWith, Walking
<1>3. Entries
  BY DEF Init, InitWith, Entries, Registered, Range
<1>. QED
  BY <1>1, <1>2, <1>3 DEF EntryInv

LEMMA EntryFrame ==
  ASSUME EntryInv,
         UNCHANGED <<known, topic, readers, ppc, pi, pj, stream, fpc, offered>>
  PROVE  Walking' /\ Entries'
BY DEF EntryInv, Walking, Entries, Registered

LEMMA EntryPublish ==
  ASSUME EntryInv, NEW p \in Pubs, Publish(p) PROVE Walking' /\ Entries'
<1> USE DEF EntryInv
<1>t. /\ topic \in Seq(Subs) /\ ppc \in [Pubs -> {"idle", "timer", "send", "alter", "done"}]
      /\ pi \in [Pubs -> Nat \ {0}] /\ pj \in [Pubs -> Nat \ {0}]
      /\ Len(Batch[p]) \in Nat /\ offered \in [Subs -> SUBSET Msgs]
      /\ Len(topic) \in Nat /\ DOMAIN topic = 1..Len(topic)
  <2>1. Batch[p] \in Seq(Msgs)
    BY ChannelAssumption
  <2>. QED
    BY <2>1 DEF TypeOK, CallTypeOK, SetTypeOK
<1>1. CASE StageDelayed(p)
  <2>1. Walking'
    BY <1>1, <1>t DEF StageDelayed, Walking, lockVars
  <2>2. Entries'
    BY <1>1 DEF StageDelayed, Entries, Registered, lockVars, subVars, histVars
  <2>. QED
    BY <2>1, <2>2
<1>2. CASE PublishGet(p)
  <2>1. Walking'
    <3>1. \/ /\ readers' = readers \cup {p} /\ ppc' = [ppc EXCEPT ![p] = "send"]
          \/ /\ readers' = readers /\ ppc' = [ppc EXCEPT ![p] = "done"]
      BY <1>2 DEF PublishGet
    <3>2. pi[p] = 1 /\ pj[p] = 1 /\ UNCHANGED <<topic, pi, pj>>
      BY <1>2 DEF PublishGet, Walking
    <3>. QED
      BY <1>t, <3>1, <3>2 DEF Walking
  <2>2. Entries'
    BY <1>2 DEF PublishGet, Entries, Registered, subVars, histVars
  <2>. QED
    BY <2>1, <2>2
<1>3. CASE PublishSend(p)
  <2> DEFINE s == topic[pj[p]]
             m == Batch[p][pi[p]]
  <2>1. /\ ppc[p] = "send" /\ pi[p] <= Len(Batch[p]) /\ topic # <<>>
        /\ UNCHANGED <<known, topic, readers, ppc, stream, fpc>>
    BY <1>3 DEF PublishSend, lockVars
  <2>2. pj[p] \in 1..Len(topic) /\ s \in Subs
    BY <1>t, <2>1 DEF Walking
  <2>3. Walking'
    <3>1. CASE pj[p] < Len(topic)
      <4>1. pj' = [pj EXCEPT ![p] = pj[p] + 1] /\ pi' = pi
        BY <1>3, <3>1 DEF PublishSend
      <4>. QED
        BY <1>t, <2>1, <2>2, <3>1, <4>1 DEF Walking
    <3>2. CASE ~(pj[p] < Len(topic))
      <4>1. pi' = [pi EXCEPT ![p] = pi[p] + 1] /\ pj' = [pj EXCEPT ![p] = 1]
        BY <1>3, <3>2 DEF PublishSend
      <4>. QED
        BY <1>t, <2>1, <2>2, <4>1 DEF Walking
    <3>. QED
      BY <3>1, <3>2
  <2>4. Entries'
    <3>1. offered' = offered \/ offered' = [offered EXCEPT ![s] = offered[s] \cup {m}]
      BY <1>3 DEF PublishSend
    <3>2. stream[s] \in {"open", "dropped"}
      BY <1>t, <2>2 DEF Entries
    <3>3. \A t \in Subs : stream[t] \in {"absent", "locking"} => offered'[t] = offered[t]
      BY <1>t, <3>1, <3>2
    <3>. QED
      BY <2>1, <3>3 DEF Entries, Registered
  <2>. QED
    BY <2>3, <2>4
<1>4. CASE PublishDrop(p)
  <2>1. Walking'
    BY <1>4, <1>t DEF PublishDrop, Walking
  <2>2. Entries'
    BY <1>4 DEF PublishDrop, Entries, Registered, subVars, histVars
  <2>. QED
    BY <2>1, <2>2
<1>5. CASE PublishAlter(p)
  <2> DEFINE live == {i \in DOMAIN topic : fpc[topic[i]] # "gone"}
  <2>1. /\ readers = {} /\ ppc[p] = "alter" /\ ppc' = [ppc EXCEPT ![p] = "done"]
        /\ UNCHANGED <<known, pi, pj, readers, stream, fpc, offered>>
    BY <1>5 DEF PublishAlter, subVars, histVars
  <2>2. Walking'
    BY <1>t, <2>1 DEF Walking
  <2>3. PICK k \in [1..Cardinality(live) -> live] :
          /\ \A i, j \in DOMAIN k : i < j => k[i] < k[j]
          /\ topic' = [i \in DOMAIN k |-> topic[k[i]]]
    BY <1>5 DEF PublishAlter
  <2>4. /\ DOMAIN topic' = DOMAIN k
        /\ \A i \in DOMAIN k : k[i] \in DOMAIN topic /\ topic'[i] = topic[k[i]]
    BY <2>3
  <2>5. \A i, j \in DOMAIN k : k[i] = k[j] => i = j
    <3> SUFFICES ASSUME NEW i \in DOMAIN k, NEW j \in DOMAIN k, k[i] = k[j]
                 PROVE  i = j
      OBVIOUS
    <3>1. Cardinality(live) \in Nat
      <4>1. IsFiniteSet(DOMAIN topic)
        <5>1. IsFiniteSet(1..Len(topic))
          BY <1>t, FS_Interval
        <5>. QED
          BY <1>t, <5>1
      <4>2. IsFiniteSet(live)
        BY ONLY <4>1, FS_Subset
      <4>. QED
        BY <4>2, FS_CardinalityType
    <3>2. i \in Nat /\ j \in Nat /\ k[i] \in Nat /\ k[j] \in Nat
      BY <1>t, <2>4, <3>1
    <3>3. ~(i < j) /\ ~(j < i)
      BY <2>3, <3>2
    <3>. QED
      BY <3>2, <3>3
  <2>6. Range(topic') \subseteq Range(topic)
    BY <2>4 DEF Range
  <2>7. Entries'
    BY <2>1, <2>4, <2>5, <2>6 DEF Entries, Registered
  <2>. QED
    BY <2>2, <2>7
<1>. QED
  BY <1>1, <1>2, <1>3, <1>4, <1>5 DEF Publish

LEMMA EntryMap ==
  ASSUME EntryInv, (\E s \in Subs : Subscribe(s)) \/ Close
  PROVE  Walking' /\ Entries'
<1> USE DEF EntryInv
<1>t. /\ topic \in Seq(Subs) /\ stream \in [Subs -> {"absent", "locking", "open", "dropped"}]
      /\ fpc \in [Subs -> {"off", "on", "gone"}]
  BY DEF TypeOK, CallTypeOK
<1>1. ASSUME NEW s \in Subs, SubscribeCall(s) PROVE Walking' /\ Entries'
  <2>1. Walking'
    BY <1>1 DEF SubscribeCall, Walking, lockVars, pubVars
  <2>2. /\ \A t \in Subs : stream'[t] = IF t = s THEN "locking" ELSE stream[t]
        /\ stream[s] = "absent" /\ UNCHANGED <<known, topic, fpc, offered>>
    BY <1>1, <1>t DEF SubscribeCall, lockVars, histVars
  <2>3. \A i \in DOMAIN topic : topic[i] \in Subs
    BY <1>t
  <2>4. Entries'
    BY <2>2, <2>3 DEF Entries, Registered
  <2>. QED
    BY <2>1, <2>4
<1>2. ASSUME NEW s \in Subs, SubscribeEntry(s) PROVE Walking' /\ Entries'
  <2>1. /\ stream[s] = "locking" /\ readers = {} /\ known' = TRUE
        /\ topic' = Append(topic, s) /\ readers' = readers
        /\ UNCHANGED <<ppc, pi, pj, offered>>
        /\ \A t \in Subs : /\ stream'[t] = IF t = s THEN "open" ELSE stream[t]
                           /\ fpc'[t] = IF t = s THEN "on" ELSE fpc[t]
    BY <1>2, <1>t DEF SubscribeEntry, pubVars, histVars
  <2>2. Walking'
    BY <2>1 DEF Walking
  <2>3. /\ DOMAIN topic = 1..Len(topic) /\ Len(topic) \in Nat
        /\ DOMAIN topic' = 1..(Len(topic) + 1)
        /\ \A i \in 1..Len(topic) : topic'[i] = topic[i] /\ topic[i] \in Subs
        /\ topic'[Len(topic) + 1] = s
        /\ Range(topic') = Range(topic) \cup {s}
    BY <1>t, <2>1, AppendFacts
  <2>4. \A i \in 1..Len(topic) : topic[i] # s
    BY <2>1, <2>3 DEF Entries
  <2>5. \A i, k \in DOMAIN topic' : topic'[i] = topic'[k] => i = k
    BY <2>3, <2>4 DEF Entries
  <2>6. \A i \in DOMAIN topic' : stream'[topic'[i]] \in {"open", "dropped"}
    BY <2>1, <2>3, <2>4 DEF Entries
  <2>7. \A t \in Subs \ {s} : stream[t] = "open" /\ Registered(t)' => fpc[t] = "on"
    <3> SUFFICES ASSUME NEW t \in Subs \ {s}, stream[t] = "open", Registered(t)'
                 PROVE  Registered(t)
      BY DEF Entries
    <3>1. t \in Range(topic')
      BY DEF Registered
    <3>2. t \in Range(topic)
      BY <2>3, <3>1
    <3>3. known
      BY <3>2 DEF Entries
    <3>. QED
      BY <3>2, <3>3 DEF Registered
  <2>8. Entries'
    BY <2>1, <2>5, <2>6, <2>7 DEF Entries
  <2>. QED
    BY <2>2, <2>8
<1>3. CASE CloseCall
  BY <1>3, EntryFrame DEF CloseCall, lockVars, pubVars, subVars, histVars
<1>4. CASE CloseClear
  <2>1. /\ readers = {} /\ known' = FALSE /\ topic' = <<>>
        /\ UNCHANGED <<readers, ppc, pi, pj, stream, fpc, offered>>
    BY <1>4 DEF CloseClear, pubVars, subVars, histVars
  <2>2. Walking'
    BY <2>1 DEF Walking
  <2>3. DOMAIN topic' = {} /\ Range(topic') = {}
    BY <2>1, EmptyFacts
  <2>4. Entries'
    BY <2>1, <2>3 DEF Entries, Registered
  <2>. QED
    BY <2>2, <2>4
<1>. QED
  BY <1>1, <1>2, <1>3, <1>4 DEF Subscribe, Close

LEMMA EntryForward ==
  ASSUME EntryInv, NEW s \in Subs, Forward(s) PROVE Walking' /\ Entries'
<1> USE DEF EntryInv
<1>t. /\ fpc \in [Subs -> {"off", "on", "gone"}]
      /\ stream \in [Subs -> {"absent", "locking", "open", "dropped"}]
  BY DEF TypeOK, CallTypeOK
<1>1. /\ UNCHANGED <<known, topic, readers, ppc, pi, pj, stream, offered>>
      /\ fpc[s] = "on"
      /\ \/ fpc' = fpc
         \/ /\ fpc' = [fpc EXCEPT ![s] = "gone"]
            /\ stream[s] = "dropped" \/ ~Registered(s)
  BY DEF Forward, ForwardRecv, ForwardSend, ForwardEnd, Upgradable, lockVars,
         pubVars, histVars
<1>2. Walking'
  BY <1>1 DEF Walking
<1>3. Entries'
  BY <1>1, <1>t DEF Entries, Registered
<1>. QED
  BY <1>2, <1>3

LEMMA EntryConsume ==
  ASSUME EntryInv, NEW s \in Subs, Consume(s) \/ Verdict(s)
  PROVE  Walking' /\ Entries'
<1>1. CASE DropStream(s)
  <2>1. /\ UNCHANGED <<known, topic, readers, ppc, pi, pj, fpc, offered>>
        /\ stream[s] = "open" /\ stream' = [stream EXCEPT ![s] = "dropped"]
    BY <1>1 DEF DropStream, lockVars, pubVars, histVars
  <2>2. Walking'
    BY <2>1 DEF EntryInv, Walking
  <2>3. \A t \in Subs : stream'[t] = IF t = s THEN "dropped" ELSE stream[t]
    BY <2>1 DEF EntryInv, TypeOK, CallTypeOK
  <2>4. \A i \in DOMAIN topic : topic[i] \in Subs
    BY DEF EntryInv, TypeOK, CallTypeOK
  <2>5. Entries'
    BY <2>1, <2>3, <2>4 DEF EntryInv, Entries, Registered
  <2>. QED
    BY <2>2, <2>5
<1>2. CASE ~DropStream(s)
  BY <1>2, EntryFrame DEF Consume, Verdict, Take, Ack, Nack, VerdictNack, Resend,
                          lockVars, pubVars, histVars
<1>. QED
  BY <1>1, <1>2

LEMMA EntryStep == ASSUME EntryInv, [Next]_vars PROVE EntryInv'
<1>1. TypeOK'
  BY TypeStep DEF EntryInv
<1>2. CASE UNCHANGED vars
  BY <1>1, <1>2, EntryFrame DEF vars, lockVars, pubVars, subVars, histVars, EntryInv
<1>. QED
  BY <1>1, <1>2, EntryPublish, EntryMap, EntryForward, EntryConsume
     DEF Next, Done, EntryInv

-----------------------------------------------------------------------------
(* No message is lost.                                                     *)

\* The places of a message, before and after a step.
LEMMA SomewhereIs ==
  ASSUME NEW s
  PROVE  /\ Somewhere(s) = Range(raw[s]) \cup fwd[s] \cup Range(out[s]) \cup held[s]
                             \cup nacked[s] \cup resend[s] \cup acked[s]
         /\ Somewhere(s)' = Range(raw'[s]) \cup fwd'[s] \cup Range(out'[s])
                              \cup held'[s] \cup nacked'[s] \cup resend'[s]
                              \cup acked'[s]
<1>1. ASSUME NEW A, NEW B, NEW C, NEW D, NEW E, NEW F, NEW G
      PROVE  UNION Range(<<A, B, C, D, E, F, G>>)
               = A \cup B \cup C \cup D \cup E \cup F \cup G
  <2> DEFINE q == <<A, B, C, D, E, F, G>>
  <2>1. DOMAIN q = 1..7
    OBVIOUS
  <2>2. 1..7 = {1, 2, 3, 4, 5, 6, 7}
    OBVIOUS
  <2>3. Range(q) = {A, B, C, D, E, F, G}
    BY <2>1, <2>2 DEF Range
  <2>. QED
    BY <2>3
<1>2. Somewhere(s) = Range(raw[s]) \cup fwd[s] \cup Range(out[s]) \cup held[s]
                       \cup nacked[s] \cup resend[s] \cup acked[s]
  BY <1>1 DEF Somewhere, Places
<1>3. Somewhere(s)' = Range(raw'[s]) \cup fwd'[s] \cup Range(out'[s])
                        \cup held'[s] \cup nacked'[s] \cup resend'[s] \cup acked'[s]
  BY <1>1 DEF Somewhere, Places
<1>. QED
  BY <1>2, <1>3

\* A step loses nothing of s if s was open and registered before it and it
\* keeps what s was offered in some place.
LEMMA LossStep ==
  ASSUME NoLoss, NEW s \in Subs,
         stream[s] = "open" /\ Registered(s) /\ offered'[s] = offered[s],
         Somewhere(s) \subseteq Somewhere(s)'
  PROVE  offered'[s] \subseteq Somewhere(s)'
BY DEF NoLoss

\* The steps that touch neither the messages of a stream nor its registration.
LEMMA LossFrame ==
  ASSUME NoLoss, EntryInv, UNCHANGED <<raw, fwd, out, held, nacked, resend, acked, offered>>,
         \A s \in Subs : stream'[s] = "open" /\ Registered(s)' =>
           \/ stream[s] = "open" /\ Registered(s)
           \/ offered[s] = {}
  PROVE  NoLoss'
<1> SUFFICES ASSUME NEW s \in Subs, stream'[s] = "open", Registered(s)'
             PROVE  offered'[s] \subseteq Somewhere(s)'
  BY DEF NoLoss
<1>1. Somewhere(s)' = Somewhere(s)
  BY SomewhereIs
<1>. QED
  BY <1>1 DEF NoLoss

LEMMA LossPublish ==
  ASSUME NoLoss, EntryInv, NEW p \in Pubs, Publish(p) PROVE NoLoss'
<1>1. CASE StageDelayed(p) \/ PublishGet(p) \/ PublishDrop(p)
  BY <1>1, LossFrame DEF StageDelayed, PublishGet, PublishDrop, lockVars, subVars,
                         histVars, Registered
<1>2. CASE PublishAlter(p)
  <2> DEFINE live == {i \in DOMAIN topic : fpc[topic[i]] # "gone"}
  <2>1. PICK k \in [1..Cardinality(live) -> live] :
                 topic' = [i \in DOMAIN k |-> topic[k[i]]]
    BY <1>2 DEF PublishAlter
  <2>2. Range(topic') \subseteq Range(topic)
    BY <2>1 DEF Range
  <2>. QED
    BY <1>2, <2>2, LossFrame DEF PublishAlter, subVars, histVars, Registered
<1>3. CASE PublishSend(p)
  <2> DEFINE s == topic[pj[p]]
             m == Batch[p][pi[p]]
  <2>1. UNCHANGED <<known, topic, stream, fwd, out, held, nacked, resend, acked>>
    BY <1>3 DEF PublishSend, lockVars
  <2>2. \/ raw' = raw /\ offered' = offered
        \/ /\ raw' = [raw EXCEPT ![s] = Append(raw[s], m)]
           /\ offered' = [offered EXCEPT ![s] = offered[s] \cup {m}]
    BY <1>3 DEF PublishSend
  <2>3. m \in Msgs
    BY <1>3, SentMessage DEF PublishSend, EntryInv
  <2>4. SUFFICES ASSUME NEW t \in Subs, stream[t] = "open", Registered(t)
                 PROVE  offered'[t] \subseteq Somewhere(t)'
    BY <2>1 DEF NoLoss, Registered
  <2>5. offered[t] \subseteq Somewhere(t)
    BY <2>4 DEF NoLoss
  <2>6. /\ raw[t] \in Seq(Msgs) /\ raw \in [Subs -> Seq(Msgs)]
        /\ offered \in [Subs -> SUBSET Msgs]
    BY DEF EntryInv, TypeOK, QueueTypeOK, SetTypeOK
  <2>7. \/ raw'[t] = raw[t] /\ offered'[t] = offered[t]
        \/ raw'[t] = Append(raw[t], m) /\ offered'[t] = offered[t] \cup {m}
    <3> HIDE DEF s, m
    <3>. QED
      BY <2>2, <2>6
  <2>8. /\ offered'[t] \subseteq offered[t] \cup {m}
        /\ Range(raw[t]) \subseteq Range(raw'[t])
        /\ offered'[t] \subseteq offered[t] \/ m \in Range(raw'[t])
    <3> HIDE DEF s, m
    <3>. QED
      <4>1. Range(Append(raw[t], m)) = Range(raw[t]) \cup {m}
        BY <2>3, <2>6, AppendFacts
      <4>. QED
        BY <2>7, <4>1
  <2>. QED
    <3> HIDE DEF s, m
    <3>. QED
      BY <2>1, <2>5, <2>8, SomewhereIs
<1>. QED
  BY <1>1, <1>2, <1>3 DEF Publish

LEMMA LossMap ==
  ASSUME NoLoss, EntryInv, (\E s \in Subs : Subscribe(s)) \/ Close PROVE NoLoss'
<1>t. /\ topic \in Seq(Subs)
      /\ stream \in [Subs -> {"absent", "locking", "open", "dropped"}]
  BY DEF EntryInv, TypeOK, CallTypeOK
<1>1. ASSUME NEW s \in Subs, SubscribeCall(s) PROVE NoLoss'
  BY <1>1, <1>t, LossFrame DEF SubscribeCall, lockVars, histVars, Registered
<1>2. ASSUME NEW s \in Subs, SubscribeEntry(s) PROVE NoLoss'
  <2>1. /\ offered[s] = {} /\ topic' = Append(topic, s)
        /\ UNCHANGED <<raw, fwd, out, held, nacked, resend, acked, offered>>
        /\ \A t \in Subs \ {s} : stream'[t] = stream[t]
    BY <1>2, <1>t DEF SubscribeEntry, histVars, EntryInv, Entries
  <2>2. Range(topic') = Range(topic) \cup {s}
    BY <1>t, <2>1, AppendFacts
  <2>3. \A t \in Range(topic) : Registered(t)
    BY DEF EntryInv, Entries, Registered
  <2>4. \A t \in Subs \ {s} : Registered(t)' => Registered(t)
    BY <2>2, <2>3 DEF Registered
  <2>. QED
    BY <2>1, <2>4, LossFrame
<1>3. CASE CloseCall
  BY <1>3, LossFrame DEF CloseCall, lockVars, subVars, histVars, Registered
<1>4. CASE CloseClear
  BY <1>4, LossFrame DEF CloseClear, subVars, histVars, Registered
<1>. QED
  BY <1>1, <1>2, <1>3, <1>4 DEF Subscribe, Close

\* A step of stream s alone, which registers nothing.
LEMMA LossLocal ==
  ASSUME NoLoss, NEW s \in Subs, UNCHANGED <<known, topic, offered>>,
         stream'[s] = "open" => stream[s] = "open",
         \A t \in Subs \ {s} :
           /\ stream'[t] = stream[t]
           /\ raw'[t] = raw[t] /\ fwd'[t] = fwd[t] /\ out'[t] = out[t]
           /\ held'[t] = held[t] /\ nacked'[t] = nacked[t]
           /\ resend'[t] = resend[t] /\ acked'[t] = acked[t],
         stream'[s] = "open" /\ Registered(s) => Somewhere(s) \subseteq Somewhere(s)'
  PROVE  NoLoss'
<1> SUFFICES ASSUME NEW t \in Subs, stream'[t] = "open", Registered(t)
             PROVE  offered[t] \subseteq Somewhere(t)'
  BY DEF NoLoss, Registered
<1>1. CASE t = s
  BY <1>1 DEF NoLoss
<1>2. CASE t # s
  BY <1>2, SomewhereIs DEF NoLoss
<1>. QED
  BY <1>1, <1>2

\* The forwarder has one message in hand at most.
OneForwarded == \A s \in Subs : \A m, n \in fwd[s] : m = n

LEMMA OneForwardedStep ==
  ASSUME EntryInv, OneForwarded, [Next]_vars PROVE OneForwarded'
<1>t. fwd \in [Subs -> SUBSET Msgs]
  BY DEF EntryInv, TypeOK, SetTypeOK
<1>1. ASSUME NEW s \in Subs, Forward(s) PROVE OneForwarded'
  <2>1. \/ fwd' = fwd \/ fwd' = [fwd EXCEPT ![s] = {}]
        \/ fwd' = [fwd EXCEPT ![s] = {Head(raw[s])}]
    BY <1>1 DEF Forward, ForwardRecv, ForwardSend, ForwardEnd
  <2>. QED
    BY <1>t, <2>1 DEF OneForwarded
<1>2. ASSUME NEW s \in Subs, Subscribe(s) \/ Verdict(s) \/ Consume(s) PROVE fwd' = fwd
  BY <1>2 DEF Subscribe, SubscribeCall, SubscribeEntry, Verdict, VerdictNack, Resend,
              Consume, Take, Ack, Nack, DropStream
<1>3. ASSUME NEW p \in Pubs, Publish(p) PROVE fwd' = fwd
  BY <1>3 DEF Publish, StageDelayed, PublishGet, PublishSend, PublishDrop,
              PublishAlter, subVars
<1>4. Close \/ UNCHANGED vars => fwd' = fwd
  BY DEF Close, CloseCall, CloseClear, vars, subVars
<1>. QED
  BY <1>1, <1>2, <1>3, <1>4 DEF Next, Done, OneForwarded

LEMMA LossForward ==
  ASSUME NoLoss, EntryInv, OneForwarded, NEW s \in Subs, Forward(s) PROVE NoLoss'
<1>t. /\ raw \in [Subs -> Seq(Msgs)] /\ out \in [Subs -> Seq(Msgs)]
      /\ fwd \in [Subs -> SUBSET Msgs]
  BY DEF EntryInv, TypeOK, QueueTypeOK, SetTypeOK
<1>0. UNCHANGED <<known, topic, offered, stream, held, nacked, resend, acked>>
  BY DEF Forward, ForwardRecv, ForwardSend, ForwardEnd, lockVars, histVars
<1>1. CASE ForwardRecv(s)
  <2>1. /\ raw' = [raw EXCEPT ![s] = raw'[s]] /\ fwd' = [fwd EXCEPT ![s] = fwd'[s]]
        /\ out' = out
    BY <1>1, <1>t DEF ForwardRecv
  <2>2. CASE stream[s] = "dropped"
    BY <1>0, <1>t, <2>1, <2>2, LossLocal
  <2>3. CASE stream[s] # "dropped"
    <3>1. /\ raw[s] # <<>> /\ fwd[s] = {}
          /\ raw'[s] = Tail(raw[s]) /\ fwd'[s] = {Head(raw[s])}
      BY <1>1, <1>t, <2>3 DEF ForwardRecv
    <3>2. Range(raw[s]) = {Head(raw[s])} \cup Range(Tail(raw[s]))
      BY <1>t, <3>1, TailFacts
    <3>3. Somewhere(s) \subseteq Somewhere(s)'
      BY <1>0, <2>1, <3>1, <3>2, SomewhereIs
    <3>. QED
      BY <1>0, <1>t, <2>1, <3>3, LossLocal
  <2>. QED
    BY <2>2, <2>3
<1>2. CASE ForwardSend(s)
  <2>1. /\ raw' = [raw EXCEPT ![s] = raw'[s]] /\ fwd' = [fwd EXCEPT ![s] = fwd'[s]]
        /\ out' = [out EXCEPT ![s] = out'[s]]
    BY <1>2, <1>t DEF ForwardSend
  <2>2. CASE stream[s] = "dropped"
    BY <1>0, <1>t, <2>1, <2>2, LossLocal
  <2>3. CASE stream[s] # "dropped"
    <3>1. PICK m \in fwd[s] : out' = [out EXCEPT ![s] = Append(@, m)]
      BY <1>2, <2>3 DEF ForwardSend
    <3>2. Range(out'[s]) = Range(out[s]) \cup {m}
      BY <1>t, <3>1, AppendFacts
    <3>3. raw' = raw
      BY <1>2, <2>3 DEF ForwardSend
    <3>4. fwd[s] = {m}
      BY <3>1 DEF OneForwarded
    <3>5. Somewhere(s) \subseteq Somewhere(s)'
      BY <1>0, <3>2, <3>3, <3>4, SomewhereIs
    <3>. QED
      BY <1>0, <1>t, <2>1, <3>5, LossLocal
  <2>. QED
    BY <2>2, <2>3
<1>3. CASE ForwardEnd(s)
  BY <1>0, <1>3, LossFrame DEF ForwardEnd, Registered
<1>. QED
  BY <1>1, <1>2, <1>3 DEF Forward

LEMMA LossVerdict ==
  ASSUME NoLoss, EntryInv, NEW s \in Subs, NEW m \in Msgs,
         VerdictNack(s, m) \/ Resend(s, m)
  PROVE  NoLoss'
<1>t. /\ raw \in [Subs -> Seq(Msgs)] /\ nacked \in [Subs -> SUBSET Msgs]
      /\ resend \in [Subs -> SUBSET Msgs]
  BY DEF EntryInv, TypeOK, QueueTypeOK, SetTypeOK
<1>0. UNCHANGED <<known, topic, offered, stream, fwd, out, held, acked>>
  BY DEF VerdictNack, Resend, lockVars, histVars
<1>1. CASE VerdictNack(s, m)
  <2>1. /\ raw' = raw /\ nacked' = [nacked EXCEPT ![s] = nacked[s] \ {m}]
        /\ resend' = [resend EXCEPT ![s] = resend'[s]]
        /\ Registered(s) => resend'[s] = resend[s] \cup {m}
    BY <1>1, <1>t DEF VerdictNack, Upgradable
  <2>2. Registered(s) => Somewhere(s) \subseteq Somewhere(s)'
    BY <1>0, <1>t, <2>1, SomewhereIs
  <2>. QED
    BY <1>0, <1>t, <2>1, <2>2, LossLocal
<1>2. CASE Resend(s, m)
  <2>1. /\ nacked' = nacked /\ resend' = [resend EXCEPT ![s] = resend[s] \ {m}]
        /\ raw' = [raw EXCEPT ![s] = raw'[s]]
        /\ fpc[s] # "gone" => raw'[s] = Append(raw[s], m)
    BY <1>2, <1>t DEF Resend
  <2>2. stream[s] = "open" /\ Registered(s) => fpc[s] = "on"
    BY DEF EntryInv, Entries
  <2>3. fpc[s] # "gone" => Somewhere(s) \subseteq Somewhere(s)'
    <3>1. Range(Append(raw[s], m)) = Range(raw[s]) \cup {m}
      BY <1>t, AppendFacts
    <3>. QED
      BY <1>0, <1>t, <2>1, <3>1, SomewhereIs
  <2>. QED
    BY <1>0, <1>t, <2>1, <2>2, <2>3, LossLocal
<1>. QED
  BY <1>1, <1>2

LEMMA LossConsume ==
  ASSUME NoLoss, EntryInv, NEW s \in Subs, Consume(s) PROVE NoLoss'
<1>t. /\ out \in [Subs -> Seq(Msgs)] /\ nacked \in [Subs -> SUBSET Msgs]
      /\ held \in [Subs -> SUBSET Msgs] /\ acked \in [Subs -> SUBSET Msgs]
      /\ stream \in [Subs -> {"absent", "locking", "open", "dropped"}]
  BY DEF EntryInv, TypeOK, CallTypeOK, QueueTypeOK, SetTypeOK
<1>0. UNCHANGED <<known, topic, offered, raw, fwd, resend>>
  BY DEF Consume, Take, Ack, Nack, DropStream, lockVars, histVars
<1>1. CASE Take(s)
  <2>1. /\ out[s] # <<>> /\ out' = [out EXCEPT ![s] = Tail(out[s])]
        /\ held' = [held EXCEPT ![s] = held[s] \cup {Head(out[s])}]
        /\ UNCHANGED <<stream, nacked, acked>>
    BY <1>1 DEF Take
  <2>2. Range(out[s]) = {Head(out[s])} \cup Range(Tail(out[s]))
    BY <1>t, <2>1, TailFacts
  <2>3. Somewhere(s) \subseteq Somewhere(s)'
    BY <1>0, <1>t, <2>1, <2>2, SomewhereIs
  <2>. QED
    BY <1>0, <1>t, <2>1, <2>3, LossLocal
<1>2. ASSUME NEW m \in Msgs, Ack(s, m) \/ Nack(s, m) PROVE NoLoss'
  <2>1. /\ held' = [held EXCEPT ![s] = held[s] \ {m}] /\ UNCHANGED <<stream, out>>
        /\ \/ acked' = [acked EXCEPT ![s] = acked[s] \cup {m}] /\ nacked' = nacked
           \/ nacked' = [nacked EXCEPT ![s] = nacked[s] \cup {m}] /\ acked' = acked
    BY <1>2 DEF Ack, Nack
  <2>2. Somewhere(s) \subseteq Somewhere(s)'
    BY <1>0, <1>t, <2>1, SomewhereIs
  <2>. QED
    BY <1>0, <1>t, <2>1, <2>2, LossLocal
<1>3. CASE DropStream(s)
  <2>1. /\ stream' = [stream EXCEPT ![s] = "dropped"]
        /\ nacked' = [nacked EXCEPT ![s] = nacked'[s]]
        /\ out' = [out EXCEPT ![s] = <<>>] /\ UNCHANGED <<held, acked>>
    BY <1>3, <1>t DEF DropStream
  <2>. QED
    BY <1>0, <1>t, <2>1, LossLocal
<1>. QED
  BY <1>1, <1>2, <1>3 DEF Consume

\* Whatever publishers, forwarders, verdict tasks and consumers do, and however
\* often messages are nacked, a message published to an open and registered
\* stream stays on its way to the consumer, in its hands or acked.
THEOREM NothingLost == Spec => []NoLoss
<1> DEFINE Inv == EntryInv /\ OneForwarded /\ NoLoss
<1>1. Init => Inv
  <2> SUFFICES ASSUME Init PROVE Inv
    OBVIOUS
  <2>1. NoLoss /\ OneForwarded
    BY DEF Init, InitWith, NoLoss, OneForwarded
  <2>. QED
    BY <2>1, EntryInit
<1>2. Inv /\ [Next]_vars => Inv'
  <2> SUFFICES ASSUME EntryInv, OneForwarded, NoLoss, [Next]_vars
               PROVE  EntryInv' /\ OneForwarded' /\ NoLoss'
    OBVIOUS
  <2>1. EntryInv' /\ OneForwarded'
    BY EntryStep, OneForwardedStep
  <2>2. CASE UNCHANGED vars
    <3>1. /\ UNCHANGED <<raw, fwd, out, held, nacked, resend, acked, offered>>
          /\ UNCHANGED <<known, topic, stream>>
      BY <2>2 DEF vars, lockVars, subVars, histVars
    <3>2. \A s \in Subs : Registered(s)' => Registered(s)
      BY <3>1 DEF Registered
    <3>3. \A s \in Subs : stream'[s] = "open" /\ Registered(s)' =>
            stream[s] = "open" /\ Registered(s)
      BY <3>1, <3>2
    <3>. QED
      BY <2>1, <3>1, <3>3, LossFrame
  <2>. QED
    BY <2>1, <2>2, LossPublish, LossMap, LossForward, LossVerdict, LossConsume
       DEF Next, Done, Verdict
<1>. QED
  BY <1>1, <1>2, PTL DEF Spec

-----------------------------------------------------------------------------
(* A batch reaches each live stream as a whole.                            *)

First(p, n) == {Batch[p][i] : i \in 1..n}

\* What a live stream has been offered of the batch of a call under way: the
\* messages before the current one, and that one too where the walk has passed.
Reached ==
  \A p \in Pubs, s \in Subs : fpc[s] = "on" =>
    /\ ppc[p] \in {"idle", "timer"} => offered[s] \cap Range(Batch[p]) = {}
    /\ ppc[p] = "send" =>
         /\ \A k \in DOMAIN topic : topic[k] = s =>
              offered[s] \cap Range(Batch[p]) =
                First(p, IF k < pj[p] THEN pi[p] ELSE pi[p] - 1)
         /\ s \notin Range(topic) => offered[s] \cap Range(Batch[p]) = {}

\* Batches of different calls have no message in common, nor has a batch the
\* same message twice.
LEMMA BatchFacts ==
  /\ \A p \in Pubs : /\ Batch[p] \in Seq(Msgs) /\ Len(Batch[p]) \in Nat
                     /\ Range(Batch[p]) = First(p, Len(Batch[p]))
  /\ \A p, q \in Pubs : \A m \in Range(Batch[p]) : m \in Range(Batch[q]) => p = q
BY ChannelAssumption DEF Range, First

LEMMA FirstSteps ==
  ASSUME NEW p, NEW n \in Nat
  PROVE  First(p, 0) = {} /\ First(p, n + 1) = First(p, n) \cup {Batch[p][n + 1]}
<1>1. 1..0 = {} /\ 1..(n + 1) = 1..n \cup {n + 1}
  OBVIOUS
<1>. QED
  BY <1>1 DEF First

ReachInv == EntryInv /\ Reached /\ WholeBatch

LEMMA ReachInit == ASSUME Init PROVE ReachInv
<1>1. Reached /\ WholeBatch
  BY DEF Init, InitWith, Reached, WholeBatch
<1>. QED
  BY <1>1, EntryInit DEF ReachInv

\* The steps that offer nothing, start no forwarder and move no call.
LEMMA ReachFrame ==
  ASSUME ReachInv, UNCHANGED <<ppc, pi, pj, offered, topic>>,
         \A s \in Subs : fpc'[s] = "on" => fpc[s] = "on"
  PROVE  Reached' /\ WholeBatch'
BY DEF ReachInv, Reached, WholeBatch

\* The entry may change only while nobody walks it.
LEMMA ReachUnlocked ==
  ASSUME ReachInv, readers = {}, UNCHANGED <<pi, pj, offered>>,
         \A p \in Pubs : ppc'[p] = ppc[p] \/ (ppc[p] = "alter" /\ ppc'[p] = "done"),
         \A s \in Subs : fpc'[s] = "on" => fpc[s] = "on" \/ offered[s] = {}
  PROVE  Reached' /\ WholeBatch'
<1>1. \A p \in Pubs : ppc[p] # "send" /\ ppc'[p] # "send"
  BY DEF ReachInv, EntryInv, Walking
<1>2. Reached'
  BY <1>1 DEF ReachInv, Reached
<1>3. WholeBatch'
  BY DEF ReachInv, WholeBatch
<1>. QED
  BY <1>2, <1>3

LEMMA ReachSend ==
  ASSUME ReachInv, NEW p \in Pubs, PublishSend(p) PROVE Reached' /\ WholeBatch'
<1> DEFINE s == topic[pj[p]]
           m == Batch[p][pi[p]]
<1>t. /\ topic \in Seq(Subs) /\ DOMAIN topic = 1..Len(topic) /\ Len(topic) \in Nat
      /\ pi \in [Pubs -> Nat \ {0}] /\ pj \in [Pubs -> Nat \ {0}]
      /\ offered \in [Subs -> SUBSET Msgs]
  BY DEF ReachInv, EntryInv, TypeOK, CallTypeOK, SetTypeOK
<1>1. /\ ppc[p] = "send" /\ pi[p] <= Len(Batch[p]) /\ topic # <<>>
      /\ UNCHANGED <<topic, ppc, fpc>>
  BY DEF PublishSend, lockVars
<1>2. /\ pj[p] \in 1..Len(topic) /\ s \in Subs /\ m \in Range(Batch[p])
      /\ pi[p] \in 1..Len(Batch[p])
  <2>1. pj[p] \in 1..Len(topic) /\ s \in Subs
    BY <1>t, <1>1 DEF ReachInv, EntryInv, Walking
  <2>2. pi[p] \in DOMAIN Batch[p] /\ pi[p] \in 1..Len(Batch[p])
    BY <1>t, <1>1, BatchFacts
  <2>. QED
    BY <2>1, <2>2 DEF Range
<1>3. \/ fpc[s] = "gone" /\ offered' = offered
      \/ fpc[s] # "gone" /\ offered' = [offered EXCEPT ![s] = offered[s] \cup {m}]
  BY DEF PublishSend
<1>4. /\ \A t \in Subs : t # s => offered'[t] = offered[t]
      /\ fpc[s] = "on" => offered'[s] = offered[s] \cup {m}
      /\ \A t \in Subs : offered'[t] = offered[t] \/ offered'[t] = offered[t] \cup {m}
  <2> HIDE DEF s, m
  <2>. QED
    BY <1>t, <1>2, <1>3
\* The other calls do not have m in their batches.
<1>5. \A q \in Pubs \ {p}, t \in Subs :
        offered'[t] \cap Range(Batch[q]) = offered[t] \cap Range(Batch[q])
  <2>1. \A q \in Pubs \ {p} : m \notin Range(Batch[q])
    BY <1>2, BatchFacts
  <2> HIDE DEF s, m
  <2>. QED
    BY <1>4, <2>1
<1>6. /\ \A q \in Pubs \ {p} : pi'[q] = pi[q] /\ pj'[q] = pj[q]
      /\ \/ pj[p] < Len(topic) /\ pj'[p] = pj[p] + 1 /\ pi'[p] = pi[p]
         \/ pj[p] = Len(topic) /\ pj'[p] = 1 /\ pi'[p] = pi[p] + 1
  <2>1. CASE pj[p] < Len(topic)
    <3>1. pj' = [pj EXCEPT ![p] = pj[p] + 1] /\ pi' = pi
      BY <2>1 DEF PublishSend
    <3>. QED
      BY <1>t, <2>1, <3>1
  <2>2. CASE ~(pj[p] < Len(topic))
    <3>1. pi' = [pi EXCEPT ![p] = pi[p] + 1] /\ pj' = [pj EXCEPT ![p] = 1]
      BY <2>2 DEF PublishSend
    <3>. QED
      BY <1>t, <1>2, <2>2, <3>1
  <2>. QED
    BY <2>1, <2>2
<1>7. WholeBatch'
  BY <1>1, <1>5 DEF ReachInv, WholeBatch
<1>8. ASSUME NEW q \in Pubs, NEW t \in Subs, fpc'[t] = "on",
             ppc'[q] \in {"idle", "timer"}
      PROVE  offered'[t] \cap Range(Batch[q]) = {}
  BY <1>1, <1>5, <1>8 DEF ReachInv, Reached
<1>9. ASSUME NEW q \in Pubs, NEW t \in Subs, fpc'[t] = "on", ppc'[q] = "send"
      PROVE  /\ \A k \in DOMAIN topic' : topic'[k] = t =>
                  offered'[t] \cap Range(Batch[q]) =
                    First(q, IF k < pj'[q] THEN pi'[q] ELSE pi'[q] - 1)
             /\ t \notin Range(topic') => offered'[t] \cap Range(Batch[q]) = {}
  <2>1. CASE q # p
    BY <1>1, <1>5, <1>6, <1>9, <2>1 DEF ReachInv, Reached
  <2>2. CASE q = p
    <3>1. ASSUME NEW k \in DOMAIN topic, topic[k] = t
          PROVE  offered'[t] \cap Range(Batch[p]) =
                   First(p, IF k < pj'[p] THEN pi'[p] ELSE pi'[p] - 1)
      <4>0. offered[t] \cap Range(Batch[p]) =
              First(p, IF k < pj[p] THEN pi[p] ELSE pi[p] - 1)
        BY <1>1, <1>9, <3>1 DEF ReachInv, Reached
      <4>1. First(p, pi[p]) = First(p, pi[p] - 1) \cup {m}
        <5>1. pi[p] - 1 \in Nat /\ (pi[p] - 1) + 1 = pi[p]
          BY <1>t
        <5>. QED
          BY <5>1, FirstSteps
      <4>2. CASE k = pj[p]
        <5>1. offered'[t] = offered[t] \cup {m}
          BY <1>1, <1>4, <1>9, <3>1, <4>2
        <5>2. offered'[t] \cap Range(Batch[p]) = First(p, pi[p])
          <6>1. ~(k < pj[p])
            BY <1>t, <4>2
          <6> HIDE DEF m
          <6>. QED
            BY <1>2, <4>0, <4>1, <5>1, <6>1
        <5>3. IF k < pj'[p] THEN pi'[p] = pi[p] ELSE pi'[p] - 1 = pi[p]
          BY <1>t, <1>2, <1>6, <4>2
        <5>. QED
          BY <5>2, <5>3
      <4>3. CASE k # pj[p]
        <5>1. t # s
          BY <1>t, <1>2, <3>1, <4>3 DEF ReachInv, EntryInv, Entries
        <5>2. offered'[t] = offered[t]
          BY <1>4, <5>1
        <5>3. /\ k < pj[p] => IF k < pj'[p] THEN pi'[p] = pi[p] ELSE pi'[p] - 1 = pi[p]
              /\ ~(k < pj[p]) => ~(k < pj'[p]) /\ pi'[p] = pi[p]
          <6>1. /\ k \in Nat /\ pj[p] \in Nat /\ pi[p] \in Nat /\ Len(topic) \in Nat
                /\ k <= Len(topic)
            BY <1>t
          <6>2. CASE /\ pj[p] < Len(topic) /\ pj'[p] = pj[p] + 1 /\ pi'[p] = pi[p]
            BY <4>3, <6>1, <6>2
          <6>3. CASE /\ pj[p] = Len(topic) /\ pj'[p] = 1 /\ pi'[p] = pi[p] + 1
            BY <4>3, <6>1, <6>3
          <6>. QED
            BY <1>6, <6>2, <6>3
        <5>. QED
          BY <4>0, <5>2, <5>3
      <4>. QED
        BY <4>2, <4>3
    <3>2. ASSUME t \notin Range(topic)
          PROVE  offered'[t] \cap Range(Batch[p]) = {}
      <4>1. t # s
        BY <1>t, <1>2, <3>2 DEF Range
      <4>. QED
        BY <1>1, <1>4, <1>9, <3>2, <4>1 DEF ReachInv, Reached
    <3>. QED
      BY <1>1, <2>2, <3>1, <3>2
  <2>. QED
    BY <2>1, <2>2
<1>. QED
  BY <1>7, <1>8, <1>9 DEF Reached

LEMMA ReachPublish ==
  ASSUME ReachInv, NEW p \in Pubs, Publish(p) PROVE Reached' /\ WholeBatch'
<1>t. /\ ppc \in [Pubs -> {"idle", "timer", "send", "alter", "done"}]
      /\ pi \in [Pubs -> Nat \ {0}] /\ pj \in [Pubs -> Nat \ {0}]
      /\ topic \in Seq(Subs) /\ DOMAIN topic = 1..Len(topic)
  BY DEF ReachInv, EntryInv, TypeOK, CallTypeOK
<1>1. CASE StageDelayed(p)
  <2>1. /\ UNCHANGED <<pi, pj, offered, topic, fpc>>
        /\ ppc[p] = "idle" /\ ppc' = [ppc EXCEPT ![p] = "timer"]
    BY <1>1 DEF StageDelayed, lockVars, subVars, histVars
  <2>. QED
    BY <1>t, <2>1 DEF ReachInv, Reached, WholeBatch
<1>2. CASE PublishGet(p)
  <2>1. /\ UNCHANGED <<pi, pj, offered, topic, fpc>>
        /\ ppc[p] \in {"idle", "timer"}
        /\ \A q \in Pubs \ {p} : ppc'[q] = ppc[q]
        /\ ppc'[p] \in {"send", "done"}
    BY <1>2, <1>t DEF PublishGet, subVars, histVars
  <2>2. pi[p] = 1 /\ pj[p] = 1 /\ First(p, 0) = {}
    BY <2>1, FirstSteps DEF ReachInv, EntryInv, Walking
  <2>3. \A t \in Subs : fpc[t] = "on" => offered[t] \cap Range(Batch[p]) = {}
    BY <2>1 DEF ReachInv, Reached
  <2>4. \A k \in DOMAIN topic : ~(k < 1)
    BY <1>t
  <2>5. Reached'
    BY <2>1, <2>2, <2>3, <2>4 DEF ReachInv, Reached
  <2>6. WholeBatch'
    BY <2>1, <2>3 DEF ReachInv, WholeBatch
  <2>. QED
    BY <2>5, <2>6
<1>3. CASE PublishSend(p)
  BY <1>3, ReachSend
<1>4. CASE PublishDrop(p)
  <2>1. /\ UNCHANGED <<pi, pj, offered, topic, fpc>>
        /\ ppc[p] = "send" /\ (pi[p] > Len(Batch[p]) \/ topic = <<>>)
        /\ \A q \in Pubs \ {p} : ppc'[q] = ppc[q]
        /\ ppc'[p] = "alter"
    BY <1>4, <1>t DEF PublishDrop, subVars, histVars
  <2>2. ASSUME NEW t \in Subs, fpc[t] = "on"
        PROVE  offered[t] \cap Range(Batch[p]) \in {{}, Range(Batch[p])}
    <3>1. CASE t \notin Range(topic)
      BY <2>1, <2>2, <3>1 DEF ReachInv, Reached
    <3>2. CASE t \in Range(topic)
      <4>1. PICK k \in DOMAIN topic : topic[k] = t
        BY <3>2 DEF Range
      <4>2. Len(Batch[p]) \in Nat
        BY BatchFacts
      <4>3. topic # <<>>
        BY <4>1, EmptyFacts
      <4>4. pi[p] = Len(Batch[p]) + 1 /\ pj[p] = 1
        BY <1>t, <2>1, <4>2, <4>3 DEF ReachInv, EntryInv, Walking
      <4>5. ~(k < pj[p])
        BY <1>t, <4>4
      <4>6. offered[t] \cap Range(Batch[p]) = First(p, pi[p] - 1)
        BY <2>1, <2>2, <4>1, <4>5 DEF ReachInv, Reached
      <4>7. pi[p] - 1 = Len(Batch[p])
        BY <4>2, <4>4
      <4>. QED
        BY <4>6, <4>7, BatchFacts
    <3>. QED
      BY <3>1, <3>2
  <2>3. Reached'
    BY <2>1 DEF ReachInv, Reached
  <2>4. WholeBatch'
    BY <2>1, <2>2 DEF ReachInv, WholeBatch
  <2>. QED
    BY <2>3, <2>4
<1>5. CASE PublishAlter(p)
  <2>1. /\ readers = {} /\ UNCHANGED <<pi, pj, offered, fpc>>
        /\ ppc[p] = "alter" /\ ppc' = [ppc EXCEPT ![p] = "done"]
    BY <1>5 DEF PublishAlter, subVars, histVars
  <2>2. \A q \in Pubs : ppc'[q] = ppc[q] \/ (ppc[q] = "alter" /\ ppc'[q] = "done")
    BY <1>t, <2>1
  <2>. QED
    BY <2>1, <2>2, ReachUnlocked
<1>. QED
  BY <1>1, <1>2, <1>3, <1>4, <1>5 DEF Publish

LEMMA ReachOther ==
  ASSUME ReachInv,
         \/ \E s \in Subs : Subscribe(s) \/ Forward(s) \/ Verdict(s) \/ Consume(s)
         \/ Close \/ UNCHANGED vars
  PROVE  Reached' /\ WholeBatch'
<1>t. fpc \in [Subs -> {"off", "on", "gone"}]
  BY DEF ReachInv, EntryInv, TypeOK, CallTypeOK
<1>1. ASSUME NEW s \in Subs, SubscribeEntry(s) PROVE Reached' /\ WholeBatch'
  <2>1. offered[s] = {}
    BY <1>1 DEF SubscribeEntry, ReachInv, EntryInv, Entries
  <2>2. /\ readers = {} /\ UNCHANGED <<ppc, pi, pj, offered>>
        /\ fpc' = [fpc EXCEPT ![s] = "on"]
    BY <1>1 DEF SubscribeEntry, pubVars, histVars
  <2>3. \A t \in Subs : fpc'[t] = "on" => fpc[t] = "on" \/ offered[t] = {}
    BY <1>t, <2>1, <2>2
  <2>. QED
    BY <2>2, <2>3, ReachUnlocked
<1>2. ASSUME NEW s \in Subs, SubscribeCall(s) PROVE Reached' /\ WholeBatch'
  BY <1>2, ReachFrame DEF SubscribeCall, lockVars, pubVars, histVars
<1>3. ASSUME NEW s \in Subs, Forward(s) PROVE Reached' /\ WholeBatch'
  <2>1. /\ UNCHANGED <<ppc, pi, pj, offered, topic>>
        /\ fpc' = fpc \/ fpc' = [fpc EXCEPT ![s] = "gone"]
    BY <1>3 DEF Forward, ForwardRecv, ForwardSend, ForwardEnd, lockVars, pubVars,
                histVars
  <2>. QED
    BY <1>t, <2>1, ReachFrame
<1>4. ASSUME NEW s \in Subs, Verdict(s) \/ Consume(s) PROVE Reached' /\ WholeBatch'
  BY <1>4, ReachFrame DEF Verdict, VerdictNack, Resend, Consume, Take, Ack, Nack,
                          DropStream, lockVars, pubVars, histVars
<1>5. CASE CloseCall
  BY <1>5, ReachFrame DEF CloseCall, lockVars, pubVars, subVars, histVars
<1>6. CASE CloseClear
  <2>1. readers = {} /\ UNCHANGED <<ppc, pi, pj, offered, fpc>>
    BY <1>6 DEF CloseClear, pubVars, subVars, histVars
  <2>. QED
    BY <2>1, ReachUnlocked
<1>7. CASE UNCHANGED vars
  BY <1>7, ReachFrame DEF vars, lockVars, pubVars, subVars, histVars
<1>. QED
  BY <1>1, <1>2, <1>3, <1>4, <1>5, <1>6, <1>7 DEF Subscribe, Close

LEMMA ReachStep == ASSUME ReachInv, [Next]_vars PROVE ReachInv'
<1>1. EntryInv'
  BY EntryStep DEF ReachInv
<1>2. Reached' /\ WholeBatch'
  BY ReachPublish, ReachOther DEF Next, Done
<1>. QED
  BY <1>1, <1>2 DEF ReachInv

\* Because publish() keeps the map's read guard across its awaits, every call
\* reaches each live stream with all of its batch or with nothing of it,
\* however subscribe(), close() and the pruning of other calls are timed.
THEOREM BatchesAreWhole == Spec => []WholeBatch
<1>1. ReachInv => WholeBatch
  BY DEF ReachInv
<1>. QED
  BY <1>1, ReachInit, ReachStep, PTL DEF Spec

-----------------------------------------------------------------------------
(* A message has one copy per stream.                                      *)

\* The copies of stream s are distinct and in one place each.
OneCopy(s) ==
  /\ Distinct(raw[s]) /\ Distinct(out[s])
  /\ \A m \in Range(raw[s]) :
       /\ m \notin fwd[s] /\ m \notin Range(out[s]) /\ m \notin held[s]
       /\ m \notin nacked[s] /\ m \notin resend[s] /\ m \notin acked[s]
  /\ \A m \in fwd[s] :
       /\ m \notin Range(out[s]) /\ m \notin held[s] /\ m \notin nacked[s]
       /\ m \notin resend[s] /\ m \notin acked[s]
  /\ \A m \in Range(out[s]) :
       /\ m \notin held[s] /\ m \notin nacked[s] /\ m \notin resend[s] /\ m \notin acked[s]
  /\ \A m \in held[s] : m \notin nacked[s] /\ m \notin resend[s] /\ m \notin acked[s]
  /\ \A m \in nacked[s] : m \notin resend[s] /\ m \notin acked[s]
  /\ \A m \in resend[s] : m \notin acked[s]

\* What a stream has was offered to it, and a call offers a stream its messages up to
\* the current one, which it has offered to the senders it has passed.
Offers ==
  \A s \in Subs : \A m \in offered[s] : \A p \in Pubs : \A i \in DOMAIN Batch[p] :
    Batch[p][i] = m => \/ i < pi[p]
                       \/ /\ i = pi[p] /\ ppc[p] = "send"
                          /\ \E k \in DOMAIN topic : k < pj[p] /\ topic[k] = s

PlaceInv == Offers /\ \A s \in Subs : OneCopy(s) /\ Somewhere(s) \subseteq offered[s]

LEMMA PlaceInit == ASSUME Init PROVE PlaceInv
<1>1. Offers
  BY DEF Init, InitWith, Offers
<1>2. ASSUME NEW s \in Subs PROVE OneCopy(s) /\ Somewhere(s) \subseteq offered[s]
  BY EmptyFacts, EmptyDistinct, SomewhereIs DEF Init, InitWith, OneCopy
<1>. QED
  BY <1>1, <1>2 DEF PlaceInv

\* A step that touches no copy.
LEMMA PlaceFrame ==
  ASSUME PlaceInv, Offers',
         UNCHANGED <<raw, fwd, out, held, nacked, resend, acked, offered>>
  PROVE  PlaceInv'
<1>1. \A s \in Subs : Somewhere(s)' = Somewhere(s)
  BY SomewhereIs
<1>. QED
  BY <1>1 DEF PlaceInv, OneCopy

LEMMA SomewhereSame ==
  ASSUME NEW s, raw'[s] = raw[s], fwd'[s] = fwd[s], out'[s] = out[s], held'[s] = held[s],
         nacked'[s] = nacked[s], resend'[s] = resend[s], acked'[s] = acked[s]
  PROVE  Somewhere(s)' = Somewhere(s)
BY SomewhereIs

\* A step of stream s that passes its copies on.
LEMMA PlaceLocal ==
  ASSUME PlaceInv, NEW s \in Subs, UNCHANGED <<topic, ppc, pi, pj, offered>>,
         \A t \in Subs \ {s} :
           /\ raw'[t] = raw[t] /\ fwd'[t] = fwd[t] /\ out'[t] = out[t]
           /\ held'[t] = held[t] /\ nacked'[t] = nacked[t]
           /\ resend'[t] = resend[t] /\ acked'[t] = acked[t],
         OneCopy(s)', Somewhere(s)' \subseteq Somewhere(s)
  PROVE  PlaceInv'
<1>1. Offers'
  BY DEF PlaceInv, Offers
<1>2. ASSUME NEW t \in Subs \ {s} PROVE OneCopy(t)' /\ Somewhere(t)' = Somewhere(t)
  <2>1. OneCopy(t)'
    BY DEF PlaceInv, OneCopy
  <2>. QED
    BY <2>1, SomewhereSame
<1>. QED
  BY <1>1, <1>2 DEF PlaceInv

\* The current message of a call is new to the sender it is at: the read guard keeps
\* the entry's order for the length of the walk.
LEMMA SendIsNew ==
  ASSUME PlaceInv, EntryInv, NEW p \in Pubs, PublishSend(p)
  PROVE  /\ pi[p] \in DOMAIN Batch[p] /\ pi[p] \in Nat
         /\ pj[p] \in DOMAIN topic /\ pj[p] \in Nat
         /\ topic[pj[p]] \in Subs /\ Batch[p][pi[p]] \in Msgs
         /\ Batch[p][pi[p]] \notin offered[topic[pj[p]]]
<1>t. /\ topic \in Seq(Subs) /\ Len(topic) \in Nat /\ DOMAIN topic = 1..Len(topic)
      /\ pi \in [Pubs -> Nat \ {0}] /\ pj \in [Pubs -> Nat \ {0}]
  BY DEF EntryInv, TypeOK, CallTypeOK
<1>b. Len(Batch[p]) \in Nat /\ DOMAIN Batch[p] = 1..Len(Batch[p])
  <2>1. Batch[p] \in Seq(Msgs)
    BY ChannelAssumption
  <2>. QED
    BY <2>1
<1>j. PICK j : j = pj[p]
  OBVIOUS
<1>n. PICK n : n = pi[p]
  OBVIOUS
<1>s. PICK s : s = topic[j]
  OBVIOUS
<1>m. PICK m : m = Batch[p][n]
  OBVIOUS
<1>1. ppc[p] = "send" /\ n \in DOMAIN Batch[p] /\ j \in DOMAIN topic /\ n \in Nat /\ j \in Nat
  <2>1. ppc[p] = "send" /\ pi[p] <= Len(Batch[p]) /\ topic # <<>>
    BY DEF PublishSend
  <2>2. pj[p] = 1 \/ pj[p] <= Len(topic)
    BY <2>1 DEF EntryInv, Walking
  <2>3. Len(topic) # 0
    BY <1>t, <2>1
  <2>. QED
    BY <1>b, <1>t, <1>j, <1>n, <2>1, <2>2, <2>3
<1>2. m \in Msgs
  BY <1>m, <1>n, SentMessage DEF PublishSend, EntryInv
<1>3. s \in Subs
  BY <1>t, <1>1, <1>s, ElementOfSeq
<1>4. ASSUME m \in offered[s] PROVE FALSE
  <2>1. \/ n < pi[p]
        \/ \E k \in DOMAIN topic : k < pj[p] /\ topic[k] = s
    BY <1>1, <1>3, <1>4, <1>m DEF PlaceInv, Offers
  <2>2. PICK k \in DOMAIN topic : k < j /\ topic[k] = s
    BY <1>1, <1>j, <1>n, <2>1
  <2>3. k = j
    BY <1>1, <1>s, <2>2 DEF EntryInv, Entries
  <2>. QED
    BY <1>1, <2>2, <2>3
<1>. QED
  BY <1>1, <1>2, <1>3, <1>4, <1>j, <1>n, <1>s, <1>m

LEMMA PlacePublish ==
  ASSUME PlaceInv, EntryInv, NEW p \in Pubs, Publish(p) PROVE PlaceInv'
<1>t. /\ topic \in Seq(Subs) /\ Len(topic) \in Nat /\ DOMAIN topic = 1..Len(topic)
      /\ ppc \in [Pubs -> {"idle", "timer", "send", "alter", "done"}]
      /\ pi \in [Pubs -> Nat \ {0}] /\ pj \in [Pubs -> Nat \ {0}]
      /\ raw \in [Subs -> Seq(Msgs)] /\ offered \in [Subs -> SUBSET Msgs]
  BY DEF EntryInv, TypeOK, CallTypeOK, QueueTypeOK, SetTypeOK
<1>b. /\ Len(Batch[p]) \in Nat /\ DOMAIN Batch[p] = 1..Len(Batch[p])
      /\ \A i, k \in DOMAIN Batch[p] : Batch[p][i] = Batch[p][k] => i = k
      /\ \A q \in Pubs : \A i \in DOMAIN Batch[p], k \in DOMAIN Batch[q] :
           Batch[p][i] = Batch[q][k] => p = q
  <2>1. Batch[p] \in Seq(Msgs)
    BY ChannelAssumption
  <2>. QED
    BY <2>1, ChannelAssumption
<1>1. CASE StageDelayed(p) \/ PublishGet(p)
  <2>1. /\ UNCHANGED <<topic, pi, pj, raw, fwd, out, held, nacked, resend, acked, offered>>
        /\ ppc[p] # "send" /\ \A q \in Pubs \ {p} : ppc'[q] = ppc[q]
    BY <1>1, <1>t DEF StageDelayed, PublishGet, lockVars, subVars, histVars
  <2>2. Offers'
    BY <2>1 DEF PlaceInv, Offers
  <2>. QED
    BY <2>1, <2>2, PlaceFrame
<1>2. CASE PublishDrop(p)
  <2>1. /\ UNCHANGED <<topic, pi, pj, raw, fwd, out, held, nacked, resend, acked, offered>>
        /\ pi[p] > Len(Batch[p]) \/ topic = <<>>
    BY <1>2 DEF PublishDrop, subVars, histVars
  <2>2. \A q \in Pubs \ {p} : ppc'[q] = ppc[q]
    BY <1>2, <1>t DEF PublishDrop
  <2>3. ASSUME NEW i \in DOMAIN Batch[p], i = pi[p], NEW k \in DOMAIN topic PROVE FALSE
    <3>1. i <= Len(Batch[p]) /\ i \in Nat
      BY <1>b
    <3>2. topic # <<>>
      BY <2>3
    <3>. QED
      BY <1>b, <2>1, <2>3, <3>1, <3>2
  <2>4. Offers'
    BY <2>1, <2>2, <2>3 DEF PlaceInv, Offers
  <2>. QED
    BY <2>1, <2>4, PlaceFrame
<1>3. CASE PublishAlter(p)
  <2>1. /\ UNCHANGED <<pi, pj, raw, fwd, out, held, nacked, resend, acked, offered>>
        /\ \A q \in Pubs : ppc'[q] = "send" => ppc[q] = "send"
        /\ readers = {}
    BY <1>3, <1>t DEF PublishAlter, subVars, histVars
  <2>2. \A q \in Pubs : ppc[q] # "send"
    BY <2>1 DEF EntryInv, Walking
  <2>3. Offers'
    BY <2>1, <2>2 DEF PlaceInv, Offers
  <2>. QED
    BY <2>1, <2>3, PlaceFrame
<1>4. CASE PublishSend(p)
  <2>j. PICK j : j = pj[p]
    OBVIOUS
  <2>n. PICK n : n = pi[p]
    OBVIOUS
  <2>s. PICK s : s = topic[j]
    OBVIOUS
  <2>m. PICK m : m = Batch[p][n]
    OBVIOUS
  <2>1. /\ ppc[p] = "send" /\ n \in DOMAIN Batch[p] /\ j \in DOMAIN topic
        /\ n \in Nat /\ j \in Nat
    BY <1>4, <2>j, <2>n, SendIsNew DEF PublishSend
  <2>2. s \in Subs /\ m \in Msgs
    BY <1>4, <2>j, <2>n, <2>s, <2>m, SendIsNew
  <2>3. /\ UNCHANGED <<topic, ppc, fwd, out, held, nacked, resend, acked>>
        /\ \A q \in Pubs \ {p} : pi'[q] = pi[q] /\ pj'[q] = pj[q]
    BY <1>4, <1>t DEF PublishSend, lockVars
  <2>4. \/ pi'[p] = n /\ pj'[p] = j + 1
        \/ pi'[p] = n + 1 /\ pj'[p] = 1
    BY <1>4, <1>t, <2>j, <2>n DEF PublishSend
  <2>5. \/ UNCHANGED <<raw, offered>>
        \/ /\ raw' = [raw EXCEPT ![s] = Append(@, m)]
           /\ offered' = [offered EXCEPT ![s] = @ \cup {m}]
    BY <1>4, <2>j, <2>n, <2>s, <2>m DEF PublishSend
  <2>6. m \notin offered[s]
    BY <1>4, <2>j, <2>n, <2>s, <2>m, SendIsNew
  <2>7. \A t \in Subs : \A x \in offered'[t] : x \in offered[t] \/ (t = s /\ x = m)
    BY <1>t, <2>2, <2>5
  <2>8. Offers'
    <3> SUFFICES ASSUME NEW t \in Subs, NEW x \in offered'[t], NEW q \in Pubs,
                        NEW i \in DOMAIN Batch[q], Batch[q][i] = x
                 PROVE  \/ i < pi'[q]
                        \/ /\ i = pi'[q] /\ ppc[q] = "send"
                           /\ \E k \in DOMAIN topic : k < pj'[q] /\ topic[k] = t
      BY <2>3 DEF Offers
    <3>1. CASE q # p
      <4>1. x \in offered[t]
        BY <1>b, <2>1, <2>7, <2>m, <3>1
      <4>. QED
        BY <2>3, <3>1, <4>1 DEF PlaceInv, Offers
    <3>2. CASE q = p
      <4>0. i \in Nat
        BY <1>b, <3>2
      <4>1. CASE x \in offered[t]
        <5>1. \/ i < n
              \/ i = n /\ \E k \in DOMAIN topic : k < j /\ topic[k] = t
          BY <2>j, <2>n, <3>2, <4>1 DEF PlaceInv, Offers
        <5>2. \A k \in DOMAIN topic : k < j => k < j + 1
          BY <1>t, <2>1
        <5>. QED
          BY <2>1, <2>4, <3>2, <4>0, <5>1, <5>2
      <4>2. CASE t = s /\ x = m
        <5>1. i = n
          BY <1>b, <2>1, <2>m, <3>2, <4>2
        <5>2. j < j + 1 /\ n < n + 1
          BY <2>1
        <5>. QED
          BY <2>1, <2>4, <2>s, <3>2, <4>2, <5>1, <5>2
      <4>. QED
        BY <2>7, <4>1, <4>2
    <3>. QED
      BY <3>1, <3>2
  <2>9. CASE UNCHANGED <<raw, offered>>
    BY <2>3, <2>8, <2>9, PlaceFrame
  <2>10. CASE /\ raw' = [raw EXCEPT ![s] = Append(@, m)]
              /\ offered' = [offered EXCEPT ![s] = @ \cup {m}]
    <3>1. /\ raw'[s] = Append(raw[s], m) /\ offered'[s] = offered[s] \cup {m}
          /\ \A t \in Subs \ {s} : raw'[t] = raw[t] /\ offered'[t] = offered[t]
          /\ raw[s] \in Seq(Msgs)
      BY <1>t, <2>2, <2>10
    <3>2. OneCopy(s) /\ Somewhere(s) \subseteq offered[s] /\ m \notin Somewhere(s)
      BY <2>2, <2>6 DEF PlaceInv
    <3>3. Range(raw'[s]) = Range(raw[s]) \cup {m}
      BY <2>2, <3>1, AppendFacts
    <3>4. /\ m \notin Range(raw[s]) /\ m \notin fwd[s] /\ m \notin Range(out[s])
          /\ m \notin held[s] /\ m \notin nacked[s] /\ m \notin resend[s] /\ m \notin acked[s]
      BY <3>2, SomewhereIs
    <3>5. Distinct(raw'[s])
      BY <2>2, <3>1, <3>2, <3>4, AppendDistinct DEF OneCopy
    <3>6. OneCopy(s)'
      BY <2>3, <3>2, <3>3, <3>4, <3>5 DEF OneCopy
    <3>7. Somewhere(s)' \subseteq offered'[s]
      <4>1. /\ fwd'[s] = fwd[s] /\ out'[s] = out[s] /\ held'[s] = held[s]
            /\ nacked'[s] = nacked[s] /\ resend'[s] = resend[s] /\ acked'[s] = acked[s]
        BY <2>3
      <4>2. Somewhere(s)' = Somewhere(s) \cup {m}
        BY <3>3, <4>1, SomewhereIs
      <4>. QED
        BY <3>1, <3>2, <4>2
    <3>8. ASSUME NEW t \in Subs \ {s} PROVE OneCopy(t)' /\ Somewhere(t)' \subseteq offered'[t]
      <4>1. OneCopy(t)'
        BY <2>3, <3>1 DEF PlaceInv, OneCopy
      <4>2. /\ raw'[t] = raw[t] /\ fwd'[t] = fwd[t] /\ out'[t] = out[t] /\ held'[t] = held[t]
            /\ nacked'[t] = nacked[t] /\ resend'[t] = resend[t] /\ acked'[t] = acked[t]
        BY <2>3, <3>1
      <4>3. Somewhere(t)' = Somewhere(t)
        BY <4>2, SomewhereSame
      <4>. QED
        BY <3>1, <4>1, <4>3 DEF PlaceInv
    <3>. QED
      BY <2>8, <3>6, <3>7, <3>8 DEF PlaceInv
  <2>. QED
    BY <2>5, <2>9, <2>10
<1>. QED
  BY <1>1, <1>2, <1>3, <1>4 DEF Publish

\* subscribe() and close() change the entry while nobody walks it.
LEMMA PlaceMap ==
  ASSUME PlaceInv, EntryInv, (\E s \in Subs : Subscribe(s)) \/ Close PROVE PlaceInv'
<1>1. UNCHANGED <<ppc, pi, pj, raw, fwd, out, held, nacked, resend, acked, offered>>
  BY DEF Subscribe, SubscribeCall, SubscribeEntry, Close, CloseCall, CloseClear, pubVars,
         subVars, histVars
<1>2. UNCHANGED topic \/ readers = {}
  BY DEF Subscribe, SubscribeCall, SubscribeEntry, Close, CloseCall, CloseClear, lockVars
<1>3. readers = {} => \A p \in Pubs : ppc[p] # "send"
  BY DEF EntryInv, Walking
<1>4. Offers'
  BY <1>1, <1>2, <1>3 DEF PlaceInv, Offers
<1>. QED
  BY <1>1, <1>4, PlaceFrame

LEMMA PlaceForward ==
  ASSUME PlaceInv, EntryInv, NEW s \in Subs, Forward(s) PROVE PlaceInv'
<1>t. /\ raw \in [Subs -> Seq(Msgs)] /\ out \in [Subs -> Seq(Msgs)]
      /\ fwd \in [Subs -> SUBSET Msgs]
  BY DEF EntryInv, TypeOK, QueueTypeOK, SetTypeOK
<1>0. UNCHANGED <<topic, ppc, pi, pj, offered, held, nacked, resend, acked>>
  BY DEF Forward, ForwardRecv, ForwardSend, ForwardEnd, lockVars, pubVars, histVars
<1>p. OneCopy(s)
  BY DEF PlaceInv
<1>1. \A t \in Subs \ {s} : raw'[t] = raw[t] /\ fwd'[t] = fwd[t] /\ out'[t] = out[t]
  BY <1>t DEF Forward, ForwardRecv, ForwardSend, ForwardEnd
<1>2. SUFFICES OneCopy(s)' /\ Somewhere(s)' \subseteq Somewhere(s)
  BY <1>0, <1>1, PlaceLocal
<1>3. CASE raw'[s] = <<>> /\ fwd'[s] \subseteq fwd[s] /\ out' = out
  <2>1. OneCopy(s)'
    BY <1>0, <1>p, <1>3, EmptyFacts, EmptyDistinct DEF OneCopy
  <2>. QED
    BY <1>0, <1>3, <2>1, EmptyFacts, SomewhereIs
<1>4. CASE ForwardRecv(s) /\ stream[s] # "dropped"
  <2>1. /\ raw[s] # <<>> /\ fwd[s] = {} /\ out' = out
        /\ raw'[s] = Tail(raw[s]) /\ fwd'[s] = {Head(raw[s])}
    BY <1>4, <1>t DEF ForwardRecv
  <2>2. Range(raw[s]) = {Head(raw[s])} \cup Range(raw'[s])
    BY <1>t, <2>1, TailFacts
  <2>3. Distinct(raw'[s]) /\ Head(raw[s]) \notin Range(raw'[s])
    BY <1>t, <1>p, <2>1, TailDistinct DEF OneCopy
  <2>4. OneCopy(s)'
    BY <1>0, <1>p, <2>1, <2>2, <2>3 DEF OneCopy
  <2>. QED
    BY <1>0, <2>1, <2>2, <2>4, SomewhereIs
<1>5. CASE ForwardSend(s) /\ stream[s] # "dropped"
  <2>1. PICK m \in fwd[s] : /\ out'[s] = Append(out[s], m) /\ fwd'[s] = {}
                            /\ raw' = raw /\ m \in Msgs
    BY <1>5, <1>t DEF ForwardSend
  <2>2. Range(out'[s]) = Range(out[s]) \cup {m}
    BY <1>t, <2>1, AppendFacts
  <2>3. Distinct(out'[s])
    BY <1>t, <1>p, <2>1, AppendDistinct DEF OneCopy
  <2>4. OneCopy(s)'
    BY <1>0, <1>p, <2>1, <2>2, <2>3 DEF OneCopy
  <2>5. /\ raw'[s] = raw[s] /\ held'[s] = held[s] /\ nacked'[s] = nacked[s]
        /\ resend'[s] = resend[s] /\ acked'[s] = acked[s]
        /\ Range(out'[s]) \subseteq Range(out[s]) \cup fwd[s] /\ fwd'[s] \subseteq fwd[s]
    BY <1>0, <2>1, <2>2
  <2>. QED
    BY <2>4, <2>5, SomewhereIs
<1>6. CASE ForwardRecv(s) /\ stream[s] = "dropped"
  BY <1>3, <1>6, <1>t DEF ForwardRecv
<1>7. CASE ForwardSend(s) /\ stream[s] = "dropped"
  BY <1>3, <1>7, <1>t DEF ForwardSend
<1>8. CASE ForwardEnd(s)
  BY <1>3, <1>8 DEF ForwardEnd
<1>. QED
  BY <1>4, <1>5, <1>6, <1>7, <1>8 DEF Forward

LEMMA PlaceVerdict ==
  ASSUME PlaceInv, EntryInv, NEW s \in Subs, NEW m \in Msgs,
         VerdictNack(s, m) \/ Resend(s, m)
  PROVE  PlaceInv'
<1>t. /\ raw \in [Subs -> Seq(Msgs)] /\ nacked \in [Subs -> SUBSET Msgs]
      /\ resend \in [Subs -> SUBSET Msgs]
  BY DEF EntryInv, TypeOK, QueueTypeOK, SetTypeOK
<1>0. UNCHANGED <<topic, ppc, pi, pj, offered, fwd, out, held, acked>>
  BY DEF VerdictNack, Resend, lockVars, pubVars, histVars
<1>p. OneCopy(s)
  BY DEF PlaceInv
<1>1. \A t \in Subs \ {s} : raw'[t] = raw[t] /\ nacked'[t] = nacked[t] /\ resend'[t] = resend[t]
  BY <1>t DEF VerdictNack, Resend
<1>2. SUFFICES OneCopy(s)' /\ Somewhere(s)' \subseteq Somewhere(s)
  BY <1>0, <1>1, PlaceLocal
<1>3. CASE VerdictNack(s, m)
  <2>1. /\ m \in nacked[s] /\ nacked'[s] = nacked[s] \ {m} /\ raw' = raw
        /\ resend'[s] = resend[s] \/ resend'[s] = resend[s] \cup {m}
    BY <1>3, <1>t DEF VerdictNack
  <2>2. OneCopy(s)'
    BY <1>0, <1>p, <2>1 DEF OneCopy
  <2>. QED
    BY <1>0, <2>1, <2>2, SomewhereIs
<1>4. CASE Resend(s, m)
  <2>1. /\ m \in resend[s] /\ resend'[s] = resend[s] \ {m} /\ nacked' = nacked
        /\ raw'[s] = raw[s] \/ raw'[s] = Append(raw[s], m)
    BY <1>4, <1>t DEF Resend
  <2>2. CASE raw'[s] = raw[s]
    <3>1. OneCopy(s)'
      BY <1>0, <1>p, <2>1, <2>2 DEF OneCopy
    <3>. QED
      BY <1>0, <2>1, <2>2, <3>1, SomewhereIs
  <2>3. CASE raw'[s] = Append(raw[s], m)
    <3>1. Range(raw'[s]) = Range(raw[s]) \cup {m}
      BY <1>t, <2>3, AppendFacts
    <3>2. Distinct(raw'[s])
      BY <1>t, <1>p, <2>1, <2>3, AppendDistinct DEF OneCopy
    <3>3. OneCopy(s)'
      BY <1>0, <1>p, <2>1, <3>1, <3>2 DEF OneCopy
    <3>. QED
      BY <1>0, <2>1, <3>1, <3>3, SomewhereIs
  <2>. QED
    BY <2>1, <2>2, <2>3
<1>. QED
  BY <1>3, <1>4

LEMMA PlaceConsume ==
  ASSUME PlaceInv, EntryInv, NEW s \in Subs, Consume(s) PROVE PlaceInv'
<1>t. /\ out \in [Subs -> Seq(Msgs)] /\ nacked \in [Subs -> SUBSET Msgs]
      /\ held \in [Subs -> SUBSET Msgs] /\ acked \in [Subs -> SUBSET Msgs]
  BY DEF EntryInv, TypeOK, QueueTypeOK, SetTypeOK
<1>0. UNCHANGED <<topic, ppc, pi, pj, offered, raw, fwd, resend>>
  BY DEF Consume, Take, Ack, Nack, DropStream, lockVars, pubVars, histVars
<1>p. OneCopy(s)
  BY DEF PlaceInv
<1>1. \A t \in Subs \ {s} : /\ out'[t] = out[t] /\ held'[t] = held[t]
                            /\ nacked'[t] = nacked[t] /\ acked'[t] = acked[t]
  BY <1>t DEF Consume, Take, Ack, Nack, DropStream
<1>2. SUFFICES OneCopy(s)' /\ Somewhere(s)' \subseteq Somewhere(s)
  BY <1>0, <1>1, PlaceLocal
<1>3. CASE Take(s)
  <2>1. /\ out[s] # <<>> /\ out'[s] = Tail(out[s]) /\ held'[s] = held[s] \cup {Head(out[s])}
        /\ UNCHANGED <<nacked, acked>>
    BY <1>3, <1>t DEF Take
  <2>2. Range(out[s]) = {Head(out[s])} \cup Range(out'[s])
    BY <1>t, <2>1, TailFacts
  <2>3. Distinct(out'[s]) /\ Head(out[s]) \notin Range(out'[s])
    BY <1>t, <1>p, <2>1, TailDistinct DEF OneCopy
  <2>4. OneCopy(s)'
    BY <1>0, <1>p, <2>1, <2>2, <2>3 DEF OneCopy
  <2>. QED
    BY <1>0, <2>1, <2>2, <2>4, SomewhereIs
<1>4. ASSUME NEW m \in Msgs, Ack(s, m) \/ Nack(s, m)
      PROVE  OneCopy(s)' /\ Somewhere(s)' \subseteq Somewhere(s)
  <2>1. /\ m \in held[s] /\ held'[s] = held[s] \ {m} /\ out' = out
        /\ \/ acked'[s] = acked[s] \cup {m} /\ nacked' = nacked
           \/ nacked'[s] = nacked[s] \cup {m} /\ acked' = acked
    BY <1>4, <1>t DEF Ack, Nack
  <2>2. OneCopy(s)'
    BY <1>0, <1>p, <2>1 DEF OneCopy
  <2>. QED
    BY <1>0, <2>1, <2>2, SomewhereIs
<1>5. CASE DropStream(s)
  <2>1. /\ nacked'[s] = nacked[s] \cup Range(out[s]) /\ out'[s] = <<>>
        /\ UNCHANGED <<held, acked>>
    BY <1>5, <1>t DEF DropStream
  <2>2. OneCopy(s)'
    BY <1>0, <1>p, <2>1, EmptyFacts, EmptyDistinct DEF OneCopy
  <2>. QED
    BY <1>0, <2>1, <2>2, EmptyFacts, SomewhereIs
<1>. QED
  BY <1>3, <1>4, <1>5 DEF Consume

LEMMA PlaceStep ==
  ASSUME PlaceInv, EntryInv, [Next]_vars PROVE PlaceInv'
<1>1. CASE UNCHANGED vars
  <2>1. /\ UNCHANGED <<raw, fwd, out, held, nacked, resend, acked, offered>>
        /\ UNCHANGED <<topic, ppc, pi, pj>>
    BY <1>1 DEF vars, lockVars, pubVars, subVars, histVars
  <2>2. Offers'
    BY <2>1 DEF PlaceInv, Offers
  <2>. QED
    BY <2>1, <2>2, PlaceFrame
<1>. QED
  BY <1>1, PlacePublish, PlaceMap, PlaceForward, PlaceVerdict, PlaceConsume
     DEF Next, Done, Verdict

\* The seven places of a stream, pair by pair.
LEMMA PairsOfPlaces ==
  ASSUME NEW s, OneCopy(s)
  PROVE  \A i, k \in DOMAIN Places(s) : i # k => Places(s)[i] \cap Places(s)[k] = {}
<1>1. /\ DOMAIN Places(s) = {1, 2, 3, 4, 5, 6, 7}
      /\ Places(s)[1] = Range(raw[s]) /\ Places(s)[2] = fwd[s]
      /\ Places(s)[3] = Range(out[s]) /\ Places(s)[4] = held[s]
      /\ Places(s)[5] = nacked[s] /\ Places(s)[6] = resend[s] /\ Places(s)[7] = acked[s]
  <2>1. DOMAIN Places(s) = 1..7
    BY DEF Places
  <2>2. 1..7 = {1, 2, 3, 4, 5, 6, 7}
    OBVIOUS
  <2>. QED
    BY <2>1, <2>2 DEF Places
<1>2. ASSUME NEW i \in DOMAIN Places(s), NEW k \in DOMAIN Places(s), i < k
      PROVE  Places(s)[i] \cap Places(s)[k] = {}
  <2>1. CASE i = 1
    BY <1>1, <1>2, <2>1 DEF OneCopy
  <2>2. CASE i = 2
    BY <1>1, <1>2, <2>2 DEF OneCopy
  <2>3. CASE i = 3
    BY <1>1, <1>2, <2>3 DEF OneCopy
  <2>4. CASE i = 4
    BY <1>1, <1>2, <2>4 DEF OneCopy
  <2>5. CASE i = 5
    BY <1>1, <1>2, <2>5 DEF OneCopy
  <2>6. CASE i = 6
    BY <1>1, <1>2, <2>6 DEF OneCopy
  <2>. QED
    BY <1>1, <1>2, <2>1, <2>2, <2>3, <2>4, <2>5, <2>6
<1>3. ASSUME NEW i \in DOMAIN Places(s), NEW k \in DOMAIN Places(s), i # k
      PROVE  i < k \/ k < i
  BY <1>1, <1>3
<1>. QED
  BY <1>2, <1>3

\* Whatever publishers, forwarders, verdict tasks and consumers do, and however often
\* a message is nacked, each stream has at most one copy of it.
THEOREM OneCopyPerStream == Spec => []OnePlace
<1>1. Init => EntryInv /\ PlaceInv
  BY EntryInit, PlaceInit
<1>2. EntryInv /\ PlaceInv /\ [Next]_vars => (EntryInv /\ PlaceInv)'
  BY EntryStep, PlaceStep
<1>3. PlaceInv => OnePlace
  <2> SUFFICES ASSUME PlaceInv, NEW s \in Subs
               PROVE  /\ IsInjective(raw[s]) /\ IsInjective(out[s])
                      /\ \A i, k \in DOMAIN Places(s) :
                           i # k => Places(s)[i] \cap Places(s)[k] = {}
    BY DEF OnePlace
  <2>1. OneCopy(s)
    BY DEF PlaceInv
  <2>. QED
    BY <2>1, PairsOfPlaces DEF OneCopy, Distinct, IsInjective
<1>. QED
  BY <1>1, <1>2, <1>3, PTL DEF Spec

-----------------------------------------------------------------------------
(* A batch is first seen in its order.                                     *)

Precedes(q, a, b) == \E x, y \in DOMAIN q : x < y /\ q[x] = a /\ q[y] = b

LEMMA AppendPrecedes ==
  ASSUME NEW S, NEW q \in Seq(S), NEW e \in S
  PROVE  /\ \A a, b : Precedes(q, a, b) => Precedes(Append(q, e), a, b)
         /\ \A a \in Range(q) : Precedes(Append(q, e), a, e)
<1>1. /\ Len(q) \in Nat /\ DOMAIN q = 1..Len(q)
      /\ DOMAIN Append(q, e) = 1..(Len(q) + 1)
      /\ \A i \in 1..Len(q) : Append(q, e)[i] = q[i]
      /\ Append(q, e)[Len(q) + 1] = e
  OBVIOUS
<1>2. \A i \in 1..Len(q) : i \in 1..(Len(q) + 1) /\ i < Len(q) + 1
  BY <1>1
<1>3. Len(q) + 1 \in 1..(Len(q) + 1)
  BY <1>1
<1>4. \A a, b : Precedes(q, a, b) => Precedes(Append(q, e), a, b)
  BY <1>1, <1>2 DEF Precedes
<1>5. \A a \in Range(q) : Precedes(Append(q, e), a, e)
  BY <1>1, <1>2, <1>3 DEF Precedes, Range
<1>. QED
  BY <1>4, <1>5

LEMMA TailPrecedes ==
  ASSUME NEW S, NEW q \in Seq(S), q # <<>>, NEW a, NEW b, Precedes(q, a, b)
  PROVE  /\ a \in Range(q) /\ b \in Range(Tail(q))
         /\ a = Head(q) \/ Precedes(Tail(q), a, b)
<1>1. /\ Len(q) \in Nat \ {0} /\ Head(q) = q[1]
      /\ DOMAIN q = 1..Len(q) /\ DOMAIN Tail(q) = 1..(Len(q) - 1)
      /\ \A i \in 1..(Len(q) - 1) : Tail(q)[i] = q[i + 1]
  OBVIOUS
<1>2. PICK x, y \in DOMAIN q : x < y /\ q[x] = a /\ q[y] = b
  BY DEF Precedes
<1>3. y - 1 \in DOMAIN Tail(q) /\ Tail(q)[y - 1] = b
  BY <1>1, <1>2
<1>4. a \in Range(q) /\ b \in Range(Tail(q))
  BY <1>2, <1>3 DEF Range
<1>5. ASSUME x # 1 PROVE Precedes(Tail(q), a, b)
  <2>1. x - 1 \in DOMAIN Tail(q) /\ Tail(q)[x - 1] = a /\ x - 1 < y - 1
    BY <1>1, <1>2, <1>5
  <2>. QED
    BY <1>3, <2>1 DEF Precedes
<1>. QED
  BY <1>1, <1>2, <1>4, <1>5

\* The messages on their way to the consumer of s for the first time stand in one line:
\* out, then the forwarder's, then raw.
Behind(s, a, b) ==
  \/ a \in Range(out[s]) /\ (b \in fwd[s] \/ b \in Range(raw[s]))
  \/ a \in fwd[s] /\ b \in Range(raw[s])
  \/ Precedes(out[s], a, b) \/ Precedes(raw[s], a, b)

\* What an open stream was offered was seen or is in the line, and what is with the
\* consumer or on its way back was seen.
Lined(s) ==
  /\ offered[s] \subseteq seen[s] \cup Range(raw[s]) \cup fwd[s] \cup Range(out[s])
  /\ held[s] \cup nacked[s] \cup resend[s] \subseteq seen[s]

\* Of two messages of a batch the later one is seen, and in the line, after the earlier.
Ordered(s) ==
  \A p \in Pubs : \A i, k \in DOMAIN Batch[p] :
    i < k /\ Batch[p][k] \in offered[s] =>
      \/ Batch[p][i] \in seen[s]
      \/ Batch[p][k] \notin seen[s] /\ Behind(s, Batch[p][i], Batch[p][k])

OrderInv ==
  /\ BatchOrder
  /\ \A s \in Subs : /\ seen[s] \subseteq offered[s]
                     /\ stream[s] = "open" => Lined(s) /\ Ordered(s)

LEMMA OrderInit == ASSUME Init PROVE OrderInv
BY DEF Init, InitWith, OrderInv, BatchOrder

LEMMA OrderFrame ==
  ASSUME OrderInv, UNCHANGED <<raw, fwd, out, held, nacked, resend, offered, seen>>,
         \A s \in Subs : stream'[s] = "open" => stream[s] = "open"
  PROVE  OrderInv'
BY DEF OrderInv, BatchOrder, Lined, Ordered, Behind, Precedes

\* A step of stream s.
LEMMA OrderLocal ==
  ASSUME OrderInv, NEW s \in Subs,
         \A t \in Subs \ {s} :
           /\ stream'[t] = stream[t] /\ raw'[t] = raw[t] /\ fwd'[t] = fwd[t]
           /\ out'[t] = out[t] /\ held'[t] = held[t] /\ nacked'[t] = nacked[t]
           /\ resend'[t] = resend[t] /\ offered'[t] = offered[t] /\ seen'[t] = seen[t],
         seen'[s] \subseteq offered'[s],
         seen'[s] = seen[s] \/ Ordered(s)',
         seen[s] \subseteq seen'[s],
         stream'[s] = "open" => Lined(s)' /\ Ordered(s)'
  PROVE  OrderInv'
<1>1. ASSUME NEW t \in Subs \ {s}
      PROVE  /\ seen'[t] \subseteq offered'[t]
             /\ stream'[t] = "open" => Lined(t)' /\ Ordered(t)'
  BY DEF OrderInv, Lined, Ordered, Behind, Precedes
<1>2. ASSUME NEW t \in Subs, NEW p \in Pubs, NEW k \in DOMAIN Batch[p],
             Batch[p][k] \in seen'[t], NEW i \in 1..k
      PROVE  Batch[p][i] \in seen'[t]
  <2>1. CASE seen'[t] = seen[t]
    BY <1>2, <2>1 DEF OrderInv, BatchOrder
  <2>2. CASE seen'[t] # seen[t]
    <3>1. t = s /\ Ordered(s)' /\ Batch[p][k] \in offered'[s]
      BY <1>2, <2>2
    <3>2. /\ k \in Nat /\ i \in Nat /\ i <= k /\ i \in DOMAIN Batch[p]
      <4>1. DOMAIN Batch[p] = 1..Len(Batch[p]) /\ Len(Batch[p]) \in Nat
        BY BatchFacts
      <4>. QED
        BY <1>2, <4>1
    <3>3. CASE i = k
      BY <1>2, <3>3
    <3>4. CASE i < k
      BY <1>2, <3>1, <3>2, <3>4 DEF Ordered
    <3>. QED
      BY <3>2, <3>3, <3>4
  <2>. QED
    BY <2>1, <2>2
<1>. QED
  BY <1>1, <1>2 DEF OrderInv, BatchOrder

\* What an open stream was offered of a batch when the next message reaches it.
LEMMA OrderSend ==
  ASSUME OrderInv, PlaceInv, ReachInv, NEW p \in Pubs, PublishSend(p) PROVE OrderInv'
<1>s. PICK s : s = topic[pj[p]]
  OBVIOUS
<1>n. PICK n : n = pi[p]
  OBVIOUS
<1>m. PICK m : m = Batch[p][n]
  OBVIOUS
<1>e. EntryInv
  BY DEF ReachInv
<1>1. s \in Subs /\ m \in Msgs /\ m \notin offered[s] /\ n \in DOMAIN Batch[p] /\ n \in Nat
  BY <1>e, <1>s, <1>n, <1>m, SendIsNew
<1>2. UNCHANGED <<stream, fwd, out, held, nacked, resend, seen>>
  BY DEF PublishSend
<1>3. \/ UNCHANGED <<raw, offered>>
      \/ /\ raw' = [raw EXCEPT ![s] = Append(raw[s], m)]
         /\ offered' = [offered EXCEPT ![s] = offered[s] \cup {m}]
  BY <1>s, <1>n, <1>m DEF PublishSend
<1>4. CASE UNCHANGED <<raw, offered>>
  BY <1>2, <1>4, OrderFrame
<1>5. CASE /\ raw' = [raw EXCEPT ![s] = Append(raw[s], m)]
           /\ offered' = [offered EXCEPT ![s] = offered[s] \cup {m}]
  <2>t. raw \in [Subs -> Seq(Msgs)] /\ offered \in [Subs -> SUBSET Msgs]
    BY <1>e DEF EntryInv, TypeOK, QueueTypeOK, SetTypeOK
  <2>1. /\ raw'[s] = Append(raw[s], m) /\ offered'[s] = offered[s] \cup {m}
        /\ raw[s] \in Seq(Msgs)
        /\ \A t \in Subs \ {s} : raw'[t] = raw[t] /\ offered'[t] = offered[t]
    BY <1>1, <1>5, <2>t
  <2>2. Range(raw'[s]) = Range(raw[s]) \cup {m}
    BY <1>1, <2>1, AppendFacts
  <2>3. seen'[s] \subseteq offered'[s] /\ seen'[s] = seen[s]
    BY <1>1, <1>2, <2>1 DEF OrderInv
  <2>4. ASSUME stream[s] = "open" PROVE Lined(s)' /\ Ordered(s)'
    <3>l. Lined(s) /\ Ordered(s) /\ m \notin seen[s]
      BY <1>1, <2>4 DEF OrderInv
    <3>1. Lined(s)'
      BY <1>2, <2>1, <2>2, <3>l DEF Lined
    <3>2. \A i \in DOMAIN Batch[p] : i < n => Batch[p][i] \in offered[s]
      <4>1. pj[p] \in DOMAIN topic /\ pj[p] \in Nat /\ ppc[p] = "send"
        BY <1>e, SendIsNew DEF PublishSend
      <4>2. fpc[s] = "on"
        <5>1. s \in Range(topic)
          BY <1>s, <4>1 DEF Range
        <5>2. known
          BY <1>e, <5>1 DEF EntryInv, Entries
        <5>. QED
          BY <1>e, <1>1, <2>4, <5>1, <5>2 DEF EntryInv, Entries, Registered
      <4>3. offered[s] \cap Range(Batch[p]) = First(p, IF pj[p] < pj[p] THEN pi[p] ELSE pi[p] - 1)
        BY <1>1, <1>s, <4>1, <4>2 DEF ReachInv, Reached
      <4>4. First(p, n - 1) \subseteq offered[s]
        BY <1>n, <4>1, <4>3
      <4>5. \A i \in DOMAIN Batch[p] : i < n => i \in 1..(n - 1)
        <5>1. DOMAIN Batch[p] = 1..Len(Batch[p]) /\ Len(Batch[p]) \in Nat
          BY BatchFacts
        <5>. QED
          BY <1>1, <5>1
      <4>. QED
        BY <4>4, <4>5 DEF First
    <3>3. \A a, b : Behind(s, a, b) => Behind(s, a, b)'
      BY <1>1, <1>2, <2>1, <2>2, AppendPrecedes DEF Behind
    <3>4. ASSUME NEW a \in Range(raw[s]) \cup fwd[s] \cup Range(out[s])
          PROVE  Behind(s, a, m)'
      <4>1. CASE a \in Range(raw[s])
        <5>1. Precedes(raw'[s], a, m)
          BY <1>1, <2>1, <4>1, AppendPrecedes
        <5>. QED
          BY <5>1 DEF Behind
      <4>2. CASE a \in fwd[s] \cup Range(out[s])
        BY <1>2, <2>2, <4>2 DEF Behind
      <4>. QED
        BY <3>4, <4>1, <4>2
    <3>5. ASSUME NEW q \in Pubs, NEW i \in DOMAIN Batch[q], NEW k \in DOMAIN Batch[q], i < k,
                 Batch[q][k] \in offered'[s]
          PROVE  \/ Batch[q][i] \in seen'[s]
                 \/ Batch[q][k] \notin seen'[s] /\ Behind(s, Batch[q][i], Batch[q][k])'
      <4>1. CASE Batch[q][k] \in offered[s]
        BY <1>2, <3>3, <3>5, <3>l, <4>1 DEF Ordered
      <4>2. CASE Batch[q][k] = m
        <5>1. q = p /\ k = n
          BY <1>1, <1>m, <4>2, ChannelAssumption
        <5>2. Batch[q][i] \in offered[s]
          BY <3>2, <3>5, <5>1
        <5>3. CASE Batch[q][i] \in seen[s]
          BY <1>2, <5>3
        <5>4. CASE Batch[q][i] \notin seen[s]
          <6>1. Batch[q][i] \in Range(raw[s]) \cup fwd[s] \cup Range(out[s])
            BY <3>l, <5>2, <5>4 DEF Lined
          <6>. QED
            BY <1>2, <3>4, <3>l, <4>2, <6>1
        <5>. QED
          BY <5>3, <5>4
      <4>. QED
        BY <2>1, <3>5, <4>1, <4>2
    <3>6. Ordered(s)'
      BY <3>5 DEF Ordered
    <3>. QED
      BY <3>1, <3>6
  <2>. QED
    BY <1>1, <1>2, <2>1, <2>3, <2>4, OrderLocal
<1>. QED
  BY <1>3, <1>4, <1>5

LEMMA OrderPublish ==
  ASSUME OrderInv, PlaceInv, ReachInv, NEW p \in Pubs, Publish(p) PROVE OrderInv'
<1>1. ASSUME ~PublishSend(p)
      PROVE  UNCHANGED <<stream, raw, fwd, out, held, nacked, resend, offered, seen>>
  BY <1>1 DEF Publish, StageDelayed, PublishGet, PublishDrop, PublishAlter, subVars, histVars
<1>. QED
  BY <1>1, OrderSend, OrderFrame

\* A stream opens with nothing offered and nothing in its queues.
LEMMA OrderMap ==
  ASSUME OrderInv, PlaceInv, EntryInv, (\E s \in Subs : Subscribe(s)) \/ Close
  PROVE  OrderInv'
<1>t. stream \in [Subs -> {"absent", "locking", "open", "dropped"}]
  BY DEF EntryInv, TypeOK, CallTypeOK
<1>0. UNCHANGED <<raw, fwd, out, held, nacked, resend, offered, seen>>
  BY DEF Subscribe, SubscribeCall, SubscribeEntry, Close, CloseCall, CloseClear, subVars,
         histVars
<1>1. ASSUME NEW s \in Subs, SubscribeEntry(s) PROVE OrderInv'
  <2>1. stream[s] = "locking" /\ \A t \in Subs \ {s} : stream'[t] = stream[t]
    BY <1>1, <1>t DEF SubscribeEntry
  <2>2. offered[s] = {} /\ seen[s] = {}
    BY <2>1 DEF EntryInv, Entries, OrderInv
  <2>3. held[s] = {} /\ nacked[s] = {} /\ resend[s] = {}
    <3>1. Somewhere(s) = {}
      BY <2>2 DEF PlaceInv
    <3>. QED
      BY <3>1, SomewhereIs
  <2>4. Lined(s)' /\ Ordered(s)'
    BY <1>0, <2>2, <2>3 DEF Lined, Ordered
  <2>. QED
    BY <1>0, <2>1, <2>2, <2>4, OrderLocal
<1>2. ASSUME NEW s \in Subs, SubscribeCall(s)
      PROVE  \A t \in Subs : stream'[t] = "open" => stream[t] = "open"
  BY <1>2, <1>t DEF SubscribeCall
<1>3. Close => stream' = stream
  BY DEF Close, CloseCall, CloseClear, subVars
<1>. QED
  BY <1>0, <1>1, <1>2, <1>3, OrderFrame DEF Subscribe

\* Precedence in the line survives a step of the forwarder and a retry.
LEMMA OrderForward ==
  ASSUME OrderInv, PlaceInv, EntryInv, OneForwarded, NEW s \in Subs, Forward(s)
  PROVE  OrderInv'
<1>t. /\ raw \in [Subs -> Seq(Msgs)] /\ out \in [Subs -> Seq(Msgs)]
      /\ fwd \in [Subs -> SUBSET Msgs]
  BY DEF EntryInv, TypeOK, QueueTypeOK, SetTypeOK
<1>0. UNCHANGED <<stream, held, nacked, resend, offered, seen>>
  BY DEF Forward, ForwardRecv, ForwardSend, ForwardEnd, histVars
<1>1. \A t \in Subs \ {s} : raw'[t] = raw[t] /\ fwd'[t] = fwd[t] /\ out'[t] = out[t]
  BY <1>t DEF Forward, ForwardRecv, ForwardSend, ForwardEnd
<1>2. ASSUME stream[s] = "open" PROVE Lined(s)' /\ \A a, b : Behind(s, a, b) => Behind(s, a, b)'
  <2>l. Lined(s)
    BY <1>2 DEF OrderInv
  <2>1. CASE ForwardRecv(s)
    <3>1. /\ raw[s] # <<>> /\ fwd[s] = {} /\ out'[s] = out[s] /\ raw[s] \in Seq(Msgs)
          /\ raw'[s] = Tail(raw[s]) /\ fwd'[s] = {Head(raw[s])}
      BY <1>2, <1>t, <2>1 DEF ForwardRecv
    <3>2. Range(raw[s]) = {Head(raw[s])} \cup Range(raw'[s])
      BY <3>1, TailFacts
    <3>3. \A a, b : Precedes(raw[s], a, b) =>
            b \in Range(raw'[s]) /\ (a = Head(raw[s]) \/ Precedes(raw'[s], a, b))
      BY <3>1, TailPrecedes
    <3>4. Lined(s)'
      BY <1>0, <2>l, <3>1, <3>2 DEF Lined
    <3>5. \A a, b : Behind(s, a, b) => Behind(s, a, b)'
      BY <3>1, <3>2, <3>3 DEF Behind
    <3>. QED
      BY <3>4, <3>5
  <2>2. CASE ForwardSend(s)
    <3>1. PICK m \in fwd[s] : /\ out'[s] = Append(out[s], m) /\ fwd'[s] = {}
                              /\ raw' = raw /\ m \in Msgs
      BY <1>2, <1>t, <2>2 DEF ForwardSend
    <3>2. fwd[s] = {m}
      BY <3>1 DEF OneForwarded
    <3>3. out[s] \in Seq(Msgs)
      BY <1>t
    <3>4. Range(out'[s]) = Range(out[s]) \cup {m}
      BY <3>1, <3>3, AppendFacts
    <3>5. /\ \A a, b : Precedes(out[s], a, b) => Precedes(out'[s], a, b)
          /\ \A a \in Range(out[s]) : Precedes(out'[s], a, m)
      BY <3>1, <3>3, AppendPrecedes
    <3>6. Lined(s)'
      BY <1>0, <2>l, <3>1, <3>2, <3>4 DEF Lined
    <3>7. \A a, b : Behind(s, a, b) => Behind(s, a, b)'
      BY <3>1, <3>2, <3>4, <3>5 DEF Behind
    <3>. QED
      BY <3>6, <3>7
  <2>3. CASE ForwardEnd(s)
    <3>1. UNCHANGED <<raw, fwd, out>>
      BY <2>3 DEF ForwardEnd
    <3>. QED
      BY <1>0, <2>l, <3>1 DEF Lined, Behind, Precedes
  <2>. QED
    BY <2>1, <2>2, <2>3 DEF Forward
<1>3. ASSUME stream[s] = "open" PROVE Ordered(s)'
  BY <1>0, <1>2, <1>3 DEF OrderInv, Ordered
<1>. QED
  BY <1>0, <1>1, <1>2, <1>3, OrderLocal DEF OrderInv

\* What a verdict task sends again was seen before.
LEMMA OrderVerdict ==
  ASSUME OrderInv, EntryInv, NEW s \in Subs, NEW m \in Msgs,
         VerdictNack(s, m) \/ Resend(s, m)
  PROVE  OrderInv'
<1>t. /\ raw \in [Subs -> Seq(Msgs)] /\ nacked \in [Subs -> SUBSET Msgs]
      /\ resend \in [Subs -> SUBSET Msgs]
  BY DEF EntryInv, TypeOK, QueueTypeOK, SetTypeOK
<1>0. UNCHANGED <<stream, fwd, out, held, offered, seen>>
  BY DEF VerdictNack, Resend, histVars
<1>1. \A t \in Subs \ {s} : raw'[t] = raw[t] /\ nacked'[t] = nacked[t] /\ resend'[t] = resend[t]
  BY <1>t DEF VerdictNack, Resend
<1>2. nacked'[s] \cup resend'[s] \subseteq nacked[s] \cup resend[s]
  BY <1>t DEF VerdictNack, Resend
<1>3. raw'[s] = raw[s] \/ raw'[s] = Append(raw[s], m)
  BY <1>t DEF VerdictNack, Resend
<1>4. /\ Range(raw[s]) \subseteq Range(raw'[s])
      /\ \A a, b : Precedes(raw[s], a, b) => Precedes(raw'[s], a, b)
  <2>1. raw[s] \in Seq(Msgs)
    BY <1>t
  <2>2. /\ Range(Append(raw[s], m)) = Range(raw[s]) \cup {m}
        /\ \A a, b : Precedes(raw[s], a, b) => Precedes(Append(raw[s], m), a, b)
    BY <2>1, AppendFacts, AppendPrecedes
  <2>. QED
    BY <1>3, <2>2
<1>5. \A a, b : Behind(s, a, b) => Behind(s, a, b)'
  BY <1>0, <1>4 DEF Behind
<1>6. ASSUME stream[s] = "open" PROVE Lined(s)' /\ Ordered(s)'
  <2>1. Lined(s)'
    BY <1>0, <1>2, <1>4, <1>6 DEF OrderInv, Lined
  <2>2. Ordered(s)'
    BY <1>0, <1>5, <1>6 DEF OrderInv, Ordered
  <2>. QED
    BY <2>1, <2>2
<1>. QED
  BY <1>0, <1>1, <1>6, OrderLocal DEF OrderInv

\* The consumer takes the first of the line, and nothing was behind it.
LEMMA OrderConsume ==
  ASSUME OrderInv, PlaceInv, EntryInv, NEW s \in Subs, Consume(s) PROVE OrderInv'
<1>t. /\ out \in [Subs -> Seq(Msgs)] /\ nacked \in [Subs -> SUBSET Msgs]
      /\ held \in [Subs -> SUBSET Msgs] /\ seen \in [Subs -> SUBSET Msgs]
      /\ stream \in [Subs -> {"absent", "locking", "open", "dropped"}]
  BY DEF EntryInv, TypeOK, QueueTypeOK, SetTypeOK, CallTypeOK
<1>0. UNCHANGED <<raw, fwd, resend, offered>>
  BY DEF Consume, Take, Ack, Nack, DropStream, histVars
<1>1. \A t \in Subs \ {s} : /\ out'[t] = out[t] /\ nacked'[t] = nacked[t] /\ held'[t] = held[t]
                            /\ seen'[t] = seen[t] /\ stream'[t] = stream[t]
  BY <1>t DEF Consume, Take, Ack, Nack, DropStream, histVars
<1>2. CASE Take(s)
  <2>h. PICK h : h = Head(out[s])
    OBVIOUS
  <2>1. /\ out[s] # <<>> /\ out[s] \in Seq(Msgs) /\ out'[s] = Tail(out[s])
        /\ held'[s] = held[s] \cup {h} /\ seen'[s] = seen[s] \cup {h}
        /\ stream[s] = "open" /\ UNCHANGED <<stream, nacked>>
    BY <1>2, <1>t, <2>h DEF Take
  <2>2. Range(out[s]) = {h} \cup Range(out'[s])
    BY <2>1, <2>h, TailFacts
  <2>3. OneCopy(s) /\ Lined(s) /\ Ordered(s) /\ seen[s] \subseteq offered[s]
    BY <2>1 DEF OrderInv, PlaceInv
  <2>4. h \notin Range(out'[s]) /\ h \notin fwd[s] /\ h \notin Range(raw[s])
    BY <2>1, <2>2, <2>3, <2>h, TailDistinct DEF OneCopy
  <2>5. \A a, b : Precedes(out[s], a, b) =>
          b \in Range(out'[s]) /\ (a = h \/ Precedes(out'[s], a, b))
    BY <2>1, <2>h, TailPrecedes
  <2>6. \A a, b : Precedes(raw[s], a, b) => b \in Range(raw[s])
    BY DEF Precedes, Range
  <2>7. \A a, b : a # h /\ Behind(s, a, b) => b # h /\ Behind(s, a, b)'
    BY <1>0, <2>2, <2>4, <2>5, <2>6 DEF Behind
  <2>8. Lined(s)'
    BY <1>0, <2>1, <2>2, <2>3 DEF Lined
  <2>9. Ordered(s)'
    BY <1>0, <2>1, <2>3, <2>7 DEF Ordered
  <2>10. seen'[s] \subseteq offered'[s]
    <3>1. h \in offered[s]
      BY <2>2, SomewhereIs DEF PlaceInv
    <3>. QED
      BY <1>0, <2>1, <2>3, <3>1
  <2>. QED
    BY <1>0, <1>1, <2>1, <2>8, <2>9, <2>10, OrderLocal
<1>3. ASSUME NEW m \in Msgs, Ack(s, m) \/ Nack(s, m) PROVE OrderInv'
  <2>1. /\ m \in held[s] /\ held'[s] \subseteq held[s] /\ nacked'[s] \subseteq nacked[s] \cup {m}
        /\ UNCHANGED <<out, stream, seen>>
    BY <1>3, <1>t DEF Ack, Nack, histVars
  <2>2. ASSUME stream[s] = "open" PROVE Lined(s)' /\ Ordered(s)'
    <3>1. Lined(s)'
      BY <1>0, <2>1, <2>2 DEF OrderInv, Lined
    <3>2. Ordered(s)'
      BY <1>0, <2>1, <2>2 DEF OrderInv, Ordered, Behind, Precedes
    <3>. QED
      BY <3>1, <3>2
  <2>. QED
    BY <1>0, <1>1, <2>1, <2>2, OrderLocal DEF OrderInv
<1>4. CASE DropStream(s)
  <2>1. stream'[s] = "dropped" /\ seen' = seen
    BY <1>4, <1>t DEF DropStream, histVars
  <2>. QED
    BY <1>0, <1>1, <2>1, OrderLocal DEF OrderInv
<1>. QED
  BY <1>2, <1>3, <1>4 DEF Consume

LEMMA OrderStep ==
  ASSUME OrderInv, PlaceInv, ReachInv, OneForwarded, [Next]_vars PROVE OrderInv'
<1>1. CASE UNCHANGED vars
  <2>1. UNCHANGED <<stream, raw, fwd, out, held, nacked, resend, offered, seen>>
    BY <1>1 DEF vars, subVars, histVars
  <2>. QED
    BY <2>1, OrderFrame
<1>. QED
  BY <1>1, OrderPublish, OrderMap, OrderForward, OrderVerdict, OrderConsume
     DEF Next, Done, Verdict, ReachInv

\* A consumer first sees the messages of one publish() call in the order of its batch,
\* as the raw queue, the forwarder and the stream keep it and a retry only moves what
\* was seen before.
THEOREM BatchesKeepOrder == Spec => []BatchOrder
<1>1. Init => OrderInv /\ PlaceInv /\ ReachInv /\ OneForwarded
  BY OrderInit, PlaceInit, ReachInit DEF Init, InitWith, OneForwarded
<1>2. OrderInv /\ PlaceInv /\ ReachInv /\ OneForwarded /\ [Next]_vars
        => (OrderInv /\ PlaceInv /\ ReachInv /\ OneForwarded)'
  BY OrderStep, PlaceStep, ReachStep, OneForwardedStep DEF ReachInv
<1>3. OrderInv => BatchOrder
  BY DEF OrderInv
<1>. QED
  BY <1>1, <1>2, <1>3, PTL DEF Spec

-----------------------------------------------------------------------------
(* The backend keeps the promise of LeasedDelivery.                        *)

\* What Delivery sees of a stream, and of the streams as a whole.
Ready(s) == Range(raw[s]) \cup fwd[s] \cup Range(out[s]) \cup nacked[s] \cup resend[s]

Waiting == [s \in Subs |-> Ready(s)]

Ended == {s \in Subs : stream[s] = "dropped" \/ (stream[s] = "open" /\ ~Registered(s))}

AbstractStep == [Delivery!Next]_(Delivery!vars)

\* A step that moves no message, whatever streams it ends.
LEMMA NothingMoves ==
  ASSUME \A s \in Subs : Ready(s)' = Ready(s), held' = held, acked' = acked,
         Ended \subseteq Ended'
  PROVE  AbstractStep
<1>1. Waiting' = Waiting
  BY DEF Waiting
<1>2. PICK E : E = Ended'
  OBVIOUS
<1>3. E \in SUBSET Subs /\ Ended' = Ended \cup E
  BY <1>2 DEF Ended
<1>4. Delivery!End(E)
  BY <1>1, <1>3 DEF Delivery!End, Waiting, Ready, Ended
<1>. QED
  BY <1>3, <1>4 DEF AbstractStep, Delivery!Next

\* The steps of one message of one stream.
LEMMA Accepted ==
  ASSUME NEW s \in Subs, NEW m \in Msgs, \A t \in Subs \ {s} : Ready(t)' = Ready(t),
         Ended' = Ended, held' = held, acked' = acked, m \notin Somewhere(s),
         Ready(s)' = Ready(s) \cup {m}
  PROVE  AbstractStep
<1>1. Waiting' = [Waiting EXCEPT ![s] = @ \cup {m}]
  BY DEF Waiting
<1>2. m \notin Waiting[s] \cup held[s] \cup acked[s]
  BY SomewhereIs DEF Waiting, Ready
<1>3. Delivery!Accept(s, m)
  BY <1>1, <1>2 DEF Delivery!Accept, Waiting, Ready, Ended
<1>. QED
  BY <1>3 DEF AbstractStep, Delivery!Next

LEMMA Delivered ==
  ASSUME NEW s \in Subs, NEW m \in Msgs, \A t \in Subs \ {s} : Ready(t)' = Ready(t),
         Ended' = Ended, acked' = acked, m \in Ready(s), Ready(s)' = Ready(s) \ {m},
         held' = [held EXCEPT ![s] = @ \cup {m}]
  PROVE  AbstractStep
<1>1. Waiting' = [Waiting EXCEPT ![s] = @ \ {m}] /\ m \in Waiting[s]
  BY DEF Waiting
<1>2. Delivery!Deliver(s, m)
  BY <1>1 DEF Delivery!Deliver, Waiting, Ready, Ended
<1>. QED
  BY <1>2 DEF AbstractStep, Delivery!Next

LEMMA Settled ==
  ASSUME NEW s \in Subs, NEW m \in Msgs, \A t \in Subs : Ready(t)' = Ready(t),
         Ended' = Ended, m \in held[s], held' = [held EXCEPT ![s] = @ \ {m}],
         acked' = [acked EXCEPT ![s] = @ \cup {m}]
  PROVE  AbstractStep
<1>1. Waiting' = Waiting
  BY DEF Waiting
<1>2. Delivery!Ack(s, m)
  BY <1>1 DEF Delivery!Ack, Waiting, Ready, Ended
<1>. QED
  BY <1>2 DEF AbstractStep, Delivery!Next

LEMMA Returned ==
  ASSUME NEW s \in Subs, NEW m \in Msgs, \A t \in Subs \ {s} : Ready(t)' = Ready(t),
         Ended' = Ended, acked' = acked, m \in held[s], Ready(s)' = Ready(s) \cup {m},
         held' = [held EXCEPT ![s] = @ \ {m}]
  PROVE  AbstractStep
<1>1. Waiting' = [Waiting EXCEPT ![s] = @ \cup {m}]
  BY DEF Waiting
<1>2. Delivery!Nack(s, m)
  BY <1>1 DEF Delivery!Nack, Waiting, Ready, Ended
<1>. QED
  BY <1>2 DEF AbstractStep, Delivery!Next

LEMMA GivenUp ==
  ASSUME NEW s \in Subs, NEW M \in SUBSET Msgs, \A t \in Subs \ {s} : Ready(t)' = Ready(t),
         Ended' = Ended, held' = held, acked' = acked, s \in Ended,
         Ready(s)' = Ready(s) \ M
  PROVE  AbstractStep
<1>1. Waiting' = [Waiting EXCEPT ![s] = @ \ M]
  BY DEF Waiting
<1>2. Delivery!GiveUp(s, M)
  BY <1>1 DEF Delivery!GiveUp, Waiting, Ready, Ended
<1>. QED
  BY <1>2 DEF AbstractStep, Delivery!Next

\* publish() adds a message that is new to the stream; its pruning takes senders out of
\* the entry, which can end their streams.
LEMMA DeliveryPublish ==
  ASSUME PlaceInv, EntryInv, NEW p \in Pubs, Publish(p) PROVE AbstractStep
<1>1. CASE StageDelayed(p) \/ PublishGet(p) \/ PublishDrop(p)
  <2>1. UNCHANGED <<known, topic, stream, raw, fwd, out, held, nacked, resend, acked>>
    BY <1>1 DEF StageDelayed, PublishGet, PublishDrop, lockVars, subVars
  <2>2. Ended' = Ended /\ \A s \in Subs : Ready(s)' = Ready(s)
    BY <2>1 DEF Ended, Ready, Registered
  <2>. QED
    BY <2>1, <2>2, NothingMoves
<1>2. CASE PublishAlter(p)
  <2>1. UNCHANGED <<known, stream, raw, fwd, out, held, nacked, resend, acked>>
    BY <1>2 DEF PublishAlter, subVars
  <2>2. Range(topic') \subseteq Range(topic)
    BY <1>2 DEF PublishAlter, Range
  <2>3. Ended \subseteq Ended'
    BY <2>1, <2>2 DEF Ended, Registered
  <2>4. \A s \in Subs : Ready(s)' = Ready(s)
    BY <2>1 DEF Ready
  <2>. QED
    BY <2>1, <2>3, <2>4, NothingMoves
<1>3. CASE PublishSend(p)
  <2>s. PICK s : s = topic[pj[p]]
    OBVIOUS
  <2>m. PICK m : m = Batch[p][pi[p]]
    OBVIOUS
  <2>1. s \in Subs /\ m \in Msgs /\ m \notin offered[s]
    BY <1>3, <2>s, <2>m, SendIsNew
  <2>2. UNCHANGED <<known, topic, stream, fwd, out, held, nacked, resend, acked>>
    BY <1>3 DEF PublishSend, lockVars
  <2>3. raw' = raw \/ raw' = [raw EXCEPT ![s] = Append(raw[s], m)]
    BY <1>3, <2>s, <2>m DEF PublishSend
  <2>4. Ended' = Ended
    BY <2>2 DEF Ended, Registered
  <2>5. CASE raw' = raw
    <3>1. \A t \in Subs : Ready(t)' = Ready(t)
      BY <2>2, <2>5 DEF Ready
    <3>. QED
      BY <2>2, <2>4, <3>1, NothingMoves
  <2>6. CASE raw' = [raw EXCEPT ![s] = Append(raw[s], m)]
    <3>0. raw \in [Subs -> Seq(Msgs)]
      BY DEF EntryInv, TypeOK, QueueTypeOK
    <3>1. /\ raw'[s] = Append(raw[s], m) /\ raw[s] \in Seq(Msgs)
          /\ \A t \in Subs \ {s} : raw'[t] = raw[t]
      BY <2>1, <2>6, <3>0
    <3>2. \A t \in Subs \ {s} : Ready(t)' = Ready(t)
      BY <2>2, <3>1 DEF Ready
    <3>3. Range(raw'[s]) = Range(raw[s]) \cup {m}
      BY <2>1, <3>1, AppendFacts
    <3>4. Ready(s)' = Ready(s) \cup {m}
      BY <2>2, <3>3 DEF Ready
    <3>5. m \notin Somewhere(s)
      BY <2>1 DEF PlaceInv
    <3>. QED
      BY <2>1, <2>2, <2>4, <3>2, <3>4, <3>5, Accepted
  <2>. QED
    BY <2>3, <2>5, <2>6
<1>. QED
  BY <1>1, <1>2, <1>3 DEF Publish

\* A new subscription ends no stream, close() ends all that are open.
LEMMA DeliveryMap ==
  ASSUME EntryInv, (\E s \in Subs : Subscribe(s)) \/ Close PROVE AbstractStep
<1>t. /\ topic \in Seq(Subs)
      /\ stream \in [Subs -> {"absent", "locking", "open", "dropped"}]
  BY DEF EntryInv, TypeOK, CallTypeOK
<1>0. UNCHANGED <<raw, fwd, out, held, nacked, resend, acked>>
  BY DEF Subscribe, SubscribeCall, SubscribeEntry, Close, CloseCall, CloseClear, subVars
<1>1. ASSUME NEW s \in Subs, SubscribeCall(s) PROVE Ended \subseteq Ended'
  <2>1. /\ known' = known /\ topic' = topic /\ stream[s] = "absent"
        /\ \A t \in Subs \ {s} : stream'[t] = stream[t]
    BY <1>1, <1>t DEF SubscribeCall, lockVars
  <2>. QED
    BY <2>1 DEF Ended, Registered
<1>2. ASSUME NEW s \in Subs, SubscribeEntry(s) PROVE Ended \subseteq Ended'
  <2>1. /\ topic' = Append(topic, s) /\ stream[s] = "locking"
        /\ \A t \in Subs \ {s} : stream'[t] = stream[t]
    BY <1>2, <1>t DEF SubscribeEntry
  <2>2. Range(topic') = Range(topic) \cup {s}
    BY <1>t, <2>1, AppendFacts
  <2>3. \A t \in Subs \ {s} : ~Registered(t) => ~Registered(t)'
    BY <2>2 DEF EntryInv, Entries, Registered
  <2>. QED
    BY <2>1, <2>3 DEF Ended
<1>3. Close => Ended \subseteq Ended'
  <2>1. CloseCall => UNCHANGED <<known, topic, stream>>
    BY DEF CloseCall, lockVars, subVars
  <2>2. CloseClear => known' = FALSE /\ stream' = stream
    BY DEF CloseClear, subVars
  <2>. QED
    BY <2>1, <2>2 DEF Close, Ended, Registered
<1>4. Ended \subseteq Ended'
  BY <1>1, <1>2, <1>3 DEF Subscribe
<1>5. \A s \in Subs : Ready(s)' = Ready(s)
  BY <1>0 DEF Ready
<1>. QED
  BY <1>0, <1>4, <1>5, NothingMoves

\* The forwarder moves a message within the stream, or drops what it has once the
\* consumer is gone.
LEMMA DeliveryForward ==
  ASSUME PlaceInv, EntryInv, OneForwarded, NEW s \in Subs, Forward(s) PROVE AbstractStep
<1>t. /\ raw \in [Subs -> Seq(Msgs)] /\ out \in [Subs -> Seq(Msgs)]
      /\ fwd \in [Subs -> SUBSET Msgs]
  BY DEF EntryInv, TypeOK, QueueTypeOK, SetTypeOK
<1>0. UNCHANGED <<known, topic, stream, held, nacked, resend, acked>>
  BY DEF Forward, ForwardRecv, ForwardSend, ForwardEnd, lockVars
<1>1. Ended' = Ended
  BY <1>0 DEF Ended, Registered
<1>2. \A t \in Subs \ {s} : raw'[t] = raw[t] /\ fwd'[t] = fwd[t] /\ out'[t] = out[t]
  BY <1>t DEF Forward, ForwardRecv, ForwardSend, ForwardEnd
<1>3. \A t \in Subs \ {s} : Ready(t)' = Ready(t)
  BY <1>0, <1>2 DEF Ready
<1>4. CASE stream[s] = "dropped" /\ ~ForwardEnd(s)
  <2>1. /\ raw'[s] = <<>> /\ fwd'[s] = {} /\ out'[s] = out[s]
    BY <1>4, <1>t DEF Forward, ForwardRecv, ForwardSend
  <2>2. Range(raw'[s]) = {}
    BY <2>1, EmptyFacts
  <2>3. OneCopy(s)
    BY DEF PlaceInv
  <2>4. Ready(s)' = Ready(s) \ (Range(raw[s]) \cup fwd[s])
    BY <1>0, <2>1, <2>2, <2>3 DEF Ready, OneCopy
  <2>5. Range(raw[s]) \cup fwd[s] \in SUBSET Msgs
    <3>1. raw[s] \in Seq(Msgs)
      BY <1>t
    <3>2. Range(raw[s]) \subseteq Msgs
      BY <3>1 DEF Range
    <3>. QED
      BY <1>t, <3>2
  <2>6. s \in Ended
    BY <1>4 DEF Ended
  <2>. QED
    BY <1>0, <1>1, <1>3, <2>4, <2>5, <2>6, GivenUp
<1>5. CASE ForwardRecv(s) /\ stream[s] # "dropped"
  <2>1. /\ raw[s] # <<>> /\ fwd[s] = {} /\ out' = out
        /\ raw'[s] = Tail(raw[s]) /\ fwd'[s] = {Head(raw[s])}
    BY <1>5, <1>t DEF ForwardRecv
  <2>2. Range(raw[s]) = {Head(raw[s])} \cup Range(raw'[s])
    BY <1>t, <2>1, TailFacts
  <2>3. Ready(s)' = Ready(s)
    BY <1>0, <2>1, <2>2 DEF Ready
  <2>. QED
    BY <1>0, <1>1, <1>3, <2>3, NothingMoves
<1>6. CASE ForwardSend(s) /\ stream[s] # "dropped"
  <2>1. PICK m \in fwd[s] : /\ out'[s] = Append(out[s], m) /\ fwd'[s] = {}
                            /\ raw' = raw /\ m \in Msgs
    BY <1>6, <1>t DEF ForwardSend
  <2>2. fwd[s] = {m}
    BY <2>1 DEF OneForwarded
  <2>3. Range(out'[s]) = Range(out[s]) \cup {m}
    BY <1>t, <2>1, AppendFacts
  <2>4. Ready(s)' = Ready(s)
    BY <1>0, <2>1, <2>2, <2>3 DEF Ready
  <2>. QED
    BY <1>0, <1>1, <1>3, <2>4, NothingMoves
<1>7. CASE ForwardEnd(s)
  <2>1. UNCHANGED <<raw, fwd, out>>
    BY <1>7 DEF ForwardEnd
  <2>2. Ready(s)' = Ready(s)
    BY <1>0, <2>1 DEF Ready
  <2>. QED
    BY <1>0, <1>1, <1>3, <2>2, NothingMoves
<1>. QED
  BY <1>4, <1>5, <1>6, <1>7 DEF Forward

\* A stream that has messages and whose forwarder or last sender is gone has ended.
LEMMA GoneIsEnded ==
  ASSUME PlaceInv, EntryInv, NEW s \in Subs, Somewhere(s) # {},
         fpc[s] = "gone" \/ ~Registered(s)
  PROVE  s \in Ended
<1>1. offered[s] # {}
  BY DEF PlaceInv
<1>2. stream[s] \in {"absent", "locking", "open", "dropped"}
  BY DEF EntryInv, TypeOK, CallTypeOK
<1>3. stream[s] \notin {"absent", "locking"}
  BY <1>1 DEF EntryInv, Entries
<1>. QED
  BY <1>2, <1>3 DEF EntryInv, Entries, Ended

\* A verdict task passes a nacked message on, or gives it up when nobody receives it.
LEMMA DeliveryVerdict ==
  ASSUME PlaceInv, EntryInv, NEW s \in Subs, NEW m \in Msgs,
         VerdictNack(s, m) \/ Resend(s, m)
  PROVE  AbstractStep
<1>t. /\ raw \in [Subs -> Seq(Msgs)] /\ nacked \in [Subs -> SUBSET Msgs]
      /\ resend \in [Subs -> SUBSET Msgs]
  BY DEF EntryInv, TypeOK, QueueTypeOK, SetTypeOK
<1>0. UNCHANGED <<known, topic, stream, fpc, fwd, out, held, acked>>
  BY DEF VerdictNack, Resend, lockVars
<1>1. Ended' = Ended
  BY <1>0 DEF Ended, Registered
<1>2. \A t \in Subs \ {s} : raw'[t] = raw[t] /\ nacked'[t] = nacked[t] /\ resend'[t] = resend[t]
  BY <1>t DEF VerdictNack, Resend
<1>3. \A t \in Subs \ {s} : Ready(t)' = Ready(t)
  BY <1>0, <1>2 DEF Ready
<1>p. OneCopy(s)
  BY DEF PlaceInv
<1>4. ASSUME m \in nacked[s] \/ m \in resend[s], fpc[s] = "gone" \/ ~Registered(s),
             Ready(s)' = Ready(s) \ {m}
      PROVE  AbstractStep
  <2>1. Somewhere(s) # {}
    BY <1>4, SomewhereIs
  <2>2. s \in Ended
    BY <1>4, <2>1, GoneIsEnded
  <2>. QED
    BY <1>0, <1>1, <1>3, <1>4, <2>2, GivenUp
<1>5. CASE VerdictNack(s, m)
  <2>1. m \in nacked[s] /\ nacked'[s] = nacked[s] \ {m} /\ raw' = raw
    BY <1>5, <1>t DEF VerdictNack
  <2>2. CASE Upgradable(s)
    <3>1. resend'[s] = resend[s] \cup {m}
      BY <1>5, <1>t, <2>2 DEF VerdictNack
    <3>2. Ready(s)' = Ready(s)
      BY <1>0, <2>1, <3>1 DEF Ready
    <3>. QED
      BY <1>0, <1>1, <1>3, <3>2, NothingMoves
  <2>3. CASE ~Upgradable(s)
    <3>1. resend' = resend /\ ~Registered(s)
      BY <1>5, <2>3 DEF VerdictNack, Upgradable
    <3>2. Ready(s)' = Ready(s) \ {m}
      BY <1>0, <1>p, <2>1, <3>1 DEF Ready, OneCopy
    <3>. QED
      BY <1>4, <2>1, <3>1, <3>2
  <2>. QED
    BY <2>2, <2>3
<1>6. CASE Resend(s, m)
  <2>1. m \in resend[s] /\ resend'[s] = resend[s] \ {m} /\ nacked' = nacked
    BY <1>6, <1>t DEF Resend
  <2>2. CASE fpc[s] = "gone"
    <3>1. raw' = raw
      BY <1>6, <2>2 DEF Resend
    <3>2. Ready(s)' = Ready(s) \ {m}
      BY <1>0, <1>p, <2>1, <3>1 DEF Ready, OneCopy
    <3>. QED
      BY <1>4, <2>1, <2>2, <3>2
  <2>3. CASE fpc[s] # "gone"
    <3>1. raw'[s] = Append(raw[s], m)
      BY <1>6, <1>t, <2>3 DEF Resend
    <3>2. Range(raw'[s]) = Range(raw[s]) \cup {m}
      BY <1>t, <3>1, AppendFacts
    <3>3. Ready(s)' = Ready(s)
      BY <1>0, <2>1, <3>2 DEF Ready
    <3>. QED
      BY <1>0, <1>1, <1>3, <3>3, NothingMoves
  <2>. QED
    BY <2>2, <2>3
<1>. QED
  BY <1>5, <1>6

LEMMA DeliveryConsume ==
  ASSUME PlaceInv, EntryInv, NEW s \in Subs, Consume(s) PROVE AbstractStep
<1>t. /\ out \in [Subs -> Seq(Msgs)] /\ nacked \in [Subs -> SUBSET Msgs]
      /\ stream \in [Subs -> {"absent", "locking", "open", "dropped"}]
  BY DEF EntryInv, TypeOK, QueueTypeOK, SetTypeOK, CallTypeOK
<1>0. UNCHANGED <<known, topic, raw, fwd, resend>>
  BY DEF Consume, Take, Ack, Nack, DropStream, lockVars
<1>1. \A t \in Subs \ {s} : out'[t] = out[t] /\ nacked'[t] = nacked[t]
  BY <1>t DEF Consume, Take, Ack, Nack, DropStream
<1>2. \A t \in Subs \ {s} : Ready(t)' = Ready(t)
  BY <1>0, <1>1 DEF Ready
<1>3. stream' = stream => Ended' = Ended
  BY <1>0 DEF Ended, Registered
<1>p. OneCopy(s)
  BY DEF PlaceInv
<1>4. CASE Take(s)
  <2>h. PICK m : m = Head(out[s])
    OBVIOUS
  <2>1. /\ out[s] # <<>> /\ out'[s] = Tail(out[s]) /\ held' = [held EXCEPT ![s] = @ \cup {m}]
        /\ UNCHANGED <<stream, nacked, acked>>
    BY <1>4, <1>t, <2>h DEF Take
  <2>2. m \in Msgs /\ Range(out[s]) = {m} \cup Range(out'[s])
    BY <1>t, <2>1, <2>h, TailFacts
  <2>3. m \notin Range(out'[s])
    BY <1>t, <1>p, <2>1, <2>h, TailDistinct DEF OneCopy
  <2>4. m \in Ready(s) /\ Ready(s)' = Ready(s) \ {m}
    <3>1. m \notin Range(raw[s]) /\ m \notin fwd[s] /\ m \notin nacked[s] /\ m \notin resend[s]
      BY <1>p, <2>2 DEF OneCopy
    <3>. QED
      BY <1>0, <2>1, <2>2, <2>3, <3>1 DEF Ready
  <2>. QED
    BY <1>2, <1>3, <2>1, <2>2, <2>4, Delivered
<1>5. ASSUME NEW m \in Msgs, Ack(s, m) PROVE AbstractStep
  <2>1. /\ UNCHANGED <<stream, out, nacked>> /\ m \in held[s]
        /\ held' = [held EXCEPT ![s] = @ \ {m}] /\ acked' = [acked EXCEPT ![s] = @ \cup {m}]
    BY <1>5 DEF Ack
  <2>2. \A t \in Subs : Ready(t)' = Ready(t)
    BY <1>0, <2>1 DEF Ready
  <2>. QED
    BY <1>3, <2>1, <2>2, Settled
<1>6. ASSUME NEW m \in Msgs, Nack(s, m) PROVE AbstractStep
  <2>1. /\ UNCHANGED <<stream, out, acked>> /\ m \in held[s]
        /\ held' = [held EXCEPT ![s] = @ \ {m}] /\ nacked'[s] = nacked[s] \cup {m}
    BY <1>6, <1>t DEF Nack
  <2>2. Ready(s)' = Ready(s) \cup {m}
    BY <1>0, <2>1 DEF Ready
  <2>. QED
    BY <1>2, <1>3, <2>1, <2>2, Returned
<1>7. CASE DropStream(s)
  <2>1. /\ stream' = [stream EXCEPT ![s] = "dropped"] /\ out'[s] = <<>>
        /\ nacked'[s] = nacked[s] \cup Range(out[s]) /\ UNCHANGED <<held, acked>>
    BY <1>7, <1>t DEF DropStream
  <2>2. Range(out'[s]) = {}
    BY <2>1, EmptyFacts
  <2>3. Ready(s)' = Ready(s)
    BY <1>0, <2>1, <2>2 DEF Ready
  <2>4. Ended \subseteq Ended'
    BY <1>0, <1>t, <2>1 DEF Ended, Registered
  <2>. QED
    BY <1>2, <2>1, <2>3, <2>4, NothingMoves
<1>. QED
  BY <1>4, <1>5, <1>6, <1>7 DEF Consume

LEMMA DeliveryStep ==
  ASSUME PlaceInv, EntryInv, OneForwarded, [Next]_vars PROVE AbstractStep
<1>1. CASE UNCHANGED vars
  <2>1. UNCHANGED <<known, topic, stream, raw, fwd, out, held, nacked, resend, acked>>
    BY <1>1 DEF vars, lockVars, subVars
  <2>2. Ended' = Ended /\ \A s \in Subs : Ready(s)' = Ready(s)
    BY <2>1 DEF Ended, Registered, Ready
  <2>. QED
    BY <2>1, <2>2, NothingMoves
<1>. QED
  BY <1>1, DeliveryPublish, DeliveryMap, DeliveryForward, DeliveryVerdict, DeliveryConsume
     DEF Next, Done, Verdict

\* Seen from its consumers, the in-memory backend does what LeasedDelivery promises:
\* queues, forwarders and verdict tasks hand a message out once at a time, bring a
\* nacked one back, and give messages up only after the stream was dropped or closed.
THEOREM KeepsThePromise == Spec => ImplementsDelivery
<1>1. Init => Delivery!Init
  <2> SUFFICES ASSUME Init PROVE Delivery!Init
    OBVIOUS
  <2>1. Waiting = [s \in Subs |-> {}]
    BY EmptyFacts DEF Init, InitWith, Waiting, Ready
  <2>2. Ended \in SUBSET Subs
    BY DEF Ended
  <2>. QED
    BY <2>1, <2>2 DEF Init, InitWith, Delivery!Init, Waiting, Ready, Ended
<1>2. Init => PlaceInv /\ EntryInv /\ OneForwarded
  BY PlaceInit, EntryInit DEF Init, InitWith, OneForwarded
<1>3. PlaceInv /\ EntryInv /\ OneForwarded /\ [Next]_vars
        => (PlaceInv /\ EntryInv /\ OneForwarded)' /\ [Delivery!Next]_(Delivery!vars)
  BY PlaceStep, EntryStep, OneForwardedStep, DeliveryStep DEF AbstractStep
<1>. QED
  BY <1>1, <1>2, <1>3, PTL DEF Spec, ImplementsDelivery, Delivery!Spec
=============================================================================
