------------------------------ MODULE Channel ------------------------------
(***************************************************************************)
(* The in-memory backend, crates/strev-channel/src/lib.rs, for one topic.  *)
(*                                                                         *)
(* Every Subscriber::subscribe call creates a bounded raw queue whose only *)
(* lasting sender sits in the shared map, a forwarder task that moves      *)
(* messages from the raw queue to the consumer's stream, and one verdict   *)
(* task per delivered message that puts a nacked copy back in the raw      *)
(* queue.  publish() walks the map entry's senders while it holds the      *)
(* map's read guard, across its awaits; subscribe(), close() and the       *)
(* pruning at the end of publish() need the write lock and wait for it     *)
(* synchronously, each keeping one runtime worker thread busy meanwhile.   *)
(***************************************************************************)
EXTENDS Naturals, Sequences, FiniteSets, Functions

CONSTANTS
  Subs,        \* subscribe() calls
  Pubs,        \* publish() / publish_after() calls
  Msgs,        \* the messages those calls carry
  Batch,       \* Batch[p]: the messages of call p, in order
  Delayed,     \* the calls made through publish_after()
  BufferSize,  \* Channel::new(buffer_size)
  MaxHeld,     \* messages a consumer holds at once (1 for a router handler)
  Workers,     \* worker threads of the runtime (1 for #[tokio::test])
  MaxNacks,    \* bound: nacks per stream
  Droppable,   \* the streams whose consumer may go away
  Closable,    \* whether close() may be called
  MaxFaults    \* bound: nacks, dropped streams and close() together

ASSUME ChannelAssumption ==
  /\ IsFiniteSet(Subs) /\ IsFiniteSet(Pubs) /\ IsFiniteSet(Msgs)
  /\ Subs \cap Pubs = {} /\ "close" \notin Subs \cup Pubs
  /\ Batch \in [Pubs -> Seq(Msgs)]
  /\ \A p \in Pubs : \A i, k \in DOMAIN Batch[p] :
       Batch[p][i] = Batch[p][k] => i = k
  /\ \A p, q \in Pubs : \A i \in DOMAIN Batch[p], k \in DOMAIN Batch[q] :
       Batch[p][i] = Batch[q][k] => p = q
  /\ Delayed \subseteq Pubs /\ Droppable \subseteq Subs
  /\ BufferSize \in Nat \ {0} /\ MaxHeld \in Nat \ {0}
  /\ Workers \in Nat \ {0} /\ MaxNacks \in Nat
  /\ Closable \in BOOLEAN /\ MaxFaults \in Nat

VARIABLES
  known,     \* the map has an entry for the topic
  topic,     \* the entry's senders, in subscription order
  readers,   \* the publish() calls that hold the read guard
  ppc,       \* ppc[p]: idle, timer, send, alter or done
  pi, pj,    \* next message of Batch[p] and next sender for it
  cpc,       \* close(): idle, locking or done
  stream,    \* stream[s]: absent, locking, open or dropped
  fpc,       \* forwarder task of s: off, on or gone
  raw,       \* raw[s]: the bounded queue feeding the forwarder
  fwd,       \* fwd[s]: the message the forwarder is handing over, if any
  out,       \* out[s]: the stream's own bounded buffer
  held,      \* held[s]: taken by the consumer, no verdict yet
  nacked,    \* nacked[s]: verdict Nack, its task has not run yet
  resend,    \* resend[s]: tasks that upgraded the sender and are sending
  acked,     \* acked[s]: verdict Ack
  offered,   \* history: messages publish() put in raw[s]
  seen,      \* history: messages the consumer of s has been given
  nacks      \* history: nacks of the consumer of s, for MaxNacks

lockVars == <<known, topic, readers>>
pubVars  == <<ppc, pi, pj>>
subVars  == <<stream, fpc, raw, fwd, out, held, nacked, resend, acked>>
histVars == <<offered, seen, nacks>>
vars     == <<lockVars, pubVars, cpc, subVars, histVars>>

-----------------------------------------------------------------------------
(* Threads.  A task waiting for the write lock blocks the worker it runs   *)
(* on; any other step needs a worker that is not blocked.                  *)

Blocked == {p \in Pubs : ppc[p] = "alter"}
             \cup {s \in Subs : stream[s] = "locking"}
             \cup (IF cpc = "locking" THEN {"close"} ELSE {})

FreeWorker == Cardinality(Blocked) < Workers

Registered(s) == known /\ s \in Range(topic)

\* Mutant: the retries in flight are taken for the only strong senders.
RetriesOnly(s) == resend[s] # {}

\* raw_tx.downgrade().upgrade() succeeds while a strong sender is left.
Upgradable(s) == Registered(s) \/ resend[s] # {}

\* Mutant: off by one, the queue takes a message too many.
RawOverfull(s) == Len(raw[s]) > BufferSize

RawFull(s) == Len(raw[s]) >= BufferSize

OutFull(s) == Len(out[s]) >= BufferSize

-----------------------------------------------------------------------------
\* The streams of gone have come and gone, the calls of returned are over.
InitWith(gone, returned) ==
  /\ known = FALSE /\ topic = <<>> /\ readers = {}
  /\ ppc = [p \in Pubs |-> IF p \in returned THEN "done" ELSE "idle"]
  /\ pi  = [p \in Pubs |-> 1] /\ pj = [p \in Pubs |-> 1]
  /\ cpc = "idle"
  /\ stream = [s \in Subs |-> IF s \in gone THEN "dropped" ELSE "absent"]
  /\ fpc = [s \in Subs |-> IF s \in gone THEN "gone" ELSE "off"]
  /\ raw = [s \in Subs |-> <<>>] /\ fwd = [s \in Subs |-> {}]
  /\ out = [s \in Subs |-> <<>>] /\ held = [s \in Subs |-> {}]
  /\ nacked = [s \in Subs |-> {}] /\ resend = [s \in Subs |-> {}]
  /\ acked = [s \in Subs |-> {}] /\ offered = [s \in Subs |-> {}]
  /\ seen = [s \in Subs |-> {}] /\ nacks = [s \in Subs |-> 0]

Init == InitWith({}, {})

\* Not a part of the code: room for another fault within MaxFaults.
FaultLeft ==
  SumFunction(nacks) + Cardinality({s \in Droppable : stream[s] = "dropped"})
    + (IF cpc = "idle" THEN 0 ELSE 1) < MaxFaults

-----------------------------------------------------------------------------
(* Publisher::publish and DelayedPublisher::publish_after.                 *)

\* publish_after() with time left: the caller already has its acked
\* outcomes, a spawned task sleeps and publishes the copies later.
StageDelayed(p) ==
  /\ FreeWorker
  /\ p \in Delayed /\ ppc[p] = "idle"
  /\ ppc' = [ppc EXCEPT ![p] = "timer"]
  /\ UNCHANGED <<lockVars, pi, pj, cpc, subVars, histVars>>

\* publish() looks the topic up; without an entry every message is acked
\* and dropped, otherwise the read guard is taken and kept.
PublishGet(p) ==
  /\ FreeWorker
  /\ ppc[p] \in {"idle", "timer"}
  /\ IF known
     THEN /\ readers' = readers \cup {p}
          /\ ppc' = [ppc EXCEPT ![p] = "send"]
     ELSE /\ ppc' = [ppc EXCEPT ![p] = "done"]
          /\ UNCHANGED readers
  /\ UNCHANGED <<known, topic, pi, pj, cpc, subVars, histVars>>

\* Mutant: send() is tried again until it succeeds, the receiver gone or not.
SendInsists(p) ==
  /\ FreeWorker
  /\ ppc[p] = "send" /\ pi[p] <= Len(Batch[p]) /\ topic # <<>>
  /\ LET s == topic[pj[p]]
         m == Batch[p][pi[p]]
         last == pj[p] = Len(topic)
     IN IF fpc[s] = "gone"
        THEN UNCHANGED <<raw, offered, pi, pj>>
        ELSE /\ ~RawFull(s)
             /\ raw' = [raw EXCEPT ![s] = Append(@, m)]
             /\ offered' = [offered EXCEPT ![s] = @ \cup {m}]
             /\ pi' = [pi EXCEPT ![p] = IF last THEN @ + 1 ELSE @]
             /\ pj' = [pj EXCEPT ![p] = IF last THEN 1 ELSE @ + 1]
  /\ UNCHANGED <<lockVars, ppc, cpc, stream, fpc, fwd, out, held,
                 nacked, resend, acked, seen, nacks>>

\* sender.send(copy).await for one sender: waits while the raw queue is full,
\* does nothing once the forwarder has dropped its receiver.  After the last
\* sender the call goes on to its next message.
PublishSend(p) ==
  /\ FreeWorker
  /\ ppc[p] = "send" /\ pi[p] <= Len(Batch[p]) /\ topic # <<>>
  /\ LET s == topic[pj[p]]
         m == Batch[p][pi[p]]
     IN IF fpc[s] = "gone"
        THEN UNCHANGED <<raw, offered>>
        ELSE /\ ~RawFull(s)
             /\ raw' = [raw EXCEPT ![s] = Append(@, m)]
             /\ offered' = [offered EXCEPT ![s] = @ \cup {m}]
  /\ IF pj[p] < Len(topic)
     THEN /\ pj' = [pj EXCEPT ![p] = @ + 1]
          /\ UNCHANGED pi
     ELSE /\ pi' = [pi EXCEPT ![p] = @ + 1]
          /\ pj' = [pj EXCEPT ![p] = 1]
  /\ UNCHANGED <<lockVars, ppc, cpc, stream, fpc, fwd, out, held,
                 nacked, resend, acked, seen, nacks>>

\* drop(senders), then straight into alter(): from here the call keeps its
\* worker thread until it gets the write lock.
PublishDrop(p) ==
  /\ FreeWorker
  /\ ppc[p] = "send" /\ (pi[p] > Len(Batch[p]) \/ topic = <<>>)
  /\ readers' = readers \ {p}
  /\ ppc' = [ppc EXCEPT ![p] = "alter"]
  /\ UNCHANGED <<known, topic, pi, pj, cpc, subVars, histVars>>

\* alter() retains the senders whose receiver is left, in their order:
\* k enumerates their positions upwards.
PublishAlter(p) ==
  LET live == {i \in DOMAIN topic : fpc[topic[i]] # "gone"}
  IN /\ ppc[p] = "alter" /\ readers = {}
     /\ \E k \in [1..Cardinality(live) -> live] :
          /\ \A i, j \in DOMAIN k : i < j => k[i] < k[j]
          /\ topic' = [i \in DOMAIN k |-> topic[k[i]]]
     /\ ppc' = [ppc EXCEPT ![p] = "done"]
     /\ UNCHANGED <<known, readers, pi, pj, cpc, subVars, histVars>>

-----------------------------------------------------------------------------
(* Subscriber::subscribe and close (both traits clear the same map).       *)

SubscribeCall(s) ==
  /\ FreeWorker
  /\ stream[s] = "absent"
  /\ stream' = [stream EXCEPT ![s] = "locking"]
  /\ UNCHANGED <<lockVars, pubVars, cpc, fpc, raw, fwd, out, held, nacked,
                 resend, acked, histVars>>

\* Mutant: the entry is pushed without waiting for the publish() calls.
EntryUnguarded(s) ==
  /\ stream[s] = "locking"
  /\ known' = TRUE
  /\ topic' = Append(topic, s)
  /\ stream' = [stream EXCEPT ![s] = "open"]
  /\ fpc' = [fpc EXCEPT ![s] = "on"]
  /\ UNCHANGED <<readers, pubVars, cpc, raw, fwd, out, held, nacked, resend,
                 acked, histVars>>

\* entry(topic).or_default().push(raw_tx), then spawn the forwarder.
SubscribeEntry(s) ==
  /\ stream[s] = "locking" /\ readers = {}
  /\ known' = TRUE
  /\ topic' = Append(topic, s)
  /\ stream' = [stream EXCEPT ![s] = "open"]
  /\ fpc' = [fpc EXCEPT ![s] = "on"]
  /\ UNCHANGED <<readers, pubVars, cpc, raw, fwd, out, held, nacked, resend,
                 acked, histVars>>

CloseCall ==
  /\ FreeWorker
  /\ Closable /\ cpc = "idle" /\ FaultLeft
  /\ cpc' = "locking"
  /\ UNCHANGED <<lockVars, pubVars, subVars, histVars>>

\* Mutant: the map is cleared while a publish() call walks its senders.
ClearUnguarded ==
  /\ cpc = "locking"
  /\ known' = FALSE /\ topic' = <<>>
  /\ cpc' = "done"
  /\ UNCHANGED <<readers, pubVars, subVars, histVars>>

\* topics.clear() drops every lasting sender.
CloseClear ==
  /\ cpc = "locking" /\ readers = {}
  /\ known' = FALSE /\ topic' = <<>>
  /\ cpc' = "done"
  /\ UNCHANGED <<readers, pubVars, subVars, histVars>>

-----------------------------------------------------------------------------
(* The forwarder task of stream s.                                         *)

\* raw_rx.recv(), then the is_closed() check: a message received after the
\* consumer left is dropped together with the raw queue.
ForwardRecv(s) ==
  /\ FreeWorker
  /\ fpc[s] = "on" /\ fwd[s] = {} /\ raw[s] # <<>>
  /\ IF stream[s] = "dropped"
     THEN /\ fpc' = [fpc EXCEPT ![s] = "gone"]
          /\ raw' = [raw EXCEPT ![s] = <<>>]
          /\ UNCHANGED fwd
     ELSE /\ fwd' = [fwd EXCEPT ![s] = {Head(raw[s])}]
          /\ raw' = [raw EXCEPT ![s] = Tail(@)]
          /\ UNCHANGED fpc
  /\ UNCHANGED <<lockVars, pubVars, cpc, stream, out, held, nacked, resend,
                 acked, histVars>>

\* out_tx.send(msg).await, which fails once the stream is dropped.
ForwardSend(s) ==
  /\ FreeWorker
  /\ fpc[s] = "on" /\ fwd[s] # {}
  /\ IF stream[s] = "dropped"
     THEN /\ fpc' = [fpc EXCEPT ![s] = "gone"]
          /\ raw' = [raw EXCEPT ![s] = <<>>]
          /\ UNCHANGED out
     ELSE /\ ~OutFull(s)
          /\ \E m \in fwd[s] : out' = [out EXCEPT ![s] = Append(@, m)]
          /\ UNCHANGED <<fpc, raw>>
  /\ fwd' = [fwd EXCEPT ![s] = {}]
  /\ UNCHANGED <<lockVars, pubVars, cpc, stream, held, nacked, resend, acked,
                 histVars>>

\* recv() yields None: no sender is left and the raw queue is empty.
ForwardEnd(s) ==
  /\ FreeWorker
  /\ fpc[s] = "on" /\ fwd[s] = {} /\ raw[s] = <<>> /\ ~Upgradable(s)
  /\ fpc' = [fpc EXCEPT ![s] = "gone"]
  /\ UNCHANGED <<lockVars, pubVars, cpc, stream, raw, fwd, out, held, nacked,
                 resend, acked, histVars>>

-----------------------------------------------------------------------------
(* The verdict tasks of stream s.                                          *)

\* ack.recv() gave Nack: upgrade the weak sender, or give the message up.
VerdictNack(s, m) ==
  /\ FreeWorker
  /\ m \in nacked[s]
  /\ nacked' = [nacked EXCEPT ![s] = @ \ {m}]
  /\ IF Upgradable(s)
     THEN resend' = [resend EXCEPT ![s] = @ \cup {m}]
     ELSE UNCHANGED resend
  /\ UNCHANGED <<lockVars, pubVars, cpc, stream, fpc, raw, fwd, out, held,
                 acked, histVars>>

\* Mutant: the retry stays queued with its task after it was sent.
ResendTwice(s, m) ==
  /\ FreeWorker
  /\ m \in resend[s]
  /\ IF fpc[s] = "gone"
     THEN UNCHANGED raw
     ELSE ~RawFull(s) /\ raw' = [raw EXCEPT ![s] = Append(@, m)]
  /\ UNCHANGED <<lockVars, pubVars, cpc, stream, fpc, fwd, out, held, nacked,
                 resend, acked, histVars>>

\* Mutant: try_send instead of send, a retry into a full queue is dropped.
TryResend(s, m) ==
  /\ FreeWorker
  /\ m \in resend[s]
  /\ raw' = IF RawFull(s) \/ fpc[s] = "gone" THEN raw
            ELSE [raw EXCEPT ![s] = Append(@, m)]
  /\ resend' = [resend EXCEPT ![s] = @ \ {m}]
  /\ UNCHANGED <<lockVars, pubVars, cpc, stream, fpc, fwd, out, held, nacked,
                 acked, histVars>>

\* tx.send(retry).await: waits for room, fails when the receiver is gone.
Resend(s, m) ==
  /\ FreeWorker
  /\ m \in resend[s]
  /\ IF fpc[s] = "gone"
     THEN UNCHANGED raw
     ELSE ~RawFull(s) /\ raw' = [raw EXCEPT ![s] = Append(@, m)]
  /\ resend' = [resend EXCEPT ![s] = @ \ {m}]
  /\ UNCHANGED <<lockVars, pubVars, cpc, stream, fpc, fwd, out, held, nacked,
                 acked, histVars>>

-----------------------------------------------------------------------------
(* The consumer of stream s.                                               *)

Take(s) ==
  /\ FreeWorker
  /\ stream[s] = "open" /\ out[s] # <<>> /\ Cardinality(held[s]) < MaxHeld
  /\ held' = [held EXCEPT ![s] = @ \cup {Head(out[s])}]
  /\ out'  = [out EXCEPT ![s] = Tail(@)]
  /\ seen' = [seen EXCEPT ![s] = @ \cup {Head(out[s])}]
  /\ UNCHANGED <<lockVars, pubVars, cpc, stream, fpc, raw, fwd, nacked,
                 resend, acked, offered, nacks>>

\* Mutant: the verdict task requeues on Ack as well.
AckRequeued(s, m) ==
  /\ FreeWorker
  /\ m \in held[s]
  /\ held'   = [held EXCEPT ![s] = @ \ {m}]
  /\ nacked' = [nacked EXCEPT ![s] = @ \cup {m}]
  /\ acked'  = [acked EXCEPT ![s] = @ \cup {m}]
  /\ UNCHANGED <<lockVars, pubVars, cpc, stream, fpc, raw, fwd, out, resend,
                 histVars>>

Ack(s, m) ==
  /\ FreeWorker
  /\ m \in held[s]
  /\ held'  = [held EXCEPT ![s] = @ \ {m}]
  /\ acked' = [acked EXCEPT ![s] = @ \cup {m}]
  /\ UNCHANGED <<lockVars, pubVars, cpc, stream, fpc, raw, fwd, out, nacked,
                 resend, histVars>>

\* An explicit nack, or the message dropped without a verdict.
Nack(s, m) ==
  /\ FreeWorker
  /\ m \in held[s] /\ nacks[s] < MaxNacks /\ FaultLeft
  /\ held'   = [held EXCEPT ![s] = @ \ {m}]
  /\ nacked' = [nacked EXCEPT ![s] = @ \cup {m}]
  /\ nacks'  = [nacks EXCEPT ![s] = @ + 1]
  /\ UNCHANGED <<lockVars, pubVars, cpc, stream, fpc, raw, fwd, out, resend,
                 acked, offered, seen>>

\* The stream is dropped: each buffered message resolves to Nack.
DropStream(s) ==
  /\ FreeWorker
  /\ s \in Droppable /\ stream[s] = "open" /\ FaultLeft
  /\ stream' = [stream EXCEPT ![s] = "dropped"]
  /\ nacked' = [nacked EXCEPT ![s] = @ \cup Range(out[s])]
  /\ out'    = [out EXCEPT ![s] = <<>>]
  /\ UNCHANGED <<lockVars, pubVars, cpc, fpc, raw, fwd, held, resend, acked,
                 histVars>>

-----------------------------------------------------------------------------
Publish(p) == \/ StageDelayed(p) \/ PublishGet(p) \/ PublishSend(p)
              \/ PublishDrop(p) \/ PublishAlter(p)

Subscribe(s) == SubscribeCall(s) \/ SubscribeEntry(s)

Close == CloseCall \/ CloseClear

Forward(s) == ForwardRecv(s) \/ ForwardSend(s) \/ ForwardEnd(s)

Verdict(s) == \E m \in Msgs : VerdictNack(s, m) \/ Resend(s, m)

Consume(s) == \/ Take(s) \/ DropStream(s)
              \/ \E m \in Msgs : Ack(s, m) \/ Nack(s, m)

\* Nothing is in flight and every call has returned.
Quiescent ==
  /\ \A p \in Pubs : ppc[p] = "done"
  /\ cpc # "locking"
  /\ \A s \in Subs :
       /\ stream[s] \in {"open", "dropped"}
       /\ raw[s] = <<>> /\ fwd[s] = {} /\ out[s] = <<>>
       /\ held[s] = {} /\ nacked[s] = {} /\ resend[s] = {}

Done == Quiescent /\ UNCHANGED vars

Next == \/ \E p \in Pubs : Publish(p)
        \/ \E s \in Subs : Subscribe(s) \/ Forward(s) \/ Verdict(s) \/ Consume(s)
        \/ Close
        \/ Done

Spec == Init /\ [][Next]_vars

(* Every task that can run is eventually polled, and a consumer settles    *)
(* what it holds; dropping a stream and closing are never forced.          *)
Fairness ==
  /\ \A p \in Pubs : WF_vars(Publish(p))
  /\ \A s \in Subs :
       /\ WF_vars(Subscribe(s)) /\ WF_vars(Forward(s)) /\ WF_vars(Take(s))
       /\ \A m \in Msgs : /\ WF_vars(VerdictNack(s, m)) /\ WF_vars(Resend(s, m))
                          /\ WF_vars(Ack(s, m) \/ Nack(s, m))
  /\ WF_vars(CloseClear)

FairSpec == Spec /\ Fairness

-----------------------------------------------------------------------------
(* Properties.                                                             *)

\* Where the copy of a message for stream s can be.
Places(s) == <<Range(raw[s]), fwd[s], Range(out[s]), held[s], nacked[s],
               resend[s], acked[s]>>

Somewhere(s) == UNION Range(Places(s))

CallTypeOK ==
  /\ known \in BOOLEAN /\ topic \in Seq(Subs) /\ readers \subseteq Pubs
  /\ ppc \in [Pubs -> {"idle", "timer", "send", "alter", "done"}]
  /\ pi \in [Pubs -> Nat \ {0}] /\ pj \in [Pubs -> Nat \ {0}]
  /\ cpc \in {"idle", "locking", "done"}
  /\ stream \in [Subs -> {"absent", "locking", "open", "dropped"}]
  /\ fpc \in [Subs -> {"off", "on", "gone"}]

QueueTypeOK ==
  /\ raw \in [Subs -> Seq(Msgs)] /\ out \in [Subs -> Seq(Msgs)]
  /\ \A s \in Subs : Len(raw[s]) <= BufferSize /\ Len(out[s]) <= BufferSize

SetTypeOK ==
  LET MsgSets == [Subs -> SUBSET Msgs]
  IN /\ fwd \in MsgSets /\ held \in MsgSets /\ nacked \in MsgSets
     /\ resend \in MsgSets /\ acked \in MsgSets /\ offered \in MsgSets
     /\ seen \in MsgSets /\ nacks \in [Subs -> 0..MaxNacks]

\* Every variable has its type, and no queue outgrows Channel::new's buffer.
TypeOK == CallTypeOK /\ QueueTypeOK /\ SetTypeOK

\* A message has one copy per stream: the retry copy re-enters the raw queue
\* only after the delivered one was settled, whatever publishers, forwarder,
\* verdict tasks and consumer do in between.
OnePlace ==
  \A s \in Subs :
    /\ IsInjective(raw[s]) /\ IsInjective(out[s])
    /\ \A i, k \in DOMAIN Places(s) :
         i # k => Places(s)[i] \cap Places(s)[k] = {}

\* While a stream is open and its sender is in the map, a message published to
\* it is never lost: it is on its way, in the consumer's hands, or acked.
NoLoss ==
  \A s \in Subs :
    stream[s] = "open" /\ Registered(s) => offered[s] \subseteq Somewhere(s)

\* A publish() call that has walked its batch reached each live stream with
\* all of its messages or with none: no subscribe(), close() or pruning took
\* effect between two of them.
WholeBatch ==
  \A p \in Pubs, s \in Subs :
    ppc[p] \in {"alter", "done"} /\ fpc[s] = "on" =>
      offered[s] \cap Range(Batch[p]) \in {{}, Range(Batch[p])}

\* A consumer meets the messages of one call in the order of its batch, at
\* least the first time (a nacked message comes again at the tail).
BatchOrder ==
  \A s \in Subs, p \in Pubs : \A k \in DOMAIN Batch[p] :
    Batch[p][k] \in seen[s] => \A i \in 1..k : Batch[p][i] \in seen[s]

\* publish() returns: no call is stuck for good at a full queue, which needs a
\* free worker to be drained.
PublishReturns == []<>(\A p \in Pubs : ppc[p] # "send")

\* Every message that reached a stream is acked in the end, nacks included,
\* unless the stream is dropped or the map cleared.
EventuallyAcked ==
  []<>(\A s \in Subs : \/ offered[s] \subseteq acked[s]
                       \/ stream[s] = "dropped" \/ ~Registered(s))

\* The backend keeps the promise of LeasedDelivery.
Delivery == INSTANCE LeasedDelivery WITH
  ready  <- [s \in Subs |-> Range(raw[s]) \cup fwd[s] \cup Range(out[s])
                              \cup nacked[s] \cup resend[s]],
  leased <- held,
  acked  <- acked,
  ended  <- {s \in Subs : \/ stream[s] = "dropped"
                          \/ stream[s] = "open" /\ ~Registered(s)}

ImplementsDelivery == Delivery!Spec
=============================================================================
