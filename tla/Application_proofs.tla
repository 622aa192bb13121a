------------------------ MODULE Application_proofs ------------------------
(***************************************************************************)
(* What an application promises, proved for every deployment: any          *)
(* consumers, chains, handlers, messages and faults.                       *)
(*                                                                         *)
(*   WaitersAlwaysMatch  RequestReply and its waiters: one lemma settles   *)
(*                       every action but the client's and its listener's. *)
(*   TypeCorrect         Types: where a call stands in its chain bounds    *)
(*                       what it has called.                               *)
(*   NoRetryStorm        BreakerInv: what a CircuitBreaker has counted     *)
(*                       against what its handler has failed.              *)
(*   NothingIsLost       LossInv: a message is followed along the relays   *)
(*                       that lead to an end, and a key of a Deduplicator  *)
(*                       back to the call that left it.                    *)
(***************************************************************************)
EXTENDS Application, SequenceTheorems, TLAPS

\* The listener takes a waiter out before it answers: no request has both.  That
\* is why a call that returns its answer leaves no waiter behind.
WaiterInv ==
  /\ client \in [Ids -> ClientStates]
  /\ pending \cap answers = {}
  /\ WaitersMatch

LEMMA WaiterInit == ASSUME Init PROVE WaiterInv
BY DEF Init, WaiterInv, WaitersMatch, ClientStates

LEMMA WaiterFrame == ASSUME WaiterInv, UNCHANGED clientVars PROVE WaiterInv'
BY DEF WaiterInv, WaitersMatch, clientVars

-----------------------------------------------------------------------------
(* The actions that leave the client alone.                                *)

LEMMA ProduceFrame == ASSUME NEW id, Publish(id) PROVE UNCHANGED clientVars
BY DEF Publish, BusSend, ForwarderPublish, TransformPublish, EncodePublish, Produce

LEMMA DecorateFrame == ASSUME NEW c, Decorate(c) PROVE UNCHANGED clientVars
BY DEF Decorate, TransformNext, DecodeNext, PassOn

LEMMA WrapFrame == ASSUME NEW c, Wrap(c) PROVE UNCHANGED clientVars
BY DEF Wrap, Throttle, DelayOnError, CorrelationId, InstantAck, Telemetry, Through,
       Timeout, Retry, Duplicator, Recoverer, IgnoreErrors, RandomFail, PoisonQueue,
       Deduplicator, CircuitBreaker

LEMMA HandleFrame == ASSUME NEW c, Handle(c) PROVE UNCHANGED clientVars
BY DEF Handle, UserHandler, TypedHandler, Forward, Requeue, FanIn, Respond

LEMMA WorkFrame == ASSUME NEW c, Work(c) PROVE UNCHANGED clientVars
BY WrapFrame, HandleFrame DEF Work, Deliver, Begin, Settle

LEMMA FaultFrame ==
  ASSUME \/ Crash \/ WindowEnds \/ \E c \in Consumers : TimeoutFires(c) \/ Tick(c)
  PROVE  UNCHANGED clientVars
BY DEF Crash, WindowEnds, TimeoutFires, Tick

-----------------------------------------------------------------------------
(* The client and its listener.                                            *)

LEMMA ClientStep ==
  ASSUME WaiterInv, NEW r \in Ids,
         Await(r) \/ RequestStart(r) \/ RequestFails(r) \/ RequestDropped(r)
  PROVE  WaiterInv'
<1> USE DEF WaiterInv, WaitersMatch, ClientStates
<1>1. CASE RequestPublish(r)
  BY <1>1 DEF RequestPublish
<1>2. CASE RequestReturns(r)
  BY <1>2 DEF RequestReturns
<1>3. CASE RequestTimeout(r)
  BY <1>3 DEF RequestTimeout
<1>4. CASE RequestForget(r)
  BY <1>4 DEF RequestForget
<1>5. CASE RequestStart(r)
  BY <1>5 DEF RequestStart
<1>6. CASE RequestFails(r)
  BY <1>6 DEF RequestFails
<1>7. CASE RequestDropped(r)
  BY <1>7 DEF RequestDropped
<1>. QED
  BY <1>1, <1>2, <1>3, <1>4, <1>5, <1>6, <1>7 DEF Await

\* What the listener takes out of pending it answers, if the call still waits.
LEMMA ListenerStep ==
  ASSUME WaiterInv, NEW c \in Consumers, ListenerNext(c)
  PROVE  WaiterInv'
<1>1. PICK r : /\ r = Head(queue[c])
               /\ pending' = pending \ {r}
               /\ answers' = IF r \in pending /\ Pending(r) THEN answers \cup {r}
                                                            ELSE answers
               /\ client' = client
  BY DEF ListenerNext
<1>. QED
  BY <1>1 DEF WaiterInv, WaitersMatch, ClientStates, Pending

LEMMA WaiterStep == ASSUME WaiterInv, [Next]_vars PROVE WaiterInv'
<1>1. CASE UNCHANGED vars
  BY <1>1, WaiterFrame DEF vars
<1>2. ASSUME NEW c \in Consumers, ListenerNext(c) PROVE WaiterInv'
  BY <1>2, ListenerStep
<1>3. ASSUME NEW c \in Consumers, Work(c) \/ Decorate(c) PROVE WaiterInv'
  BY <1>3, WorkFrame, DecorateFrame, WaiterFrame
<1>4. CASE \/ Crash \/ WindowEnds \/ \E c \in Consumers : TimeoutFires(c) \/ Tick(c)
  BY <1>4, FaultFrame, WaiterFrame
<1>5. ASSUME NEW r \in Ids, Publish(r) PROVE WaiterInv'
  BY <1>5, ProduceFrame, WaiterFrame
<1>6. ASSUME NEW r \in Ids,
             Await(r) \/ RequestStart(r) \/ RequestFails(r) \/ RequestDropped(r)
      PROVE  WaiterInv'
  BY <1>6, ClientStep
<1>. QED
  BY <1>1, <1>2, <1>3, <1>4, <1>5, <1>6 DEF Next

\* Whatever is timed out, dropped, failed or answered late, a call of request()
\* that has returned has left no waiter in RequestReply::pending, and one that
\* still waits has its waiter there or its answer at hand.
THEOREM WaitersAlwaysMatch == Spec => []WaitersMatch
<1>1. Init => WaiterInv
  BY WaiterInit
<1>2. WaiterInv /\ [Next]_vars => WaiterInv'
  BY WaiterStep
<1>3. WaiterInv => WaitersMatch
  BY DEF WaiterInv
<1>. QED
  BY <1>1, <1>2, <1>3, PTL DEF Spec

-----------------------------------------------------------------------------
(* Types.  What TypeOK says of a call in progress rests on where it stands: *)
(* a chain that is entered anew has no calls counted, and a middleware that *)
(* is called has none yet.                                                  *)

Limit(c, p) == CASE Chain(c)[p] = "Retry" -> Attempts
                 [] Chain(c)[p] = "Duplicator" -> 2 [] OTHER -> 1

Tasks == {"idle", "down", "up", "dead"}
Busy(c) == run[c].task \in {"down", "up"}

RunOf(c) == [task : Tasks, id : Ids \cup {0}, depth : 0..Len(Chain(c)) + 1,
             result : Results, calls : [DOMAIN Chain(c) -> Nat]]

Placed(c) ==
  /\ Busy(c) => run[c].id \in Ids
  /\ run[c].task = "down" => run[c].depth > 0
  /\ run[c].task = "up" => run[c].depth <= Len(Chain(c))

Counted(c) ==
  \A p \in DOMAIN Chain(c) :
    /\ run[c].calls[p] <= Limit(c, p)
    /\ (run[c].task = "idle" => run[c].calls[p] = 0)
    /\ (run[c].task = "down" /\ run[c].depth <= p => run[c].calls[p] = 0)

RunOK ==
  /\ run = [c \in Consumers |-> run[c]]
  /\ \A c \in Consumers : run[c] \in RunOf(c) /\ Placed(c) /\ Counted(c)

AppOK == app \in Deployments /\ unsent \in SUBSET Ids /\ produced \in SUBSET Ids

TopicsOK ==
  /\ queue \in [Consumers -> Seq(Ids)] /\ stream \in [Consumers -> Seq(Ids)]
  /\ \A c \in Consumers : Len(stream[c]) <= BufferSize

Since == {"recent", "elapsed", "negative"}
BreakerOK == breaker \in [Consumers -> [failures : 0..MaxFailures + 1, since : Since]]

HistoryOK ==
  /\ done \in [Consumers -> SUBSET Ids] /\ failed \in [Consumers -> SUBSET Ids]
  /\ acked \in [Consumers -> SUBSET Ids] /\ burst \in [Consumers -> Nat]

SeenOK == seen \subseteq (Consumers \cup {"router"}) \X Ids
ClientOK == client \in [Ids -> ClientStates] /\ pending \cup answers \subseteq Ids
FaultsOK == faults \in 0..app.maxFaults

Types == /\ AppOK /\ TopicsOK /\ RunOK /\ BreakerOK /\ HistoryOK /\ SeenOK /\ ClientOK
         /\ FaultsOK

LEMMA ChainFacts ==
  ASSUME app \in Deployments, NEW c \in Consumers
  PROVE  /\ Chain(c) \in Seq(Middlewares) /\ Len(Chain(c)) \in Nat
         /\ DOMAIN Chain(c) = 1..Len(Chain(c)) /\ app.maxFaults \in Nat
         /\ \A p \in DOMAIN Chain(c) : Chain(c)[p] \in Middlewares
<1>1. Chain(c) \in Seq(Middlewares) /\ app.maxFaults \in Nat
  BY DeploymentAssumption DEF Chain
<1>2. PICK s \in Seq(Middlewares) : s = Chain(c)
  BY <1>1
<1>3. Len(s) \in Nat /\ DOMAIN s = 1..Len(s) /\ \A p \in DOMAIN s : s[p] \in Middlewares
  OBVIOUS
<1>. QED
  BY <1>1, <1>2, <1>3

LEMMA LimitFacts ==
  ASSUME NEW c, NEW p
  PROVE  /\ Limit(c, p) \in Nat \ {0}
         /\ Chain(c)[p] = "Retry" => Limit(c, p) = Attempts
         /\ Chain(c)[p] = "Duplicator" => Limit(c, p) = 2
<1>1. Attempts \in Nat \ {0}
  BY ConsumerAssumption
<1>2. CASE Chain(c)[p] = "Retry"
  BY <1>1, <1>2 DEF Limit
<1>3. CASE Chain(c)[p] # "Retry" /\ Chain(c)[p] = "Duplicator"
  BY <1>3 DEF Limit
<1>4. CASE Chain(c)[p] # "Retry" /\ Chain(c)[p] # "Duplicator"
  BY <1>4 DEF Limit
<1>. QED
  BY <1>1, <1>2, <1>3, <1>4

\* A sequence a message was added to, or taken from.
LEMMA QueueFacts ==
  ASSUME NEW S, NEW q \in Seq(S)
  PROVE  /\ \A e \in S : /\ Append(q, e) \in Seq(S) /\ Len(Append(q, e)) = Len(q) + 1
                         /\ ToSet(Append(q, e)) = ToSet(q) \cup {e}
         /\ \A s \in Seq(S) : q \o s \in Seq(S) /\ ToSet(q \o s) = ToSet(q) \cup ToSet(s)
         /\ q # <<>> => /\ Head(q) \in S /\ Tail(q) \in Seq(S) /\ Len(Tail(q)) = Len(q) - 1
                        /\ ToSet(q) = {Head(q)} \cup ToSet(Tail(q))
<1>1. ASSUME NEW e \in S
      PROVE  /\ Append(q, e) \in Seq(S) /\ Len(Append(q, e)) = Len(q) + 1
             /\ ToSet(Append(q, e)) = ToSet(q) \cup {e}
  BY AppendProperties, LenProperties DEF ToSet
<1>2. ASSUME NEW s \in Seq(S)
      PROVE  q \o s \in Seq(S) /\ ToSet(q \o s) = ToSet(q) \cup ToSet(s)
  <2>1. /\ q \o s \in Seq(S) /\ Len(q \o s) = Len(q) + Len(s)
        /\ DOMAIN q = 1..Len(q) /\ DOMAIN s = 1..Len(s) /\ DOMAIN (q \o s) = 1..Len(q) + Len(s)
        /\ Len(q) \in Nat /\ Len(s) \in Nat
    BY ConcatProperties, LenProperties
  <2>2. /\ \A i \in DOMAIN q : i \in DOMAIN (q \o s) /\ (q \o s)[i] = q[i]
        /\ \A i \in DOMAIN s : Len(q) + i \in DOMAIN (q \o s) /\ (q \o s)[Len(q) + i] = s[i]
    BY <2>1, ConcatProperties
  <2>3. \A i \in DOMAIN (q \o s) : \/ i \in DOMAIN q /\ (q \o s)[i] = q[i]
                                   \/ i - Len(q) \in DOMAIN s /\ (q \o s)[i] = s[i - Len(q)]
    BY <2>1, ConcatProperties
  <2>4. \A x : x \in ToSet(q \o s) => x \in ToSet(q) \cup ToSet(s)
    BY <2>3 DEF ToSet
  <2>5. \A x : x \in ToSet(q) \cup ToSet(s) => x \in ToSet(q \o s)
    BY <2>2 DEF ToSet
  <2>. QED
    BY <2>1, <2>4, <2>5
<1>3. ASSUME q # <<>>
      PROVE  /\ Head(q) \in S /\ Tail(q) \in Seq(S) /\ Len(Tail(q)) = Len(q) - 1
             /\ ToSet(q) = {Head(q)} \cup ToSet(Tail(q))
  <2>1. \A i \in DOMAIN q : i = 1 \/ (i - 1 \in DOMAIN Tail(q) /\ Tail(q)[i - 1] = q[i])
    BY <1>3
  <2>2. /\ 1 \in DOMAIN q /\ Head(q) = q[1]
        /\ \A i \in DOMAIN Tail(q) : i + 1 \in DOMAIN q /\ Tail(q)[i] = q[i + 1]
    BY <1>3
  <2>. QED
    BY <1>3, <2>1, <2>2, HeadTailProperties DEF ToSet
<1>. QED
  BY <1>1, <1>2, <1>3

LEMMA OneFacts ==
  /\ \A S : <<>> \in Seq(S) /\ ToSet(<<>>) = {} /\ Len(<<>>) = 0
  /\ \A S : \A e \in S : <<e>> \in Seq(S) /\ ToSet(<<e>>) = {e}
BY DEF ToSet

-----------------------------------------------------------------------------
(* What a step makes of the call a consumer works on.                      *)

\* Only the call of c changes, into t.
Becomes(c, t) ==
  /\ run' = [e \in Consumers |-> run'[e]]
  /\ \A e \in Consumers \ {c} : run'[e] = run[e]
  /\ run'[c] = t

CallOf(c) ==
  LET d == run[c].depth
      calls == run[c].calls
  IN [task |-> "down", id |-> run[c].id, depth |-> d + 1, result |-> run[c].result,
      calls |-> [p \in DOMAIN Chain(c) |->
                   IF p = d THEN calls[p] + 1 ELSE IF p > d THEN 0 ELSE calls[p]]]

ReturnOf(c, d, r) ==
  [task |-> "up", id |-> run[c].id, depth |-> d, result |-> r, calls |-> run[c].calls]

BeginOf(c, m) ==
  [task |-> "down", id |-> m, depth |-> 1, result |-> run[c].result, calls |-> run[c].calls]

LEMMA CallShape ==
  ASSUME RunOK, NEW c \in Consumers, Call(c)
  PROVE  Becomes(c, CallOf(c)) /\ failed' = failed
<1>1. run = [e \in Consumers |-> run[e]] /\ run[c] \in RunOf(c)
  BY DEF RunOK
<1>. QED
  BY <1>1 DEF Call, Becomes, CallOf, RunOf

LEMMA ReturnShape ==
  ASSUME RunOK, HistoryOK, NEW c \in Consumers, NEW d, NEW r, ReturnTo(c, d, r), Busy(c)
  PROVE  /\ Becomes(c, ReturnOf(c, d, r)) /\ failed' \in [Consumers -> SUBSET Ids]
         /\ \A e \in Consumers : failed[e] \subseteq failed'[e]
         /\ r # "ack" => run[c].id \in failed'[c]
         /\ r = "ack" => failed' = failed
<1>1. run = [e \in Consumers |-> run[e]] /\ run[c] \in RunOf(c) /\ run[c].id \in Ids
  BY DEF RunOK, Placed
<1>2. Becomes(c, ReturnOf(c, d, r))
  BY <1>1 DEF ReturnTo, Becomes, ReturnOf, RunOf
<1>3. failed \in [Consumers -> SUBSET Ids]
  BY DEF HistoryOK
<1>4. failed' = failed \/ failed' = [failed EXCEPT ![c] = @ \cup {run[c].id}]
  BY DEF ReturnTo
<1>5. r # "ack" => failed' = [failed EXCEPT ![c] = @ \cup {run[c].id}]
  BY DEF ReturnTo
<1>6. r = "ack" => failed' = failed
  BY DEF ReturnTo
<1>. QED
  BY <1>1, <1>2, <1>3, <1>4, <1>5, <1>6

LEMMA BeginShape ==
  ASSUME RunOK, NEW c \in Consumers, NEW m, Begin(c, m)
  PROVE  Becomes(c, BeginOf(c, m))
<1>1. run = [e \in Consumers |-> run[e]] /\ run[c] \in RunOf(c)
  BY DEF RunOK
<1>. QED
  BY <1>1 DEF Begin, Becomes, BeginOf, RunOf

\* If the new call stands where it may, every call does.
LEMMA RunStep ==
  ASSUME RunOK, app' = app, NEW c \in Consumers, NEW t, Becomes(c, t),
         t \in RunOf(c), Placed(c)', Counted(c)'
  PROVE  RunOK'
<1>1. \A e : Chain(e)' = Chain(e) /\ RunOf(e)' = RunOf(e)
  BY DEF Chain, RunOf
<1>2. \A e, p : Limit(e, p)' = Limit(e, p)
  BY <1>1 DEF Limit
<1>3. ASSUME NEW e \in Consumers, e # c
      PROVE  run'[e] \in RunOf(e)' /\ Placed(e)' /\ Counted(e)'
  <2>1. run'[e] = run[e] /\ run[e] \in RunOf(e) /\ Placed(e) /\ Counted(e)
    BY <1>3 DEF RunOK, Becomes
  <2>. QED
    BY <1>1, <1>2, <2>1 DEF Placed, Counted, Busy
<1>. QED
  BY <1>1, <1>3 DEF RunOK, Becomes

LEMMA CallRun ==
  ASSUME RunOK, AppOK, app' = app, NEW c \in Consumers, Call(c), Busy(c),
         run[c].depth \in DOMAIN Chain(c),
         run[c].calls[run[c].depth] < Limit(c, run[c].depth)
  PROVE  RunOK'
<1>1. Becomes(c, CallOf(c))
  BY CallShape
<1>2. run[c] \in RunOf(c) /\ Placed(c) /\ Counted(c)
  BY DEF RunOK
<1>3. DOMAIN Chain(c) = 1..Len(Chain(c)) /\ Len(Chain(c)) \in Nat
  BY ChainFacts DEF AppOK
<1>4. \A p : Limit(c, p) \in Nat \ {0}
  BY LimitFacts
<1>5. Chain(c)' = Chain(c) /\ \A p : Limit(c, p)' = Limit(c, p)
  BY DEF Chain, Limit
<1>. DEFINE t == CallOf(c)
<1>6. t \in RunOf(c)
  BY <1>2, <1>3 DEF RunOf, CallOf, Tasks
<1>0. Becomes(c, t)
  BY <1>1
<1>7. /\ t.task = "down" /\ t.id = run[c].id /\ t.depth = run[c].depth + 1
      /\ t.calls = [p \in DOMAIN Chain(c) |->
                     IF p = run[c].depth THEN run[c].calls[p] + 1
                     ELSE IF p > run[c].depth THEN 0 ELSE run[c].calls[p]]
  BY DEF CallOf
<1>8. /\ run[c].depth \in Nat /\ run[c].calls \in [DOMAIN Chain(c) -> Nat]
      /\ run[c].id \in Ids
  BY <1>2, <1>3 DEF RunOf, Placed
<1>9. run'[c] = t
  BY <1>1 DEF Becomes
<1>. HIDE DEF t
<1>10. Placed(c)'
  BY <1>7, <1>8, <1>9 DEF Placed, Busy
<1>11. Counted(c)'
  <2>. SUFFICES ASSUME NEW p \in DOMAIN Chain(c)
                PROVE  t.calls[p] <= Limit(c, p) /\ (t.depth <= p => t.calls[p] = 0)
    BY <1>5, <1>7, <1>9 DEF Counted
  <2>1. run[c].calls[p] <= Limit(c, p)
    BY <1>2 DEF Counted
  <2>. QED
    BY <1>3, <1>4, <1>7, <1>8, <2>1
<1>. QED
  BY <1>0, <1>6, <1>9, <1>10, <1>11, RunStep

LEMMA ReturnRun ==
  ASSUME RunOK, AppOK, HistoryOK, app' = app, NEW c \in Consumers, Busy(c),
         NEW d \in 0..Len(Chain(c)), NEW r \in Results, ReturnTo(c, d, r)
  PROVE  RunOK'
<1>1. Becomes(c, ReturnOf(c, d, r))
  BY ReturnShape
<1>2. run[c] \in RunOf(c) /\ Placed(c) /\ Counted(c)
  BY DEF RunOK
<1>3. DOMAIN Chain(c) = 1..Len(Chain(c)) /\ Len(Chain(c)) \in Nat
  BY ChainFacts DEF AppOK
<1>4. Chain(c)' = Chain(c) /\ \A p : Limit(c, p)' = Limit(c, p)
  BY DEF Chain, Limit
<1>. DEFINE t == ReturnOf(c, d, r)
<1>5. t \in RunOf(c)
  BY <1>2, <1>3 DEF RunOf, ReturnOf, Tasks
<1>0. Becomes(c, t)
  BY <1>1
<1>6. /\ t.task = "up" /\ t.id = run[c].id /\ t.depth = d /\ t.calls = run[c].calls
      /\ t = run'[c]
  BY <1>1 DEF ReturnOf, Becomes
<1>. HIDE DEF t
<1>7. Placed(c)'
  BY <1>2, <1>3, <1>4, <1>6 DEF Placed, Busy
<1>8. Counted(c)'
  BY <1>2, <1>4, <1>6 DEF Counted
<1>. QED
  BY <1>0, <1>5, <1>6, <1>7, <1>8, RunStep

LEMMA BeginRun ==
  ASSUME RunOK, AppOK, app' = app, NEW c \in Consumers, NEW m \in Ids, Begin(c, m)
  PROVE  RunOK'
<1>1. Becomes(c, BeginOf(c, m)) /\ run[c].task = "idle"
  BY BeginShape DEF Begin
<1>2. run[c] \in RunOf(c) /\ Placed(c) /\ Counted(c)
  BY DEF RunOK
<1>3. DOMAIN Chain(c) = 1..Len(Chain(c)) /\ Len(Chain(c)) \in Nat
  BY ChainFacts DEF AppOK
<1>4. Chain(c)' = Chain(c) /\ \A p : Limit(c, p)' = Limit(c, p)
  BY DEF Chain, Limit
<1>. DEFINE t == BeginOf(c, m)
<1>5. t \in RunOf(c)
  BY <1>2, <1>3 DEF RunOf, BeginOf, Tasks
<1>0. Becomes(c, t)
  BY <1>1
<1>6. /\ t.task = "down" /\ t.id = m /\ t.depth = 1 /\ t.calls = run[c].calls
      /\ t = run'[c]
  BY <1>1 DEF BeginOf, Becomes
<1>. HIDE DEF t
<1>7. Placed(c)'
  BY <1>6 DEF Placed, Busy
<1>8. Counted(c)'
  BY <1>1, <1>2, <1>4, <1>6 DEF Counted
<1>. QED
  BY <1>0, <1>5, <1>6, <1>7, <1>8, RunStep

\* A call that is over, or that a panic has ended.
LEMMA IdleFacts ==
  ASSUME app \in Deployments, NEW c \in Consumers, NEW t \in {Idle(c), Dead(c)}
  PROVE  /\ t \in RunOf(c) /\ t.task \in {"idle", "dead"}
         /\ \A p \in DOMAIN Chain(c) : t.calls[p] = 0
<1>1. DOMAIN Chain(c) = 1..Len(Chain(c)) /\ Len(Chain(c)) \in Nat
  BY ChainFacts
<1>2. t.id = 0 /\ t.depth = 0 /\ t.result = "ack" /\ t.task \in {"idle", "dead"}
  BY DEF Idle, Dead
<1>3. t.calls = [p \in DOMAIN Chain(c) |-> 0]
  BY DEF Idle, Dead
<1>4. t = [task |-> t.task, id |-> t.id, depth |-> t.depth, result |-> t.result,
           calls |-> t.calls]
  BY DEF Idle, Dead
<1>. QED
  BY <1>1, <1>2, <1>3, <1>4 DEF RunOf, Tasks, Results

LEMMA IdleRun ==
  ASSUME RunOK, AppOK, app' = app, NEW c \in Consumers, NEW t \in {Idle(c), Dead(c)},
         run' = [run EXCEPT ![c] = t]
  PROVE  RunOK' /\ Becomes(c, t)
<1>1. Becomes(c, t)
  BY DEF RunOK, Becomes
<1>2. /\ t \in RunOf(c) /\ t.task \in {"idle", "dead"}
      /\ \A p \in DOMAIN Chain(c) : t.calls[p] = 0
  BY IdleFacts DEF AppOK
<1>3. Chain(c)' = Chain(c) /\ \A p : Limit(c, p)' = Limit(c, p)
  BY DEF Chain, Limit
<1>4. t = run'[c] /\ \A p : Limit(c, p) \in Nat \ {0}
  BY <1>1, LimitFacts DEF Becomes
<1>5. Placed(c)'
  BY <1>2, <1>4 DEF Placed, Busy
<1>6. Counted(c)'
  BY <1>2, <1>3, <1>4 DEF Counted
<1>. QED
  BY <1>1, <1>2, <1>5, <1>6, RunStep

LEMMA FrameRun == ASSUME RunOK, app' = app, run' = run PROVE RunOK'
<1>1. \A c : Chain(c)' = Chain(c) /\ RunOf(c)' = RunOf(c)
  BY DEF Chain, RunOf
<1>2. \A c, p : Limit(c, p)' = Limit(c, p)
  BY <1>1 DEF Limit
<1>. QED
  BY <1>1, <1>2 DEF RunOK, Placed, Counted, Busy

LEMMA ReturnTask ==
  ASSUME RunOK, NEW c \in Consumers, NEW d, NEW r, ReturnTo(c, d, r)
  PROVE  run'[c].task = "up" /\ run'[c].result = r /\ run'[c].depth = d
<1>1. run = [e \in Consumers |-> run[e]] /\ run[c] \in RunOf(c)
  BY DEF RunOK
<1>. QED
  BY <1>1 DEF ReturnTo, RunOf

LEMMA CallTask ==
  ASSUME RunOK, NEW c \in Consumers, Call(c)
  PROVE  run'[c].task = "down" /\ run'[c].depth = run[c].depth + 1
<1>1. run'[c] = CallOf(c)
  BY CallShape DEF Becomes
<1>. QED
  BY <1>1 DEF CallOf

LEMMA BeginTask ==
  ASSUME RunOK, NEW c \in Consumers, NEW m, Begin(c, m)
  PROVE  run'[c].task = "down" /\ run'[c].depth = 1 /\ run'[c].id = m
<1>1. run'[c] = BeginOf(c, m)
  BY BeginShape DEF Becomes
<1>. QED
  BY <1>1 DEF BeginOf

-----------------------------------------------------------------------------
(* What the middlewares and the handlers do, step by step.                 *)

\* A middleware calls the next handler, for the first time or, as often as its
\* limit allows, again; or it returns to the one outside.
Moves(c) ==
  /\ Busy(c) /\ run[c].depth \in DOMAIN Chain(c)
  /\ \/ Call(c) /\ run[c].calls[run[c].depth] < Limit(c, run[c].depth)
     \/ \E r \in Results : Return(c, r)

LEMMA CallMoves ==
  ASSUME RunOK, NEW c \in Consumers, run[c].depth \in DOMAIN Chain(c), Call(c),
         \/ run[c].task = "down"
         \/ Busy(c) /\ run[c].calls[run[c].depth] < Limit(c, run[c].depth)
  PROVE  Moves(c)
<1>1. CASE run[c].task = "down"
  <2>1. Counted(c) /\ run[c] \in RunOf(c)
    BY DEF RunOK
  <2>2. run[c].depth <= run[c].depth
    BY <2>1 DEF RunOf
  <2>3. run[c].calls[run[c].depth] = 0
    BY <1>1, <2>1, <2>2 DEF Counted
  <2>4. Limit(c, run[c].depth) \in Nat \ {0}
    BY LimitFacts
  <2>. QED
    BY <1>1, <2>3, <2>4 DEF Moves, Busy
<1>2. CASE Busy(c) /\ run[c].calls[run[c].depth] < Limit(c, run[c].depth)
  BY <1>2 DEF Moves
<1>. QED
  BY <1>1, <1>2

LEMMA ReturnMoves ==
  ASSUME NEW c \in Consumers, Busy(c), run[c].depth \in DOMAIN Chain(c), NEW r \in Results,
         Return(c, r)
  PROVE  Moves(c)
BY DEF Moves

\* Where a middleware is called or has its result.
LEMMA HereFacts ==
  ASSUME RunOK, NEW c \in Consumers, NEW mw, Down(c, mw) \/ Up(c, mw)
  PROVE  /\ Busy(c) /\ run[c].depth \in DOMAIN Chain(c) /\ Result(c) \in Results
         /\ Chain(c)[run[c].depth] = mw
         /\ (Down(c, mw) => run[c].task = "down") /\ (Up(c, mw) => run[c].task = "up")
BY DEF RunOK, RunOf, Down, Up, Here, Busy, Result

LEMMA ThroughMoves ==
  ASSUME RunOK, NEW c \in Consumers, NEW mw, Through(c, mw)
  PROVE  Moves(c)
<1>1. CASE Down(c, mw) /\ Call(c)
  BY <1>1, HereFacts, CallMoves
<1>2. CASE Up(c, mw) /\ Return(c, Result(c))
  BY <1>2, HereFacts, ReturnMoves
<1>. QED
  BY <1>1, <1>2 DEF Through

LEMMA RetryMoves ==
  ASSUME RunOK, NEW c \in Consumers, Retry(c)
  PROVE  Moves(c)
<1>1. CASE Down(c, "Retry") /\ Call(c)
  BY <1>1, HereFacts, CallMoves
<1>2. CASE Up(c, "Retry") /\ Again(c) /\ Call(c)
  <2>1. Limit(c, run[c].depth) = Attempts
    BY <1>2, HereFacts, LimitFacts
  <2>. QED
    BY <1>2, <2>1, HereFacts, CallMoves DEF Again, Calls
<1>3. CASE Up(c, "Retry") /\ Return(c, Result(c))
  BY <1>3, HereFacts, ReturnMoves
<1>. QED
  BY <1>1, <1>2, <1>3 DEF Retry

LEMMA DuplicatorMoves ==
  ASSUME RunOK, NEW c \in Consumers, Duplicator(c)
  PROVE  Moves(c)
<1>1. CASE Down(c, "Duplicator") /\ Call(c)
  BY <1>1, HereFacts, CallMoves
<1>2. CASE Up(c, "Duplicator") /\ Calls(c) = 1 /\ Call(c)
  <2>1. Limit(c, run[c].depth) = 2
    BY <1>2, HereFacts, LimitFacts
  <2>. QED
    BY <1>2, <2>1, HereFacts, CallMoves DEF Calls
<1>3. CASE Up(c, "Duplicator") /\ Return(c, Result(c))
  BY <1>3, HereFacts, ReturnMoves
<1>. QED
  BY <1>1, <1>2, <1>3 DEF Duplicator

LEMMA OthersMove ==
  ASSUME RunOK, NEW c \in Consumers,
         \/ Recoverer(c) \/ IgnoreErrors(c) \/ RandomFail(c) \/ PoisonQueue(c)
         \/ Deduplicator(c) \/ CircuitBreaker(c)
  PROVE  Moves(c)
<1>. DEFINE Names == {"Recoverer", "IgnoreErrors", "RandomFail", "PoisonQueue",
                      "Deduplicator", "RouterDeduplicator", "UuidDeduplicator",
                      "CircuitBreaker"}
<1>1. \E mw \in Names : \/ Down(c, mw) /\ Call(c)
                        \/ \E r \in Results : (Down(c, mw) \/ Up(c, mw)) /\ Return(c, r)
  <2>1. CASE Recoverer(c)
    <3>1. Down(c, "Recoverer") \/ Up(c, "Recoverer")
      BY <2>1 DEF Recoverer
    <3>2. Result(c) \in Results /\ "err" \in Results
      BY <3>1, HereFacts DEF Results
    <3>. QED
      BY <2>1, <3>2 DEF Recoverer
  <2>2. CASE IgnoreErrors(c)
    <3>1. Down(c, "IgnoreErrors") \/ Up(c, "IgnoreErrors")
      BY <2>2 DEF IgnoreErrors
    <3>2. Result(c) \in Results /\ "ack" \in Results
      BY <3>1, HereFacts DEF Results
    <3>. QED
      BY <2>2, <3>2 DEF IgnoreErrors
  <2>3. CASE RandomFail(c)
    <3>1. Down(c, "RandomFail") \/ Up(c, "RandomFail")
      BY <2>3 DEF RandomFail
    <3>2. Result(c) \in Results /\ "err" \in Results
      BY <3>1, HereFacts DEF Results
    <3>. QED
      BY <2>3, <3>2 DEF RandomFail
  <2>4. CASE PoisonQueue(c)
    <3>1. Down(c, "PoisonQueue") \/ Up(c, "PoisonQueue")
      BY <2>4 DEF PoisonQueue
    <3>2. Result(c) \in Results /\ "ack" \in Results
      BY <3>1, HereFacts DEF Results
    <3>. QED
      BY <2>4, <3>2 DEF PoisonQueue
  <2>5. CASE Deduplicator(c)
    <3>1. PICK mw \in {"Deduplicator", "RouterDeduplicator", "UuidDeduplicator"} :
            \/ Down(c, mw) /\ Return(c, "ack")
            \/ Down(c, mw) /\ Call(c)
            \/ Up(c, mw) /\ Return(c, Result(c))
      BY <2>5 DEF Deduplicator
    <3>2. Result(c) \in Results /\ "ack" \in Results
      BY <3>1, HereFacts DEF Results
    <3>. QED
      BY <3>1, <3>2
  <2>6. CASE CircuitBreaker(c)
    <3>1. Down(c, "CircuitBreaker") \/ Up(c, "CircuitBreaker")
      BY <2>6 DEF CircuitBreaker
    <3>2. Result(c) \in Results /\ "err" \in Results /\ "panic" \in Results
      BY <3>1, HereFacts DEF Results
    <3>. QED
      BY <2>6, <3>2 DEF CircuitBreaker
  <2>. QED
    BY <2>1, <2>2, <2>3, <2>4, <2>5, <2>6
<1>. QED
  BY <1>1, HereFacts, CallMoves, ReturnMoves

LEMMA WrapMoves ==
  ASSUME RunOK, NEW c \in Consumers, Wrap(c)
  PROVE  Moves(c)
BY ThroughMoves, RetryMoves, DuplicatorMoves, OthersMove
   DEF Wrap, Throttle, DelayOnError, CorrelationId, InstantAck, Telemetry, Timeout

\* All it changes besides its call.
LEMMA WrapEffects ==
  ASSUME NEW c \in Consumers, Wrap(c)
  PROVE  /\ UNCHANGED <<appVars, stream, clientVars, acked, burst>>
         /\ queue' \in {queue, Poisoned(c)} /\ (faults' = faults \/ Fault)
         /\ \/ seen' = seen
            \/ \E mw \in {"Deduplicator", "RouterDeduplicator", "UuidDeduplicator"} :
                 Down(c, mw) /\ seen' = seen \cup Keys(c)
         /\ done' = done \/ done' = [done EXCEPT ![c] = @ \cup {run[c].id}]
         /\ breaker' = breaker \/ RecordSuccess(c) \/ RecordFailure(c)
<1>1. CASE \/ Throttle(c) \/ DelayOnError(c) \/ CorrelationId(c) \/ InstantAck(c)
           \/ Telemetry(c) \/ Timeout(c)
  BY <1>1 DEF Throttle, DelayOnError, CorrelationId, InstantAck, Telemetry, Timeout,
              Through, topicVars, memVars
<1>2. CASE Retry(c) \/ Duplicator(c) \/ Recoverer(c)
  BY <1>2 DEF Retry, Duplicator, Recoverer, topicVars, memVars
<1>3. CASE IgnoreErrors(c)
  BY <1>3 DEF IgnoreErrors, topicVars, memVars
<1>4. CASE RandomFail(c)
  BY <1>4 DEF RandomFail, topicVars, memVars
<1>5. CASE PoisonQueue(c)
  BY <1>5 DEF PoisonQueue, memVars
<1>6. CASE Deduplicator(c)
  BY <1>6 DEF Deduplicator, topicVars
<1>7. CASE CircuitBreaker(c)
  BY <1>7 DEF CircuitBreaker, topicVars
<1>. QED
  BY <1>1, <1>2, <1>3, <1>4, <1>5, <1>6, <1>7 DEF Wrap

\* A handler returns, and what it changes besides.
LEMMA HandleEffects ==
  ASSUME RunOK, NEW c \in Consumers, Handle(c)
  PROVE  /\ run[c].task = "down" /\ run[c].depth = Len(Chain(c)) + 1
         /\ \E r \in Results : Finish(c, r)
         /\ UNCHANGED <<appVars, stream, memVars, clientVars, acked>>
         /\ queue' \in {queue, Relayed(c)} /\ (faults' = faults \/ Fault)
         /\ done' = done \/ Complete(c)
<1>1. CASE UserHandler(c)
  BY <1>1 DEF UserHandler, AtHandler, Results, topicVars
<1>2. CASE TypedHandler(c)
  BY <1>2 DEF TypedHandler, AtHandler, Results, topicVars
<1>3. CASE Forward(c)
  BY <1>3 DEF Forward, PublishThenAck, AtHandler, Results
<1>4. CASE Requeue(c)
  BY <1>4 DEF Requeue, PublishThenAck, AtHandler, Results
<1>5. CASE FanIn(c)
  BY <1>5 DEF FanIn, PublishThenAck, AtHandler, Results
<1>6. CASE Respond(c)
  BY <1>6 DEF Respond, PublishThenAck, AtHandler, Results
<1>. QED
  BY <1>1, <1>2, <1>3, <1>4, <1>5, <1>6 DEF Handle

\* The deployment stays, and a step of one consumer leaves the calls of the
\* others alone.
LEMMA AppFixed == ASSUME [Next]_vars PROVE app' = app
<1>1. ASSUME NEW c \in Consumers, Work(c) \/ Decorate(c) \/ ListenerNext(c)
                                  \/ TimeoutFires(c) \/ Tick(c)
      PROVE  app' = app
  <2>1. CASE Wrap(c)
    BY <2>1, WrapEffects DEF appVars
  <2>2. CASE Handle(c)
    BY <2>2 DEF Handle, UserHandler, TypedHandler, Forward, Requeue, FanIn, Respond, appVars
  <2>3. CASE Deliver(c) \/ Settle(c)
    BY <2>3 DEF Deliver, Begin, Settle, appVars
  <2>4. CASE Decorate(c) \/ ListenerNext(c) \/ TimeoutFires(c) \/ Tick(c)
    BY <2>4 DEF Decorate, TransformNext, DecodeNext, PassOn, ListenerNext, TimeoutFires,
                Tick, appVars
  <2>. QED
    BY <1>1, <2>1, <2>2, <2>3, <2>4 DEF Work
<1>2. ASSUME NEW r \in Ids,
             \/ Publish(r) \/ Await(r) \/ RequestStart(r) \/ RequestFails(r)
             \/ RequestDropped(r)
      PROVE  app' = app
  BY <1>2 DEF Publish, BusSend, ForwarderPublish, TransformPublish, EncodePublish,
     Produce, Await, RequestPublish, RequestReturns, RequestTimeout, RequestForget,
     RequestStart, RequestFails, RequestDropped, appVars
<1>3. CASE Crash \/ WindowEnds \/ UNCHANGED vars
  BY <1>3 DEF Crash, WindowEnds, vars, appVars
<1>. QED
  BY <1>1, <1>2, <1>3 DEF Next

LEMMA OtherRuns ==
  ASSUME RunOK, NEW c \in Consumers, NEW e \in Consumers, e # c,
         Wrap(c) \/ Handle(c) \/ Deliver(c) \/ Settle(c) \/ TimeoutFires(c) \/ Tick(c)
  PROVE  run'[e] = run[e]
<1>1. run = [x \in Consumers |-> run[x]]
  BY DEF RunOK
<1>2. CASE Call(c) \/ (\E r : Return(c, r)) \/ (\E d : ReturnTo(c, d, "err"))
  BY <1>1, <1>2 DEF Call, Return, ReturnTo
<1>3. Wrap(c) => Call(c) \/ \E r : Return(c, r)
  BY WrapMoves DEF Moves
<1>4. Handle(c) => \E r : Return(c, r)
  BY HandleEffects DEF Finish
<1>5. TimeoutFires(c) => \E d : ReturnTo(c, d, "err")
  BY DEF TimeoutFires
<1>6. CASE Deliver(c) \/ Settle(c) \/ Tick(c)
  BY <1>1, <1>6 DEF Deliver, Begin, Settle, Tick
<1>. QED
  BY <1>2, <1>3, <1>4, <1>5, <1>6

\* What may change the call of a consumer.
LEMMA RunChanges ==
  ASSUME RunOK, [Next]_vars, NEW c \in Consumers
  PROVE  \/ run'[c] = run[c] \/ Wrap(c) \/ Handle(c) \/ Deliver(c) \/ Settle(c)
         \/ TimeoutFires(c) \/ Crash
<1>1. ASSUME NEW e \in Consumers, \/ Work(e) \/ Decorate(e) \/ ListenerNext(e)
                                  \/ TimeoutFires(e) \/ Tick(e)
      PROVE  \/ run'[c] = run[c] \/ Wrap(c) \/ Handle(c) \/ Deliver(c) \/ Settle(c)
             \/ TimeoutFires(c)
  <2>1. CASE Decorate(e) \/ ListenerNext(e) \/ Tick(e)
    BY <2>1 DEF Decorate, TransformNext, DecodeNext, PassOn, ListenerNext, Tick
  <2>2. CASE e # c
    BY <1>1, <2>1, <2>2, OtherRuns DEF Work
  <2>. QED
    BY <1>1, <2>1, <2>2 DEF Work
<1>2. ASSUME NEW r \in Ids,
             \/ Publish(r) \/ Await(r) \/ RequestStart(r) \/ RequestFails(r)
             \/ RequestDropped(r)
      PROVE  run' = run
  BY <1>2 DEF Publish, BusSend, ForwarderPublish, TransformPublish, EncodePublish,
     Produce, Await, RequestPublish, RequestReturns, RequestTimeout, RequestForget,
     RequestStart, RequestFails, RequestDropped
<1>3. WindowEnds \/ UNCHANGED vars => run' = run
  BY DEF WindowEnds, vars
<1>. QED
  BY <1>1, <1>2, <1>3 DEF Next

-----------------------------------------------------------------------------
(* Every step keeps the types.                                             *)

LEMMA PublishedFacts ==
  ASSUME TopicsOK, NEW t, NEW id \in Ids
  PROVE  /\ Published(t, id) \in [Consumers -> Seq(Ids)]
         /\ \A c \in Consumers :
              ToSet(Published(t, id)[c])
                = ToSet(queue[c]) \cup (IF app.cons[c].topic = t THEN {id} ELSE {})
<1>1. ASSUME NEW c \in Consumers
      PROVE  /\ Append(queue[c], id) \in Seq(Ids) /\ queue[c] \in Seq(Ids)
             /\ ToSet(Append(queue[c], id)) = ToSet(queue[c]) \cup {id}
  <2>1. queue[c] \in Seq(Ids)
    BY DEF TopicsOK
  <2>. QED
    BY <2>1, QueueFacts
<1>. QED
  BY <1>1 DEF Published

LEMMA LeasesFacts ==
  ASSUME TopicsOK, RunOK, NEW c \in Consumers
  PROVE  /\ Leases(c) \in Seq(Ids)
         /\ ToSet(Leases(c)) = IF Leased(c)
                               THEN ToSet(stream[c]) \cup (IF Busy(c) THEN {run[c].id} ELSE {})
                               ELSE {}
<1>1. stream[c] \in Seq(Ids) /\ (Busy(c) => run[c].id \in Ids)
  BY DEF TopicsOK, RunOK, Placed
<1>. DEFINE own == IF run[c].task \in {"down", "up"} THEN <<run[c].id>> ELSE <<>>
<1>2. own \in Seq(Ids) /\ ToSet(own) = IF Busy(c) THEN {run[c].id} ELSE {}
  BY <1>1, OneFacts DEF Busy
<1>3. Leases(c) = IF ~Leased(c) THEN <<>> ELSE stream[c] \o own
  BY DEF Leases
<1>. HIDE DEF own
<1>4. stream[c] \o own \in Seq(Ids) /\ ToSet(stream[c] \o own) = ToSet(stream[c]) \cup ToSet(own)
  BY <1>1, <1>2, QueueFacts
<1>. QED
  BY <1>2, <1>3, <1>4, OneFacts

LEMMA MovesTypes ==
  ASSUME RunOK, AppOK, HistoryOK, app' = app, NEW c \in Consumers, Moves(c)
  PROVE  RunOK' /\ failed' \in [Consumers -> SUBSET Ids]
<1>1. DOMAIN Chain(c) = 1..Len(Chain(c)) /\ Len(Chain(c)) \in Nat
  BY ChainFacts DEF AppOK
<1>2. CASE Call(c) /\ run[c].calls[run[c].depth] < Limit(c, run[c].depth)
  BY <1>2, CallRun, CallShape DEF Moves, HistoryOK
<1>3. ASSUME NEW r \in Results, Return(c, r)
      PROVE  RunOK' /\ failed' \in [Consumers -> SUBSET Ids]
  <2>1. run[c].depth - 1 \in 0..Len(Chain(c)) /\ Busy(c)
    BY <1>1 DEF Moves
  <2>2. ReturnTo(c, run[c].depth - 1, r)
    BY <1>3 DEF Return
  <2>. QED
    BY <2>1, <2>2, ReturnRun, ReturnShape
<1>. QED
  BY <1>2, <1>3 DEF Moves

LEMMA QueueTypes ==
  ASSUME TopicsOK, NEW t, NEW id \in Ids, queue' \in {queue, Published(t, id)},
         stream' = stream
  PROVE  TopicsOK'
BY PublishedFacts DEF TopicsOK

LEMMA FaultTypes ==
  ASSUME AppOK, FaultsOK, app' = app, faults' = faults \/ Fault
  PROVE  FaultsOK'
<1>1. app.maxFaults \in Nat
  BY DeploymentAssumption DEF AppOK
<1>. QED
  BY <1>1 DEF FaultsOK, Fault

LEMMA ClientFrame == ASSUME ClientOK, UNCHANGED clientVars PROVE ClientOK'
BY DEF ClientOK, clientVars

LEMMA WrapTypes ==
  ASSUME Types, NEW c \in Consumers, Wrap(c)
  PROVE  Types'
<1>. USE DEF Types
<1>1. /\ UNCHANGED <<appVars, stream, clientVars, acked, burst>>
      /\ queue' \in {queue, Poisoned(c)} /\ (faults' = faults \/ Fault)
      /\ \/ seen' = seen
         \/ \E mw \in {"Deduplicator", "RouterDeduplicator", "UuidDeduplicator"} :
              Down(c, mw) /\ seen' = seen \cup Keys(c)
      /\ done' = done \/ done' = [done EXCEPT ![c] = @ \cup {run[c].id}]
      /\ breaker' = breaker \/ RecordSuccess(c) \/ RecordFailure(c)
  BY WrapEffects
<1>2. Moves(c)
  BY WrapMoves
<1>3. run[c].id \in Ids
  BY <1>2 DEF Moves, RunOK, Placed
<1>4. AppOK' /\ app' = app
  BY <1>1 DEF AppOK, appVars
<1>5. RunOK' /\ failed' \in [Consumers -> SUBSET Ids]
  BY <1>2, <1>4, MovesTypes
<1>6. TopicsOK'
  BY <1>1, <1>3, QueueTypes DEF Poisoned
<1>7. BreakerOK'
  BY <1>1, ConsumerAssumption DEF BreakerOK, RecordSuccess, RecordFailure, Since
<1>8. HistoryOK'
  BY <1>1, <1>3, <1>5 DEF HistoryOK
<1>9. SeenOK'
  <2>1. ASSUME NEW mw \in {"Deduplicator", "RouterDeduplicator", "UuidDeduplicator"},
               Down(c, mw)
        PROVE  Keys(c) \subseteq (Consumers \cup {"router"}) \X Ids
    <3>1. Scope(c) \subseteq Consumers \cup {"router"}
      BY <2>1 DEF Scope, Down, Here
    <3>. QED
      BY <1>3, <3>1 DEF Keys
  <2>. QED
    BY <1>1, <2>1 DEF SeenOK
<1>10. ClientOK' /\ FaultsOK'
  BY <1>1, <1>4, ClientFrame, FaultTypes
<1>. QED
  BY <1>4, <1>5, <1>6, <1>7, <1>8, <1>9, <1>10

LEMMA HandleTypes ==
  ASSUME Types, NEW c \in Consumers, Handle(c)
  PROVE  Types'
<1>. USE DEF Types
<1>1. /\ run[c].task = "down" /\ run[c].depth = Len(Chain(c)) + 1
      /\ UNCHANGED <<appVars, stream, memVars, clientVars, acked>>
      /\ queue' \in {queue, Relayed(c)} /\ (faults' = faults \/ Fault)
      /\ done' = done \/ Complete(c)
  BY HandleEffects
<1>2. PICK r \in Results : Finish(c, r)
  BY HandleEffects
<1>3. run[c].id \in Ids /\ Busy(c) /\ Len(Chain(c)) \in Nat
  BY <1>1, ChainFacts DEF RunOK, Placed, Busy, AppOK
<1>4. AppOK' /\ app' = app
  BY <1>1 DEF AppOK, appVars
<1>5. ReturnTo(c, Len(Chain(c)), r)
  BY <1>1, <1>2, <1>3 DEF Finish, Return
<1>6. RunOK' /\ failed' \in [Consumers -> SUBSET Ids]
  BY <1>3, <1>4, <1>5, ReturnRun, ReturnShape
<1>7. TopicsOK'
  BY <1>1, <1>3, QueueTypes DEF Relayed
<1>8. BreakerOK' /\ SeenOK'
  BY <1>1 DEF BreakerOK, SeenOK, memVars
<1>9. HistoryOK'
  <2>1. burst' \in [Consumers -> Nat]
    <3>1. burst \in [Consumers -> Nat]
      BY DEF HistoryOK
    <3>2. \/ r \in Errs /\ burst' = [burst EXCEPT ![c] = IF @ > MaxFailures THEN @ ELSE @ + 1]
          \/ r \in {"ack", "nack"} /\ burst' = [burst EXCEPT ![c] = 0]
          \/ r = "panic" /\ burst' = [burst EXCEPT ![c] = @]
      BY <1>2 DEF Finish, Results, Errs
    <3>. QED
      BY <3>1, <3>2
  <2>2. done' \in [Consumers -> SUBSET Ids]
    BY <1>1, <1>3 DEF HistoryOK, Complete
  <2>3. acked' \in [Consumers -> SUBSET Ids]
    BY <1>1 DEF HistoryOK
  <2>. QED
    BY <1>6, <2>1, <2>2, <2>3 DEF HistoryOK
<1>10. ClientOK' /\ FaultsOK'
  BY <1>1, <1>4, ClientFrame, FaultTypes
<1>. QED
  BY <1>4, <1>6, <1>7, <1>8, <1>9, <1>10

LEMMA DeliverTypes ==
  ASSUME Types, NEW c \in Consumers, Deliver(c)
  PROVE  Types'
<1>. USE DEF Types
<1>1. queue[c] \in Seq(Ids) /\ stream[c] \in Seq(Ids)
  BY DEF TopicsOK
<1>2. PICK m : /\ Begin(c, m)
               /\ \/ /\ queue[c] # <<>> /\ m = Head(queue[c]) /\ stream' = stream
                     /\ queue' = [queue EXCEPT ![c] = Tail(@)]
                  \/ /\ stream[c] # <<>> /\ m = Head(stream[c]) /\ queue' = queue
                     /\ stream' = [stream EXCEPT ![c] = Tail(@)]
  BY DEF Deliver
<1>3. m \in Ids /\ TopicsOK'
  <2>1. CASE queue[c] # <<>> /\ m = Head(queue[c]) /\ stream' = stream
             /\ queue' = [queue EXCEPT ![c] = Tail(@)]
    BY <1>1, <2>1, QueueFacts DEF TopicsOK
  <2>2. CASE stream[c] # <<>> /\ m = Head(stream[c]) /\ queue' = queue
             /\ stream' = [stream EXCEPT ![c] = Tail(@)]
    <3>1. /\ Head(stream[c]) \in Ids /\ Tail(stream[c]) \in Seq(Ids)
          /\ Len(Tail(stream[c])) = Len(stream[c]) - 1
      BY <1>1, <2>2, QueueFacts
    <3>2. Len(stream[c]) \in Nat /\ BufferSize \in Nat
      BY <1>1, ConsumerAssumption, LenProperties
    <3>3. stream' \in [Consumers -> Seq(Ids)] /\ \A e \in Consumers \ {c} : stream'[e] = stream[e]
      BY <2>2, <3>1 DEF TopicsOK
    <3>4. stream'[c] = Tail(stream[c])
      BY <2>2 DEF TopicsOK
    <3>. QED
      BY <2>2, <3>1, <3>2, <3>3, <3>4 DEF TopicsOK
  <2>. QED
    BY <1>2, <2>1, <2>2
<1>4. AppOK' /\ app' = app
  BY <1>2 DEF AppOK, appVars, Begin
<1>5. RunOK'
  BY <1>2, <1>3, <1>4, BeginRun
<1>6. UNCHANGED <<memVars, clientVars, done, failed, acked, burst, faults>>
  BY <1>2 DEF Begin
<1>. QED
  BY <1>3, <1>4, <1>5, <1>6, ClientFrame
  DEF BreakerOK, SeenOK, HistoryOK, FaultsOK, memVars

LEMMA SettleTypes ==
  ASSUME Types, NEW c \in Consumers, Settle(c)
  PROVE  Types'
<1>. USE DEF Types
<1>1. queue[c] \in Seq(Ids) /\ Busy(c) /\ run[c].id \in Ids
  BY DEF TopicsOK, Settle, Busy, RunOK, Placed
<1>2. AppOK' /\ app' = app
  BY DEF AppOK, appVars, Settle
<1>3. /\ Append(queue[c], run[c].id) \in Seq(Ids) /\ queue[c] \o Leases(c) \in Seq(Ids)
      /\ <<>> \in Seq(Ids) /\ Len(<<>>) = 0 /\ BufferSize \in Nat
  BY <1>1, QueueFacts, LeasesFacts, OneFacts, ConsumerAssumption
<1>4. TopicsOK'
  <2>1. /\ \/ queue' = queue \/ queue' = [queue EXCEPT ![c] = Append(@, run[c].id)]
           \/ queue' = [queue EXCEPT ![c] = @ \o Leases(c)]
        /\ stream' = stream \/ stream' = [stream EXCEPT ![c] = <<>>]
    BY DEF Settle, topicVars
  <2>2. queue' \in [Consumers -> Seq(Ids)]
    BY <1>3, <2>1 DEF TopicsOK
  <2>3. stream' \in [Consumers -> Seq(Ids)]
    BY <1>3, <2>1 DEF TopicsOK
  <2>4. ASSUME NEW e \in Consumers PROVE Len(stream'[e]) <= BufferSize
    <3>1. Len(stream[e]) <= BufferSize /\ stream \in [Consumers -> Seq(Ids)]
      BY DEF TopicsOK
    <3>2. stream'[e] = stream[e] \/ stream'[e] = <<>>
      BY <2>1, <3>1
    <3>. QED
      BY <1>3, <3>1, <3>2
  <2>. QED
    BY <2>2, <2>3, <2>4 DEF TopicsOK
<1>5. RunOK'
  <2>1. PICK t \in {Idle(c), Dead(c)} : run' = [run EXCEPT ![c] = t]
    BY DEF Settle
  <2>. QED
    BY <1>2, <2>1, IdleRun
<1>6. HistoryOK'
  BY <1>1 DEF HistoryOK, Settle
<1>. QED
  BY <1>2, <1>4, <1>5, <1>6, ClientFrame DEF Settle, BreakerOK, SeenOK, FaultsOK, memVars

LEMMA PublishTypes ==
  ASSUME Types, NEW id \in Ids, Publish(id)
  PROVE  Types'
<1>. USE DEF Types
<1>1. /\ UNCHANGED <<app, stream, run, memVars, clientVars, done, failed, acked, burst>>
      /\ unsent' = unsent \ {id} /\ produced' \in {produced, produced \cup {id}}
      /\ queue' \in {queue, Published(app.entry, id)} /\ (faults' = faults \/ Fault)
  BY DEF Publish, BusSend, ForwarderPublish, TransformPublish, EncodePublish, Produce,
         topicVars
<1>2. AppOK' /\ app' = app
  BY <1>1 DEF AppOK
<1>3. RunOK'
  BY <1>1, FrameRun
<1>. QED
  BY <1>1, <1>2, <1>3, QueueTypes, ClientFrame, FaultTypes
  DEF BreakerOK, SeenOK, HistoryOK, memVars

LEMMA DecorateTypes ==
  ASSUME Types, NEW c \in Consumers, Decorate(c)
  PROVE  Types'
<1>. USE DEF Types
<1>1. /\ UNCHANGED <<appVars, run, memVars, clientVars, done, failed, acked, burst, faults>>
      /\ queue[c] # <<>>
      /\ queue' \in {[queue EXCEPT ![c] = Tail(@)],
                     [queue EXCEPT ![c] = Append(Tail(@), Head(@))]}
      /\ \/ stream' = stream
         \/ /\ Len(stream[c]) < BufferSize
            /\ stream' = [stream EXCEPT ![c] = Append(@, Head(queue[c]))]
  BY DEF Decorate, TransformNext, DecodeNext, PassOn
<1>2. queue[c] \in Seq(Ids) /\ stream[c] \in Seq(Ids)
  BY DEF TopicsOK
<1>3. Head(queue[c]) \in Ids /\ Tail(queue[c]) \in Seq(Ids)
  BY <1>1, <1>2, QueueFacts
<1>4. /\ Append(Tail(queue[c]), Head(queue[c])) \in Seq(Ids)
      /\ Append(stream[c], Head(queue[c])) \in Seq(Ids)
      /\ Len(Append(stream[c], Head(queue[c]))) = Len(stream[c]) + 1
      /\ Len(stream[c]) \in Nat /\ BufferSize \in Nat
  BY <1>2, <1>3, QueueFacts, LenProperties, ConsumerAssumption
<1>5. TopicsOK'
  <2>1. queue' \in [Consumers -> Seq(Ids)]
    BY <1>1, <1>3, <1>4 DEF TopicsOK
  <2>2. stream' \in [Consumers -> Seq(Ids)]
    BY <1>1, <1>4 DEF TopicsOK
  <2>3. ASSUME NEW e \in Consumers PROVE Len(stream'[e]) <= BufferSize
    <3>1. Len(stream[e]) <= BufferSize /\ stream \in [Consumers -> Seq(Ids)]
      BY DEF TopicsOK
    <3>2. \/ stream'[e] = stream[e]
          \/ /\ Len(stream[c]) < BufferSize
             /\ stream'[e] = Append(stream[c], Head(queue[c]))
      BY <1>1, <3>1
    <3>. QED
      BY <1>4, <3>1, <3>2
  <2>. QED
    BY <2>1, <2>2, <2>3 DEF TopicsOK
<1>6. AppOK' /\ RunOK'
  BY <1>1, FrameRun DEF AppOK, appVars
<1>. QED
  BY <1>1, <1>5, <1>6, ClientFrame
  DEF BreakerOK, SeenOK, HistoryOK, FaultsOK, memVars, appVars

LEMMA ListenerTypes ==
  ASSUME Types, NEW c \in Consumers, ListenerNext(c)
  PROVE  Types'
<1>. USE DEF Types
<1>1. /\ UNCHANGED <<appVars, stream, run, memVars, client, done, failed, acked, burst,
                     faults>>
      /\ queue[c] # <<>> /\ queue' = [queue EXCEPT ![c] = Tail(@)]
      /\ \E r : /\ pending' = pending \ {r}
                /\ \/ answers' = answers
                   \/ r \in pending /\ answers' = answers \cup {r}
  BY DEF ListenerNext
<1>2. queue[c] \in Seq(Ids)
  BY DEF TopicsOK
<1>3. Tail(queue[c]) \in Seq(Ids)
  BY <1>1, <1>2, QueueFacts
<1>4. TopicsOK'
  BY <1>1, <1>3 DEF TopicsOK
<1>5. AppOK' /\ RunOK'
  BY <1>1, FrameRun DEF AppOK, appVars
<1>6. ClientOK'
  BY <1>1 DEF ClientOK
<1>. QED
  BY <1>1, <1>4, <1>5, <1>6 DEF BreakerOK, SeenOK, HistoryOK, FaultsOK, memVars, appVars

LEMMA RequestTypes ==
  ASSUME Types, NEW r \in Ids,
         Await(r) \/ RequestStart(r) \/ RequestFails(r) \/ RequestDropped(r)
  PROVE  Types'
<1>. USE DEF Types
<1>1. /\ UNCHANGED <<app, stream, run, memVars, done, failed, acked, burst>>
      /\ unsent' \in {unsent, unsent \ {r}} /\ produced' \in {produced, produced \cup {r}}
      /\ queue' \in {queue, Published(app.entry, r)} /\ (faults' = faults \/ Fault)
  BY DEF Await, RequestPublish, RequestReturns, RequestTimeout, RequestForget,
         RequestStart, RequestFails, RequestDropped, appVars, topicVars
<1>2. /\ \E s \in ClientStates : client' = [client EXCEPT ![r] = s]
      /\ pending' \subseteq pending \cup {r} /\ answers' \subseteq answers
  BY DEF Await, RequestPublish, RequestReturns, RequestTimeout, RequestForget,
         RequestStart, RequestFails, RequestDropped, ClientStates
<1>3. ClientOK'
  BY <1>2 DEF ClientOK
<1>4. AppOK' /\ app' = app
  BY <1>1 DEF AppOK
<1>5. RunOK'
  BY <1>1, FrameRun
<1>. QED
  BY <1>1, <1>3, <1>4, <1>5, QueueTypes, FaultTypes DEF BreakerOK, SeenOK, HistoryOK, memVars

LEMMA TimeoutTypes ==
  ASSUME Types, NEW c \in Consumers, TimeoutFires(c)
  PROVE  Types'
<1>. USE DEF Types
<1>1. PICK p \in DOMAIN Chain(c) : ReturnTo(c, p - 1, "err")
  BY DEF TimeoutFires
<1>2. /\ UNCHANGED <<appVars, topicVars, memVars, clientVars, done, acked, burst>>
      /\ Awaits(c) /\ Fault
  BY DEF TimeoutFires
<1>3. p - 1 \in 0..Len(Chain(c)) /\ "err" \in Results /\ Busy(c)
  BY <1>2, ChainFacts DEF AppOK, Results, Awaits, Busy
<1>4. AppOK' /\ app' = app
  BY <1>2 DEF AppOK, appVars
<1>5. RunOK' /\ failed' \in [Consumers -> SUBSET Ids]
  BY <1>1, <1>3, <1>4, ReturnRun, ReturnShape
<1>. QED
  BY <1>2, <1>4, <1>5, ClientFrame, FaultTypes
  DEF TopicsOK, BreakerOK, SeenOK, HistoryOK, topicVars, memVars

LEMMA TickTypes ==
  ASSUME Types, NEW c \in Consumers, Tick(c)
  PROVE  Types'
<1>. USE DEF Types
<1>1. /\ UNCHANGED <<appVars, topicVars, run, seen, clientVars, done, failed, acked>>
      /\ \E s \in Since : breaker' = [breaker EXCEPT ![c].since = s]
      /\ burst' = [burst EXCEPT ![c] = 0] /\ (faults' = faults \/ Fault)
  BY DEF Tick, Since
<1>2. BreakerOK'
  BY <1>1 DEF BreakerOK
<1>3. AppOK' /\ RunOK' /\ app' = app
  BY <1>1, FrameRun DEF AppOK, appVars
<1>4. HistoryOK'
  BY <1>1 DEF HistoryOK
<1>. QED
  BY <1>1, <1>2, <1>3, <1>4, ClientFrame, FaultTypes DEF TopicsOK, SeenOK, topicVars

LEMMA CrashTypes ==
  ASSUME Types, Crash
  PROVE  Types'
<1>. USE DEF Types
<1>1. AppOK' /\ app' = app
  BY DEF AppOK, appVars, Crash
<1>2. TopicsOK'
  <2>1. ASSUME NEW c \in Consumers PROVE queue[c] \o Leases(c) \in Seq(Ids)
    BY QueueFacts, LeasesFacts DEF TopicsOK
  <2>2. <<>> \in Seq(Ids) /\ Len(<<>>) = 0 /\ BufferSize \in Nat \ {0}
    BY OneFacts, ConsumerAssumption
  <2>. QED
    BY <2>1, <2>2 DEF TopicsOK, Crash
<1>3. RunOK'
  <2>1. run' = [c \in Consumers |-> Idle(c)] /\ \A c : Chain(c)' = Chain(c)
    BY <1>1 DEF Crash, Chain
  <2>2. \A c, p : Limit(c, p)' = Limit(c, p)
    BY <2>1 DEF Limit
  <2>3. ASSUME NEW c \in Consumers PROVE run'[c] \in RunOf(c)' /\ Placed(c)' /\ Counted(c)'
    <3>1. run'[c] \in RunOf(c) /\ run'[c].task = "idle"
          /\ \A p \in DOMAIN Chain(c) : run'[c].calls[p] = 0
      BY <2>1, IdleFacts DEF AppOK, Idle
    <3>2. \A p : Limit(c, p) \in Nat \ {0}
      BY LimitFacts
    <3>. QED
      BY <2>1, <2>2, <3>1, <3>2 DEF RunOf, Placed, Counted, Busy
  <2>. QED
    BY <2>1, <2>3 DEF RunOK
<1>4. BreakerOK'
  BY ConsumerAssumption DEF Crash, BreakerOK, Closed, Since
<1>5. HistoryOK' /\ SeenOK'
  BY DEF Crash, HistoryOK, SeenOK
<1>6. ClientOK' /\ FaultsOK'
  BY <1>1, ClientFrame, FaultTypes DEF Crash
<1>. QED
  BY <1>1, <1>2, <1>3, <1>4, <1>5, <1>6

LEMMA WindowTypes ==
  ASSUME Types, WindowEnds
  PROVE  Types'
<1>. USE DEF Types
<1>1. AppOK' /\ RunOK'
  BY FrameRun DEF AppOK, appVars, WindowEnds
<1>2. SeenOK'
  BY DEF WindowEnds, SeenOK
<1>. QED
  BY <1>1, <1>2, ClientFrame
  DEF WindowEnds, TopicsOK, BreakerOK, HistoryOK, FaultsOK, appVars, topicVars

LEMMA TypesInit == ASSUME Init PROVE Types
<1>1. AppOK
  BY DeploymentAssumption DEF Init, AppOK
<1>2. TopicsOK
  BY OneFacts, ConsumerAssumption DEF Init, TopicsOK
<1>3. RunOK
  <2>1. run = [c \in Consumers |-> Idle(c)]
    BY DEF Init
  <2>2. ASSUME NEW c \in Consumers PROVE run[c] \in RunOf(c) /\ Placed(c) /\ Counted(c)
    <3>1. run[c] \in RunOf(c) /\ run[c].task = "idle"
          /\ \A p \in DOMAIN Chain(c) : run[c].calls[p] = 0
      BY <1>1, <2>1, IdleFacts DEF AppOK, Idle
    <3>2. \A p : Limit(c, p) \in Nat \ {0}
      BY LimitFacts
    <3>. QED
      BY <3>1, <3>2 DEF Placed, Counted, Busy
  <2>. QED
    BY <2>1, <2>2 DEF RunOK
<1>4. BreakerOK
  BY ConsumerAssumption DEF Init, BreakerOK, Closed, Since
<1>5. HistoryOK /\ SeenOK
  BY DEF Init, HistoryOK, SeenOK
<1>6. ClientOK
  BY DEF Init, ClientOK, ClientStates
<1>7. FaultsOK
  BY <1>1, DeploymentAssumption DEF Init, FaultsOK, AppOK
<1>. QED
  BY <1>1, <1>2, <1>3, <1>4, <1>5, <1>6, <1>7 DEF Types

LEMMA TypesFrame == ASSUME Types, UNCHANGED vars PROVE Types'
<1>1. RunOK'
  BY FrameRun DEF Types, vars, appVars
<1>. QED
  BY <1>1, ClientFrame
  DEF Types, vars, AppOK, TopicsOK, BreakerOK, HistoryOK, SeenOK, FaultsOK,
      appVars, topicVars, memVars

LEMMA TypesStep == ASSUME Types, [Next]_vars PROVE Types'
<1>1. CASE UNCHANGED vars
  BY <1>1, TypesFrame
<1>2. CASE Crash \/ WindowEnds
  BY <1>2, CrashTypes, WindowTypes
<1>3. ASSUME NEW c \in Consumers, Work(c) \/ Decorate(c) PROVE Types'
  BY <1>3, DeliverTypes, WrapTypes, HandleTypes, SettleTypes, DecorateTypes DEF Work
<1>4. ASSUME NEW c \in Consumers, ListenerNext(c) \/ TimeoutFires(c) \/ Tick(c) PROVE Types'
  BY <1>4, ListenerTypes, TimeoutTypes, TickTypes
<1>5. ASSUME NEW r \in Ids, Publish(r) PROVE Types'
  BY <1>5, PublishTypes
<1>6. ASSUME NEW r \in Ids,
             Await(r) \/ RequestStart(r) \/ RequestFails(r) \/ RequestDropped(r)
      PROVE  Types'
  BY <1>6, RequestTypes
<1>. QED
  BY <1>1, <1>2, <1>3, <1>4, <1>5, <1>6 DEF Next

LEMMA TypesImply == ASSUME Types PROVE TypeOK
<1>. USE DEF Types
<1>1. ASSUME NEW c \in Consumers
      PROVE  /\ Len(stream[c]) <= BufferSize
             /\ run[c].task \in {"idle", "down", "up", "dead"} /\ run[c].result \in Results
             /\ run[c].depth \in 0..Len(Chain(c)) + 1
             /\ \A p \in DOMAIN Chain(c) : run[c].calls[p] \in
                  0..(CASE Chain(c)[p] = "Retry" -> Attempts
                        [] Chain(c)[p] = "Duplicator" -> 2 [] OTHER -> 1)
             /\ breaker[c].failures \in 0..MaxFailures + 1
             /\ breaker[c].since \in {"recent", "elapsed", "negative"}
  <2>1. Len(stream[c]) <= BufferSize
    BY DEF TopicsOK
  <2>2. run[c] \in RunOf(c) /\ Counted(c)
    BY DEF RunOK
  <2>3. ASSUME NEW p \in DOMAIN Chain(c) PROVE run[c].calls[p] \in 0..Limit(c, p)
    BY <2>2, <2>3, LimitFacts DEF RunOf, Counted
  <2>4. breaker[c].failures \in 0..MaxFailures + 1 /\ breaker[c].since \in Since
    BY DEF BreakerOK
  <2>. QED
    BY <2>1, <2>2, <2>3, <2>4 DEF RunOf, Tasks, Since, Limit
<1>. QED
  BY <1>1 DEF TypeOK, AppOK, TopicsOK, ClientOK, FaultsOK

\* Whatever the application is built of, every variable keeps its type, a call in
\* progress is at its place in the chain, and a Retry has called at most Attempts
\* times, a Duplicator twice, and every other middleware once.
THEOREM TypeCorrect == Spec => []TypeOK
<1>1. Spec => []Types
  BY TypesInit, TypesStep, PTL DEF Spec
<1>. QED
  BY <1>1, TypesImply, PTL

-----------------------------------------------------------------------------
(* The circuit breaker.  A call inside it was let in by a breaker that was  *)
(* not open, and an error of the handler the breaker has yet to record is   *)
(* on its way up to it: nothing in between swallows it or calls again.      *)

Inside(c, p) ==
  \/ run[c].task = "down" /\ run[c].depth > p
  \/ run[c].task = "up" /\ run[c].depth >= p

Raised(c, p) == run[c].task = "up" /\ run[c].depth >= p /\ run[c].result \in Errs

Recorded(c) == IF breaker[c].since = "recent" THEN breaker[c].failures ELSE 0

Guarded(c, p) ==
  /\ Inside(c, p) /\ breaker[c].since = "recent" => breaker[c].failures < MaxFailures
  /\ Inside(c, p) /\ run[c].task = "up" /\ run[c].result \in {"ack", "nack"} => burst[c] = 0
  /\ burst[c] <= IF breaker[c].since = "recent" THEN MaxFailures ELSE 1
  /\ burst[c] <= Recorded(c) + (IF Raised(c, p) THEN 1 ELSE 0)

BreakerInv ==
  \A c \in Consumers : \A p \in DOMAIN Chain(c) :
    Chain(c)[p] = "CircuitBreaker" => Guarded(c, p)

\* What stands outside the breaker is no breaker, and what stands inside it
\* neither calls twice nor turns an error around.
LEMMA BreakerPlace ==
  ASSUME app \in Deployments, NEW c \in Consumers, NEW p \in DOMAIN Chain(c),
         Chain(c)[p] = "CircuitBreaker", NEW q \in DOMAIN Chain(c)
  PROVE  /\ q < p => Chain(c)[q] # "CircuitBreaker"
         /\ p < q => \/ Chain(c)[q] \in Transparent
                     \/ /\ Chain(c)[q] = "DelayOnError"
                        /\ \A t \in DOMAIN Chain(c) : Chain(c)[t] # "Timeout"
<1>1. \A t \in DOMAIN Chain(c) : Chain(c)[t] \in ToSet(Chain(c))
  BY DEF ToSet
<1>2. p < q => \/ Chain(c)[q] \in Transparent
               \/ Chain(c)[q] = "DelayOnError" /\ "Timeout" \notin ToSet(Chain(c))
  BY CircuitAssumption DEF Chain
<1>3. q < p /\ Chain(c)[q] = "CircuitBreaker" => Chain(c)[p] \in Transparent \cup {"DelayOnError"}
  BY CircuitAssumption DEF Chain
<1>. QED
  BY <1>1, <1>2, <1>3 DEF Transparent

LEMMA TransparentStep ==
  ASSUME NEW c \in Consumers, Wrap(c), run[c].depth \in DOMAIN Chain(c),
         Chain(c)[run[c].depth] \in Transparent \cup {"DelayOnError"}
  PROVE  /\ breaker' = breaker
         /\ \/ run[c].task = "down" /\ (Call(c) \/ Return(c, "err"))
            \/ run[c].task = "up" /\ Return(c, Result(c))
            \/ run[c].task = "up" /\ Result(c) = "panic" /\ Return(c, "err")
            \/ run[c].task = "up" /\ Result(c) \notin Errs /\ Call(c)
<1>. DEFINE mw == Chain(c)[run[c].depth]
<1>1. \A n : Down(c, n) \/ Up(c, n) => n = mw
  BY DEF Down, Up, Here
<1>2. mw \in {"Throttle", "CorrelationId", "InstantAck", "Telemetry", "Timeout",
              "DelayOnError", "Recoverer", "RandomFail", "Duplicator", "UuidDeduplicator"}
  BY DEF Transparent
<1>3. CASE \E n \in {"Throttle", "CorrelationId", "InstantAck", "Telemetry", "Timeout",
                     "DelayOnError"} : Through(c, n)
  BY <1>3 DEF Through, memVars, Down, Up
<1>4. CASE Recoverer(c)
  BY <1>4 DEF Recoverer, memVars, Down, Up
<1>5. CASE RandomFail(c)
  BY <1>5 DEF RandomFail, memVars, Down, Up
<1>6. CASE Duplicator(c)
  BY <1>6 DEF Duplicator, memVars, Down, Up, Errs
<1>7. CASE Deduplicator(c)
  <2>1. PICK n \in {"Deduplicator", "RouterDeduplicator", "UuidDeduplicator"} :
          /\ Down(c, n) \/ Up(c, n)
          /\ \/ Down(c, n) /\ IsDuplicate(c)
             \/ Down(c, n) /\ Call(c)
             \/ Up(c, n) /\ Return(c, Result(c))
    BY <1>7 DEF Deduplicator
  <2>2. n = "UuidDeduplicator"
    <3>. HIDE DEF mw
    <3>. QED
      BY <1>1, <1>2, <2>1
  <2>3. Down(c, n) => ~IsDuplicate(c)
    <3>1. Down(c, n) => Scope(c) = {}
      BY <2>2 DEF Scope, Down, Here
    <3>. QED
      BY <3>1 DEF IsDuplicate, Keys
  <2>4. breaker' = breaker
    BY <1>7 DEF Deduplicator
  <2>. QED
    BY <2>1, <2>3, <2>4 DEF Down, Up
<1>8. CASE Retry(c) \/ IgnoreErrors(c) \/ PoisonQueue(c) \/ CircuitBreaker(c)
  <2>1. \E n \in {"Retry", "IgnoreErrors", "PoisonQueue", "CircuitBreaker"} :
          Down(c, n) \/ Up(c, n)
    BY <1>8 DEF Retry, IgnoreErrors, PoisonQueue, CircuitBreaker
  <2>. HIDE DEF mw
  <2>. QED
    BY <1>1, <1>2, <2>1
<1>. QED
  BY <1>3, <1>4, <1>5, <1>6, <1>7, <1>8
  DEF Wrap, Throttle, DelayOnError, CorrelationId, InstantAck, Telemetry, Timeout

\* Away from its breaker nothing changes it.
LEMMA OutsideBreaker ==
  ASSUME NEW c \in Consumers, Wrap(c), run[c].depth \in DOMAIN Chain(c),
         Chain(c)[run[c].depth] # "CircuitBreaker"
  PROVE  breaker' = breaker
<1>1. ~Down(c, "CircuitBreaker") /\ ~Up(c, "CircuitBreaker")
  BY DEF Down, Up, Here
<1>. QED
  BY <1>1 DEF Wrap, Throttle, DelayOnError, CorrelationId, InstantAck, Telemetry, Timeout,
     Through, Retry, Duplicator, Recoverer, IgnoreErrors, RandomFail, PoisonQueue,
     Deduplicator, CircuitBreaker, memVars

LEMMA GuardedFrame ==
  ASSUME app' = app, NEW c \in Consumers, run'[c] = run[c], breaker'[c] = breaker[c],
         burst'[c] = burst[c], NEW p \in DOMAIN Chain(c), Guarded(c, p)
  PROVE  Guarded(c, p)'
BY DEF Guarded, Inside, Raised, Recorded

\* Inside the breaker an error that is on its way stays one.
LEMMA GuardedInside ==
  ASSUME NEW c \in Consumers, breaker'[c] = breaker[c], burst'[c] = burst[c],
         burst[c] \in Nat, Recorded(c) \in Nat, NEW p, Guarded(c, p), Inside(c, p),
         Raised(c, p) => Raised(c, p)',
         run'[c].task = "up" /\ run'[c].result \in {"ack", "nack"} => burst[c] = 0
  PROVE  Guarded(c, p)'
<1>1. Recorded(c)' = Recorded(c)
  BY DEF Recorded
<1>. QED
  BY <1>1 DEF Guarded

\* The breaker's own step, and what goes on outside and inside of it.
LEMMA BreakerStep ==
  ASSUME Types, NEW c \in Consumers, CircuitBreaker(c),
         NEW p \in Nat, p = run[c].depth, Guarded(c, p)
  PROVE  Guarded(c, p)' /\ \A e \in Consumers \ {c} : breaker'[e] = breaker[e]
<1>1. p \in Nat /\ burst[c] \in Nat /\ burst' = burst
  BY DEF Types, HistoryOK, CircuitBreaker
<1>2. /\ breaker \in [Consumers -> [failures : 0..MaxFailures + 1, since : Since]]
      /\ MaxFailures \in Nat \ {0} /\ breaker[c].failures \in 0..MaxFailures + 1
  BY ConsumerAssumption DEF Types, BreakerOK
<1>3. \A q : Guarded(c, q)' <=>
        /\ Inside(c, q)' /\ breaker'[c].since = "recent" => breaker'[c].failures < MaxFailures
        /\ Inside(c, q)' /\ run'[c].task = "up" /\ run'[c].result \in {"ack", "nack"}
             => burst'[c] = 0
        /\ burst'[c] <= IF breaker'[c].since = "recent" THEN MaxFailures ELSE 1
        /\ burst'[c] <= Recorded(c)' + (IF Raised(c, q)' THEN 1 ELSE 0)
  BY DEF Guarded
<1>4. ASSUME NEW r, Return(c, r) PROVE ~Inside(c, p)' /\ ~Raised(c, p)'
  <2>1. ReturnTo(c, p - 1, r) /\ RunOK
    BY <1>4 DEF Return, Types
  <2>2. run'[c].task = "up" /\ run'[c].depth = p - 1
    BY <2>1, ReturnTask
  <2>. QED
    BY <1>1, <2>2 DEF Inside, Raised
<1>5. CASE Down(c, "CircuitBreaker") /\ Return(c, "err") /\ UNCHANGED breaker
  BY <1>1, <1>2, <1>4, <1>5 DEF Guarded, Recorded, Down, Raised
<1>6. CASE Down(c, "CircuitBreaker") /\ Return(c, "panic") /\ UNCHANGED breaker
  BY <1>1, <1>2, <1>4, <1>6 DEF Guarded, Recorded, Down, Raised
<1>7. CASE Down(c, "CircuitBreaker") /\ ~IsOpen(c) /\ Call(c) /\ UNCHANGED breaker
  <2>1. run'[c].task = "down"
    BY <1>7, CallTask DEF Types
  <2>. QED
    BY <1>1, <1>2, <1>7, <2>1 DEF Guarded, Recorded, Down, Raised, Inside, IsOpen
<1>8. CASE /\ Up(c, "CircuitBreaker") /\ Result(c) \in {"ack", "nack"}
           /\ RecordSuccess(c) /\ Return(c, Result(c))
  <2>1. burst[c] = 0
    BY <1>1, <1>8 DEF Guarded, Inside, Up, Result
  <2>2. /\ breaker'[c].failures = 0 /\ breaker'[c].since = breaker[c].since
        /\ \A e \in Consumers \ {c} : breaker'[e] = breaker[e]
    BY <1>2, <1>8 DEF RecordSuccess
  <2>. QED
    BY <1>1, <1>2, <1>4, <1>8, <2>1, <2>2 DEF Guarded, Recorded
<1>9. CASE /\ Up(c, "CircuitBreaker") /\ Result(c) \in Errs
           /\ RecordFailure(c) /\ Return(c, Result(c))
  <2>1. /\ breaker[c].since = "recent" => breaker[c].failures < MaxFailures
        /\ burst[c] <= IF breaker[c].since = "recent" THEN MaxFailures ELSE 1
        /\ burst[c] <= Recorded(c) + 1
    BY <1>1, <1>2, <1>9 DEF Guarded, Inside, Up, Raised, Result, Recorded
  <2>2. /\ breaker'[c].since = "recent"
        /\ breaker'[c].failures = IF breaker[c].failures > MaxFailures
                                  THEN breaker[c].failures ELSE breaker[c].failures + 1
        /\ \A e \in Consumers \ {c} : breaker'[e] = breaker[e]
    BY <1>2, <1>9 DEF RecordFailure
  <2>3. burst[c] <= breaker'[c].failures /\ burst[c] <= MaxFailures
    BY <1>1, <1>2, <2>1, <2>2 DEF Recorded
  <2>. QED
    BY <1>1, <1>2, <1>4, <1>9, <2>2, <2>3 DEF Guarded, Recorded
<1>10. CASE Up(c, "CircuitBreaker") /\ Result(c) = "panic" /\ Return(c, "panic")
            /\ UNCHANGED breaker
  BY <1>1, <1>2, <1>4, <1>10 DEF Guarded, Recorded, Up, Raised, Result, Errs
<1>. QED
  BY <1>5, <1>6, <1>7, <1>8, <1>9, <1>10 DEF CircuitBreaker

LEMMA AtBreaker ==
  ASSUME NEW c \in Consumers, Wrap(c), run[c].depth \in DOMAIN Chain(c),
         Chain(c)[run[c].depth] = "CircuitBreaker"
  PROVE  CircuitBreaker(c)
<1>1. \A n : Down(c, n) \/ Up(c, n) => n = "CircuitBreaker"
  BY DEF Down, Up, Here
<1>. QED
  BY <1>1 DEF Wrap, Throttle, DelayOnError, CorrelationId, InstantAck, Telemetry, Timeout,
     Through, Retry, Duplicator, Recoverer, IgnoreErrors, RandomFail, PoisonQueue,
     Deduplicator

LEMMA OtherBreakers ==
  ASSUME BreakerOK, NEW c \in Consumers, Wrap(c), NEW e \in Consumers, e # c
  PROVE  breaker'[e] = breaker[e]
<1>1. breaker' = breaker \/ RecordSuccess(c) \/ RecordFailure(c)
  BY WrapEffects
<1>2. RecordSuccess(c) => breaker'[e] = breaker[e]
  BY DEF BreakerOK, RecordSuccess
<1>3. RecordFailure(c) => breaker'[e] = breaker[e]
  BY DEF BreakerOK, RecordFailure
<1>. QED
  BY <1>1, <1>2, <1>3

LEMMA BreakerWrap ==
  ASSUME Types, NEW c \in Consumers, Wrap(c), NEW p \in DOMAIN Chain(c),
         Chain(c)[p] = "CircuitBreaker", Guarded(c, p)
  PROVE  Guarded(c, p)' /\ \A e \in Consumers \ {c} : breaker'[e] = breaker[e]
<1>. PICK d \in DOMAIN Chain(c) : d = run[c].depth
  BY WrapMoves DEF Types, Moves
<1>1. RunOK /\ app \in Deployments /\ Moves(c) /\ burst' = burst /\ app' = app
  BY WrapMoves, WrapEffects DEF Types, AppOK, appVars
<1>2. d \in Nat /\ p \in Nat /\ burst[c] \in Nat
  BY <1>1, ChainFacts DEF Types, HistoryOK
<1>3. Call(c) => run'[c].task = "down" /\ run'[c].depth = d + 1
  BY <1>1, CallTask
<1>4. \A r : Return(c, r) => run'[c].task = "up" /\ run'[c].result = r /\ run'[c].depth = d - 1
  BY <1>1, ReturnTask DEF Return
<1>5. CASE d < p
  <2>1. Chain(c)[d] # "CircuitBreaker"
    BY <1>1, <1>5, BreakerPlace
  <2>2. breaker' = breaker
    BY <2>1, OutsideBreaker
  <2>3. ~Inside(c, p)' /\ ~Raised(c, p)' /\ ~Raised(c, p)
    BY <1>1, <1>2, <1>3, <1>4, <1>5 DEF Moves, Inside, Raised
  <2>. QED
    BY <1>1, <2>2, <2>3 DEF Guarded, Recorded
<1>6. CASE d = p
  <2>1. CircuitBreaker(c)
    BY <1>6, AtBreaker
  <2>. QED
    BY <1>2, <1>6, <2>1, BreakerStep
<1>7. CASE d > p
  <2>1. Chain(c)[d] \in Transparent \cup {"DelayOnError"}
    BY <1>1, <1>7, BreakerPlace
  <2>2. /\ breaker' = breaker
        /\ \/ run[c].task = "down" /\ (Call(c) \/ Return(c, "err"))
           \/ run[c].task = "up" /\ Return(c, Result(c))
           \/ run[c].task = "up" /\ Result(c) = "panic" /\ Return(c, "err")
           \/ run[c].task = "up" /\ Result(c) \notin Errs /\ Call(c)
    BY <2>1, TransparentStep
  <2>3. Inside(c, p)
    BY <1>2, <1>7, <2>2 DEF Inside
  <2>4. /\ breaker'[c] = breaker[c] /\ burst'[c] = burst[c]
        /\ burst[c] \in Nat /\ Recorded(c) \in Nat
    BY <1>1, <2>2 DEF Recorded, Types, BreakerOK, HistoryOK
  <2>5. Raised(c, p) => Raised(c, p)'
    BY <1>2, <1>4, <1>7, <2>2 DEF Raised, Result, Errs
  <2>6. run'[c].task = "up" /\ run'[c].result \in {"ack", "nack"} => burst[c] = 0
    <3>1. CASE Call(c)
      BY <1>3, <3>1
    <3>2. CASE Return(c, "err")
      BY <1>4, <3>2
    <3>3. CASE run[c].task = "up" /\ Return(c, Result(c))
      BY <1>4, <2>3, <3>3 DEF Guarded, Result
    <3>. QED
      BY <2>2, <3>1, <3>2, <3>3
  <2>. QED
    BY <2>2, <2>3, <2>4, <2>5, <2>6, GuardedInside
<1>. QED
  BY <1>2, <1>5, <1>6, <1>7

LEMMA BreakerHandle ==
  ASSUME Types, NEW c \in Consumers, Handle(c), NEW p \in DOMAIN Chain(c),
         Chain(c)[p] = "CircuitBreaker", Guarded(c, p)
  PROVE  Guarded(c, p)'
<1>1. /\ run[c].task = "down" /\ run[c].depth = Len(Chain(c)) + 1
      /\ breaker' = breaker /\ app' = app
  BY HandleEffects DEF Types, memVars, appVars
<1>2. PICK r \in Results : Finish(c, r)
  BY HandleEffects DEF Types
<1>3. /\ Len(Chain(c)) \in Nat /\ p \in 1..Len(Chain(c)) /\ burst[c] \in Nat
      /\ MaxFailures \in Nat \ {0} /\ burst \in [Consumers -> Nat]
      /\ breaker[c].failures \in Nat
  BY ChainFacts, ConsumerAssumption DEF Types, AppOK, HistoryOK, BreakerOK
<1>4. run'[c].task = "up" /\ run'[c].result = r /\ run'[c].depth = Len(Chain(c))
  <2>1. ReturnTo(c, run[c].depth - 1, r)
    BY <1>2 DEF Finish, Return
  <2>2. run[c].depth - 1 = Len(Chain(c))
    BY <1>1, <1>3
  <2>. QED
    BY <2>1, <2>2, ReturnTask DEF Types
<1>5. Inside(c, p) /\ ~Raised(c, p)
  BY <1>1, <1>3 DEF Inside, Raised
<1>6. \/ r \in Errs /\ burst'[c] = IF burst[c] > MaxFailures THEN burst[c] ELSE burst[c] + 1
      \/ r \in {"ack", "nack"} /\ burst'[c] = 0
      \/ r = "panic" /\ burst'[c] = burst[c]
  BY <1>2, <1>3 DEF Finish, Results, Errs
<1>7. CASE r \in Errs /\ burst'[c] = IF burst[c] > MaxFailures THEN burst[c] ELSE burst[c] + 1
  <2>1. Raised(c, p)' /\ r \notin {"ack", "nack"}
    BY <1>3, <1>4, <1>7 DEF Raised, Errs
  <2>2. /\ breaker[c].since = "recent" => breaker[c].failures < MaxFailures
        /\ burst[c] <= Recorded(c)
    BY <1>3, <1>5 DEF Guarded, Recorded
  <2>. QED
    BY <1>1, <1>3, <1>4, <1>7, <2>1, <2>2 DEF Guarded, Recorded
<1>8. CASE r \in {"ack", "nack"} /\ burst'[c] = 0
  BY <1>1, <1>3, <1>4, <1>5, <1>8 DEF Guarded, Recorded
<1>9. CASE r = "panic" /\ burst'[c] = burst[c]
  BY <1>1, <1>3, <1>4, <1>5, <1>9 DEF Guarded, Recorded
<1>. QED
  BY <1>6, <1>7, <1>8, <1>9

LEMMA BreakerTimeout ==
  ASSUME Types, NEW c \in Consumers, TimeoutFires(c), NEW p \in DOMAIN Chain(c),
         Chain(c)[p] = "CircuitBreaker", Guarded(c, p)
  PROVE  Guarded(c, p)'
<1>1. PICK t \in DOMAIN Chain(c) :
        /\ Chain(c)[t] = "Timeout" /\ t < run[c].depth /\ Awaits(c)
        /\ ReturnTo(c, t - 1, "err")
  BY DEF TimeoutFires
<1>2. breaker' = breaker /\ burst' = burst /\ app' = app /\ app \in Deployments /\ RunOK
  BY DEF TimeoutFires, memVars, appVars, Types, AppOK
<1>3. run'[c].task = "up" /\ run'[c].result = "err" /\ run'[c].depth = t - 1
  BY <1>1, <1>2, ReturnTask
<1>4. /\ t \in Nat /\ p \in Nat /\ burst[c] \in Nat /\ run[c].depth \in Nat
      /\ breaker[c].failures \in Nat
  BY <1>2, ChainFacts DEF Types, HistoryOK, RunOK, RunOf, BreakerOK
<1>5. CASE t < p
  <2>1. ~Inside(c, p)' /\ ~Raised(c, p)'
    BY <1>3, <1>4, <1>5 DEF Inside, Raised
  <2>2. ~Raised(c, p)
    <3>1. CASE run[c].task = "down"
      BY <3>1 DEF Raised
    <3>2. CASE \/ Here(c, "Retry") \/ Here(c, "PoisonQueue") \/ Here(c, "DelayOnError")
      <4>. PICK d \in DOMAIN Chain(c) :
             /\ d = run[c].depth /\ Chain(c)[d] \in {"Retry", "PoisonQueue", "DelayOnError"}
        BY <3>2 DEF Here
      <4>1. p < d => Chain(c)[d] \in Transparent
        BY <1>1, <1>2, BreakerPlace
      <4>2. ~(p < d) /\ p # d
        BY <4>1 DEF Transparent
      <4>3. d \in Nat
        BY <1>4
      <4>. QED
        BY <1>4, <4>2, <4>3 DEF Raised
    <3>. QED
      BY <1>1, <3>1, <3>2 DEF Awaits
  <2>. QED
    BY <1>2, <2>1, <2>2 DEF Guarded, Recorded
<1>6. CASE t > p
  <2>1. Inside(c, p) /\ Raised(c, p)'
    BY <1>1, <1>3, <1>4, <1>6 DEF Awaits, Inside, Raised, Errs
  <2>2. Recorded(c) \in Nat /\ Recorded(c)' = Recorded(c)
    BY <1>2, <1>4 DEF Recorded
  <2>. QED
    BY <1>2, <1>3, <1>4, <2>1, <2>2 DEF Guarded
<1>7. t # p
  BY <1>1
<1>. QED
  BY <1>4, <1>5, <1>6, <1>7

\* Where no call is inside the breaker none has an error for it.
LEMMA BreakerAway ==
  ASSUME Types, app' = app, NEW c \in Consumers, breaker'[c] = breaker[c],
         burst'[c] = burst[c], NEW p \in DOMAIN Chain(c), Guarded(c, p),
         ~Raised(c, p), ~Inside(c, p)'
  PROVE  Guarded(c, p)'
<1>1. ~Raised(c, p)'
  BY DEF Inside, Raised
<1>. QED
  BY <1>1 DEF Guarded, Recorded

LEMMA BreakerInit == ASSUME Init PROVE BreakerInv
<1>. SUFFICES ASSUME NEW c \in Consumers, NEW p \in DOMAIN Chain(c)
              PROVE  Guarded(c, p)
  BY DEF BreakerInv
<1>1. run[c].task = "idle" /\ burst[c] = 0 /\ breaker[c].failures = 0
  BY DEF Init, Idle, Closed
<1>. QED
  BY <1>1, ConsumerAssumption DEF Guarded, Recorded, Inside, Raised

\* Steps that leave the calls alone, and those of Tick and Crash, which start the
\* count again.
LEMMA BreakerFresh ==
  ASSUME Types, NEW c \in Consumers, NEW p \in Nat, burst'[c] = 0,
         breaker'[c].failures \in Nat, breaker'[c].since = "recent" => ~Inside(c, p)'
  PROVE  Guarded(c, p)'
BY ConsumerAssumption DEF Guarded, Recorded

LEMMA BreakerNext == ASSUME Types, BreakerInv, [Next]_vars PROVE BreakerInv'
<1>1. app' = app /\ app \in Deployments
  BY AppFixed DEF Types, AppOK
<1>. SUFFICES ASSUME NEW e \in Consumers, NEW p \in DOMAIN Chain(e),
                     Chain(e)[p] = "CircuitBreaker"
              PROVE  Guarded(e, p)'
  BY <1>1 DEF BreakerInv, Chain
<1>2. Guarded(e, p) /\ p \in Nat \ {0}
  BY <1>1, ChainFacts DEF BreakerInv
<1>3. ASSUME NEW c \in Consumers,
             Wrap(c) \/ Handle(c) \/ Deliver(c) \/ Settle(c) \/ TimeoutFires(c) \/ Tick(c),
             e # c
      PROVE  Guarded(e, p)'
  <2>1. RunOK /\ burst \in [Consumers -> Nat]
    BY DEF Types, HistoryOK
  <2>2. run'[e] = run[e]
    BY <1>3, <2>1, OtherRuns
  <2>3. CASE Wrap(c)
    <3>1. burst'[e] = burst[e] /\ breaker'[e] = breaker[e]
      BY <1>3, <2>3, WrapEffects, OtherBreakers DEF Types
    <3>. QED
      BY <1>1, <1>2, <2>2, <3>1, GuardedFrame
  <2>4. CASE Handle(c)
    <3>1. PICK r \in Results : Finish(c, r)
      BY <2>1, <2>4, HandleEffects
    <3>2. burst'[e] = burst[e]
      BY <1>3, <2>1, <3>1 DEF Finish
    <3>3. breaker' = breaker
      BY <2>1, <2>4, HandleEffects DEF memVars
    <3>. QED
      BY <1>1, <1>2, <2>2, <3>2, <3>3, GuardedFrame
  <2>5. CASE Deliver(c) \/ Settle(c) \/ TimeoutFires(c)
    <3>1. burst' = burst /\ breaker' = breaker
      BY <2>5 DEF Deliver, Begin, Settle, TimeoutFires, memVars
    <3>. QED
      BY <1>1, <1>2, <2>2, <3>1, GuardedFrame
  <2>6. CASE Tick(c)
    <3>1. burst'[e] = burst[e] /\ breaker'[e] = breaker[e]
      BY <1>3, <2>1, <2>6 DEF Tick, Types, BreakerOK
    <3>. QED
      BY <1>1, <1>2, <2>2, <3>1, GuardedFrame
  <2>. QED
    BY <1>3, <2>3, <2>4, <2>5, <2>6
<1>4. CASE Wrap(e)
  BY <1>2, <1>4, BreakerWrap
<1>5. CASE Handle(e)
  BY <1>2, <1>5, BreakerHandle
<1>6. CASE TimeoutFires(e)
  BY <1>2, <1>6, BreakerTimeout
<1>7. CASE Deliver(e)
  <2>1. PICK m : Begin(e, m)
    BY <1>7 DEF Deliver
  <2>2. run'[e].task = "down" /\ run'[e].depth = 1
    BY <2>1, BeginTask DEF Types
  <2>3. burst' = burst /\ breaker' = breaker /\ run[e].task = "idle"
    BY <2>1 DEF Begin, memVars
  <2>. QED
    BY <1>1, <1>2, <2>2, <2>3, BreakerAway DEF Inside, Raised
<1>8. CASE Settle(e)
  <2>1. burst' = burst /\ breaker' = breaker /\ run[e].depth = 0
    BY <1>8 DEF Settle, memVars
  <2>2. PICK t \in {Idle(e), Dead(e)} : run' = [run EXCEPT ![e] = t]
    BY <1>8 DEF Settle
  <2>3. run'[e].task \in {"idle", "dead"}
    BY <2>2 DEF Types, RunOK, Idle, Dead
  <2>4. ~Raised(e, p) /\ ~Inside(e, p)'
    BY <1>2, <2>1, <2>3 DEF Inside, Raised
  <2>. QED
    BY <1>1, <1>2, <2>1, <2>4, BreakerAway
<1>9. CASE Tick(e)
  <2>1. burst'[e] = 0 /\ breaker'[e].since # "recent" /\ breaker'[e].failures \in Nat
    BY <1>9 DEF Tick, Types, BreakerOK, HistoryOK
  <2>. QED
    BY <1>2, <2>1, BreakerFresh
<1>10. CASE Crash
  <2>1. burst'[e] = 0 /\ breaker'[e].failures = 0 /\ run'[e].task = "idle"
    BY <1>10 DEF Crash, Closed, Idle
  <2>. QED
    BY <1>2, <2>1, BreakerFresh DEF Inside
<1>11. CASE run' = run /\ breaker' = breaker /\ burst' = burst
  BY <1>1, <1>2, <1>11, GuardedFrame
<1>12. ASSUME NEW c \in Consumers, Decorate(c) \/ ListenerNext(c) PROVE Guarded(e, p)'
  BY <1>11, <1>12 DEF Decorate, TransformNext, DecodeNext, PassOn, ListenerNext, memVars
<1>13. ASSUME NEW r \in Ids,
              \/ Publish(r) \/ Await(r) \/ RequestStart(r) \/ RequestFails(r)
              \/ RequestDropped(r)
       PROVE  Guarded(e, p)'
  BY <1>11, <1>13 DEF Publish, BusSend, ForwarderPublish, TransformPublish, EncodePublish,
     Produce, Await, RequestPublish, RequestReturns, RequestTimeout, RequestForget,
     RequestStart, RequestFails, RequestDropped, memVars
<1>14. CASE WindowEnds \/ UNCHANGED vars
  BY <1>11, <1>14 DEF WindowEnds, vars, memVars
<1>. QED
  BY <1>3, <1>4, <1>5, <1>6, <1>7, <1>8, <1>9, <1>10, <1>12, <1>13, <1>14 DEF Next, Work

\* Behind a CircuitBreaker, with only middlewares inside it that hand on what
\* they get, the handler fails at most MaxFailures times in a row before it is
\* left alone for reset_timeout, and once after each, whatever stands outside.
THEOREM NoRetryStorm == Spec => []NoStorm
<1>1. Spec => [](Types /\ BreakerInv)
  BY TypesInit, TypesStep, BreakerInit, BreakerNext, PTL DEF Spec
<1>2. Types /\ BreakerInv => NoStorm
  BY DEF BreakerInv, Guarded, NoStorm, ToSet
<1>. QED
  BY <1>1, <1>2, PTL

-----------------------------------------------------------------------------
(* No message is lost.  A message is kept by a consumer that has handled it *)
(* or has it in its topic, in its stream or in a call that is not an ack    *)
(* yet; it is live for an end when the end or one of the relays that lead   *)
(* to it keeps it.                                                          *)

FeedersIn(a, c) == CHOOSE F \in SUBSET CarriersOf(a) : Feeds(a, F, c)
Path(c) == FeedersIn(app, c) \cup {c}

Acks(e) == run[e].task = "up" /\ run[e].result = "ack"
Kept(e, id) == id \in done[e] \/ Waiting(e, id) \/ (InFlight(e, id) /\ ~Acks(e))
Live(c, id) == \E e \in Path(c) : Kept(e, id)
SomeLive(id) == \E e \in Ends : id \in failed[e] \/ Live(e, id)

\* What NothingLost says, of the relays that lead to an end alone.
NoneLost ==
  \A c \in Ends, id \in produced :
    \/ Live(c, id)
    \/ "Deduplicator" \in ToSet(Chain(c)) /\ id \in failed[c]
    \/ "RouterDeduplicator" \in ToSet(Chain(c)) /\ SomeLive(id)

\* What has no lease is still in its topic.
Unleased ==
  \A c \in Consumers : ~Leased(c) /\ app.cons[c].handler # "listen" =>
    \A id \in Ids : Waiting(c, id) \/ InFlight(c, id) => id \in ToSet(queue[c])

\* A result that is no ack has been noted.
Failures ==
  \A c \in Consumers : run[c].task = "up" /\ run[c].result # "ack" => run[c].id \in failed[c]

\* A key was seen for a message that has come to its end, or is in a call inside
\* the Deduplicator; one that comes out of it with an ack has come to its end.
Ruled(c, id) == id \in done[c] \cup failed[c]

Within(c, mw, id) ==
  \E p \in DOMAIN Chain(c) : Chain(c)[p] = mw /\ Inside(c, p) /\ run[c].id = id

\* Somebody works on it behind the router's Deduplicator, or has come to an end.
Held(id) == \E e \in Ends : Ruled(e, id) \/ Within(e, "RouterDeduplicator", id)

\* With the router's inside its own, the own one may have let in what the other
\* took for a duplicate.
Nested(c) ==
  \E p, q \in DOMAIN Chain(c) :
    p < q /\ Chain(c)[p] = "Deduplicator" /\ Chain(c)[q] = "RouterDeduplicator"

Excused(c, mw, id) == Ruled(c, id) \/ (mw = "Deduplicator" /\ Nested(c) /\ Held(id))

SeenKeys ==
  \A id \in Ids :
    /\ \A c \in Consumers : <<c, id>> \in seen =>
         c \in Ends /\ (Excused(c, "Deduplicator", id) \/ Within(c, "Deduplicator", id))
    /\ <<"router", id>> \in seen => Held(id)

AckedWithin ==
  \A c \in Ends, mw \in Dedups, id \in Ids :
    Within(c, mw, id) /\ Acks(c) => Excused(c, mw, id)

LossInv == NoneLost /\ Unleased /\ Failures /\ SeenKeys /\ AckedWithin

-----------------------------------------------------------------------------
(* Where messages go.                                                      *)

LEMMA PathFacts ==
  ASSUME app \in Deployments, NEW c \in Ends
  PROVE  /\ FeedersIn(app, c) \subseteq CarriersOf(app) /\ Feeds(app, FeedersIn(app, c), c)
         /\ Path(c) \subseteq Consumers /\ c \in Path(c)
         /\ \A e \in Path(c) : e # c => e \in CarriersOf(app) /\ e \notin Ends
         /\ \A e \in Path(c) : app.cons[e].handler # "listen"
<1>1. \E F \in SUBSET CarriersOf(app) : Feeds(app, F, c)
  BY RoutingAssumption DEF Ends
<1>2. FeedersIn(app, c) \in SUBSET CarriersOf(app) /\ Feeds(app, FeedersIn(app, c), c)
  BY <1>1 DEF FeedersIn
<1>3. \A e \in CarriersOf(app) : /\ e \in Consumers /\ app.cons[e].handler \in Relays
                                 /\ app.cons[e].handler # "listen"
  BY DEF CarriersOf
<1>4. /\ \A e \in Ends : app.cons[e].handler \notin Relays
      /\ c \in Consumers /\ "listen" \in Relays
  BY DEF Ends, EndsOf, Relays
<1>. QED
  BY <1>2, <1>3, <1>4 DEF Path

LEMMA DedupPlace ==
  ASSUME app \in Deployments, NEW c \in Consumers, NEW p \in DOMAIN Chain(c),
         Chain(c)[p] \in Dedups
  PROVE  /\ c \in Ends /\ Chain(c)[p] \in ToSet(Chain(c))
         /\ \A q \in DOMAIN Chain(c) : Chain(c)[q] = Chain(c)[p] => q = p
BY RoutingAssumption DEF DedupsOnce, Ends, Chain, ToSet

\* Histories only grow.
LEMMA HistoryGrows ==
  ASSUME Types, [Next]_vars, NEW e \in Consumers
  PROVE  done[e] \subseteq done'[e] /\ failed[e] \subseteq failed'[e]
<1>. DEFINE Grow == done[e] \subseteq done'[e] /\ failed[e] \subseteq failed'[e]
<1>0. RunOK /\ HistoryOK /\ done \in [Consumers -> SUBSET Ids]
  BY DEF Types, HistoryOK
<1>1. ASSUME NEW c \in Consumers, Wrap(c) PROVE Grow
  <2>1. done' = done \/ done' = [done EXCEPT ![c] = @ \cup {run[c].id}]
    BY <1>1, WrapEffects
  <2>2. Moves(c)
    BY <1>0, <1>1, WrapMoves
  <2>3. failed[e] \subseteq failed'[e]
    BY <1>0, <2>2, CallShape, ReturnShape DEF Moves, Return
  <2>. QED
    BY <1>0, <2>1, <2>3
<1>2. ASSUME NEW c \in Consumers, Handle(c) PROVE Grow
  <2>1. done' = done \/ Complete(c)
    BY <1>0, <1>2, HandleEffects
  <2>2. PICK r \in Results : Finish(c, r)
    BY <1>0, <1>2, HandleEffects
  <2>3. Busy(c) /\ ReturnTo(c, run[c].depth - 1, r)
    BY <1>0, <1>2, <2>2, HandleEffects DEF Busy, Finish, Return
  <2>4. failed[e] \subseteq failed'[e]
    BY <1>0, <2>3, ReturnShape
  <2>. QED
    BY <1>0, <2>1, <2>4 DEF Complete
<1>3. ASSUME NEW c \in Consumers, TimeoutFires(c) PROVE Grow
  <2>1. PICK d : ReturnTo(c, d, "err")
    BY <1>3 DEF TimeoutFires
  <2>2. Busy(c) /\ done' = done
    BY <1>3 DEF TimeoutFires, Awaits, Busy
  <2>. QED
    BY <1>0, <2>1, <2>2, ReturnShape
<1>4. ASSUME NEW c \in Consumers, \/ Deliver(c) \/ Settle(c) \/ Decorate(c)
                                  \/ ListenerNext(c) \/ Tick(c)
      PROVE  Grow
  BY <1>4 DEF Deliver, Begin, Settle, Decorate, TransformNext, DecodeNext, PassOn,
              ListenerNext, Tick
<1>5. ASSUME NEW r \in Ids,
             \/ Publish(r) \/ Await(r) \/ RequestStart(r) \/ RequestFails(r)
             \/ RequestDropped(r)
      PROVE  Grow
  BY <1>5 DEF Publish, BusSend, ForwarderPublish, TransformPublish, EncodePublish,
     Produce, Await, RequestPublish, RequestReturns, RequestTimeout, RequestForget,
     RequestStart, RequestFails, RequestDropped
<1>6. CASE Crash \/ WindowEnds \/ UNCHANGED vars
  BY <1>6 DEF Crash, WindowEnds, vars
<1>. QED
  BY <1>1, <1>2, <1>3, <1>4, <1>5, <1>6 DEF Next, Work

\* Where an ack of a middleware comes from: from inside, or from an error that
\* is ignored or sent to a poison topic, or for a duplicate.
LEMMA WrapAcks ==
  ASSUME NEW c \in Consumers, Wrap(c), TopicsOK, HistoryOK
  PROVE  \/ Call(c)
         \/ \E r : /\ Return(c, r)
                   /\ \/ r # "ack" \/ Acks(c) \/ run[c].id \in done'[c]
                      \/ /\ run[c].task = "up" /\ run[c].result \in Errs
                         /\ Here(c, "PoisonQueue") /\ HasConsumer(app.cons[c].to)
                         /\ queue' = Poisoned(c)
                      \/ \E mw \in Dedups : Down(c, mw) /\ IsDuplicate(c)
<1>. DEFINE Goal ==
         \/ Call(c)
         \/ \E r : /\ Return(c, r)
                   /\ \/ r # "ack" \/ Acks(c) \/ run[c].id \in done'[c]
                      \/ /\ run[c].task = "up" /\ run[c].result \in Errs
                         /\ Here(c, "PoisonQueue") /\ HasConsumer(app.cons[c].to)
                         /\ queue' = Poisoned(c)
                      \/ \E mw \in Dedups : Down(c, mw) /\ IsDuplicate(c)
<1>1. \A mw : Up(c, mw) /\ Return(c, Result(c)) => Goal
  <2>. SUFFICES ASSUME NEW mw, Up(c, mw), Return(c, Result(c)) PROVE Goal
    OBVIOUS
  <2>1. Result(c) # "ack" \/ Acks(c)
    BY DEF Up, Result, Acks
  <2>. QED
    BY <2>1
<1>2. \A r : Return(c, r) /\ r # "ack" => Goal
  OBVIOUS
<1>3. CASE \E mw : Through(c, mw)
  BY <1>1, <1>3 DEF Through
<1>4. CASE Retry(c) \/ Duplicator(c)
  BY <1>1, <1>4 DEF Retry, Duplicator
<1>5. CASE Recoverer(c)
  BY <1>1, <1>2, <1>5 DEF Recoverer
<1>6. CASE IgnoreErrors(c)
  <2>1. CASE Return(c, "ack") /\ done' = [done EXCEPT ![c] = @ \cup {run[c].id}]
    <3>1. run[c].id \in done'[c]
      BY <2>1 DEF HistoryOK
    <3>. QED
      BY <2>1, <3>1
  <2>. QED
    BY <1>1, <1>6, <2>1 DEF IgnoreErrors
<1>7. CASE RandomFail(c)
  BY <1>1, <1>2, <1>7 DEF RandomFail
<1>8. CASE PoisonQueue(c)
  <2>1. CASE /\ Up(c, "PoisonQueue") /\ Result(c) \in Errs /\ Return(c, "ack")
             /\ queue' = Poisoned(c) /\ HasConsumer(app.cons[c].to)
    BY <2>1 DEF Up, Result
  <2>2. CASE Return(c, "ack") /\ done' = [done EXCEPT ![c] = @ \cup {run[c].id}]
    <3>1. run[c].id \in done'[c]
      BY <2>2 DEF HistoryOK
    <3>. QED
      BY <2>2, <3>1
  <2>. QED
    BY <1>1, <1>8, <2>1, <2>2 DEF PoisonQueue
<1>9. CASE Deduplicator(c)
  <2>1. PICK mw \in {"Deduplicator", "RouterDeduplicator", "UuidDeduplicator"} :
          \/ Down(c, mw) /\ IsDuplicate(c) /\ Return(c, "ack")
          \/ Down(c, mw) /\ Call(c)
          \/ Up(c, mw) /\ Return(c, Result(c))
    BY <1>9 DEF Deduplicator
  <2>2. Down(c, mw) /\ IsDuplicate(c) => mw \in Dedups
    <3>1. Down(c, "UuidDeduplicator") => Scope(c) = {}
      BY DEF Scope, Down, Here
    <3>. QED
      BY <3>1 DEF IsDuplicate, Keys, Dedups
  <2>. QED
    BY <1>1, <2>1, <2>2
<1>10. CASE CircuitBreaker(c)
  BY <1>1, <1>2, <1>10 DEF CircuitBreaker
<1>. QED
  BY <1>3, <1>4, <1>5, <1>6, <1>7, <1>8, <1>9, <1>10
  DEF Wrap, Throttle, DelayOnError, CorrelationId, InstantAck, Telemetry, Timeout

\* An end acks what it has handled, a relay what it has published.
LEMMA HandleAcks ==
  ASSUME RunOK, HistoryOK, NEW c \in Consumers, Handle(c)
  PROVE  \E r : /\ Return(c, r)
                /\ \/ r # "ack" \/ run[c].id \in done'[c]
                   \/ c \in CarriersOf(app) /\ queue' = Relayed(c)
<1>1. Complete(c) => run[c].id \in done'[c]
  BY DEF Complete, HistoryOK
<1>2. \A h \in {"forwarder", "requeuer", "fanin"} : AtHandler(c, h) => c \in CarriersOf(app)
  BY DEF AtHandler, CarriersOf, Relays
<1>3. CASE UserHandler(c)
  BY <1>1, <1>3 DEF UserHandler, Finish
<1>4. CASE TypedHandler(c)
  BY <1>1, <1>4 DEF TypedHandler, Finish
<1>5. CASE Forward(c)
  BY <1>1, <1>2, <1>5 DEF Forward, PublishThenAck, Finish
<1>6. CASE Requeue(c)
  BY <1>2, <1>6 DEF Requeue, PublishThenAck, Finish
<1>7. CASE FanIn(c)
  BY <1>2, <1>7 DEF FanIn, PublishThenAck, Finish
<1>8. CASE Respond(c)
  BY <1>1, <1>8 DEF Respond, PublishThenAck, Finish
<1>. QED
  BY <1>3, <1>4, <1>5, <1>6, <1>7, <1>8 DEF Handle

-----------------------------------------------------------------------------
(* What a consumer keeps it keeps in every step, unless it acks the message *)
(* to which it is a duplicate, or passes it on.                             *)

\* What the call of c works on is now in every topic queue it is sent to.
Passed(c) ==
  /\ \/ c \in CarriersOf(app)
     \/ "PoisonQueue" \in ToSet(Chain(c)) /\ HasConsumer(app.cons[c].to)
  /\ \A f \in Consumers :
       app.cons[f].topic = app.cons[c].to => run[c].id \in ToSet(queue'[f])

Duplicate(c) == \E mw \in Dedups : Down(c, mw) /\ IsDuplicate(c)

LEMMA PublishedGrows ==
  ASSUME TopicsOK, NEW t, NEW id \in Ids, queue' \in {queue, Published(t, id)}
  PROVE  \A e \in Consumers : ToSet(queue[e]) \subseteq ToSet(queue'[e])
BY PublishedFacts

LEMMA PublishedArrives ==
  ASSUME TopicsOK, NEW t, NEW id \in Ids, NEW f \in Consumers, app.cons[f].topic = t
  PROVE  id \in ToSet(Published(t, id)[f])
<1>1. ToSet(Published(t, id)[f]) = ToSet(queue[f]) \cup (IF app.cons[f].topic = t THEN {id} ELSE {})
  BY PublishedFacts
<1>. QED
  BY <1>1

LEMMA KeptFrame ==
  ASSUME NEW e \in Consumers, NEW id, run'[e] = run[e], stream'[e] = stream[e],
         done[e] \subseteq done'[e], ToSet(queue[e]) \subseteq ToSet(queue'[e])
  PROVE  Kept(e, id) => Kept(e, id)'
BY DEF Kept, Waiting, InFlight, Acks

LEMMA KeptCall ==
  ASSUME RunOK, NEW c \in Consumers, NEW id, Call(c), Busy(c), stream'[c] = stream[c],
         done[c] \subseteq done'[c], ToSet(queue[c]) \subseteq ToSet(queue'[c])
  PROVE  Kept(c, id) => Kept(c, id)'
<1>1. run'[c] = CallOf(c)
  BY CallShape DEF Becomes
<1>2. run'[c].task = "down" /\ run'[c].id = run[c].id
  BY <1>1 DEF CallOf
<1>. QED
  BY <1>2 DEF Kept, Waiting, InFlight, Acks

LEMMA KeptReturn ==
  ASSUME RunOK, HistoryOK, NEW c \in Consumers, NEW id, NEW d, NEW r, ReturnTo(c, d, r),
         Busy(c), stream'[c] = stream[c], done[c] \subseteq done'[c],
         ToSet(queue[c]) \subseteq ToSet(queue'[c]),
         r # "ack" \/ Acks(c) \/ run[c].id \in done'[c] \/ run[c].id # id
  PROVE  Kept(c, id) => Kept(c, id)'
<1>1. run'[c] = ReturnOf(c, d, r)
  BY ReturnShape DEF Becomes
<1>2. run'[c].task = "up" /\ run'[c].id = run[c].id /\ run'[c].result = r
  BY <1>1 DEF ReturnOf
<1>. QED
  BY <1>2 DEF Kept, Waiting, InFlight, Acks

LEMMA KeptWrap ==
  ASSUME Types, [Next]_vars, NEW c \in Consumers, Wrap(c), NEW e \in Consumers, NEW id
  PROVE  Kept(e, id) =>
           \/ Kept(e, id)'
           \/ e = c /\ id = run[c].id /\ (Passed(c) \/ Duplicate(c))
<1>1. RunOK /\ TopicsOK /\ HistoryOK /\ Moves(c)
  BY WrapMoves DEF Types
<1>2. run[c].id \in Ids /\ Busy(c)
  BY <1>1 DEF Moves, RunOK, Placed
<1>3. stream' = stream /\ ToSet(queue[e]) \subseteq ToSet(queue'[e])
      /\ done[e] \subseteq done'[e]
  BY <1>1, <1>2, WrapEffects, PublishedGrows, HistoryGrows DEF Poisoned
<1>4. CASE e # c
  BY <1>1, <1>3, <1>4, OtherRuns, KeptFrame
<1>5. CASE e = c /\ Call(c)
  BY <1>1, <1>2, <1>3, <1>5, KeptCall
<1>6. ASSUME NEW r, Return(c, r), e = c,
             \/ r # "ack" \/ Acks(c) \/ run[c].id \in done'[c] \/ run[c].id # id
      PROVE  Kept(e, id) => Kept(e, id)'
  BY <1>1, <1>2, <1>3, <1>6, KeptReturn DEF Return
<1>7. ASSUME Here(c, "PoisonQueue"), HasConsumer(app.cons[c].to), queue' = Poisoned(c)
      PROVE  Passed(c)
  <2>1. "PoisonQueue" \in ToSet(Chain(c))
    BY <1>7 DEF Here, ToSet
  <2>2. \A f \in Consumers :
          app.cons[f].topic = app.cons[c].to => run[c].id \in ToSet(queue'[f])
    BY <1>1, <1>2, <1>7, PublishedArrives DEF Poisoned
  <2>. QED
    BY <1>7, <2>1, <2>2 DEF Passed
<1>. QED
  BY <1>1, <1>4, <1>5, <1>6, <1>7, WrapAcks DEF Duplicate

LEMMA KeptHandle ==
  ASSUME Types, [Next]_vars, NEW c \in Consumers, Handle(c), NEW e \in Consumers, NEW id
  PROVE  Kept(e, id) => Kept(e, id)' \/ (e = c /\ id = run[c].id /\ Passed(c))
<1>1. RunOK /\ TopicsOK /\ HistoryOK /\ Busy(c)
  BY HandleEffects DEF Types, Busy
<1>2. run[c].id \in Ids
  BY <1>1 DEF RunOK, Placed
<1>3. stream' = stream /\ ToSet(queue[e]) \subseteq ToSet(queue'[e])
      /\ done[e] \subseteq done'[e]
  BY <1>1, <1>2, HandleEffects, PublishedGrows, HistoryGrows DEF Relayed
<1>4. CASE e # c
  BY <1>1, <1>3, <1>4, OtherRuns, KeptFrame
<1>5. ASSUME NEW r, Return(c, r), e = c,
             \/ r # "ack" \/ run[c].id \in done'[c] \/ run[c].id # id
      PROVE  Kept(e, id) => Kept(e, id)'
  BY <1>1, <1>2, <1>3, <1>5, KeptReturn DEF Return
<1>6. ASSUME c \in CarriersOf(app), queue' = Relayed(c)
      PROVE  Passed(c)
  <2>1. \A f \in Consumers :
          app.cons[f].topic = app.cons[c].to => run[c].id \in ToSet(queue'[f])
    BY <1>1, <1>2, <1>6, PublishedArrives DEF Relayed
  <2>. QED
    BY <1>6, <2>1 DEF Passed
<1>. QED
  BY <1>1, <1>4, <1>5, <1>6, HandleAcks

LEMMA KeptDeliver ==
  ASSUME Types, NEW c \in Consumers, Deliver(c), NEW e \in Consumers, NEW id
  PROVE  Kept(e, id) => Kept(e, id)'
<1>1. RunOK /\ queue \in [Consumers -> Seq(Ids)] /\ stream \in [Consumers -> Seq(Ids)]
  BY DEF Types, TopicsOK
<1>2. PICK m : /\ Begin(c, m)
               /\ \/ /\ queue[c] # <<>> /\ m = Head(queue[c]) /\ stream' = stream
                     /\ queue' = [queue EXCEPT ![c] = Tail(@)]
                  \/ /\ stream[c] # <<>> /\ m = Head(stream[c]) /\ queue' = queue
                     /\ stream' = [stream EXCEPT ![c] = Tail(@)]
  BY DEF Deliver
<1>3. done' = done /\ run[c].task = "idle"
  BY <1>2 DEF Begin
<1>4. CASE e # c
  <2>1. queue'[e] = queue[e] /\ stream'[e] = stream[e] /\ run'[e] = run[e]
    BY <1>1, <1>2, <1>4, OtherRuns
  <2>. QED
    BY <1>3, <2>1, KeptFrame
<1>5. CASE e = c
  <2>1. run'[c].task = "down" /\ run'[c].id = m
    BY <1>1, <1>2, BeginTask
  <2>2. Waiting(c, id) => Waiting(c, id)' \/ id = m
    <3>1. CASE /\ queue[c] # <<>> /\ m = Head(queue[c]) /\ stream' = stream
               /\ queue' = [queue EXCEPT ![c] = Tail(@)]
      <4>1. ToSet(queue[c]) = {m} \cup ToSet(queue'[c])
        BY <1>1, <3>1, QueueFacts
      <4>. QED
        BY <3>1, <4>1 DEF Waiting
    <3>2. CASE /\ stream[c] # <<>> /\ m = Head(stream[c]) /\ queue' = queue
               /\ stream' = [stream EXCEPT ![c] = Tail(@)]
      <4>1. ToSet(stream[c]) = {m} \cup ToSet(stream'[c])
        BY <1>1, <3>2, QueueFacts
      <4>. QED
        BY <3>2, <4>1 DEF Waiting
    <3>. QED
      BY <1>2, <3>1, <3>2
  <2>3. ~InFlight(c, id)
    BY <1>3 DEF InFlight
  <2>. QED
    BY <1>3, <1>5, <2>1, <2>2, <2>3 DEF Kept, InFlight, Acks
<1>. QED
  BY <1>4, <1>5

LEMMA KeptDecorate ==
  ASSUME Types, NEW c \in Consumers, Decorate(c), NEW e \in Consumers, NEW id
  PROVE  Kept(e, id) => Kept(e, id)'
<1>1. queue \in [Consumers -> Seq(Ids)] /\ stream \in [Consumers -> Seq(Ids)]
  BY DEF Types, TopicsOK
<1>2. PICK m : /\ queue[c] # <<>> /\ m = Head(queue[c])
               /\ \/ /\ queue' = [queue EXCEPT ![c] = Tail(@)]
                     /\ stream' = [stream EXCEPT ![c] = Append(@, m)]
                  \/ /\ queue' = [queue EXCEPT ![c] = Append(Tail(@), m)]
                     /\ stream' = stream \/ stream' = [stream EXCEPT ![c] = Append(@, m)]
  BY <1>1 DEF Decorate, TransformNext, DecodeNext, PassOn
<1>3. done' = done /\ run' = run
  BY DEF Decorate, TransformNext, DecodeNext, PassOn
<1>4. CASE e # c
  <2>1. queue'[e] = queue[e] /\ stream'[e] = stream[e]
    BY <1>1, <1>2, <1>4
  <2>. QED
    BY <1>3, <2>1, KeptFrame
<1>5. CASE e = c
  <2>1. /\ m \in Ids /\ Tail(queue[c]) \in Seq(Ids) /\ stream[c] \in Seq(Ids)
        /\ ToSet(queue[c]) = {m} \cup ToSet(Tail(queue[c]))
    BY <1>1, <1>2, QueueFacts
  <2>2. ToSet(Append(Tail(queue[c]), m)) = ToSet(Tail(queue[c])) \cup {m}
    <3>1. \A q \in Seq(Ids), x \in Ids : ToSet(Append(q, x)) = ToSet(q) \cup {x}
      BY QueueFacts
    <3>. QED
      BY <2>1, <3>1
  <2>3. ToSet(Append(stream[c], m)) = ToSet(stream[c]) \cup {m}
    BY <2>1, QueueFacts
  <2>4. ToSet(queue[c]) \cup ToSet(stream[c]) \subseteq ToSet(queue'[c]) \cup ToSet(stream'[c])
    BY <1>1, <1>2, <2>1, <2>2, <2>3
  <2>. QED
    BY <1>3, <1>5, <2>4 DEF Kept, Waiting, InFlight, Acks
<1>. QED
  BY <1>4, <1>5

LEMMA KeptSettle ==
  ASSUME Types, Unleased, NEW c \in Consumers, app.cons[c].handler # "listen", Settle(c),
         NEW e \in Consumers, NEW id \in Ids
  PROVE  Kept(e, id) => Kept(e, id)'
<1>1. /\ RunOK /\ TopicsOK /\ queue \in [Consumers -> Seq(Ids)]
      /\ stream \in [Consumers -> Seq(Ids)]
  BY DEF Types, TopicsOK
<1>2. done' = done /\ Busy(c) /\ run[c].id \in Ids
  BY <1>1 DEF Settle, Busy, RunOK, Placed
<1>3. CASE e # c
  <2>1. queue'[e] = queue[e] /\ stream'[e] = stream[e]
    BY <1>1, <1>3 DEF Settle, topicVars
  <2>. QED
    BY <1>1, <1>2, <1>3, <2>1, OtherRuns, KeptFrame
<1>4. CASE e = c
  <2>1. ToSet(Append(queue[c], run[c].id)) = ToSet(queue[c]) \cup {run[c].id}
    BY <1>1, <1>2, QueueFacts
  <2>2. ToSet(queue[c] \o Leases(c)) = ToSet(queue[c]) \cup ToSet(Leases(c))
    BY <1>1, LeasesFacts, QueueFacts
  <2>3. ToSet(Leases(c)) = IF Leased(c) THEN ToSet(stream[c]) \cup {run[c].id} ELSE {}
    BY <1>1, <1>2, LeasesFacts
  <2>4. ~Leased(c) /\ (Waiting(c, id) \/ InFlight(c, id)) => id \in ToSet(queue[c])
    BY DEF Unleased
  <2>5. ToSet(queue[c]) \subseteq ToSet(queue'[c])
    BY <1>1, <2>1, <2>2 DEF Settle, topicVars
  <2>6. Waiting(c, id) => Waiting(c, id)'
    <3>1. CASE stream' = stream
      BY <2>5, <3>1 DEF Waiting
    <3>2. CASE queue' = [queue EXCEPT ![c] = @ \o Leases(c)]
      BY <1>1, <2>2, <2>3, <2>4, <3>2 DEF Waiting
    <3>. QED
      BY <3>1, <3>2 DEF Settle, topicVars
  <2>7. InFlight(c, id) /\ ~Acks(c) => Waiting(c, id)'
    <3>. SUFFICES ASSUME InFlight(c, id), ~Acks(c) PROVE id \in ToSet(queue'[c])
      BY DEF Waiting
    <3>1. run[c].id = id /\ run[c].result # "ack"
      BY DEF InFlight, Acks, Settle
    <3>2. CASE queue' = IF Leased(c) THEN [queue EXCEPT ![c] = Append(@, run[c].id)] ELSE queue
      BY <1>1, <2>1, <2>4, <3>1, <3>2
    <3>3. CASE queue' = [queue EXCEPT ![c] = @ \o Leases(c)]
      BY <1>1, <2>2, <2>3, <2>4, <3>1, <3>3
    <3>. QED
      BY <3>1, <3>2, <3>3 DEF Settle
  <2>. QED
    BY <1>2, <1>4, <2>6, <2>7 DEF Kept
<1>. QED
  BY <1>3, <1>4

LEMMA KeptCrash ==
  ASSUME Types, Unleased, Crash, NEW e \in Consumers, app.cons[e].handler # "listen",
         NEW id \in Ids
  PROVE  Kept(e, id) => Kept(e, id)'
<1>1. /\ RunOK /\ TopicsOK /\ queue[e] \in Seq(Ids)
  BY DEF Types, TopicsOK
<1>2. done' = done /\ queue'[e] = queue[e] \o Leases(e)
  BY DEF Crash
<1>3. ToSet(queue'[e]) = ToSet(queue[e]) \cup ToSet(Leases(e))
  BY <1>1, <1>2, LeasesFacts, QueueFacts
<1>4. ToSet(Leases(e)) = IF Leased(e)
                         THEN ToSet(stream[e]) \cup (IF Busy(e) THEN {run[e].id} ELSE {})
                         ELSE {}
  BY <1>1, LeasesFacts
<1>5. ~Leased(e) /\ (Waiting(e, id) \/ InFlight(e, id)) => id \in ToSet(queue[e])
  BY DEF Unleased
<1>6. Waiting(e, id) \/ InFlight(e, id) => id \in ToSet(queue'[e])
  BY <1>3, <1>4, <1>5 DEF Waiting, InFlight, Busy
<1>. QED
  BY <1>2, <1>6 DEF Kept, Waiting

LEMMA KeptNext ==
  ASSUME Types, Unleased, [Next]_vars, NEW e \in Consumers, app.cons[e].handler # "listen",
         NEW id \in Ids
  PROVE  Kept(e, id) => \/ Kept(e, id)'
                        \/ id = run[e].id /\ (Passed(e) \/ (Wrap(e) /\ Duplicate(e)))
<1>. DEFINE Goal == Kept(e, id) => \/ Kept(e, id)'
                                   \/ id = run[e].id /\ (Passed(e) \/ (Wrap(e) /\ Duplicate(e)))
<1>0. RunOK /\ TopicsOK
  BY DEF Types
<1>1. ASSUME NEW c \in Consumers, Wrap(c) PROVE Goal
  BY <1>1, KeptWrap
<1>2. ASSUME NEW c \in Consumers, Handle(c) PROVE Goal
  BY <1>2, KeptHandle
<1>3. ASSUME NEW c \in Consumers, Deliver(c) \/ Decorate(c) PROVE Goal
  BY <1>3, KeptDeliver, KeptDecorate
<1>4. ASSUME NEW c \in Consumers, Settle(c) PROVE Goal
  <2>1. CASE e = c
    BY <1>4, <2>1, KeptSettle
  <2>2. CASE e # c
    <3>1. queue'[e] = queue[e] /\ stream'[e] = stream[e] /\ done' = done
      BY <1>0, <1>4, <2>2 DEF Settle, topicVars, TopicsOK
    <3>. QED
      BY <1>0, <1>4, <2>2, <3>1, OtherRuns, KeptFrame
  <2>. QED
    BY <2>1, <2>2
<1>5. CASE Crash
  BY <1>5, KeptCrash
<1>6. ASSUME NEW c \in Consumers, ListenerNext(c) PROVE Goal
  <2>1. queue'[e] = queue[e] /\ stream' = stream /\ run' = run /\ done' = done
    BY <1>0, <1>6 DEF ListenerNext, TopicsOK
  <2>. QED
    BY <2>1, KeptFrame
<1>7. ASSUME NEW c \in Consumers, TimeoutFires(c) PROVE Goal
  <2>1. queue' = queue /\ stream' = stream /\ done' = done /\ Busy(c)
    BY <1>7 DEF TimeoutFires, topicVars, Awaits, Busy
  <2>2. PICK d : ReturnTo(c, d, "err")
    BY <1>7 DEF TimeoutFires
  <2>3. HistoryOK
    BY DEF Types
  <2>4. CASE e = c
    BY <1>0, <2>1, <2>2, <2>3, <2>4, KeptReturn
  <2>5. CASE e # c
    BY <1>0, <1>7, <2>1, <2>5, OtherRuns, KeptFrame
  <2>. QED
    BY <2>4, <2>5
<1>8. ASSUME NEW r \in Ids,
             \/ Publish(r) \/ Await(r) \/ RequestStart(r) \/ RequestFails(r)
             \/ RequestDropped(r)
      PROVE  Goal
  <2>1. stream' = stream /\ run' = run /\ done' = done
        /\ queue' \in {queue, Published(app.entry, r)}
    BY <1>8 DEF Publish, BusSend, ForwarderPublish, TransformPublish, EncodePublish,
       Produce, Await, RequestPublish, RequestReturns, RequestTimeout, RequestForget,
       RequestStart, RequestFails, RequestDropped, topicVars
  <2>. QED
    BY <1>0, <2>1, PublishedGrows, KeptFrame
<1>9. ASSUME NEW c \in Consumers, Tick(c) PROVE Goal
  BY <1>9, KeptFrame DEF Tick, topicVars
<1>10. CASE WindowEnds \/ UNCHANGED vars
  BY <1>10, KeptFrame DEF WindowEnds, vars, topicVars
<1>. QED
  BY <1>1, <1>2, <1>3, <1>4, <1>5, <1>6, <1>7, <1>8, <1>9, <1>10 DEF Next, Work

\* What is passed on stays on the way to the end.
LEMMA LiveStep ==
  ASSUME Types, Unleased, [Next]_vars, NEW c \in Ends, NEW id \in Ids, Live(c, id)
  PROVE  Live(c, id)' \/ (id = run[c].id /\ Wrap(c) /\ Duplicate(c))
<1>1. app' = app /\ app \in Deployments /\ Path(c)' = Path(c)
  BY AppFixed DEF Types, AppOK, Path
<1>2. PICK e \in Path(c) : Kept(e, id)
  BY DEF Live
<1>3. /\ e \in Consumers /\ app.cons[e].handler # "listen"
      /\ e # c => e \in CarriersOf(app) /\ e \notin Ends
  BY <1>1, PathFacts
<1>4. CASE Kept(e, id)'
  BY <1>1, <1>4 DEF Live
<1>5. CASE id = run[e].id /\ Passed(e)
  <2>1. PICK f \in Path(c) : app.cons[f].topic = app.cons[e].to
    <3>1. /\ Feeds(app, FeedersIn(app, c), c)
          /\ c \in Ends => c \notin CarriersOf(app)
      BY <1>1, PathFacts DEF Ends, EndsOf, CarriersOf
    <3>2. e \in FeedersIn(app, c) \cup {c}
      BY DEF Path
    <3>3. e = c => /\ "PoisonQueue" \in ToSet(app.cons[c].chain)
                   /\ \E x \in Consumers : app.cons[x].topic = app.cons[e].to
      BY <1>5, <3>1 DEF Passed, HasConsumer, Chain
    <3>. QED
      BY <3>1, <3>2, <3>3 DEF Feeds, Path
  <2>2. f \in Consumers
    BY <1>1, PathFacts
  <2>3. id \in ToSet(queue'[f])
    BY <1>5, <2>1, <2>2 DEF Passed
  <2>. QED
    BY <1>1, <2>3 DEF Live, Kept, Waiting
<1>6. CASE id = run[e].id /\ Wrap(e) /\ Duplicate(e)
  <2>1. e \in Ends
    BY <1>1, <1>3, <1>6, DedupPlace DEF Duplicate, Down, Here
  <2>. QED
    BY <1>3, <1>6, <2>1
<1>. QED
  BY <1>2, <1>3, <1>4, <1>5, <1>6, KeptNext

\* A Deduplicator takes for a duplicate what has come to an end, or what another
\* handler is working on.
LEMMA DuplicateKey ==
  ASSUME Types, SeenKeys, NEW c \in Consumers, NEW mw \in Dedups, Down(c, mw),
         IsDuplicate(c), NEW id, id = run[c].id
  PROVE  /\ c \in Ends /\ id \in Ids /\ mw \in ToSet(Chain(c)) /\ ~Within(c, mw, id)
         /\ mw = "Deduplicator" => Excused(c, mw, id)
         /\ mw = "RouterDeduplicator" => Held(id)
<1>1. app \in Deployments /\ RunOK
  BY DEF Types, AppOK
<1>. PICK d \in DOMAIN Chain(c) : d = run[c].depth /\ Chain(c)[d] = mw
  BY DEF Down, Here
<1>2. /\ c \in Ends /\ mw \in ToSet(Chain(c))
      /\ \A q \in DOMAIN Chain(c) : Chain(c)[q] = mw => q = d
  BY <1>1, DedupPlace
<1>3. ~Within(c, mw, id)
  <2>1. d \in Nat /\ run[c].task = "down"
    BY <1>1, ChainFacts DEF Down
  <2>. QED
    BY <1>2, <2>1 DEF Within, Inside
<1>4. id \in Ids
  BY <1>1 DEF RunOK, Placed, Busy, Down
<1>5. CASE mw = "Deduplicator"
  <2>1. Scope(c) = {c}
    BY <1>5 DEF Scope, Here
  <2>2. <<c, id>> \in seen
    BY <2>1 DEF IsDuplicate, Keys
  <2>. QED
    BY <1>2, <1>3, <1>4, <1>5, <2>2 DEF SeenKeys
<1>6. CASE mw = "RouterDeduplicator"
  <2>1. Scope(c) = {"router"}
    BY <1>6 DEF Scope, Here
  <2>2. <<"router", id>> \in seen
    BY <2>1 DEF IsDuplicate, Keys
  <2>. QED
    BY <1>2, <1>3, <1>4, <1>6, <2>2 DEF SeenKeys
<1>. QED
  BY <1>5, <1>6 DEF Dedups

LEMMA DuplicateFacts ==
  ASSUME Types, SeenKeys, NEW c \in Consumers, Duplicate(c), NEW id, id = run[c].id
  PROVE  /\ c \in Ends /\ id \in Ids
         /\ \/ "Deduplicator" \in ToSet(Chain(c)) /\ Ruled(c, id)
            \/ /\ "RouterDeduplicator" \in ToSet(Chain(c))
               /\ \E e \in Ends : \/ Ruled(e, id)
                                  \/ e # c /\ Within(e, "RouterDeduplicator", id)
<1>1. PICK mw \in Dedups : Down(c, mw) /\ IsDuplicate(c)
  BY DEF Duplicate
<1>2. /\ c \in Ends /\ id \in Ids /\ mw \in ToSet(Chain(c)) /\ ~Within(c, mw, id)
      /\ mw = "Deduplicator" => Excused(c, mw, id)
      /\ mw = "RouterDeduplicator" => Held(id)
  BY <1>1, DuplicateKey
<1>3. CASE mw = "RouterDeduplicator"
  BY <1>2, <1>3 DEF Held
<1>4. CASE mw = "Deduplicator" /\ Nested(c) /\ Held(id)
  <2>1. app \in Deployments
    BY DEF Types, AppOK
  <2>2. PICK p, q \in DOMAIN Chain(c) :
          p < q /\ Chain(c)[p] = "Deduplicator" /\ Chain(c)[q] = "RouterDeduplicator"
    BY <1>4 DEF Nested
  <2>3. PICK d \in DOMAIN Chain(c) :
          d = run[c].depth /\ Chain(c)[d] = "Deduplicator" /\ run[c].task = "down"
    BY <1>1, <1>4 DEF Down, Here
  <2>4. /\ d = p /\ p \in Nat /\ q \in Nat /\ "RouterDeduplicator" \in ToSet(Chain(c))
        /\ \A s \in DOMAIN Chain(c) : Chain(c)[s] = "RouterDeduplicator" => s = q
    BY <2>1, <2>2, <2>3, DedupPlace, ChainFacts DEF Dedups
  <2>5. ~Within(c, "RouterDeduplicator", id)
    BY <2>2, <2>3, <2>4 DEF Within, Inside
  <2>. QED
    BY <1>2, <1>4, <2>4, <2>5 DEF Held
<1>. QED
  BY <1>2, <1>3, <1>4 DEF Excused, Dedups

LEMMA RuledLives ==
  ASSUME Types, [Next]_vars, NEW e \in Ends, NEW id, Ruled(e, id)
  PROVE  SomeLive(id)' /\ (id \in done'[e] => Live(e, id)')
         /\ (id \in done'[e] \/ id \in failed'[e])
<1>1. app' = app /\ app \in Deployments /\ Path(e)' = Path(e) /\ Ends' = Ends
  BY AppFixed DEF Types, AppOK, Path, Ends
<1>2. e \in Path(e) /\ e \in Consumers
  BY <1>1, PathFacts
<1>3. id \in done'[e] \cup failed'[e]
  BY <1>2, HistoryGrows DEF Ruled
<1>4. id \in done'[e] => Live(e, id)'
  BY <1>1, <1>2 DEF Live, Kept
<1>. QED
  BY <1>1, <1>3, <1>4 DEF SomeLive

LEMMA DuplicateLives ==
  ASSUME Types, LossInv, [Next]_vars, NEW c \in Ends, Wrap(c), Duplicate(c),
         NEW id, id = run[c].id
  PROVE  /\ SomeLive(id)'
         /\ \/ Live(c, id)'
            \/ "Deduplicator" \in ToSet(Chain(c)) /\ id \in failed'[c]
            \/ "RouterDeduplicator" \in ToSet(Chain(c))
<1>. USE DEF LossInv
<1>1. app' = app /\ app \in Deployments /\ Ends' = Ends
  BY AppFixed DEF Types, AppOK, Ends
<1>2. c \in Consumers /\ id \in Ids
  BY <1>1, DuplicateFacts, PathFacts
<1>3. CASE "Deduplicator" \in ToSet(Chain(c)) /\ Ruled(c, id)
  BY <1>3, RuledLives
<1>4. CASE /\ "RouterDeduplicator" \in ToSet(Chain(c))
           /\ \E e \in Ends : \/ Ruled(e, id)
                              \/ e # c /\ Within(e, "RouterDeduplicator", id)
  <2>1. PICK e \in Ends : Ruled(e, id) \/ (e # c /\ Within(e, "RouterDeduplicator", id))
    BY <1>4
  <2>2. CASE Ruled(e, id)
    BY <1>4, <2>2, RuledLives
  <2>3. CASE e # c /\ Within(e, "RouterDeduplicator", id) /\ Acks(e)
    <3>1. Ruled(e, id)
      BY <1>2, <2>3 DEF AckedWithin, Excused, Dedups
    <3>. QED
      BY <1>4, <3>1, RuledLives
  <2>4. CASE e # c /\ Within(e, "RouterDeduplicator", id) /\ ~Acks(e)
    <3>1. Kept(e, id)
      BY <2>4 DEF Within, Inside, Kept, InFlight
    <3>2. e \in Path(e) /\ e \in Consumers /\ Path(e)' = Path(e)
      BY <1>1, PathFacts DEF Path
    <3>3. Kept(e, id)'
      BY <2>4, <3>1, <3>2, <1>2, KeptWrap
    <3>. QED
      BY <1>1, <1>4, <3>2, <3>3 DEF SomeLive, Live
  <2>. QED
    BY <2>1, <2>2, <2>3, <2>4
<1>. QED
  BY <1>2, <1>3, <1>4, DuplicateFacts

LEMMA SomeLiveStep ==
  ASSUME Types, LossInv, [Next]_vars, NEW id \in Ids, SomeLive(id)
  PROVE  SomeLive(id)'
<1>1. app' = app /\ app \in Deployments /\ Ends' = Ends
  BY AppFixed DEF Types, AppOK, Ends
<1>2. PICK e \in Ends : id \in failed[e] \/ Live(e, id)
  BY DEF SomeLive
<1>3. CASE id \in failed[e]
  BY <1>3, RuledLives DEF Ruled
<1>4. CASE Live(e, id)'
  BY <1>1, <1>4 DEF SomeLive
<1>5. CASE id = run[e].id /\ Wrap(e) /\ Duplicate(e)
  BY <1>5, DuplicateLives
<1>. QED
  BY <1>2, <1>3, <1>4, <1>5, LiveStep DEF LossInv

\* A new message comes to its ends.
LEMMA ProducedStep ==
  ASSUME Types, [Next]_vars, NEW id \in produced', id \notin produced, NEW c \in Ends
  PROVE  Live(c, id)'
<1>1. app' = app /\ app \in Deployments /\ Path(c)' = Path(c) /\ TopicsOK
  BY AppFixed DEF Types, AppOK, Path
<1>2. id \in Ids /\ queue' = Published(app.entry, id)
  <2>1. PICK r \in Ids : Publish(r) \/ Await(r) \/ RequestStart(r) \/ RequestFails(r)
                         \/ RequestDropped(r)
    <3>1. ASSUME NEW e \in Consumers,
                 \/ Work(e) \/ Decorate(e) \/ ListenerNext(e) \/ TimeoutFires(e) \/ Tick(e)
          PROVE  produced' = produced
      <4>1. Wrap(e) => produced' = produced
        BY WrapEffects DEF appVars
      <4>2. Handle(e) => produced' = produced
        BY HandleEffects DEF Types, appVars
      <4>3. \/ Deliver(e) \/ Settle(e) \/ Decorate(e) \/ ListenerNext(e) \/ TimeoutFires(e)
            \/ Tick(e)
            => produced' = produced
        BY DEF Deliver, Begin, Settle, Decorate, TransformNext, DecodeNext, PassOn,
               ListenerNext, TimeoutFires, Tick, appVars
      <4>. QED
        BY <3>1, <4>1, <4>2, <4>3 DEF Work
    <3>2. Crash \/ WindowEnds \/ UNCHANGED vars => produced' = produced
      BY DEF Crash, WindowEnds, vars, appVars
    <3>. QED
      BY <3>1, <3>2 DEF Next
  <2>2. id = r /\ queue' = Published(app.entry, r)
    BY <2>1 DEF Publish, BusSend, ForwarderPublish, TransformPublish, EncodePublish,
       Produce, Await, RequestPublish, RequestReturns, RequestTimeout, RequestForget,
       RequestStart, RequestFails, RequestDropped, appVars
  <2>. QED
    BY <2>2
<1>3. PICK e \in Path(c) : app.cons[e].topic = app.entry
  BY <1>1, PathFacts DEF Feeds, Path
<1>4. e \in Consumers
  BY <1>1, PathFacts
<1>5. id \in ToSet(queue'[e])
  BY <1>1, <1>2, <1>3, <1>4, PublishedArrives
<1>. QED
  BY <1>1, <1>5 DEF Live, Kept, Waiting

LEMMA NoneLostStep == ASSUME Types, LossInv, [Next]_vars PROVE NoneLost'
<1>1. app' = app /\ app \in Deployments /\ Ends' = Ends /\ \A c : Chain(c)' = Chain(c)
  BY AppFixed DEF Types, AppOK, Ends, Chain
<1>2. produced \subseteq Ids /\ produced' \subseteq Ids
  BY TypesStep DEF Types, AppOK
<1>. SUFFICES ASSUME NEW c \in Ends, NEW id \in produced'
              PROVE  \/ Live(c, id)'
                     \/ "Deduplicator" \in ToSet(Chain(c)) /\ id \in failed'[c]
                     \/ "RouterDeduplicator" \in ToSet(Chain(c)) /\ SomeLive(id)'
  BY <1>1 DEF NoneLost
<1>3. CASE id \notin produced
  BY <1>3, ProducedStep
<1>4. CASE id \in produced
  <2>1. /\ \/ Live(c, id)
           \/ "Deduplicator" \in ToSet(Chain(c)) /\ id \in failed[c]
           \/ "RouterDeduplicator" \in ToSet(Chain(c)) /\ SomeLive(id)
        /\ id \in Ids /\ Unleased
    BY <1>2, <1>4 DEF LossInv, NoneLost
  <2>2. CASE Live(c, id)
    <3>1. CASE Live(c, id)'
      BY <3>1
    <3>2. CASE id = run[c].id /\ Wrap(c) /\ Duplicate(c)
      BY <3>2, DuplicateLives
    <3>. QED
      BY <2>1, <2>2, <3>1, <3>2, LiveStep
  <2>3. CASE "Deduplicator" \in ToSet(Chain(c)) /\ id \in failed[c]
    <3>1. c \in Consumers
      BY <1>1, PathFacts
    <3>. QED
      BY <2>3, <3>1, HistoryGrows
  <2>4. CASE "RouterDeduplicator" \in ToSet(Chain(c)) /\ SomeLive(id)
    BY <2>1, <2>4, SomeLiveStep
  <2>. QED
    BY <2>1, <2>2, <2>3, <2>4
<1>. QED
  BY <1>3, <1>4

-----------------------------------------------------------------------------
(* The other parts of the invariant.                                       *)

LEMMA FailuresStep == ASSUME Types, Failures, [Next]_vars PROVE Failures'
<1>. SUFFICES ASSUME NEW c \in Consumers
              PROVE  run'[c].task = "up" /\ run'[c].result # "ack" => run'[c].id \in failed'[c]
  BY DEF Failures
<1>1. RunOK /\ HistoryOK
  BY DEF Types
<1>2. CASE run'[c] = run[c]
  BY <1>2, HistoryGrows DEF Failures
<1>3. CASE Call(c)
  BY <1>1, <1>3, CallTask
<1>4. ASSUME NEW d, NEW r, ReturnTo(c, d, r), Busy(c)
      PROVE  run'[c].task = "up" /\ run'[c].result # "ack" => run'[c].id \in failed'[c]
  <2>1. run'[c] = ReturnOf(c, d, r) /\ (r # "ack" => run[c].id \in failed'[c])
    BY <1>1, <1>4, ReturnShape DEF Becomes
  <2>2. run'[c].id = run[c].id /\ run'[c].result = r
    BY <2>1 DEF ReturnOf
  <2>. QED
    BY <2>1, <2>2
<1>5. CASE Wrap(c)
  BY <1>1, <1>3, <1>4, <1>5, WrapMoves DEF Moves, Return
<1>6. CASE Handle(c)
  BY <1>1, <1>4, <1>6, HandleEffects DEF Finish, Return, Busy
<1>7. CASE TimeoutFires(c)
  BY <1>4, <1>7 DEF TimeoutFires, Awaits, Busy
<1>8. CASE Deliver(c)
  BY <1>1, <1>8, BeginTask DEF Deliver
<1>9. CASE Settle(c) \/ Crash
  BY <1>1, <1>9 DEF Settle, Crash, Idle, Dead, RunOK
<1>. QED
  BY <1>1, <1>2, <1>5, <1>6, <1>7, <1>8, <1>9, RunChanges

\* A call inside a Deduplicator stays there until it has come to an end.
LEMMA WithinStep ==
  ASSUME Types, Failures, AckedWithin, [Next]_vars, ~Crash, NEW c \in Ends, NEW id \in Ids,
         NEW mw \in Dedups, Within(c, mw, id)
  PROVE  Within(c, mw, id)' \/ Ruled(c, id)' \/ Excused(c, mw, id)
<1>1. RunOK /\ HistoryOK /\ app \in Deployments /\ c \in Consumers /\ app' = app
  BY AppFixed, PathFacts DEF Types, AppOK
<1>2. PICK p \in DOMAIN Chain(c) : Chain(c)[p] = mw /\ Inside(c, p) /\ run[c].id = id
  BY DEF Within
<1>3. /\ p \in Nat \ {0} /\ Len(Chain(c)) \in Nat /\ p <= Len(Chain(c))
      /\ run[c].depth \in Nat /\ Busy(c) /\ Chain(c)' = Chain(c)
  BY <1>1, <1>2, ChainFacts DEF RunOK, RunOf, Inside, Busy, Chain
<1>4. Ruled(c, id) => Ruled(c, id)'
  BY <1>1, HistoryGrows DEF Ruled
<1>5. ASSUME Inside(c, p)', run'[c].id = id PROVE Within(c, mw, id)'
  BY <1>2, <1>3, <1>5 DEF Within
<1>6. CASE run'[c] = run[c]
  BY <1>2, <1>5, <1>6 DEF Inside
<1>7. ASSUME NEW d, NEW r, ReturnTo(c, d, r)
      PROVE  /\ run'[c].task = "up" /\ run'[c].depth = d /\ run'[c].id = id
             /\ r # "ack" => Ruled(c, id)'
  <2>1. run'[c] = ReturnOf(c, d, r) /\ (r # "ack" => run[c].id \in failed'[c])
    BY <1>1, <1>3, <1>7, ReturnShape DEF Becomes
  <2>2. run'[c].task = "up" /\ run'[c].depth = d /\ run'[c].id = id
    BY <1>2, <2>1 DEF ReturnOf
  <2>3. r # "ack" => Ruled(c, id)'
    BY <1>2, <2>1 DEF Ruled
  <2>. QED
    BY <2>2, <2>3
<1>8. CASE Wrap(c)
  <2>1. CASE Call(c)
    <3>1. run'[c] = CallOf(c)
      BY <1>1, <2>1, CallShape DEF Becomes
    <3>2. run'[c].task = "down" /\ run'[c].depth = run[c].depth + 1 /\ run'[c].id = id
      BY <1>2, <3>1 DEF CallOf
    <3>. QED
      BY <1>2, <1>3, <1>5, <3>2 DEF Inside
  <2>2. ASSUME NEW r, Return(c, r),
               \/ r # "ack" \/ Acks(c) \/ run[c].id \in done'[c]
               \/ run[c].task = "up" /\ run[c].result \in Errs
               \/ run[c].task = "down"
        PROVE  Within(c, mw, id)' \/ Ruled(c, id)' \/ Excused(c, mw, id)
    <3>1. ReturnTo(c, run[c].depth - 1, r)
      BY <2>2 DEF Return
    <3>2. CASE run[c].depth > p
      BY <1>3, <1>5, <1>7, <3>1, <3>2 DEF Inside
    <3>3. CASE r # "ack"
      BY <1>7, <3>1, <3>3
    <3>4. CASE Acks(c)
      BY <3>4 DEF AckedWithin
    <3>5. CASE run[c].id \in done'[c]
      BY <1>2, <3>5 DEF Ruled
    <3>6. CASE run[c].task = "up" /\ run[c].result \in Errs
      <4>1. run[c].id \in failed[c]
        BY <1>1, <3>6 DEF Failures, Errs
      <4>. QED
        BY <1>2, <1>4, <4>1 DEF Ruled
    <3>7. CASE run[c].task = "down"
      BY <1>2, <3>2, <3>7 DEF Inside
    <3>. QED
      BY <2>2, <3>3, <3>4, <3>5, <3>6, <3>7
  <2>3. TopicsOK
    BY DEF Types
  <2>. QED
    BY <1>1, <1>8, <2>1, <2>2, <2>3, WrapAcks DEF Down
<1>9. CASE Handle(c)
  <2>1. run[c].depth = Len(Chain(c)) + 1 /\ \E r \in Results : Return(c, r)
    BY <1>1, <1>9, HandleEffects DEF Finish
  <2>2. PICK r \in Results : ReturnTo(c, run[c].depth - 1, r)
    BY <2>1 DEF Return
  <2>. QED
    BY <1>3, <1>5, <1>7, <2>1, <2>2 DEF Inside
<1>10. CASE TimeoutFires(c)
  BY <1>7, <1>10 DEF TimeoutFires
<1>11. CASE Deliver(c)
  BY <1>3, <1>11 DEF Deliver, Begin, Busy
<1>12. CASE Settle(c)
  BY <1>2, <1>3, <1>12 DEF Settle, Inside
<1>. QED
  BY <1>1, <1>6, <1>8, <1>9, <1>10, <1>11, <1>12, RunChanges

\* What justifies a key lasts, until a crash forgets the keys.
LEMMA HeldStep ==
  ASSUME Types, Failures, AckedWithin, [Next]_vars, ~Crash, NEW id \in Ids, Held(id)
  PROVE  Held(id)'
<1>1. Ends' = Ends /\ app \in Deployments
  BY AppFixed DEF Types, AppOK, Ends
<1>2. PICK e \in Ends : Ruled(e, id) \/ Within(e, "RouterDeduplicator", id)
  BY DEF Held
<1>3. e \in Consumers
  BY <1>1, PathFacts
<1>4. Ruled(e, id) => Ruled(e, id)'
  BY <1>3, HistoryGrows DEF Ruled
<1>5. Ruled(e, id)' \/ Within(e, "RouterDeduplicator", id)'
  BY <1>2, <1>4, WithinStep DEF Excused, Dedups
<1>. QED
  BY <1>1, <1>5 DEF Held

LEMMA ExcusedStep ==
  ASSUME Types, Failures, AckedWithin, [Next]_vars, ~Crash, NEW c \in Ends, NEW id \in Ids,
         NEW mw \in Dedups
  PROVE  /\ Excused(c, mw, id) => Excused(c, mw, id)'
         /\ Within(c, mw, id) => Within(c, mw, id)' \/ Excused(c, mw, id)'
<1>1. c \in Consumers /\ Nested(c)' = Nested(c)
  BY AppFixed, PathFacts DEF Types, AppOK, Nested, Chain
<1>2. Excused(c, mw, id) => Excused(c, mw, id)'
  BY <1>1, HeldStep, HistoryGrows DEF Excused, Ruled
<1>3. Ruled(c, id)' => Excused(c, mw, id)'
  BY DEF Excused
<1>. QED
  BY <1>2, <1>3, WithinStep

LEMMA AckedWithinStep ==
  ASSUME Types, Failures, SeenKeys, AckedWithin, [Next]_vars
  PROVE  AckedWithin'
<1>1. RunOK /\ HistoryOK /\ app \in Deployments /\ app' = app /\ Ends' = Ends
  BY AppFixed DEF Types, AppOK, Ends
<1>. SUFFICES ASSUME NEW c \in Ends, NEW mw \in Dedups, NEW id \in Ids,
                     Within(c, mw, id)', Acks(c)'
              PROVE  Excused(c, mw, id)'
  BY <1>1 DEF AckedWithin
<1>2. c \in Consumers /\ c \notin CarriersOf(app) /\ Chain(c)' = Chain(c)
  BY <1>1 DEF Ends, EndsOf, CarriersOf, Chain
<1>3. PICK p \in DOMAIN Chain(c) :
        Chain(c)[p] = mw /\ Inside(c, p)' /\ run'[c].id = id
  BY <1>2 DEF Within
<1>4. ~Crash
  <2>1. Crash => run'[c].task = "idle"
    BY <1>2 DEF Crash, Idle
  <2>. QED
    BY <2>1 DEF Acks
<1>5. /\ p \in Nat \ {0} /\ run[c].depth \in Nat
      /\ run'[c].task = "up" /\ run'[c].result = "ack" /\ run'[c].depth >= p
  BY <1>1, <1>2, <1>3, ChainFacts DEF RunOK, RunOf, Acks, Inside
<1>6. Within(c, mw, id) /\ Acks(c) => Excused(c, mw, id)'
  BY <1>1, <1>4, ExcusedStep DEF AckedWithin
<1>7. CASE run'[c] = run[c]
  <2>1. Within(c, mw, id) /\ Acks(c)
    BY <1>3, <1>7 DEF Within, Inside, Acks
  <2>. QED
    BY <1>6, <2>1
<1>8. Ruled(c, id) \/ Ruled(c, id)' => Excused(c, mw, id)'
  BY <1>2, HistoryGrows DEF Ruled, Excused
<1>9. ASSUME NEW r, Return(c, r), Busy(c)
      PROVE  r = "ack" /\ run[c].id = id /\ run[c].depth > p
  <2>1. ReturnTo(c, run[c].depth - 1, r)
    BY <1>9 DEF Return
  <2>2. run'[c] = ReturnOf(c, run[c].depth - 1, r)
    BY <1>1, <1>2, <1>9, <2>1, ReturnShape DEF Becomes
  <2>. QED
    BY <1>3, <1>5, <2>2 DEF ReturnOf
<1>10. CASE Wrap(c)
  <2>0. Busy(c) /\ TopicsOK
    BY <1>1, <1>2, <1>10, WrapMoves DEF Moves, Types
  <2>1. ~Call(c)
    BY <1>1, <1>2, <1>5, CallTask
  <2>2. PICK r :
          /\ Return(c, r)
          /\ \/ r # "ack" \/ Acks(c) \/ run[c].id \in done'[c]
             \/ run[c].task = "up" /\ run[c].result \in Errs
             \/ \E n \in Dedups : Down(c, n) /\ IsDuplicate(c)
    BY <1>1, <1>2, <1>10, <2>0, <2>1, WrapAcks
  <2>3. r = "ack" /\ run[c].id = id /\ run[c].depth > p
    BY <1>9, <2>0, <2>2
  <2>4. CASE Acks(c)
    <3>1. Within(c, mw, id)
      BY <1>3, <1>5, <2>3, <2>4 DEF Within, Inside, Acks
    <3>. QED
      BY <1>6, <2>4, <3>1
  <2>5. CASE run[c].id \in done'[c]
    BY <1>8, <2>3, <2>5 DEF Ruled
  <2>6. CASE run[c].task = "up" /\ run[c].result \in Errs
    <3>1. run[c].id \in failed[c]
      BY <1>2, <2>6 DEF Failures, Errs
    <3>. QED
      BY <1>8, <2>3, <3>1 DEF Ruled
  <2>7. ASSUME NEW n \in Dedups, Down(c, n), IsDuplicate(c) PROVE Excused(c, mw, id)'
    <3>. PICK d \in DOMAIN Chain(c) : d = run[c].depth /\ Chain(c)[d] = n
      BY <2>7 DEF Down, Here
    <3>1. /\ \A q \in DOMAIN Chain(c) : Chain(c)[q] = mw => q = p
          /\ \A q \in DOMAIN Chain(c) : Chain(c)[q] = n => q = d
      BY <1>1, <1>2, <1>3, DedupPlace
    <3>2. n # mw /\ p < d /\ d \in Nat
      BY <1>3, <1>5, <2>3, <3>1
    <3>3. /\ ~Within(c, n, id) /\ (n = "Deduplicator" => Excused(c, n, id))
          /\ (n = "RouterDeduplicator" => Held(id))
      BY <1>2, <2>3, <2>7, DuplicateKey
    <3>4. CASE n = "Deduplicator"
      <4>1. mw = "RouterDeduplicator"
        BY <3>2, <3>4 DEF Dedups
      <4>2. ~Nested(c)
        BY <1>3, <1>5, <3>1, <3>2, <3>4, <4>1 DEF Nested
      <4>. QED
        BY <1>8, <3>3, <3>4, <4>2 DEF Excused
    <3>5. CASE n = "RouterDeduplicator"
      <4>1. mw = "Deduplicator" /\ Nested(c)
        BY <1>3, <3>2, <3>5 DEF Dedups, Nested
      <4>2. Excused(c, mw, id)
        BY <3>3, <3>5, <4>1 DEF Excused
      <4>. QED
        BY <1>4, <4>2, ExcusedStep
    <3>. QED
      BY <3>4, <3>5 DEF Dedups
  <2>. QED
    BY <2>2, <2>3, <2>4, <2>5, <2>6, <2>7
<1>11. CASE Handle(c)
  <2>1. PICK r : Return(c, r) /\ (r # "ack" \/ run[c].id \in done'[c])
    BY <1>1, <1>2, <1>11, HandleAcks
  <2>2. Busy(c)
    BY <1>1, <1>2, <1>11, HandleEffects DEF Busy
  <2>. QED
    BY <1>8, <1>9, <2>1, <2>2 DEF Ruled
<1>12. CASE TimeoutFires(c)
  <2>1. PICK d : ReturnTo(c, d, "err")
    BY <1>12 DEF TimeoutFires
  <2>. QED
    BY <1>1, <1>2, <1>5, <2>1, ReturnTask
<1>13. CASE Deliver(c)
  BY <1>1, <1>2, <1>5, <1>13, BeginTask DEF Deliver
<1>14. CASE Settle(c)
  BY <1>1, <1>2, <1>5, <1>14 DEF Settle, Idle, Dead, RunOK
<1>. QED
  BY <1>1, <1>2, <1>4, <1>7, <1>10, <1>11, <1>12, <1>13, <1>14, RunChanges

\* A key is seen when a call goes into its Deduplicator.
LEMMA SeenSource ==
  ASSUME NEW c \in Consumers, Wrap(c)
  PROVE  \/ seen' = seen
         \/ Call(c) /\ seen' = seen \cup Keys(c) /\ \E mw \in Dedups : Down(c, mw)
<1>1. CASE Deduplicator(c)
  <2>1. PICK mw \in {"Deduplicator", "RouterDeduplicator", "UuidDeduplicator"} :
          seen' = seen \/ (Down(c, mw) /\ Call(c) /\ seen' = seen \cup Keys(c))
    BY <1>1 DEF Deduplicator
  <2>2. Down(c, "UuidDeduplicator") => Keys(c) = {}
    <3>1. Down(c, "UuidDeduplicator") => Scope(c) = {}
      BY DEF Scope, Down, Here
    <3>. QED
      BY <3>1 DEF Keys
  <2>. QED
    BY <2>1, <2>2 DEF Dedups
<1>. QED
  BY <1>1 DEF Wrap, Throttle, DelayOnError, CorrelationId, InstantAck, Telemetry, Timeout,
     Through, Retry, Duplicator, Recoverer, IgnoreErrors, RandomFail, PoisonQueue,
     CircuitBreaker, memVars

LEMMA SeenKeysStep ==
  ASSUME Types, Failures, AckedWithin, SeenKeys, [Next]_vars
  PROVE  SeenKeys'
<1>1. RunOK /\ app \in Deployments /\ app' = app /\ Ends' = Ends
  BY AppFixed DEF Types, AppOK, Ends
<1>2. CASE Crash
  BY <1>2 DEF Crash, SeenKeys
<1>3. ASSUME ~Crash
      PROVE  /\ \A c \in Ends, id \in Ids :
                  Excused(c, "Deduplicator", id) \/ Within(c, "Deduplicator", id) =>
                    Excused(c, "Deduplicator", id)' \/ Within(c, "Deduplicator", id)'
             /\ \A id \in Ids : Held(id) => Held(id)'
  BY <1>3, ExcusedStep, HeldStep DEF Dedups
<1>4. CASE ~Crash /\ seen' \subseteq seen
  BY <1>1, <1>3, <1>4 DEF SeenKeys
<1>5. ASSUME ~Crash, NEW c \in Consumers, Call(c), seen' = seen \cup Keys(c),
             NEW mw \in Dedups, Down(c, mw)
      PROVE  SeenKeys'
  <2>. PICK d \in DOMAIN Chain(c) : d = run[c].depth /\ Chain(c)[d] = mw
    BY <1>5 DEF Down, Here
  <2>1. c \in Ends /\ d \in Nat
    BY <1>1, DedupPlace, ChainFacts
  <2>2. run'[c].task = "down" /\ run'[c].depth = d + 1 /\ run'[c].id = run[c].id
    <3>1. run'[c] = CallOf(c)
      BY <1>1, <1>5, CallShape DEF Becomes
    <3>. QED
      BY <3>1 DEF CallOf
  <2>3. Within(c, mw, run[c].id)'
    <3>. PICK m : m = run[c].id
      OBVIOUS
    <3>1. Chain(c)' = Chain(c)
      BY <1>1 DEF Chain
    <3>2. Inside(c, d)'
      BY <2>1, <2>2 DEF Inside
    <3>3. Within(c, mw, m)'
      BY <2>2, <3>1, <3>2 DEF Within
    <3>. QED
      BY <2>2, <3>3
  <2>4. \/ mw = "Deduplicator" /\ Keys(c) = {c} \X {run[c].id}
        \/ mw = "RouterDeduplicator" /\ Keys(c) = {"router"} \X {run[c].id}
    <3>1. CASE mw = "Deduplicator"
      <4>1. Scope(c) = {c}
        BY <3>1 DEF Scope, Here
      <4>. QED
        BY <3>1, <4>1 DEF Keys
    <3>2. CASE mw = "RouterDeduplicator"
      <4>1. Scope(c) = {"router"}
        BY <3>2 DEF Scope, Here
      <4>. QED
        BY <3>2, <4>1 DEF Keys
    <3>. QED
      BY <3>1, <3>2 DEF Dedups
  <2>5. "router" \notin Consumers
    BY ConsumerAssumption
  <2>6. ASSUME NEW id \in Ids, NEW e \in Consumers, <<e, id>> \in seen'
        PROVE  /\ e \in Ends
               /\ Excused(e, "Deduplicator", id)' \/ Within(e, "Deduplicator", id)'
    <3>1. CASE <<e, id>> \in seen
      BY <1>3, <1>5, <3>1 DEF SeenKeys
    <3>2. CASE <<e, id>> \in Keys(c)
      <4>1. e = c /\ id = run[c].id /\ mw = "Deduplicator"
        BY <2>4, <2>5, <3>2
      <4>. QED
        BY <2>1, <2>2, <2>3, <4>1
    <3>. QED
      BY <1>5, <2>6, <3>1, <3>2
  <2>7. ASSUME NEW id \in Ids, <<"router", id>> \in seen'
        PROVE  Held(id)'
    <3>1. CASE <<"router", id>> \in seen
      BY <1>3, <1>5, <3>1 DEF SeenKeys
    <3>2. CASE <<"router", id>> \in Keys(c)
      <4>1. id = run[c].id /\ mw = "RouterDeduplicator"
        BY <2>4, <2>5, <3>2
      <4>. QED
        BY <1>1, <2>1, <2>2, <2>3, <4>1 DEF Held
    <3>. QED
      BY <1>5, <2>7, <3>1, <3>2
  <2>. QED
    BY <1>1, <2>6, <2>7 DEF SeenKeys
<1>6. CASE ~Crash /\ ~(seen' \subseteq seen)
  <2>1. PICK c \in Consumers : Wrap(c)
    <3>1. \A e \in Consumers : Handle(e) => seen' = seen
      BY <1>1, HandleEffects DEF memVars
    <3>2. ASSUME NEW e \in Consumers,
                 \/ Deliver(e) \/ Settle(e) \/ Decorate(e) \/ ListenerNext(e)
                 \/ TimeoutFires(e) \/ Tick(e)
          PROVE  seen' = seen
      BY <3>2 DEF Deliver, Begin, Settle, Decorate, TransformNext, DecodeNext, PassOn,
             ListenerNext, TimeoutFires, Tick, memVars
    <3>3. ASSUME NEW r \in Ids,
                 \/ Publish(r) \/ Await(r) \/ RequestStart(r) \/ RequestFails(r)
                 \/ RequestDropped(r)
          PROVE  seen' = seen
      BY <3>3 DEF Publish, BusSend, ForwarderPublish, TransformPublish, EncodePublish,
         Produce, Await, RequestPublish, RequestReturns, RequestTimeout, RequestForget,
         RequestStart, RequestFails, RequestDropped, memVars
    <3>4. WindowEnds \/ UNCHANGED vars => seen' \subseteq seen
      BY DEF WindowEnds, vars, memVars
    <3>. QED
      BY <1>6, <3>1, <3>2, <3>3, <3>4 DEF Next, Work
  <2>. QED
    BY <1>5, <1>6, <2>1, SeenSource
<1>. QED
  BY <1>2, <1>4, <1>6

\* What a consumer has without a lease is only a copy: its topic loses nothing,
\* its stream is fed from there, and its calls from the stream.
LEMMA UnleasedTopic ==
  ASSUME Types, [Next]_vars, NEW c \in Consumers, ~Leased(c), app.cons[c].handler # "listen"
  PROVE  /\ ToSet(queue[c]) \subseteq ToSet(queue'[c])
         /\ ToSet(stream'[c]) \subseteq ToSet(stream[c]) \cup ToSet(queue[c])
<1>. DEFINE Goal == /\ ToSet(queue[c]) \subseteq ToSet(queue'[c])
                    /\ ToSet(stream'[c]) \subseteq ToSet(stream[c]) \cup ToSet(queue[c])
<1>1. /\ RunOK /\ TopicsOK /\ queue[c] \in Seq(Ids) /\ stream[c] \in Seq(Ids)
      /\ queue \in [Consumers -> Seq(Ids)] /\ stream \in [Consumers -> Seq(Ids)]
      /\ app.cons[c].via = "cloudevents"
  BY DEF Types, TopicsOK, Leased
<1>2. ASSUME ToSet(queue[c]) \subseteq ToSet(queue'[c]), stream'[c] = stream[c] PROVE Goal
  BY <1>2
<1>3. ASSUME NEW e \in Consumers, Wrap(e) PROVE Goal
  <2>1. run[e].id \in Ids
    BY <1>1, <1>3, WrapMoves DEF Moves, RunOK, Placed
  <2>. QED
    BY <1>1, <1>2, <1>3, <2>1, WrapEffects, PublishedGrows DEF Poisoned
<1>4. ASSUME NEW e \in Consumers, Handle(e) PROVE Goal
  <2>1. run[e].id \in Ids
    BY <1>1, <1>4, HandleEffects DEF Busy, RunOK, Placed
  <2>. QED
    BY <1>1, <1>2, <1>4, <2>1, HandleEffects, PublishedGrows DEF Relayed
<1>5. ASSUME NEW e \in Consumers, Deliver(e) \/ Settle(e) \/ Decorate(e) \/ ListenerNext(e),
             e # c
      PROVE  Goal
  <2>1. queue'[c] = queue[c] /\ stream'[c] = stream[c]
    BY <1>1, <1>5 DEF Deliver, Settle, Decorate, TransformNext, DecodeNext, PassOn,
                      ListenerNext, topicVars
  <2>. QED
    BY <1>2, <2>1
<1>6. CASE Deliver(c)
  <2>1. queue' = queue /\ stream[c] # <<>> /\ stream'[c] = Tail(stream[c])
    BY <1>1, <1>6 DEF Deliver
  <2>2. ToSet(stream[c]) = {Head(stream[c])} \cup ToSet(Tail(stream[c]))
    BY <1>1, <2>1, QueueFacts
  <2>. QED
    BY <2>1, <2>2
<1>7. CASE Settle(c)
  <2>1. Leases(c) = <<>>
    BY DEF Leases
  <2>2. ToSet(queue[c] \o <<>>) = ToSet(queue[c]) \cup ToSet(<<>>) /\ ToSet(<<>>) = {}
    BY <1>1, QueueFacts, OneFacts
  <2>3. /\ queue'[c] \in {queue[c], queue[c] \o <<>>}
        /\ stream'[c] \in {stream[c], <<>>}
    BY <1>1, <1>7, <2>1 DEF Settle, topicVars
  <2>. QED
    BY <2>2, <2>3
<1>8. CASE Decorate(c)
  <2>1. DecodeNext(c)
    BY <1>1, <1>8 DEF Decorate, TransformNext
  <2>2. PICK m : /\ queue[c] # <<>> /\ m = Head(queue[c])
                 /\ queue'[c] = Append(Tail(queue[c]), m)
                 /\ stream'[c] = stream[c] \/ stream'[c] = Append(stream[c], m)
    BY <1>1, <2>1 DEF DecodeNext, PassOn
  <2>3. /\ m \in Ids /\ Tail(queue[c]) \in Seq(Ids)
        /\ ToSet(queue[c]) = {m} \cup ToSet(Tail(queue[c]))
    BY <1>1, <2>2, QueueFacts
  <2>4. \A q \in Seq(Ids), x \in Ids : ToSet(Append(q, x)) = ToSet(q) \cup {x}
    BY QueueFacts
  <2>5. /\ ToSet(Append(Tail(queue[c]), m)) = ToSet(queue[c])
        /\ ToSet(Append(stream[c], m)) = ToSet(stream[c]) \cup {m}
    BY <1>1, <2>3, <2>4
  <2>. QED
    BY <2>2, <2>3, <2>5
<1>9. CASE ListenerNext(c)
  BY <1>9 DEF ListenerNext
<1>10. ASSUME NEW e \in Consumers, TimeoutFires(e) \/ Tick(e) PROVE Goal
  BY <1>10 DEF TimeoutFires, Tick, topicVars
<1>11. ASSUME NEW r \in Ids,
              \/ Publish(r) \/ Await(r) \/ RequestStart(r) \/ RequestFails(r)
              \/ RequestDropped(r)
       PROVE  Goal
  <2>1. stream' = stream /\ queue' \in {queue, Published(app.entry, r)}
    BY <1>11 DEF Publish, BusSend, ForwarderPublish, TransformPublish, EncodePublish,
       Produce, Await, RequestPublish, RequestReturns, RequestTimeout, RequestForget,
       RequestStart, RequestFails, RequestDropped, topicVars
  <2>. QED
    BY <1>1, <1>2, <2>1, PublishedGrows
<1>12. CASE Crash
  <2>1. queue'[c] = queue[c] \o <<>> /\ stream'[c] = <<>>
    BY <1>12 DEF Crash, Leases
  <2>2. ToSet(queue[c] \o <<>>) = ToSet(queue[c]) \cup ToSet(<<>>) /\ ToSet(<<>>) = {}
    BY <1>1, QueueFacts, OneFacts
  <2>. QED
    BY <2>1, <2>2
<1>13. CASE WindowEnds \/ UNCHANGED vars
  BY <1>13 DEF WindowEnds, vars, topicVars
<1>. QED
  BY <1>3, <1>4, <1>5, <1>6, <1>7, <1>8, <1>9, <1>10, <1>11, <1>12, <1>13 DEF Next, Work

LEMMA UnleasedRun ==
  ASSUME Types, [Next]_vars, NEW c \in Consumers, ~Leased(c), Busy(c)'
  PROVE  (Busy(c) /\ run'[c].id = run[c].id) \/ run'[c].id \in ToSet(stream[c])
<1>1. RunOK /\ HistoryOK /\ stream[c] \in Seq(Ids) /\ app.cons[c].via # "direct"
  BY DEF Types, TopicsOK, Leased
<1>2. ASSUME NEW d, NEW r, ReturnTo(c, d, r), Busy(c) PROVE run'[c].id = run[c].id
  <2>1. run'[c] = ReturnOf(c, d, r)
    BY <1>1, <1>2, ReturnShape DEF Becomes
  <2>. QED
    BY <2>1 DEF ReturnOf
<1>3. CASE run'[c] = run[c]
  BY <1>3 DEF Busy
<1>4. CASE Wrap(c)
  <2>1. Busy(c) /\ (Call(c) \/ \E r \in Results : Return(c, r))
    BY <1>1, <1>4, WrapMoves DEF Moves
  <2>2. CASE Call(c)
    <3>1. run'[c] = CallOf(c)
      BY <1>1, <2>2, CallShape DEF Becomes
    <3>. QED
      BY <2>1, <3>1 DEF CallOf
  <2>. QED
    BY <1>2, <2>1, <2>2 DEF Return
<1>5. CASE Handle(c)
  BY <1>1, <1>2, <1>5, HandleEffects DEF Finish, Return, Busy
<1>6. CASE TimeoutFires(c)
  BY <1>2, <1>6 DEF TimeoutFires, Awaits, Busy
<1>7. CASE Deliver(c)
  <2>1. stream[c] # <<>> /\ Begin(c, Head(stream[c]))
    BY <1>1, <1>7 DEF Deliver
  <2>2. run'[c].id = Head(stream[c])
    BY <1>1, <2>1, BeginTask
  <2>. QED
    BY <1>1, <2>1, <2>2, QueueFacts
<1>8. CASE Settle(c) \/ Crash
  BY <1>1, <1>8 DEF Settle, Crash, Idle, Dead, RunOK, Busy
<1>. QED
  BY <1>1, <1>3, <1>4, <1>5, <1>6, <1>7, <1>8, RunChanges

LEMMA UnleasedStep == ASSUME Types, Unleased, [Next]_vars PROVE Unleased'
<1>1. app' = app /\ \A c : Leased(c)' = Leased(c)
  BY AppFixed DEF Leased
<1>. SUFFICES ASSUME NEW c \in Consumers, ~Leased(c), app.cons[c].handler # "listen",
                     NEW id \in Ids, Waiting(c, id)' \/ InFlight(c, id)'
              PROVE  id \in ToSet(queue'[c])
  BY <1>1 DEF Unleased
<1>2. Waiting(c, id) \/ InFlight(c, id) => id \in ToSet(queue[c])
  BY DEF Unleased
<1>3. /\ ToSet(queue[c]) \subseteq ToSet(queue'[c])
      /\ ToSet(stream'[c]) \subseteq ToSet(stream[c]) \cup ToSet(queue[c])
  BY UnleasedTopic
<1>4. CASE Waiting(c, id)'
  BY <1>2, <1>3, <1>4 DEF Waiting
<1>5. CASE InFlight(c, id)'
  <2>1. (Busy(c) /\ run[c].id = id) \/ id \in ToSet(stream[c])
    BY <1>5, UnleasedRun DEF InFlight, Busy
  <2>. QED
    BY <1>2, <1>3, <2>1 DEF InFlight, Busy, Waiting
<1>. QED
  BY <1>4, <1>5

-----------------------------------------------------------------------------
(* The invariant, and what NothingLost says of it.                         *)

LEMMA LossInit == ASSUME Init PROVE LossInv
<1>1. /\ produced = {} /\ seen = {}
      /\ \A c \in Consumers : /\ run[c].task = "idle" /\ queue[c] = <<>> /\ stream[c] = <<>>
  BY DEF Init, Idle
<1>2. Ends \subseteq Consumers
  BY DEF Ends, EndsOf
<1>3. Unleased
  BY <1>1, OneFacts DEF Unleased, Waiting, InFlight
<1>4. NoneLost /\ Failures /\ SeenKeys
  BY <1>1 DEF NoneLost, Failures, SeenKeys
<1>5. AckedWithin
  BY <1>1, <1>2 DEF AckedWithin, Acks
<1>. QED
  BY <1>3, <1>4, <1>5 DEF LossInv

LEMMA LossStep == ASSUME Types, LossInv, [Next]_vars PROVE LossInv'
BY NoneLostStep, UnleasedStep, FailuresStep, SeenKeysStep, AckedWithinStep DEF LossInv

LEMMA LossImplies == ASSUME Types, LossInv PROVE NothingLost
<1>1. app \in Deployments /\ NoneLost
  BY DEF Types, AppOK, LossInv
<1>2. ASSUME NEW c \in Ends, NEW id, Live(c, id) PROVE HandledOrComing(c, id)
  <2>1. PICK e \in Path(c) : Kept(e, id)
    BY <1>2 DEF Live
  <2>2. e \in {c} \cup (Consumers \ Ends)
    BY <1>1, PathFacts
  <2>. QED
    BY <2>1, <2>2 DEF Kept, HandledOrComing
<1>. SUFFICES ASSUME NEW id \in produced, NEW c \in Ends
              PROVE  HandledOrComing(c, id) \/ TakenForDuplicate(c, id)
  BY DEF NothingLost
<1>3. CASE Live(c, id)
  BY <1>2, <1>3
<1>4. CASE "Deduplicator" \in ToSet(Chain(c)) /\ id \in failed[c]
  BY <1>4 DEF TakenForDuplicate
<1>5. CASE "RouterDeduplicator" \in ToSet(Chain(c)) /\ SomeLive(id)
  <2>1. PICK e \in Ends : id \in failed[e] \/ HandledOrComing(e, id)
    BY <1>2, <1>5 DEF SomeLive
  <2>. QED
    BY <1>5, <2>1 DEF TakenForDuplicate
<1>. QED
  BY <1>1, <1>3, <1>4, <1>5 DEF NoneLost

\* Whatever fails, times out, panics or crashes, what was published is handled by
\* every consumer meant for it or on its way there: a topic, a stream, a call, a
\* relay or a poison topic holds it, and a lease of the router brings back what a
\* lost call had.  Only a Deduplicator acks what no handler has handled, for the
\* keys it keeps outlive the call that failed.
THEOREM NothingIsLost == Spec => []NothingLost
<1>1. Init => Types /\ LossInv
  BY TypesInit, LossInit
<1>2. Types /\ LossInv /\ [Next]_vars => (Types /\ LossInv)'
  BY TypesStep, LossStep
<1>3. Types /\ LossInv => NothingLost
  BY LossImplies
<1>. QED
  BY <1>1, <1>2, <1>3, PTL DEF Spec
=============================================================================
