---------------------------- MODULE Router_proofs ----------------------------
(***************************************************************************)
(* Proofs, for any handlers, topics and bounds, that Router::run returns   *)
(* Ok without its timeout only after a complete shutdown, that no message  *)
(* is lost to it, however tasks and run end, and of its types.             *)
(***************************************************************************)
EXTENDS Router, SequenceTheorems, TLAPS

-----------------------------------------------------------------------------
(* What Append adds to a queue, and Head and Tail take apart.              *)

LEMMA AppendFacts ==
  ASSUME NEW S, NEW q \in Seq(S), NEW e \in S
  PROVE  /\ Append(q, e) \in Seq(S) /\ Len(Append(q, e)) = Len(q) + 1
         /\ Range(Append(q, e)) = Range(q) \cup {e}
BY AppendProperties, LenProperties DEF Range

LEMMA TailFacts ==
  ASSUME NEW S, NEW q \in Seq(S), q # <<>>
  PROVE  /\ Head(q) \in S /\ Tail(q) \in Seq(S) /\ Len(Tail(q)) = Len(q) - 1
         /\ Range(q) = {Head(q)} \cup Range(Tail(q))
<1>1. \A i \in DOMAIN q : i = 1 \/ (i - 1 \in DOMAIN Tail(q) /\ Tail(q)[i - 1] = q[i])
  OBVIOUS
<1>2. /\ 1 \in DOMAIN q /\ Head(q) = q[1]
      /\ \A i \in DOMAIN Tail(q) : i + 1 \in DOMAIN q /\ Tail(q)[i] = q[i + 1]
  OBVIOUS
<1>. QED
  BY <1>1, <1>2, HeadTailProperties DEF Range

LEMMA EmptyFacts == Range(<<>>) = {} /\ Len(<<>>) = 0 /\ \A S : <<>> \in Seq(S)
BY DEF Range

TaskTypeOK ==
  /\ run \in {"subscribing", "waiting", "joining", "ok", "failed"}
  /\ reg \in 0..Len(Order)
  /\ run = "subscribing" => reg < Len(Order)
  /\ task \in [Handlers -> {"none", "select", "handling", "publishing",
                            "ended", "panicked"}]
  /\ todo \in [Handlers -> SUBSET Topics]
  /\ current = [h \in Handlers |-> current[h]]

\* A task exists only for the handlers subscribed so far.
SpawnedInOrder == \A i \in DOMAIN Order : i > reg => task[Order[i]] = "none"

\* What a handler produced and nobody published yet is still in the hands of
\* its task.
ProducedTracked ==
  \A x \in made \ (sent \cup lost) :
    \E h \in Handlers :
      /\ task[h] = "publishing"
      /\ \E m \in current[h] : \E t \in todo[h] : x = <<h, m, t>>

TodoOwned == \A h \in Handlers : todo[h] # {} => task[h] = "publishing"

CleanExit == run = "ok" /\ ~timedOut => AllStopped

ShutdownInv == /\ TaskTypeOK /\ SpawnedInOrder /\ ProducedTracked /\ TodoOwned
               /\ CleanExit

LEMMA OrderFacts ==
  /\ Order \in Seq(Handlers) /\ DOMAIN Order = 1..Len(Order) /\ Len(Order) \in Nat
  /\ \A i \in DOMAIN Order : Order[i] \in Handlers
  /\ \A i, k \in DOMAIN Order : Order[i] = Order[k] => i = k
BY RouterAssumption DEF Handlers, Range, IsInjective

LEMMA OrderEmpty == Order = <<>> <=> Len(Order) = 0
BY RouterAssumption

LEMMA ShutdownInit == ASSUME Init PROVE ShutdownInv
<1>1. TaskTypeOK
  BY OrderFacts, OrderEmpty DEF Init, TaskTypeOK
<1>2. SpawnedInOrder
  BY OrderFacts DEF Init, SpawnedInOrder
<1>3. ProducedTracked /\ TodoOwned /\ CleanExit
  BY DEF Init, ProducedTracked, TodoOwned, CleanExit
<1>. QED
  BY <1>1, <1>2, <1>3 DEF ShutdownInv

\* A step that leaves the tasks and the produced messages alone, and ends run
\* cleanly only when every task has stopped.
LEMMA ShutdownFrame ==
  ASSUME ShutdownInv, TaskTypeOK', reg' = reg, UNCHANGED <<task, current, pubVars>>,
         run' = "ok" /\ ~timedOut' => AllStopped
  PROVE  ShutdownInv'
<1>1. SpawnedInOrder'
  BY DEF ShutdownInv, SpawnedInOrder
<1>2. ProducedTracked' /\ TodoOwned'
  BY DEF ShutdownInv, ProducedTracked, TodoOwned, pubVars
<1>3. CleanExit'
  BY DEF CleanExit, AllStopped, Stopped
<1>. QED
  BY <1>1, <1>2, <1>3 DEF ShutdownInv

LEMMA ShutdownRun ==
  ASSUME ShutdownInv, Run \/ Cancel PROVE ShutdownInv'
<1> USE OrderFacts DEF ShutdownInv
<1>1. CASE SubscribeOk
  <2> DEFINE h == Order[reg + 1]
  <2>0. reg \in Nat /\ reg + 1 \in 1..Len(Order) /\ reg + 1 > reg
    <3>1. reg \in 0..Len(Order) /\ reg < Len(Order)
      BY <1>1 DEF SubscribeOk, TaskTypeOK
    <3>. QED
      BY <3>1
  <2>1. reg + 1 \in DOMAIN Order /\ h \in Handlers /\ task[h] = "none"
    BY <2>0 DEF SpawnedInOrder
  <2>2. TaskTypeOK'
    <3>0. /\ reg' = reg + 1
          /\ run' = IF reg + 1 = Len(Order) THEN "waiting" ELSE "subscribing"
      BY <1>1 DEF SubscribeOk
    <3>1. reg' \in 0..Len(Order) /\ (run' = "subscribing" => reg' < Len(Order))
      <4>1. Len(Order) \in Nat
        OBVIOUS
      <4>2. run' = "subscribing" => reg + 1 # Len(Order)
        BY ONLY <3>0
      <4>. QED
        BY ONLY <2>0, <3>0, <4>1, <4>2
    <3>5. task' = [task EXCEPT ![h] = "select"]
      BY <1>1 DEF SubscribeOk
    <3>6. task \in [Handlers -> {"none", "select", "handling", "publishing",
                                 "ended", "panicked"}]
      BY DEF TaskTypeOK
    <3>2. task' \in [Handlers -> {"none", "select", "handling", "publishing",
                                  "ended", "panicked"}]
      <4> HIDE DEF h
      <4>. QED
        BY ONLY <3>5, <3>6
    <3>3. UNCHANGED <<todo, current>>
      BY <1>1 DEF SubscribeOk, pubVars
    <3>4. run' \in {"subscribing", "waiting"}
      BY <3>0
    <3>. QED
      BY <3>1, <3>2, <3>3, <3>4 DEF TaskTypeOK
  <2>3. \A k \in Handlers \ {h} : task'[k] = task[k]
    BY <1>1, <2>1 DEF SubscribeOk, TaskTypeOK
  <2>4. SpawnedInOrder'
    <3> SUFFICES ASSUME NEW i \in DOMAIN Order, i > reg + 1
                 PROVE  task'[Order[i]] = "none"
      BY <1>1 DEF SubscribeOk, SpawnedInOrder
    <3>1. i \in Nat /\ i # reg + 1 /\ i > reg
      BY <2>0
    <3>2. Order[i] # h /\ Order[i] \in Handlers
      BY <2>1, <3>1
    <3>. QED
      BY <2>3, <3>1, <3>2 DEF SpawnedInOrder
  <2>5. ProducedTracked'
    BY <1>1, <2>1, <2>3 DEF SubscribeOk, ProducedTracked, pubVars
  <2>6. TodoOwned'
    BY <1>1, <2>1, <2>3 DEF SubscribeOk, TodoOwned, pubVars
  <2>7. CleanExit'
    BY <1>1 DEF SubscribeOk, CleanExit
  <2>. QED
    BY <2>2, <2>4, <2>5, <2>6, <2>7
<1>2. CASE SubscribeErr
  BY <1>2, ShutdownFrame DEF SubscribeErr, TaskTypeOK, pubVars
<1>3. CASE SeeCancel
  BY <1>3, ShutdownFrame DEF SeeCancel, TaskTypeOK, pubVars
<1>4. CASE Joined
  BY <1>4, ShutdownFrame DEF Joined, TaskTypeOK, pubVars
<1>5. CASE CloseTimeout
  BY <1>5, ShutdownFrame DEF CloseTimeout, TaskTypeOK, pubVars
<1>6. CASE Cancel
  BY <1>6, ShutdownFrame DEF Cancel, TaskTypeOK, pubVars, CleanExit
<1>. QED
  BY <1>1, <1>2, <1>3, <1>4, <1>5, <1>6 DEF Run

\* A live task h may change its own state as long as it stays out of none.
LEMMA ShutdownTask ==
  ASSUME ShutdownInv, NEW h \in Handlers, Live(h), TaskTypeOK',
         UNCHANGED runVars, task'[h] # "none",
         \A k \in Handlers \ {h} : task'[k] = task[k]
  PROVE  SpawnedInOrder' /\ CleanExit'
<1>1. \A i \in DOMAIN Order : i > reg => Order[i] # h
  BY OrderFacts DEF ShutdownInv, SpawnedInOrder, Live
<1>2. SpawnedInOrder'
  BY <1>1, OrderFacts DEF ShutdownInv, SpawnedInOrder, runVars
<1>3. CleanExit'
  BY DEF ShutdownInv, CleanExit, AllStopped, Stopped, Live, runVars
<1>. QED
  BY <1>2, <1>3

LEMMA ShutdownHandler ==
  ASSUME ShutdownInv, NEW h \in Handlers, Lease(h) \/ Task(h) \/ Handle(h)
  PROVE  ShutdownInv'
<1> USE DEF ShutdownInv
<1>t. /\ task \in [Handlers -> {"none", "select", "handling", "publishing",
                                "ended", "panicked"}]
      /\ todo \in [Handlers -> SUBSET Topics]
      /\ current = [k \in Handlers |-> current[k]]
  BY DEF TaskTypeOK
<1>1. CASE Lease(h)
  BY <1>1, ShutdownFrame DEF Lease, TaskTypeOK, CleanExit, runVars, pubVars
\* The steps between two messages: nothing of h is to be published.
<1>2. ASSUME task[h] \in {"select", "handling"}, UNCHANGED <<runVars, pubVars>>,
             task'[h] \in {"select", "handling", "ended", "panicked"},
             task' = [task EXCEPT ![h] = task'[h]],
             current' = [current EXCEPT ![h] = current'[h]]
      PROVE  ShutdownInv'
  <2>0. todo[h] = {}
    BY <1>2 DEF TodoOwned
  <2>1. /\ \A k \in Handlers \ {h} : task'[k] = task[k] /\ current'[k] = current[k]
        /\ todo' = todo
    BY <1>2, <1>t DEF pubVars
  <2>2. TaskTypeOK'
    BY <1>2, <1>t DEF TaskTypeOK, runVars, pubVars
  <2>3. SpawnedInOrder' /\ CleanExit'
    BY <1>2, <2>1, <2>2, ShutdownTask DEF Live
  <2>4. ProducedTracked'
    <3> SUFFICES ASSUME NEW x \in made \ (sent \cup lost)
                 PROVE  \E k \in Handlers :
                          /\ task'[k] = "publishing"
                          /\ \E m \in current'[k] : \E t \in todo'[k] : x = <<k, m, t>>
      BY <1>2 DEF ProducedTracked, pubVars
    <3>1. PICK k \in Handlers :
                 /\ task[k] = "publishing"
                 /\ \E m \in current[k] : \E t \in todo[k] : x = <<k, m, t>>
      BY DEF ProducedTracked
    <3>2. k # h
      BY <1>2, <3>1
    <3>. QED
      BY <2>1, <3>1, <3>2
  <2>5. TodoOwned'
    BY <2>0, <2>1 DEF TodoOwned
  <2>. QED
    BY <2>2, <2>3, <2>4, <2>5
<1>3. CASE TaskCancelled(h)
  BY <1>2, <1>3, <1>t DEF TaskCancelled
<1>4. CASE TaskNext(h)
  BY <1>2, <1>4, <1>t DEF TaskNext
<1>5. CASE TaskStreamEnd(h)
  BY <1>2, <1>5, <1>t DEF TaskStreamEnd
<1>6. CASE HandleErr(h)
  BY <1>2, <1>6, <1>t DEF HandleErr
<1>7. CASE HandlePanic(h)
  BY <1>2, <1>7, <1>t DEF HandlePanic
\* A successful handle() settles, then publishes or drops what it produced.
<1>8. CASE HandleOk(h)
  <2>0. task[h] = "handling" /\ todo[h] = {}
    BY <1>8 DEF HandleOk, TodoOwned
  <2>1. PICK m \in current[h], T \in SUBSET Topics :
          IF h \in Publishing /\ T # {}
          THEN /\ task' = [task EXCEPT ![h] = "publishing"]
               /\ todo' = [todo EXCEPT ![h] = T]
               /\ made' = made \cup {<<h, m, t>> : t \in T}
               /\ UNCHANGED current
          ELSE /\ task' = [task EXCEPT ![h] = "select"]
               /\ current' = [current EXCEPT ![h] = {}]
               /\ UNCHANGED <<todo, made>>
    BY <1>8 DEF HandleOk
  <2>2. CASE ~(h \in Publishing /\ T # {})
    <3>1. /\ UNCHANGED <<runVars, pubVars>> /\ task'[h] = "select"
          /\ task' = [task EXCEPT ![h] = task'[h]]
          /\ current' = [current EXCEPT ![h] = current'[h]]
      BY <1>8, <1>t, <2>1, <2>2 DEF HandleOk, pubVars
    <3>. QED
      BY <1>2, <2>0, <3>1
  <2>3. CASE h \in Publishing /\ T # {}
    <3>1. /\ \A k \in Handlers \ {h} : task'[k] = task[k] /\ todo'[k] = todo[k]
          /\ task'[h] = "publishing" /\ todo'[h] = T
          /\ current' = current /\ UNCHANGED <<runVars, sent, lost>>
          /\ made' = made \cup {<<h, m, t>> : t \in T}
      BY <1>8, <1>t, <2>1, <2>3 DEF HandleOk
    <3>2. TaskTypeOK'
      BY <1>t, <2>1, <2>3, <3>1 DEF TaskTypeOK, runVars
    <3>3. SpawnedInOrder' /\ CleanExit'
      BY <2>0, <3>1, <3>2, ShutdownTask DEF Live
    <3>4. ProducedTracked'
      <4> SUFFICES ASSUME NEW x \in made' \ (sent \cup lost)
                   PROVE  \E k \in Handlers :
                            /\ task'[k] = "publishing"
                            /\ \E n \in current[k] : \E t \in todo'[k] : x = <<k, n, t>>
        BY <3>1 DEF ProducedTracked
      <4>1. CASE x \in made
        <5>1. PICK k \in Handlers :
                 /\ task[k] = "publishing"
                 /\ \E n \in current[k] : \E t \in todo[k] : x = <<k, n, t>>
          BY <4>1 DEF ProducedTracked
        <5>2. k # h
          BY <2>0, <5>1
        <5>. QED
          BY <3>1, <5>1, <5>2
      <4>2. CASE x \in {<<h, m, t>> : t \in T}
        BY <3>1, <4>2
      <4>. QED
        BY <3>1, <4>1, <4>2
    <3>5. TodoOwned'
      BY <3>1 DEF TodoOwned
    <3>. QED
      BY <3>2, <3>3, <3>4, <3>5
  <2>. QED
    BY <2>2, <2>3
<1>9. CASE PublishTopic(h)
  <2>1. PICK t \in todo[h] :
          /\ LET P == {<<h, m, t>> : m \in current[h]}
             IN \/ sent' = sent \cup P /\ lost' = lost
                \/ lost' = lost \cup P /\ sent' = sent
          /\ todo' = [todo EXCEPT ![h] = @ \ {t}]
    BY <1>9 DEF PublishTopic
  <2>2. /\ \A k \in Handlers \ {h} : todo'[k] = todo[k]
        /\ todo'[h] = todo[h] \ {t} /\ task[h] = "publishing"
        /\ UNCHANGED <<runVars, task, current, made>>
    BY <1>9, <1>t, <2>1 DEF PublishTopic
  <2>3. TaskTypeOK'
    BY <1>t, <2>1, <2>2 DEF TaskTypeOK, runVars
  <2>4. SpawnedInOrder' /\ CleanExit'
    BY <2>2, <2>3, ShutdownTask DEF Live
  <2>5. ProducedTracked'
    <3> SUFFICES ASSUME NEW x \in made \ (sent' \cup lost')
                 PROVE  \E k \in Handlers :
                          /\ task[k] = "publishing"
                          /\ \E m \in current[k] : \E u \in todo'[k] : x = <<k, m, u>>
      BY <2>2 DEF ProducedTracked
    <3>0. x \in made \ (sent \cup lost) /\ x \notin {<<h, m, t>> : m \in current[h]}
      BY <2>1
    <3>1. PICK k \in Handlers :
             /\ task[k] = "publishing"
             /\ \E m \in current[k] : \E u \in todo[k] : x = <<k, m, u>>
      BY <3>0 DEF ProducedTracked
    <3>2. PICK m \in current[k] : \E u \in todo[k] : x = <<k, m, u>>
      BY <3>1
    <3>3. PICK u \in todo[k] : x = <<k, m, u>>
      BY <3>2
    <3>4. ~(k = h /\ u = t)
      BY <3>0, <3>3
    <3>5. u \in todo'[k]
      BY <2>2, <3>4
    <3>. QED
      BY <3>1, <3>3, <3>5
  <2>6. TodoOwned'
    BY <2>2 DEF TodoOwned
  <2>. QED
    BY <2>3, <2>4, <2>5, <2>6
<1>10. CASE ProcessDone(h)
  <2>1. /\ \A k \in Handlers \ {h} : task'[k] = task[k] /\ current'[k] = current[k]
        /\ task[h] = "publishing" /\ task'[h] = "select" /\ todo[h] = {}
        /\ UNCHANGED <<runVars, pubVars>>
    BY <1>10, <1>t DEF ProcessDone
  <2>2. TaskTypeOK'
    BY <1>10, <1>t DEF ProcessDone, TaskTypeOK, runVars, pubVars
  <2>3. SpawnedInOrder' /\ CleanExit'
    BY <2>1, <2>2, ShutdownTask DEF Live
  <2>4. ProducedTracked'
    <3> SUFFICES ASSUME NEW x \in made \ (sent \cup lost)
                 PROVE  \E k \in Handlers :
                          /\ task'[k] = "publishing"
                          /\ \E m \in current'[k] : \E t \in todo[k] : x = <<k, m, t>>
      BY <2>1 DEF ProducedTracked, pubVars
    <3>1. PICK k \in Handlers :
             /\ task[k] = "publishing"
             /\ \E m \in current[k] : \E t \in todo[k] : x = <<k, m, t>>
      BY DEF ProducedTracked
    <3>2. k # h
      BY <2>1, <3>1
    <3>. QED
      BY <2>1, <3>1, <3>2
  <2>5. TodoOwned'
    BY <2>1 DEF TodoOwned, pubVars
  <2>. QED
    BY <2>2, <2>3, <2>4, <2>5
<1>. QED
  BY <1>1, <1>3, <1>4, <1>5, <1>6, <1>7, <1>8, <1>9, <1>10 DEF Task, Progress, Handle

\* Whatever handlers, panics, publish errors and cancellation do: when run
\* returns Ok before its close timeout, every task has stopped and everything
\* produced was published or its failure logged.
THEOREM ShutdownIsClean == Spec => []CleanShutdown
<1>1. Init => ShutdownInv
  BY ShutdownInit
<1>2. ShutdownInv /\ [Next]_vars => ShutdownInv'
  <2> SUFFICES ASSUME ShutdownInv, [Next]_vars PROVE ShutdownInv'
    OBVIOUS
  <2>1. CASE UNCHANGED vars
    BY <2>1, ShutdownFrame DEF vars, runVars, pubVars, ShutdownInv, TaskTypeOK,
                               CleanExit
  <2>. QED
    BY <2>1, ShutdownRun, ShutdownHandler DEF Next, Done
<1>3. ShutdownInv => CleanShutdown
  BY DEF ShutdownInv, CleanExit, CleanShutdown, AllStopped, Stopped, TodoOwned,
         ProducedTracked
<1>. QED
  BY <1>1, <1>2, <1>3, PTL DEF Spec

-----------------------------------------------------------------------------
(* No lease is leaked.                                                     *)

LeaseTypeOK ==
  /\ task \in [Handlers -> {"none", "select", "handling", "publishing",
                            "ended", "panicked"}]
  /\ stream \in [Handlers -> Seq(Msgs)]
  /\ backlog \in [Handlers -> SUBSET Msgs]
  /\ current \in [Handlers -> SUBSET Msgs]
  /\ acked \in [Handlers -> SUBSET Msgs]

\* The message of h that no verdict has settled yet.
Unsettled(h) == IF task[h] = "handling" THEN current[h] ELSE {}

\* While h publishes, its message is settled already; a handler has one message.
LeaseAt(h) ==
  /\ Msgs = backlog[h] \cup Range(stream[h]) \cup Unsettled(h) \cup acked[h]
  /\ task[h] = "handling" => \E m \in Msgs : current[h] = {m}
  /\ task[h] \notin {"handling", "publishing"} => current[h] = {}
  /\ ~Live(h) => stream[h] = <<>>

LeaseInv == LeaseTypeOK /\ \A h \in Handlers : LeaseAt(h)

LEMMA LeaseInit == ASSUME Init PROVE LeaseInv
BY EmptyFacts DEF Init, LeaseInv, LeaseTypeOK, LeaseAt, Unsettled

\* A step of one handler, which keeps what is said of it.
LEMMA LeaseFrame ==
  ASSUME LeaseInv, LeaseTypeOK', NEW h \in Handlers, LeaseAt(h)',
         \A k \in Handlers \ {h} :
           /\ task'[k] = task[k] /\ stream'[k] = stream[k]
           /\ backlog'[k] = backlog[k] /\ current'[k] = current[k]
           /\ acked'[k] = acked[k]
  PROVE  LeaseInv'
BY DEF LeaseInv, LeaseAt, Unsettled, Live

LEMMA LeaseRun ==
  ASSUME ShutdownInv, LeaseInv, Run \/ Cancel PROVE LeaseInv'
<1>1. CASE SubscribeOk
  <2>0. reg \in Nat /\ reg + 1 \in 1..Len(Order) /\ reg + 1 > reg
    <3>1. reg \in 0..Len(Order) /\ reg < Len(Order)
      BY <1>1 DEF SubscribeOk, ShutdownInv, TaskTypeOK
    <3>. QED
      BY <3>1, OrderFacts
  <2>a. PICK h \in Handlers : h = Order[reg + 1]
    BY <2>0, OrderFacts
  <2>1. task[h] = "none"
    BY <2>0, <2>a, OrderFacts DEF ShutdownInv, SpawnedInOrder
  <2>2. /\ task' = [task EXCEPT ![h] = "select"]
        /\ UNCHANGED <<backlog, stream, current, acked>>
    BY <1>1, <2>a DEF SubscribeOk
  <2>3. LeaseTypeOK'
    BY <2>1, <2>2 DEF LeaseInv, LeaseTypeOK
  <2>4. LeaseAt(h)'
    BY <2>1, <2>2 DEF LeaseInv, LeaseTypeOK, LeaseAt, Unsettled, Live
  <2>. QED
    BY <2>1, <2>2, <2>3, <2>4, LeaseFrame DEF LeaseInv, LeaseTypeOK
<1>2. CASE UNCHANGED <<task, backlog, stream, current, acked>>
  BY <1>2 DEF LeaseInv, LeaseTypeOK, LeaseAt, Unsettled, Live
<1>. QED
  BY <1>1, <1>2 DEF Run, SubscribeErr, SeeCancel, Joined, CloseTimeout, Cancel

LEMMA LeaseHandler ==
  ASSUME LeaseInv, NEW h \in Handlers, Lease(h) \/ Task(h) \/ Handle(h)
  PROVE  LeaseInv'
<1>t. LeaseTypeOK /\ LeaseAt(h)
  BY DEF LeaseInv
<1> USE DEF LeaseTypeOK
<1>1. CASE Lease(h)
  <2>1. PICK m \in backlog[h] :
          /\ backlog' = [backlog EXCEPT ![h] = @ \ {m}]
          /\ stream' = [stream EXCEPT ![h] = Append(@, m)]
    BY <1>1 DEF Lease
  <2>2. UNCHANGED <<task, current, acked>> /\ Live(h)
    BY <1>1 DEF Lease
  <2>3. /\ Append(stream[h], m) \in Seq(Msgs)
        /\ Range(Append(stream[h], m)) = Range(stream[h]) \cup {m}
    BY <1>t, <2>1, AppendFacts
  <2>4. LeaseTypeOK'
    BY <1>t, <2>1, <2>2, <2>3
  <2>5. LeaseAt(h)'
    BY <1>t, <2>1, <2>2, <2>3 DEF LeaseAt, Unsettled, Live
  <2>. QED
    BY <1>t, <2>1, <2>2, <2>4, <2>5, LeaseFrame
\* The end of a task: its stream is dropped.
<1>2. ASSUME NEW M \in {{}, current[h]}, DropStream(h, M), Unsettled(h) = M,
             task[h] \in {"select", "handling"},
             task' = [task EXCEPT ![h] = task'[h]], task'[h] \in {"ended", "panicked"},
             current' = [current EXCEPT ![h] = {}], acked' = acked
      PROVE  LeaseInv'
  <2>1. /\ backlog' = [backlog EXCEPT ![h] = @ \cup M \cup Range(stream[h])]
        /\ stream' = [stream EXCEPT ![h] = <<>>]
    BY <1>2 DEF DropStream
  <2>2. Range(stream[h]) \subseteq Msgs
    BY <1>t DEF LeaseAt
  <2>3. LeaseTypeOK'
    BY <1>t, <1>2, <2>1, <2>2, EmptyFacts
  <2>4. LeaseAt(h)'
    BY <1>t, <1>2, <2>1, <2>2, EmptyFacts DEF LeaseAt, Unsettled, Live
  <2>. QED
    BY <1>t, <1>2, <2>1, <2>3, <2>4, LeaseFrame
<1>3. CASE TaskCancelled(h)
  <2>1. current[h] = {} /\ Unsettled(h) = {}
    BY <1>3, <1>t DEF TaskCancelled, LeaseAt, Unsettled
  <2>2. current' = [current EXCEPT ![h] = {}]
    BY <1>3, <1>t, <2>1 DEF TaskCancelled
  <2>3. /\ DropStream(h, {}) /\ task[h] = "select" /\ acked' = acked
        /\ task' = [task EXCEPT ![h] = "ended"]
    BY <1>3 DEF TaskCancelled
  <2>4. task'[h] = "ended" /\ task' = [task EXCEPT ![h] = task'[h]]
    BY <1>t, <2>3
  <2>. QED
    BY <1>2, <2>1, <2>2, <2>3, <2>4
<1>4. CASE TaskNext(h)
  <2>1. /\ task[h] = "select" /\ stream[h] # <<>> /\ UNCHANGED <<backlog, acked>>
        /\ task' = [task EXCEPT ![h] = "handling"]
        /\ current' = [current EXCEPT ![h] = {Head(stream[h])}]
        /\ stream' = [stream EXCEPT ![h] = Tail(@)]
    BY <1>4 DEF TaskNext
  <2>2. /\ Head(stream[h]) \in Msgs /\ Tail(stream[h]) \in Seq(Msgs)
        /\ Range(stream[h]) = {Head(stream[h])} \cup Range(Tail(stream[h]))
    BY <1>t, <2>1, TailFacts
  <2>3. LeaseTypeOK'
    BY <1>t, <2>1, <2>2
  <2>4. LeaseAt(h)'
    BY <1>t, <2>1, <2>2 DEF LeaseAt, Unsettled, Live
  <2>. QED
    BY <1>t, <2>1, <2>3, <2>4, LeaseFrame
<1>5. CASE TaskStreamEnd(h)
  <2>1. /\ task[h] = "select" /\ stream[h] = <<>>
        /\ task' = [task EXCEPT ![h] = "ended"]
        /\ UNCHANGED <<backlog, stream, current, acked>>
    BY <1>5 DEF TaskStreamEnd
  <2>2. LeaseTypeOK'
    BY <1>t, <2>1
  <2>3. LeaseAt(h)'
    BY <1>t, <2>1 DEF LeaseAt, Unsettled, Live
  <2>. QED
    BY <1>t, <2>1, <2>2, <2>3, LeaseFrame
\* A verdict: an ack, or a nack that hands the message back.
<1>6. ASSUME NEW m \in current[h], task[h] = "handling",
             \/ /\ acked' = [acked EXCEPT ![h] = @ \cup {m}] /\ backlog' = backlog
             \/ /\ backlog' = [backlog EXCEPT ![h] = @ \cup {m}] /\ acked' = acked,
             stream' = stream,
             \/ task' = [task EXCEPT ![h] = "publishing"] /\ current' = current
             \/ /\ task' = [task EXCEPT ![h] = "select"]
                /\ current' = [current EXCEPT ![h] = {}]
      PROVE  LeaseInv'
  <2>1. current[h] = {m} /\ m \in Msgs
    BY <1>t, <1>6 DEF LeaseAt
  <2>2. LeaseTypeOK'
    <3>1. /\ acked' \in [Handlers -> SUBSET Msgs]
          /\ backlog' \in [Handlers -> SUBSET Msgs]
      <4>1. CASE acked' = [acked EXCEPT ![h] = @ \cup {m}] /\ backlog' = backlog
        BY <1>t, <2>1, <4>1
      <4>2. CASE backlog' = [backlog EXCEPT ![h] = @ \cup {m}] /\ acked' = acked
        BY <1>t, <2>1, <4>2
      <4>. QED
        BY <1>6, <4>1, <4>2
    <3>2. /\ current' \in [Handlers -> SUBSET Msgs]
          /\ task' \in [Handlers -> {"none", "select", "handling", "publishing",
                                    "ended", "panicked"}]
      BY <1>t, <1>6
    <3>. QED
      BY <1>t, <1>6, <3>1, <3>2
  <2>3. LeaseAt(h)'
    BY <1>t, <1>6, <2>1 DEF LeaseAt, Unsettled, Live
  <2>. QED
    BY <1>t, <1>6, <2>2, <2>3, LeaseFrame
<1>7. CASE HandleOk(h)
  <2>1. PICK m \in current[h], T \in SUBSET Topics :
          /\ SettleAck(h, m) \/ SettleNack(h, m)
          /\ IF h \in Publishing /\ T # {}
             THEN task' = [task EXCEPT ![h] = "publishing"] /\ UNCHANGED current
             ELSE /\ task' = [task EXCEPT ![h] = "select"]
                  /\ current' = [current EXCEPT ![h] = {}]
    BY <1>7 DEF HandleOk
  <2>. QED
    BY <1>6, <1>7, <2>1 DEF HandleOk, SettleAck, SettleNack
<1>8. CASE HandleErr(h)
  BY <1>6, <1>8 DEF HandleErr, SettleNack
<1>9. CASE HandlePanic(h)
  <2>1. /\ DropStream(h, current[h]) /\ task[h] = "handling" /\ acked' = acked
        /\ task' = [task EXCEPT ![h] = "panicked"]
        /\ current' = [current EXCEPT ![h] = {}]
    BY <1>9 DEF HandlePanic
  <2>2. task'[h] = "panicked" /\ task' = [task EXCEPT ![h] = task'[h]]
    BY <1>t, <2>1
  <2>3. Unsettled(h) = current[h]
    BY <2>1 DEF Unsettled
  <2>. QED
    BY <1>2, <2>1, <2>2, <2>3
<1>10. CASE PublishTopic(h)
  BY <1>10 DEF PublishTopic, LeaseInv, LeaseAt, Unsettled, Live
<1>11. CASE ProcessDone(h)
  <2>1. /\ task[h] = "publishing" /\ task' = [task EXCEPT ![h] = "select"]
        /\ current' = [current EXCEPT ![h] = {}]
        /\ UNCHANGED <<backlog, stream, acked>>
    BY <1>11 DEF ProcessDone
  <2>2. LeaseTypeOK'
    BY <1>t, <2>1
  <2>3. LeaseAt(h)'
    BY <1>t, <2>1 DEF LeaseAt, Unsettled, Live
  <2>. QED
    BY <1>t, <2>1, <2>2, <2>3, LeaseFrame
<1>. QED
  BY <1>1, <1>3, <1>4, <1>5, <1>7, <1>8, <1>9, <1>10, <1>11 DEF Task, Progress, Handle

LEMMA RouterStep ==
  ASSUME ShutdownInv, LeaseInv, [Next]_vars PROVE ShutdownInv' /\ LeaseInv'
<1>1. CASE UNCHANGED vars
  <2>1. ShutdownInv'
    BY <1>1, ShutdownFrame DEF vars, runVars, pubVars, ShutdownInv, TaskTypeOK, CleanExit
  <2>2. LeaseInv'
    BY <1>1 DEF vars, LeaseInv, LeaseTypeOK, LeaseAt, Unsettled, Live
  <2>. QED
    BY <2>1, <2>2
<1>. QED
  BY <1>1, ShutdownRun, ShutdownHandler, LeaseRun, LeaseHandler DEF Next, Done

\* However handlers fail and panic, subscriptions are refused, streams end and
\* shutdowns time out: every message is acked, with the transport, or in the hands
\* of a task that still runs (process_message, and the responders it drops).
THEOREM NoLeaseIsLeaked == Spec => []NoLeaseLeaked
<1>1. Init => ShutdownInv /\ LeaseInv
  BY ShutdownInit, LeaseInit
<1>2. ShutdownInv /\ LeaseInv /\ [Next]_vars => (ShutdownInv /\ LeaseInv)'
  BY RouterStep
<1>3. LeaseInv => NoLeaseLeaked
  <2> SUFFICES ASSUME LeaseInv, NEW h \in Handlers
               PROVE  /\ Msgs = backlog[h] \cup Range(stream[h]) \cup current[h] \cup acked[h]
                      /\ ~Live(h) => stream[h] = <<>> /\ current[h] = {}
    BY DEF NoLeaseLeaked
  <2>1. LeaseAt(h) /\ current[h] \subseteq Msgs
    BY DEF LeaseInv, LeaseTypeOK
  <2>. QED
    BY <2>1 DEF LeaseAt, Unsettled, Live
<1>. QED
  BY <1>1, <1>2, <1>3, PTL DEF Spec
-----------------------------------------------------------------------------
(* The other types.                                                        *)

RunTypeOK == cancelled \in BOOLEAN /\ timedOut \in BOOLEAN

Fits == \A h \in Handlers : Len(stream[h]) <= BufferSize

HistoryTypeOK == /\ made \subseteq Handlers \X Msgs \X Topics
                 /\ sent \subseteq Handlers \X Msgs \X Topics
                 /\ lost \subseteq Handlers \X Msgs \X Topics

FailsTypeOK == fails \in [Handlers -> 0..MaxFails]

RestOK == RunTypeOK /\ Fits /\ HistoryTypeOK /\ FailsTypeOK

LEMMA FitsStep == ASSUME LeaseInv, Fits, [Next]_vars PROVE Fits'
<1>0. stream \in [Handlers -> Seq(Msgs)] /\ BufferSize \in Nat
  BY RouterAssumption DEF LeaseInv, LeaseTypeOK
<1>1. CASE stream' = stream
  BY <1>1 DEF Fits
<1>2. ASSUME NEW h \in Handlers, Lease(h) PROVE Fits'
  <2>1. PICK m \in Msgs : stream' = [stream EXCEPT ![h] = Append(@, m)]
    BY <1>2 DEF Lease, LeaseInv, LeaseTypeOK
  <2>2. Len(Append(stream[h], m)) = Len(stream[h]) + 1 /\ Len(stream[h]) \in Nat
    BY <1>0, AppendFacts
  <2>3. Len(Append(stream[h], m)) <= BufferSize
    BY <1>0, <1>2, <2>2 DEF Lease, HasRoom
  <2>. QED
    BY <1>0, <2>1, <2>3 DEF Fits
<1>3. ASSUME NEW h \in Handlers, TaskNext(h) PROVE Fits'
  <2>1. stream[h] # <<>> /\ stream' = [stream EXCEPT ![h] = Tail(@)]
    BY <1>3 DEF TaskNext
  <2>2. Len(Tail(stream[h])) = Len(stream[h]) - 1 /\ Len(stream[h]) \in Nat
    BY <1>0, <2>1, TailFacts
  <2>3. Len(Tail(stream[h])) <= BufferSize
    BY <1>0, <2>2 DEF Fits
  <2>. QED
    BY <1>0, <2>1, <2>3 DEF Fits
<1>4. ASSUME NEW h \in Handlers, stream' = [stream EXCEPT ![h] = <<>>] PROVE Fits'
  BY <1>0, <1>4, EmptyFacts DEF Fits
<1>5. ASSUME NEW h \in Handlers, TaskCancelled(h) \/ HandlePanic(h) PROVE Fits'
  BY <1>4, <1>5 DEF TaskCancelled, HandlePanic, DropStream
<1>6. ASSUME NEW h \in Handlers,
             TaskStreamEnd(h) \/ HandleOk(h) \/ HandleErr(h) \/ PublishTopic(h) \/ ProcessDone(h)
      PROVE  stream' = stream
  BY <1>6 DEF TaskStreamEnd, HandleOk, HandleErr, PublishTopic, ProcessDone, SettleAck, SettleNack
<1>7. CASE UNCHANGED vars \/ Cancel \/ Run
  BY <1>1, <1>7 DEF vars, Cancel, Run, SubscribeOk, SubscribeErr, SeeCancel, Joined, CloseTimeout
<1>. QED
  BY <1>1, <1>2, <1>3, <1>5, <1>6, <1>7 DEF Next, Done, Task, Progress, Handle

LEMMA HistoryStep ==
  ASSUME ShutdownInv, LeaseInv, HistoryTypeOK, [Next]_vars PROVE HistoryTypeOK'
<1>0. /\ current \in [Handlers -> SUBSET Msgs] /\ todo \in [Handlers -> SUBSET Topics]
  BY DEF ShutdownInv, TaskTypeOK, LeaseInv, LeaseTypeOK
<1>1. CASE UNCHANGED <<made, sent, lost>>
  BY <1>1 DEF HistoryTypeOK
<1>2. ASSUME NEW h \in Handlers, HandleOk(h) PROVE HistoryTypeOK'
  <2>1. PICK m \in Msgs, T \in SUBSET Topics :
          made' = made \/ made' = made \cup {<<h, m, t>> : t \in T}
    <3>1. PICK m \in current[h], T \in SUBSET Topics :
            IF h \in Publishing /\ T # {}
            THEN made' = made \cup {<<h, m, t>> : t \in T} ELSE UNCHANGED made
      BY <1>2 DEF HandleOk
    <3>2. m \in Msgs
      BY <1>0
    <3>. QED
      BY <3>1, <3>2
  <2>2. {<<h, m, t>> : t \in T} \subseteq Handlers \X Msgs \X Topics
    OBVIOUS
  <2>. QED
    BY <1>2, <2>1, <2>2 DEF HandleOk, HistoryTypeOK
<1>3. ASSUME NEW h \in Handlers, PublishTopic(h) PROVE HistoryTypeOK'
  <2>1. PICK t \in Topics :
          LET P == {<<h, m, t>> : m \in current[h]}
          IN \/ sent' = sent \cup P /\ UNCHANGED lost
             \/ lost' = lost \cup P /\ UNCHANGED sent
    BY <1>0, <1>3 DEF PublishTopic
  <2>2. {<<h, m, t>> : m \in current[h]} \subseteq Handlers \X Msgs \X Topics
    BY <1>0
  <2>. QED
    BY <1>3, <2>1, <2>2 DEF PublishTopic, HistoryTypeOK
<1>4. ASSUME NEW h \in Handlers,
             \/ Lease(h) \/ TaskCancelled(h) \/ TaskNext(h) \/ TaskStreamEnd(h)
             \/ HandleErr(h) \/ HandlePanic(h) \/ ProcessDone(h)
      PROVE  UNCHANGED <<made, sent, lost>>
  BY <1>4 DEF Lease, TaskCancelled, TaskNext, TaskStreamEnd, HandleErr, HandlePanic,
              ProcessDone, pubVars
<1>5. CASE UNCHANGED vars \/ Cancel \/ Run
  BY <1>1, <1>5 DEF vars, pubVars, Cancel, Run, SubscribeOk, SubscribeErr, SeeCancel, Joined,
                    CloseTimeout
<1>. QED
  BY <1>1, <1>2, <1>3, <1>4, <1>5 DEF Next, Done, Task, Progress, Handle

LEMMA FailsStep == ASSUME FailsTypeOK, [Next]_vars PROVE FailsTypeOK'
<1>0. MaxFails \in Nat
  BY RouterAssumption
<1>1. ASSUME NEW h \in Handlers, fails[h] < MaxFails, fails' = [fails EXCEPT ![h] = @ + 1]
      PROVE  FailsTypeOK'
  <2>1. fails[h] + 1 \in 0..MaxFails
    BY <1>0, <1>1 DEF FailsTypeOK
  <2>. QED
    BY <1>1, <2>1 DEF FailsTypeOK
<1>2. CASE fails' = fails
  BY <1>2 DEF FailsTypeOK
<1>3. ASSUME NEW h \in Handlers, HandleOk(h) \/ HandleErr(h) PROVE FailsTypeOK'
  BY <1>1, <1>2, <1>3 DEF HandleOk, HandleErr, SettleAck, SettleNack
<1>4. ASSUME NEW h \in Handlers, Lease(h) \/ Task(h) \/ HandlePanic(h) PROVE fails' = fails
  BY <1>4 DEF Lease, Task, Progress, TaskCancelled, TaskNext, TaskStreamEnd, PublishTopic,
              ProcessDone, HandlePanic
<1>5. CASE UNCHANGED vars \/ Cancel \/ Run
  BY <1>2, <1>5 DEF vars, Cancel, Run, SubscribeOk, SubscribeErr, SeeCancel, Joined, CloseTimeout
<1>. QED
  BY <1>2, <1>3, <1>4, <1>5 DEF Next, Done, Handle

LEMMA RunTypeStep == ASSUME RunTypeOK, [Next]_vars PROVE RunTypeOK'
<1>1. ASSUME NEW h \in Handlers, Lease(h) \/ Task(h) \/ Handle(h)
      PROVE  UNCHANGED <<cancelled, timedOut>>
  BY <1>1 DEF Lease, Task, Progress, TaskCancelled, TaskNext, TaskStreamEnd, PublishTopic,
              ProcessDone, Handle, HandleOk, HandleErr, HandlePanic, runVars
<1>2. CASE UNCHANGED vars \/ Cancel \/ Run
  BY <1>2 DEF RunTypeOK, vars, runVars, Cancel, Run, SubscribeOk, SubscribeErr, SeeCancel,
              Joined, CloseTimeout
<1>. QED
  BY <1>1, <1>2 DEF Next, Done, RunTypeOK

\* The router's types, and that no stream holds more than its capacity.
THEOREM TypeCorrect == Spec => []TypeOK
<1>1. Init => ShutdownInv /\ LeaseInv /\ RestOK
  <2>1. ASSUME Init PROVE RestOK
    <3>1. RunTypeOK /\ HistoryTypeOK
      BY <2>1 DEF Init, RunTypeOK, HistoryTypeOK
    <3>2. Fits
      BY <2>1, EmptyFacts, RouterAssumption DEF Init, Fits
    <3>3. FailsTypeOK
      BY <2>1, RouterAssumption DEF Init, FailsTypeOK
    <3>. QED
      BY <3>1, <3>2, <3>3 DEF RestOK
  <2>. QED
    BY <2>1, ShutdownInit, LeaseInit
<1>2. ShutdownInv /\ LeaseInv /\ RestOK /\ [Next]_vars => (ShutdownInv /\ LeaseInv /\ RestOK)'
  <2> SUFFICES ASSUME ShutdownInv, LeaseInv, RestOK, [Next]_vars
               PROVE  ShutdownInv' /\ LeaseInv' /\ RestOK'
    OBVIOUS
  <2>. QED
    BY RouterStep, FitsStep, HistoryStep, FailsStep, RunTypeStep DEF RestOK
<1>3. ShutdownInv /\ LeaseInv /\ RestOK => TypeOK
  BY DEF TypeOK, ShutdownInv, TaskTypeOK, LeaseInv, LeaseTypeOK, RestOK, RunTypeOK, Fits,
         HistoryTypeOK, FailsTypeOK
<1>. QED
  BY <1>1, <1>2, <1>3, PTL DEF Spec
=============================================================================
