------------------------------- MODULE Router -------------------------------
(***************************************************************************)
(* The router, crates/strev/src/router.rs: Router::run subscribes the      *)
(* handlers one after the other and spawns a consumer task for each, waits *)
(* for the shutdown token, then joins the tasks for at most close_timeout. *)
(*                                                                         *)
(* The subscribers are external: each leases messages of its handler's     *)
(* topic into the task's bounded stream and gets one back when its verdict *)
(* is Nack, which is also what a responder dropped without a verdict       *)
(* means (message.rs, AckReceiver::recv).                                  *)
(***************************************************************************)
EXTENDS Naturals, Sequences, FiniteSets, Functions

CONSTANTS
  Order,       \* the handlers' names in registration order
  Msgs,        \* the messages of each handler's topic
  Topics,      \* topics handlers produce to
  Publishing,  \* the handlers added with a publisher (add_handler)
  BufferSize,  \* capacity of a subscriber's stream
  Refusing,    \* handlers whose subscribe() may fail
  Panicking,   \* handlers that may panic
  Stuck,       \* handlers whose handle() may never return
  Ending,      \* handlers whose stream may end
  MaxFails,    \* bound: failed deliveries of a handler
  MaxLost      \* bound: publish() calls that fail

Handlers == Range(Order)

ASSUME RouterAssumption ==
  /\ IsInjective(Order) /\ Order \in Seq(Handlers)
  /\ IsFiniteSet(Msgs) /\ IsFiniteSet(Topics)
  /\ Publishing \subseteq Handlers /\ Refusing \subseteq Handlers
  /\ Panicking \subseteq Handlers /\ Stuck \subseteq Handlers
  /\ Ending \subseteq Handlers
  /\ BufferSize \in Nat \ {0} /\ MaxFails \in Nat /\ MaxLost \in Nat

VARIABLES
  run,        \* Router::run: subscribing, waiting, joining, ok or failed
  reg,        \* how many handlers run has subscribed
  cancelled,  \* the shutdown token
  task,       \* task[h]: none, select, handling, publishing, ended, panicked
  backlog,    \* backlog[h]: messages the transport will (re)deliver
  stream,     \* stream[h]: leased messages buffered for the task
  current,    \* current[h]: the message in process_message, if any
  acked,      \* acked[h]: settled with Ack
  todo,       \* todo[h]: topics process_message still has to publish to
  timedOut,   \* the close timeout fired
  made,       \* history: <<h, m, t>> handed over by a successful handle()
  sent,       \* history: <<h, m, t>> published
  lost,       \* history: <<h, m, t>> whose publish() failed, logged only
  fails       \* count, for MaxFails

runVars  == <<run, reg, cancelled, timedOut>>
pubVars  == <<todo, made, sent, lost>>
vars == <<runVars, task, backlog, stream, current, acked, pubVars, fails>>

-----------------------------------------------------------------------------
Init ==
  /\ run = IF Order = <<>> THEN "waiting" ELSE "subscribing"
  /\ reg = 0 /\ cancelled = FALSE /\ timedOut = FALSE
  /\ task = [h \in Handlers |-> "none"]
  /\ backlog = [h \in Handlers |-> Msgs]
  /\ stream = [h \in Handlers |-> <<>>]
  /\ current = [h \in Handlers |-> {}] /\ acked = [h \in Handlers |-> {}]
  /\ todo = [h \in Handlers |-> {}]
  /\ made = {} /\ sent = {} /\ lost = {}
  /\ fails = [h \in Handlers |-> 0]

Live(h) == task[h] \in {"select", "handling", "publishing"}

Stopped(h) == task[h] \in {"ended", "panicked"}

-----------------------------------------------------------------------------
(* Router::run.                                                            *)

\* The token is cancelled, by its owner or by Ctrl-C.
Cancel ==
  /\ ~cancelled /\ cancelled' = TRUE
  /\ UNCHANGED <<run, reg, timedOut, task, backlog, stream, current, acked,
                 pubVars, fails>>

\* subscribe() succeeds for the next handler and its task is spawned.  The
\* loop does not look at the token.
SubscribeOk ==
  /\ run = "subscribing"
  /\ reg' = reg + 1
  /\ task' = [task EXCEPT ![Order[reg + 1]] = "select"]
  /\ run' = IF reg + 1 = Len(Order) THEN "waiting" ELSE run
  /\ UNCHANGED <<cancelled, timedOut, backlog, stream, current, acked, pubVars,
                 fails>>

\* subscribe() fails: run returns the error.  The handles of the tasks
\* spawned so far are dropped, which leaves the tasks running.
SubscribeErr ==
  /\ run = "subscribing" /\ Order[reg + 1] \in Refusing
  /\ run' = "failed"
  /\ UNCHANGED <<reg, cancelled, timedOut, task, backlog, stream, current, acked,
                 pubVars, fails>>

SeeCancel ==
  /\ run = "waiting" /\ cancelled
  /\ run' = "joining"
  /\ UNCHANGED <<reg, cancelled, timedOut, task, backlog, stream, current, acked,
                 pubVars, fails>>

\* Mutant: join_all() is not awaited to its end.
SomeStopped == Handlers = {} \/ \E h \in Handlers : Stopped(h)

AllStopped == \A h \in Handlers : Stopped(h)

Joined ==
  /\ run = "joining" /\ AllStopped
  /\ run' = "ok"
  /\ UNCHANGED <<reg, cancelled, timedOut, task, backlog, stream, current, acked,
                 pubVars, fails>>

\* Mutant: the tasks are joined without a timeout.
JoinForever ==
  /\ run = "joining" /\ AllStopped
  /\ run' = "ok" /\ timedOut' = TRUE
  /\ UNCHANGED <<reg, cancelled, task, backlog, stream, current, acked, pubVars,
                 fails>>

\* close_timeout passes first; run returns Ok just the same and the tasks go
\* on without it.
CloseTimeout ==
  /\ run = "joining"
  /\ run' = "ok" /\ timedOut' = TRUE
  /\ UNCHANGED <<reg, cancelled, task, backlog, stream, current, acked, pubVars,
                 fails>>

-----------------------------------------------------------------------------
(* The consumer task of handler h.                                         *)

\* Mutant: one message more than the stream's capacity.
HasRoomTooMuch(h) == Len(stream[h]) <= BufferSize

HasRoom(h) == Len(stream[h]) < BufferSize

\* External: the subscriber leases a message into the stream.
Lease(h) ==
  /\ Live(h) /\ HasRoom(h)
  /\ \E m \in backlog[h] :
       /\ backlog' = [backlog EXCEPT ![h] = @ \ {m}]
       /\ stream' = [stream EXCEPT ![h] = Append(@, m)]
  /\ UNCHANGED <<runVars, task, current, acked, pubVars, fails>>

\* Mutant: the buffered messages' responders are leaked, not dropped.
LeakStream(h, M) ==
  /\ backlog' = [backlog EXCEPT ![h] = @ \cup M]
  /\ stream' = [stream EXCEPT ![h] = <<>>]

\* The task is over and its stream dropped: what it still buffers resolves
\* to Nack, and so does M.
DropStream(h, M) ==
  /\ backlog' = [backlog EXCEPT ![h] = @ \cup M \cup Range(stream[h])]
  /\ stream' = [stream EXCEPT ![h] = <<>>]

\* Mutant: the cancelled branch continues the loop instead of leaving it.
CancelledContinues(h) == task[h] = "select" /\ cancelled /\ UNCHANGED vars

\* select! may take either ready branch: the cancelled one ...
TaskCancelled(h) ==
  /\ task[h] = "select" /\ cancelled
  /\ task' = [task EXCEPT ![h] = "ended"]
  /\ DropStream(h, {})
  /\ UNCHANGED <<runVars, current, acked, pubVars, fails>>

\* ... or the next message, which is then processed to the end.
TaskNext(h) ==
  /\ task[h] = "select" /\ stream[h] # <<>>
  /\ task' = [task EXCEPT ![h] = "handling"]
  /\ current' = [current EXCEPT ![h] = {Head(stream[h])}]
  /\ stream' = [stream EXCEPT ![h] = Tail(@)]
  /\ UNCHANGED <<runVars, backlog, acked, pubVars, fails>>

\* The stream yields None.
TaskStreamEnd(h) ==
  /\ task[h] = "select" /\ h \in Ending /\ stream[h] = <<>>
  /\ task' = [task EXCEPT ![h] = "ended"]
  /\ UNCHANGED <<runVars, backlog, stream, current, acked, pubVars, fails>>

\* The verdict goes to the transport.
SettleAck(h, m) ==
  /\ acked' = [acked EXCEPT ![h] = @ \cup {m}]
  /\ UNCHANGED <<backlog, stream, fails>>

SettleNack(h, m) ==
  /\ fails[h] < MaxFails /\ fails' = [fails EXCEPT ![h] = @ + 1]
  /\ backlog' = [backlog EXCEPT ![h] = @ \cup {m}]
  /\ UNCHANGED <<acked, stream>>

\* handle() returns Ok with an outcome and produced messages: the verdict is
\* settled first, then the messages are published topic by topic, whatever
\* the outcome was; a handler without a publisher drops them.
HandleOk(h) ==
  /\ task[h] = "handling"
  /\ \E m \in current[h], T \in SUBSET Topics :
       /\ SettleAck(h, m) \/ SettleNack(h, m)
       /\ IF h \in Publishing /\ T # {}
          THEN /\ task' = [task EXCEPT ![h] = "publishing"]
               /\ todo' = [todo EXCEPT ![h] = T]
               /\ made' = made \cup {<<h, m, t>> : t \in T}
               /\ UNCHANGED current
          ELSE /\ task' = [task EXCEPT ![h] = "select"]
               /\ current' = [current EXCEPT ![h] = {}]
               /\ UNCHANGED <<todo, made>>
  /\ UNCHANGED <<runVars, sent, lost>>

HandleErr(h) ==
  /\ task[h] = "handling"
  /\ \E m \in current[h] : SettleNack(h, m)
  /\ task' = [task EXCEPT ![h] = "select"]
  /\ current' = [current EXCEPT ![h] = {}]
  /\ UNCHANGED <<runVars, pubVars>>

\* handle() panics: unwinding drops the responder and the stream, the task is
\* gone, and run does not hear of it before it joins.
HandlePanic(h) ==
  /\ task[h] = "handling" /\ h \in Panicking
  /\ task' = [task EXCEPT ![h] = "panicked"]
  /\ DropStream(h, current[h])
  /\ current' = [current EXCEPT ![h] = {}]
  /\ UNCHANGED <<runVars, acked, pubVars, fails>>

\* publish() for one topic of by_topic, in the map's arbitrary order; an error
\* is logged and the next topic follows.
PublishTopic(h) ==
  /\ task[h] = "publishing"
  /\ \E t \in todo[h] :
       LET P == {<<h, m, t>> : m \in current[h]}
       IN /\ \/ sent' = sent \cup P /\ UNCHANGED lost
             \/ Cardinality(lost) < MaxLost /\ lost' = lost \cup P /\ UNCHANGED sent
          /\ todo' = [todo EXCEPT ![h] = @ \ {t}]
  /\ UNCHANGED <<runVars, task, backlog, stream, current, acked, made, fails>>

ProcessDone(h) ==
  /\ task[h] = "publishing" /\ todo[h] = {}
  /\ task' = [task EXCEPT ![h] = "select"]
  /\ current' = [current EXCEPT ![h] = {}]
  /\ UNCHANGED <<runVars, backlog, stream, acked, pubVars, fails>>

-----------------------------------------------------------------------------
Run == \/ SubscribeOk \/ SubscribeErr \/ SeeCancel \/ Joined \/ CloseTimeout

Handle(h) == HandleOk(h) \/ HandleErr(h) \/ HandlePanic(h)

\* What the runtime makes a task do; its stream need not ever end.
Progress(h) == \/ TaskCancelled(h) \/ TaskNext(h)
               \/ PublishTopic(h) \/ ProcessDone(h)

Task(h) == Progress(h) \/ TaskStreamEnd(h)

\* run has returned and no task is left to do anything.
Done == /\ run \in {"ok", "failed"} /\ \A h \in Handlers : ~Live(h)
        /\ UNCHANGED vars

Next == \/ Cancel \/ Run
        \/ \E h \in Handlers : Lease(h) \/ Task(h) \/ Handle(h)
        \/ Done

Spec == Init /\ [][Next]_vars

(* The runtime polls run and every task, the timer fires, subscribe() and  *)
(* publish() return, and so does handle() unless its handler is Stuck; the *)
(* token need not ever be cancelled, nor a stream end.                     *)
Fairness ==
  /\ WF_vars(SubscribeOk \/ SubscribeErr) /\ WF_vars(SeeCancel)
  /\ WF_vars(Joined) /\ WF_vars(CloseTimeout)
  /\ \A h \in Handlers : WF_vars(Progress(h))
  /\ \A h \in Handlers \ Stuck : WF_vars(Handle(h))

FairSpec == Spec /\ Fairness

-----------------------------------------------------------------------------
(* Properties.                                                             *)

TypeOK ==
  /\ run \in {"subscribing", "waiting", "joining", "ok", "failed"}
  /\ reg \in 0..Len(Order) /\ cancelled \in BOOLEAN /\ timedOut \in BOOLEAN
  /\ task \in [Handlers -> {"none", "select", "handling", "publishing",
                            "ended", "panicked"}]
  /\ stream \in [Handlers -> Seq(Msgs)]
  /\ \A h \in Handlers : Len(stream[h]) <= BufferSize
  /\ \A v \in {backlog, current, acked} : v \in [Handlers -> SUBSET Msgs]
  /\ todo \in [Handlers -> SUBSET Topics]
  /\ \A v \in {made, sent, lost} : v \subseteq Handlers \X Msgs \X Topics
  /\ fails \in [Handlers -> 0..MaxFails]

\* Every message stays accounted for through cancellation, panics and timed
\* out shutdowns: it is acked, will be delivered again, or a live task has it.
NoLeaseLeaked ==
  \A h \in Handlers :
    /\ Msgs = backlog[h] \cup Range(stream[h]) \cup current[h] \cup acked[h]
    /\ ~Live(h) => stream[h] = <<>> /\ current[h] = {}

\* When run returns Ok and its close timeout did not fire, the shutdown was
\* complete: no task runs on, and what handlers produced has been published or
\* its failure logged.
CleanShutdown ==
  run = "ok" /\ ~timedOut => /\ \A h \in Handlers : Stopped(h) /\ todo[h] = {}
                             /\ made \subseteq sent \cup lost

\* A cancelled router returns, even with a handler that never does.
CancelReturns == cancelled ~> run \in {"ok", "failed"}

\* Cancellation reaches every task, those a failed run left behind included,
\* except one whose handler never returns.
CancelStopsTasks == \A h \in Handlers \ Stuck : cancelled ~> [](~Live(h))
=============================================================================
