---------------------------- MODULE DelayPromoter ----------------------------
(***************************************************************************)
(* Delayed publishing over Redis, MongoDB and PostgreSQL: publish_after()  *)
(* of each publisher.rs stages messages (in a sorted set, a collection, a  *)
(* table), and any number of promoters (each delay.rs) move the due ones   *)
(* to their topics.  Redis and MongoDB take two commands for a message,    *)
(* PostgreSQL one statement for a batch.  The topics they publish to are   *)
(* RedisStream's, MongoQueue's and PostgresQueue's; here a message counts  *)
(* how often it was added to its own.                                      *)
(***************************************************************************)
EXTENDS Naturals, FiniteSets

CONSTANTS
  Msgs,       \* messages given to publish_after()
  Promoters,  \* running promoters
  BatchSize,  \* batch_size: the most a round takes
  MaxErrors   \* bound: commands that fail and promoters that are restarted

ASSUME DelayAssumption ==
  IsFiniteSet(Promoters) /\ BatchSize \in Nat \ {0} /\ MaxErrors \in Nat

VARIABLES
  backend,   \* redis, mongo or postgres
  accepted,  \* the messages whose publish_after() acked them
  staged,    \* messages waiting for their time, or to be promoted
  due,       \* those whose time has come
  step,      \* step[r]: idle, publish or remove
  batch,     \* batch[r]: messages a round has fetched and still to promote
  current,   \* current[r]: the one being promoted, if any
  added,     \* added[m]: how often m was added to its stream
  errors     \* count, for MaxErrors

vars == <<backend, accepted, staged, due, step, batch, current, added, errors>>

-----------------------------------------------------------------------------
Init ==
  /\ backend \in {"redis", "mongo", "postgres"}
  /\ accepted = {} /\ staged = {} /\ due = {}
  /\ step = [r \in Promoters |-> "idle"]
  /\ batch = [r \in Promoters |-> {}] /\ current = [r \in Promoters |-> {}]
  /\ added = [m \in Msgs |-> 0] /\ errors = 0

\* Equal messages are staged apart (by uuid or id), each by one call.
Unused(m) == m \notin accepted \cup staged /\ added[m] = 0

\* publish_after() has staged the message and acks it.
StageOk(m) ==
  /\ Unused(m)
  /\ staged' = staged \cup {m} /\ accepted' = accepted \cup {m}
  /\ UNCHANGED <<backend, due, step, batch, current, added, errors>>

\* Staged, but the reply was lost or a later message of the call failed: nacked.
StageErr(m) ==
  /\ Unused(m) /\ errors < MaxErrors /\ errors' = errors + 1
  /\ staged' = staged \cup {m}
  /\ UNCHANGED <<backend, accepted, due, step, batch, current, added>>

RedisStage(m)    == backend = "redis" /\ (StageOk(m) \/ StageErr(m))
MongoStage(m)    == backend = "mongo" /\ (StageOk(m) \/ StageErr(m))
PostgresStage(m) == backend = "postgres" /\ (StageOk(m) \/ StageErr(m))

\* Mutant: times in milliseconds against a clock in seconds.
NeverDue(m) ==
  /\ m \in staged \ due
  /\ UNCHANGED vars

ComesDue(m) ==
  /\ m \in staged \ due
  /\ due' = due \cup {m}
  /\ UNCHANGED <<backend, accepted, staged, step, batch, current, added, errors>>

-----------------------------------------------------------------------------
(* Redis and MongoDB: a round of several commands.                         *)

\* The due messages, or BatchSize of them.
Fetch(r) ==
  /\ step[r] = "idle"
  /\ \E D \in SUBSET (staged \cap due) \ {{}} :
       /\ Cardinality(D) <= BatchSize
       /\ D = staged \cap due \/ Cardinality(D) = BatchSize
       /\ batch' = [batch EXCEPT ![r] = D]
  /\ step' = [step EXCEPT ![r] = "publish"]
  /\ UNCHANGED <<backend, accepted, staged, due, current, added, errors>>

\* publish(), or insert_one(), of the next one, even if someone else promoted it meanwhile.
PublishNext(r) ==
  /\ step[r] = "publish"
  /\ \E m \in batch[r] :
       /\ added' = [added EXCEPT ![m] = @ + 1]
       /\ current' = [current EXCEPT ![r] = {m}]
       /\ batch' = [batch EXCEPT ![r] = @ \ {m}]
  /\ step' = [step EXCEPT ![r] = "remove"]
  /\ UNCHANGED <<backend, accepted, staged, due, errors>>

\* Mutant: all that were fetched are removed after the first was published.
RemoveFetched(r) ==
  /\ step[r] = "remove"
  /\ staged' = staged \ (current[r] \cup batch[r])
  /\ due' = due \ (current[r] \cup batch[r])
  /\ current' = [current EXCEPT ![r] = {}]
  /\ step' = [step EXCEPT ![r] = IF batch[r] = {} THEN "idle" ELSE "publish"]
  /\ UNCHANGED <<backend, accepted, batch, added, errors>>

\* Mutant: the removal misses, the member was encoded anew.
RemoveNothing(r) ==
  /\ step[r] = "remove"
  /\ current' = [current EXCEPT ![r] = {}]
  /\ step' = [step EXCEPT ![r] = IF batch[r] = {} THEN "idle" ELSE "publish"]
  /\ UNCHANGED <<backend, accepted, staged, due, batch, added, errors>>

\* ZREM, or delete_one(), of the one just published.
Remove(r) ==
  /\ step[r] = "remove"
  /\ staged' = staged \ current[r]
  /\ due' = due \ current[r]
  /\ current' = [current EXCEPT ![r] = {}]
  /\ step' = [step EXCEPT ![r] = IF batch[r] = {} THEN "idle" ELSE "publish"]
  /\ UNCHANGED <<backend, accepted, batch, added, errors>>

\* Mutant: run() returns on the first error.
AbortEnds(r) ==
  /\ step[r] # "idle" /\ errors < MaxErrors /\ errors' = errors + 1
  /\ step' = [step EXCEPT ![r] = "ended"]
  /\ UNCHANGED <<backend, accepted, staged, due, batch, current, added>>

\* A command fails, or the promoter dies and is started again: the round ends
\* where it is.
Abort(r) ==
  /\ step[r] # "idle" /\ errors < MaxErrors /\ errors' = errors + 1
  /\ step' = [step EXCEPT ![r] = "idle"]
  /\ batch' = [batch EXCEPT ![r] = {}] /\ current' = [current EXCEPT ![r] = {}]
  /\ UNCHANGED <<backend, accepted, staged, due, added>>

RedisRound(r) == backend = "redis" /\ (Fetch(r) \/ PublishNext(r) \/ Remove(r))
MongoRound(r) == backend = "mongo" /\ (Fetch(r) \/ PublishNext(r) \/ Remove(r))

-----------------------------------------------------------------------------
(* PostgreSQL: PROMOTE_SQL deletes and inserts in one statement.  It skips *)
(* rows another promoter has locked.                                       *)
PostgresRound(r) ==
  /\ backend = "postgres"
  /\ \E D \in SUBSET (staged \cap due) \ {{}} :
       /\ Cardinality(D) <= BatchSize
       /\ staged' = staged \ D /\ due' = due \ D
       /\ added' = [m \in Msgs |-> IF m \in D THEN added[m] + 1 ELSE added[m]]
  /\ UNCHANGED <<backend, accepted, step, batch, current, errors>>

-----------------------------------------------------------------------------
Promote(r) == RedisRound(r) \/ MongoRound(r) \/ PostgresRound(r)

\* Everything has been handed in and promoted.
Done == /\ \A m \in Msgs : ~Unused(m) /\ m \notin staged
        /\ \A r \in Promoters : step[r] = "idle"
        /\ UNCHANGED vars

Next == \/ \E m \in Msgs : \/ RedisStage(m) \/ MongoStage(m) \/ PostgresStage(m)
                        \/ ComesDue(m)
        \/ \E r \in Promoters : Promote(r) \/ Abort(r)
        \/ Done

Spec == Init /\ [][Next]_vars

(* Time passes and promoters run; errors are never forced.                 *)
Fairness == /\ \A m \in Msgs : WF_vars(ComesDue(m))
            /\ \A r \in Promoters : WF_vars(Promote(r))

FairSpec == Spec /\ Fairness

-----------------------------------------------------------------------------
(* Properties.                                                             *)

TypeOK ==
  /\ backend \in {"redis", "mongo", "postgres"}
  /\ accepted \subseteq Msgs /\ staged \subseteq Msgs /\ due \subseteq Msgs
  /\ step \in [Promoters -> {"idle", "publish", "remove"}]
  /\ batch \in [Promoters -> SUBSET Msgs]
  /\ current \in [Promoters -> SUBSET Msgs]
  /\ added \in [Msgs -> Nat] /\ errors \in 0..MaxErrors

\* A message publish_after() acked is staged until it has been published, even
\* with several promoters, failing commands and restarts.
StagedSafe == \A m \in accepted : m \in staged \/ added[m] > 0

\* With PostgreSQL a message is added once, whatever fails.  Elsewhere, without
\* errors, k promoters may add it k times, never more: it is gone for those that
\* fetch later.
AddedAtMost ==
  \A m \in Msgs : IF backend = "postgres"
                 THEN added[m] <= 1
                 ELSE errors = 0 => added[m] <= Cardinality(Promoters)

\* An acked message reaches its topic.
EventuallyPromoted == \A m \in Msgs : m \in accepted ~> added[m] > 0
=============================================================================
