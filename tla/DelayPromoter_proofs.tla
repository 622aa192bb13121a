------------------------ MODULE DelayPromoter_proofs ------------------------
(***************************************************************************)
(* What holds of DelayPromoter for any messages, promoters, batch size and *)
(* number of errors: acked messages stay staged until they are published,  *)
(* PostgreSQL publishes each once, and without errors no other promoter    *)
(* publishes a message twice.                                              *)
(***************************************************************************)
EXTENDS DelayPromoter, FiniteSetTheorems, TLAPS

\* The promoters that published m and have not yet removed it.
Removing(m) == {r \in Promoters : m \in current[r]}

\* The promoters that fetched m and will publish it.
Fetched(m) == {r \in Promoters : m \in batch[r]}

\* A member being promoted has been published, at most one at a time, and a
\* round keeps nothing when it ends.
RoundInv ==
  \A r \in Promoters :
    /\ step[r] = "idle" => batch[r] = {}
    /\ step[r] # "remove" => current[r] = {}
    /\ current[r] \cap batch[r] = {}
    /\ \A m \in current[r] : added[m] > 0

\* PROMOTE_SQL takes a message out of the table when it adds it.
StatementInv ==
  backend = "postgres" =>
    \A m \in Msgs : added[m] <= 1 /\ (m \in staged => added[m] = 0)

\* While a member is staged everyone who published it is about to remove it;
\* afterwards only those that had fetched it publish it once more.
CountInv ==
  backend # "postgres" /\ errors = 0 =>
    \A m \in Msgs :
      /\ m \in staged => added[m] = Cardinality(Removing(m))
      /\ m \notin staged =>
           added[m] + Cardinality(Fetched(m)) <= Cardinality(Promoters)

-----------------------------------------------------------------------------
\* DelayPromoter: every variable keeps its type.
THEOREM TypeCorrect == Spec => []TypeOK
<1>1. Init => TypeOK
  BY DelayAssumption DEF Init, TypeOK
<1>2. TypeOK /\ [Next]_vars => TypeOK'
  <2> SUFFICES ASSUME TypeOK, [Next]_vars PROVE TypeOK'
    OBVIOUS
  <2> USE DelayAssumption DEF TypeOK
  <2>1. ASSUME NEW m \in Msgs, StageOk(m) \/ StageErr(m) \/ ComesDue(m)
        PROVE  TypeOK'
    BY <2>1 DEF StageOk, StageErr, ComesDue
  <2>2. ASSUME NEW r \in Promoters, Fetch(r) PROVE TypeOK'
    BY <2>2 DEF Fetch
  <2>3. ASSUME NEW r \in Promoters, PublishNext(r) PROVE TypeOK'
    BY <2>3 DEF PublishNext
  <2>4. ASSUME NEW r \in Promoters, Remove(r) PROVE TypeOK'
    BY <2>4 DEF Remove
  <2>5. ASSUME NEW r \in Promoters, Abort(r) PROVE TypeOK'
    BY <2>5 DEF Abort
  <2>6. ASSUME NEW r \in Promoters, PostgresRound(r) PROVE TypeOK'
    BY <2>6 DEF PostgresRound
  <2>7. CASE UNCHANGED vars
    BY <2>7 DEF vars
  <2> QED
    BY <2>1, <2>2, <2>3, <2>4, <2>5, <2>6, <2>7 DEF Next, RedisStage, MongoStage, PostgresStage, Promote,
      RedisRound, MongoRound, Done
<1> QED
  BY <1>1, <1>2, PTL DEF Spec

\* A round publishes a member before it removes it.
LEMMA RoundsSound == Spec => []RoundInv
<1>1. Init => RoundInv
  BY DEF Init, RoundInv
<1>2. TypeOK /\ RoundInv /\ [Next]_vars => RoundInv'
  <2> SUFFICES ASSUME TypeOK, RoundInv, [Next]_vars PROVE RoundInv'
    OBVIOUS
  <2> USE DEF TypeOK, RoundInv
  <2>1. ASSUME NEW m \in Msgs, StageOk(m) \/ StageErr(m) \/ ComesDue(m)
        PROVE  RoundInv'
    BY <2>1 DEF StageOk, StageErr, ComesDue
  <2>2. ASSUME NEW r \in Promoters, Fetch(r) PROVE RoundInv'
    BY <2>2 DEF Fetch
  <2>3. ASSUME NEW r \in Promoters, PublishNext(r) PROVE RoundInv'
    <3>1. PICK m \in batch[r] : /\ added' = [added EXCEPT ![m] = @ + 1]
                                /\ current' = [current EXCEPT ![r] = {m}]
                                /\ batch' = [batch EXCEPT ![r] = @ \ {m}]
      BY <2>3 DEF PublishNext
    <3>2. \A x \in Msgs : added[x] > 0 => added'[x] > 0
      BY <3>1
    <3>3. m \in Msgs /\ added'[m] > 0
      BY <3>1
    <3> QED
      BY <2>3, <3>1, <3>2, <3>3 DEF PublishNext
  <2>4. ASSUME NEW r \in Promoters, Remove(r) PROVE RoundInv'
    BY <2>4 DEF Remove
  <2>5. ASSUME NEW r \in Promoters, Abort(r) PROVE RoundInv'
    BY <2>5 DEF Abort
  <2>6. ASSUME NEW r \in Promoters, PostgresRound(r) PROVE RoundInv'
    <3>1. \A x \in Msgs : added[x] > 0 => added'[x] > 0
      BY <2>6 DEF PostgresRound
    <3> QED
      BY <2>6, <3>1 DEF PostgresRound
  <2>7. CASE UNCHANGED vars
    BY <2>7 DEF vars
  <2> QED
    BY <2>1, <2>2, <2>3, <2>4, <2>5, <2>6, <2>7 DEF Next, RedisStage, MongoStage, PostgresStage, Promote,
      RedisRound, MongoRound, Done
<1> QED
  BY <1>1, <1>2, TypeCorrect, PTL DEF Spec

\* StagedSafe: no interleaving of promoters, failing commands and restarts
\* loses a message that publish_after() acked.
THEOREM AckedIsStaged == Spec => []StagedSafe
<1>1. Init => StagedSafe
  BY DEF Init, StagedSafe
<1>2. TypeOK /\ RoundInv /\ StagedSafe /\ [Next]_vars => StagedSafe'
  <2> SUFFICES ASSUME TypeOK, RoundInv, StagedSafe, [Next]_vars
               PROVE  StagedSafe'
    OBVIOUS
  <2> USE DEF TypeOK, StagedSafe
  <2>1. ASSUME NEW m \in Msgs, StageOk(m) \/ StageErr(m) \/ ComesDue(m)
        PROVE  StagedSafe'
    BY <2>1 DEF StageOk, StageErr, ComesDue
  <2>2. ASSUME NEW r \in Promoters, Fetch(r) \/ Abort(r) PROVE StagedSafe'
    BY <2>2 DEF Fetch, Abort
  <2>3. ASSUME NEW r \in Promoters, PublishNext(r) PROVE StagedSafe'
    <3>1. \A x \in Msgs : added[x] > 0 => added'[x] > 0
      BY <2>3 DEF PublishNext
    <3> QED
      BY <2>3, <3>1 DEF PublishNext
  <2>4. ASSUME NEW r \in Promoters, Remove(r) PROVE StagedSafe'
    BY <2>4 DEF Remove, RoundInv
  <2>5. ASSUME NEW r \in Promoters, PostgresRound(r) PROVE StagedSafe'
    BY <2>5 DEF PostgresRound
  <2>6. CASE UNCHANGED vars
    BY <2>6 DEF vars
  <2> QED
    BY <2>1, <2>2, <2>3, <2>4, <2>5, <2>6 DEF Next, RedisStage, MongoStage, PostgresStage, Promote,
      RedisRound, MongoRound, Done
<1> QED
  BY <1>1, <1>2, TypeCorrect, RoundsSound, PTL DEF Spec

-----------------------------------------------------------------------------
\* The sets that CountInv counts are finite.
LEMMA CountsFinite ==
  ASSUME NEW m
  PROVE  /\ IsFiniteSet(Removing(m)) /\ IsFiniteSet(Fetched(m))
         /\ Cardinality(Removing(m)) \in Nat /\ Cardinality(Fetched(m)) \in Nat
         /\ Cardinality(Promoters) \in Nat
<1>1. Removing(m) \subseteq Promoters /\ Fetched(m) \subseteq Promoters
  BY DEF Removing, Fetched
<1>2. IsFiniteSet(Promoters)
  BY DelayAssumption
<1>3. IsFiniteSet(Removing(m)) /\ IsFiniteSet(Fetched(m))
  BY <1>1, <1>2, FS_Subset
<1> QED
  BY <1>2, <1>3, FS_CardinalityType

\* Two disjoint sets of promoters are together no more than all of them.
LEMMA DisjointBound ==
  ASSUME NEW S \in SUBSET Promoters, NEW T \in SUBSET Promoters, S \cap T = {}
  PROVE  Cardinality(S) + Cardinality(T) <= Cardinality(Promoters)
<1>1. IsFiniteSet(Promoters) /\ IsFiniteSet(S) /\ IsFiniteSet(T)
  BY DelayAssumption, FS_Subset
<1>2. Cardinality(S \cup T) = Cardinality(S) + Cardinality(T)
  <2>1. Cardinality(S \cup T)
          = Cardinality(S) + Cardinality(T) - Cardinality(S \cap T)
    BY <1>1, FS_Union
  <2>2. Cardinality(S \cap T) = 0
    BY FS_EmptySet
  <2>3. Cardinality(S) \in Nat /\ Cardinality(T) \in Nat
    BY <1>1, FS_CardinalityType
  <2> QED
    BY <2>1, <2>2, <2>3
<1>3. Cardinality(S \cup T) <= Cardinality(Promoters)
  BY <1>1, FS_Subset
<1> QED
  BY <1>2, <1>3

\* PublishNext moves one promoter of m from those that fetched it to those
\* that remove it, and counts it.
LEMMA PublishCounts ==
  ASSUME TypeOK, RoundInv, CountInv, NEW r \in Promoters, PublishNext(r)
  PROVE  CountInv'
<1> USE DEF TypeOK
<1>1. PICK m \in batch[r] : /\ added' = [added EXCEPT ![m] = @ + 1]
                            /\ current' = [current EXCEPT ![r] = {m}]
                            /\ batch' = [batch EXCEPT ![r] = @ \ {m}]
  BY DEF PublishNext
<1>2. m \in Msgs /\ backend' = backend /\ errors' = errors /\ staged' = staged /\ current[r] = {}
  BY <1>1 DEF PublishNext, RoundInv
<1>3. ASSUME NEW x \in Msgs, x # m
      PROVE  Removing(x)' = Removing(x) /\ Fetched(x)' = Fetched(x)
             /\ added'[x] = added[x]
  BY <1>1, <1>2, <1>3 DEF Removing, Fetched
<1>4. Removing(m)' = Removing(m) \cup {r} /\ r \notin Removing(m)
  BY <1>1, <1>2 DEF Removing
<1>5. Fetched(m)' = Fetched(m) \ {r} /\ r \in Fetched(m)
  BY <1>1, <1>2 DEF Fetched
<1>6. Cardinality(Removing(m)') = Cardinality(Removing(m)) + 1
  BY <1>4, CountsFinite, FS_AddElement
<1>7. Cardinality(Fetched(m)') = Cardinality(Fetched(m)) - 1
  BY <1>5, CountsFinite, FS_RemoveElement
<1>8. added'[m] = added[m] + 1 /\ added[m] \in Nat
  BY <1>1, <1>2
<1>9. ASSUME backend # "postgres", errors = 0, NEW x \in Msgs
      PROVE  /\ x \in staged => added'[x] = Cardinality(Removing(x)')
             /\ x \notin staged =>
                  added'[x] + Cardinality(Fetched(x)') <= Cardinality(Promoters)
  <2>1. CASE x = m
    BY <1>6, <1>7, <1>8, <1>9, <2>1, CountsFinite DEF CountInv
  <2>2. CASE x # m
    BY <1>3, <1>9, <2>2 DEF CountInv
  <2> QED
    BY <2>1, <2>2
<1> QED
  BY <1>2, <1>9 DEF CountInv

\* When a member leaves the sorted set, everyone who published it and everyone
\* who still will are different promoters.
LEMMA RemoveCounts ==
  ASSUME TypeOK, RoundInv, CountInv, NEW r \in Promoters, Remove(r)
  PROVE  CountInv'
<1> USE DEF TypeOK
<1>1. /\ backend' = backend /\ errors' = errors /\ added' = added /\ batch' = batch
      /\ staged' = staged \ current[r]
      /\ current' = [current EXCEPT ![r] = {}]
  BY DEF Remove
<1>2. ASSUME backend # "postgres", errors = 0, NEW x \in Msgs
      PROVE  /\ x \in staged' => added[x] = Cardinality(Removing(x)')
             /\ x \notin staged' =>
                  added[x] + Cardinality(Fetched(x)) <= Cardinality(Promoters)
  <2>1. CASE x \in staged'
    <3>1. Removing(x)' = Removing(x) /\ x \in staged
      BY <1>1, <2>1 DEF Removing
    <3> QED
      BY <1>2, <2>1, <3>1 DEF CountInv
  <2>2. CASE x \in staged /\ x \notin staged'
    <3>1. Removing(x) \cap Fetched(x) = {}
      BY DEF Removing, Fetched, RoundInv
    <3>2. Removing(x) \in SUBSET Promoters /\ Fetched(x) \in SUBSET Promoters
      BY DEF Removing, Fetched
    <3>3. Cardinality(Removing(x)) + Cardinality(Fetched(x))
            <= Cardinality(Promoters)
      BY <3>1, <3>2, DisjointBound
    <3>4. added[x] = Cardinality(Removing(x))
      BY <1>2, <2>2 DEF CountInv
    <3> QED
      BY <2>2, <3>3, <3>4
  <2>3. CASE x \notin staged
    BY <1>1, <1>2, <2>3 DEF CountInv
  <2> QED
    BY <2>1, <2>2, <2>3
<1>3. \A x : Fetched(x)' = Fetched(x)
  BY <1>1 DEF Fetched
<1> QED
  BY <1>1, <1>2, <1>3 DEF CountInv

\* With PostgreSQL a message is in the table or was added once, never both.
LEMMA OneStatement == Spec => []StatementInv
<1>1. Init => StatementInv
  BY DEF Init, StatementInv
<1>2. TypeOK /\ StatementInv /\ [Next]_vars => StatementInv'
  <2> SUFFICES ASSUME TypeOK, StatementInv, backend = "postgres", [Next]_vars
               PROVE  StatementInv'
    BY DEF Next, vars, StageOk, StageErr, ComesDue, Fetch, PublishNext, Remove,
         Abort, Done, RedisStage, MongoStage, PostgresStage, Promote, RedisRound,
         MongoRound, PostgresRound, StatementInv
  <2> USE DEF TypeOK, StatementInv
  <2>1. ASSUME NEW m \in Msgs, StageOk(m) \/ StageErr(m) \/ ComesDue(m)
        PROVE  StatementInv'
    BY <2>1 DEF StageOk, StageErr, ComesDue, Unused
  <2>2. ASSUME NEW r \in Promoters, Abort(r) PROVE StatementInv'
    BY <2>2 DEF Abort
  <2>3. ASSUME NEW r \in Promoters, PostgresRound(r) PROVE StatementInv'
    <3>1. PICK D \in SUBSET (staged \cap due) :
            /\ staged' = staged \ D
            /\ added' = [m \in Msgs |-> IF m \in D THEN added[m] + 1 ELSE added[m]]
      BY <2>3 DEF PostgresRound
    <3> QED
      BY <3>1
  <2>4. CASE UNCHANGED vars
    BY <2>4 DEF vars
  <2> QED
    BY <2>1, <2>2, <2>3, <2>4 DEF Next, RedisStage, MongoStage, PostgresStage, Promote,
      RedisRound, MongoRound, Done
<1> QED
  BY <1>1, <1>2, TypeCorrect, PTL DEF Spec

\* AddedAtMost: without errors k promoters publish a message at most k times,
\* one publishes it once, as the comments on RedisDelayPromoter and
\* MongoDelayPromoter say; PostgresDelayPromoter's is always exactly-once.
THEOREM PromotedPerPromoter == Spec => []AddedAtMost
<1>1. Init => CountInv
  <2> SUFFICES ASSUME Init, NEW m \in Msgs
               PROVE  added[m] + Cardinality(Fetched(m)) <= Cardinality(Promoters)
    BY DEF Init, CountInv
  <2>1. Fetched(m) = {} /\ added[m] = 0
    BY DEF Init, Fetched
  <2> QED
    BY <2>1, FS_EmptySet, CountsFinite
<1>2. TypeOK /\ RoundInv /\ CountInv /\ [Next]_vars => CountInv'
  <2> SUFFICES ASSUME TypeOK, RoundInv, CountInv, [Next]_vars PROVE CountInv'
    OBVIOUS
  <2>1. ASSUME NEW m \in Msgs, StageOk(m) PROVE CountInv'
    <3>1. /\ backend' = backend /\ errors' = errors /\ added' = added /\ staged' = staged \cup {m}
          /\ added[m] = 0 /\ m \notin staged
          /\ current' = current /\ batch' = batch
      BY <2>1 DEF StageOk, Unused
    <3>2. \A x : Removing(x)' = Removing(x) /\ Fetched(x)' = Fetched(x)
      BY <3>1 DEF Removing, Fetched
    <3>3. Removing(m) = {}
      BY <3>1 DEF Removing, RoundInv
    <3>4. Cardinality(Removing(m)) = 0
      BY <3>3, FS_EmptySet
    <3> QED
      BY <3>1, <3>2, <3>4 DEF CountInv
  <2>2. ASSUME NEW m \in Msgs, StageErr(m) PROVE CountInv'
    BY <2>2 DEF StageErr, CountInv, TypeOK
  <2>3. ASSUME NEW m \in Msgs, ComesDue(m) PROVE CountInv'
    BY <2>3 DEF ComesDue, CountInv, Removing, Fetched
  <2>4. ASSUME NEW r \in Promoters, Fetch(r) PROVE CountInv'
    <3>1. PICK D \in SUBSET staged : batch' = [batch EXCEPT ![r] = D]
      BY <2>4 DEF Fetch
    <3>2. /\ backend' = backend /\ errors' = errors /\ added' = added /\ staged' = staged
          /\ current' = current /\ batch[r] = {}
      BY <2>4 DEF Fetch, RoundInv
    <3>3. \A x : Removing(x)' = Removing(x)
      BY <3>2 DEF Removing
    <3>4. \A x : x \notin staged => Fetched(x)' = Fetched(x)
      BY <3>1, <3>2 DEF Fetched, TypeOK
    <3> QED
      BY <3>2, <3>3, <3>4 DEF CountInv
  <2>5. ASSUME NEW r \in Promoters, PublishNext(r) PROVE CountInv'
    BY <2>5, PublishCounts
  <2>6. ASSUME NEW r \in Promoters, Remove(r) PROVE CountInv'
    BY <2>6, RemoveCounts
  <2>7. ASSUME NEW r \in Promoters, Abort(r) PROVE CountInv'
    BY <2>7 DEF Abort, CountInv, TypeOK
  <2>8. ASSUME NEW r \in Promoters, PostgresRound(r) PROVE CountInv'
    BY <2>8 DEF PostgresRound, CountInv
  <2>9. CASE UNCHANGED vars
    BY <2>9 DEF vars, CountInv, Removing, Fetched
  <2> QED
    BY <2>1, <2>2, <2>3, <2>4, <2>5, <2>6, <2>7, <2>8, <2>9 DEF Next, RedisStage, MongoStage, PostgresStage, Promote,
      RedisRound, MongoRound, Done
<1>3. TypeOK /\ CountInv /\ StatementInv => AddedAtMost
  <2> SUFFICES ASSUME TypeOK, CountInv, backend # "postgres", errors = 0, NEW m \in Msgs
               PROVE  added[m] <= Cardinality(Promoters)
    BY DEF AddedAtMost, StatementInv
  <2>1. CASE m \in staged
    <3>1. Removing(m) \in SUBSET Promoters
      BY DEF Removing
    <3>2. Cardinality(Removing(m)) <= Cardinality(Promoters)
      BY <3>1, DelayAssumption, FS_Subset
    <3> QED
      BY <2>1, <3>2 DEF CountInv
  <2>2. CASE m \notin staged
    BY <2>2, CountsFinite DEF CountInv, TypeOK
  <2> QED
    BY <2>1, <2>2
<1> QED
  BY <1>1, <1>2, <1>3, TypeCorrect, RoundsSound, OneStatement, PTL DEF Spec
=============================================================================
