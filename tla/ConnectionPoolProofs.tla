------------------------ MODULE ConnectionPoolProofs ------------------------
(***************************************************************************)
(* Proofs about ConnectionPool for any finite set of calls, any size of    *)
(* the pool and any number of pools: the type invariant, and that every    *)
(* place of an open pool is accounted for.                                 *)
(***************************************************************************)
EXTENDS ConnectionPool, FiniteSetTheorems, TLAPS

\* A queue keeps its type when a place leaves or comes back.
LEMMA QueueType ==
    ASSUME TypeOK, NEW p \in Pools, (Take(p) /\ free[p] > 0) \/ Put(p)
    PROVE  free' \in [Pools -> 0..MaxSize]
<1>1. free \in [Pools -> 0..MaxSize] /\ MaxSize \in Nat
  BY PoolAssumption DEF TypeOK
<1>2. free[p] \in 0..MaxSize
  BY <1>1
<1>3. CASE Take(p) /\ free[p] > 0
  <2>1. free[p] - 1 \in 0..MaxSize
    BY <1>1, <1>2, <1>3
  <2> QED BY <1>1, <1>3, <2>1 DEF Take
<1>4. CASE Put(p)
  <2>1. free[p] # MaxSize => free[p] + 1 \in 0..MaxSize
    BY <1>1, <1>2
  <2> QED BY <1>1, <1>4, <2>1 DEF Put
<1> QED BY <1>3, <1>4

\* A step of the specification keeps the types of its variables.
LEMMA TypeStep ==
    ASSUME TypeOK, [Next]_vars
    PROVE  TypeOK'
<1> USE DEF TypeOK, At, Goes
<1>1. CASE Discard
  <2>1. current + 1 \in Pools
    BY <1>1, PoolAssumption DEF Discard, Pools
  <2>2. free' \in [Pools -> 0..MaxSize]
    BY <1>1, PoolAssumption DEF Discard
  <2> QED BY <1>1, <2>1, <2>2 DEF Discard
<1>2. ASSUME NEW c \in Calls, GetConnection(c) \/ PoolClosed(c) \/ Responds(c)
      PROVE  TypeOK'
  BY <1>2 DEF GetConnection, PoolClosed, Responds
<1>3. ASSUME NEW c \in Calls, Ask(c)
      PROVE  TypeOK'
  <2>1. pool[c] \in Pools
    OBVIOUS
  <2>2. free' \in [Pools -> 0..MaxSize]
    BY <1>3, <2>1, QueueType DEF Ask
  <2> QED BY <1>3, <2>2 DEF Ask
<1>4. ASSUME NEW c \in Calls, Served(c)
      PROVE  TypeOK'
  <2>1. pool[c] \in Pools
    OBVIOUS
  <2>2. free' \in [Pools -> 0..MaxSize]
    BY <1>4, <2>1, QueueType DEF Served
  <2> QED BY <1>4, <2>2 DEF Served
<1>5. ASSUME NEW c \in Calls, SendFails(c) \/ Release(c)
      PROVE  TypeOK'
  <2>1. pool[c] \in Pools
    OBVIOUS
  <2>2. free' \in [Pools -> 0..MaxSize]
    BY <1>5, <2>1, QueueType DEF SendFails, Release
  <2> QED BY <1>5, <2>2 DEF SendFails, Release
<1>6. ASSUME NEW c \in Calls, ChunkedFails(c)
      PROVE  TypeOK'
  <2>1. lost[pool[c]] + 1 \in Nat
    OBVIOUS
  <2> QED BY <1>6, <2>1 DEF ChunkedFails
<1>7. CASE UNCHANGED vars
  BY <1>7 DEF vars
<1> QED BY <1>1, <1>2, <1>3, <1>4, <1>5, <1>6, <1>7 DEF Next, Answer

LEMMA TypeInit == Init => TypeOK
BY PoolAssumption DEF Init, TypeOK, Pools

\* TypeOK of every run of the model: a queue never has fewer places than none,
\* nor more than pool_maxsize.
THEOREM TypeCorrect == Spec => []TypeOK
BY TypeInit, TypeStep, PTL DEF Spec

-----------------------------------------------------------------------------
(* The connections in use.                                                 *)

\* A response that holds a connection knows its pool: from_httplib was told.
Known == \A c \in Calls : At(c, "open") => c \in returns

Inv == TypeOK /\ Known /\ PlacesAccounted

\* The users of a pool can be counted.
LEMMA UsersCount ==
    ASSUME NEW p
    PROVE  IsFiniteSet(Users(p)) /\ Cardinality(Users(p)) \in Nat
<1>1. Users(p) \subseteq Calls
  BY DEF Users
<1>2. IsFiniteSet(Users(p))
  BY <1>1, FS_Subset, PoolAssumption
<1> QED BY <1>2, FS_CardinalityType

LEMMA UsersCountNext ==
    ASSUME NEW p
    PROVE  IsFiniteSet(Users(p)') /\ Cardinality(Users(p)') \in Nat
<1>1. Users(p)' \subseteq Calls
  BY DEF Users
<1>2. IsFiniteSet(Users(p)')
  BY <1>1, FS_Subset, PoolAssumption
<1> QED BY <1>2, FS_CardinalityType

\* A call that is given a connection is one more user of its pool alone.
LEMMA OneMore ==
    ASSUME NEW c \in Calls, TypeOK, pool' = pool,
           pc[c] \notin {"sending", "open"}, Goes(c, "sending"),
           NEW p \in Pools
    PROVE  Cardinality(Users(p)') = Cardinality(Users(p))
                                    + (IF p = pool[c] THEN 1 ELSE 0)
<1>1. \A d \in Calls : pc'[d] = IF d = c THEN "sending" ELSE pc[d]
  BY DEF Goes, TypeOK
<1>2. c \notin Users(p)
  BY DEF Users
<1>3. CASE p = pool[c]
  <2>1. Users(p)' = Users(p) \cup {c}
    BY <1>1, <1>3 DEF Users
  <2> QED BY <1>2, <1>3, <2>1, UsersCount, FS_AddElement
<1>4. CASE p # pool[c]
  <2>1. Users(p)' = Users(p)
    BY <1>1, <1>4 DEF Users
  <2> QED BY <1>4, <2>1, UsersCount
<1> QED BY <1>3, <1>4

\* A call that ends is one user less of its pool alone.
LEMMA OneLess ==
    ASSUME NEW c \in Calls, TypeOK, pool' = pool,
           pc[c] \in {"sending", "open"},
           NEW place \in {"over", "failed"}, Goes(c, place),
           NEW p \in Pools
    PROVE  Cardinality(Users(p)) = Cardinality(Users(p)')
                                   + (IF p = pool[c] THEN 1 ELSE 0)
<1>1. \A d \in Calls : pc'[d] = IF d = c THEN place ELSE pc[d]
  BY DEF Goes, TypeOK
<1>3. CASE p = pool[c]
  <2>1. c \in Users(p) /\ Users(p)' = Users(p) \ {c}
    BY <1>1, <1>3 DEF Users
  <2>2. Cardinality(Users(p) \ {c}) = Cardinality(Users(p)) - 1
    BY <2>1, UsersCount, FS_RemoveElement
  <2> QED BY <1>3, <2>1, <2>2, UsersCount
<1>4. CASE p # pool[c]
  <2>1. Users(p)' = Users(p)
    BY <1>1, <1>4 DEF Users
  <2> QED BY <1>4, <2>1, UsersCount
<1> QED BY <1>3, <1>4

\* No other step changes the users of a pool.
LEMMA SameUsers ==
    ASSUME NEW c \in Calls, TypeOK,
           \/ /\ pc[c] \notin {"sending", "open"}
              /\ Goes(c, "given") \/ Goes(c, "waiting") \/ Goes(c, "failed")
              /\ \A d \in Calls \ {c} : pool'[d] = pool[d]
           \/ pc[c] = "sending" /\ Goes(c, "open") /\ pool' = pool,
           NEW p \in Pools
    PROVE  Users(p)' = Users(p)
BY DEF Users, Goes, TypeOK

-----------------------------------------------------------------------------
LEMMA PlacesInit == Init => Inv
<1> SUFFICES ASSUME Init
             PROVE  Known /\ PlacesAccounted
  BY TypeInit DEF Inv
<1>1. \A p \in Pools : Users(p) = {}
  BY DEF Init, Users
<1>2. Known
  BY DEF Known, Init, At
<1>3. PlacesAccounted
  BY <1>1, FS_EmptySet, PoolAssumption DEF Init, PlacesAccounted
<1> QED BY <1>2, <1>3

LEMMA KnownStep ==
    ASSUME Inv, [Next]_vars
    PROVE  Known'
<1> USE DEF Known, At, Goes, Inv, TypeOK
<1>1. CASE Discard
  BY <1>1 DEF Discard
<1>2. ASSUME NEW c \in Calls, GetConnection(c) \/ Ask(c) \/ PoolClosed(c)
                              \/ Served(c)
      PROVE  Known'
  <2>1. \E place \in {"given", "waiting", "sending", "failed"} : Goes(c, place)
    BY <1>2 DEF GetConnection, Ask, PoolClosed, Served
  <2>2. returns' = returns
    BY <1>2 DEF GetConnection, Ask, PoolClosed, Served
  <2> QED BY <2>1, <2>2
<1>3. ASSUME NEW c \in Calls, Answer(c) \/ Release(c)
      PROVE  Known'
  BY <1>3 DEF Answer, Responds, SendFails, ChunkedFails, Release
<1>4. CASE UNCHANGED vars
  BY <1>4 DEF vars
<1> QED BY <1>1, <1>2, <1>3, <1>4 DEF Next

\* The balance of one pool that is open after the step.
Balance(p) ==
    LET sum == free[p] + Cardinality(Users(p)) + lost[p]
    IN  sum >= MaxSize /\ (block => sum = MaxSize)

LEMMA PlacesStep ==
    ASSUME Inv, [Next]_vars
    PROVE  PlacesAccounted'
<1> SUFFICES ASSUME NEW p \in Pools, p \notin shut'
             PROVE  Balance(p)'
  BY DEF PlacesAccounted, Balance, Pools
<1>t. TypeOK /\ TypeOK'
  BY TypeStep DEF Inv
<1>s. shut \subseteq shut'
  BY DEF Next, Discard, GetConnection, Ask, PoolClosed, Served, Answer,
         Responds, SendFails, ChunkedFails, Release, vars
<1>b. Balance(p)
  BY <1>s DEF Inv, PlacesAccounted, Balance
<1>n. /\ free[p] \in 0..MaxSize /\ lost[p] \in Nat /\ MaxSize \in Nat
      /\ Cardinality(Users(p)) \in Nat
  BY <1>t, UsersCount, PoolAssumption DEF TypeOK
<1>1. CASE Discard
  <2>1. free'[p] = free[p] /\ lost' = lost /\ block' = block
    BY <1>1, <1>t DEF Discard, TypeOK
  <2>2. Users(p)' = Users(p)
    BY <1>1 DEF Discard, Users
  <2> QED BY <1>b, <2>1, <2>2 DEF Balance
<1>2. ASSUME NEW c \in Calls, GetConnection(c) \/ PoolClosed(c)
      PROVE  Balance(p)'
  <2>1. Users(p)' = Users(p)
    BY <1>2, <1>t, SameUsers DEF GetConnection, PoolClosed, At, TypeOK
  <2>2. free' = free /\ lost' = lost /\ block' = block
    BY <1>2 DEF GetConnection, PoolClosed
  <2> QED BY <1>b, <2>1, <2>2 DEF Balance
<1>3. ASSUME NEW c \in Calls, Ask(c)
      PROVE  Balance(p)'
  <2>1. CASE Take(pool[c]) /\ Goes(c, "sending") /\ free[pool[c]] > 0
    <3>1. Cardinality(Users(p)') = Cardinality(Users(p))
                                   + (IF p = pool[c] THEN 1 ELSE 0)
      BY <1>3, <1>t, <2>1, OneMore DEF Ask, At
    <3>2. /\ free'[p] = free[p] - (IF p = pool[c] THEN 1 ELSE 0)
          /\ lost' = lost /\ block' = block
      BY <1>3, <1>t, <2>1, <1>n DEF Ask, Take, TypeOK
    <3> QED BY <1>b, <1>n, <3>1, <3>2 DEF Balance
  <2>2. CASE Goes(c, "sending") /\ free' = free /\ free[pool[c]] = 0 /\ ~block
    <3>1. Cardinality(Users(p)') = Cardinality(Users(p))
                                   + (IF p = pool[c] THEN 1 ELSE 0)
      BY <1>3, <1>t, <2>2, OneMore DEF Ask, At
    <3>2. lost' = lost /\ block' = block
      BY <1>3 DEF Ask
    <3> QED BY <1>b, <1>n, <2>2, <3>1, <3>2 DEF Balance
  <2>3. CASE Goes(c, "waiting") /\ free' = free
    <3>1. Users(p)' = Users(p)
      BY <1>3, <1>t, <2>3, SameUsers DEF Ask, At
    <3>2. lost' = lost /\ block' = block
      BY <1>3 DEF Ask
    <3> QED BY <1>b, <2>3, <3>1, <3>2 DEF Balance
  <2>4. free[pool[c]] \in 0..MaxSize /\ block \in BOOLEAN
    BY <1>t DEF TypeOK
  <2>5. CASE block
    BY <1>3, <2>1, <2>3, <2>4, <2>5 DEF Ask
  <2>6. CASE ~block
    BY <1>3, <2>1, <2>2, <2>4, <2>6 DEF Ask
  <2> QED BY <2>5, <2>6
<1>4. ASSUME NEW c \in Calls, Served(c)
      PROVE  Balance(p)'
  <2>1. Cardinality(Users(p)') = Cardinality(Users(p))
                                 + (IF p = pool[c] THEN 1 ELSE 0)
    BY <1>4, <1>t, OneMore DEF Served, At
  <2>2. /\ free'[p] = free[p] - (IF p = pool[c] THEN 1 ELSE 0)
        /\ lost' = lost /\ block' = block
    BY <1>4, <1>t, <1>n DEF Served, Take, TypeOK
  <2> QED BY <1>b, <1>n, <2>1, <2>2 DEF Balance
<1>5. ASSUME NEW c \in Calls, Responds(c)
      PROVE  Balance(p)'
  <2>1. Users(p)' = Users(p)
    BY <1>5, <1>t, SameUsers DEF Responds, At
  <2>2. free' = free /\ lost' = lost /\ block' = block
    BY <1>5 DEF Responds
  <2> QED BY <1>b, <2>1, <2>2 DEF Balance
<1>6. ASSUME NEW c \in Calls, SendFails(c) \/ Release(c)
      PROVE  Balance(p)'
  <2>1. /\ pc[c] \in {"sending", "open"} /\ pool' = pool
        /\ Put(pool[c])
        /\ lost' = lost /\ block' = block /\ shut' = shut
        /\ Goes(c, "failed") \/ Goes(c, "over")
    BY <1>6 DEF SendFails, Release, At, Inv, Known
  <2>2. Cardinality(Users(p)) = Cardinality(Users(p)')
                                + (IF p = pool[c] THEN 1 ELSE 0)
    BY <2>1, <1>t, OneLess
  <2>3. Cardinality(Users(p)') \in Nat
    BY UsersCountNext
  <2>4. CASE p # pool[c]
    <3>1. free'[p] = free[p]
      BY <2>1, <2>4, <1>t DEF Put, TypeOK
    <3> QED BY <1>b, <1>n, <2>1, <2>2, <2>3, <2>4, <3>1 DEF Balance
  <2>5. CASE p = pool[c]
    <3>1. free'[p] = IF free[p] = MaxSize THEN free[p] ELSE free[p] + 1
      BY <2>1, <2>5, <1>t DEF Put, TypeOK
    <3> QED BY <1>b, <1>n, <2>1, <2>2, <2>3, <2>5, <3>1 DEF Balance
  <2> QED BY <2>4, <2>5
<1>7. ASSUME NEW c \in Calls, ChunkedFails(c)
      PROVE  Balance(p)'
  <2>1. /\ pc[c] \in {"sending", "open"} /\ pool' = pool
        /\ free' = free /\ block' = block
        /\ Goes(c, "failed")
    BY <1>7 DEF ChunkedFails, At
  <2>2. Cardinality(Users(p)) = Cardinality(Users(p)')
                                + (IF p = pool[c] THEN 1 ELSE 0)
    BY <2>1, <1>t, OneLess
  <2>3. lost'[p] = lost[p] + (IF p = pool[c] THEN 1 ELSE 0)
    BY <1>7, <1>t DEF ChunkedFails, TypeOK
  <2>4. Cardinality(Users(p)') \in Nat
    BY UsersCountNext
  <2> QED BY <1>b, <1>n, <2>1, <2>2, <2>3, <2>4 DEF Balance
<1>8. CASE UNCHANGED vars
  BY <1>8, <1>b DEF vars, Balance, Users
<1> QED BY <1>1, <1>2, <1>3, <1>4, <1>5, <1>6, <1>7, <1>8 DEF Next, Answer

\* PlacesAccounted of every run of the model: a place leaves a pool that blocks
\* only for a call that uses it, or with a failed upload.
THEOREM PlacesHold == Spec => []PlacesAccounted
<1>1. Inv /\ [Next]_vars => Inv'
  BY TypeStep, KnownStep, PlacesStep DEF Inv
<1>2. Inv => PlacesAccounted
  BY DEF Inv
<1> QED BY PlacesInit, <1>1, <1>2, PTL DEF Spec
=============================================================================
