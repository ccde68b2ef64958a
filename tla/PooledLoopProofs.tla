-------------------------- MODULE PooledLoopProofs --------------------------
(***************************************************************************)
(* Proofs about the event loop: of EventLoop for every pool, timeout and   *)
(* number of clients, and of PooledLoop for every number of blocks.  The   *)
(* free list of mem_pool.c stays sound, and the loop that allocates from   *)
(* it implements EventLoop, whose theorems therefore hold of it.           *)
(***************************************************************************)
EXTENDS PooledLoop, TLAPS, FiniteSetTheorems

-----------------------------------------------------------------------------
(***************************************************************************)
(* EventLoop.                                                              *)
(***************************************************************************)

\* Where each piece of state may be: a batch is under way only between
\* epoll_wait and connection_prune, and the connection being accepted is in
\* no event yet.
LoopControl ==
  /\ pc \in {"wait", "prune"} => batch = {}
  /\ fresh # NoConn <=> pc = "epoll_add"
  /\ pruning <=> pc = "prune"
  /\ fresh \in registered \cup {NoConn}
  /\ fresh \notin ready
  /\ fresh \in batch => fresh = NoConn
  /\ now >= StartTime
  /\ backlog =< arrivals

LoopInv == TypeOK /\ LoopControl /\ NoDanglingEvent /\ FailedIsGone

LEMMA LoopInit == Init => LoopInv
<1> SUFFICES ASSUME Init PROVE LoopInv
  OBVIOUS
<1>1. StartTime \in Nat /\ MaxArrivals \in Nat
  BY LoopAssumption
<1>2. TypeOK
  <2>1. pruning \in BOOLEAN /\ orphaned \in BOOLEAN
    BY DEF Init, Table!Init
  <2>2. active_time \in [Conns -> Nat]
    BY DEF Init, Table!Init
  <2>3. arrivals \in 0 .. MaxArrivals /\ backlog \in 0 .. MaxArrivals /\ now \in Nat
    BY <1>1 DEF Init, Table!Init
  <2> QED BY <2>1, <2>2, <2>3, Zenon DEF Init, Table!Init, TypeOK
<1>3. LoopControl
  BY <1>1 DEF Init, Table!Init, LoopControl
<1>4. NoDanglingEvent /\ FailedIsGone
  BY DEF Init, Table!Init, NoDanglingEvent, FailedIsGone
<1> QED BY <1>2, <1>3, <1>4 DEF LoopInv

LEMMA LoopNext == LoopInv /\ [Next]_vars => LoopInv'
<1> SUFFICES ASSUME LoopInv, [Next]_vars PROVE LoopInv'
  OBVIOUS
<1> USE LoopAssumption DEF ListenEvent
<1>n. MaxArrivals \in Nat /\ StartTime \in Nat
  BY LoopAssumption
<1>0. TypeOK /\ LoopControl /\ NoDanglingEvent /\ FailedIsGone
  BY DEF LoopInv
<1>1. CASE UNCHANGED vars
  BY <1>0, <1>1 DEF vars, tableVars, LoopInv, TypeOK, LoopControl, NoDanglingEvent,
                    FailedIsGone
<1>2. CASE tick
  BY <1>0, <1>2 DEF tick, Table!Tick, LoopInv, TypeOK, LoopControl, NoDanglingEvent,
                    FailedIsGone
<1>3. CASE client_connects
  BY <1>0, <1>n, <1>3 DEF client_connects, tableVars, LoopInv, TypeOK, LoopControl,
                    NoDanglingEvent, FailedIsGone
<1>4. ASSUME NEW c \in Conns, socket_is_ready(c) PROVE LoopInv'
  BY <1>0, <1>4 DEF socket_is_ready, tableVars, LoopInv, TypeOK, LoopControl,
                    NoDanglingEvent, FailedIsGone
<1>5. CASE lotos_epoll_wait
  BY <1>0, <1>5 DEF lotos_epoll_wait, tableVars, LoopInv, TypeOK, LoopControl,
                    NoDanglingEvent, FailedIsGone
<1>i. CASE lotos_epoll_wait_interrupted
  BY <1>0, <1>i DEF lotos_epoll_wait_interrupted, tableVars, LoopInv, TypeOK,
                    LoopControl, NoDanglingEvent, FailedIsGone
<1>6. ASSUME NEW e \in Conns \cup {ListenEvent}, dispatch(e) PROVE LoopInv'
  BY <1>0, <1>6 DEF dispatch, tableVars, LoopInv, TypeOK, LoopControl,
                    NoDanglingEvent, FailedIsGone
<1>7. CASE handled
  BY <1>0, <1>7 DEF handled, Table!Reactivate, LoopInv, TypeOK, LoopControl,
                    NoDanglingEvent, FailedIsGone
<1>8. CASE handler_fails
  BY <1>0, <1>8 DEF handler_fails, Table!Expire, LoopInv, TypeOK, LoopControl,
                    NoDanglingEvent, FailedIsGone
<1>9. CASE accept_without_block
  BY <1>0, <1>9 DEF accept_without_block, tableVars, LoopInv, TypeOK, LoopControl,
                    NoDanglingEvent, FailedIsGone
<1>10. CASE lotos_epoll_add
  BY <1>0, <1>10 DEF lotos_epoll_add, Table!AcceptSucceeds, LoopInv, TypeOK,
                     LoopControl, NoDanglingEvent, FailedIsGone
<1>11. CASE lotos_epoll_add_fails
  BY <1>0, <1>11 DEF lotos_epoll_add_fails, Table!AcceptFails, LoopInv, TypeOK,
                     LoopControl, NoDanglingEvent, FailedIsGone
<1>12. CASE server_accept_returns
  BY <1>0, <1>12 DEF server_accept_returns, tableVars, LoopInv, TypeOK, LoopControl,
                     NoDanglingEvent, FailedIsGone
<1>13. CASE connection_prune
  BY <1>0, <1>13 DEF connection_prune, Table!StartPrune, LoopInv, TypeOK, LoopControl,
                     NoDanglingEvent, FailedIsGone
<1>14. CASE prune_returns
  <2>1. TypeOK' /\ LoopControl' /\ NoDanglingEvent'
    BY <1>0, <1>14 DEF prune_returns, Table!EndPrune, TypeOK, LoopControl,
                       NoDanglingEvent
  <2>2. FailedIsGone'
    BY <1>0, <1>14, EpochAssumption
    DEF prune_returns, Table!EndPrune, TypeOK, LoopControl, FailedIsGone
  <2> QED BY <2>1, <2>2 DEF LoopInv
<1>15. ASSUME NEW c \in Conns, server_accept(c) PROVE LoopInv'
  BY <1>0, <1>15 DEF server_accept, Table!Accept, Table!Quiet, LoopInv, TypeOK,
                     LoopControl, NoDanglingEvent, FailedIsGone
<1>16. ASSUME NEW c \in Conns, connection_close(c) PROVE LoopInv'
  BY <1>0, <1>16 DEF connection_close, Table!PruneOldest, LoopInv, TypeOK,
                     LoopControl, NoDanglingEvent, FailedIsGone
<1> QED BY <1>1, <1>2, <1>3, <1>4, <1>5, <1>6, <1>7, <1>8, <1>9, <1>10, <1>11,
           <1>12, <1>13, <1>14, <1>15, <1>16, <1>i DEF Next, WorkerNext

\* The event loop keeps its state well typed.
THEOREM LoopTypeCorrect == Spec => []TypeOK
<1>1. LoopInv => TypeOK
  BY DEF LoopInv
<1> QED BY <1>1, LoopInit, LoopNext, PTL DEF Spec

\* Closing connections only after the batch, and taking them off the epoll
\* set before they are freed, keeps every event's pointer valid.
THEOREM EventsNeverDangle == Spec => []NoDanglingEvent
<1>1. LoopInv => NoDanglingEvent
  BY DEF LoopInv
<1> QED BY <1>1, LoopInit, LoopNext, PTL DEF Spec

\* The round in which a connection fails is its last.
THEOREM FailedNeverSurvives == Spec => []FailedIsGone
<1>1. LoopInv => FailedIsGone
  BY DEF LoopInv
<1> QED BY <1>1, LoopInit, LoopNext, PTL DEF Spec

-----------------------------------------------------------------------------
(***************************************************************************)
(* PooledLoop.                                                             *)
(***************************************************************************)

N == Cardinality(Conns)

LEMMA BlockFacts == N \in Nat /\ N > 0 /\ Conns = 0 .. N - 1 /\ Pool!Blocks = Conns
<1>1. N \in Nat
  BY BlocksAssumption, FS_CardinalityType DEF N
<1>2. Conns = 0 .. N - 1 /\ Conns # {}
  BY BlocksAssumption DEF N
<1>3. N > 0
  BY <1>1, <1>2
<1> QED BY <1>1, <1>2, <1>3 DEF Pool!Blocks, N

\* s lists the n blocks that are not in use, from next on.
ListAt(s, n) ==
  /\ next = IF n = 0 THEN NoConn ELSE s[1]
  /\ \A i \in 1 .. n : word[s[i]] = IF i = n THEN NoConn ELSE s[i + 1]
  /\ \A i, j \in 1 .. n : s[i] = s[j] => i = j
  /\ {s[i] : i \in 1 .. n} = Conns \ registered

LEMMA SoundDef ==
  PoolSound <=> \E s \in [1 .. N - block_allocated -> Conns] : ListAt(s, N - block_allocated)
BY BlockFacts DEF PoolSound, Pool!FreeListSound, ListAt, N

\* The words of the blocks and the count, with the list they form.
PoolInv ==
  /\ DOMAIN word = Conns
  /\ block_allocated \in Int
  /\ block_allocated =< N
  /\ PoolSound

PooledInv == LoopInv /\ PoolInv

LEMMA PooledInitInv == PooledInit => PooledInv
<1> SUFFICES ASSUME PooledInit PROVE PooledInv
  OBVIOUS
<1>1. LoopInv /\ registered = {}
  BY LoopInit DEF PooledInit, Init, Table!Init
<1>2. /\ word = [i \in Conns |-> IF i < N - 1 THEN i + 1 ELSE NoConn]
      /\ next = 0
      /\ block_allocated = 0
  BY BlockFacts DEF PooledInit, Pool!pool_create, N
<1> DEFINE s == [i \in 1 .. N |-> i - 1]
<1>3. s \in [1 .. N -> Conns]
  BY BlockFacts
<1>4. {s[i] : i \in 1 .. N} = Conns
  <2>1. ASSUME NEW c \in Conns PROVE c + 1 \in 1 .. N /\ s[c + 1] = c
    BY BlockFacts
  <2> QED BY <1>3, <2>1
<1>5. \A i \in 1 .. N : word[s[i]] = IF i = N THEN NoConn ELSE s[i + 1]
  BY <1>2, <1>3, BlockFacts
<1>6. \A i, j \in 1 .. N : s[i] = s[j] => i = j
  BY BlockFacts
<1>7. s[1] = 0 /\ N - block_allocated = N
  BY <1>2, BlockFacts
<1>8. PoolSound
  <2> HIDE DEF s
  <2>1. next = IF N = 0 THEN NoConn ELSE s[1]
    BY <1>2, <1>7, BlockFacts
  <2>2. Conns \ registered = Conns
    BY <1>1
  <2> QED BY <1>3, <1>4, <1>5, <1>6, <1>7, <2>1, <2>2, BlockFacts
          DEF PoolSound, Pool!FreeListSound, N
<1> QED BY <1>1, <1>2, <1>8, BlockFacts DEF PooledInv, PoolInv

\* A list with these links is what PoolSound asks for.
LEMMA ListIntro ==
  ASSUME NEW m, NEW t \in [1 .. m -> Conns],
         m = N - block_allocated',
         next' = IF m = 0 THEN NoConn ELSE t[1],
         \A i \in 1 .. m : word'[t[i]] = IF i = m THEN NoConn ELSE t[i + 1],
         \A i, j \in 1 .. m : t[i] = t[j] => i = j,
         {t[i] : i \in 1 .. m} = Conns \ registered'
  PROVE  PoolSound'
<1>1. PoolSound' <=> (\E s \in [1 .. N - block_allocated -> Conns] : ListAt(s, N - block_allocated))'
  BY SoundDef, PTL
<1>2. ListAt(t, m)'
  BY Zenon DEF ListAt
<1> QED BY <1>1, <1>2

\* pool_alloc takes the head of the list: a block that is not in use.
LEMMA AllocSound ==
  ASSUME NEW c, PoolInv, Pool!pool_alloc(c), registered' = registered \cup {c}
  PROVE  c \in Conns /\ c \notin registered /\ PoolInv'
<1> DEFINE n == N - block_allocated
<1>1. PICK s \in [1 .. n -> Conns] :
        /\ next = IF n = 0 THEN NoConn ELSE s[1]
        /\ \A i \in 1 .. n : word[s[i]] = IF i = n THEN NoConn ELSE s[i + 1]
        /\ \A i, j \in 1 .. n : s[i] = s[j] => i = j
        /\ {s[i] : i \in 1 .. n} = Conns \ registered
  BY BlockFacts DEF PoolInv, PoolSound, Pool!FreeListSound, N
<1>2. /\ block_allocated < N /\ c = next /\ next # NoConn
      /\ next' = word[c]
      /\ block_allocated' = block_allocated + 1
      /\ word' = [word EXCEPT ![c] = Pool!OwnersData]
  BY DEF Pool!pool_alloc, N
<1>3. n \in Nat /\ n > 0 /\ N \in Nat
  BY <1>2, BlockFacts DEF PoolInv
<1> HIDE DEF n
<1>4. c = s[1] /\ c \in Conns /\ c \notin registered
  BY <1>1, <1>2, <1>3
<1> DEFINE t == [i \in 1 .. n - 1 |-> s[i + 1]]
<1>5. t \in [1 .. n - 1 -> Conns]
  BY <1>1, <1>3
<1>6. \A i \in 1 .. n - 1 : t[i] # c /\ t[i] = s[i + 1] /\ i + 1 \in 1 .. n
  BY <1>1, <1>3, <1>4
<1>7. N - block_allocated' = n - 1
  BY <1>2, BlockFacts DEF n, PoolInv
<1>8. next' = IF n - 1 = 0 THEN NoConn ELSE t[1]
  <2>1. word[s[1]] = IF 1 = n THEN NoConn ELSE s[2]
    BY <1>1, <1>3
  <2>2. n # 1 => t[1] = s[2]
    BY <1>3
  <2> QED BY <2>1, <2>2, <1>2, <1>3, <1>4
<1>9. \A i \in 1 .. n - 1 : word'[t[i]] = IF i = n - 1 THEN NoConn ELSE t[i + 1]
  <2> SUFFICES ASSUME NEW i \in 1 .. n - 1
               PROVE  word'[t[i]] = IF i = n - 1 THEN NoConn ELSE t[i + 1]
    OBVIOUS
  <2>1. word'[t[i]] = word[s[i + 1]]
    BY <1>2, <1>5, <1>6 DEF PoolInv
  <2>2. word[s[i + 1]] = IF i + 1 = n THEN NoConn ELSE s[i + 2]
    BY <1>1, <1>3
  <2>3. i # n - 1 => t[i + 1] = s[i + 2]
    BY <1>3
  <2> QED BY <2>1, <2>2, <2>3, <1>3
<1>10. \A i, j \in 1 .. n - 1 : t[i] = t[j] => i = j
  BY <1>1, <1>3, <1>6
<1>11. {t[i] : i \in 1 .. n - 1} = Conns \ registered'
  <2>1. ASSUME NEW d \in Conns, d \notin registered' PROVE \E i \in 1 .. n - 1 : t[i] = d
    <3>1. PICK i \in 1 .. n : s[i] = d
      BY <1>1, <2>1
    <3>2. i # 1
      BY <3>1, <2>1, <1>4
    <3>3. i - 1 \in 1 .. n - 1 /\ t[i - 1] = d
      BY <3>1, <3>2, <1>3
    <3> QED BY <3>3
  <2>2. ASSUME NEW i \in 1 .. n - 1 PROVE t[i] \in Conns /\ t[i] \notin registered'
    BY <1>1, <1>5, <1>6
  <2> QED BY <2>1, <2>2, Zenon
<1>12. PoolSound'
  <2> HIDE DEF t
  <2> QED BY <1>5, <1>7, <1>8, <1>9, <1>10, <1>11, ListIntro
<1> QED BY <1>2, <1>3, <1>4, <1>12, BlockFacts DEF PoolInv

\* pool_free puts a block in use in front of the list.
LEMMA FreeSound ==
  ASSUME NEW c \in Conns, c \in registered, PoolInv, Pool!pool_free(c),
         registered' = registered \ {c}
  PROVE  PoolInv'
<1> DEFINE n == N - block_allocated
<1>1. PICK s \in [1 .. n -> Conns] :
        /\ next = IF n = 0 THEN NoConn ELSE s[1]
        /\ \A i \in 1 .. n : word[s[i]] = IF i = n THEN NoConn ELSE s[i + 1]
        /\ \A i, j \in 1 .. n : s[i] = s[j] => i = j
        /\ {s[i] : i \in 1 .. n} = Conns \ registered
  BY BlockFacts DEF PoolInv, PoolSound, Pool!FreeListSound, N
<1>2. /\ next' = c
      /\ block_allocated' = block_allocated - 1
      /\ word' = [word EXCEPT ![c] = next]
  BY DEF Pool!pool_free
<1>3. n \in Nat /\ N \in Nat /\ N - block_allocated' = n + 1
  BY <1>2, BlockFacts DEF PoolInv
<1> HIDE DEF n
<1> DEFINE t == [i \in 1 .. n + 1 |-> IF i = 1 THEN c ELSE s[i - 1]]
<1>4. t \in [1 .. n + 1 -> Conns]
  BY <1>1, <1>3
<1>5. \A i \in 1 .. n : s[i] # c /\ t[i + 1] = s[i]
  BY <1>1, <1>3
<1>6. t[1] = c
  BY <1>3
<1>7. \A i \in 1 .. n + 1 : word'[t[i]] = IF i = n + 1 THEN NoConn ELSE t[i + 1]
  <2> SUFFICES ASSUME NEW i \in 1 .. n + 1
               PROVE  word'[t[i]] = IF i = n + 1 THEN NoConn ELSE t[i + 1]
    OBVIOUS
  <2>1. CASE i = 1
    <3>1. word'[t[i]] = next
      BY <1>2, <1>6, <2>1 DEF PoolInv
    <3>2. n # 0 => t[2] = s[1]
      BY <1>3
    <3> QED BY <1>1, <1>3, <2>1, <3>1, <3>2
  <2>2. CASE i # 1
    <3>0. i - 1 \in 1 .. n
      BY <1>3, <2>2
    <3>1. t[i] = s[i - 1] /\ s[i - 1] # c
      BY <1>5, <2>2, <3>0
    <3>2. word'[t[i]] = word[s[i - 1]]
      BY <1>1, <1>2, <3>0, <3>1 DEF PoolInv
    <3>3. word[s[i - 1]] = IF i - 1 = n THEN NoConn ELSE s[i]
      BY <1>1, <1>3, <3>0
    <3>4. i # n + 1 => t[i + 1] = s[i]
      BY <1>3, <1>5
    <3> QED BY <3>2, <3>3, <3>4, <1>3
  <2> QED BY <2>1, <2>2
<1>8. \A i, j \in 1 .. n + 1 : t[i] = t[j] => i = j
  BY <1>1, <1>3, <1>5
<1>9. {t[i] : i \in 1 .. n + 1} = Conns \ registered'
  <2>1. ASSUME NEW d \in Conns, d \notin registered' PROVE \E i \in 1 .. n + 1 : t[i] = d
    <3>1. CASE d = c
      BY <1>3, <1>6, <3>1
    <3>2. CASE d # c
      <4>1. PICK i \in 1 .. n : s[i] = d
        BY <1>1, <2>1, <3>2
      <4>2. i + 1 \in 1 .. n + 1 /\ t[i + 1] = d
        BY <1>3, <1>5, <4>1
      <4> QED BY <4>2
    <3> QED BY <3>1, <3>2
  <2>2. ASSUME NEW i \in 1 .. n + 1 PROVE t[i] \in Conns /\ t[i] \notin registered'
    BY <1>1, <1>3
  <2> HIDE DEF t
  <2> QED BY <2>1, <2>2, Zenon
<1>10. PoolSound'
  <2> HIDE DEF t
  <2>1. next' = IF n + 1 = 0 THEN NoConn ELSE t[1]
    BY <1>2, <1>3, <1>6
  <2> QED BY <1>3, <1>4, <1>7, <1>8, <1>9, <2>1, ListIntro
<1> QED BY <1>2, <1>3, <1>10 DEF PoolInv

\* pool_alloc returns NULL only when every block is in use.
LEMMA AllocFailsWhenFull ==
  ASSUME LoopInv, PoolInv, Pool!pool_alloc_fails
  PROVE  registered = Conns
<1> DEFINE n == N - block_allocated
<1>1. PICK s \in [1 .. n -> Conns] :
        /\ next = IF n = 0 THEN NoConn ELSE s[1]
        /\ {s[i] : i \in 1 .. n} = Conns \ registered
  BY BlockFacts DEF PoolInv, PoolSound, Pool!FreeListSound, N
<1>2. n \in Nat /\ N \in Nat
  BY BlockFacts DEF PoolInv
<1>3. n = 0 \/ next = NoConn
  BY <1>2 DEF Pool!pool_alloc_fails, PoolInv, N
<1> HIDE DEF n
<1>4. n = 0
  BY <1>1, <1>2, <1>3, LoopAssumption
<1>5. Conns \ registered = {}
  BY <1>1, <1>4
<1> QED BY <1>5 DEF LoopInv, TypeOK

\* Every step of the loop with the pool is one of EventLoop, and keeps the list.
LEMMA PooledStep == PooledInv /\ [PooledNext]_pooledVars => [Next]_vars /\ PooledInv'
<1> SUFFICES ASSUME PooledInv, [PooledNext]_pooledVars PROVE [Next]_vars /\ PoolInv'
  BY LoopNext DEF PooledInv
<1>0. LoopInv /\ PoolInv
  BY DEF PooledInv
<1>a. ASSUME UNCHANGED poolVars, UNCHANGED registered PROVE PoolInv'
  <2>1. /\ next' = next /\ word' = word /\ block_allocated' = block_allocated
        /\ registered' = registered
    BY <1>a DEF poolVars
  <2>2. PoolSound'
    <3>1. PICK s \in [1 .. N - block_allocated -> Conns] : ListAt(s, N - block_allocated)
      BY <1>0, SoundDef DEF PoolInv
    <3> QED BY <2>1, <3>1, ListIntro DEF ListAt
  <2> QED BY <1>0, <2>1, <2>2 DEF PoolInv
<1>1. CASE UNCHANGED pooledVars
  BY <1>1, <1>a DEF pooledVars, vars, tableVars
<1>2. CASE Environment /\ UNCHANGED poolVars
  <2>1. UNCHANGED registered
    BY <1>2 DEF Environment, tick, client_connects, socket_is_ready, Table!Tick, tableVars
  <2> QED BY <1>2, <1>a, <2>1 DEF Environment, Next
<1>3. CASE OtherSteps /\ UNCHANGED poolVars
  <2>1. UNCHANGED registered
    BY <1>3 DEF OtherSteps, lotos_epoll_wait, lotos_epoll_wait_interrupted, dispatch,
                handled, handler_fails, lotos_epoll_add, server_accept_returns,
                connection_prune, prune_returns, tableVars, Table!Reactivate,
                Table!Expire, Table!AcceptSucceeds, Table!StartPrune, Table!EndPrune
  <2> QED BY <1>3, <1>a, <2>1 DEF OtherSteps, Next, WorkerNext
<1>4. CASE pooled_accept_fails
  <2>1. UNCHANGED poolVars /\ UNCHANGED registered
    BY <1>4 DEF pooled_accept_fails, Pool!pool_alloc_fails, Pool!poolVars, poolVars, tableVars
  <2>2. registered = Conns
    BY <1>0, <1>4, AllocFailsWhenFull DEF pooled_accept_fails
  <2>3. accept_without_block
    BY <1>4, <2>2 DEF pooled_accept_fails, accept_without_block
  <2> QED BY <1>a, <2>1, <2>3 DEF Next, WorkerNext
<1>5. CASE pooled_epoll_add_fails
  <2>1. fresh \in Conns /\ fresh \in registered /\ registered' = registered \ {fresh}
    BY <1>0, <1>5 DEF pooled_epoll_add_fails, lotos_epoll_add_fails, Table!AcceptFails,
                      LoopInv, LoopControl, TypeOK
  <2>2. PoolInv'
    BY <1>0, <1>5, <2>1, FreeSound DEF pooled_epoll_add_fails
  <2> QED BY <1>5, <2>2 DEF pooled_epoll_add_fails, Next, WorkerNext
<1>6. ASSUME NEW c \in Conns, pooled_accept(c) PROVE [Next]_vars /\ PoolInv'
  <2>1. c \notin registered /\ PoolInv'
    BY <1>0, <1>6, AllocSound DEF pooled_accept
  <2>2. Table!Quiet
    BY <1>0, <1>6 DEF pooled_accept, LoopInv, LoopControl, Table!Quiet
  <2>3. server_accept(c)
    BY <1>6, <2>1, <2>2 DEF pooled_accept, server_accept, Table!Accept
  <2> QED BY <2>1, <2>3 DEF Next, WorkerNext
<1>7. ASSUME NEW c \in Conns, pooled_close(c) PROVE [Next]_vars /\ PoolInv'
  <2>1. c \in registered /\ registered' = registered \ {c}
    BY <1>7 DEF pooled_close, connection_close, Table!PruneOldest
  <2>2. PoolInv'
    BY <1>0, <1>7, <2>1, FreeSound DEF pooled_close
  <2> QED BY <1>7, <2>2 DEF pooled_close, Next, WorkerNext
<1> QED BY <1>1, <1>2, <1>3, <1>4, <1>5, <1>6, <1>7 DEF PooledNext, PooledWorker

\* mem_pool.c, with as many blocks as one likes: the free list never loses a
\* block, holds one twice or offers one that a connection still uses.
THEOREM FreeListStaysSound == PooledSpec => []PoolSound
<1>1. PooledInv => PoolSound
  BY DEF PooledInv, PoolInv
<1> QED BY <1>1, PooledInitInv, PooledStep, PTL DEF PooledSpec

\* The worker that allocates its connections with mem_pool.c implements the
\* event loop that picks any unused block: what is proved of EventLoop holds
\* of the loop with its pool.
THEOREM PoolRefinesLoop == PooledSpec => ImplementsLoop
<1>1. PooledInit => Init
  BY DEF PooledInit
<1> QED BY <1>1, PooledInitInv, PooledStep, PTL DEF PooledSpec, ImplementsLoop, Spec
=============================================================================
