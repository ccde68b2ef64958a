----------------------------- MODULE PooledLoop -----------------------------
(***************************************************************************)
(* The event loop of a worker with the memory pool its connections come    *)
(* from.  EventLoop lets an accept take any block that is not in use and   *)
(* fail when there is none; here the block is the one pool_alloc returns,  *)
(* whatever state its list is in, and ImplementsLoop says that the two are *)
(* the same.                                                               *)
(***************************************************************************)
EXTENDS EventLoop

VARIABLES word, next, block_allocated

Pool == INSTANCE MemPool WITH block_num <- Cardinality(Conns), NULL <- NoConn

\* The blocks of the pool, by their index.
ASSUME BlocksAssumption ==
  IsFiniteSet(Conns) /\ Conns # {} /\ Conns = 0 .. Cardinality(Conns) - 1

poolVars == <<word, next, block_allocated>>
pooledVars == <<vars, poolVars>>

PooledInit == Init /\ Pool!pool_create

\* connection_accept with the block that connection_init got, up to the call of
\* lotos_epoll_add.
pooled_accept(c) ==
  /\ pc = "accept"
  /\ backlog > 0
  /\ Pool!pool_alloc(c)
  /\ registered' = registered \cup {c}
  /\ active_time' = [active_time EXCEPT ![c] = now]
  /\ fresh' = c
  /\ backlog' = backlog - 1
  /\ pc' = "epoll_add"
  /\ UNCHANGED <<now, pruning, arrivals, ready, batch, cur, orphaned>>

\* Mutant: the result of accept is not tested.
pooled_accept_fails_unchecked ==
  /\ pc = "accept"
  /\ Pool!pool_alloc_fails
  /\ backlog' = backlog - 1
  /\ orphaned' = TRUE
  /\ UNCHANGED <<tableVars, arrivals, ready, batch, pc, cur>>

\* connection_init got NULL.
pooled_accept_fails ==
  /\ pc = "accept"
  /\ backlog > 0
  /\ Pool!pool_alloc_fails
  /\ backlog' = backlog - 1
  /\ orphaned' = TRUE
  /\ UNCHANGED <<tableVars, arrivals, ready, batch, pc, cur>>

\* connection_close ends with connection_free.
pooled_epoll_add_fails == lotos_epoll_add_fails /\ Pool!pool_free(fresh)
pooled_close(c) == connection_close(c) /\ Pool!pool_free(c)

\* The steps of the worker that use no block.
OtherSteps ==
  \/ lotos_epoll_wait
  \/ lotos_epoll_wait_interrupted
  \/ \E e \in Conns \cup {ListenEvent} : dispatch(e)
  \/ handled
  \/ handler_fails
  \/ lotos_epoll_add
  \/ server_accept_returns
  \/ connection_prune
  \/ prune_returns

PooledWorker ==
  \/ OtherSteps /\ UNCHANGED poolVars
  \/ pooled_accept_fails
  \/ pooled_epoll_add_fails
  \/ \E c \in Conns : pooled_accept(c) \/ pooled_close(c)

Environment ==
  \/ tick
  \/ client_connects
  \/ \E c \in Conns : socket_is_ready(c)

PooledNext == (Environment /\ UNCHANGED poolVars) \/ PooledWorker

PooledSpec == PooledInit /\ [][PooledNext]_pooledVars

\* As in EventLoop: the worker runs and epoll_wait returns in the end.
PooledFairSpec ==
  /\ PooledSpec
  /\ WF_pooledVars(PooledWorker)
  /\ SF_pooledVars(lotos_epoll_wait /\ UNCHANGED poolVars)

-----------------------------------------------------------------------------
\* The list of free blocks is intact through every accept, failed accept and
\* close: pool_alloc never returns a block of an open connection.
PoolSound == Pool!FreeListSound(registered)

\* With this pool the worker still does what EventLoop says: an accept gets a
\* block that is not in use, and the socket is dropped only when all are.
ImplementsLoop == Spec
=============================================================================
