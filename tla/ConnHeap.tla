------------------------------ MODULE ConnHeap ------------------------------
(***************************************************************************)
(* connection.c: the connections of one worker, kept in the array          *)
(* lotos_connections as a binary min-heap ordered by active_time.  The     *)
(* heap tells connection_prune which connections have timed out.           *)
(*                                                                         *)
(* Each iteration of a loop of the code is one action; while an operation  *)
(* is under way (pc # "idle") no other can start, as in the single-        *)
(* threaded worker.  Only the clock moves between any two steps.           *)
(*                                                                         *)
(* The build modelled is the one of src/src/Makefile: NDEBUG (the asserts  *)
(* are off) and USE_MEM_POOL, so a connection_t is one of the blocks       *)
(* Conns of connection_pool.  time(NULL) follows the wall clock, which an  *)
(* administrator or NTP may set back; ClockSetBack says whether it is.     *)
(***************************************************************************)
EXTENDS Integers, FiniteSets

CONSTANTS
  Conns,          \* the blocks of connection_pool
  MaxConnection,  \* MAX_CONNECTION, the length of lotos_connections
  Timeout,        \* server_config.timeout
  StartTime,      \* time(NULL) when the worker starts
  MaxTime,        \* bound of the model: the clock stops here
  ClockSetBack,   \* may the wall clock be set back?
  NoConn          \* NULL

ASSUME ConstantsAssumption ==
  /\ IsFiniteSet(Conns)
  /\ NoConn \notin Conns
  /\ MaxConnection \in Nat \ {0}
  /\ Timeout \in Nat
  /\ StartTime \in Nat
  /\ MaxTime \in Nat
  /\ ClockSetBack \in BOOLEAN

\* server_setup creates 1024 blocks; MAX_CONNECTION is 10240.
ASSUME PoolFitsHeap == Cardinality(Conns) =< MaxConnection

VARIABLES
  lotos_connections,  \* the array; entries from heap_size on are left over
  heap_size,
  heap_idx,           \* connection_t.heap_idx
  active_time,        \* connection_t.active_time
  conns,              \* allocated connection_t blocks
  now,                \* time(NULL)
  pc,                 \* what the worker is executing
  op,                 \* the operation that called the heap routine
  cur,                \* the connection it works on
  idx                 \* idx of heap_bubble_up and heap_bubble_down

heapVars == <<lotos_connections, heap_size, heap_idx>>
ctrlVars == <<pc, op, cur, idx>>
vars == <<heapVars, active_time, conns, now, ctrlVars>>

Slots == 0 .. MaxConnection - 1

LCHILD(x) == 2 * x + 1
RCHILD(x) == 2 * x + 2
PARENT(x) == (x - 1) \div 2
INHEAP(x) == -1 < x /\ x < heap_size

TimeAt(i) == active_time[lotos_connections[i]]

-----------------------------------------------------------------------------
Init ==
  /\ lotos_connections = [i \in Slots |-> NoConn]
  /\ heap_size = 0
  /\ heap_idx = [c \in Conns |-> 0]
  /\ active_time = [c \in Conns |-> 0]
  /\ conns = {}
  /\ now = StartTime
  /\ pc = "idle"
  /\ op = "none"
  /\ cur = NoConn
  /\ idx = 0

\* The wall clock advances, and is set back if that is allowed.
Tick ==
  /\ now' \in StartTime .. MaxTime
  /\ now' = now + 1 \/ (ClockSetBack /\ now' = now - 1)
  /\ UNCHANGED <<heapVars, active_time, conns, ctrlVars>>

-----------------------------------------------------------------------------
\* Mutated forms, here and below, are plausible mistakes in the definition that
\* follows them.  No specification uses them: they show that the properties
\* notice the mistake.

\* Mutant: a connection whose accept failed is unregistered, not freed.
Return_keeps_block ==
  /\ pc' = CASE op = "accept" -> "epoll_add"
             [] op = "prune"  -> "prune"
             [] OTHER         -> "idle"
  /\ conns' = IF op = "prune" THEN conns \ {cur} ELSE conns
  /\ UNCHANGED <<heapVars, active_time, now, op, cur, idx>>

\* The operation is over: connection_close frees its connection, and
\* connection_prune goes round its loop.
Return ==
  /\ pc' = CASE op = "accept" -> "epoll_add"
             [] op = "prune"  -> "prune"
             [] OTHER         -> "idle"
  /\ conns' = IF op \in {"abort", "prune"} THEN conns \ {cur} ELSE conns
  /\ UNCHANGED <<heapVars, active_time, now, op, cur, idx>>

\* Mutant: heap_idx of the second entry is not updated.
c_swap_one_index(x, y) ==
  /\ lotos_connections' = [lotos_connections EXCEPT
                             ![x] = lotos_connections[y],
                             ![y] = lotos_connections[x]]
  /\ heap_idx' = [heap_idx EXCEPT ![lotos_connections[y]] = x]
  /\ UNCHANGED heap_size

c_swap(x, y) ==
  /\ lotos_connections' = [lotos_connections EXCEPT
                             ![x] = lotos_connections[y],
                             ![y] = lotos_connections[x]]
  /\ heap_idx' = [heap_idx EXCEPT ![lotos_connections[y]] = x,
                                  ![lotos_connections[x]] = y]
  /\ UNCHANGED heap_size

\* One iteration of the loop of heap_bubble_up.
RisesAbove(i) == PARENT(i) >= 0 /\ TimeAt(i) < TimeAt(PARENT(i))

heap_bubble_up ==
  /\ pc = "up"
  /\ RisesAbove(idx)
  /\ c_swap(idx, PARENT(idx))
  /\ idx' = PARENT(idx)
  /\ UNCHANGED <<active_time, conns, now, pc, op, cur>>

heap_bubble_up_ends ==
  /\ pc = "up"
  /\ ~RisesAbove(idx)
  /\ Return

\* Mutant: the comparison of the two children is the wrong way round.
proper_child_larger(i) ==
  IF INHEAP(RCHILD(i)) /\ TimeAt(LCHILD(i)) < TimeAt(RCHILD(i))
  THEN RCHILD(i)
  ELSE LCHILD(i)

\* The child the loop of heap_bubble_down compares with: of two children the
\* one with the smaller time, the right one on a tie.
proper_child(i) ==
  IF INHEAP(RCHILD(i)) /\ ~(TimeAt(LCHILD(i)) < TimeAt(RCHILD(i)))
  THEN RCHILD(i)
  ELSE LCHILD(i)

SinksBelow(i) == INHEAP(LCHILD(i)) /\ ~(TimeAt(i) =< TimeAt(proper_child(i)))

heap_bubble_down ==
  /\ pc = "down"
  /\ SinksBelow(idx)
  /\ c_swap(idx, proper_child(idx))
  /\ idx' = proper_child(idx)
  /\ UNCHANGED <<active_time, conns, now, pc, op, cur>>

heap_bubble_down_ends ==
  /\ pc = "down"
  /\ ~SinksBelow(idx)
  /\ Return

-----------------------------------------------------------------------------
\* connection_accept up to heap_insert, whose heap_bubble_up follows.  A block
\* comes from pool_alloc; HeapHasRoom is why connection_register cannot fail.
connection_accept(c) ==
  /\ pc = "idle"
  /\ c \notin conns
  /\ heap_size < MaxConnection
  /\ conns' = conns \cup {c}
  /\ active_time' = [active_time EXCEPT ![c] = now]
  /\ lotos_connections' = [lotos_connections EXCEPT ![heap_size] = c]
  /\ heap_idx' = [heap_idx EXCEPT ![c] = heap_size]
  /\ heap_size' = heap_size + 1
  /\ pc' = "up"
  /\ op' = "accept"
  /\ cur' = c
  /\ idx' = heap_size
  /\ UNCHANGED now

\* Mutant: connection_unregister forgets to decrement heap_size.
connection_close_same_size(c, why) ==
  /\ LET last == lotos_connections[heap_size - 1]
     IN /\ lotos_connections' = [lotos_connections EXCEPT ![heap_idx[c]] = last]
        /\ heap_idx' = [heap_idx EXCEPT ![last] = heap_idx[c]]
  /\ pc' = "down" /\ op' = why /\ cur' = c /\ idx' = heap_idx[c]
  /\ UNCHANGED <<heap_size, active_time, conns, now>>

\* connection_unregister moves the last entry into the place of c and lets it
\* sink; connection_free follows when the loop ends.
connection_close(c, why) ==
  /\ LET last == lotos_connections[heap_size - 1]
     IN /\ lotos_connections' = [lotos_connections EXCEPT ![heap_idx[c]] = last]
        /\ heap_idx' = [heap_idx EXCEPT ![last] = heap_idx[c]]
  /\ heap_size' = heap_size - 1
  /\ pc' = "down"
  /\ op' = why
  /\ cur' = c
  /\ idx' = heap_idx[c]
  /\ UNCHANGED <<active_time, conns, now>>

\* The rest of connection_accept: lotos_epoll_add succeeds ...
accept_returns ==
  /\ pc = "epoll_add"
  /\ pc' = "idle"
  /\ op' = "none"
  /\ UNCHANGED <<heapVars, active_time, conns, now, cur, idx>>

\* ... or fails, and the new connection is closed.
accept_aborts ==
  /\ pc = "epoll_add"
  /\ connection_close(cur, "abort")

\* The event loop marks any open connection, also one whose time ran out
\* while its event was handled.
connecion_set_reactivated(c) ==
  /\ pc = "idle"
  /\ c \in conns
  /\ active_time' = [active_time EXCEPT ![c] = now]
  /\ pc' = "down"
  /\ op' = "reactivate"
  /\ cur' = c
  /\ idx' = heap_idx[c]
  /\ UNCHANGED <<heapVars, conns, now>>

\* Mutant: the "very old time" lies before the Epoch.
connecion_set_expired_negative(c) ==
  /\ pc = "idle"
  /\ c \in conns
  /\ active_time' = [active_time EXCEPT ![c] = -1]
  /\ pc' = "up" /\ op' = "expire" /\ cur' = c /\ idx' = heap_idx[c]
  /\ UNCHANGED <<heapVars, conns, now>>

connecion_set_expired(c) ==
  /\ pc = "idle"
  /\ c \in conns
  /\ active_time' = [active_time EXCEPT ![c] = 0]
  /\ pc' = "up"
  /\ op' = "expire"
  /\ cur' = c
  /\ idx' = heap_idx[c]
  /\ UNCHANGED <<heapVars, conns, now>>

connection_prune ==
  /\ pc = "idle"
  /\ pc' = "prune"
  /\ op' = "prune"
  /\ UNCHANGED <<heapVars, active_time, conns, now, cur, idx>>

\* Mutant: connection_prune uses the strict comparison of connecion_is_expired.
TopIsDue_strict == heap_size > 0 /\ now - TimeAt(0) > Timeout

\* The loop of connection_prune looks at the top of the heap only.
TopIsDue == heap_size > 0 /\ now - TimeAt(0) >= Timeout

prune_closes_top ==
  /\ pc = "prune"
  /\ TopIsDue
  /\ connection_close(lotos_connections[0], "prune")

prune_returns ==
  /\ pc = "prune"
  /\ ~TopIsDue
  /\ pc' = "idle"
  /\ op' = "none"
  /\ UNCHANGED <<heapVars, active_time, conns, now, cur, idx>>

-----------------------------------------------------------------------------
Next ==
  \/ Tick
  \/ heap_bubble_up
  \/ heap_bubble_up_ends
  \/ heap_bubble_down
  \/ heap_bubble_down_ends
  \/ accept_returns
  \/ accept_aborts
  \/ connection_prune
  \/ prune_closes_top
  \/ prune_returns
  \/ \E c \in Conns :
        \/ connection_accept(c)
        \/ connecion_set_reactivated(c)
        \/ connecion_set_expired(c)

Spec == Init /\ [][Next]_vars

-----------------------------------------------------------------------------
\* The connections in the heap.
Entries == {lotos_connections[i] : i \in 0 .. heap_size - 1}

TypeOK ==
  /\ lotos_connections \in [Slots -> Conns \cup {NoConn}]
  /\ heap_size \in 0 .. MaxConnection
  /\ heap_idx \in [Conns -> Slots]
  /\ active_time \in [Conns -> Nat]
  /\ conns \subseteq Conns
  /\ now \in Nat
  /\ pc \in {"idle", "up", "down", "epoll_add", "prune"}
  /\ op \in {"none", "accept", "abort", "reactivate", "expire", "prune"}
  /\ cur \in Conns \cup {NoConn}
  /\ idx \in Slots

\* heap_idx of a connection in the heap is its slot: connection_unregister,
\* connecion_set_reactivated and connecion_set_expired find it there, however
\* many swaps moved it since it was registered.
HeapIndexed ==
  \A i \in 0 .. heap_size - 1 :
    /\ lotos_connections[i] \in Conns
    /\ heap_idx[lotos_connections[i]] = i

\* Exactly the open connections are in the heap, so each is subject to the
\* timeout and no slot refers to a block that connection_free returned.
HeapHoldsOpen ==
  Entries = IF pc = "down" /\ op \in {"abort", "prune"} THEN conns \ {cur}
                                                        ELSE conns

\* While a block is free the array has a free slot: connection_register never
\* fails, and connection_accept never closes a connection it did not register
\* (connection_unregister would then use a heap_idx that was never set).
HeapHasRoom == pc = "idle" /\ conns # Conns => heap_size < MaxConnection

\* The comment on lotos_connections: between operations the array is a binary
\* min-heap by active_time.
MinHeap ==
  pc \notin {"up", "down"} =>
    \A i \in 1 .. heap_size - 1 : TimeAt(PARENT(i)) =< TimeAt(i)

\* What makes MinHeap inductive: while an entry travels, the order fails at
\* most between idx and its parent (up) or its children (down), and what lies
\* below idx is not smaller than what lies above it.
OrderAround(i) ==
  PARENT(i) = idx /\ idx > 0 => TimeAt(PARENT(idx)) =< TimeAt(i)

OrderUp ==
  pc = "up" =>
    \A i \in 1 .. heap_size - 1 :
      /\ i # idx => TimeAt(PARENT(i)) =< TimeAt(i)
      /\ OrderAround(i)

OrderDown ==
  pc = "down" =>
    \A i \in 1 .. heap_size - 1 :
      /\ PARENT(i) # idx => TimeAt(PARENT(i)) =< TimeAt(i)
      /\ OrderAround(i)

\* A connection being accepted is the youngest and stays in the last slot, so
\* taking it out again when lotos_epoll_add fails needs no reordering upwards:
\* connection_unregister only ever sinks the entry it moves.
FreshIsLast ==
  op = "accept" =>
    /\ heap_size > 0
    /\ lotos_connections[heap_size - 1] = cur
    /\ pc = "up" => idx = heap_size - 1
    /\ \A i \in 0 .. heap_size - 1 : TimeAt(i) =< active_time[cur]

\* No connection is from the future.
TimesArePast == \A c \in Conns : active_time[c] =< now

\* How far each operation is: the control states the worker can be in.
ControlOK ==
  /\ pc = "idle" => op \notin {"accept", "prune"}
  /\ pc = "up" => op \in {"accept", "expire"} /\ idx < heap_size
  /\ pc = "down" => op \in {"abort", "reactivate", "prune"}
  /\ pc = "epoll_add" => op = "accept"
  /\ pc = "prune" => op = "prune"
  /\ op = "accept" => cur \in conns

\* The inductive invariant of the operations under a clock that only advances.
HeapInvariant ==
  /\ MinHeap
  /\ OrderUp
  /\ OrderDown
  /\ FreshIsLast
  /\ TimesArePast

-----------------------------------------------------------------------------
\* connection.c implements the table of timed connections: connection_prune
\* closes only connections whose time is up, oldest first, and leaves none of
\* them; accepting, reactivating and expiring touch one connection only.
Table == INSTANCE ConnTable WITH
  registered <- Entries,
  fresh <- IF op = "accept" THEN cur ELSE NoConn,
  pruning <- op = "prune"

ImplementsTable == Table!Spec
=============================================================================
