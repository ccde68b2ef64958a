----------------------------- MODULE EventLoop ------------------------------
(***************************************************************************)
(* The worker of main.c and server.c with all its connections: epoll_wait  *)
(* fills a batch of events, each event is dispatched, connection_prune     *)
(* ends the round.  The events of a batch carry pointers to connection_t   *)
(* blocks that other code allocates and frees meanwhile.                   *)
(*                                                                         *)
(* connection.c appears as the table it implements (ConnTable, refined by  *)
(* ConnHeap); what happens on one connection, the subject of Exchange, is  *)
(* reduced to its events and to the status its handler returns.            *)
(*                                                                         *)
(* MAX_EVENTS exceeds the number of blocks, so that one call of epoll_wait *)
(* reports every connection on the ready list.                             *)
(***************************************************************************)
EXTENDS Integers, FiniteSets

CONSTANTS
  Conns,       \* the blocks of connection_pool
  Timeout,     \* server_config.timeout
  StartTime,   \* time(NULL) when the worker starts
  MaxTime,     \* bound: the clock stops here
  MaxArrivals, \* bound: clients that connect
  NoConn       \* NULL

ASSUME LoopAssumption ==
  /\ NoConn \notin Conns
  /\ {Timeout, StartTime, MaxTime, MaxArrivals} \subseteq Nat

\* Seconds since the Epoch exceed the timeout, so that the active_time 0 of
\* connecion_set_expired is always "very old".
ASSUME EpochAssumption == Timeout < StartTime

VARIABLES
  registered, active_time, now, fresh, pruning,  \* the table of connections
  arrivals,  \* clients that have connected so far
  backlog,   \* connections in the queue of listen_fd
  ready,     \* connections on the ready list of epoll_fd
  batch,     \* lotos_events[i .. nfds - 1]: the events not yet dispatched
  pc,        \* what the worker is executing
  cur,       \* c of the event loop
  orphaned   \* an accepted socket was neither registered nor closed

tableVars == <<registered, active_time, now, fresh, pruning>>
vars == <<tableVars, arrivals, backlog, ready, batch, pc, cur, orphaned>>

Table == INSTANCE ConnTable

\* The event of listen_fd, whose data.ptr is not a connection.
ListenEvent == NoConn

Init ==
  /\ Table!Init
  /\ arrivals = 0 /\ backlog = 0
  /\ ready = {} /\ batch = {}
  /\ pc = "wait" /\ cur = NoConn
  /\ orphaned = FALSE

-----------------------------------------------------------------------------
(* The environment.                                                        *)

tick ==
  /\ Table!Tick
  /\ UNCHANGED <<arrivals, backlog, ready, batch, pc, cur, orphaned>>

client_connects ==
  /\ arrivals < MaxArrivals
  /\ arrivals' = arrivals + 1
  /\ backlog' = backlog + 1
  /\ UNCHANGED <<tableVars, ready, batch, pc, cur, orphaned>>

\* Data, space, a shutdown or a reset on a socket epoll watches.
socket_is_ready(c) ==
  /\ c \in registered \ {fresh}
  /\ ready' = ready \cup {c}
  /\ UNCHANGED <<tableVars, arrivals, backlog, batch, pc, cur, orphaned>>

-----------------------------------------------------------------------------
(* The worker.                                                             *)

\* Mutated forms, here and below, are plausible mistakes in the definition that
\* follows them.  No specification uses them: they show that the properties
\* notice the mistake.

\* Mutant: the listening socket is looked at only when no connection is ready.
lotos_epoll_wait_listens_last ==
  /\ pc = "wait"
  /\ batch' = IF ready # {} THEN ready
              ELSE IF backlog > 0 THEN {ListenEvent} ELSE {}
  /\ ready' = {}
  /\ pc' = "dispatch"
  /\ UNCHANGED <<tableVars, arrivals, backlog, cur, orphaned>>

\* listen_fd is level-triggered, the connections are edge-triggered.
lotos_epoll_wait ==
  /\ pc = "wait"
  /\ batch' = ready \cup (IF backlog > 0 THEN {ListenEvent} ELSE {})
  /\ ready' = {}
  /\ pc' = "dispatch"
  /\ UNCHANGED <<tableVars, arrivals, backlog, cur, orphaned>>

\* A signal ends epoll_wait (EINTR, nfds = -1): the round has no event.
lotos_epoll_wait_interrupted ==
  /\ pc = "wait"
  /\ pc' = "dispatch"
  /\ UNCHANGED <<tableVars, arrivals, backlog, ready, batch, cur, orphaned>>

connecion_is_expired(c) == now - active_time[c] > Timeout

dispatch(e) ==
  /\ pc = "dispatch"
  /\ e \in batch
  /\ batch' = batch \ {e}
  /\ IF e = ListenEvent
       THEN pc' = "accept" /\ UNCHANGED cur
       ELSE /\ cur' = e
            /\ pc' = IF connecion_is_expired(e) THEN "dispatch" ELSE "handle"
  /\ UNCHANGED <<tableVars, arrivals, backlog, ready, orphaned>>

\* request_handle or response_handle returned OK or AGAIN ...
handled ==
  /\ pc = "handle"
  /\ Table!Reactivate(cur)
  /\ pc' = "dispatch"
  /\ UNCHANGED <<arrivals, backlog, ready, batch, cur, orphaned>>

\* ... or ERROR.
handler_fails ==
  /\ pc = "handle"
  /\ Table!Expire(cur)
  /\ pc' = "dispatch"
  /\ UNCHANGED <<arrivals, backlog, ready, batch, cur, orphaned>>

\* server_accept takes connections until there is none.
server_accept(c) ==
  /\ pc = "accept"
  /\ backlog > 0
  /\ Table!Accept(c)
  /\ backlog' = backlog - 1
  /\ pc' = "epoll_add"
  /\ UNCHANGED <<arrivals, ready, batch, cur, orphaned>>

\* No block is left: connection_accept closes NULL, which does nothing, and
\* forgets the socket.
accept_without_block ==
  /\ pc = "accept"
  /\ backlog > 0
  /\ registered = Conns
  /\ backlog' = backlog - 1
  /\ orphaned' = TRUE
  /\ UNCHANGED <<tableVars, arrivals, ready, batch, pc, cur>>

lotos_epoll_add ==
  /\ pc = "epoll_add"
  /\ Table!AcceptSucceeds
  /\ pc' = "accept"
  /\ UNCHANGED <<arrivals, backlog, ready, batch, cur, orphaned>>

lotos_epoll_add_fails ==
  /\ pc = "epoll_add"
  /\ Table!AcceptFails
  /\ pc' = "accept"
  /\ UNCHANGED <<arrivals, backlog, ready, batch, cur, orphaned>>

server_accept_returns ==
  /\ pc = "accept"
  /\ backlog = 0
  /\ pc' = "dispatch"
  /\ UNCHANGED <<tableVars, arrivals, backlog, ready, batch, cur, orphaned>>

\* Mutant: connection_prune runs inside the loop over the batch.
connection_prune_in_batch ==
  /\ pc = "dispatch"
  /\ Table!StartPrune
  /\ pc' = "prune"
  /\ UNCHANGED <<arrivals, backlog, ready, batch, cur, orphaned>>

\* Mutant: connection_prune is not called.
connection_prune_skipped ==
  /\ pc = "dispatch"
  /\ batch = {}
  /\ pc' = "wait"
  /\ UNCHANGED <<tableVars, arrivals, backlog, ready, batch, cur, orphaned>>

connection_prune ==
  /\ pc = "dispatch"
  /\ batch = {}
  /\ Table!StartPrune
  /\ pc' = "prune"
  /\ UNCHANGED <<arrivals, backlog, ready, batch, cur, orphaned>>

\* connection_close: lotos_epoll_del, close, unregister, free.
connection_close(c) ==
  /\ pc = "prune"
  /\ Table!PruneOldest(c)
  /\ ready' = ready \ {c}
  /\ UNCHANGED <<arrivals, backlog, batch, pc, cur, orphaned>>

\* Mutant: connection_prune returns before the heap is clear of due connections.
prune_returns_early ==
  /\ pc = "prune"
  /\ pruning' = FALSE
  /\ pc' = "wait"
  /\ UNCHANGED <<registered, active_time, now, fresh,
                 arrivals, backlog, ready, batch, cur, orphaned>>

prune_returns ==
  /\ pc = "prune"
  /\ Table!EndPrune
  /\ pc' = "wait"
  /\ UNCHANGED <<arrivals, backlog, ready, batch, cur, orphaned>>

-----------------------------------------------------------------------------
WorkerNext ==
  \/ lotos_epoll_wait
  \/ lotos_epoll_wait_interrupted
  \/ \E e \in Conns \cup {ListenEvent} : dispatch(e)
  \/ handled
  \/ handler_fails
  \/ accept_without_block
  \/ lotos_epoll_add
  \/ lotos_epoll_add_fails
  \/ server_accept_returns
  \/ connection_prune
  \/ prune_returns
  \/ \E c \in Conns : server_accept(c) \/ connection_close(c)

Next ==
  \/ tick
  \/ client_connects
  \/ \E c \in Conns : socket_is_ready(c)
  \/ WorkerNext

Spec == Init /\ [][Next]_vars

\* The worker is never stopped: each of its calls returns, and signals do not
\* interrupt epoll_wait for ever.
FairSpec == Spec /\ WF_vars(WorkerNext) /\ SF_vars(lotos_epoll_wait)

-----------------------------------------------------------------------------
TypeOK ==
  /\ registered \subseteq Conns
  /\ active_time \in [Conns -> Nat]
  /\ now \in Nat
  /\ fresh \in Conns \cup {NoConn}
  /\ pruning \in BOOLEAN
  /\ arrivals \in 0 .. MaxArrivals /\ backlog \in 0 .. MaxArrivals
  /\ ready \subseteq Conns
  /\ batch \subseteq Conns \cup {ListenEvent}
  /\ pc \in {"wait", "dispatch", "handle", "accept", "epoll_add", "prune"}
  /\ cur \in Conns \cup {NoConn}
  /\ orphaned \in BOOLEAN

\* No event refers to a freed connection_t: neither one still in the batch nor
\* one that epoll will report, nor the connection being handled.
NoDanglingEvent ==
  /\ batch \ {ListenEvent} \subseteq registered
  /\ ready \subseteq registered
  /\ pc = "handle" => cur \in registered

\* A failed connection (active_time 0) does not survive the round in which it
\* failed: when the worker waits again it has been closed.
FailedIsGone == pc = "wait" => \A c \in registered : active_time[c] # 0

\* A connection whose time is up is closed or becomes active again.
Due(c) == c \in registered /\ now - active_time[c] >= Timeout
DueIsClosed == \A c \in Conns : Due(c) ~> ~Due(c)

\* Clients that wait to be accepted are: the event of listen_fd is repeated
\* while the queue is not empty, and other events do not hold it up.
BacklogDrains == (backlog > 0) ~> (backlog = 0)
=============================================================================
