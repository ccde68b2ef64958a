----------------------------- MODULE ConnTable -----------------------------
(***************************************************************************)
(* What connection.c promises the event loop, with no heap in sight: a set *)
(* of registered connections, each with the time of its last activity.     *)
(* DESIGN.md 0x04 states the promise: every connection is registered, its  *)
(* time moves on activity, a failed connection gets a very old time, and   *)
(* one pass of connection_prune closes exactly the connections whose time  *)
(* is up, oldest first.  ConnHeap implements this specification.           *)
(***************************************************************************)
EXTENDS Integers

CONSTANTS
  Conns,      \* the connection_t blocks of the pool
  Timeout,    \* server_config.timeout
  StartTime,  \* time(NULL) when the worker starts
  MaxTime,    \* the clock stops here
  NoConn      \* "no connection"

VARIABLES
  registered,   \* connections subject to the timeout
  active_time,  \* time of the last activity of each connection
  now,          \* time(NULL)
  fresh,        \* connection whose accept is not complete, or NoConn
  pruning       \* a pass of connection_prune is under way

vars == <<registered, active_time, now, fresh, pruning>>

Quiet == fresh = NoConn /\ ~pruning

Init ==
  /\ registered = {}
  /\ active_time = [c \in Conns |-> 0]
  /\ now = StartTime
  /\ fresh = NoConn
  /\ pruning = FALSE

Tick ==
  /\ now < MaxTime
  /\ now' = now + 1
  /\ UNCHANGED <<registered, active_time, fresh, pruning>>

Accept(c) ==
  /\ Quiet
  /\ c \notin registered
  /\ registered' = registered \cup {c}
  /\ active_time' = [active_time EXCEPT ![c] = now]
  /\ fresh' = c
  /\ UNCHANGED <<now, pruning>>

AcceptSucceeds ==
  /\ fresh # NoConn
  /\ fresh' = NoConn
  /\ UNCHANGED <<registered, active_time, now, pruning>>

AcceptFails ==
  /\ fresh # NoConn
  /\ registered' = registered \ {fresh}
  /\ fresh' = NoConn
  /\ UNCHANGED <<active_time, now, pruning>>

Reactivate(c) ==
  /\ Quiet
  /\ c \in registered
  /\ active_time' = [active_time EXCEPT ![c] = now]
  /\ UNCHANGED <<registered, now, fresh, pruning>>

Expire(c) ==
  /\ Quiet
  /\ c \in registered
  /\ active_time' = [active_time EXCEPT ![c] = 0]
  /\ UNCHANGED <<registered, now, fresh, pruning>>

StartPrune ==
  /\ Quiet
  /\ pruning' = TRUE
  /\ UNCHANGED <<registered, active_time, now, fresh>>

\* Only a connection whose time is up is closed, and the oldest goes first.
PruneOldest(c) ==
  /\ pruning
  /\ c \in registered
  /\ now - active_time[c] >= Timeout
  /\ \A d \in registered : active_time[c] =< active_time[d]
  /\ registered' = registered \ {c}
  /\ UNCHANGED <<active_time, now, fresh, pruning>>

\* A pass ends only when no registered connection has its time up.
EndPrune ==
  /\ pruning
  /\ \A c \in registered : now - active_time[c] < Timeout
  /\ pruning' = FALSE
  /\ UNCHANGED <<registered, active_time, now, fresh>>

Next ==
  \/ Tick
  \/ AcceptSucceeds
  \/ AcceptFails
  \/ StartPrune
  \/ EndPrune
  \/ \E c \in Conns :
        \/ Accept(c)
        \/ Reactivate(c)
        \/ Expire(c)
        \/ PruneOldest(c)

Spec == Init /\ [][Next]_vars
=============================================================================
