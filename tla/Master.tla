------------------------------- MODULE Master -------------------------------
(***************************************************************************)
(* The processes of lotos: main.c up to the event loop, server_setup and   *)
(* sigint_handler.  The first process forks the workers, waits for one of  *)
(* them to end and ends itself; with -d it is the only worker.  Ctrl-C     *)
(* sends SIGINT to all of them.                                            *)
(*                                                                         *)
(* sigint_handler frees memory.  When the signal interrupts the allocator, *)
(* this is undefined: the process ends or hangs.  The handler's own        *)
(* kill(-getpid(), SIGINT) reaches no other process, as a worker does not  *)
(* lead a process group.                                                   *)
(***************************************************************************)
EXTENDS Integers, FiniteSets

CONSTANTS
  Procs,   \* process ids
  First,   \* the process that the shell starts
  Workers, \* values of server_config.worker
  NoProc

ASSUME MasterAssumption ==
  First \in Procs /\ NoProc \notin Procs /\ Workers \subseteq Int

VARIABLES
  worker,      \* server_config.worker
  debug,       \* server_config.debug
  pc,          \* what each process is doing
  nworker,     \* its nworker
  parent,      \* the process that forked it
  listening,   \* processes whose listen_fd is bound to the port
  pending,     \* processes to which SIGINT is on its way
  interrupted  \* Ctrl-C was pressed

vars == <<worker, debug, pc, nworker, parent, listening, pending, interrupted>>

\* refused: aborted because the port is taken; killed: by a signal or abort.
Dead  == {"refused", "killed", "exited"}
Alive == {p \in Procs : pc[p] \notin Dead \cup {"unborn"}}
Children(p) == {c \in Procs : parent[c] = p}

Init ==
  /\ worker \in Workers
  /\ debug \in BOOLEAN
  /\ pc = [p \in Procs |-> IF p # First THEN "unborn"
                           ELSE IF debug THEN "setup" ELSE "loop"]
  /\ nworker = [p \in Procs |-> 0]
  /\ parent = [p \in Procs |-> NoProc]
  /\ listening = {}
  /\ pending = {}
  /\ interrupted = FALSE

Goes(p, to) ==
  /\ pc' = [pc EXCEPT ![p] = to]
  /\ listening' = IF to \in Dead THEN listening \ {p} ELSE listening
  /\ UNCHANGED <<worker, debug, nworker, parent, interrupted>>

-----------------------------------------------------------------------------
(* main.                                                                   *)

\* Mutated forms, here and below, are plausible mistakes in the definition that
\* follows them.  No specification uses them: they show that the properties
\* notice the mistake.

\* Mutant: the child goes on in the loop.
ChildStarts_in_loop == "loop"

\* The child leaves the loop for server_setup.
ChildStarts == "setup"

\* A process with a pending signal does not fork: the signal comes first.
fork(p, c) ==
  /\ pc[p] = "loop" /\ nworker[p] < worker
  /\ p \notin pending
  /\ pc[c] = "unborn"
  /\ pc' = [pc EXCEPT ![c] = ChildStarts]
  /\ parent' = [parent EXCEPT ![c] = p]
  /\ nworker' = [nworker EXCEPT ![p] = @ + 1, ![c] = nworker[p]]
  /\ UNCHANGED <<worker, debug, listening, pending, interrupted>>

fork_fails(p) ==
  /\ pc[p] = "loop" /\ nworker[p] < worker
  /\ Goes(p, "killed")
  /\ UNCHANGED pending

\* Mutant: the master waits for all its children, as the comment there says.
WaitEnds_all(p) == \A c \in Children(p) : pc[c] \in Dead

\* waitpid(-1) returns: a child has ended, or there is none (status is then not
\* set, and both branches do the same).
WaitEnds(p) == Children(p) = {} \/ \E c \in Children(p) : pc[c] \in Dead

\* raise(SIGINT) has the default action in this process.
waitpid(p) ==
  /\ pc[p] = "loop" /\ nworker[p] >= worker
  /\ WaitEnds(p)
  /\ Goes(p, "killed")
  /\ UNCHANGED pending

-----------------------------------------------------------------------------
(* server_setup and the event loop.                                        *)

setup_signals(p) ==
  /\ pc[p] = "setup"
  /\ Goes(p, "init")
  /\ UNCHANGED pending

\* Mutant: SO_REUSEPORT is set for more than two workers.
ReusePort_off_by_one == worker > 2

\* SO_REUSEPORT lets every worker bind the port.
ReusePort == worker > 1

make_server_socket(p) ==
  /\ pc[p] = "init"
  /\ IF ReusePort \/ listening = {}
       THEN /\ pc' = [pc EXCEPT ![p] = "serving"]
            /\ listening' = listening \cup {p}
            /\ UNCHANGED <<worker, debug, nworker, parent, interrupted>>
       ELSE Goes(p, "refused")
  /\ UNCHANGED pending

\* One of the ABORT_ON of server_setup, for another reason.
setup_fails(p) ==
  /\ pc[p] = "init"
  /\ Goes(p, "killed")
  /\ UNCHANGED pending

\* The event loop is in malloc, realloc or free, and is back.
allocates(p) ==
  /\ pc[p] = "serving"
  /\ Goes(p, "allocating")
  /\ UNCHANGED pending

allocated(p) ==
  /\ pc[p] = "allocating"
  /\ Goes(p, "serving")
  /\ UNCHANGED pending

worker_crashes(p) ==
  /\ pc[p] \in {"serving", "allocating"}
  /\ Goes(p, "killed")
  /\ UNCHANGED pending

-----------------------------------------------------------------------------
(* SIGINT.                                                                 *)

\* The terminal signals the group while the first process is in front.
ctrl_c ==
  /\ First \in Alive
  /\ pending' = Alive
  /\ interrupted' = TRUE
  /\ UNCHANGED <<worker, debug, pc, nworker, parent, listening>>

\* Mutant: the handler returns to the event loop.
Outcome_returns(p) == IF pc[p] \in {"loop", "setup"} THEN {"killed"} ELSE {"serving"}

\* What SIGINT does to p: the default action, or sigint_handler.
Outcome(p) ==
  CASE pc[p] \in {"loop", "setup"} -> {"killed"}
    [] pc[p] \in {"init", "allocating"} -> {"exited", "stuck"}
    [] pc[p] = "stuck" -> {"stuck"}
    [] OTHER -> {"exited"}

sigint(p) ==
  /\ p \in pending \cap Alive
  /\ \E to \in Outcome(p) : Goes(p, to)
  /\ pending' = pending \ {p}

-----------------------------------------------------------------------------
MasterNext(p) == (\E c \in Procs : fork(p, c)) \/ fork_fails(p) \/ waitpid(p)

ProcNext(p) ==
  \/ MasterNext(p)
  \/ setup_signals(p)
  \/ make_server_socket(p)
  \/ setup_fails(p)
  \/ allocates(p)
  \/ allocated(p)
  \/ worker_crashes(p)
  \/ sigint(p)

Next == ctrl_c \/ \E p \in Procs : ProcNext(p)

Spec == Init /\ [][Next]_vars

\* Every process runs while it is not blocked, and a signal is delivered.
FairSpec ==
  /\ Spec
  /\ \A p \in Procs : WF_vars(MasterNext(p)) /\ WF_vars(sigint(p))

-----------------------------------------------------------------------------
\* Only the first process forks, and no more than it was told to: a child leaves
\* the loop whose counter it has inherited.
ForksBounded ==
  /\ \A p \in Procs : parent[p] \in {First, NoProc}
  /\ worker >= 0 => Cardinality(Children(First)) =< worker

\* The workers of one master do not take the port from each other, whatever the
\* order in which they come to bind it.
PortIsShared == \A p \in Procs : pc[p] # "refused"

\* Ctrl-C ends every process, whatever each is doing and however many have been
\* forked; only one that was in the allocator may hang.
CtrlCStopsAll == interrupted ~> (Alive \subseteq {p \in Procs : pc[p] = "stuck"})

\* The master does not outlive the first worker that ends: it is not left
\* waiting in front of a server that no longer has all its workers.
DeadWorkerEndsMaster ==
  (\E c \in Children(First) : pc[c] \in Dead) ~> (pc[First] \in Dead)
=============================================================================
