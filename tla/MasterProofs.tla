---------------------------- MODULE MasterProofs ----------------------------
(***************************************************************************)
(* Master for every set of processes and every number of workers.  The     *)
(* counter that the children inherit is the whole argument: only the first *)
(* process is ever in the loop, its counter is the number of its children, *)
(* and a single worker is therefore the only process that binds the port.  *)
(***************************************************************************)
EXTENDS Master, TLAPS, FiniteSetTheorems

States == {"unborn", "loop", "setup", "init", "serving", "allocating", "stuck"} \cup Dead

\* What a process that has bound the port may be doing.
Bound == {"serving", "allocating", "stuck"}

\* The types, and which process can be where: children never enter the loop,
\* with -d the first process never does, without -d it never leaves it alive.
ProcsOK ==
  /\ worker \in Int /\ debug \in BOOLEAN
  /\ pc \in [Procs -> States]
  /\ nworker \in [Procs -> Nat]
  /\ parent \in [Procs -> {First, NoProc}]
  /\ \A p \in Procs \ {First} : pc[p] # "loop" /\ (pc[p] = "unborn" <=> parent[p] = NoProc)
  /\ pc[First] # "unborn" /\ parent[First] = NoProc
  /\ debug => pc[First] # "loop" /\ Children(First) = {}
  /\ ~debug => pc[First] \in {"loop", "killed"}

\* The counter of the first process is the number of its children.
Counted ==
  /\ IsFiniteSet(Children(First))
  /\ Cardinality(Children(First)) = nworker[First]
  /\ nworker[First] = 0 \/ nworker[First] =< worker

\* A single worker has no sibling; only processes past bind hold the port.
PortOK ==
  /\ worker =< 1 => \A p, q \in Children(First) : p = q
  /\ listening \subseteq {p \in Procs : pc[p] \in Bound}
  /\ PortIsShared

MasterInv == ProcsOK /\ Counted /\ PortOK

-----------------------------------------------------------------------------
\* The default action, or sigint_handler: the process ends or hangs, and in the
\* loop it ends.
LEMMA OutcomeEnds ==
  ASSUME NEW p \in Procs, NEW to \in Outcome(p)
  PROVE  /\ to \in {"killed", "exited", "stuck"}
         /\ pc[p] = "loop" => to = "killed"
<1>1. CASE pc[p] \in {"loop", "setup"}
  BY <1>1 DEF Outcome
<1>2. CASE pc[p] \in {"init", "allocating"}
  BY <1>2 DEF Outcome
<1>3. CASE pc[p] = "stuck"
  BY <1>3 DEF Outcome
<1>4. CASE pc[p] \notin {"loop", "setup", "init", "allocating", "stuck"}
  BY <1>4 DEF Outcome
<1> QED BY <1>1, <1>2, <1>3, <1>4

\* A step of one process that forks nobody: it leaves the tree of processes
\* alone, and the port unless it binds it.
LEMMA GoesKeeps ==
  ASSUME MasterInv, NEW p \in Procs, NEW to \in States \ {"unborn", "loop"},
         pc[p] # "unborn",
         ~debug /\ p = First => to = "killed",
         to # "refused",
         pc' = [pc EXCEPT ![p] = to],
         listening' \subseteq listening \cup {p},
         p \in listening' => to \in Bound,
         UNCHANGED <<worker, debug, nworker, parent>>
  PROVE  MasterInv'
<1>1. Children(First)' = Children(First)
  BY DEF Children
<1>2. ProcsOK'
  BY <1>1, MasterAssumption DEF MasterInv, ProcsOK, States
<1>3. Counted'
  BY <1>1 DEF MasterInv, Counted
<1>4. PortOK'
  BY <1>1 DEF MasterInv, ProcsOK, PortOK, PortIsShared
<1> QED BY <1>2, <1>3, <1>4 DEF MasterInv

LEMMA MasterInit == Init => MasterInv
<1> SUFFICES ASSUME Init PROVE MasterInv
  OBVIOUS
<1>1. Children(First) = {}
  BY MasterAssumption DEF Init, Children
<1>2. ProcsOK
  BY <1>1, MasterAssumption DEF Init, ProcsOK, States, Dead
<1>3. Counted
  BY <1>1, FS_EmptySet, MasterAssumption DEF Init, Counted
<1>4. PortOK
  BY <1>1 DEF Init, PortOK, PortIsShared
<1> QED BY <1>2, <1>3, <1>4 DEF MasterInv

\* fork adds one child to the first process, which counts it.
LEMMA ForkCounts ==
  ASSUME MasterInv, NEW p \in Procs, NEW c \in Procs, fork(p, c)
  PROVE  MasterInv'
<1>1. /\ p = First /\ c # First /\ parent[c] = NoProc /\ ~debug /\ pc[c] = "unborn"
      /\ pc[First] = "loop"
      /\ nworker[First] < worker
      /\ worker' = worker /\ debug' = debug /\ listening' = listening
  BY DEF MasterInv, ProcsOK, fork
<1>2. /\ pc' = [pc EXCEPT ![c] = "setup"]
      /\ parent' = [parent EXCEPT ![c] = First]
      /\ nworker' = [nworker EXCEPT ![First] = nworker[First] + 1, ![c] = nworker[First]]
  BY <1>1 DEF fork, ChildStarts, MasterInv, ProcsOK
<1>3. c \notin Children(First) /\ Children(First)' = Children(First) \cup {c}
  BY <1>1, <1>2, MasterAssumption DEF Children, MasterInv, ProcsOK
<1>4. nworker'[First] = nworker[First] + 1 /\ nworker' \in [Procs -> Nat]
  BY <1>1, <1>2, MasterAssumption DEF MasterInv, ProcsOK
<1>5. ProcsOK'
  BY <1>1, <1>2, <1>4, MasterAssumption DEF MasterInv, ProcsOK, States
<1>6. Counted'
  <2>1. /\ IsFiniteSet(Children(First))
        /\ Cardinality(Children(First)) = nworker[First]
    BY DEF MasterInv, Counted
  <2>2. /\ IsFiniteSet(Children(First) \cup {c})
        /\ Cardinality(Children(First) \cup {c}) = Cardinality(Children(First)) + 1
    BY <1>3, <2>1, FS_AddElement
  <2>3. nworker[First] + 1 =< worker
    BY <1>1, MasterAssumption DEF MasterInv, ProcsOK
  <2> QED BY <1>1, <1>3, <1>4, <2>1, <2>2, <2>3 DEF Counted
<1>7. PortOK'
  <2>1. ASSUME worker =< 1 PROVE Children(First) = {}
    <3>1. nworker[First] = 0
      BY <1>1, <2>1, MasterAssumption DEF MasterInv, ProcsOK
    <3> QED BY <3>1, FS_EmptySet DEF MasterInv, Counted
  <2>2. listening \subseteq {q \in Procs : pc[q] \in Bound} /\ PortIsShared
    BY DEF MasterInv, PortOK
  <2>3. \A q \in Procs : pc'[q] = IF q = c THEN "setup" ELSE pc[q]
    BY <1>2 DEF MasterInv, ProcsOK
  <2>4. listening' \subseteq {q \in Procs : pc'[q] \in Bound} /\ PortIsShared'
    BY <1>1, <2>2, <2>3 DEF Bound, PortIsShared
  <2> QED BY <1>1, <1>3, <2>1, <2>4 DEF PortOK
<1> QED BY <1>5, <1>6, <1>7 DEF MasterInv

\* A process that comes to bind the port finds it free or may share it: the one
\* that has it would be a sibling, or the first process beside its child.
LEMMA BindSucceeds ==
  ASSUME MasterInv, NEW p \in Procs, pc[p] = "init"
  PROVE  ReusePort \/ listening = {}
<1> SUFFICES ASSUME worker =< 1, NEW q \in listening PROVE FALSE
  BY DEF ReusePort, MasterInv, ProcsOK
<1>1. q \in Procs /\ pc[q] \in Bound /\ q # p
  BY DEF MasterInv, PortOK, Bound
<1>2. CASE debug
  BY <1>1, <1>2, MasterAssumption DEF MasterInv, ProcsOK, Children, Bound
<1>3. CASE ~debug
  <2>1. p # First /\ q # First
    BY <1>1, <1>3 DEF MasterInv, ProcsOK, Bound
  <2>2. p \in Children(First) /\ q \in Children(First)
    BY <1>1, <2>1, MasterAssumption DEF MasterInv, ProcsOK, Bound, Children
  <2> QED BY <1>1, <2>2 DEF MasterInv, PortOK
<1> QED BY <1>2, <1>3 DEF MasterInv, ProcsOK

LEMMA MasterNextInv == MasterInv /\ [Next]_vars => MasterInv'
<1> SUFFICES ASSUME MasterInv, [Next]_vars PROVE MasterInv'
  OBVIOUS
<1>1. ASSUME NEW p \in Procs, pc[p] # "unborn",
             NEW to \in States \ {"unborn", "loop", "refused"},
             ~debug /\ p = First => to = "killed",
             p \in listening => to \in Bound \cup Dead,
             Goes(p, to)
      PROVE  MasterInv'
  <2>1. /\ pc' = [pc EXCEPT ![p] = to]
        /\ UNCHANGED <<worker, debug, nworker, parent>>
        /\ listening' = IF to \in Dead THEN listening \ {p} ELSE listening
    BY <1>1 DEF Goes
  <2> QED BY <1>1, <2>1, GoesKeeps
<1>2. ASSUME NEW p \in Procs, ProcNext(p) PROVE MasterInv'
  <2> USE <1>2 DEF MasterInv, ProcsOK
  <2>1. ASSUME NEW c \in Procs, fork(p, c) PROVE MasterInv'
    BY <2>1, ForkCounts
  <2>2. CASE fork_fails(p) \/ waitpid(p)
    BY <1>1, <2>2 DEF fork_fails, waitpid, States, Dead
  <2>3. CASE setup_signals(p)
    <3>1. pc[p] = "setup" /\ p \notin listening /\ Goes(p, "init")
      BY <2>3 DEF setup_signals, PortOK, Bound
    <3> QED BY <1>1, <3>1 DEF States
  <2>4. CASE make_server_socket(p)
    <3>1. ReusePort \/ listening = {}
      BY <2>4, BindSucceeds DEF make_server_socket
    <3>2. /\ pc[p] = "init"
          /\ pc' = [pc EXCEPT ![p] = "serving"]
          /\ listening' = listening \cup {p}
          /\ UNCHANGED <<worker, debug, nworker, parent>>
      BY <2>4, <3>1 DEF make_server_socket
    <3>3. "serving" \in Bound /\ "serving" \in States \ {"unborn", "loop"}
      BY DEF Bound, States
    <3>4. ~(~debug /\ p = First)
      BY <3>2
    <3> QED BY <3>2, <3>3, <3>4, GoesKeeps
  <2>5. CASE setup_fails(p) \/ worker_crashes(p)
    BY <1>1, <2>5 DEF setup_fails, worker_crashes, States, Dead
  <2>6. CASE allocates(p) \/ allocated(p)
    BY <1>1, <2>6 DEF allocates, allocated, States, Bound
  <2>7. CASE sigint(p)
    <3>1. PICK to \in Outcome(p) : Goes(p, to)
      BY <2>7 DEF sigint
    <3>2. to \in {"killed", "exited", "stuck"} /\ (pc[p] = "loop" => to = "killed")
      BY OutcomeEnds
    <3>3. pc[p] \notin Dead \cup {"unborn"}
      BY <2>7 DEF sigint, Alive
    <3> QED BY <1>1, <3>1, <3>2, <3>3 DEF States, Bound, Dead
  <2> QED BY <2>1, <2>2, <2>3, <2>4, <2>5, <2>6, <2>7 DEF ProcNext, MasterNext
<1>3. CASE ctrl_c \/ UNCHANGED vars
  <2>1. UNCHANGED <<worker, debug, pc, nworker, parent, listening>>
    BY <1>3 DEF ctrl_c, vars
  <2>2. Children(First)' = Children(First)
    BY <2>1 DEF Children
  <2> QED BY <2>1, <2>2 DEF MasterInv, ProcsOK, Counted, PortOK, PortIsShared
<1> QED BY <1>2, <1>3 DEF Next

LEMMA MasterInvAlways == Spec => []MasterInv
BY MasterInit, MasterNextInv, PTL DEF Spec

-----------------------------------------------------------------------------
\* However many workers are asked for and whatever dies or is interrupted on the
\* way, main forks at most that many, and no worker forks.
THEOREM MasterForksBounded == Spec => []ForksBounded
<1>1. MasterInv => ForksBounded
  <2> SUFFICES ASSUME MasterInv PROVE ForksBounded
    OBVIOUS
  <2>1. \A p \in Procs : parent[p] \in {First, NoProc}
    BY DEF MasterInv, ProcsOK
  <2>2. worker >= 0 => Cardinality(Children(First)) =< worker
    BY MasterAssumption DEF MasterInv, ProcsOK, Counted
  <2> QED BY <2>1, <2>2 DEF ForksBounded
<1> QED BY <1>1, MasterInvAlways, PTL

\* SO_REUSEPORT is set whenever two processes of one master could bind the port:
\* none of them aborts because another one has it.
THEOREM MasterPortIsShared == Spec => []PortIsShared
<1>1. MasterInv => PortIsShared
  BY DEF MasterInv, PortOK
<1> QED BY <1>1, MasterInvAlways, PTL
=============================================================================
