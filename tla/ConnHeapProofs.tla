--------------------------- MODULE ConnHeapProofs ---------------------------
(***************************************************************************)
(* Proofs about ConnHeap for every pool, array length, timeout and clock.  *)
(***************************************************************************)
EXTENDS ConnHeap, TLAPS, FiniteSetTheorems, WellFoundedInduction

-----------------------------------------------------------------------------
(***************************************************************************)
(* The tree hidden in the array.  These are the only facts about PARENT    *)
(* that the invariant proofs use.                                          *)
(***************************************************************************)

\* PARENT goes down in the array and is negative at the root only.
LEMMA ParentBelow ==
  ASSUME NEW i \in Nat
  PROVE  /\ PARENT(i) \in Int
         /\ i > 0 => PARENT(i) \in Nat /\ PARENT(i) < i
         /\ i = 0 => PARENT(i) = -1
BY DEF PARENT

\* LCHILD and RCHILD are the inverse of PARENT.
LEMMA ParentOfChild ==
  ASSUME NEW i \in Nat, NEW j \in Nat, j > 0
  PROVE  PARENT(j) = i <=> j = LCHILD(i) \/ j = RCHILD(i)
BY DEF PARENT, LCHILD, RCHILD

LEMMA ChildAbove ==
  ASSUME NEW i \in Nat
  PROVE  /\ LCHILD(i) \in Nat /\ LCHILD(i) > i
         /\ RCHILD(i) \in Nat /\ RCHILD(i) > i
         /\ RCHILD(i) > LCHILD(i)
BY DEF LCHILD, RCHILD

-----------------------------------------------------------------------------
(***************************************************************************)
(* What holds whatever the clock does.                                     *)
(***************************************************************************)

\* The part of the inductive invariant that does not depend on the clock.
StructureInv ==
  /\ TypeOK
  /\ HeapIndexed
  /\ HeapHoldsOpen
  /\ ControlOK

LEMMA StructureInit == Init => StructureInv
<1> SUFFICES ASSUME Init PROVE StructureInv
  OBVIOUS
<1> USE ConstantsAssumption, PoolFitsHeap
<1>1. TypeOK
  BY DEF Init, TypeOK, Slots
<1>2. HeapIndexed /\ HeapHoldsOpen
  BY DEF Init, HeapIndexed, HeapHoldsOpen, Entries
<1>3. ControlOK
  BY DEF Init, ControlOK
<1> QED BY <1>1, <1>2, <1>3 DEF StructureInv

\* c_swap exchanges two entries and keeps each one's heap_idx right.
LEMMA SwapKeeps ==
  ASSUME TypeOK, HeapIndexed,
         NEW x \in 0 .. heap_size - 1, NEW y \in 0 .. heap_size - 1, x # y,
         c_swap(x, y)
  PROVE  /\ lotos_connections' \in [Slots -> Conns \cup {NoConn}]
         /\ heap_idx' \in [Conns -> Slots]
         /\ heap_size' = heap_size
         /\ HeapIndexed'
         /\ Entries' = Entries
         /\ \A i \in 0 .. heap_size - 1 :
              lotos_connections'[i] = CASE i = x -> lotos_connections[y]
                                        [] i = y -> lotos_connections[x]
                                        [] OTHER -> lotos_connections[i]
<1> USE ConstantsAssumption
<1> DEFINE a == lotos_connections[x]
           b == lotos_connections[y]
<1>1. /\ x \in Slots /\ y \in Slots /\ a \in Conns /\ b \in Conns /\ a # b
      /\ heap_idx[a] = x /\ heap_idx[b] = y
  BY DEF TypeOK, HeapIndexed, Slots
<1>2. /\ lotos_connections' \in [Slots -> Conns \cup {NoConn}]
      /\ heap_idx' \in [Conns -> Slots]
      /\ heap_size' = heap_size
  BY <1>1 DEF TypeOK, c_swap
<1>3. \A i \in 0 .. heap_size - 1 :
        lotos_connections'[i] = CASE i = x -> lotos_connections[y]
                                  [] i = y -> lotos_connections[x]
                                  [] OTHER -> lotos_connections[i]
  BY <1>1 DEF TypeOK, c_swap, Slots
<1>4. HeapIndexed'
  <2> SUFFICES ASSUME NEW i \in 0 .. heap_size - 1
               PROVE  /\ lotos_connections'[i] \in Conns
                      /\ heap_idx'[lotos_connections'[i]] = i
    BY <1>2 DEF HeapIndexed
  <2>1. /\ heap_idx'[a] = y /\ heap_idx'[b] = x
        /\ \A c \in Conns \ {a, b} : heap_idx'[c] = heap_idx[c]
    BY <1>1 DEF TypeOK, c_swap
  <2>2. CASE i = x
    BY <1>1, <1>3, <2>1, <2>2
  <2>3. CASE i = y
    BY <1>1, <1>3, <2>1, <2>3
  <2>4. CASE i # x /\ i # y
    <3>1. lotos_connections'[i] = lotos_connections[i]
      BY <1>3, <2>4
    <3>2. lotos_connections[i] \in Conns \ {a, b} /\ heap_idx[lotos_connections[i]] = i
      BY <1>1, <2>4 DEF HeapIndexed
    <3> QED BY <3>1, <3>2, <2>1
  <2> QED BY <2>2, <2>3, <2>4
<1>5. Entries' = Entries
  BY <1>2, <1>3 DEF Entries
<1> QED BY <1>2, <1>3, <1>4, <1>5

\* connection_unregister takes out its connection and nothing else.
LEMMA CloseRemoves ==
  ASSUME TypeOK, HeapIndexed, NEW c \in Entries, NEW why, connection_close(c, why)
  PROVE  /\ c \in Conns /\ heap_size > 0
         /\ heap_idx[c] \in 0 .. heap_size - 1
         /\ lotos_connections[heap_idx[c]] = c
         /\ lotos_connections' \in [Slots -> Conns \cup {NoConn}]
         /\ heap_idx' \in [Conns -> Slots]
         /\ heap_size' = heap_size - 1
         /\ heap_size' \in 0 .. MaxConnection
         /\ HeapIndexed'
         /\ Entries' = Entries \ {c}
         /\ \A i \in 0 .. heap_size' - 1 :
              lotos_connections'[i] = IF i = heap_idx[c]
                                      THEN lotos_connections[heap_size - 1]
                                      ELSE lotos_connections[i]
<1> USE ConstantsAssumption
<1> DEFINE last == lotos_connections[heap_size - 1]
<1>1. /\ heap_size \in Nat /\ heap_size > 0
      /\ c \in Conns
      /\ heap_idx[c] \in 0 .. heap_size - 1
      /\ lotos_connections[heap_idx[c]] = c
  BY DEF TypeOK, HeapIndexed, Entries
<1>2. last \in Conns /\ heap_idx[last] = heap_size - 1
  BY <1>1 DEF HeapIndexed
<1>3. /\ lotos_connections' \in [Slots -> Conns \cup {NoConn}]
      /\ heap_idx' \in [Conns -> Slots]
      /\ heap_size' = heap_size - 1
      /\ heap_size' \in 0 .. MaxConnection
  BY <1>1, <1>2 DEF TypeOK, connection_close
<1>4. \A i \in 0 .. heap_size - 1 :
              lotos_connections'[i] = IF i = heap_idx[c] THEN last
                                      ELSE lotos_connections[i]
  BY <1>1 DEF TypeOK, connection_close, Slots
<1>5. /\ heap_idx'[last] = heap_idx[c]
      /\ \A d \in Conns \ {last} : heap_idx'[d] = heap_idx[d]
  BY <1>2 DEF TypeOK, connection_close
<1>6. HeapIndexed'
  <2> SUFFICES ASSUME NEW i \in 0 .. heap_size - 2
               PROVE  /\ lotos_connections'[i] \in Conns
                      /\ heap_idx'[lotos_connections'[i]] = i
    BY <1>1, <1>3 DEF HeapIndexed
  <2>1. CASE i = heap_idx[c]
    BY <1>1, <1>2, <1>4, <1>5, <2>1
  <2>2. CASE i # heap_idx[c]
    <3>1. lotos_connections'[i] = lotos_connections[i]
      BY <1>1, <1>4, <2>2
    <3>2. lotos_connections[i] \in Conns /\ heap_idx[lotos_connections[i]] = i
      BY <1>1 DEF HeapIndexed
    <3>3. lotos_connections[i] # last
      BY <1>1, <1>2, <3>2
    <3> QED BY <3>1, <3>2, <3>3, <1>5
  <2> QED BY <2>1, <2>2
<1>7. Entries' = Entries \ {c}
  <2>1. ASSUME NEW d \in Entries' PROVE d \in Entries /\ d # c
    <3>1. PICK i \in 0 .. heap_size - 2 : d = lotos_connections'[i]
      BY <1>1, <1>3 DEF Entries
    <3>2. CASE i = heap_idx[c]
      BY <1>1, <1>2, <1>4, <3>1, <3>2 DEF Entries
    <3>3. CASE i # heap_idx[c]
      BY <1>1, <1>4, <3>1, <3>3 DEF Entries, HeapIndexed
    <3> QED BY <3>2, <3>3
  <2>2. ASSUME NEW d \in Entries, d # c PROVE d \in Entries'
    <3>1. PICK i \in 0 .. heap_size - 1 : d = lotos_connections[i]
      BY DEF Entries
    <3>2. CASE i = heap_size - 1
      <4>1. heap_idx[c] \in 0 .. heap_size' - 1
        BY <1>1, <1>3, <2>2, <3>1, <3>2
      <4>2. lotos_connections'[heap_idx[c]] = d
        BY <1>1, <1>4, <3>1, <3>2
      <4> QED BY <4>1, <4>2 DEF Entries
    <3>3. CASE i # heap_size - 1
      <4>1. i \in 0 .. heap_size' - 1 /\ i # heap_idx[c]
        BY <1>1, <1>3, <2>2, <3>1, <3>3
      <4> QED BY <4>1, <1>4, <3>1 DEF Entries
    <3> QED BY <3>2, <3>3
  <2> QED BY <2>1, <2>2
<1> QED BY <1>1, <1>3, <1>4, <1>6, <1>7

LEMMA ProperChildOK ==
  ASSUME TypeOK, NEW i \in Nat, INHEAP(LCHILD(i))
  PROVE  /\ proper_child(i) \in 0 .. heap_size - 1
         /\ proper_child(i) > i
         /\ PARENT(proper_child(i)) = i
<1>1. proper_child(i) \in {LCHILD(i), RCHILD(i)} /\ INHEAP(proper_child(i))
  BY DEF proper_child
<1>2. proper_child(i) \in Nat /\ proper_child(i) > i /\ proper_child(i) < heap_size
  BY <1>1, ChildAbove DEF INHEAP
<1> QED BY <1>1, <1>2, ParentOfChild, ConstantsAssumption DEF TypeOK

\* A loop that ends changes no heap slot and frees at most cur.
LEMMA ReturnKeeps ==
  ASSUME StructureInv, pc \in {"up", "down"}, Return
  PROVE  StructureInv'
<1>1. TypeOK'
  BY DEF Return, StructureInv, TypeOK, heapVars
<1>2. HeapIndexed'
  BY DEF Return, StructureInv, HeapIndexed, heapVars
<1>3. HeapHoldsOpen'
  BY DEF Return, StructureInv, HeapHoldsOpen, Entries, heapVars, ControlOK
<1>4. ControlOK'
  BY DEF Return, StructureInv, ControlOK, heapVars
<1> QED BY <1>1, <1>2, <1>3, <1>4 DEF StructureInv

\* Every operation leaves the heap indexed and holding the open connections.
LEMMA StructureNext == StructureInv /\ [Next]_vars => StructureInv'
<1> SUFFICES ASSUME StructureInv, [Next]_vars PROVE StructureInv'
  OBVIOUS
<1> USE ConstantsAssumption
<1>0. TypeOK /\ HeapIndexed /\ HeapHoldsOpen /\ ControlOK
  BY DEF StructureInv
<1>1. CASE UNCHANGED vars
  BY <1>0, <1>1 DEF vars, heapVars, ctrlVars, StructureInv, TypeOK, HeapIndexed,
                    HeapHoldsOpen, Entries, ControlOK
<1>2. CASE Tick
  <2>1. /\ UNCHANGED <<heapVars, active_time, conns, ctrlVars>>
        /\ now' \in Nat
    BY <1>0, <1>2 DEF Tick, TypeOK
  <2> QED BY <1>0, <2>1 DEF heapVars, ctrlVars, StructureInv, TypeOK,
                    HeapIndexed, HeapHoldsOpen, Entries, ControlOK
<1>3. CASE heap_bubble_up
  <2>1. /\ idx \in 0 .. heap_size - 1
        /\ PARENT(idx) \in 0 .. heap_size - 1
        /\ PARENT(idx) # idx
    <3>1. idx \in Nat /\ heap_size \in Nat /\ idx < heap_size /\ PARENT(idx) >= 0
      BY <1>0, <1>3 DEF heap_bubble_up, RisesAbove, ControlOK, TypeOK, Slots
    <3>2. PARENT(idx) \in Nat /\ PARENT(idx) < idx
      BY <3>1, ParentBelow
    <3> QED BY <3>1, <3>2
  <2>2. c_swap(idx, PARENT(idx))
    BY <1>3 DEF heap_bubble_up
  <2>3. /\ lotos_connections' \in [Slots -> Conns \cup {NoConn}]
        /\ heap_idx' \in [Conns -> Slots]
        /\ heap_size' = heap_size /\ HeapIndexed' /\ Entries' = Entries
    BY <1>0, <2>1, <2>2, SwapKeeps
  <2>4. TypeOK'
    BY <1>0, <1>3, <2>1, <2>3 DEF heap_bubble_up, TypeOK, Slots
  <2>5. HeapHoldsOpen' /\ ControlOK'
    <3>1. /\ pc = "up" /\ pc' = "up" /\ op' = op /\ cur' = cur /\ conns' = conns
          /\ idx' = PARENT(idx)
      BY <1>3 DEF heap_bubble_up
    <3>2. idx' < heap_size'
      BY <1>0, <2>1, <2>3, <3>1 DEF TypeOK
    <3> QED BY <1>0, <2>3, <3>1, <3>2 DEF HeapHoldsOpen, ControlOK
  <2> QED BY <2>3, <2>4, <2>5 DEF StructureInv
<1>4. CASE heap_bubble_down
  <2>1. /\ idx \in 0 .. heap_size - 1
        /\ proper_child(idx) \in 0 .. heap_size - 1
        /\ proper_child(idx) # idx
    <3>1. idx \in Nat /\ heap_size \in Nat /\ INHEAP(LCHILD(idx))
      BY <1>0, <1>4 DEF heap_bubble_down, SinksBelow, TypeOK, Slots
    <3>2. idx < heap_size
      BY <3>1, ChildAbove DEF INHEAP
    <3> QED BY <1>0, <3>1, <3>2, ProperChildOK
  <2>2. c_swap(idx, proper_child(idx))
    BY <1>4 DEF heap_bubble_down
  <2>3. /\ lotos_connections' \in [Slots -> Conns \cup {NoConn}]
        /\ heap_idx' \in [Conns -> Slots]
        /\ heap_size' = heap_size /\ HeapIndexed' /\ Entries' = Entries
    BY <1>0, <2>1, <2>2, SwapKeeps
  <2>4. TypeOK'
    BY <1>0, <1>4, <2>1, <2>3 DEF heap_bubble_down, TypeOK, Slots
  <2>5. HeapHoldsOpen' /\ ControlOK'
    <3>1. pc = "down" /\ pc' = "down" /\ op' = op /\ cur' = cur /\ conns' = conns
      BY <1>4 DEF heap_bubble_down
    <3> QED BY <1>0, <2>3, <3>1 DEF HeapHoldsOpen, ControlOK
  <2> QED BY <2>3, <2>4, <2>5 DEF StructureInv
<1>5. CASE heap_bubble_up_ends
  BY <1>5, ReturnKeeps DEF heap_bubble_up_ends
<1>6. CASE heap_bubble_down_ends
  BY <1>6, ReturnKeeps DEF heap_bubble_down_ends
<1>7. CASE accept_returns
  BY <1>0, <1>7 DEF accept_returns, heapVars, StructureInv, TypeOK, HeapIndexed,
                    HeapHoldsOpen, Entries, ControlOK
<1>8. CASE accept_aborts
  <2>1. cur \in Entries
    BY <1>0, <1>8 DEF accept_aborts, HeapHoldsOpen, ControlOK
  <2>2. connection_close(cur, "abort")
    BY <1>8 DEF accept_aborts
  <2>3. TypeOK'
    BY <1>0, <2>1, <2>2, CloseRemoves DEF TypeOK, connection_close
  <2>4. HeapIndexed' /\ HeapHoldsOpen' /\ ControlOK'
    BY <1>0, <1>8, <2>1, <2>2, CloseRemoves
    DEF accept_aborts, HeapHoldsOpen, ControlOK, connection_close
  <2> QED BY <2>3, <2>4 DEF StructureInv
<1>9. CASE connection_prune
  BY <1>0, <1>9 DEF connection_prune, heapVars, StructureInv, TypeOK, HeapIndexed,
                    HeapHoldsOpen, Entries, ControlOK
<1>10. CASE prune_closes_top
  <2>1. lotos_connections[0] \in Entries
    BY <1>0, <1>10 DEF prune_closes_top, TopIsDue, Entries, TypeOK
  <2>2. connection_close(lotos_connections[0], "prune")
    BY <1>10 DEF prune_closes_top
  <2>3. TypeOK'
    BY <1>0, <2>1, <2>2, CloseRemoves DEF TypeOK, connection_close
  <2>4. HeapIndexed' /\ HeapHoldsOpen' /\ ControlOK'
    BY <1>0, <1>10, <2>1, <2>2, CloseRemoves
    DEF prune_closes_top, HeapHoldsOpen, ControlOK, connection_close
  <2> QED BY <2>3, <2>4 DEF StructureInv
<1>11. CASE prune_returns
  BY <1>0, <1>11 DEF prune_returns, heapVars, StructureInv, TypeOK, HeapIndexed,
                    HeapHoldsOpen, Entries, ControlOK
<1>12. ASSUME NEW c \in Conns, connection_accept(c) PROVE StructureInv'
  <2>1. c \notin Entries /\ Entries = conns /\ heap_size \in Slots
    BY <1>0, <1>12 DEF connection_accept, HeapHoldsOpen, TypeOK, Slots
  <2>2. TypeOK'
    BY <1>0, <1>12, <2>1 DEF connection_accept, TypeOK, Slots
  <2>3. /\ heap_size' = heap_size + 1
        /\ lotos_connections'[heap_size] = c
        /\ \A i \in 0 .. heap_size - 1 : lotos_connections'[i] = lotos_connections[i]
    BY <1>0, <1>12, <2>1 DEF connection_accept, TypeOK, Slots
  <2>4. HeapIndexed'
    <3> SUFFICES ASSUME NEW i \in 0 .. heap_size
                 PROVE  /\ lotos_connections'[i] \in Conns
                        /\ heap_idx'[lotos_connections'[i]] = i
      BY <1>0, <2>3 DEF HeapIndexed, TypeOK
    <3>1. CASE i = heap_size
      BY <1>0, <1>12, <2>3, <3>1 DEF connection_accept, TypeOK
    <3>2. CASE i # heap_size
      <4>1. lotos_connections[i] \in Entries /\ lotos_connections'[i] = lotos_connections[i]
        BY <1>0, <2>3, <3>2 DEF Entries, TypeOK
      <4> QED BY <1>0, <1>12, <2>1, <3>2, <4>1
              DEF HeapIndexed, connection_accept, TypeOK
    <3> QED BY <3>1, <3>2
  <2>5. Entries' = Entries \cup {c}
    BY <1>0, <2>3 DEF Entries, TypeOK
  <2>6. HeapHoldsOpen' /\ ControlOK'
    BY <1>0, <1>12, <2>1, <2>5 DEF connection_accept, HeapHoldsOpen, ControlOK, TypeOK
  <2> QED BY <2>2, <2>4, <2>6 DEF StructureInv
<1>13. ASSUME NEW c \in Conns, connecion_set_reactivated(c) PROVE StructureInv'
  BY <1>0, <1>13 DEF connecion_set_reactivated, heapVars, StructureInv, TypeOK,
                     HeapIndexed, HeapHoldsOpen, Entries, ControlOK
<1>14. ASSUME NEW c \in Conns, connecion_set_expired(c) PROVE StructureInv'
  BY <1>0, <1>14 DEF connecion_set_expired, heapVars, StructureInv, TypeOK,
                     HeapIndexed, HeapHoldsOpen, Entries, ControlOK
<1> QED BY <1>1, <1>2, <1>3, <1>4, <1>5, <1>6, <1>7, <1>8, <1>9, <1>10, <1>11,
           <1>12, <1>13, <1>14 DEF Next

\* Type correctness, whatever the clock does.
THEOREM TypeCorrect == Spec => []TypeOK
<1>1. StructureInv => TypeOK
  BY DEF StructureInv
<1> QED BY <1>1, StructureInit, StructureNext, PTL DEF Spec

\* Whatever the clock does, heap_idx finds every connection in its slot: the
\* entry that connection_unregister overwrites is that of the connection it
\* closes.
THEOREM EntriesAreIndexed == Spec => []HeapIndexed
<1>1. StructureInv => HeapIndexed
  BY DEF StructureInv
<1> QED BY <1>1, StructureInit, StructureNext, PTL DEF Spec

\* Whatever the clock does, exactly the open connections are in the heap.
THEOREM HeapTracksConnections == Spec => []HeapHoldsOpen
<1>1. StructureInv => HeapHoldsOpen
  BY DEF StructureInv
<1> QED BY <1>1, StructureInit, StructureNext, PTL DEF Spec

\* The heap holds as many entries as there are connections in it.
LEMMA EntriesCounted ==
  ASSUME TypeOK, HeapIndexed
  PROVE  IsFiniteSet(Entries) /\ Cardinality(Entries) = heap_size
<1> DEFINE I == 0 .. heap_size - 1
           f == [i \in I |-> lotos_connections[i]]
<1>1. heap_size \in Nat
  BY ConstantsAssumption DEF TypeOK
<1>2. f \in Bijection(I, Entries)
  BY DEF Bijection, Injection, Surjection, IsInjective, HeapIndexed, Entries
<1>3. ExistsBijection(I, Entries)
  BY <1>2 DEF ExistsBijection
<1>4. IsFiniteSet(I) /\ Cardinality(I) = heap_size
  BY <1>1, FS_Interval
<1> QED BY <1>3, <1>4, FS_Bijection

\* connection_register never fails, whatever the clock does.
THEOREM RegisterNeverFails == Spec => []HeapHasRoom
<1>1. StructureInv => HeapHasRoom
  <2> SUFFICES ASSUME StructureInv, pc = "idle", conns # Conns
               PROVE  heap_size < MaxConnection
    BY DEF HeapHasRoom
  <2>1. conns \subseteq Conns /\ Entries = conns /\ heap_size \in Nat
    BY ConstantsAssumption DEF StructureInv, TypeOK, HeapHoldsOpen
  <2>2. Cardinality(conns) = heap_size
    BY <2>1, EntriesCounted DEF StructureInv
  <2>3. Cardinality(conns) =< Cardinality(Conns) /\ Cardinality(conns) # Cardinality(Conns)
    BY <2>1, FS_Subset, ConstantsAssumption
  <2>4. Cardinality(Conns) \in Nat
    BY FS_CardinalityType, ConstantsAssumption
  <2> QED BY <2>1, <2>2, <2>3, <2>4, PoolFitsHeap, ConstantsAssumption
<1> QED BY <1>1, StructureInit, StructureNext, PTL DEF Spec

-----------------------------------------------------------------------------
(***************************************************************************)
(* The order of the heap, under a clock that is never set back.            *)
(***************************************************************************)

LEMMA TimesAreNat ==
  ASSUME TypeOK, HeapIndexed
  PROVE  /\ heap_size \in Nat /\ idx \in Nat
         /\ \A i \in 0 .. heap_size - 1 : TimeAt(i) \in Nat
BY ConstantsAssumption DEF TypeOK, HeapIndexed, TimeAt, Slots

\* The edges of the heap: a non-root slot has its parent in the heap too.
LEMMA ParentInHeap ==
  ASSUME heap_size \in Nat, NEW i \in 1 .. heap_size - 1
  PROVE  /\ i \in 0 .. heap_size - 1
         /\ PARENT(i) \in 0 .. heap_size - 1
         /\ PARENT(i) < i
<1>1. i \in Nat /\ i > 0
  OBVIOUS
<1>2. PARENT(i) \in Nat /\ PARENT(i) < i
  BY <1>1, ParentBelow
<1> QED BY <1>1, <1>2

\* proper_child is a child with the least time.
LEMMA ProperChildLeast ==
  ASSUME TypeOK, HeapIndexed, NEW i \in Nat, INHEAP(LCHILD(i)),
         NEW j \in 1 .. heap_size - 1, PARENT(j) = i
  PROVE  TimeAt(proper_child(i)) =< TimeAt(j)
<1>1. /\ heap_size \in Nat
      /\ \A k \in 0 .. heap_size - 1 : TimeAt(k) \in Nat
  BY TimesAreNat
<1>2. j \in Nat /\ j > 0 /\ j \in 0 .. heap_size - 1
  BY <1>1
<1>3. j = LCHILD(i) \/ j = RCHILD(i)
  BY <1>2, ParentOfChild
<1>4. /\ LCHILD(i) \in 0 .. heap_size - 1
      /\ RCHILD(i) \in Nat
      /\ LCHILD(i) # RCHILD(i)
  BY <1>1, ChildAbove DEF INHEAP
<1>5. CASE INHEAP(RCHILD(i))
  <2>1. RCHILD(i) \in 0 .. heap_size - 1
    BY <1>1, <1>4, <1>5 DEF INHEAP
  <2> QED BY <1>1, <1>3, <1>4, <1>5, <2>1 DEF proper_child
<1>6. CASE ~INHEAP(RCHILD(i))
  <2>1. j = LCHILD(i)
    BY <1>1, <1>2, <1>3, <1>6 DEF INHEAP
  <2> QED BY <1>1, <1>4, <1>6, <2>1 DEF proper_child
<1> QED BY <1>5, <1>6

\* One iteration of heap_bubble_up moves the misplaced entry one level up.
LEMMA BubbleUpKeepsOrder ==
  ASSUME TypeOK, HeapIndexed, ControlOK, OrderUp, heap_bubble_up
  PROVE  OrderUp'
<1> DEFINE p == PARENT(idx)
           U(i) == active_time'[lotos_connections'[i]]
<1>1. /\ heap_size \in Nat /\ idx \in Nat
      /\ \A i \in 0 .. heap_size - 1 : TimeAt(i) \in Nat
  BY TimesAreNat
<1>2. idx < heap_size /\ p >= 0 /\ TimeAt(idx) < TimeAt(p)
  BY DEF heap_bubble_up, RisesAbove, ControlOK
<1>3. idx > 0 /\ p \in Nat /\ p < idx
  BY <1>1, <1>2, ParentBelow
<1>4. /\ p \in 0 .. heap_size - 1 /\ idx \in 0 .. heap_size - 1 /\ idx # p
      /\ idx \in 1 .. heap_size - 1
  BY <1>1, <1>2, <1>3
<1>5. /\ heap_size' = heap_size
      /\ U(idx) = TimeAt(p) /\ U(p) = TimeAt(idx)
      /\ \A i \in 0 .. heap_size - 1 : i # idx /\ i # p => U(i) = TimeAt(i)
  <2>1. c_swap(idx, p) /\ active_time' = active_time
    BY DEF heap_bubble_up
  <2> QED BY <1>4, <2>1, SwapKeeps DEF TimeAt
<1>6. /\ \A j \in 1 .. heap_size - 1 : j # idx => TimeAt(PARENT(j)) =< TimeAt(j)
      /\ \A j \in 1 .. heap_size - 1 : PARENT(j) = idx => TimeAt(p) =< TimeAt(j)
  BY <1>3 DEF heap_bubble_up, OrderUp, OrderAround
<1> SUFFICES ASSUME NEW j \in 1 .. heap_size - 1
             PROVE  /\ j # p => U(PARENT(j)) =< U(j)
                    /\ PARENT(j) = p /\ p > 0 => U(PARENT(p)) =< U(j)
  <2>1. idx' = p /\ heap_size' = heap_size
    BY <1>5 DEF heap_bubble_up
  <2> QED BY <2>1 DEF OrderUp, OrderAround, TimeAt
<1>7. /\ j \in 0 .. heap_size - 1 /\ PARENT(j) \in 0 .. heap_size - 1
      /\ PARENT(j) < j
  BY <1>1, ParentInHeap
<1>8. ASSUME j # p PROVE U(PARENT(j)) =< U(j)
  <2>1. CASE j = idx
    BY <1>1, <1>2, <1>4, <1>5, <2>1
  <2>2. CASE j # idx /\ PARENT(j) = idx
    BY <1>1, <1>5, <1>6, <1>7, <1>8, <2>2
  <2>3. CASE j # idx /\ PARENT(j) = p
    <3>1. U(PARENT(j)) = TimeAt(idx) /\ U(j) = TimeAt(j) /\ TimeAt(p) =< TimeAt(j)
      BY <1>5, <1>6, <1>7, <1>8, <2>3
    <3> QED BY <1>1, <1>2, <1>4, <1>7, <3>1
  <2>4. CASE j # idx /\ PARENT(j) # idx /\ PARENT(j) # p
    BY <1>5, <1>6, <1>7, <1>8, <2>4
  <2> QED BY <2>1, <2>2, <2>3, <2>4
<1>9. ASSUME PARENT(j) = p, p > 0 PROVE U(PARENT(p)) =< U(j)
  <2>1. p \in 1 .. heap_size - 1
    BY <1>4, <1>9
  <2>2. PARENT(p) \in 0 .. heap_size - 1 /\ PARENT(p) < p
    BY <1>1, <2>1, ParentInHeap
  <2>3. U(PARENT(p)) = TimeAt(PARENT(p)) /\ TimeAt(PARENT(p)) =< TimeAt(p)
    BY <1>3, <1>5, <1>6, <2>1, <2>2
  <2>4. CASE j = idx
    BY <1>5, <2>3, <2>4
  <2>5. CASE j # idx
    <3>1. U(j) = TimeAt(j) /\ TimeAt(p) =< TimeAt(j)
      BY <1>5, <1>6, <1>7, <1>9, <2>5
    <3> QED BY <1>1, <1>4, <1>7, <2>2, <2>3, <3>1
  <2> QED BY <2>4, <2>5
<1> QED BY <1>8, <1>9

\* One iteration of heap_bubble_down moves the misplaced entry one level down.
LEMMA BubbleDownKeepsOrder ==
  ASSUME TypeOK, HeapIndexed, OrderDown, heap_bubble_down
  PROVE  OrderDown'
<1> DEFINE k == proper_child(idx)
           U(i) == active_time'[lotos_connections'[i]]
<1>1. /\ heap_size \in Nat /\ idx \in Nat
      /\ \A i \in 0 .. heap_size - 1 : TimeAt(i) \in Nat
  BY TimesAreNat
<1>2. INHEAP(LCHILD(idx)) /\ ~(TimeAt(idx) =< TimeAt(k))
  BY DEF heap_bubble_down, SinksBelow
<1>3. k \in 0 .. heap_size - 1 /\ k > idx /\ PARENT(k) = idx
  BY <1>1, <1>2, ProperChildOK
<1> HIDE DEF k
<1>4. /\ idx \in 0 .. heap_size - 1 /\ k \in 1 .. heap_size - 1 /\ idx # k
      /\ TimeAt(k) < TimeAt(idx)
  BY <1>1, <1>2, <1>3
<1>5. /\ heap_size' = heap_size
      /\ U(idx) = TimeAt(k) /\ U(k) = TimeAt(idx)
      /\ \A i \in 0 .. heap_size - 1 : i # idx /\ i # k => U(i) = TimeAt(i)
  <2>1. c_swap(idx, k) /\ active_time' = active_time
    BY DEF heap_bubble_down, k
  <2> QED BY <1>3, <1>4, <2>1, SwapKeeps DEF TimeAt
<1>6. \A j \in 1 .. heap_size - 1 :
        /\ PARENT(j) # idx => TimeAt(PARENT(j)) =< TimeAt(j)
        /\ PARENT(j) = idx /\ idx > 0 => TimeAt(PARENT(idx)) =< TimeAt(j)
        /\ PARENT(j) = idx => TimeAt(k) =< TimeAt(j)
  BY <1>1, <1>2, ProperChildLeast DEF heap_bubble_down, OrderDown, OrderAround, k
<1> SUFFICES ASSUME NEW j \in 1 .. heap_size - 1
             PROVE  /\ PARENT(j) # k => U(PARENT(j)) =< U(j)
                    /\ PARENT(j) = k => U(PARENT(k)) =< U(j)
  <2>1. idx' = k /\ heap_size' = heap_size
    BY <1>5 DEF heap_bubble_down, k
  <2> QED BY <2>1 DEF OrderDown, OrderAround, TimeAt
<1>7. /\ j \in 0 .. heap_size - 1 /\ PARENT(j) \in 0 .. heap_size - 1
      /\ PARENT(j) < j
  BY <1>1, ParentInHeap
<1>8. ASSUME PARENT(j) # k PROVE U(PARENT(j)) =< U(j)
  <2>1. CASE j = k
    BY <1>1, <1>3, <1>4, <1>5, <2>1
  <2>2. CASE j # k /\ PARENT(j) = idx
    BY <1>5, <1>6, <1>7, <2>2
  <2>3. CASE j # k /\ j = idx
    <3>1. idx > 0 /\ TimeAt(PARENT(idx)) =< TimeAt(k)
      BY <1>1, <1>3, <1>4, <1>6, <2>3
    <3> QED BY <1>5, <1>7, <1>8, <2>3, <3>1
  <2>4. CASE j # k /\ PARENT(j) # idx /\ j # idx
    BY <1>5, <1>6, <1>7, <1>8, <2>4
  <2> QED BY <2>1, <2>2, <2>3, <2>4
<1>9. ASSUME PARENT(j) = k PROVE U(PARENT(k)) =< U(j)
  <2>1. j # idx /\ j # k
    BY <1>1, <1>3, <1>4, <1>7, <1>9
  <2> QED BY <1>3, <1>4, <1>5, <1>6, <1>7, <1>9, <2>1
<1> QED BY <1>8, <1>9

\* A loop that ends leaves a heap: no edge is out of order any more.
LEMMA LoopEndsInHeap ==
  ASSUME StructureInv, OrderUp, OrderDown,
         heap_bubble_up_ends \/ heap_bubble_down_ends
  PROVE  MinHeap' /\ pc' \notin {"up", "down"}
<1> USE DEF StructureInv
<1>1. /\ heap_size \in Nat /\ idx \in Nat
      /\ \A i \in 0 .. heap_size - 1 : TimeAt(i) \in Nat
  BY TimesAreNat
<1>2. /\ UNCHANGED <<heapVars, active_time>>
      /\ pc' \notin {"up", "down"}
  BY DEF heap_bubble_up_ends, heap_bubble_down_ends, Return
<1> SUFFICES ASSUME NEW j \in 1 .. heap_size - 1
             PROVE  TimeAt(PARENT(j)) =< TimeAt(j)
  BY <1>2 DEF MinHeap, TimeAt, heapVars
<1>3. /\ j \in 0 .. heap_size - 1 /\ PARENT(j) \in 0 .. heap_size - 1
      /\ PARENT(j) < j
  BY <1>1, ParentInHeap
<1>4. CASE heap_bubble_up_ends
  <2>1. CASE j = idx
    BY <1>1, <1>3, <1>4, <2>1 DEF heap_bubble_up_ends, RisesAbove
  <2>2. CASE j # idx
    BY <1>4, <2>2 DEF heap_bubble_up_ends, OrderUp
  <2> QED BY <2>1, <2>2
<1>5. CASE heap_bubble_down_ends
  <2>1. CASE PARENT(j) = idx
    <3>1. INHEAP(LCHILD(idx))
      <4>1. j = LCHILD(idx) \/ j = RCHILD(idx)
        BY <1>1, <1>3, <2>1, ParentOfChild
      <4> QED BY <1>1, <1>3, <4>1, ChildAbove DEF INHEAP
    <3>2. TimeAt(idx) =< TimeAt(proper_child(idx))
      BY <1>5, <3>1 DEF heap_bubble_down_ends, SinksBelow
    <3>3. TimeAt(proper_child(idx)) =< TimeAt(j)
      BY <1>1, <2>1, <3>1, ProperChildLeast
    <3>4. TimeAt(proper_child(idx)) \in Nat /\ TimeAt(idx) \in Nat /\ TimeAt(j) \in Nat
      BY <1>1, <1>3, <2>1, <3>1, ProperChildOK
    <3> QED BY <2>1, <3>2, <3>3, <3>4
  <2>2. CASE PARENT(j) # idx
    BY <1>5, <2>2 DEF heap_bubble_down_ends, OrderDown
  <2> QED BY <2>1, <2>2
<1> QED BY <1>2, <1>4, <1>5

\* Giving one connection a new time changes the time at its slot only.
LEMMA RetimeOne ==
  ASSUME TypeOK, HeapIndexed, NEW c \in Entries,
         \A d \in Conns \ {c} : active_time'[d] = active_time[d],
         UNCHANGED heapVars
  PROVE  /\ heap_idx[c] \in 0 .. heap_size - 1
         /\ TimeAt(heap_idx[c]) = active_time[c]
         /\ \A i \in 0 .. heap_size - 1 :
              active_time'[lotos_connections'[i]] =
                IF i = heap_idx[c] THEN active_time'[c] ELSE TimeAt(i)
<1>1. /\ c \in Conns /\ heap_idx[c] \in 0 .. heap_size - 1
      /\ lotos_connections[heap_idx[c]] = c
  BY DEF HeapIndexed, Entries
<1>2. \A i \in 0 .. heap_size - 1 :
        lotos_connections[i] \in Conns /\ (lotos_connections[i] = c <=> i = heap_idx[c])
  BY <1>1 DEF HeapIndexed
<1> QED BY <1>1, <1>2 DEF TypeOK, TimeAt, heapVars

\* The operations keep the order as long as the clock only advances.
LEMMA OrderNext ==
  ASSUME ~ClockSetBack, StructureInv, HeapInvariant, [Next]_vars
  PROVE  HeapInvariant'
<1> USE ConstantsAssumption
<1>0. /\ TypeOK /\ HeapIndexed /\ HeapHoldsOpen /\ ControlOK
      /\ MinHeap /\ OrderUp /\ OrderDown /\ FreshIsLast /\ TimesArePast
  BY DEF StructureInv, HeapInvariant
<1>a. /\ heap_size \in Nat /\ idx \in Nat
      /\ \A i \in 0 .. heap_size - 1 : TimeAt(i) \in Nat
  BY <1>0, TimesAreNat
<1>1. CASE UNCHANGED vars
  BY <1>0, <1>1 DEF vars, heapVars, ctrlVars, HeapInvariant, MinHeap, OrderUp,
      OrderDown, OrderAround, FreshIsLast, TimesArePast, TimeAt
<1>2. CASE Tick
  <2>1. UNCHANGED <<heapVars, active_time, conns, ctrlVars>> /\ now' = now + 1
    BY <1>2 DEF Tick
  <2>2. TimesArePast'
    BY <1>0, <2>1 DEF TimesArePast, TypeOK
  <2> QED BY <1>0, <2>1, <2>2 DEF heapVars, ctrlVars, HeapInvariant, MinHeap,
      OrderUp, OrderDown, OrderAround, FreshIsLast, TimeAt
<1>3. CASE heap_bubble_up
  <2>1. op # "accept"
    <3> SUFFICES ASSUME op = "accept" PROVE FALSE
      OBVIOUS
    <3>1. /\ idx = heap_size - 1 /\ lotos_connections[idx] = cur
          /\ PARENT(idx) >= 0 /\ TimeAt(idx) < TimeAt(PARENT(idx))
      BY <1>0, <1>3 DEF heap_bubble_up, RisesAbove, FreshIsLast
    <3>2. PARENT(idx) \in 0 .. heap_size - 1 /\ idx \in 0 .. heap_size - 1
      <4>1. PARENT(idx) \in Nat /\ PARENT(idx) < idx
        BY <1>a, <3>1, ParentBelow
      <4> QED BY <1>a, <3>1, <4>1
    <3>3. TimeAt(PARENT(idx)) =< TimeAt(idx)
      BY <1>0, <3>1, <3>2 DEF FreshIsLast, TimeAt
    <3> QED BY <1>a, <3>1, <3>2, <3>3
  <2>2. pc' = "up" /\ op' = op /\ UNCHANGED <<active_time, now>>
    BY <1>3 DEF heap_bubble_up
  <2>3. OrderUp'
    BY <1>0, <1>3, BubbleUpKeepsOrder
  <2> QED BY <1>0, <2>1, <2>2, <2>3
          DEF HeapInvariant, MinHeap, OrderDown, FreshIsLast, TimesArePast
<1>4. CASE heap_bubble_down
  <2>1. pc' = "down" /\ op' = op /\ op # "accept" /\ UNCHANGED <<active_time, now>>
    BY <1>0, <1>4 DEF heap_bubble_down, ControlOK
  <2>2. OrderDown'
    BY <1>0, <1>4, BubbleDownKeepsOrder
  <2> QED BY <1>0, <2>1, <2>2
          DEF HeapInvariant, MinHeap, OrderUp, FreshIsLast, TimesArePast
<1>5. CASE heap_bubble_up_ends \/ heap_bubble_down_ends
  <2>1. MinHeap' /\ pc' \notin {"up", "down"}
    BY <1>0, <1>5, LoopEndsInHeap
  <2>2. FreshIsLast' /\ TimesArePast'
    BY <1>0, <1>5, <2>1 DEF heap_bubble_up_ends, heap_bubble_down_ends, Return,
       heapVars, FreshIsLast, TimesArePast, TimeAt
  <2> QED BY <2>1, <2>2 DEF HeapInvariant, OrderUp, OrderDown
<1>6. CASE accept_returns \/ connection_prune \/ prune_returns
  <2>1. /\ UNCHANGED <<heapVars, active_time, now>> /\ op' # "accept"
        /\ pc \notin {"up", "down"} /\ pc' \notin {"up", "down"}
    BY <1>6 DEF accept_returns, connection_prune, prune_returns
  <2> QED BY <1>0, <2>1 DEF heapVars, HeapInvariant, MinHeap, OrderUp, OrderDown,
       FreshIsLast, TimesArePast, TimeAt
<1>7. CASE accept_aborts
  <2>1. /\ cur \in Entries /\ heap_size > 0 /\ op = "accept" /\ pc = "epoll_add"
        /\ lotos_connections[heap_size - 1] = cur
    BY <1>0, <1>7 DEF accept_aborts, HeapHoldsOpen, ControlOK, FreshIsLast
  <2>2. heap_idx[cur] = heap_size - 1
    BY <1>0, <1>a, <2>1 DEF HeapIndexed
  <2>3. connection_close(cur, "abort")
    BY <1>7 DEF accept_aborts
  <2>4. /\ heap_size' = heap_size - 1 /\ idx' = heap_size - 1
        /\ pc' = "down" /\ op' = "abort" /\ UNCHANGED <<active_time, now>>
        /\ \A i \in 0 .. heap_size - 2 : lotos_connections'[i] = lotos_connections[i]
    BY <1>0, <1>a, <2>1, <2>2, <2>3, CloseRemoves DEF connection_close
  <2>5. OrderDown'
    <3> SUFFICES ASSUME NEW j \in 1 .. heap_size - 2
                 PROVE  /\ PARENT(j) # idx'
                        /\ TimeAt(PARENT(j))' =< TimeAt(j)'
      BY <1>a, <2>4 DEF OrderDown, OrderAround, TimeAt
    <3>1. /\ j \in 1 .. heap_size - 1
          /\ PARENT(j) \in 0 .. heap_size - 1 /\ PARENT(j) < j
      BY <1>a, ParentInHeap
    <3>2. TimeAt(PARENT(j)) =< TimeAt(j)
      BY <1>0, <2>1, <3>1 DEF MinHeap
    <3> QED BY <1>a, <2>4, <3>1, <3>2 DEF TimeAt
  <2> QED BY <1>0, <2>4, <2>5
          DEF HeapInvariant, MinHeap, OrderUp, FreshIsLast, TimesArePast
<1>8. CASE prune_closes_top
  <2>1. heap_size > 0 /\ pc = "prune" /\ lotos_connections[0] \in Entries
    BY <1>8, <1>a DEF prune_closes_top, TopIsDue, Entries
  <2>2. heap_idx[lotos_connections[0]] = 0
    BY <1>0, <1>a, <2>1 DEF HeapIndexed
  <2>3. connection_close(lotos_connections[0], "prune")
    BY <1>8 DEF prune_closes_top
  <2>4. /\ heap_size' = heap_size - 1 /\ idx' = 0
        /\ pc' = "down" /\ op' = "prune" /\ UNCHANGED <<active_time, now>>
        /\ \A i \in 1 .. heap_size - 2 : lotos_connections'[i] = lotos_connections[i]
    BY <1>0, <1>a, <2>1, <2>2, <2>3, CloseRemoves DEF connection_close
  <2>5. OrderDown'
    <3> SUFFICES ASSUME NEW j \in 1 .. heap_size - 2, PARENT(j) # 0
                 PROVE  TimeAt(PARENT(j))' =< TimeAt(j)'
      BY <1>a, <2>4 DEF OrderDown, OrderAround, TimeAt
    <3>1. /\ j \in 1 .. heap_size - 1
          /\ PARENT(j) \in 0 .. heap_size - 1 /\ PARENT(j) < j
      BY <1>a, ParentInHeap
    <3>2. TimeAt(PARENT(j)) =< TimeAt(j)
      BY <1>0, <2>1, <3>1 DEF MinHeap
    <3> QED BY <1>a, <2>4, <3>1, <3>2 DEF TimeAt
  <2> QED BY <1>0, <2>4, <2>5
          DEF HeapInvariant, MinHeap, OrderUp, FreshIsLast, TimesArePast
<1>9. ASSUME NEW c \in Conns, connection_accept(c) PROVE HeapInvariant'
  <2>1. c \notin Entries /\ pc = "idle" /\ heap_size \in Slots
    BY <1>0, <1>9 DEF connection_accept, HeapHoldsOpen, TypeOK, Slots
  <2>2. /\ pc' = "up" /\ op' = "accept" /\ cur' = c /\ idx' = heap_size
        /\ heap_size' = heap_size + 1 /\ now' = now
        /\ active_time'[c] = now
        /\ \A d \in Conns \ {c} : active_time'[d] = active_time[d]
        /\ lotos_connections'[heap_size] = c
        /\ \A i \in 0 .. heap_size - 1 : lotos_connections'[i] = lotos_connections[i]
    BY <1>0, <1>9, <2>1 DEF connection_accept, TypeOK, Slots
  <2>3. \A i \in 0 .. heap_size - 1 :
          TimeAt(i)' = TimeAt(i) /\ lotos_connections[i] \in Conns
    BY <1>0, <2>1, <2>2 DEF Entries, HeapIndexed, TimeAt
  <2>4. OrderUp'
    <3> SUFFICES ASSUME NEW j \in 1 .. heap_size
                 PROVE  /\ j # heap_size => TimeAt(PARENT(j))' =< TimeAt(j)'
                        /\ PARENT(j) # heap_size
      BY <1>a, <2>2 DEF OrderUp, OrderAround, TimeAt
    <3>1. PARENT(j) \in Nat /\ PARENT(j) < j
      BY <1>a, ParentBelow
    <3>2. ASSUME j # heap_size PROVE TimeAt(PARENT(j))' =< TimeAt(j)'
      <4>1. j \in 1 .. heap_size - 1 /\ PARENT(j) \in 0 .. heap_size - 1
        BY <1>a, <3>1, <3>2
      <4>2. TimeAt(PARENT(j)) =< TimeAt(j)
        BY <1>0, <2>1, <4>1 DEF MinHeap
      <4> QED BY <2>3, <4>1, <4>2
    <3> QED BY <1>a, <3>1, <3>2
  <2>5. TimesArePast'
    BY <1>0, <2>2 DEF TimesArePast, TypeOK
  <2>6. FreshIsLast'
    <3>1. \A i \in 0 .. heap_size : TimeAt(i)' =< now
      BY <1>0, <1>a, <2>2, <2>3, <2>5 DEF TimesArePast, TimeAt, TypeOK
    <3> QED BY <1>a, <2>2, <3>1 DEF FreshIsLast
  <2> QED BY <2>2, <2>4, <2>5, <2>6 DEF HeapInvariant, MinHeap, OrderDown
<1>10. ASSUME NEW c \in Conns, connecion_set_reactivated(c) PROVE HeapInvariant'
  <2>1. /\ c \in Entries /\ pc = "idle" /\ UNCHANGED heapVars /\ now' = now
        /\ active_time' = [active_time EXCEPT ![c] = now]
        /\ pc' = "down" /\ op' = "reactivate" /\ idx' = heap_idx[c]
    BY <1>0, <1>10 DEF connecion_set_reactivated, HeapHoldsOpen
  <2> DEFINE k == heap_idx[c]
             U(i) == active_time'[lotos_connections'[i]]
  <2>2. /\ k \in 0 .. heap_size - 1 /\ TimeAt(k) =< now
        /\ \A i \in 0 .. heap_size - 1 :
             U(i) = IF i = k THEN now ELSE TimeAt(i)
    <3>1. now \in Nat /\ c \in Conns /\ active_time[c] =< now
      BY <1>0 DEF TimesArePast, TypeOK
    <3>2. /\ active_time'[c] = now
          /\ \A d \in Conns \ {c} : active_time'[d] = active_time[d]
      BY <1>0, <2>1 DEF TypeOK
    <3> QED BY <1>0, <2>1, <3>1, <3>2, RetimeOne
  <2>3. OrderDown'
    <3> SUFFICES ASSUME NEW j \in 1 .. heap_size - 1
                 PROVE  /\ PARENT(j) # k => U(PARENT(j)) =< U(j)
                        /\ PARENT(j) = k /\ k > 0 => U(PARENT(k)) =< U(j)
      BY <2>1 DEF OrderDown, OrderAround, heapVars, TimeAt
    <3>1. /\ j \in 0 .. heap_size - 1 /\ PARENT(j) \in 0 .. heap_size - 1
          /\ PARENT(j) < j
      BY <1>a, ParentInHeap
    <3>2. TimeAt(PARENT(j)) =< TimeAt(j)
      BY <1>0, <2>1 DEF MinHeap
    <3>3. ASSUME PARENT(j) = k, k > 0 PROVE U(PARENT(k)) =< U(j)
      <4>1. k \in 1 .. heap_size - 1
        BY <1>a, <2>2, <3>3
      <4>2. /\ PARENT(k) \in 0 .. heap_size - 1 /\ PARENT(k) < k
            /\ TimeAt(PARENT(k)) =< TimeAt(k)
        BY <1>0, <1>a, <2>1, <4>1, ParentInHeap DEF MinHeap
      <4> QED BY <1>a, <2>2, <3>1, <3>2, <3>3, <4>1, <4>2
    <3>4. ASSUME PARENT(j) # k PROVE U(PARENT(j)) =< U(j)
      <4>1. now \in Nat
        BY <1>0 DEF TypeOK
      <4> QED BY <1>a, <2>2, <3>1, <3>2, <3>4, <4>1
    <3> QED BY <3>3, <3>4
  <2>4. TimesArePast'
    BY <1>0, <2>1 DEF TimesArePast, TypeOK
  <2> QED BY <2>1, <2>3, <2>4 DEF HeapInvariant, MinHeap, OrderUp, FreshIsLast
<1>11. ASSUME NEW c \in Conns, connecion_set_expired(c) PROVE HeapInvariant'
  <2>1. /\ c \in Entries /\ pc = "idle" /\ UNCHANGED heapVars /\ now' = now
        /\ active_time' = [active_time EXCEPT ![c] = 0]
        /\ pc' = "up" /\ op' = "expire" /\ idx' = heap_idx[c]
    BY <1>0, <1>11 DEF connecion_set_expired, HeapHoldsOpen
  <2> DEFINE k == heap_idx[c]
             U(i) == active_time'[lotos_connections'[i]]
  <2>2. /\ k \in 0 .. heap_size - 1
        /\ \A i \in 0 .. heap_size - 1 :
             U(i) = IF i = k THEN 0 ELSE TimeAt(i)
    <3>1. /\ active_time'[c] = 0
          /\ \A d \in Conns \ {c} : active_time'[d] = active_time[d]
      BY <1>0, <2>1 DEF TypeOK
    <3> QED BY <1>0, <2>1, <3>1, RetimeOne
  <2>3. OrderUp'
    <3> SUFFICES ASSUME NEW j \in 1 .. heap_size - 1
                 PROVE  /\ j # k => U(PARENT(j)) =< U(j)
                        /\ PARENT(j) = k /\ k > 0 => U(PARENT(k)) =< U(j)
      BY <2>1 DEF OrderUp, OrderAround, heapVars, TimeAt
    <3>1. /\ j \in 0 .. heap_size - 1 /\ PARENT(j) \in 0 .. heap_size - 1
          /\ PARENT(j) < j
      BY <1>a, ParentInHeap
    <3>2. TimeAt(PARENT(j)) =< TimeAt(j)
      BY <1>0, <2>1 DEF MinHeap
    <3>3. ASSUME PARENT(j) = k, k > 0 PROVE U(PARENT(k)) =< U(j)
      <4>1. k \in 1 .. heap_size - 1
        BY <1>a, <2>2, <3>3
      <4>2. /\ PARENT(k) \in 0 .. heap_size - 1 /\ PARENT(k) < k
            /\ TimeAt(PARENT(k)) =< TimeAt(k)
        BY <1>0, <1>a, <2>1, <4>1, ParentInHeap DEF MinHeap
      <4> QED BY <1>a, <2>2, <3>1, <3>2, <3>3, <4>1, <4>2
    <3>4. ASSUME j # k PROVE U(PARENT(j)) =< U(j)
      BY <1>a, <2>2, <3>1, <3>2, <3>4
    <3> QED BY <3>3, <3>4
  <2>4. TimesArePast'
    BY <1>0, <2>1 DEF TimesArePast, TypeOK
  <2> QED BY <2>1, <2>3, <2>4 DEF HeapInvariant, MinHeap, OrderDown, FreshIsLast
<1> QED BY <1>1, <1>2, <1>3, <1>4, <1>5, <1>6, <1>7, <1>8, <1>9, <1>10, <1>11
        DEF Next

LEMMA OrderInit == Init => HeapInvariant
BY ConstantsAssumption DEF Init, HeapInvariant, MinHeap, OrderUp, OrderDown,
   FreshIsLast, TimesArePast

\* With a clock that only advances, lotos_connections is a binary min-heap by
\* active_time whenever no operation on it is under way, and in the middle of
\* one it is out of order around idx only.
THEOREM HeapStaysOrdered ==
  ASSUME ~ClockSetBack
  PROVE  Spec => []HeapInvariant
<1>1. StructureInv /\ HeapInvariant /\ [Next]_vars => StructureInv' /\ HeapInvariant'
  BY StructureNext, OrderNext
<1> QED BY <1>1, StructureInit, OrderInit, PTL DEF Spec

-----------------------------------------------------------------------------
(***************************************************************************)
(* ConnHeap implements ConnTable.                                          *)
(***************************************************************************)

\* The top of the heap is an oldest connection: were some slot younger than
\* the root, the least such slot would have a parent that is one too.
LEMMA RootIsOldest ==
  ASSUME TypeOK, HeapIndexed, MinHeap, pc \notin {"up", "down"},
         NEW c \in Entries
  PROVE  heap_size > 0 /\ TimeAt(0) =< active_time[c]
<1>1. /\ heap_size \in Nat
      /\ \A i \in 0 .. heap_size - 1 : TimeAt(i) \in Nat
  BY TimesAreNat
<1>2. PICK i \in 0 .. heap_size - 1 : c = lotos_connections[i]
  BY DEF Entries
<1> DEFINE T == {j \in 0 .. heap_size - 1 : TimeAt(j) < TimeAt(0)}
<1>3. ASSUME T # {} PROVE FALSE
  <2>1. T \subseteq Nat
    BY <1>1
  <2>2. PICK m \in T : \A y \in T : ~(<<y, m>> \in OpToRel(<, Nat))
    <3> HIDE DEF T
    <3> QED BY <1>3, <2>1, NatLessThanWellFounded, WFMin
  <2>3. \A y \in T : ~(y < m)
    BY <2>1, <2>2 DEF OpToRel
  <2>4. m \in 1 .. heap_size - 1
    BY <1>1
  <2>5. /\ PARENT(m) \in 0 .. heap_size - 1 /\ PARENT(m) < m
        /\ TimeAt(PARENT(m)) =< TimeAt(m)
    BY <1>1, <2>4, ParentInHeap DEF MinHeap
  <2>6. PARENT(m) \in T
    BY <1>1, <2>4, <2>5
  <2> QED BY <2>3, <2>5, <2>6
<1> QED BY <1>1, <1>2, <1>3 DEF TimeAt

LEMMA RefinesInit == Init => Table!Init
BY DEF Init, Table!Init, Entries

LEMMA RefinesNext ==
  ASSUME StructureInv, HeapInvariant, ~ClockSetBack, [Next]_vars
  PROVE  [Table!Next]_(Table!vars)
<1> USE ConstantsAssumption
<1>0. /\ TypeOK /\ HeapIndexed /\ HeapHoldsOpen /\ ControlOK /\ MinHeap
      /\ heap_size \in Nat /\ now \in Nat /\ conns \subseteq Conns
  BY DEF StructureInv, HeapInvariant, TypeOK
<1>1. CASE UNCHANGED vars
  BY <1>1 DEF vars, heapVars, ctrlVars, Table!vars, Entries
<1>2. CASE Tick
  BY <1>0, <1>2 DEF Tick, heapVars, ctrlVars, Table!Next, Table!Tick, Entries
<1>3. CASE heap_bubble_up
  <2>1. /\ idx \in 0 .. heap_size - 1
        /\ PARENT(idx) \in 0 .. heap_size - 1
        /\ PARENT(idx) # idx
    <3>1. idx \in Nat /\ idx < heap_size /\ PARENT(idx) >= 0
      BY <1>0, <1>3 DEF heap_bubble_up, RisesAbove, ControlOK, TypeOK, Slots
    <3>2. PARENT(idx) \in Nat /\ PARENT(idx) < idx
      BY <3>1, ParentBelow
    <3> QED BY <1>0, <3>1, <3>2
  <2>2. Entries' = Entries
    BY <1>0, <1>3, <2>1, SwapKeeps DEF heap_bubble_up
  <2> QED BY <1>3, <2>2 DEF heap_bubble_up, Table!vars
<1>4. CASE heap_bubble_down
  <2>1. /\ idx \in 0 .. heap_size - 1
        /\ proper_child(idx) \in 0 .. heap_size - 1
        /\ proper_child(idx) # idx
    <3>1. idx \in Nat /\ INHEAP(LCHILD(idx))
      BY <1>0, <1>4 DEF heap_bubble_down, SinksBelow, TypeOK, Slots
    <3>2. idx < heap_size
      BY <1>0, <3>1, ChildAbove DEF INHEAP
    <3> QED BY <1>0, <3>1, <3>2, ProperChildOK
  <2>2. Entries' = Entries
    BY <1>0, <1>4, <2>1, SwapKeeps DEF heap_bubble_down
  <2> QED BY <1>4, <2>2 DEF heap_bubble_down, Table!vars
<1>5. CASE heap_bubble_up_ends \/ heap_bubble_down_ends
  BY <1>5 DEF heap_bubble_up_ends, heap_bubble_down_ends, Return, heapVars,
              Table!vars, Entries
<1>6. CASE accept_returns
  <2>1. op = "accept" /\ cur \in Conns
    BY <1>0, <1>6 DEF accept_returns, ControlOK
  <2> QED BY <1>6, <2>1 DEF accept_returns, heapVars, Table!Next,
                            Table!AcceptSucceeds, Entries
<1>7. CASE accept_aborts
  <2>1. /\ op = "accept" /\ cur \in Conns /\ cur \in Entries
        /\ connection_close(cur, "abort")
    BY <1>0, <1>7 DEF accept_aborts, ControlOK, HeapHoldsOpen
  <2>2. Entries' = Entries \ {cur}
    BY <1>0, <2>1, CloseRemoves
  <2> QED BY <2>1, <2>2 DEF connection_close, Table!Next, Table!AcceptFails
<1>8. CASE connection_prune
  BY <1>0, <1>8 DEF connection_prune, ControlOK, heapVars, Table!Next,
                    Table!StartPrune, Table!Quiet, Entries
<1>9. CASE prune_closes_top
  <2> DEFINE top == lotos_connections[0]
  <2>1. /\ op = "prune" /\ pc = "prune" /\ top \in Entries /\ top \in Conns
        /\ now - active_time[top] >= Timeout
        /\ connection_close(top, "prune")
    BY <1>0, <1>9 DEF prune_closes_top, TopIsDue, TimeAt, ControlOK, Entries, HeapIndexed
  <2>2. Entries' = Entries \ {top}
    BY <1>0, <2>1, CloseRemoves
  <2>3. \A d \in Entries : active_time[top] =< active_time[d]
    BY <1>0, <2>1, RootIsOldest DEF TimeAt
  <2>4. Table!PruneOldest(top)
    BY <2>1, <2>2, <2>3 DEF connection_close, Table!PruneOldest
  <2> QED BY <2>1, <2>4 DEF Table!Next
<1>10. CASE prune_returns
  <2>1. /\ op = "prune" /\ pc = "prune" /\ ~TopIsDue
        /\ op' = "none" /\ UNCHANGED <<heapVars, active_time, now>>
    BY <1>0, <1>10 DEF prune_returns, ControlOK
  <2>2. ASSUME NEW c \in Entries PROVE now - active_time[c] < Timeout
    <3>1. heap_size > 0 /\ TimeAt(0) =< active_time[c]
      BY <1>0, <2>1, RootIsOldest
    <3>2. now - TimeAt(0) < Timeout
      BY <1>0, <2>1, <3>1, TimesAreNat DEF TopIsDue
    <3>3. active_time[c] \in Nat /\ TimeAt(0) \in Nat
      <4>1. c \in Conns
        BY <1>0 DEF Entries, HeapIndexed
      <4> QED BY <1>0, <3>1, <4>1, TimesAreNat DEF TypeOK
    <3> QED BY <1>0, <3>1, <3>2, <3>3
  <2> QED BY <2>1, <2>2 DEF heapVars, Table!Next, Table!EndPrune, Entries
<1>11. ASSUME NEW c \in Conns, connection_accept(c) PROVE Table!Accept(c)
  <2>1. /\ pc = "idle" /\ op \notin {"accept", "prune"} /\ c \notin Entries
        /\ heap_size \in Slots
    BY <1>0, <1>11 DEF connection_accept, ControlOK, HeapHoldsOpen, TypeOK, Slots
  <2>2. Entries' = Entries \cup {c}
    <3>1. /\ heap_size' = heap_size + 1
          /\ lotos_connections'[heap_size] = c
          /\ \A i \in 0 .. heap_size - 1 : lotos_connections'[i] = lotos_connections[i]
      BY <1>0, <1>11, <2>1 DEF connection_accept, TypeOK, Slots
    <3> QED BY <1>0, <3>1 DEF Entries
  <2> QED BY <1>11, <2>1, <2>2 DEF connection_accept, Table!Accept, Table!Quiet
<1>12. ASSUME NEW c \in Conns, connecion_set_reactivated(c) PROVE Table!Reactivate(c)
  <2>1. pc = "idle" /\ op \notin {"accept", "prune"} /\ c \in Entries
    BY <1>0, <1>12 DEF connecion_set_reactivated, ControlOK, HeapHoldsOpen
  <2>2. Entries' = Entries
    BY <1>12 DEF connecion_set_reactivated, heapVars, Entries
  <2> QED BY <1>12, <2>1, <2>2
          DEF connecion_set_reactivated, Table!Reactivate, Table!Quiet
<1>13. ASSUME NEW c \in Conns, connecion_set_expired(c) PROVE Table!Expire(c)
  <2>1. pc = "idle" /\ op \notin {"accept", "prune"} /\ c \in Entries
    BY <1>0, <1>13 DEF connecion_set_expired, ControlOK, HeapHoldsOpen
  <2>2. Entries' = Entries
    BY <1>13 DEF connecion_set_expired, heapVars, Entries
  <2> QED BY <1>13, <2>1, <2>2
          DEF connecion_set_expired, Table!Expire, Table!Quiet
<1> QED BY <1>1, <1>2, <1>3, <1>4, <1>5, <1>6, <1>7, <1>8, <1>9, <1>10, <1>11,
           <1>12, <1>13 DEF Next, Table!Next

\* With a clock that only advances, connection.c does what ConnTable says: in
\* particular a pass of connection_prune, which looks at the top of the heap
\* only, closes exactly the connections whose time is up.
THEOREM HeapImplementsTable ==
  ASSUME ~ClockSetBack
  PROVE  Spec => ImplementsTable
<1>1. StructureInv /\ HeapInvariant /\ [Next]_vars => StructureInv' /\ HeapInvariant'
  BY StructureNext, OrderNext
<1>2. StructureInv /\ HeapInvariant /\ [Next]_vars => [Table!Next]_(Table!vars)
  BY RefinesNext
<1> QED BY <1>1, <1>2, StructureInit, OrderInit, RefinesInit, PTL
        DEF Spec, ImplementsTable, Table!Spec
=============================================================================
