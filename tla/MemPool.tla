------------------------------ MODULE MemPool -------------------------------
(***************************************************************************)
(* mem_pool.c: a fixed number of equal blocks.  The list of free blocks is *)
(* threaded through the blocks themselves: the first word of a free block  *)
(* points to the next one, and belongs to the owner while the block is     *)
(* allocated.                                                              *)
(*                                                                         *)
(* A block is named by its index: block i is at blocks + i * block_size.   *)
(* The module has no specification of its own; PooledLoop drives it.       *)
(***************************************************************************)
EXTENDS Integers, Sequences

CONSTANTS
  block_num,  \* blocks in the pool
  NULL

Blocks == 0 .. block_num - 1

VARIABLES
  word,            \* the first word of each block
  next,            \* the next block to be allocated
  block_allocated  \* the number of allocated blocks

poolVars == <<word, next, block_allocated>>

\* What an owner has in the first word (connection_t.fd): it points to no block.
OwnersData == -1

\* The loop of pool_create has linked each block to the one behind it.
pool_create ==
  /\ word = [i \in Blocks |-> IF i < block_num - 1 THEN i + 1 ELSE NULL]
  /\ next = 0
  /\ block_allocated = 0

\* pool_alloc returns block b, and its owner writes to it.
pool_alloc(b) ==
  /\ block_allocated < block_num
  /\ next # NULL
  /\ b = next
  /\ next' = word[b]
  /\ block_allocated' = block_allocated + 1
  /\ word' = [word EXCEPT ![b] = OwnersData]

\* pool_alloc returns NULL.
pool_alloc_fails ==
  /\ block_allocated >= block_num \/ next = NULL
  /\ UNCHANGED poolVars

\* A mutated form is a plausible mistake in the definition that follows it.  No
\* specification uses it: it shows that the properties notice the mistake.

\* Mutant: the number of allocated blocks is not brought down.
pool_free_uncounted(b) ==
  /\ word' = [word EXCEPT ![b] = next]
  /\ next' = b
  /\ UNCHANGED block_allocated

\* Mutant: the link is written after next was changed.
pool_free_late_link(b) ==
  /\ word' = [word EXCEPT ![b] = b]
  /\ next' = b
  /\ block_allocated' = block_allocated - 1

pool_free(b) ==
  /\ word' = [word EXCEPT ![b] = next]
  /\ next' = b
  /\ block_allocated' = block_allocated - 1

-----------------------------------------------------------------------------
\* The list that pool_alloc follows: it has no cycle and holds exactly the
\* blocks that nobody in used owns, as many as block_allocated says.
FreeListSound(used) ==
  LET n == block_num - block_allocated
  IN  \E s \in [1 .. n -> Blocks] :
        /\ next = IF n = 0 THEN NULL ELSE s[1]
        /\ \A i \in 1 .. n : word[s[i]] = IF i = n THEN NULL ELSE s[i + 1]
        /\ \A i, j \in 1 .. n : s[i] = s[j] => i = j
        /\ {s[i] : i \in 1 .. n} = Blocks \ used
=============================================================================
