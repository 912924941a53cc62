----------------------------- MODULE Allocator -----------------------------
(***************************************************************************)
(* What mem_pool.h promises of a pool: mem_pool_alloc returns "pointer to  *)
(* the newly allocated memory, or NULL if no memory was free", and         *)
(* mem_pool_free gives a block back.  Nothing is said of which block is    *)
(* chosen.  MemPool is shown to implement this specification.              *)
(***************************************************************************)
CONSTANTS Blocks,  \* the blocks of the pool
          NULL     \* the null pointer

VARIABLES taken,   \* blocks in the hands of the clients
          ret      \* what the last allocation returned

vars == <<taken, ret>>

Init == taken = {} /\ ret = NULL

Alloc ==
  \/ \E b \in Blocks \ taken : taken' = taken \cup {b} /\ ret' = b
  \/ taken = Blocks /\ ret' = NULL /\ UNCHANGED taken

Free == \E b \in taken : taken' = taken \ {b} /\ UNCHANGED ret

Next == Alloc \/ Free

Spec == Init /\ [][Next]_vars
=============================================================================
