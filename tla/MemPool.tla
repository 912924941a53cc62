------------------------------ MODULE MemPool ------------------------------
(***************************************************************************)
(* The fixed-block allocator of mem_pool.c.  A pool is an array of objects *)
(* of ObjSize bytes.  The free list lives inside the free blocks: the      *)
(* first word of a free block is either 1 (bit 0 set: this block and every *)
(* block after it has never been handed out) or the address of the next    *)
(* free block.  Addresses are integers, as they are to the bit test.       *)
(***************************************************************************)
EXTENDS Integers

CONSTANTS PoolStart,   \* address of the memory given to the pool
          ReqObjSize,  \* obj_size asked for
          PoolBytes,   \* size in bytes of that memory
          PtrSize,     \* sizeof(void*)
          InitBy,      \* "init_mem_pool" or the macro "INIT_MEM_POOL"
          UserWords    \* what a client, or old memory, leaves in a first word

NULL == 0

PoolSizeUntruncated == PoolBytes   \* mutant of PoolSize

\* Objects are never smaller than a pointer (init_mem_pool only).
ObjSize ==
  IF InitBy = "init_mem_pool" /\ PtrSize > ReqObjSize THEN PtrSize ELSE ReqObjSize

\* The pool_size field: truncated to whole objects by init_mem_pool, while
\* the macro stores the number of objects.
PoolSize ==
  IF InitBy = "init_mem_pool" THEN PoolBytes - (PoolBytes % ObjSize)
                              ELSE PoolBytes \div ObjSize

\* end pointer of the pool, as mem_pool_alloc computes it.
End == PoolStart + PoolSize

\* The addresses of the objects the memory has room for.
NumBlocks == PoolBytes \div ObjSize
Blocks == {PoolStart + i * ObjSize : i \in 0 .. NumBlocks - 1}

ASSUME MemPoolAssumption ==
  /\ PoolStart \in Nat \ {0}
  /\ ReqObjSize \in Nat \ {0}
  /\ PtrSize \in Nat \ {0}
  /\ PoolBytes \in Nat
  /\ PoolSize # 0   \* otherwise init_mem_pool returns -1
  /\ UserWords \subseteq Nat
  /\ UserWords # {}

\* No address of the pool has bit 0 set, so a pointer is never taken for a mark.
EvenBlocks == PoolStart % 2 = 0 /\ ObjSize % 2 = 0

VARIABLES free_block,  \* the pool's free_block pointer
          word,        \* first word of each block
          taken,       \* blocks in the hands of the clients
          ret          \* what the last allocation returned

vars == <<free_block, word, taken, ret>>

\* free_block stays at a block or at the end of the pool (mem_pool_alloc).
TypeOK ==
  /\ free_block \in Blocks \cup {End}
  /\ word \in [Blocks -> UserWords \cup {1, End} \cup Blocks]
  /\ taken \subseteq Blocks
  /\ ret \in Blocks \cup {NULL}
-----------------------------------------------------------------------------
(* init_mem_pool marks the first block; the macro relies on zeroed storage *)
(* and marks nothing.                                                      *)
Init ==
  /\ free_block = PoolStart
  /\ IF InitBy = "init_mem_pool"
     THEN \E old \in [Blocks -> UserWords] : word = [old EXCEPT ![PoolStart] = 1]
     ELSE word = [b \in Blocks |-> 0]
  /\ taken = {}
  /\ ret = NULL

\* Mutant of NoMemoryFree: the last block is never handed out.
NoMemoryFreeEarly == free_block + ObjSize = End

NoMemoryFree == free_block = End

AllocNone ==
  /\ NoMemoryFree
  /\ ret' = NULL
  /\ UNCHANGED <<free_block, word, taken>>

HandOut(b) ==
  /\ ret' = b
  /\ taken' = taken \cup {b}

\* The words once the never used block at next, if there is one, is marked.
Marked(next) == IF next # End THEN [word EXCEPT ![next] = 1] ELSE word

\* Bit 0 is set: the block was never handed out, the next one is marked.
AllocFresh ==
  /\ ~NoMemoryFree
  /\ free_block \in Blocks
  /\ word[free_block] % 2 = 1
  /\ free_block' = free_block + ObjSize
  /\ word' = Marked(free_block + ObjSize)
  /\ HandOut(free_block)

\* Bit 0 is clear: the first word is the address of the next free block.
AllocReused ==
  /\ ~NoMemoryFree
  /\ free_block \in Blocks
  /\ word[free_block] % 2 = 0
  /\ free_block' = word[free_block]
  /\ HandOut(free_block)
  /\ UNCHANGED word

mem_pool_alloc == AllocNone \/ AllocFresh \/ AllocReused

\* Mutant of mem_pool_free: free_block is moved before it is stored.
FreeSwapped(b) ==
  /\ b \in taken
  /\ free_block' = b
  /\ word' = [word EXCEPT ![b] = b]
  /\ taken' = taken \ {b}
  /\ UNCHANGED ret

\* Clients free only what they hold.
mem_pool_free(b) ==
  /\ b \in taken
  /\ word' = [word EXCEPT ![b] = free_block]
  /\ free_block' = b
  /\ taken' = taken \ {b}
  /\ UNCHANGED ret

\* A client uses the first word of a block it holds.
ClientWrite(b, v) ==
  /\ b \in taken
  /\ word' = [word EXCEPT ![b] = v]
  /\ UNCHANGED <<free_block, taken, ret>>

Next ==
  \/ mem_pool_alloc
  \/ \E b \in taken : mem_pool_free(b)
  \/ \E b \in taken, v \in UserWords : ClientWrite(b, v)

Spec == Init /\ [][Next]_vars
-----------------------------------------------------------------------------
(***************************************************************************)
(* The shape of the free list.  fresh is the lowest block never handed     *)
(* out; the blocks below it that no client holds form one list from        *)
(* free_block down to fresh, depth giving each block's distance from the   *)
(* bottom, drawn from D.                                                   *)
(***************************************************************************)
Freed(fresh) == {b \in Blocks : b < fresh} \ taken

FreeListFrom(fresh, depth) ==
  /\ \A b \in taken : b < fresh
  /\ fresh \in Blocks => word[fresh] = 1
  /\ \/ free_block = fresh /\ Freed(fresh) = {}
     \/ /\ free_block \in Freed(fresh)
        /\ \A b \in Freed(fresh) : depth[b] <= depth[free_block]
  /\ \A b \in Freed(fresh) :
       IF depth[b] = 0 THEN word[b] = fresh
       ELSE word[b] \in Freed(fresh) /\ depth[word[b]] = depth[b] - 1
  /\ \A b, c \in Freed(fresh) : depth[b] = depth[c] => b = c

FreeListOver(D) ==
  \E fresh \in Blocks \cup {End}, depth \in [Blocks -> D] : FreeListFrom(fresh, depth)

\* At every moment, whatever the clients wrote into their blocks, the words
\* of the free blocks form one acyclic list that reaches every freed block
\* (mem_pool_alloc, mem_pool_free).
FreeListIntact == FreeListOver(0 .. NumBlocks - 1)

\* The pool hands out only blocks nobody holds, and NULL exactly when every
\* block is held: it implements Allocator (mem_pool.h, mem_pool_alloc).
AllocatorImpl == INSTANCE Allocator

\* Every behaviour of the pool is one of the abstract allocator.
AllocatorSpec == AllocatorImpl!Spec
=============================================================================
