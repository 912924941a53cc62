------------------------------- MODULE Heap ---------------------------------
(***************************************************************************)
(* The first-fit heap of heap.c.  The pool is tiled by blocks, each a      *)
(* header (heap_node_t) followed by its memory; bit 0 of a header's next   *)
(* pointer says that the block is allocated.  Free neighbours are merged   *)
(* lazily: by heap_alloc as it walks the blocks, and by heap_free with the *)
(* following block only.  node holds the headers of the linked blocks; the *)
(* bytes of a header that a merge swallows belong to the block from then   *)
(* on, and a client may overwrite them.                                    *)
(***************************************************************************)
EXTENDS Integers

CONSTANTS Pool,      \* address of the memory given to the heap
          PoolBytes, \* its size in bytes
          Align,     \* the alignment asked for
          Hdr,       \* sizeof(heap_node_t)
          SizeMod,   \* number of values of a size_t
          Sizes      \* bound: the sizes clients ask for

NULL == 0

ASSUME HeapAssumption ==
  /\ Pool \in Nat \ {0} /\ PoolBytes \in Nat /\ Hdr \in Nat \ {0}
  /\ Align \in Nat /\ Align >= 2
  /\ \E k \in 1 .. Align : Align = 2^k       \* heap.h asks for a power of 2
  /\ Pool % Align = 0                        \* otherwise init_heap returns -1
  /\ SizeMod \in Nat /\ SizeMod > PoolBytes
  /\ Sizes \subseteq 0 .. SizeMod - 1

PoolEnd == Pool + PoolBytes

VARIABLES node,  \* the headers of the blocks: size, next, and next's bit 0
          objs,  \* the objects clients hold: address -> size asked for
          cur,   \* heap_alloc's cursor
          req,   \* the size heap_alloc was called with, 0 when it is not running
          ret    \* the last operation's result, and errno if it was set

vars == <<node, objs, cur, req, ret>>

Header(size, next, used) == [size |-> size, next |-> next, used |-> used]
Result(val, err) == [val |-> val, err |-> err]

Init ==
  /\ node = [a \in {Pool} |-> Header((PoolBytes - Hdr) % SizeMod, NULL, FALSE)]
  /\ objs = [p \in {} |-> 0]
  /\ cur = NULL /\ req = 0 /\ ret = Result(NULL, "none")
-----------------------------------------------------------------------------
AlignedSizeExact(n) == n   \* mutant of AlignedSize

\* The size rounded up to the alignment, in a size_t.
AlignedSize(n) ==
  IF n % Align = 0 THEN n ELSE (n + (Align - (n % Align))) % SizeMod

\* The block at a after it took in the block that follows it.
Merged(a) ==
  LET b == node[a].next IN
  [x \in DOMAIN node \ {b} |->
     IF x = a THEN Header(node[a].size + node[b].size + Hdr, node[b].next, FALSE)
     ELSE node[x]]

CanMergeNever(a) == FALSE   \* mutant of CanMerge

CanMerge(a) ==
  /\ ~node[a].used
  /\ node[a].next # NULL
  /\ ~node[node[a].next].used

heap_alloc(n) ==
  /\ req = 0 /\ n # 0
  /\ req' = n /\ cur' = Pool
  /\ UNCHANGED <<node, objs, ret>>

\* heap_alloc of 0 bytes, or heap_free of NULL.
InvalidArgument ==
  /\ req = 0
  /\ ret' = Result(NULL, "EINVAL")
  /\ UNCHANGED <<node, objs, cur, req>>

AllocMerge ==
  /\ req # 0 /\ cur # NULL
  /\ CanMerge(cur)
  /\ node' = Merged(cur)
  /\ UNCHANGED <<objs, cur, req, ret>>

\* Mutants of Fits: the header counts as memory; allocated blocks fit too.
FitsWithHeader == node[cur].size + Hdr >= AlignedSize(req) /\ ~node[cur].used
FitsAnyUse == node[cur].size >= AlignedSize(req)

Fits == node[cur].size >= AlignedSize(req) /\ ~node[cur].used

CanSplit == node[cur].size - AlignedSize(req) > Hdr

\* Mutant of SplitTaken: the new block's header is not subtracted.
SplitTakenLong(n) ==
  LET new_block == cur + n + Hdr IN
  [a \in DOMAIN node \cup {new_block} |->
     CASE a = cur       -> Header(n, new_block, TRUE)
       [] a = new_block -> Header(node[cur].size - n, node[cur].next, FALSE)
       [] OTHER         -> node[a]]

\* The blocks once n bytes of cur are allocated and the rest is a new block.
SplitTaken(n) ==
  LET new_block == cur + n + Hdr IN
  [a \in DOMAIN node \cup {new_block} |->
     CASE a = cur       -> Header(n, new_block, TRUE)
       [] a = new_block -> Header((node[cur].size - n) - Hdr, node[cur].next, FALSE)
       [] OTHER         -> node[a]]

AllocTake ==
  /\ req # 0 /\ cur # NULL
  /\ ~CanMerge(cur) /\ Fits
  /\ node' = IF CanSplit THEN SplitTaken(AlignedSize(req))
             ELSE [node EXCEPT ![cur].used = TRUE]
  /\ objs' = [p \in DOMAIN objs \cup {cur + Hdr} |->
                IF p = cur + Hdr THEN req ELSE objs[p]]
  /\ ret' = Result(cur + Hdr, "none")
  /\ req' = 0 /\ cur' = NULL

\* Mutant of Following: the loop stays at its block.
FollowingStuck(a) == a

Following(a) == node[a].next

AllocSkip ==
  /\ req # 0 /\ cur # NULL
  /\ ~CanMerge(cur) /\ ~Fits
  /\ cur' = Following(cur)
  /\ UNCHANGED <<node, objs, req, ret>>

AllocNoMemory ==
  /\ req # 0 /\ cur = NULL
  /\ ret' = Result(NULL, "ENOMEM")
  /\ req' = 0
  /\ UNCHANGED <<node, objs, cur>>

\* heap_free merges the block with the next one only.
FreeMerges(a) == node[a].next # NULL /\ ~node[node[a].next].used

\* Clients free only what they hold.
heap_free(p) ==
  /\ req = 0 /\ p \in DOMAIN objs
  /\ node' = IF FreeMerges(p - Hdr) THEN Merged(p - Hdr)
             ELSE [node EXCEPT ![p - Hdr].used = FALSE]
  /\ objs' = [q \in DOMAIN objs \ {p} |-> objs[q]]
  /\ ret' = Result(NULL, "none")
  /\ UNCHANGED <<cur, req>>

AllocStep == AllocMerge \/ AllocTake \/ AllocSkip \/ AllocNoMemory

Next ==
  \/ \E n \in Sizes : heap_alloc(n)
  \/ InvalidArgument \/ AllocStep
  \/ \E p \in DOMAIN objs : heap_free(p)

Spec == Init /\ [][Next]_vars

\* A call of heap_alloc runs to its end.
FairSpec == Spec /\ WF_vars(AllocStep)
-----------------------------------------------------------------------------
\* One past the block with its header at a.
BlockEnd(a) == a + Hdr + node[a].size

\* Headers lie in the pool, no block is longer than it, and the walk of
\* heap_alloc stands on a header or at the end.
TypeOK ==
  /\ DOMAIN node \subseteq Pool .. PoolEnd
  /\ \A a \in DOMAIN node :
       node[a] \in [size : 0 .. PoolBytes, next : Nat, used : BOOLEAN]
  /\ cur \in DOMAIN node \cup {NULL}
  /\ \A p \in DOMAIN objs : objs[p] \in Sizes \ {0}
  /\ req \in Sizes \cup {0}
  /\ ret \in [val : Nat, err : {"none", "EINVAL", "ENOMEM"}]

\* The blocks tile the pool: the first is at its start, each is followed by
\* its next, none covers another's header and the last ends where the pool
\* ends.  No byte is lost by splits and merges (heap_alloc, heap_free).
TilesPool ==
  /\ Pool \in DOMAIN node
  /\ \A a \in DOMAIN node :
       IF node[a].next = NULL THEN BlockEnd(a) = PoolEnd
       ELSE node[a].next \in DOMAIN node /\ node[a].next = BlockEnd(a)
  /\ \A a, b \in DOMAIN node : a < b => BlockEnd(a) <= b

\* The bytes a client asked for lie inside the pool, and neither another
\* client's object nor a header shares any of them (heap_alloc).
ObjectsApart ==
  \A p \in DOMAIN objs :
    /\ Pool <= p /\ p + objs[p] <= PoolEnd
    /\ \A q \in DOMAIN objs \ {p} : p + objs[p] <= q \/ q + objs[q] <= p
    /\ \A a \in DOMAIN node : a + Hdr <= p \/ p + objs[p] <= a

\* A call of heap_alloc never returns memory that a client already holds.
HandsOutFree ==
  [][req # 0 /\ req' = 0 => ret'.val \notin DOMAIN objs]_vars

\* heap_alloc gives up only when no run of adjacent free blocks, merged into
\* one, would hold the request: lazy merging never costs an allocation
\* (heap.h:34, "or NULL if no memory was free").  Whatever was allocated and
\* freed before, a heap with no object left is available as a whole.
NoMemoryIsHonest ==
  req # 0 /\ cur = NULL =>
    \A a, b \in DOMAIN node :
      (a <= b /\ \A c \in DOMAIN node : a <= c /\ c <= b => ~node[c].used)
        => (BlockEnd(b) - a) - Hdr < AlignedSize(req)

\* The memory handed out has the alignment the heap was made with (heap.h:24,
\* "The alignment of the memory blocks").
ObjectsAligned == \A p \in DOMAIN objs : p % Align = 0

\* Every call of heap_alloc returns.
AllocReturns == req # 0 ~> req = 0
=============================================================================
