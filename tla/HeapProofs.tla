----------------------------- MODULE HeapProofs -----------------------------
(***************************************************************************)
(* What the heap of heap.c guarantees whatever its size, its alignment and *)
(* the sizes asked for, provided the pool holds one header and rounding a  *)
(* size up does not wrap around.                                           *)
(***************************************************************************)
EXTENDS Heap, TLAPS

\* Rounding up to the alignment stays below the largest size_t.
NoSizeWraps == \A n \in Sizes : AlignedSize(n) \in Nat /\ AlignedSize(n) >= n

\* Every object is the memory of an allocated block that is long enough.
Backed ==
  \A p \in DOMAIN objs :
    /\ p \in Int
    /\ p - Hdr \in DOMAIN node /\ node[p - Hdr].used
    /\ objs[p] <= node[p - Hdr].size

\* The blocks heap_alloc has passed are too small, and merged.
Swept ==
  req # 0 =>
    \A a \in DOMAIN node :
      (cur = NULL \/ a < cur) /\ ~node[a].used =>
        /\ node[a].size < AlignedSize(req)
        /\ node[a].next = NULL \/ node[node[a].next].used

\* Between calls the cursor is not in use.
Idle == req = 0 => cur = NULL

HeapInv == TypeOK /\ TilesPool /\ Backed /\ Swept /\ Idle

-----------------------------------------------------------------------------
\* Every block lies in the pool, starts above NULL and before its own end.
LEMMA BlocksInPool ==
  ASSUME TypeOK, TilesPool, NEW a \in DOMAIN node
  PROVE  /\ a \in Int /\ Pool <= a
         /\ node[a].size \in Int /\ 0 <= node[a].size
         /\ node[a].used \in BOOLEAN
         /\ BlockEnd(a) \in Int /\ a + Hdr <= BlockEnd(a) /\ a < BlockEnd(a)
         /\ BlockEnd(a) <= PoolEnd
BY HeapAssumption DEF TypeOK, TilesPool, BlockEnd, PoolEnd, NULL

\* The initial heap is one free block that fills the pool.
LEMMA HeapInit == ASSUME Hdr <= PoolBytes, Init PROVE HeapInv
<1>1. (PoolBytes - Hdr) % SizeMod = PoolBytes - Hdr
  BY HeapAssumption
<1>2. DOMAIN node = {Pool} /\ node[Pool] = Header(PoolBytes - Hdr, NULL, FALSE)
  BY <1>1 DEF Init
<1>3. DOMAIN objs = {}
  BY DEF Init
<1>4. TypeOK
  BY <1>2, <1>3, HeapAssumption DEF TypeOK, Init, Header, Result, PoolEnd, NULL
<1>5. TilesPool
  BY <1>2, HeapAssumption DEF TilesPool, BlockEnd, Header, PoolEnd, NULL
<1> QED
  BY <1>3, <1>4, <1>5 DEF HeapInv, Backed, Swept, Idle, Init

-----------------------------------------------------------------------------
\* Two adjacent blocks, the second free, become one: the block at a grows by
\* the whole of the next one and everything else stays (heap_alloc, heap_free).
LEMMA MergeKeepsTiles ==
  ASSUME TypeOK, TilesPool, NEW a \in DOMAIN node,
         node[a].next # NULL, node' = Merged(a)
  PROVE  /\ node[a].next \in DOMAIN node /\ a < node[a].next
         /\ DOMAIN node' = DOMAIN node \ {node[a].next}
         /\ \A x \in DOMAIN node' \ {a} : node'[x] = node[x]
         /\ ~node'[a].used /\ node[a].size <= node'[a].size
         /\ node'[a].next = node[node[a].next].next
         /\ \A x \in DOMAIN node' :
              node'[x] \in [size : 0 .. PoolBytes, next : Nat, used : BOOLEAN]
         /\ TilesPool'
<1> DEFINE b == node[a].next
<1>1. b \in DOMAIN node /\ b = BlockEnd(a) /\ a < b
  BY BlocksInPool DEF TilesPool
<1>2. /\ DOMAIN node' = DOMAIN node \ {b}
      /\ \A x \in DOMAIN node' \ {a} : node'[x] = node[x]
      /\ a \in DOMAIN node'
      /\ node'[a] = Header((node[a].size + node[b].size) + Hdr, node[b].next, FALSE)
  <2>1. a # b
    BY <1>1, BlocksInPool
  <2> QED
    BY <1>1, <2>1 DEF Merged
<1>3. BlockEnd(a)' = BlockEnd(b)
  BY <1>1, <1>2, BlocksInPool, HeapAssumption DEF BlockEnd, Header
<1>4. \A x \in DOMAIN node' \ {a} : BlockEnd(x)' = BlockEnd(x)
  BY <1>2 DEF BlockEnd
<1>5. node'[a] \in [size : 0 .. PoolBytes, next : Nat, used : BOOLEAN]
  <2>1. (node[a].size + node[b].size) + Hdr \in 0 .. PoolBytes
    BY <1>1, BlocksInPool, HeapAssumption DEF BlockEnd, PoolEnd
  <2>2. node[b].next \in Nat
    BY <1>1 DEF TypeOK
  <2> QED
    BY <1>2, <2>1, <2>2 DEF Header
<1>6. \A x \in DOMAIN node' :
        node'[x] \in [size : 0 .. PoolBytes, next : Nat, used : BOOLEAN]
  BY <1>2, <1>5 DEF TypeOK
<1>7. TilesPool'
  <2>1. Pool \in DOMAIN node'
    BY <1>1, <1>2, BlocksInPool, HeapAssumption DEF TilesPool
  <2>2. ASSUME NEW x \in DOMAIN node'
        PROVE  IF node'[x].next = NULL THEN BlockEnd(x)' = PoolEnd
               ELSE node'[x].next \in DOMAIN node' /\ node'[x].next = BlockEnd(x)'
    <3>1. CASE x = a
      <4>1. node'[x].next = node[b].next
        BY <1>2, <3>1 DEF Header
      <4>2. BlockEnd(x)' = BlockEnd(b)
        BY <1>3, <3>1
      <4>3. b < BlockEnd(b) /\ b \in Int /\ BlockEnd(b) \in Int
        BY <1>1, BlocksInPool
      <4>4. BlockEnd(b) # b
        BY <4>3
      <4> QED
        BY <1>1, <1>2, <4>1, <4>2, <4>4 DEF TilesPool
    <3>2. CASE x # a
      <4>1. x \in DOMAIN node /\ node'[x] = node[x] /\ BlockEnd(x)' = BlockEnd(x)
        BY <1>2, <1>4, <3>2
      <4>2. BlockEnd(x) # b
        <5>1. CASE x < a
          BY <1>1, <4>1, <5>1 , BlocksInPool DEF TilesPool
        <5>2. CASE a < x
          BY <1>1, <4>1, <5>2 , BlocksInPool DEF TilesPool
        <5> QED
          BY <3>2, <4>1, <5>1, <5>2, BlocksInPool
      <4> QED
        BY <1>2, <4>1, <4>2 DEF TilesPool
    <3> QED
      BY <3>1, <3>2
  <2>3. ASSUME NEW x \in DOMAIN node', NEW y \in DOMAIN node', x < y
        PROVE  BlockEnd(x)' <= y
    <3>1. x \in DOMAIN node /\ y \in DOMAIN node /\ y # b /\ x # b
      BY <1>2
    <3>2. CASE x = a
      <4>1. BlockEnd(a) <= y
        BY <3>1, <3>2, <2>3 DEF TilesPool
      <4>2. b < y
        BY <1>1, <3>1, <4>1, BlocksInPool
      <4>3. BlockEnd(b) <= y
        BY <1>1, <3>1, <4>2 DEF TilesPool
      <4> QED
        BY <1>3, <3>2, <4>3
    <3>3. CASE x # a
      BY <1>4, <2>3, <3>1, <3>3 DEF TilesPool
    <3> QED
      BY <3>2, <3>3
  <2>4. PoolEnd' = PoolEnd
    BY DEF PoolEnd
  <2> QED
    BY <2>1, <2>2, <2>3, <2>4 DEF TilesPool
<1>8. ~node'[a].used /\ node[a].size <= node'[a].size /\ node'[a].next = node[b].next
  BY <1>1, <1>2, BlocksInPool, HeapAssumption DEF Header
<1> QED
  BY <1>1, <1>2, <1>6, <1>7, <1>8

\* Marking a block allocated or free moves no boundary (heap_alloc, heap_free).
LEMMA MarkKeepsTiles ==
  ASSUME TypeOK, TilesPool, NEW a \in DOMAIN node, NEW u \in BOOLEAN,
         node' = [node EXCEPT ![a].used = u]
  PROVE  /\ DOMAIN node' = DOMAIN node
         /\ \A x \in DOMAIN node \ {a} : node'[x] = node[x]
         /\ node'[a].size = node[a].size /\ node'[a].next = node[a].next
         /\ node'[a].used = u
         /\ \A x \in DOMAIN node' :
              node'[x] \in [size : 0 .. PoolBytes, next : Nat, used : BOOLEAN]
         /\ TilesPool'
<1>1. /\ DOMAIN node' = DOMAIN node
      /\ \A x \in DOMAIN node \ {a} : node'[x] = node[x]
      /\ node'[a] = [node[a] EXCEPT !.used = u]
  OBVIOUS
<1>2. node[a] \in [size : 0 .. PoolBytes, next : Nat, used : BOOLEAN]
  BY DEF TypeOK
<1>3. /\ node'[a].size = node[a].size /\ node'[a].next = node[a].next
      /\ node'[a].used = u
      /\ node'[a] \in [size : 0 .. PoolBytes, next : Nat, used : BOOLEAN]
  BY <1>1, <1>2
<1>4. \A x \in DOMAIN node :
        node'[x].next = node[x].next /\ BlockEnd(x)' = BlockEnd(x)
  BY <1>1, <1>3 DEF BlockEnd
<1>5. TilesPool'
  BY <1>1, <1>4 DEF TilesPool, PoolEnd
<1> QED
  BY <1>1, <1>3, <1>5 DEF TypeOK

\* A free block is cut in two: the new block takes the rest of its memory and
\* ends where the block ended (heap_alloc).
LEMMA SplitKeepsTiles ==
  ASSUME TypeOK, TilesPool, NEW a \in DOMAIN node, cur = a, NEW n \in Nat,
         node[a].size - n > Hdr, node' = SplitTaken(n)
  PROVE  /\ DOMAIN node \subseteq DOMAIN node'
         /\ DOMAIN node' \subseteq Pool .. PoolEnd
         /\ \A x \in DOMAIN node \ {a} : node'[x] = node[x]
         /\ node'[a].size = n /\ node'[a].used
         /\ \A x \in DOMAIN node' :
              node'[x] \in [size : 0 .. PoolBytes, next : Nat, used : BOOLEAN]
         /\ TilesPool'
<1>1. /\ a \in Int /\ node[a].size \in Int /\ Pool <= a
      /\ BlockEnd(a) = (a + Hdr) + node[a].size
      /\ BlockEnd(a) <= PoolEnd
  BY BlocksInPool DEF BlockEnd
<1>2. PICK b \in Int : b = (a + n) + Hdr
  BY <1>1, HeapAssumption
<1>3. a < b /\ b + Hdr < BlockEnd(a) /\ Pool <= b /\ b <= PoolEnd
  BY <1>2, <1>1, HeapAssumption DEF PoolEnd
<1>4. b \notin DOMAIN node
  BY <1>1, <1>3, BlocksInPool, HeapAssumption DEF TilesPool
<1>5. /\ DOMAIN node' = DOMAIN node \cup {b}
      /\ \A x \in DOMAIN node \ {a} : node'[x] = node[x]
      /\ node'[a] = Header(n, b, TRUE)
      /\ node'[b] = Header((node[a].size - n) - Hdr, node[a].next, FALSE)
  BY <1>2, <1>4 DEF SplitTaken
<1>6. /\ node'[a].size = n /\ node'[a].next = b /\ node'[a].used
      /\ node'[b].size = (node[a].size - n) - Hdr /\ node'[b].next = node[a].next
  BY <1>5 DEF Header
<1>7. BlockEnd(a)' = b /\ BlockEnd(b)' = BlockEnd(a)
  BY <1>2, <1>1, <1>6, HeapAssumption DEF BlockEnd
<1>8. \A x \in DOMAIN node \ {a} : BlockEnd(x)' = BlockEnd(x)
  BY <1>5 DEF BlockEnd
<1>9. DOMAIN node' \subseteq Pool .. PoolEnd
  BY <1>3, <1>5, HeapAssumption DEF TypeOK, PoolEnd
<1>10. \A x \in DOMAIN node' :
        node'[x] \in [size : 0 .. PoolBytes, next : Nat, used : BOOLEAN]
  <2>1. node[a] \in [size : 0 .. PoolBytes, next : Nat, used : BOOLEAN]
    BY DEF TypeOK
  <2>2. n \in 0 .. PoolBytes /\ (node[a].size - n) - Hdr \in 0 .. PoolBytes
    BY <2>1, HeapAssumption
  <2>3. b \in Nat /\ b # NULL
    BY <1>3, HeapAssumption DEF NULL
  <2>4. node[a].next \in Nat
    BY <2>1
  <2>5. /\ node'[a] \in [size : 0 .. PoolBytes, next : Nat, used : BOOLEAN]
        /\ node'[b] \in [size : 0 .. PoolBytes, next : Nat, used : BOOLEAN]
    BY <1>5, <2>2, <2>3, <2>4 DEF Header
  <2> QED
    BY <1>5, <2>5 DEF TypeOK
<1>11. TilesPool'
  <2>1. ASSUME NEW x \in DOMAIN node'
        PROVE  IF node'[x].next = NULL THEN BlockEnd(x)' = PoolEnd
               ELSE node'[x].next \in DOMAIN node' /\ node'[x].next = BlockEnd(x)'
    <3>1. CASE x = a
      <4>1. b # NULL
        BY <1>3, HeapAssumption DEF NULL
      <4> QED
        BY <1>5, <1>6, <1>7, <3>1, <4>1
    <3>2. CASE x = b
      BY <1>5, <1>6, <1>7, <3>2 DEF TilesPool
    <3>3. CASE x \in DOMAIN node \ {a}
      BY <1>5, <1>8, <3>3 DEF TilesPool
    <3> QED
      BY <1>5, <3>1, <3>2, <3>3
  <2>2. ASSUME NEW x \in DOMAIN node', NEW y \in DOMAIN node', x < y
        PROVE  BlockEnd(x)' <= y
    <3>1. CASE x = a
      <4>1. CASE y \in DOMAIN node
        <5>1. BlockEnd(a) <= y
          BY <2>2, <3>1, <4>1 DEF TilesPool
        <5> QED
          BY <1>1, <1>3, <1>7, <3>1, <4>1, <5>1, BlocksInPool, HeapAssumption
      <4> QED
        BY <1>3, <1>5, <1>7, <3>1, <4>1
    <3>2. CASE x = b
      <4>1. y \in DOMAIN node /\ a < y
        BY <1>1, <1>3, <1>5, <2>2, <3>2, BlocksInPool
      <4> QED
        BY <1>7, <3>2, <4>1 DEF TilesPool
    <3>3. CASE x \in DOMAIN node \ {a}
      <4>1. CASE y \in DOMAIN node
        BY <1>8, <2>2, <3>3, <4>1 DEF TilesPool
      <4>2. CASE y = b
        <5>1. x < a
          <6>1. CASE a < x
            <7>1. BlockEnd(a) <= x
              BY <3>3, <6>1 DEF TilesPool
            <7> QED
              BY <1>1, <1>3, <2>2, <3>3, <4>2, <7>1, BlocksInPool, HeapAssumption
          <6> QED
            BY <1>1, <3>3, <6>1, BlocksInPool
        <5>2. BlockEnd(x) <= a
          BY <3>3, <5>1 DEF TilesPool
        <5> QED
          BY <1>1, <1>3, <1>8, <3>3, <4>2, <5>2, BlocksInPool
      <4> QED
        BY <1>5, <4>1, <4>2
    <3> QED
      BY <1>5, <3>1, <3>2, <3>3
  <2>3. Pool \in DOMAIN node'
    BY <1>5 DEF TilesPool
  <2> QED
    BY <2>1, <2>2, <2>3 DEF TilesPool, PoolEnd
<1> QED
  BY <1>5, <1>6, <1>9, <1>10, <1>11

-----------------------------------------------------------------------------
\* Blocks that are not allocated back no object, and the memory of a block
\* tells which block it is.
LEMMA FreeBlockHasNoObject ==
  ASSUME Backed, NEW a \in DOMAIN node, a \in Int, ~node[a].used
  PROVE  a + Hdr \notin DOMAIN objs
<1>1. (a + Hdr) - Hdr = a
  BY HeapAssumption
<1> QED
  BY <1>1 DEF Backed

\* heap_alloc merges the cursor's block with the free block after it.
LEMMA MergeStep == ASSUME HeapInv, AllocMerge PROVE HeapInv'
<1> USE DEF HeapInv
<1>1. PICK a \in DOMAIN node : a = cur
  BY DEF AllocMerge, TypeOK
<1>2. node' = Merged(a) /\ CanMerge(a) /\ a # NULL
  BY <1>1 DEF AllocMerge
<1>3. PICK b : b = node[a].next
  OBVIOUS
<1>4. /\ b \in DOMAIN node /\ a < b /\ ~node[a].used /\ ~node[b].used
      /\ DOMAIN node' = DOMAIN node \ {b}
      /\ \A x \in DOMAIN node' \ {a} : node'[x] = node[x]
      /\ ~node'[a].used
      /\ \A x \in DOMAIN node' :
           node'[x] \in [size : 0 .. PoolBytes, next : Nat, used : BOOLEAN]
      /\ TilesPool'
  BY <1>2, <1>3, MergeKeepsTiles DEF CanMerge
<1>5. a # b
  BY <1>4, BlocksInPool
<1>6. TypeOK'
  BY <1>1, <1>4, <1>5 DEF TypeOK, AllocMerge
<1>7. Backed'
  BY <1>4 DEF Backed, AllocMerge
<1>8. Swept'
  <2>1. SUFFICES ASSUME req # 0, NEW x \in DOMAIN node', x < a, ~node'[x].used
                 PROVE  /\ node'[x].size < AlignedSize(req)
                        /\ node'[x].next = NULL \/ node'[node'[x].next].used
    BY <1>1, <1>2 DEF Swept, AllocMerge, AlignedSize
  <2>2. x \in DOMAIN node /\ x # a /\ node'[x] = node[x]
    BY <1>4, <2>1, BlocksInPool
  <2>3. /\ node[x].size < AlignedSize(req)
        /\ node[x].next = NULL \/ node[node[x].next].used
    BY <1>1, <2>1, <2>2 DEF Swept
  <2>4. node[x].next # NULL => node[x].next \in DOMAIN node' \ {a}
    BY <1>4, <2>2, <2>3 DEF TilesPool
  <2> QED
    BY <1>4, <2>2, <2>3, <2>4
<1> QED
  BY <1>4, <1>6, <1>7, <1>8 DEF Idle, AllocMerge

\* heap_alloc takes the cursor's block, as a whole or split; no client held
\* its memory.
LEMMA TakeStep ==
  ASSUME HeapInv, NoSizeWraps, AllocTake
  PROVE  HeapInv' /\ ret'.val \notin DOMAIN objs
<1> USE DEF HeapInv
<1>1. PICK a \in DOMAIN node : a = cur
  BY DEF AllocTake, TypeOK
<1>2. PICK n : n = AlignedSize(req)
  OBVIOUS
<1>3. req \in Sizes \ {0} /\ n \in Nat /\ req <= n
  BY <1>2 DEF AllocTake, TypeOK, NoSizeWraps
<1>4. /\ a \in Int /\ ~node[a].used /\ node[a].size \in Int /\ n <= node[a].size
      /\ req \in Int
  BY <1>1, <1>2, <1>3, BlocksInPool, HeapAssumption DEF AllocTake, Fits
<1>5. a + Hdr \notin DOMAIN objs
  BY <1>4, FreeBlockHasNoObject
<1>6. /\ DOMAIN node \subseteq DOMAIN node'
      /\ DOMAIN node' \subseteq Pool .. PoolEnd
      /\ \A x \in DOMAIN node \ {a} : node'[x] = node[x]
      /\ n <= node'[a].size /\ node'[a].used
      /\ \A x \in DOMAIN node' :
           node'[x] \in [size : 0 .. PoolBytes, next : Nat, used : BOOLEAN]
      /\ TilesPool'
  <2>1. CASE CanSplit
    <3>1. node' = SplitTaken(n) /\ node[a].size - n > Hdr
      BY <1>1, <1>2, <2>1 DEF AllocTake, CanSplit
    <3> QED
      BY <1>1, <1>3, <3>1, SplitKeepsTiles
  <2>2. CASE ~CanSplit
    <3>1. node' = [node EXCEPT ![a].used = TRUE]
      BY <1>1, <2>2 DEF AllocTake
    <3> QED
      BY <1>4, <3>1, MarkKeepsTiles DEF TypeOK
  <2> QED
    BY <2>1, <2>2
<1>7. /\ DOMAIN objs' = DOMAIN objs \cup {a + Hdr}
      /\ objs'[a + Hdr] = req
      /\ \A p \in DOMAIN objs : objs'[p] = objs[p]
  BY <1>1, <1>5 DEF AllocTake
<1>8. req' = 0 /\ cur' = NULL /\ ret' = Result(a + Hdr, "none")
  BY <1>1 DEF AllocTake
<1>9. ret'.val = a + Hdr /\ ret' \in [val : Nat, err : {"none", "EINVAL", "ENOMEM"}]
  BY <1>8, BlocksInPool, HeapAssumption DEF Result
<1>10. TypeOK'
  BY <1>3, <1>6, <1>7, <1>8, <1>9 DEF TypeOK, PoolEnd
<1>11. Backed'
  <2>1. SUFFICES ASSUME NEW p \in DOMAIN objs'
                 PROVE  /\ p \in Int
                        /\ p - Hdr \in DOMAIN node' /\ node'[p - Hdr].used
                        /\ objs'[p] <= node'[p - Hdr].size
    BY DEF Backed
  <2>2. CASE p = a + Hdr
    <3>1. p \in Int /\ p - Hdr = a
      BY <1>4, <2>2, HeapAssumption
    <3>2. node'[a].size \in Int /\ a \in DOMAIN node'
      BY <1>6
    <3> QED
      BY <1>3, <1>4, <1>6, <1>7, <2>2, <3>1, <3>2
  <2>3. CASE p \in DOMAIN objs
    <3>1. p - Hdr # a
      BY <1>4, <2>3 DEF Backed
    <3> QED
      BY <1>6, <1>7, <2>3, <3>1 DEF Backed
  <2> QED
    BY <1>7, <2>2, <2>3
<1> QED
  BY <1>5, <1>6, <1>8, <1>9, <1>10, <1>11 DEF Swept, Idle

\* heap_alloc passes a block: it is allocated, or merged and too small.
LEMMA SkipStep == ASSUME HeapInv, NoSizeWraps, AllocSkip PROVE HeapInv'
<1> USE DEF HeapInv
<1>1. PICK a \in DOMAIN node : a = cur
  BY DEF AllocSkip, TypeOK
<1>2. cur' = node[a].next /\ ~CanMerge(a) /\ req # 0
  BY <1>1 DEF AllocSkip, Following
<1>3. node[a].next = NULL \/ node[a].next \in DOMAIN node
  BY DEF TilesPool
<1>4. TypeOK' /\ TilesPool' /\ Backed'
  BY <1>2, <1>3 DEF TypeOK, TilesPool, Backed, AllocSkip, BlockEnd, PoolEnd
<1>5. Swept'
  <2>1. SUFFICES ASSUME NEW x \in DOMAIN node, cur' = NULL \/ x < cur', ~node[x].used
                 PROVE  /\ node[x].size < AlignedSize(req)
                        /\ node[x].next = NULL \/ node[node[x].next].used
    BY DEF Swept, AllocSkip, AlignedSize
  <2>2. x \in Int /\ a \in Int /\ BlockEnd(a) \in Int /\ BlockEnd(x) \in Int
        /\ x < BlockEnd(x) /\ BlockEnd(x) <= PoolEnd
    BY BlocksInPool
  <2>3. ~(a < x)
    <3>1. SUFFICES ASSUME a < x PROVE FALSE
      OBVIOUS
    <3>2. BlockEnd(a) <= x
      BY <3>1 DEF TilesPool
    <3>3. CASE node[a].next = NULL
      BY <2>2, <3>2, <3>3, HeapAssumption DEF TilesPool, PoolEnd
    <3>4. CASE node[a].next # NULL
      BY <1>2, <2>1, <2>2, <3>2, <3>4 DEF TilesPool
    <3> QED
      BY <3>3, <3>4
  <2>4. CASE x = a
    <3>1. ~Fits /\ node[a].size \in Int /\ AlignedSize(req) \in Int
      BY <1>1, <1>2, BlocksInPool DEF AllocSkip, NoSizeWraps, TypeOK
    <3> QED
      BY <1>1, <1>2, <2>1, <2>4, <3>1, BlocksInPool DEF Fits, CanMerge
  <2>5. CASE x < a
    BY <1>1, <1>2, <2>1, <2>5 DEF Swept
  <2> QED
    BY <2>2, <2>3, <2>4, <2>5
<1> QED
  BY <1>2, <1>4, <1>5 DEF Idle, AllocSkip

\* heap_free marks the block free and merges it with a free block after it.
LEMMA FreeStep ==
  ASSUME HeapInv, NEW p \in DOMAIN objs, heap_free(p)
  PROVE  HeapInv'
<1> USE DEF HeapInv
<1>1. PICK a \in DOMAIN node : a = p - Hdr /\ p \in Int
  BY DEF Backed
<1>2. PICK gone \in SUBSET DOMAIN node : a \notin gone
         /\ (\A x \in gone : ~node[x].used)
         /\ DOMAIN node' = DOMAIN node \ gone
         /\ (\A x \in DOMAIN node' \ {a} : node'[x] = node[x])
         /\ (\A x \in DOMAIN node' :
              node'[x] \in [size : 0 .. PoolBytes, next : Nat, used : BOOLEAN])
         /\ TilesPool'
  <2>1. CASE FreeMerges(a)
    <3>1. node' = Merged(a) /\ node[a].next # NULL /\ ~node[node[a].next].used
      BY <1>1, <2>1 DEF heap_free, FreeMerges
    <3>2. /\ node[a].next \in DOMAIN node /\ a < node[a].next
          /\ DOMAIN node' = DOMAIN node \ {node[a].next}
          /\ \A x \in DOMAIN node' \ {a} : node'[x] = node[x]
          /\ \A x \in DOMAIN node' :
               node'[x] \in [size : 0 .. PoolBytes, next : Nat, used : BOOLEAN]
          /\ TilesPool'
      BY <3>1, MergeKeepsTiles
    <3>3. a # node[a].next
      BY <3>2, BlocksInPool
    <3>4. {node[a].next} \in SUBSET DOMAIN node
      BY <3>2
    <3> USE <3>4
    <3> WITNESS {node[a].next} \in SUBSET DOMAIN node
    <3> QED
      BY <3>1, <3>2, <3>3
  <2>2. CASE ~FreeMerges(a)
    <3>1. node' = [node EXCEPT ![a].used = FALSE]
      BY <1>1, <2>2 DEF heap_free
    <3> WITNESS {} \in SUBSET DOMAIN node
    <3> QED
      BY <3>1, MarkKeepsTiles
  <2> QED
    BY <2>1, <2>2
<1>3. /\ DOMAIN objs' = DOMAIN objs \ {p}
      /\ \A q \in DOMAIN objs' : objs'[q] = objs[q]
      /\ req = 0 /\ req' = 0 /\ cur' = cur /\ ret' = Result(NULL, "none")
  BY DEF heap_free
<1>4. Backed'
  <2>1. SUFFICES ASSUME NEW q \in DOMAIN objs'
                 PROVE  /\ q \in Int
                        /\ q - Hdr \in DOMAIN node' /\ node'[q - Hdr].used
                        /\ objs'[q] <= node'[q - Hdr].size
    BY DEF Backed
  <2>2. q \in DOMAIN objs /\ q # p /\ q \in Int
    BY <1>3 DEF Backed
  <2>3. q - Hdr # a
    BY <1>1, <2>2, HeapAssumption
  <2> QED
    BY <1>2, <1>3, <2>2, <2>3 DEF Backed
<1>5. cur = NULL
  BY <1>3 DEF Idle
<1>6. TypeOK'
  BY <1>2, <1>3, <1>5 DEF TypeOK, Result, NULL
<1> QED
  BY <1>2, <1>3, <1>4, <1>6 DEF Swept, Idle

\* The steps that touch no block: a call starts, or returns with an error.
LEMMA OtherSteps ==
  ASSUME HeapInv,
         \/ \E n \in Sizes : heap_alloc(n)
         \/ InvalidArgument
         \/ AllocNoMemory
         \/ UNCHANGED vars
  PROVE  HeapInv'
<1> USE DEF HeapInv
<1>1. node' = node /\ objs' = objs
  BY DEF heap_alloc, InvalidArgument, AllocNoMemory, vars
<1>2. TilesPool' /\ Backed'
  BY <1>1 DEF TilesPool, Backed, BlockEnd, PoolEnd
<1>3. CASE \E n \in Sizes : heap_alloc(n)
  <2>1. cur' = Pool /\ req' \in Sizes \ {0} /\ ret' = ret /\ Pool \in DOMAIN node
    BY <1>3 DEF heap_alloc, TilesPool
  <2>2. TypeOK'
    BY <1>1, <2>1 DEF TypeOK
  <2>3. Swept'
    BY <1>1, <2>1, BlocksInPool, HeapAssumption DEF Swept, NULL
  <2> QED
    BY <1>2, <2>1, <2>2, <2>3 DEF Idle
<1>4. CASE InvalidArgument \/ AllocNoMemory
  <2>1. req' = 0 /\ cur' = cur
        /\ (ret' = Result(NULL, "EINVAL") \/ ret' = Result(NULL, "ENOMEM"))
    BY <1>4 DEF InvalidArgument, AllocNoMemory
  <2>2. TypeOK'
    BY <1>1, <2>1 DEF TypeOK, Result, NULL
  <2>3. cur = NULL
    BY <1>4 DEF InvalidArgument, AllocNoMemory, Idle
  <2> QED
    BY <1>2, <2>1, <2>2, <2>3 DEF Swept, Idle
<1>5. CASE UNCHANGED vars
  BY <1>1, <1>2, <1>5 DEF vars, TypeOK, Swept, AlignedSize, Idle
<1> QED
  BY <1>3, <1>4, <1>5

-----------------------------------------------------------------------------
\* Objects that are backed by blocks that tile the pool share no byte.
LEMMA BackedApart == ASSUME HeapInv PROVE ObjectsApart
<1> USE DEF HeapInv
<1>1. SUFFICES ASSUME NEW p \in DOMAIN objs
               PROVE  /\ Pool <= p /\ p + objs[p] <= PoolEnd
                      /\ \A q \in DOMAIN objs \ {p} :
                           p + objs[p] <= q \/ q + objs[q] <= p
                      /\ \A a \in DOMAIN node : a + Hdr <= p \/ p + objs[p] <= a
  BY DEF ObjectsApart
<1>2. \A q \in DOMAIN objs :
        /\ q \in Int /\ q - Hdr \in DOMAIN node /\ objs[q] \in Int
        /\ q - Hdr \in Int /\ BlockEnd(q - Hdr) \in Int
        /\ q + objs[q] <= BlockEnd(q - Hdr)
        /\ Pool <= q - Hdr /\ BlockEnd(q - Hdr) <= PoolEnd
  <2>1. SUFFICES ASSUME NEW q \in DOMAIN objs
                 PROVE  /\ q \in Int /\ q - Hdr \in DOMAIN node /\ objs[q] \in Int
                        /\ q - Hdr \in Int /\ BlockEnd(q - Hdr) \in Int
                        /\ q + objs[q] <= BlockEnd(q - Hdr)
                        /\ Pool <= q - Hdr /\ BlockEnd(q - Hdr) <= PoolEnd
    OBVIOUS
  <2>2. q \in Int /\ q - Hdr \in DOMAIN node /\ objs[q] <= node[q - Hdr].size
    BY DEF Backed
  <2>3. objs[q] \in Int
    <3>1. objs[q] \in Sizes
      BY DEF TypeOK
    <3>2. SizeMod \in Nat /\ Sizes \subseteq 0 .. SizeMod - 1
      BY HeapAssumption
    <3>3. objs[q] \in 0 .. SizeMod - 1
      BY <3>1, <3>2
    <3> QED
      BY <3>2, <3>3
  <2>4. /\ node[q - Hdr].size \in Int /\ Pool <= q - Hdr
        /\ BlockEnd(q - Hdr) \in Int /\ BlockEnd(q - Hdr) <= PoolEnd
    <3>1. PICK a \in DOMAIN node : a = q - Hdr
      BY <2>2
    <3>2. /\ node[a].size \in Int /\ Pool <= a
          /\ BlockEnd(a) \in Int /\ BlockEnd(a) <= PoolEnd
      BY BlocksInPool
    <3> QED
      BY <3>1, <3>2
  <2>5. BlockEnd(q - Hdr) = q + node[q - Hdr].size
    BY <2>2, <2>4, HeapAssumption DEF BlockEnd
  <2> QED
    BY <2>2, <2>3, <2>4, <2>5, HeapAssumption
<1>3. ASSUME NEW q \in DOMAIN objs \ {p}
      PROVE  p + objs[p] <= q \/ q + objs[q] <= p
  <2>1. CASE p < q
    <3>1. p - Hdr < q - Hdr
      BY <1>2, <2>1, HeapAssumption
    <3>2. BlockEnd(p - Hdr) <= q - Hdr
      BY <1>2, <3>1 DEF TilesPool
    <3> QED
      BY <1>2, <3>2, HeapAssumption
  <2>2. CASE q < p
    <3>1. q - Hdr < p - Hdr
      BY <1>2, <2>2, HeapAssumption
    <3>2. BlockEnd(q - Hdr) <= p - Hdr
      BY <1>2, <3>1 DEF TilesPool
    <3> QED
      BY <1>2, <3>2, HeapAssumption
  <2> QED
    BY <1>2, <2>1, <2>2
<1>4. ASSUME NEW a \in DOMAIN node
      PROVE  a + Hdr <= p \/ p + objs[p] <= a
  <2>1. a \in Int
    BY BlocksInPool
  <2>2. CASE p - Hdr < a
    <3>1. BlockEnd(p - Hdr) <= a
      BY <1>2, <2>2 DEF TilesPool
    <3> QED
      BY <1>2, <2>1, <3>1
  <2> QED
    BY <1>2, <2>1, <2>2, HeapAssumption
<1> QED
  BY <1>2, <1>3, <1>4, HeapAssumption DEF PoolEnd

\* A swept heap has no run of free blocks longer than one block.
LEMMA SweptHonest == ASSUME HeapInv PROVE NoMemoryIsHonest
<1> USE DEF HeapInv
<1>1. SUFFICES ASSUME req # 0, cur = NULL, NEW a \in DOMAIN node, NEW b \in DOMAIN node,
                      a <= b, \A c \in DOMAIN node : a <= c /\ c <= b => ~node[c].used
               PROVE  (BlockEnd(b) - a) - Hdr < AlignedSize(req)
  BY DEF NoMemoryIsHonest
<1>2. a \in Int /\ b \in Int /\ BlockEnd(a) \in Int /\ a < BlockEnd(a)
      /\ node[a].size \in Int /\ BlockEnd(a) = (a + Hdr) + node[a].size
      /\ b < BlockEnd(b) /\ BlockEnd(b) <= PoolEnd /\ BlockEnd(b) \in Int
  BY BlocksInPool DEF BlockEnd
<1>3. ~node[a].used
  BY <1>1, <1>2
<1>4. /\ node[a].size < AlignedSize(req)
      /\ node[a].next = NULL \/ node[node[a].next].used
  BY <1>1, <1>3 DEF Swept
<1>5. ~(a < b)
  <2>1. SUFFICES ASSUME a < b PROVE FALSE
    OBVIOUS
  <2>2. BlockEnd(a) <= b
    BY <2>1 DEF TilesPool
  <2>3. CASE node[a].next = NULL
    BY <1>2, <2>2, <2>3, HeapAssumption DEF TilesPool, PoolEnd
  <2>4. CASE node[a].next # NULL
    <3>1. node[a].next \in DOMAIN node /\ node[a].next = BlockEnd(a)
      BY <2>4 DEF TilesPool
    <3> QED
      BY <1>1, <1>2, <1>4, <2>2, <2>4, <3>1
  <2> QED
    BY <2>3, <2>4
<1>6. a = b
  BY <1>1, <1>2, <1>5
<1>7. (BlockEnd(b) - a) - Hdr = node[a].size
  BY <1>2, <1>6, HeapAssumption
<1> QED
  BY <1>4, <1>7

\* Every step of the heap keeps the invariant.
LEMMA HeapStep ==
  ASSUME HeapInv, NoSizeWraps, [Next]_vars
  PROVE  HeapInv'
<1>1. CASE AllocMerge
  BY <1>1, MergeStep
<1>2. CASE AllocTake
  BY <1>2, TakeStep
<1>3. CASE AllocSkip
  BY <1>3, SkipStep
<1>4. CASE \E p \in DOMAIN objs : heap_free(p)
  BY <1>4, FreeStep
<1> QED
  BY <1>1, <1>2, <1>3, <1>4, OtherSteps DEF Next, AllocStep

\* However clients allocate and free, the blocks tile the pool and the objects
\* clients hold share no byte with each other or with a header, for every pool
\* that holds a header and sizes whose rounding does not wrap (heap.c).
THEOREM HeapSafety ==
  ASSUME Hdr <= PoolBytes, NoSizeWraps
  PROVE  Spec => [](TypeOK /\ TilesPool /\ ObjectsApart)
<1>1. Init => HeapInv
  BY HeapInit
<1>2. HeapInv /\ [Next]_vars => HeapInv'
  BY HeapStep
<1>3. HeapInv => TypeOK /\ TilesPool /\ ObjectsApart
  BY BackedApart DEF HeapInv
<1> QED
  BY <1>1, <1>2, <1>3, PTL DEF Spec

\* heap_alloc answers ENOMEM only if no run of adjacent free blocks is long
\* enough: merging lazily never costs an allocation (heap_alloc).
THEOREM HeapNoMemoryIsHonest ==
  ASSUME Hdr <= PoolBytes, NoSizeWraps
  PROVE  Spec => []NoMemoryIsHonest
<1>1. Init => HeapInv
  BY HeapInit
<1>2. HeapInv /\ [Next]_vars => HeapInv'
  BY HeapStep
<1>3. HeapInv => NoMemoryIsHonest
  BY SweptHonest
<1> QED
  BY <1>1, <1>2, <1>3, PTL DEF Spec

\* heap_alloc never returns an address that a client holds (heap_alloc).
THEOREM HeapHandsOutFree ==
  ASSUME Hdr <= PoolBytes, NoSizeWraps
  PROVE  Spec => HandsOutFree
<1>1. Init => HeapInv
  BY HeapInit
<1>2. HeapInv /\ [Next]_vars => HeapInv'
  BY HeapStep
<1>3. HeapInv /\ [Next]_vars => [req # 0 /\ req' = 0 => ret'.val \notin DOMAIN objs]_vars
  <2>1. SUFFICES ASSUME HeapInv, Next, req # 0, req' = 0
                 PROVE  ret'.val \notin DOMAIN objs
    OBVIOUS
  <2>2. CASE AllocTake
    BY <2>1, <2>2, TakeStep
  <2>3. CASE AllocNoMemory
    <3>1. ret'.val = 0
      BY <2>3 DEF AllocNoMemory, Result, NULL
    <3>2. ~(\E p \in DOMAIN objs : p <= 0)
      <4>1. ASSUME NEW p \in DOMAIN objs PROVE p \in Int /\ 0 < p
        <5>1. p \in Int /\ p - Hdr \in DOMAIN node
          BY <2>1 DEF HeapInv, Backed
        <5>2. Pool <= p - Hdr
          BY <2>1, <5>1, BlocksInPool DEF HeapInv
        <5> QED
          BY <5>1, <5>2, HeapAssumption
      <4> QED
        BY <4>1
    <3> QED
      BY <3>1, <3>2
  <2> QED
    BY <2>1, <2>2, <2>3 DEF Next, AllocStep, heap_alloc, InvalidArgument, AllocMerge,
      AllocSkip, heap_free
<1> QED
  BY <1>1, <1>2, <1>3, PTL DEF Spec, HandsOutFree

\* Splits and merges lose no byte and make no overlap, for every pool
\* (heap_alloc, heap_free).
THEOREM HeapTilesPool ==
  ASSUME Hdr <= PoolBytes, NoSizeWraps
  PROVE  Spec => []TilesPool
BY HeapSafety, PTL
-----------------------------------------------------------------------------
\* The aligned addresses and sizes.
Multiples == {Align * k : k \in Nat}

\* Every header lies at an aligned address.
HeadersAligned == DOMAIN node \subseteq Multiples

\* Being aligned is having no remainder, and sums stay aligned.
LEMMA MultiplesOfAlign ==
  /\ \A x \in Nat : x % Align = 0 <=> x \in Multiples
  /\ \A x, y \in Multiples : x \in Nat /\ x + y \in Multiples
<1>0. Align \in Nat /\ Align > 0
  BY HeapAssumption
<1>1. ASSUME NEW x \in Nat, x % Align = 0 PROVE x \in Multiples
  <2>1. x \div Align \in Nat /\ x = Align * (x \div Align)
    BY <1>0, <1>1
  <2> QED BY <2>1 DEF Multiples
<1>2. ASSUME NEW k \in Nat PROVE (Align * k) % Align = 0 /\ Align * k \in Nat
  BY <1>0
<1>3. ASSUME NEW x \in Multiples, NEW y \in Multiples PROVE x \in Nat /\ x + y \in Multiples
  <2>1. PICK j \in Nat : x = Align * j
    BY DEF Multiples
  <2>2. PICK k \in Nat : y = Align * k
    BY DEF Multiples
  <2>3. x + y = Align * (j + k) /\ j + k \in Nat
    BY <1>0, <2>1, <2>2
  <2> QED BY <1>2, <2>1, <2>3 DEF Multiples
<1> QED BY <1>1, <1>2, <1>3 DEF Multiples

\* A size that is rounded up is aligned, unless the sum wrapped around
\* (heap_alloc).
LEMMA SizesAligned ==
  ASSUME Align < SizeMod, NoSizeWraps, NEW n \in Sizes
  PROVE  AlignedSize(n) \in Multiples
<1>0. /\ Align \in Nat /\ Align > 0 /\ SizeMod \in Nat /\ n \in Nat /\ n < SizeMod
      /\ AlignedSize(n) \in Nat /\ AlignedSize(n) >= n
  BY HeapAssumption DEF NoSizeWraps
<1>1. CASE n % Align = 0
  BY <1>0, <1>1, MultiplesOfAlign DEF AlignedSize
<1>2. CASE n % Align # 0
  <2> DEFINE r == n % Align
             m == n + (Align - r)
  <2>1. r \in 1 .. Align - 1 /\ n = Align * (n \div Align) + r /\ n \div Align \in Nat
    BY <1>0, <1>2
  <2>2. AlignedSize(n) = m % SizeMod
    BY <1>2 DEF AlignedSize
  <2>3. m \in Nat /\ m < n + SizeMod /\ n < m
    <3> HIDE DEF r
    <3> QED BY <1>0, <2>1
  <2>4. m % SizeMod = m
    <3> HIDE DEF m
    <3>1. CASE m < SizeMod
      BY <1>0, <2>3, <3>1
    <3>2. CASE m >= SizeMod
      <4>1. m % SizeMod = m - SizeMod
        <5>1. m - SizeMod \in 0 .. SizeMod - 1
          BY <1>0, <2>3, <3>2
        <5> QED BY <1>0, <2>3, <5>1
      <4> QED BY <1>0, <2>2, <2>3, <4>1
    <3> QED BY <1>0, <2>3, <3>1, <3>2
  <2>5. m = Align * ((n \div Align) + 1)
    <3> HIDE DEF r
    <3> QED BY <1>0, <2>1
  <2> QED BY <2>1, <2>2, <2>4, <2>5 DEF Multiples
<1> QED BY <1>1, <1>2

\* Only a split makes a new header, an aligned number of bytes above an aligned
\* one (heap_alloc).
LEMMA HeadersAlignedStep ==
  ASSUME HeapInv, HeadersAligned, Align < SizeMod, Hdr % Align = 0, NoSizeWraps, [Next]_vars
  PROVE  HeadersAligned'
<1>1. CASE AllocTake
  <2>1. req \in Sizes /\ cur \in DOMAIN node
    BY <1>1 DEF AllocTake, HeapInv, TypeOK
  <2>2. (cur + AlignedSize(req)) + Hdr \in Multiples
    <3>1. Hdr \in Multiples
      BY HeapAssumption, MultiplesOfAlign
    <3>2. cur + AlignedSize(req) \in Multiples
      BY <2>1, SizesAligned, MultiplesOfAlign DEF HeadersAligned
    <3> QED BY <3>1, <3>2, MultiplesOfAlign
  <2>3. DOMAIN node' \subseteq DOMAIN node \cup {(cur + AlignedSize(req)) + Hdr}
    BY <1>1 DEF AllocTake, SplitTaken
  <2> QED BY <2>2, <2>3 DEF HeadersAligned
<1>2. CASE AllocMerge
  <2>1. DOMAIN node' \subseteq DOMAIN node
    BY <1>2 DEF AllocMerge, Merged
  <2> QED BY <2>1 DEF HeadersAligned
<1>3. ASSUME NEW p \in DOMAIN objs, heap_free(p) PROVE HeadersAligned'
  <2>1. DOMAIN node' \subseteq DOMAIN node
    BY <1>3 DEF heap_free, Merged
  <2> QED BY <2>1 DEF HeadersAligned
<1>4. CASE UNCHANGED node
  BY <1>4 DEF HeadersAligned
<1> QED
  BY <1>1, <1>2, <1>3, <1>4 DEF Next, AllocStep, heap_alloc, InvalidArgument, AllocSkip,
    AllocNoMemory, vars

\* What clients hold is aligned, for every pool, every alignment and whatever was
\* allocated and freed before, if a header is a multiple of the alignment long
\* and no rounding wraps (heap_alloc, heap.h).
THEOREM HeapObjectsAligned ==
  ASSUME Hdr <= PoolBytes, NoSizeWraps, Hdr % Align = 0, Align < SizeMod
  PROVE  Spec => []ObjectsAligned
<1>1. Init => HeapInv
  BY HeapInit
<1>2. HeapInv /\ [Next]_vars => HeapInv'
  BY HeapStep
<1>3. Init => HeadersAligned
  BY HeapAssumption, MultiplesOfAlign DEF Init, HeadersAligned
<1>4. HeapInv /\ HeadersAligned /\ [Next]_vars => HeadersAligned'
  BY HeadersAlignedStep
<1>5. HeapInv /\ HeadersAligned => ObjectsAligned
  <2> SUFFICES ASSUME HeapInv, HeadersAligned, NEW p \in DOMAIN objs PROVE p % Align = 0
    BY DEF ObjectsAligned
  <2>1. p \in Int /\ p - Hdr \in Multiples
    BY DEF HeapInv, Backed, HeadersAligned
  <2>2. Hdr \in Multiples /\ (p - Hdr) + Hdr = p
    BY <2>1, HeapAssumption, MultiplesOfAlign
  <2>3. (p - Hdr) + Hdr \in Multiples
    BY <2>1, <2>2, MultiplesOfAlign
  <2> QED BY <2>2, <2>3, MultiplesOfAlign
<1> QED
  BY <1>1, <1>2, <1>3, <1>4, <1>5, PTL DEF Spec
=============================================================================
