--------------------------- MODULE MemPoolProofs ---------------------------
(***************************************************************************)
(* Proofs about MemPool, for every pool initialised by init_mem_pool whose *)
(* addresses are even.                                                     *)
(***************************************************************************)
EXTENDS MemPool, TLAPS, FiniteSetTheorems, WellFoundedInduction

\* The sizes init_mem_pool stores: at least one whole object, and a pool that
\* is a multiple of the object size.
LEMMA Sizes ==
  ASSUME InitBy = "init_mem_pool"
  PROVE  /\ ObjSize \in Nat \ {0}
         /\ NumBlocks \in Nat \ {0}
         /\ PoolSize = NumBlocks * ObjSize
<1>1. ObjSize \in Nat \ {0}
  BY MemPoolAssumption DEF ObjSize
<1>2. /\ PoolBytes \div ObjSize \in Nat
      /\ PoolBytes % ObjSize \in Nat
      /\ PoolBytes = ObjSize * (PoolBytes \div ObjSize) + (PoolBytes % ObjSize)
  BY <1>1, MemPoolAssumption
<1>3. PoolSize = NumBlocks * ObjSize
  BY <1>1, <1>2, MemPoolAssumption DEF PoolSize, NumBlocks
<1>4. NumBlocks # 0
  BY <1>1, <1>3, MemPoolAssumption
<1>5. QED
  BY <1>1, <1>2, <1>3, <1>4 DEF NumBlocks

\* Where the next block begins, and that blocks do not overlap.
LEMMA BlockLayout ==
  ASSUME InitBy = "init_mem_pool"
  PROVE  /\ Blocks \subseteq Nat
         /\ End \in Nat
         /\ PoolStart \in Blocks
         /\ NULL \notin Blocks
         /\ \A a \in Blocks : a < End /\ a + ObjSize \in Blocks \cup {End}
         /\ \A a, b \in Blocks \cup {End} : a < b => a + ObjSize <= b
<1> DEFINE N == NumBlocks
           S == ObjSize
<1>1. S \in Nat \ {0} /\ N \in Nat \ {0} /\ End = PoolStart + N * S /\ PoolStart \in Nat \ {0}
  BY Sizes, MemPoolAssumption DEF End
<1> HIDE DEF N, S
<1>2. \A i, j \in Nat : i < j => i * S + S <= j * S
  BY <1>1
<1>3. \A i \in Nat : (i + 1) * S = i * S + S /\ i * S \in Nat
  BY <1>1
<1>4. Blocks = {PoolStart + i * S : i \in 0 .. N - 1}
  BY DEF Blocks, N, S
<1>5. \A a \in Blocks : \E i \in 0 .. N - 1 : a = PoolStart + i * S
  BY <1>4
<1>6. Blocks \subseteq Nat /\ End \in Nat
  BY <1>1, <1>3, <1>5
<1>7. PoolStart \in Blocks
  <2>1. PoolStart = PoolStart + 0 * S /\ 0 \in 0 .. N - 1
    BY <1>1
  <2>2. QED
    BY <2>1, <1>4
<1>8. NULL \notin Blocks
  BY <1>1, <1>3, <1>5 DEF NULL
<1>9. ASSUME NEW a \in Blocks
      PROVE  a < End /\ a + S \in Blocks \cup {End}
  <2>1. PICK i \in 0 .. N - 1 : a = PoolStart + i * S
    BY <1>5
  <2>2. a + S = PoolStart + (i + 1) * S
    BY <2>1, <1>1, <1>3
  <2>3. CASE i + 1 = N
    BY <2>2, <2>3, <1>1, <2>1, <1>3
  <2>4. CASE i + 1 \in 0 .. N - 1
    <3>1. a + S \in Blocks
      BY <2>2, <2>4, <1>4
    <3>2. a < End
      BY <2>1, <1>1, <1>2, <1>3
    <3>3. QED
      BY <3>1, <3>2
  <2>5. QED
    BY <2>3, <2>4, <1>1
<1>10. ASSUME NEW a \in Blocks \cup {End}, NEW b \in Blocks \cup {End}, a < b
       PROVE  a + S <= b
  <2>1. \A c \in Blocks \cup {End} : \E i \in Nat : c = PoolStart + i * S
    <3>1. ASSUME NEW c \in Blocks PROVE \E i \in Nat : c = PoolStart + i * S
      <4>1. PICK i \in 0 .. N - 1 : c = PoolStart + i * S
        BY <1>5
      <4>2. i \in Nat
        BY <1>1
      <4>3. QED
        BY <4>1, <4>2
    <3>2. QED
      BY <3>1, <1>1
  <2>2. PICK i \in Nat : a = PoolStart + i * S
    BY <2>1
  <2>3. PICK j \in Nat : b = PoolStart + j * S
    BY <2>1
  <2>4. i < j
    BY <2>2, <2>3, <1>1, <1>2, <1>3, <1>10
  <2>5. QED
    BY <2>2, <2>3, <2>4, <1>1, <1>2, <1>3
<1>11. QED
  BY <1>6, <1>7, <1>8, <1>9, <1>10 DEF S

\* A pointer into the pool never has bit 0 set.
LEMMA PointersAreEven ==
  ASSUME InitBy = "init_mem_pool", EvenBlocks
  PROVE  \A a \in Blocks \cup {End} : a % 2 = 0
<1>0. \A x \in Nat : x % 2 = 0 => \E h \in Nat : x = 2 * h
  <2> TAKE x \in Nat
  <2>1. x \div 2 \in Nat /\ (x % 2 = 0 => x = 2 * (x \div 2))
    OBVIOUS
  <2>2. QED
    BY <2>1
<1>1. PICK p \in Nat : PoolStart = 2 * p
  BY <1>0, MemPoolAssumption DEF EvenBlocks
<1>2. PICK s \in Nat : ObjSize = 2 * s
  BY <1>0, Sizes DEF EvenBlocks
<1>3. \A i \in Nat : (PoolStart + i * ObjSize) % 2 = 0
  <2> TAKE i \in Nat
  <2>1. PoolStart + i * ObjSize = 2 * (p + i * s)
    BY <1>1, <1>2
  <2>2. p + i * s \in Nat
    BY <1>1, <1>2
  <2>3. \A k \in Nat : (2 * k) % 2 = 0
    OBVIOUS
  <2>4. QED
    BY <2>1, <2>2, <2>3
<1>4. End = PoolStart + NumBlocks * ObjSize
  BY Sizes DEF End
<1>5. QED
  BY <1>3, <1>4, Sizes DEF Blocks
-----------------------------------------------------------------------------
\* The inductive invariant: types and the shape of the free list.
PoolInv == TypeOK /\ FreeListOver(Nat)

\* init_mem_pool establishes the invariant: one mark, in the first block.
LEMMA PoolInvInit ==
  ASSUME InitBy = "init_mem_pool", Init
  PROVE  PoolInv
<1>1. PICK old \in [Blocks -> UserWords] : word = [old EXCEPT ![PoolStart] = 1]
  BY DEF Init
<1>2. TypeOK
  BY <1>1, BlockLayout DEF Init, TypeOK
<1>3. FreeListFrom(PoolStart, [b \in Blocks |-> 0])
  <2>1. Freed(PoolStart) = {}
    <3>1. \A b \in Blocks : ~(b < PoolStart)
      BY Sizes, MemPoolAssumption DEF Blocks
    <3>2. QED
      BY <3>1 DEF Freed
  <2>2. QED
    BY <1>1, <2>1, BlockLayout DEF Init, FreeListFrom
<1>4. QED
  BY <1>2, <1>3, BlockLayout DEF PoolInv, FreeListOver

\* An allocation that finds the mark moves it on by one block and hands out a
\* block no client holds (mem_pool_alloc).
LEMMA AllocFreshStep ==
  ASSUME InitBy = "init_mem_pool", EvenBlocks, PoolInv, AllocFresh
  PROVE  PoolInv' /\ free_block \notin taken
<1>1. PICK fresh \in Blocks \cup {End}, depth \in [Blocks -> Nat] : FreeListFrom(fresh, depth)
  BY DEF PoolInv, FreeListOver
<1>2. free_block = fresh /\ Freed(fresh) = {}
  <2>1. SUFFICES ASSUME free_block \in Freed(fresh) PROVE FALSE
    BY <1>1 DEF FreeListFrom
  <2>2. word[free_block] \in Blocks \cup {End}
    BY <1>1, <2>1 DEF FreeListFrom, Freed
  <2>3. QED
    BY <2>2, PointersAreEven DEF AllocFresh
<1>3. free_block \in Blocks /\ free_block \notin taken
  BY <1>1, <1>2, BlockLayout DEF AllocFresh, FreeListFrom
<1>4. PICK next \in Blocks \cup {End} :
        next = free_block + ObjSize /\ free_block < next /\ next \in Nat
  BY <1>3, BlockLayout, Sizes
<1>5. TypeOK'
  BY <1>3, <1>4 DEF PoolInv, TypeOK, AllocFresh, Marked, HandOut
<1>6. FreeListFrom(next, depth)'
  <2>1. Freed(next)' = {}
    <3>1. \A b \in Blocks : b < next => b = fresh \/ b < fresh
      BY <1>2, <1>3, <1>4, BlockLayout, Sizes
    <3>2. QED
      BY <3>1, <1>2 DEF Freed, AllocFresh, Marked, HandOut
  <2>2. \A b \in taken' : b < next
    BY <1>1, <1>2, <1>3, <1>4, BlockLayout DEF FreeListFrom, AllocFresh, Marked, HandOut, PoolInv, TypeOK
  <2>3. next \in Blocks => word'[next] = 1
    BY <1>4, BlockLayout DEF AllocFresh, Marked, PoolInv, TypeOK
  <2>4. QED
    BY <1>4, <2>1, <2>2, <2>3 DEF FreeListFrom, AllocFresh
<1>7. QED
  BY <1>3, <1>4, <1>5, <1>6 DEF PoolInv, FreeListOver

\* An allocation that finds a link takes the chain's first block, which no
\* client holds (mem_pool_alloc).
LEMMA AllocReusedStep ==
  ASSUME InitBy = "init_mem_pool", EvenBlocks, PoolInv, AllocReused
  PROVE  PoolInv' /\ free_block \notin taken
<1>1. PICK fresh \in Blocks \cup {End}, depth \in [Blocks -> Nat] : FreeListFrom(fresh, depth)
  BY DEF PoolInv, FreeListOver
<1>2. free_block \in Freed(fresh) /\ \A b \in Freed(fresh) : depth[b] <= depth[free_block]
  BY <1>1 DEF FreeListFrom, AllocReused
<1>3. Freed(fresh)' = Freed(fresh) \ {free_block} /\ free_block \notin taken
  BY <1>2 DEF Freed, AllocReused, HandOut
<1>4. TypeOK'
  BY <1>1, <1>2 DEF PoolInv, TypeOK, AllocReused, HandOut, FreeListFrom, Freed
<1>5. FreeListFrom(fresh, depth)'
  <2>1. \A b \in taken' : b < fresh
    BY <1>1, <1>2 DEF FreeListFrom, AllocReused, HandOut, Freed
  <2>2. ASSUME NEW b \in Freed(fresh)'
        PROVE  /\ depth[b] < depth[free_block]
               /\ depth[b] \in Nat
               /\ IF depth[b] = 0 THEN word'[b] = fresh
                  ELSE word'[b] \in Freed(fresh)' /\ depth[word'[b]] = depth[b] - 1
    <3>1. depth[b] < depth[free_block] /\ depth[b] \in Nat /\ depth[free_block] \in Nat
      BY <1>1, <1>2, <1>3 DEF FreeListFrom, Freed
    <3>2. QED
      BY <3>1, <1>1, <1>2, <1>3 DEF FreeListFrom, AllocReused, Freed
  <2>3. \/ free_block' = fresh /\ Freed(fresh)' = {}
        \/ /\ free_block' \in Freed(fresh)'
           /\ \A b \in Freed(fresh)' : depth[b] <= depth[free_block']
    <3>1. CASE depth[free_block] = 0
      BY <3>1, <1>1, <1>2, <2>2 DEF FreeListFrom, AllocReused
    <3>2. CASE depth[free_block] # 0
      <4>1. word[free_block] \in Freed(fresh) /\ depth[word[free_block]] = depth[free_block] - 1
        BY <3>2, <1>1, <1>2 DEF FreeListFrom
      <4>2. depth[free_block] \in Nat
        BY <1>2, <1>1 DEF Freed
      <4>3. word[free_block] # free_block
        BY <4>1, <4>2
      <4>4. free_block' \in Freed(fresh)' /\ depth[free_block'] = depth[free_block] - 1
        BY <4>1, <4>3, <1>3 DEF AllocReused
      <4>5. QED
        BY <4>2, <4>4, <2>2
    <3>3. QED
      BY <3>1, <3>2
  <2>4. QED
    BY <1>1, <1>3, <2>1, <2>2, <2>3 DEF FreeListFrom, AllocReused
<1>6. QED
  BY <1>3, <1>4, <1>5 DEF PoolInv, FreeListOver

\* A free puts the block before the chain (mem_pool_free).
LEMMA FreeStep ==
  ASSUME InitBy = "init_mem_pool", PoolInv, NEW obj \in taken, mem_pool_free(obj)
  PROVE  PoolInv'
<1>1. PICK fresh \in Blocks \cup {End}, depth \in [Blocks -> Nat] : FreeListFrom(fresh, depth)
  BY DEF PoolInv, FreeListOver
<1>2. obj \in Blocks /\ obj < fresh /\ obj \notin Freed(fresh)
  BY <1>1 DEF FreeListFrom, PoolInv, TypeOK, Freed
<1>3. Freed(fresh)' = Freed(fresh) \cup {obj} /\ Freed(fresh) \subseteq Blocks
  BY <1>2 DEF Freed, mem_pool_free
<1>4. TypeOK'
  BY <1>2 DEF PoolInv, TypeOK, mem_pool_free
<1>5. PICK top \in Nat : top = IF free_block = fresh THEN 0 ELSE depth[free_block] + 1
  BY <1>1, <1>3 DEF FreeListFrom
<1>6. PICK d \in [Blocks -> Nat] : d = [depth EXCEPT ![obj] = top]
  BY <1>1, <1>5
<1>7. /\ \A b \in Freed(fresh) : d[b] = depth[b] /\ d[b] < top /\ word'[b] = word[b] /\ d[b] \in Nat
      /\ d[obj] = top /\ word'[obj] = free_block
  <2>1. \A b \in Freed(fresh) : b # obj /\ depth[b] \in Nat
    BY <1>1, <1>2, <1>3
  <2>2. \A b \in Freed(fresh) : free_block # fresh /\ depth[b] <= depth[free_block]
                                 /\ depth[free_block] \in Nat
    BY <2>1, <1>1, <1>2, <1>3, BlockLayout DEF FreeListFrom, Freed
  <2>3. \A b \in Freed(fresh) : d[b] = depth[b] /\ word'[b] = word[b]
    BY <2>1, <1>2, <1>3, <1>6 DEF mem_pool_free, PoolInv, TypeOK
  <2>4. d[obj] = top /\ word'[obj] = free_block
    BY <1>2, <1>6 DEF mem_pool_free, PoolInv, TypeOK
  <2>5. QED
    BY <2>1, <2>2, <2>3, <2>4, <1>5
<1>8. FreeListFrom(fresh, d)'
  <2>1. \A b \in taken' : b < fresh
    BY <1>1 DEF FreeListFrom, mem_pool_free
  <2>2. fresh \in Blocks => word'[fresh] = 1
    BY <1>1, <1>2, BlockLayout DEF FreeListFrom, mem_pool_free, PoolInv, TypeOK
  <2>3. free_block' \in Freed(fresh)' /\ \A b \in Freed(fresh)' : d[b] <= d[free_block']
    BY <1>3, <1>5, <1>7 DEF mem_pool_free
  <2>4. ASSUME NEW b \in Freed(fresh)'
        PROVE  IF d[b] = 0 THEN word'[b] = fresh
               ELSE word'[b] \in Freed(fresh)' /\ d[word'[b]] = d[b] - 1
    <3>1. CASE b = obj
      <4>1. CASE free_block = fresh
        BY <3>1, <4>1, <1>5, <1>7
      <4>2. CASE free_block # fresh
        <5>1. free_block \in Freed(fresh)
          BY <4>2, <1>1 DEF FreeListFrom
        <5>2. depth[free_block] \in Nat
          BY <5>1, <1>1, <1>3
        <5>3. QED
          BY <3>1, <4>2, <5>1, <5>2, <1>3, <1>5, <1>7
      <4>3. QED
        BY <4>1, <4>2
    <3>2. CASE b \in Freed(fresh)
      BY <3>2, <1>1, <1>3, <1>7 DEF FreeListFrom
    <3>3. QED
      BY <3>1, <3>2, <1>3
  <2>5. \A b, c \in Freed(fresh)' : d[b] = d[c] => b = c
    BY <1>1, <1>3, <1>7, <1>5 DEF FreeListFrom
  <2>6. QED
    BY <2>1, <2>2, <2>3, <2>4, <2>5 DEF FreeListFrom
<1>9. QED
  BY <1>4, <1>8 DEF PoolInv, FreeListOver

\* A client's write into its own object leaves the chain alone.
LEMMA ClientWriteStep ==
  ASSUME InitBy = "init_mem_pool", PoolInv, NEW obj \in taken, NEW v \in UserWords,
         ClientWrite(obj, v)
  PROVE  PoolInv'
<1>1. PICK fresh \in Blocks \cup {End}, depth \in [Blocks -> Nat] : FreeListFrom(fresh, depth)
  BY DEF PoolInv, FreeListOver
<1>2. TypeOK'
  BY DEF PoolInv, TypeOK, ClientWrite
<1>3. Freed(fresh)' = Freed(fresh) /\ obj < fresh /\ obj \in Blocks
  BY <1>1 DEF FreeListFrom, Freed, ClientWrite, PoolInv, TypeOK
<1>4. \A b \in Blocks : b # obj => word'[b] = word[b]
  BY DEF ClientWrite, PoolInv, TypeOK
<1>5. \A b \in Freed(fresh) : b # obj /\ b \in Blocks
  BY DEF Freed
<1>6. FreeListFrom(fresh, depth)'
  BY <1>1, <1>3, <1>4, <1>5, BlockLayout DEF FreeListFrom, ClientWrite
<1>7. QED
  BY <1>1, <1>2, <1>6 DEF PoolInv, FreeListOver

\* Every step of the pool and its clients keeps the invariant.
LEMMA PoolInvStep ==
  ASSUME InitBy = "init_mem_pool", EvenBlocks, PoolInv, [Next]_vars
  PROVE  PoolInv'
<1>1. CASE AllocNone
  BY <1>1, BlockLayout
    DEF AllocNone, PoolInv, TypeOK, FreeListOver, FreeListFrom, Freed, NoMemoryFree
<1>2. CASE AllocFresh
  BY <1>2, AllocFreshStep
<1>3. CASE AllocReused
  BY <1>3, AllocReusedStep
<1>4. CASE \E b \in taken : mem_pool_free(b)
  BY <1>4, FreeStep
<1>5. CASE \E b \in taken, v \in UserWords : ClientWrite(b, v)
  BY <1>5, ClientWriteStep
<1>6. CASE UNCHANGED vars
  BY <1>6 DEF vars, PoolInv, TypeOK, FreeListOver, FreeListFrom, Freed
<1>7. QED
  BY <1>1, <1>2, <1>3, <1>4, <1>5, <1>6 DEF Next, mem_pool_alloc

\* In every pool with even addresses, of any number of blocks, free_block,
\* the words and the set of held blocks keep their types and the free list
\* keeps its shape, whatever the clients write into the blocks they hold.
THEOREM PoolSafety ==
  ASSUME InitBy = "init_mem_pool", EvenBlocks
  PROVE  Spec => []PoolInv
<1>1. Init => PoolInv
  BY PoolInvInit
<1>2. PoolInv /\ [Next]_vars => PoolInv'
  BY PoolInvStep
<1>3. QED
  BY <1>1, <1>2, PTL DEF Spec

\* The pool implements Allocator: no block is handed out while a client
\* holds it, and NULL is returned only when every block is held.
THEOREM PoolImplementsAllocator ==
  ASSUME InitBy = "init_mem_pool", EvenBlocks
  PROVE  Spec => AllocatorSpec
<1>1. Init => AllocatorImpl!Init
  BY DEF Init, AllocatorImpl!Init
<1>2. PoolInv /\ [Next]_vars => [AllocatorImpl!Next]_(AllocatorImpl!vars)
  <2>1. SUFFICES ASSUME PoolInv, [Next]_vars
                 PROVE  AllocatorImpl!Next \/ UNCHANGED <<taken, ret>>
    BY DEF AllocatorImpl!vars
  <2>2. CASE AllocNone
    <3>1. PICK fresh \in Blocks \cup {End}, depth \in [Blocks -> Nat] :
            FreeListFrom(fresh, depth)
      BY <2>1 DEF PoolInv, FreeListOver
    <3>2. free_block = fresh /\ Freed(fresh) = {}
      BY <3>1, <2>2, BlockLayout DEF FreeListFrom, AllocNone, NoMemoryFree, Freed
    <3>3. taken = Blocks
      BY <2>1, <2>2, <3>2, BlockLayout
        DEF AllocNone, NoMemoryFree, Freed, PoolInv, TypeOK
    <3>4. QED
      BY <2>2, <3>3 DEF AllocNone, AllocatorImpl!Next, AllocatorImpl!Alloc
  <2>3. CASE AllocFresh
    BY <2>1, <2>3, AllocFreshStep
      DEF AllocFresh, Marked, HandOut, AllocatorImpl!Next, AllocatorImpl!Alloc
  <2>4. CASE AllocReused
    BY <2>1, <2>4, AllocReusedStep
      DEF AllocReused, HandOut, AllocatorImpl!Next, AllocatorImpl!Alloc
  <2>5. CASE \E b \in taken : mem_pool_free(b)
    BY <2>5 DEF mem_pool_free, AllocatorImpl!Next, AllocatorImpl!Free
  <2>6. CASE \E b \in taken, v \in UserWords : ClientWrite(b, v)
    BY <2>6 DEF ClientWrite
  <2>7. CASE UNCHANGED vars
    BY <2>7 DEF vars
  <2>8. QED
    BY <2>1, <2>2, <2>3, <2>4, <2>5, <2>6, <2>7 DEF Next, mem_pool_alloc
<1>3. QED
  BY <1>1, <1>2, PoolSafety, PTL DEF Spec, AllocatorSpec, AllocatorImpl!Spec
-----------------------------------------------------------------------------
\* Induction on the numbers, for a set of them.
LEMMA SetInduction ==
  ASSUME NEW S, 0 \in S, \A n \in Nat : n \in S => n + 1 \in S
  PROVE  Nat \subseteq S
<1> SUFFICES ASSUME Nat \ S # {} PROVE FALSE
  OBVIOUS
<1>1. PICK x \in Nat \ S : \A y \in Nat \ S : ~(y < x)
  <2> DEFINE R == OpToRel(<, Nat)
  <2>1. \A x, y \in Nat : y < x => <<y, x>> \in R
    BY DEF OpToRel
  <2>2. IsWellFoundedOn(R, Nat)
    BY NatLessThanWellFounded
  <2> HIDE DEF R
  <2>3. PICK x \in Nat \ S : \A y \in Nat \ S : ~ (<<y, x>> \in R)
    BY <2>2, WFMin
  <2> QED BY <2>1, <2>3
<1>2. x # 0 /\ x - 1 \in Nat /\ x - 1 \in S
  BY <1>1
<1> QED BY <1>1, <1>2

\* A pool of NumBlocks blocks has no more than that.
LEMMA BlocksFinite ==
  ASSUME InitBy = "init_mem_pool"
  PROVE  IsFiniteSet(Blocks) /\ Cardinality(Blocks) <= NumBlocks
<1>1. NumBlocks \in Nat /\ NumBlocks # 0
  BY Sizes
<1> DEFINE I == 0 .. NumBlocks - 1
           f == [i \in I |-> PoolStart + i * ObjSize]
<1>2. IsFiniteSet(I) /\ Cardinality(I) = NumBlocks
  <2>1. NumBlocks - 1 \in Int
    BY <1>1
  <2>2. IsFiniteSet(I) /\ Cardinality(I) = IF 0 > NumBlocks - 1 THEN 0 ELSE (NumBlocks - 1) - 0 + 1
    BY <2>1, FS_Interval
  <2> HIDE DEF I
  <2> QED BY <1>1, <2>2
<1>3. f \in Surjection(I, Blocks)
  BY DEF Surjection, Blocks
<1> HIDE DEF f, I
<1> QED BY <1>2, <1>3, FS_Surjection

\* Every depth below that of a freed block is the depth of a freed block.
LEMMA DepthsBelow ==
  ASSUME NEW fresh, NEW depth \in [Blocks -> Nat], FreeListFrom(fresh, depth),
         NEW b \in Freed(fresh)
  PROVE  \A d \in 0 .. depth[b] : \E c \in Freed(fresh) : depth[c] = d
<1> DEFINE D == {depth[c] : c \in Freed(fresh)}
           S == {n \in Nat : n <= depth[b] => depth[b] - n \in D}
<1>0. \A c \in Freed(fresh) : c \in Blocks /\ depth[c] \in Nat
  BY DEF Freed
<1>1. 0 \in S
  BY <1>0
<1>2. ASSUME NEW n \in Nat, n \in S PROVE n + 1 \in S
  <2> SUFFICES ASSUME n + 1 <= depth[b] PROVE depth[b] - (n + 1) \in D
    OBVIOUS
  <2>1. n <= depth[b] /\ depth[b] \in Nat
    BY <1>0
  <2>2. PICK c \in Freed(fresh) : depth[c] = depth[b] - n
    BY <1>2, <2>1
  <2>3. depth[c] # 0 /\ depth[c] - 1 = depth[b] - (n + 1)
    BY <2>1, <2>2
  <2>4. word[c] \in Freed(fresh) /\ depth[word[c]] = depth[c] - 1
    BY <2>3 DEF FreeListFrom
  <2> QED BY <2>3, <2>4
<1>3. Nat \subseteq S
  <2> HIDE DEF S
  <2> QED BY <1>1, <1>2, SetInduction
<1>4. ASSUME NEW d \in 0 .. depth[b] PROVE d \in D
  <2>1. depth[b] - d \in Nat /\ depth[b] - d <= depth[b] /\ depth[b] - (depth[b] - d) = d
    BY <1>0
  <2> QED BY <1>3, <2>1
<1> QED BY <1>4

\* So no freed block is deeper than there are blocks.
LEMMA DepthBounded ==
  ASSUME InitBy = "init_mem_pool", NEW fresh, NEW depth \in [Blocks -> Nat],
         FreeListFrom(fresh, depth), NEW b \in Freed(fresh)
  PROVE  depth[b] \in 0 .. NumBlocks - 1
<1>0. depth[b] \in Nat /\ NumBlocks \in Nat /\ Freed(fresh) \subseteq Blocks
  BY Sizes DEF Freed
<1> DEFINE I == 0 .. depth[b]
           f == [d \in I |-> CHOOSE c \in Freed(fresh) : depth[c] = d]
<1>1. \A d \in I : f[d] \in Freed(fresh) /\ depth[f[d]] = d
  BY DepthsBelow
<1>2. IsFiniteSet(I) /\ Cardinality(I) = depth[b] + 1
  <2>1. depth[b] \in Int
    BY <1>0
  <2>2. IsFiniteSet(I) /\ Cardinality(I) = IF 0 > depth[b] THEN 0 ELSE depth[b] - 0 + 1
    BY <2>1, FS_Interval
  <2> HIDE DEF I
  <2> QED BY <1>0, <2>2
<1>3. f \in Injection(I, Blocks)
  <2>1. f \in [I -> Blocks]
    BY <1>0, <1>1
  <2>2. \A d, e \in I : f[d] = f[e] => d = e
    BY <1>1
  <2> HIDE DEF f, I
  <2> QED BY <2>1, <2>2 DEF Injection, IsInjective
<1> HIDE DEF f, I
<1>4. Cardinality(I) <= Cardinality(Blocks)
  BY <1>3, BlocksFinite, FS_Injection
<1>5. Cardinality(Blocks) \in Nat /\ Cardinality(Blocks) <= NumBlocks
  BY BlocksFinite, FS_CardinalityType
<1> QED BY <1>0, <1>2, <1>4, <1>5

\* The list of freed blocks is as the invariant says, its depths within bounds.
LEMMA IntactFromInv == ASSUME InitBy = "init_mem_pool", PoolInv PROVE FreeListIntact
<1> PICK fresh \in Blocks \cup {End}, depth \in [Blocks -> Nat] : FreeListFrom(fresh, depth)
  BY DEF PoolInv, FreeListOver
<1>0. NumBlocks \in Nat /\ NumBlocks # 0 /\ Freed(fresh) \subseteq Blocks
  BY Sizes DEF Freed
<1> DEFINE d == [b \in Blocks |-> IF b \in Freed(fresh) THEN depth[b] ELSE 0]
<1>1. d \in [Blocks -> 0 .. NumBlocks - 1]
  BY <1>0, DepthBounded
<1>2. \A b \in Freed(fresh) : d[b] = depth[b]
  BY <1>0
<1> HIDE DEF d
<1>3. FreeListFrom(fresh, d)
  BY <1>2 DEF FreeListFrom
<1> QED BY <1>1, <1>3 DEF FreeListIntact, FreeListOver

\* In every pool with even addresses, of any number of blocks: whatever clients
\* write into the blocks they hold, the words of the free blocks form one
\* acyclic list that reaches every freed block (mem_pool_alloc, mem_pool_free).
THEOREM PoolFreeListIntact ==
  ASSUME InitBy = "init_mem_pool", EvenBlocks
  PROVE  Spec => []FreeListIntact
<1>1. PoolInv => FreeListIntact
  BY IntactFromInv
<1> QED
  BY <1>1, PoolSafety, PTL

\* free_block is always a block or the end of the pool, and a word of a free
\* block a mark or a pointer into it (mem_pool_alloc, mem_pool_free).
THEOREM PoolTypes ==
  ASSUME InitBy = "init_mem_pool", EvenBlocks
  PROVE  Spec => []TypeOK
<1>1. PoolInv => TypeOK
  BY DEF PoolInv
<1> QED
  BY <1>1, PoolSafety, PTL
=============================================================================
