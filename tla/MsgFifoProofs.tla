--------------------------- MODULE MsgFifoProofs ----------------------------
(***************************************************************************)
(* The message queue never touches memory outside its buffer, for every    *)
(* buffer length, header size and sequence of calls, those included that   *)
(* overwrite queued messages: whatever is left of the links then, a link   *)
(* that is read whole leads to a place where a header fits (LinksInside).  *)
(* Up to the first such call it implements MsgQueueSpec (second part).      *)
(***************************************************************************)
EXTENDS MsgFifo, TLAPS, SequenceTheorems, FiniteSetTheorems, WellFoundedInduction

\* Places of items, and what a link may hold.
Items == 0 .. BufLen - FIFO_HDR_LEN
Link  == Items \cup {NULL}

LinksInside == \A c \in Offsets : mem[c][1] = "next" => mem[c][2] \in Link

FifoInv == TypeOK /\ LinksInside

\* Arithmetic on the constants.
LEMMA Sizes ==
  /\ FIFO_HDR_LEN \in Nat /\ FIFO_HDR_LEN > 0 /\ BufLen \in Nat /\ FIFO_HDR_LEN < BufLen
  /\ FIFO_HDR_LEN = Word + Word /\ Word \in Nat /\ 0 < Word
BY MsgFifoAssumption DEF FIFO_HDR_LEN

\* The new item starts where its header fits, and the head goes on to a place
\* in the buffer.
LEMMA PlacesInside ==
  ASSUME head \in Offsets, NEW n \in Nat, n + FIFO_HDR_LEN <= BufLen
  PROVE  ItemAddr(n) \in Items /\ NewHead(n) \in Offsets
<1> USE Sizes
<1>1. CASE Restarts(n)
  BY <1>1 DEF ItemAddr, NewHead, Items, Offsets
<1>2. CASE ~Restarts(n) /\ Wraps(n)
  BY <1>2 DEF ItemAddr, NewHead, Items, Offsets, Restarts, Wraps, FirstBlock
<1>3. CASE ~Wraps(n)
  BY <1>3 DEF ItemAddr, NewHead, Items, Offsets, Restarts, Wraps, FirstBlock
<1> QED BY <1>1, <1>2, <1>3

\* At first nothing is linked.
LEMMA FifoInvInit == Init => FifoInv
BY Sizes, MsgFifoAssumption DEF Init, FifoInv, TypeOK, LinksInside, Offsets

\* A push that inserts keeps head, items and links inside.
LEMMA PushKeeps ==
  ASSUME FifoInv, NEW n \in Lens, PushInserts(n)
  PROVE  FifoInv'
<1>1. n \in Nat /\ n + FIFO_HDR_LEN <= BufLen
  BY Sizes, MsgFifoAssumption DEF PushInserts
<1>2. ItemAddr(n) \in Items /\ NewHead(n) \in Offsets
  BY <1>1, PlacesInside DEF FifoInv, TypeOK
<1>3. TypeOK'
  <2>1. torn' \in BOOLEAN
    BY Zenon DEF PushInserts
  <2> QED BY <1>2, <2>1, Sizes, MsgFifoAssumption DEF FifoInv, TypeOK, PushInserts, Stored, Items, Offsets
<1>4. LinksInside'
  <2> SUFFICES ASSUME NEW c \in Offsets, mem'[c][1] = "next" PROVE mem'[c][2] \in Link
    BY DEF LinksInside
  <2>1. \/ mem'[c] = <<"next", ItemAddr(n)>>
        \/ \E k \in 1 .. n : mem'[c] = <<"data", accepted + 1, k>>
        \/ mem'[c] = <<"len", n>>
        \/ mem'[c] = <<"next", NULL>>
        \/ mem'[c] = mem[c]
    BY DEF PushInserts, Stored
  <2> QED BY <2>1, <1>2 DEF FifoInv, LinksInside, Link
<1> QED BY <1>3, <1>4 DEF FifoInv

\* A pop follows a link, or, where a header was overwritten, reads a pointer
\* that is taken to lead into the buffer.
LEMMA PopKeeps ==
  ASSUME FifoInv, NEW room, PopTakes(room)
  PROVE  FifoInv'
<1>1. /\ first # NULL /\ first \in Items
      /\ UNCHANGED <<head, last, mem, accepted, torn>>
  BY DEF PopTakes, FifoInv, TypeOK, Items
<1>2. PICK next \in ItemNext(first) : first' = next
  BY DEF PopTakes
<1>3. first + Word \in Offsets /\ first + Word \in NextField(first)
  BY <1>1, Sizes DEF Items, Offsets, NextField
<1>4. next \in Link
  BY <1>2, <1>3 DEF ItemNext, FifoInv, LinksInside, Link, Items
<1>5. first' # NULL => last' # NULL
  BY <1>1 DEF FifoInv, TypeOK
<1> QED BY <1>1, <1>2, <1>4, <1>5 DEF FifoInv, TypeOK, LinksInside, Link, Items

\* Every step keeps the invariant.
LEMMA FifoInvStep == FifoInv /\ [Next]_vars => FifoInv'
<1> SUFFICES ASSUME FifoInv, [Next]_vars PROVE FifoInv'
  OBVIOUS
<1>1. ASSUME NEW n \in Lens, msg_fifo_push(n) PROVE FifoInv'
  <2>1. CASE PushTooLarge(n)
    BY <2>1 DEF PushTooLarge, FifoInv, TypeOK, LinksInside
  <2>2. CASE PushFull(n)
    BY <2>2, Sizes DEF PushFull, FifoInv, TypeOK, LinksInside, Offsets
  <2>3. CASE PushInserts(n)
    BY <2>3, PushKeeps
  <2> QED BY <1>1, <2>1, <2>2, <2>3 DEF msg_fifo_push
<1>2. ASSUME NEW room \in Rooms, msg_fifo_pop(room) PROVE FifoInv'
  <2>1. CASE PopTakes(room)
    BY <2>1, PopKeeps
  <2>2. CASE PopNone(room)
    BY <2>2 DEF PopNone, FifoInv, TypeOK, LinksInside
  <2> QED BY <1>2, <2>1, <2>2 DEF msg_fifo_pop
<1>3. CASE UNCHANGED vars
  BY <1>3 DEF vars, FifoInv, TypeOK, LinksInside
<1> QED BY <1>1, <1>2, <1>3 DEF Next

\* Wherever head is, the copies of the next push stay in the buffer and apart.
LEMMA InvCopies == FifoInv => CopiesInBuffer
<1> SUFFICES ASSUME FifoInv, NEW n \in Lens, n + FIFO_HDR_LEN <= BufLen
             PROVE  /\ LenField(ItemAddr(n)) \cup NextField(ItemAddr(n)) \subseteq Offsets
                    /\ \A k \in 1 .. n :
                         /\ ByteAddr(n, k) \in Offsets \ (LenField(ItemAddr(n)) \cup NextField(ItemAddr(n)))
                         /\ \A j \in 1 .. n : ByteAddr(n, j) = ByteAddr(n, k) => j = k
  BY DEF CopiesInBuffer
<1>1. n \in Nat /\ head \in 0 .. BufLen - 1
  BY MsgFifoAssumption DEF FifoInv, TypeOK, Offsets
<1>2. ItemAddr(n) \in Items
  BY <1>1, PlacesInside DEF FifoInv, TypeOK
<1> DEFINE a == ItemAddr(n)
<1>3. LenField(a) \cup NextField(a) \subseteq a .. (a + FIFO_HDR_LEN) - 1
  BY <1>2, Sizes DEF LenField, NextField, Items
<1>4. a .. (a + FIFO_HDR_LEN) - 1 \subseteq Offsets
  BY <1>2, Sizes DEF Items, Offsets
<1>5. CASE Wraps(n) /\ ~Restarts(n)
  <2> DEFINE m == FirstBlock - FIFO_HDR_LEN
  <2>1. a = head /\ m \in Nat /\ m <= n /\ (head + FIFO_HDR_LEN) + m = BufLen
    <3>1. a = head
      BY <1>5 DEF ItemAddr
    <3>2. (head + n) + FIFO_HDR_LEN >= BufLen /\ ~(BufLen - head < FIFO_HDR_LEN)
      BY <1>5 DEF Wraps, Restarts, FirstBlock
    <3>3. m = (BufLen - head) - FIFO_HDR_LEN
      BY DEF FirstBlock
    <3> QED BY <1>1, <3>1, <3>2, <3>3, Sizes
  <2>2. \A k \in 1 .. n : ByteAddr(n, k) = IF k > m THEN (k - m) - 1 ELSE ((head + FIFO_HDR_LEN) + k) - 1
    BY <1>1, <1>5, <2>1, Sizes DEF ByteAddr
  <2>3. \A k \in 1 .. n : k > m => (k - m) - 1 \in 0 .. head - 1
    BY <1>1, <2>1, Sizes
  <2>4. \A k \in 1 .. n : k <= m => ((head + FIFO_HDR_LEN) + k) - 1 \in head + FIFO_HDR_LEN .. BufLen - 1
    BY <1>1, <2>1, Sizes
  <2> HIDE DEF m
  <2>5. \A k \in 1 .. n : ByteAddr(n, k) \in Offsets \ (a .. (a + FIFO_HDR_LEN) - 1)
    BY <2>1, <2>2, <2>3, <2>4, <1>1, Sizes DEF Offsets
  <2>6. \A j, k \in 1 .. n : ByteAddr(n, j) = ByteAddr(n, k) => j = k
    BY <2>1, <2>2, <2>3, <2>4, <1>1, Sizes
  <2> QED BY <2>5, <2>6, <1>3, <1>4
<1>6. CASE ~(Wraps(n) /\ ~Restarts(n))
  <2>1. \A k \in 1 .. n : ByteAddr(n, k) = ((a + FIFO_HDR_LEN) + k) - 1
    BY <1>6, <1>2, Sizes DEF ByteAddr, Items
  <2>2. a + FIFO_HDR_LEN + n <= BufLen
    BY <1>1, <1>6, Sizes DEF ItemAddr, Wraps
  <2> HIDE DEF a
  <2>3. a \in Nat
    BY <1>2, Sizes DEF a, Items
  <2>4. \A k \in 1 .. n : ByteAddr(n, k) \in Offsets \ (a .. (a + FIFO_HDR_LEN) - 1)
    BY <2>1, <2>2, <2>3, <1>1, Sizes DEF Offsets
  <2>5. \A j, k \in 1 .. n : ByteAddr(n, j) = ByteAddr(n, k) => j = k
    BY <2>1, <2>3, <1>1, Sizes
  <2> QED BY <2>4, <2>5, <1>3, <1>4 DEF a
<1> QED BY <1>5, <1>6
-----------------------------------------------------------------------------
\* Head and items are always where a header, and the bytes after it, may go
\* (msg_fifo_push, msg_fifo_pop).
THEOREM MsgFifoTypes == Spec => []TypeOK
<1>1. FifoInv => TypeOK BY DEF FifoInv
<1> QED BY <1>1, FifoInvInit, FifoInvStep, PTL DEF Spec

\* No push writes outside the buffer or over its own item, wherever the calls
\* before it have left head and however it is split (msg_fifo_push).
THEOREM MsgFifoCopiesInBuffer == Spec => []CopiesInBuffer
BY InvCopies, FifoInvInit, FifoInvStep, PTL DEF Spec
-----------------------------------------------------------------------------
(***************************************************************************)
(* The refinement.  The items are laid out on a line that goes twice round *)
(* the buffer: they follow each other from the first one, in the first     *)
(* round, and none goes beyond one round from there.  At maps the line to  *)
(* the buffer.                                                             *)
(***************************************************************************)
At(x) == IF x < BufLen THEN x ELSE x - BufLen

\* The i-th byte of the item of message m, which has n bytes; q is its link.
ItemByte(i, n, q, m) ==
  IF i < Word THEN <<"len", n>>
  ELSE IF i < FIFO_HDR_LEN THEN <<"next", q>> ELSE <<"data", m, i - FIFO_HDR_LEN + 1>>

\* What item k of N is linked to.
LinkOf(k, N, u) == IF k = N THEN NULL ELSE At(u[k + 1])

\* N items that begin at u and hold messages m + 1, ... of the lengths l, the
\* room before head taken up to U.
Ordered(N, u, l) ==
  /\ \A k \in 1 .. N : /\ At(u[k]) \in Items /\ u[1] <= u[k]
                       /\ u[k] + l[k] + FIFO_HDR_LEN <= u[1] + BufLen
  /\ \A j, k \in 1 .. N : j < k => u[j] + l[j] + FIFO_HDR_LEN <= u[k]

Written(N, u, l, m) ==
  \A k \in 1 .. N : \A i \in 0 .. l[k] + FIFO_HDR_LEN - 1 :
    mem[At(u[k] + i)] = ItemByte(i, l[k], LinkOf(k, N, u), m + k)

\* A single item at the start leaves no room, wherever head is.
HeadAfter(N, u, l, U) ==
  N > 0 /\ ~(N = 1 /\ first = 0) =>
    head = At(U) /\ u[N] + l[N] + FIFO_HDR_LEN <= U /\ U <= u[1] + BufLen

Layout(N, u, l, m, U) ==
  /\ N \in Nat /\ u \in [1 .. N -> Nat] /\ l \in [1 .. N -> Nat] /\ m \in Nat /\ U \in Nat
  /\ accepted = m + N
  /\ N = 0 => first = NULL
  /\ N > 0 => first = u[1] /\ first \in Items /\ last = At(u[N])
  /\ Ordered(N, u, l) /\ Written(N, u, l, m) /\ HeadAfter(N, u, l, U)

LaidOut == \E N, u, l, m, U : Layout(N, u, l, m, U)

\* Two places less than a round apart are different in the buffer.
LEMMA Places ==
  ASSUME NEW s \in Nat, s < BufLen, NEW x \in Nat, NEW y \in Nat,
         s <= x, x < s + BufLen, s <= y, y < s + BufLen
  PROVE  At(x) \in Offsets /\ (At(x) = At(y) => x = y)
BY Sizes DEF At, Offsets

\* The bytes of a header lie next to each other.
LEMMA HeaderPlaces ==
  ASSUME NEW x \in Nat, At(x) \in Items, x < 2 * BufLen, NEW i \in 0 .. FIFO_HDR_LEN - 1
  PROVE  At(x + i) = At(x) + i
BY Sizes DEF At, Items

\* The bytes of the item that a push writes, counted from its start.
LEMMA NewItem ==
  ASSUME FifoInv, NEW n \in Lens, n + FIFO_HDR_LEN <= BufLen
  PROVE  /\ n \in Nat /\ ItemAddr(n) \in Items
         /\ \A k \in 1 .. n : ByteAddr(n, k) = At(ItemAddr(n) + FIFO_HDR_LEN + k - 1)
         /\ \A c \in Offsets : c \in LenField(ItemAddr(n)) <=> \E i \in 0 .. Word - 1 : c = ItemAddr(n) + i
         /\ \A c \in Offsets : c \in NextField(ItemAddr(n)) <=> \E i \in Word .. FIFO_HDR_LEN - 1 : c = ItemAddr(n) + i
<1>1. n \in Nat /\ head \in 0 .. BufLen - 1
  BY MsgFifoAssumption DEF FifoInv, TypeOK, Offsets
<1>2. ItemAddr(n) \in Items
  BY <1>1, PlacesInside DEF FifoInv, TypeOK
<1> DEFINE a == ItemAddr(n)
<1>3. a \in Nat /\ a + FIFO_HDR_LEN <= BufLen
  BY <1>2, Sizes DEF Items
<1>4. ASSUME NEW k \in 1 .. n PROVE ByteAddr(n, k) = At(a + FIFO_HDR_LEN + k - 1)
  <2>1. CASE Wraps(n) /\ ~Restarts(n)
    <3>1. a = head
      BY <2>1 DEF ItemAddr
    <3>2. ByteAddr(n, k) = IF k > (BufLen - head) - FIFO_HDR_LEN THEN (k - ((BufLen - head) - FIFO_HDR_LEN)) - 1
                           ELSE ((head + FIFO_HDR_LEN) + k) - 1
      BY <1>1, <2>1, <3>1, Sizes DEF ByteAddr, FirstBlock
    <3> HIDE DEF a
    <3> QED BY <1>1, <3>1, <3>2, Sizes DEF At
  <2>2. CASE ~(Wraps(n) /\ ~Restarts(n))
    <3>1. ByteAddr(n, k) = ((a + FIFO_HDR_LEN) + k) - 1
      BY <1>1, <1>3, <2>2, Sizes DEF ByteAddr
    <3>2. a + FIFO_HDR_LEN + n <= BufLen
      BY <1>1, <2>2, Sizes DEF ItemAddr, Wraps
    <3> HIDE DEF a
    <3> QED BY <1>1, <1>3, <3>1, <3>2, Sizes DEF At
  <2> QED BY <2>1, <2>2
<1> HIDE DEF a
<1>5. \A c \in Offsets : c \in LenField(a) <=> \E i \in 0 .. Word - 1 : c = a + i
  <2> SUFFICES ASSUME NEW c \in Offsets
               PROVE  c \in LenField(a) <=> \E i \in 0 .. Word - 1 : c = a + i
    OBVIOUS
  <2>1. c \in Nat
    BY Sizes DEF Offsets
  <2>2. c \in LenField(a) => c - a \in 0 .. Word - 1 /\ c = a + (c - a)
    BY <1>3, <2>1, Sizes DEF LenField
  <2>3. \A i \in 0 .. Word - 1 : c = a + i => c \in LenField(a)
    BY <1>3, <2>1, Sizes DEF LenField
  <2> QED BY <2>2, <2>3
<1>6. \A c \in Offsets : c \in NextField(a) <=> \E i \in Word .. FIFO_HDR_LEN - 1 : c = a + i
  <2> SUFFICES ASSUME NEW c \in Offsets
               PROVE  c \in NextField(a) <=> \E i \in Word .. FIFO_HDR_LEN - 1 : c = a + i
    OBVIOUS
  <2>1. c \in Nat
    BY Sizes DEF Offsets
  <2>2. c \in NextField(a) => c - a \in Word .. FIFO_HDR_LEN - 1 /\ c = a + (c - a)
    BY <1>3, <2>1, Sizes DEF NextField
  <2>3. \A i \in Word .. FIFO_HDR_LEN - 1 : c = a + i => c \in NextField(a)
    BY <1>3, <2>1, Sizes DEF NextField
  <2> QED BY <2>2, <2>3
<1> QED BY <1>1, <1>2, <1>4, <1>5, <1>6 DEF a

\* What the buffer holds after a push: the new item, the link of the last one,
\* and for the rest what it held before.
LEMMA StoredBytes ==
  ASSUME FifoInv, NEW n \in Lens, n + FIFO_HDR_LEN <= BufLen
  PROVE  /\ \A i \in 0 .. n + FIFO_HDR_LEN - 1 :
              ~(first # NULL /\ At(ItemAddr(n) + i) \in NextField(last)) =>
                Stored(n)[At(ItemAddr(n) + i)] = ItemByte(i, n, NULL, accepted + 1)
         /\ \A c \in Offsets :
              /\ ~(first # NULL /\ c \in NextField(last))
              /\ \A i \in 0 .. n + FIFO_HDR_LEN - 1 : c # At(ItemAddr(n) + i)
              => Stored(n)[c] = mem[c]
         /\ \A c \in Offsets :
              first # NULL /\ c \in NextField(last) => Stored(n)[c] = <<"next", ItemAddr(n)>>
<1> DEFINE a == ItemAddr(n)
<1>1. /\ n \in Nat /\ a \in Items
      /\ \A k \in 1 .. n : ByteAddr(n, k) = At(a + FIFO_HDR_LEN + k - 1)
      /\ \A c \in Offsets : c \in LenField(a) <=> \E i \in 0 .. Word - 1 : c = a + i
      /\ \A c \in Offsets : c \in NextField(a) <=> \E i \in Word .. FIFO_HDR_LEN - 1 : c = a + i
  BY NewItem
<1>2. /\ \A k \in 1 .. n : /\ ByteAddr(n, k) \in Offsets \ (LenField(a) \cup NextField(a))
                           /\ \A j \in 1 .. n : ByteAddr(n, j) = ByteAddr(n, k) => j = k
  BY InvCopies DEF CopiesInBuffer
<1>3. a \in Nat /\ a + FIFO_HDR_LEN <= BufLen /\ a < BufLen
  BY <1>1, Sizes DEF Items
<1> HIDE DEF a
<1>4. \A i \in 0 .. n + FIFO_HDR_LEN - 1 : At(a + i) \in Offsets
  BY <1>1, <1>3, Sizes DEF At, Offsets
<1>5. ASSUME NEW i \in 0 .. n + FIFO_HDR_LEN - 1, ~(first # NULL /\ At(a + i) \in NextField(last))
      PROVE  Stored(n)[At(a + i)] = ItemByte(i, n, NULL, accepted + 1)
  <2> DEFINE c == At(a + i)
  <2>1. CASE i < FIFO_HDR_LEN
    <3>1. c = a + i /\ c \in Offsets /\ i \in Nat
      BY <1>1, <1>3, <1>4, <2>1, Sizes DEF At
    <3>2. c \in LenField(a) \cup NextField(a)
      BY <1>1, <2>1, <3>1, Sizes
    <3>3. c \in LenField(a) <=> i < Word
      <4>1. c \in LenField(a) => i < Word
        BY <1>1, <1>3, <3>1, Sizes
      <4>2. i < Word => i \in 0 .. Word - 1
        BY <3>1, Sizes
      <4> QED BY <1>1, <3>1, <4>1, <4>2
    <3>4. ~ \E k \in 1 .. n : c = ByteAddr(n, k)
      BY <1>2, <3>2
    <3> HIDE DEF c
    <3>5. Stored(n)[c] = IF c \in LenField(a) THEN <<"len", n>> ELSE <<"next", NULL>>
      BY <1>5, <3>1, <3>2, <3>4 DEF Stored, a, c
    <3> QED BY <2>1, <3>3, <3>5 DEF ItemByte, c
  <2>2. CASE ~(i < FIFO_HDR_LEN)
    <3> DEFINE k == (i - FIFO_HDR_LEN) + 1
    <3>1. k \in 1 .. n /\ ((a + FIFO_HDR_LEN) + k) - 1 = a + i /\ ~(i < Word)
      BY <1>1, <1>3, <2>2, Sizes
    <3>2. ByteAddr(n, k) = c
      <4>1. ByteAddr(n, k) = At(((a + FIFO_HDR_LEN) + k) - 1)
        <5> HIDE DEF k
        <5> QED BY <1>1, <1>3, <3>1, Sizes
      <4> QED BY <3>1, <4>1
    <3>3. (CHOOSE j \in 1 .. n : c = ByteAddr(n, j)) = k
      <4> HIDE DEF c, k
      <4>1. \A j \in 1 .. n : c = ByteAddr(n, j) <=> j = k
        BY <1>2, <3>1, <3>2
      <4> QED BY <3>1, <4>1
    <3>4. Stored(n)[c] = <<"data", accepted + 1, CHOOSE j \in 1 .. n : c = ByteAddr(n, j)>>
      <4> HIDE DEF c, k
      <4>1. c \in Offsets /\ ~(first # NULL /\ c \in NextField(last))
        BY <1>4, <1>5 DEF c
      <4> QED BY <3>1, <3>2, <4>1 DEF Stored
    <3> QED BY <2>2, <3>1, <3>3, <3>4 DEF ItemByte
  <2> QED BY <2>1, <2>2
<1>6. ASSUME NEW c \in Offsets, ~(first # NULL /\ c \in NextField(last)),
             \A i \in 0 .. n + FIFO_HDR_LEN - 1 : c # At(a + i)
      PROVE  Stored(n)[c] = mem[c]
  <2>1. \A i \in 0 .. FIFO_HDR_LEN - 1 : c # a + i
    <3> SUFFICES ASSUME NEW i \in 0 .. FIFO_HDR_LEN - 1 PROVE c # a + i
      OBVIOUS
    <3>1. i \in 0 .. n + FIFO_HDR_LEN - 1 /\ At(a + i) = a + i
      BY <1>1, <1>3, Sizes DEF At
    <3> QED BY <1>6, <3>1
  <2>2. c \notin LenField(a) /\ c \notin NextField(a)
    <3>1. \A i \in 0 .. Word - 1 : i \in 0 .. FIFO_HDR_LEN - 1
      BY Sizes
    <3>2. \A i \in Word .. FIFO_HDR_LEN - 1 : i \in 0 .. FIFO_HDR_LEN - 1
      BY Sizes
    <3> QED BY <1>1, <2>1, <3>1, <3>2
  <2>3. ASSUME NEW k \in 1 .. n PROVE c # ByteAddr(n, k)
    <3>1. /\ (FIFO_HDR_LEN + k) - 1 \in 0 .. n + FIFO_HDR_LEN - 1
          /\ ((a + FIFO_HDR_LEN) + k) - 1 = a + ((FIFO_HDR_LEN + k) - 1)
      BY <1>1, <1>3, Sizes
    <3>2. ByteAddr(n, k) = At(a + ((FIFO_HDR_LEN + k) - 1))
      BY <1>1, <1>3, <3>1, Sizes
    <3> QED BY <1>6, <3>1, <3>2
  <2> QED BY <1>6, <2>2, <2>3 DEF Stored, a
<1>7. ASSUME NEW c \in Offsets, first # NULL, c \in NextField(last)
      PROVE  Stored(n)[c] = <<"next", a>>
  BY <1>7 DEF Stored, a
<1> QED BY <1>5, <1>6, <1>7 DEF a
\* Items lie in the buffer, less than two rounds from its start.
LEMMA ItemsInside ==
  ASSUME NEW N, NEW u, NEW l, NEW m, NEW U, Layout(N, u, l, m, U), NEW k \in 1 .. N
  PROVE  /\ N \in Nat /\ N > 0 /\ 1 \in 1 .. N /\ N \in 1 .. N /\ k \in Nat
         /\ u[k] \in Nat /\ l[k] \in Nat /\ u[1] \in Nat /\ u[1] < BufLen /\ first = u[1] /\ At(u[1]) = u[1]
         /\ u[1] <= u[k] /\ u[k] + l[k] + FIFO_HDR_LEN <= u[1] + BufLen /\ u[k] < 2 * BufLen
         /\ At(u[k]) \in Items /\ At(u[k]) # NULL
<1>1. /\ N \in Nat /\ u \in [1 .. N -> Nat] /\ l \in [1 .. N -> Nat]
      /\ N > 0 => first = u[1] /\ first \in Items
  BY DEF Layout
<1>2. N > 0 /\ 1 \in 1 .. N /\ N \in 1 .. N /\ k \in Nat /\ u[k] \in Nat /\ l[k] \in Nat /\ u[1] \in Nat
  BY <1>1
<1>3. first = u[1] /\ u[1] \in Items
  BY <1>1, <1>2
<1>4. /\ At(u[k]) \in Items /\ u[1] <= u[k]
      /\ u[k] + l[k] + FIFO_HDR_LEN <= u[1] + BufLen
  BY DEF Layout, Ordered
<1>5. u[1] < BufLen
  BY <1>2, <1>3, Sizes DEF Items
<1>6. At(u[1]) = u[1]
  BY <1>5 DEF At
<1>7. u[k] < 2 * BufLen
  BY <1>2, <1>4, <1>5, Sizes
<1>8. At(u[k]) # NULL
  BY <1>4, MsgFifoAssumption, Sizes DEF Items, Offsets
<1> QED BY <1>1, <1>2, <1>3, <1>4, <1>5, <1>6, <1>7, <1>8

\* What msg_fifo_pop reads of an item.
LEMMA ItemRead ==
  ASSUME NEW N, NEW u, NEW l, NEW m, NEW U, Layout(N, u, l, m, U), NEW k \in 1 .. N
  PROVE  /\ ItemLen(At(u[k])) = {l[k]} /\ ItemNext(At(u[k])) = {LinkOf(k, N, u)}
         /\ Copied(At(u[k]), l[k]) = Message(m + k, l[k])
<1> DEFINE o == At(u[k])
           q == LinkOf(k, N, u)
<1>1. /\ u[k] \in Nat /\ l[k] \in Nat /\ u[1] \in Nat /\ u[1] < BufLen
      /\ u[1] <= u[k] /\ u[k] + l[k] + FIFO_HDR_LEN <= u[1] + BufLen /\ u[k] < 2 * BufLen
      /\ o \in Items
  BY ItemsInside
<1>2. \A i \in 0 .. l[k] + FIFO_HDR_LEN - 1 : mem[At(u[k] + i)] = ItemByte(i, l[k], q, m + k)
  BY DEF Layout, Written
<1>3. ASSUME NEW i \in 0 .. FIFO_HDR_LEN - 1 PROVE mem[o + i] = ItemByte(i, l[k], q, m + k)
  <2>1. At(u[k] + i) = o + i
    BY <1>1, HeaderPlaces
  <2>2. i \in 0 .. l[k] + FIFO_HDR_LEN - 1
    BY <1>1, Sizes
  <2> QED BY <1>2, <2>1, <2>2
<1>4. o \in Nat /\ o + FIFO_HDR_LEN <= BufLen
  BY <1>1, Sizes DEF Items
<1> HIDE DEF o, q
<1>5. ItemLen(o) = {l[k]}
  <2>1. ASSUME NEW c \in LenField(o) PROVE mem[c] = <<"len", l[k]>>
    <3>1. c - o \in 0 .. FIFO_HDR_LEN - 1 /\ c = o + (c - o) /\ c - o < Word
      BY <1>4, Sizes DEF LenField
    <3> QED BY <1>3, <3>1 DEF ItemByte
  <2>2. o \in LenField(o)
    BY <1>4, Sizes DEF LenField
  <2>3. mem[o] = <<"len", l[k]>>
    BY <2>1, <2>2
  <2> QED BY <2>1, <2>3 DEF ItemLen
<1>6. ItemNext(o) = {q}
  <2>1. ASSUME NEW c \in NextField(o) PROVE mem[c] = <<"next", q>>
    <3>1. c - o \in 0 .. FIFO_HDR_LEN - 1 /\ c = o + (c - o) /\ ~(c - o < Word) /\ c - o < FIFO_HDR_LEN
      BY <1>4, Sizes DEF NextField
    <3> QED BY <1>3, <3>1 DEF ItemByte
  <2>2. o + Word \in NextField(o)
    BY <1>4, Sizes DEF NextField
  <2>3. mem[o + Word] = <<"next", q>>
    BY <2>1, <2>2
  <2> QED BY <2>1, <2>3 DEF ItemNext
<1>7. Copied(o, l[k]) = Message(m + k, l[k])
  <2> DEFINE F(j) == IF o + l[k] + FIFO_HDR_LEN > BufLen /\ j > BufLen - (o + FIFO_HDR_LEN)
                     THEN mem[j - (BufLen - (o + FIFO_HDR_LEN)) - 1]
                     ELSE mem[o + FIFO_HDR_LEN + j - 1]
  <2>1. ASSUME NEW j \in 1 .. l[k] PROVE F(j) = <<"data", m + k, j>>
    <3> DEFINE i == (FIFO_HDR_LEN + j) - 1
    <3>1. i \in 0 .. l[k] + FIFO_HDR_LEN - 1 /\ ~(i < Word) /\ ~(i < FIFO_HDR_LEN)
          /\ (i - FIFO_HDR_LEN) + 1 = j
      BY <1>1, Sizes
    <3>2. mem[At(u[k] + i)] = <<"data", m + k, j>>
      <4> HIDE DEF i
      <4> QED BY <1>2, <3>1 DEF ItemByte
    <3>3. At(u[k] + i) = IF o + l[k] + FIFO_HDR_LEN > BufLen /\ j > BufLen - (o + FIFO_HDR_LEN)
                         THEN j - (BufLen - (o + FIFO_HDR_LEN)) - 1
                         ELSE o + FIFO_HDR_LEN + j - 1
      BY <1>1, <1>4, Sizes DEF o, At
    <3> QED BY <3>2, <3>3
  <2>2. Copied(o, l[k]) = [j \in 1 .. l[k] |-> F(j)]
    BY DEF Copied
  <2> HIDE DEF F
  <2>3. Copied(o, l[k]) = [j \in 1 .. l[k] |-> <<"data", m + k, j>>]
    BY <2>1, <2>2
  <2> QED BY <2>3 DEF Message
<1> QED BY <1>5, <1>6, <1>7 DEF o, q
\* Every set of numbers has a least one.
LEMMA NatLeast ==
  ASSUME NEW T, T \subseteq Nat, T # {}
  PROVE  \E x \in T : \A y \in T : ~(y < x)
<1> DEFINE R == OpToRel(<, Nat)
<1>1. \A x, y \in Nat : y < x => <<y, x>> \in R
  BY DEF OpToRel
<1>2. IsWellFoundedOn(R, Nat)
  BY NatLessThanWellFounded
<1> HIDE DEF R
<1>3. PICK x \in T : \A y \in T : ~ (<<y, x>> \in R)
  BY <1>2, WFMin
<1> QED BY <1>1, <1>3

\* Induction on the numbers, for a set of them.
LEMMA SetInduction ==
  ASSUME NEW S, 0 \in S, \A n \in Nat : n \in S => n + 1 \in S
  PROVE  Nat \subseteq S
<1> SUFFICES ASSUME Nat \ S # {} PROVE FALSE
  OBVIOUS
<1>1. PICK x \in Nat \ S : \A y \in Nat \ S : ~(y < x)
  BY NatLeast
<1>2. x # 0 /\ x - 1 \in Nat /\ x - 1 \in S
  BY <1>1
<1> QED BY <1>1, <1>2

\* The numbers up to n.
LEMMA UpTo == ASSUME NEW n \in Nat PROVE IsFiniteSet(1 .. n) /\ Cardinality(1 .. n) = n
<1>1. n \in Int /\ 1 \in Int
  OBVIOUS
<1>2. IsFiniteSet(1 .. n) /\ Cardinality(1 .. n) = IF 1 > n THEN 0 ELSE n - 1 + 1
  BY <1>1, FS_Interval
<1> DEFINE S == 1 .. n
<1> HIDE DEF S
<1>3. Cardinality(S) = IF 1 > n THEN 0 ELSE n - 1 + 1
  BY <1>2 DEF S
<1>4. Cardinality(S) = n
  BY <1>3
<1> QED BY <1>2, <1>4 DEF S


\* Following the links from first meets the items in order, and then NULL.
LEMMA LinksMeet ==
  ASSUME NEW N, NEW u, NEW l, NEW m, NEW U, Layout(N, u, l, m, U)
  PROVE  \A k \in Nat \ {0} : ItemAt[k] = IF k <= N THEN At(u[k]) ELSE NULL
<1> DEFINE g == [k \in Nat |-> IF k <= 1 THEN first ELSE IF k <= N THEN At(u[k]) ELSE NULL]
           Step(f, k) == IF k <= 1 THEN first
                         ELSE IF f[k - 1] = NULL THEN NULL ELSE The(ItemNext(f[k - 1]))
<1>0. N \in Nat /\ (N = 0 => first = NULL)
  BY DEF Layout
<1>1. ASSUME NEW k \in 1 .. N
      PROVE  /\ At(u[k]) # NULL /\ The(ItemNext(At(u[k]))) = IF k = N THEN NULL ELSE At(u[k + 1])
             /\ first = At(u[1])
  <2>1. At(u[k]) # NULL /\ first = At(u[1])
    BY ItemsInside
  <2>2. ItemNext(At(u[k])) = {LinkOf(k, N, u)}
    BY ItemRead
  <2> QED BY <2>1, <2>2 DEF The, LinkOf
<1>2. \A k \in Nat \ {0} : g[k] = IF k <= N THEN At(u[k]) ELSE NULL
  <2> SUFFICES ASSUME NEW k \in Nat \ {0} PROVE g[k] = IF k <= N THEN At(u[k]) ELSE NULL
    OBVIOUS
  <2>1. CASE k = 1
    <3>1. N = 0 \/ (1 \in 1 .. N /\ 1 <= N)
      BY <1>0
    <3> QED BY <1>0, <1>1, <2>1, <3>1
  <2>2. CASE k # 1
    <3>1. ~(k <= 1) /\ k \in Nat
      BY <2>2
    <3> QED BY <3>1
  <2> QED BY <2>1, <2>2
<1>3. ASSUME NEW k \in Nat PROVE g[k] = Step(g, k)
  <2>1. CASE k <= 1
    BY <2>1
  <2>2. CASE ~(k <= 1)
    <3> HIDE DEF g
    <3>1. k - 1 \in Nat \ {0} /\ k \in Nat \ {0} /\ (k - 1) + 1 = k
      BY <2>2
    <3>2. g[k - 1] = IF k - 1 <= N THEN At(u[k - 1]) ELSE NULL
      BY <1>2, <3>1
    <3>3. g[k] = IF k <= N THEN At(u[k]) ELSE NULL
      BY <1>2, <3>1
    <3>4. CASE k - 1 <= N
      <4>1. k - 1 \in 1 .. N /\ (k - 1 = N <=> ~(k <= N))
        BY <1>0, <3>1, <3>4
      <4>2. /\ g[k - 1] = At(u[k - 1]) /\ At(u[k - 1]) # NULL
            /\ The(ItemNext(At(u[k - 1]))) = IF k - 1 = N THEN NULL ELSE At(u[k])
        BY <1>1, <3>1, <3>2, <3>4, <4>1
      <4> QED BY <2>2, <3>3, <4>1, <4>2
    <3>5. CASE ~(k - 1 <= N)
      <4>1. ~(k <= N)
        BY <1>0, <3>1, <3>5
      <4> QED BY <2>2, <3>2, <3>3, <3>5, <4>1
    <3> QED BY <3>4, <3>5
  <2> QED BY <2>1, <2>2
<1>4. g = [k \in Nat |-> Step(g, k)]
  BY <1>3
<1>5. ItemAt = [k \in Nat |-> Step(ItemAt, k)]
  <2> HIDE DEF g
  <2> QED BY <1>4 DEF ItemAt
<1>6. \A k \in Nat : ItemAt[k] = Step(ItemAt, k)
  <2> DEFINE h == ItemAt
  <2> HIDE DEF h
  <2>1. h = [k \in Nat |-> Step(h, k)]
    BY <1>5 DEF h
  <2>2. \A k \in Nat : h[k] = Step(h, k)
    BY <2>1
  <2> QED BY <2>2 DEF h
<1> DEFINE S == {k \in Nat : ItemAt[k] = g[k]}
<1> HIDE DEF g
<1>7. 0 \in S
  BY <1>3, <1>6
<1>8. ASSUME NEW k \in Nat, k \in S PROVE k + 1 \in S
  <2>1. ItemAt[k] = g[k] /\ (k + 1) - 1 = k /\ k + 1 \in Nat
    BY <1>8
  <2>2. ItemAt[k + 1] = g[k + 1]
    BY <1>3, <1>6, <2>1
  <2> QED BY <2>1, <2>2
<1>9. Nat \subseteq S
  <2> HIDE DEF S
  <2> QED BY <1>7, <1>8, SetInduction
<1> QED BY <1>2, <1>9

\* The messages of N items, numbered from m + 1.
Queued(N, l, m) == [k \in 1 .. N |-> Message(m + k, l[k])]

\* The queue found in the buffer is made of the messages of the items.
Reads == \A N, u, l, m, U : Layout(N, u, l, m, U) => Found = Queued(N, l, m)

\* So it is read as it was written.
LEMMA QueueRead == TypeOK => Reads
<1> SUFFICES ASSUME TypeOK, NEW N, NEW u, NEW l, NEW m, NEW U, Layout(N, u, l, m, U)
             PROVE  Found = [k \in 1 .. N |-> Message(m + k, l[k])]
  BY DEF Reads, Queued
<1>1. N \in Nat /\ m \in Nat /\ N <= MaxMsgs /\ MaxMsgs \in Nat
  BY MsgFifoAssumption DEF Layout, TypeOK
<1>2. \A k \in Nat \ {0} : ItemAt[k] = IF k <= N THEN At(u[k]) ELSE NULL
  BY LinksMeet
<1>3. \A k \in 1 .. N : At(u[k]) # NULL
  BY ItemsInside
<1>4. {j \in 1 .. MaxMsgs : ItemAt[j] # NULL} = 1 .. N
  BY <1>1, <1>2, <1>3
<1>5. Cardinality(1 .. N) = N
  BY <1>1, UpTo
<1>6. ASSUME NEW k \in 1 .. N
      PROVE  Copied(ItemAt[k], The(ItemLen(ItemAt[k]))) = Message(m + k, l[k])
  <2>1. ItemAt[k] = At(u[k])
    BY <1>1, <1>2
  <2>2. ItemLen(At(u[k])) = {l[k]} /\ Copied(At(u[k]), l[k]) = Message(m + k, l[k])
    BY ItemRead
  <2> QED BY <2>1, <2>2 DEF The
<1>7. Found = [k \in 1 .. N |-> Copied(ItemAt[k], The(ItemLen(ItemAt[k])))]
  BY <1>4, <1>5 DEF Found
<1> QED BY <1>6, <1>7

\* The same in the next state.
LEMMA QueueReadNext ==
  ASSUME TypeOK', NEW N, NEW u, NEW l, NEW m, NEW U, Layout(N, u, l, m, U)'
  PROVE  Found' = Queued(N, l, m)
<1>1. TypeOK' => Reads'
  BY QueueRead, PTL
<1>2. Layout(N, u, l, m, U)' => Found' = Queued(N, l, m)
  BY <1>1 DEF Reads, Queued, Message
<1> QED BY <1>2
-----------------------------------------------------------------------------
\* The bytes of the last item are not those of another one or of the room
\* behind it.
LEMMA BytesApart ==
  ASSUME NEW N, NEW u, NEW l, NEW m, NEW U, Layout(N, u, l, m, U),
         NEW k \in 1 .. N, NEW i \in 0 .. l[k] + FIFO_HDR_LEN - 1
  PROVE  /\ At(u[k] + i) \in Offsets
         /\ \A x \in Nat : /\ u[N] + l[N] + FIFO_HDR_LEN <= x /\ x < u[1] + BufLen
                           => At(u[k] + i) # At(x)
         /\ \A j \in 0 .. FIFO_HDR_LEN - 1 : At(u[k] + i) = At(u[N] + j) => k = N /\ i = j
<1>1. /\ u[k] \in Nat /\ l[k] \in Nat /\ u[1] \in Nat /\ u[1] < BufLen /\ k \in Nat
      /\ u[1] <= u[k] /\ u[k] + l[k] + FIFO_HDR_LEN <= u[1] + BufLen
      /\ N \in Nat /\ N \in 1 .. N
  BY ItemsInside
<1>2. /\ u[N] \in Nat /\ l[N] \in Nat /\ u[1] <= u[N] /\ u[N] + l[N] + FIFO_HDR_LEN <= u[1] + BufLen
  BY <1>1, ItemsInside
<1>3. k = N \/ u[k] + l[k] + FIFO_HDR_LEN <= u[N]
  BY <1>1 DEF Layout, Ordered
<1>4. u[k] + i \in Nat /\ u[1] <= u[k] + i /\ u[k] + i < u[k] + l[k] + FIFO_HDR_LEN
  BY <1>1, Sizes
<1>5. u[k] + i < u[1] + BufLen /\ u[k] + i < u[N] + l[N] + FIFO_HDR_LEN
  BY <1>1, <1>2, <1>3, <1>4, Sizes
<1>6. ASSUME NEW x \in Nat, u[1] <= x, x < u[1] + BufLen
      PROVE  At(u[k] + i) \in Offsets /\ (At(u[k] + i) = At(x) => u[k] + i = x)
  BY <1>1, <1>4, <1>5, <1>6, Places
<1>7. At(u[k] + i) \in Offsets
  BY <1>1, <1>6, Sizes
<1>8. ASSUME NEW x \in Nat, u[N] + l[N] + FIFO_HDR_LEN <= x, x < u[1] + BufLen
      PROVE  At(u[k] + i) # At(x)
  <2>1. u[1] <= x /\ u[k] + i # x
    BY <1>1, <1>2, <1>4, <1>5, <1>8, Sizes
  <2> QED BY <1>6, <1>8, <2>1
<1>9. ASSUME NEW j \in 0 .. FIFO_HDR_LEN - 1, At(u[k] + i) = At(u[N] + j) PROVE k = N /\ i = j
  <2>1. u[N] + j \in Nat /\ u[1] <= u[N] + j /\ u[N] + j < u[1] + BufLen
    BY <1>1, <1>2, Sizes
  <2>2. u[k] + i = u[N] + j
    BY <1>6, <1>9, <2>1
  <2>3. k = N
    BY <1>1, <1>2, <1>3, <1>4, <2>2, Sizes
  <2> QED BY <1>1, <2>2, <2>3, Sizes
<1> QED BY <1>7, <1>8, <1>9

\* The room a push takes while messages are queued: it begins where head is and
\* ends before the first message comes round again.
LEMMA RoomBehind ==
  ASSUME FifoInv, NEW N, NEW u, NEW l, NEW m, NEW U, Layout(N, u, l, m, U), first # NULL,
         NEW n \in Lens, n + FIFO_HDR_LEN <= BufLen, ~Full(n), ~Tears(n)
  PROVE  /\ N > 0 /\ ItemAddr(n) = At(U) /\ u[N] + l[N] + FIFO_HDR_LEN <= U
         /\ U + n + FIFO_HDR_LEN <= u[1] + BufLen /\ NewHead(n) = At(U + n + FIFO_HDR_LEN)
<1>1. /\ n \in Nat /\ head \in 0 .. BufLen - 1 /\ N \in Nat /\ U \in Nat
  BY MsgFifoAssumption DEF FifoInv, TypeOK, Offsets, Layout
<1>2. N > 0 /\ 1 \in 1 .. N /\ N \in 1 .. N
  BY <1>1 DEF Layout
<1>3. /\ u[1] \in Nat /\ u[1] < BufLen /\ first = u[1] /\ u[N] \in Nat /\ l[N] \in Nat /\ u[1] <= u[N]
      /\ first \in Items
  BY <1>2, ItemsInside DEF Layout
<1>4. ~Restarts(n) /\ ~(Wraps(n) /\ head <= first)
  BY DEF Tears
<1>5. ~((IF Wraps(n) THEN (n + FIFO_HDR_LEN) - (BufLen - head) ELSE (head + n) + FIFO_HDR_LEN) >= first)
  BY <1>1, Sizes DEF Full, FirstBlock
<1>6. Wraps(n) <=> (head + n) + FIFO_HDR_LEN >= BufLen
  BY DEF Wraps
<1>7. first # 0
  BY <1>1, <1>5, <1>6, Sizes
<1>8. head = At(U) /\ u[N] + l[N] + FIFO_HDR_LEN <= U /\ U <= u[1] + BufLen
  BY <1>2, <1>7 DEF Layout, HeadAfter
<1>9. ItemAddr(n) = head
  BY <1>4 DEF ItemAddr
<1>10. NewHead(n) = IF Wraps(n) THEN n - ((BufLen - head) - FIFO_HDR_LEN) ELSE (head + n) + FIFO_HDR_LEN
  BY <1>4 DEF NewHead, FirstBlock
<1>11. U = head \/ U = head + BufLen
  BY <1>1, <1>8, Sizes DEF At
<1>12. CASE Wraps(n)
  <2>1. head > first
    BY <1>1, <1>3, <1>4, <1>12
  <2>2. U = head
    BY <1>1, <1>3, <1>8, <1>11, <2>1, Sizes
  <2>3. U + n + FIFO_HDR_LEN <= u[1] + BufLen
    BY <1>1, <1>3, <1>5, <1>12, <2>2, Sizes
  <2>4. NewHead(n) = At(U + n + FIFO_HDR_LEN)
    BY <1>1, <1>6, <1>10, <1>12, <2>2, Sizes DEF At
  <2> QED BY <1>2, <1>8, <1>9, <2>3, <2>4
<1>13. CASE ~Wraps(n)
  <2>1. head < first
    BY <1>1, <1>3, <1>5, <1>13, Sizes
  <2>2. U = head + BufLen
    BY <1>1, <1>3, <1>8, <1>11, <2>1, Sizes
  <2>3. U + n + FIFO_HDR_LEN <= u[1] + BufLen
    BY <1>1, <1>3, <1>5, <1>13, <2>2, Sizes
  <2>4. NewHead(n) = At(U + n + FIFO_HDR_LEN)
    BY <1>1, <1>10, <1>13, <2>2, Sizes DEF At
  <2> QED BY <1>2, <1>8, <1>9, <2>3, <2>4
<1> QED BY <1>12, <1>13

\* A message joins the queued ones, behind the last.
LEMMA PushBehind ==
  ASSUME FifoInv, NEW N, NEW u, NEW l, NEW m, NEW U, Layout(N, u, l, m, U), first # NULL,
         NEW n \in Lens, PushInserts(n), ~Tears(n),
         NEW v, v = [k \in 1 .. N + 1 |-> IF k = N + 1 THEN U ELSE u[k]],
         NEW w, w = [k \in 1 .. N + 1 |-> IF k = N + 1 THEN n ELSE l[k]]
  PROVE  Layout(N + 1, v, w, m, U + n + FIFO_HDR_LEN)'
<1>1. /\ n \in Nat /\ n + FIFO_HDR_LEN <= BufLen /\ ~Full(n) /\ N \in Nat /\ U \in Nat /\ m \in Nat
      /\ u \in [1 .. N -> Nat] /\ l \in [1 .. N -> Nat] /\ accepted = m + N
  BY MsgFifoAssumption, Sizes DEF PushInserts, Layout
<1>2. /\ N > 0 /\ ItemAddr(n) = At(U) /\ u[N] + l[N] + FIFO_HDR_LEN <= U
      /\ U + n + FIFO_HDR_LEN <= u[1] + BufLen /\ NewHead(n) = At(U + n + FIFO_HDR_LEN)
  BY <1>1, RoomBehind
<1>3. /\ mem' = Stored(n) /\ head' = NewHead(n) /\ first' = first /\ last' = ItemAddr(n)
      /\ accepted' = accepted + 1
  BY DEF PushInserts
<1>4. /\ 1 \in 1 .. N /\ N \in 1 .. N
      /\ \A k \in 1 .. N + 1 : k = N + 1 \/ (k \in 1 .. N /\ k # N + 1)
      /\ \A k \in 1 .. N : k \in 1 .. N + 1 /\ k # N + 1
      /\ N + 1 \in 1 .. N + 1 /\ N + 1 \in Nat /\ N + 1 > 0 /\ N + 1 # 1
  BY <1>1, <1>2
<1>5. /\ v \in [1 .. N + 1 -> Nat] /\ w \in [1 .. N + 1 -> Nat]
      /\ v[N + 1] = U /\ w[N + 1] = n
      /\ \A k \in 1 .. N : v[k] = u[k] /\ w[k] = l[k]
  BY <1>1, <1>4
<1>6. /\ u[1] \in Nat /\ u[1] < BufLen /\ first = u[1] /\ first \in Items
      /\ u[N] \in Nat /\ l[N] \in Nat /\ u[1] <= u[N] /\ At(u[N]) \in Items /\ last = At(u[N])
      /\ u[N] < 2 * BufLen
  BY <1>2, <1>4, ItemsInside DEF Layout
<1>7. ItemAddr(n) \in Items
  BY <1>1, NewItem
<1>8. Ordered(N + 1, v, w)
  <2>1. ASSUME NEW k \in 1 .. N
        PROVE  /\ At(u[k]) \in Items /\ u[1] <= u[k] /\ u[k] + l[k] + FIFO_HDR_LEN <= u[1] + BufLen
               /\ u[k] + l[k] + FIFO_HDR_LEN <= U
    <3>1. At(u[k]) \in Items /\ u[1] <= u[k] /\ u[k] + l[k] + FIFO_HDR_LEN <= u[1] + BufLen
      BY DEF Layout, Ordered
    <3>2. k = N \/ u[k] + l[k] + FIFO_HDR_LEN <= u[N]
      BY <1>1, <1>4 DEF Layout, Ordered
    <3>3. u[k] \in Nat /\ l[k] \in Nat
      BY <1>1
    <3>4. CASE k = N
      BY <1>2, <3>1, <3>4
    <3>5. CASE u[k] + l[k] + FIFO_HDR_LEN <= u[N]
      <4>0. u[N] \in Nat /\ l[N] \in Nat /\ U \in Nat /\ u[N] + l[N] + FIFO_HDR_LEN <= U
        BY <1>1, <1>2, <1>6
      <4>1. u[N] <= U
        BY <4>0, Sizes
      <4>2. u[N] \in Nat /\ U \in Nat /\ u[k] + l[k] + FIFO_HDR_LEN \in Nat
        BY <3>3, <4>0, Sizes
      <4> QED BY <3>1, <3>5, <4>1, <4>2
    <3> QED BY <3>2, <3>4, <3>5
  <2>2. u[1] <= U
    BY <1>1, <1>2, <1>6, Sizes
  <2>3. v[1] = u[1]
    BY <1>4, <1>5
  <2>4. ASSUME NEW k \in 1 .. N + 1
        PROVE  /\ At(v[k]) \in Items /\ v[1] <= v[k]
               /\ v[k] + w[k] + FIFO_HDR_LEN <= v[1] + BufLen
    BY <1>2, <1>4, <1>5, <1>7, <2>1, <2>2, <2>3
  <2>5. ASSUME NEW j \in 1 .. N + 1, NEW k \in 1 .. N + 1, j < k
        PROVE  v[j] + w[j] + FIFO_HDR_LEN <= v[k]
    <3>1. j \in 1 .. N
      BY <1>1, <2>5
    <3>2. CASE k = N + 1
      BY <1>5, <2>1, <3>1, <3>2
    <3>3. CASE k # N + 1
      <4>1. k \in 1 .. N
        BY <1>4, <3>3
      <4> QED BY <1>5, <2>5, <3>1, <4>1 DEF Layout, Ordered
    <3> QED BY <3>2, <3>3
  <2> QED BY <2>4, <2>5 DEF Ordered
<1>9. \A c \in Offsets : c \in NextField(last) <=> \E i \in Word .. FIFO_HDR_LEN - 1 : c = At(u[N] + i)
  <2>1. \A i \in 0 .. FIFO_HDR_LEN - 1 : At(u[N] + i) = last + i
    BY <1>6, HeaderPlaces
  <2>2. last \in Nat
    BY <1>6, Sizes DEF Items
  <2> SUFFICES ASSUME NEW c \in Offsets
               PROVE  c \in NextField(last) <=> \E i \in Word .. FIFO_HDR_LEN - 1 : c = At(u[N] + i)
    OBVIOUS
  <2>3. c \in Nat
    BY Sizes DEF Offsets
  <2>4. c \in NextField(last) => c - last \in Word .. FIFO_HDR_LEN - 1 /\ c = last + (c - last)
    BY <2>2, <2>3, Sizes DEF NextField
  <2>5. \A i \in Word .. FIFO_HDR_LEN - 1 : c = last + i => c \in NextField(last)
    BY <2>2, <2>3, Sizes DEF NextField
  <2>6. \A i \in Word .. FIFO_HDR_LEN - 1 : i \in 0 .. FIFO_HDR_LEN - 1
    BY Sizes
  <2> QED BY <2>1, <2>4, <2>5, <2>6
<1>10. ASSUME NEW i \in 0 .. n + FIFO_HDR_LEN - 1
       PROVE  /\ U + i \in Nat /\ u[N] + l[N] + FIFO_HDR_LEN <= U + i /\ U + i < u[1] + BufLen
              /\ At(U + i) = At(ItemAddr(n) + i)
  <2>1. U + i \in Nat /\ u[N] + l[N] + FIFO_HDR_LEN <= U + i /\ U + i < u[1] + BufLen
    <3>1. i \in Nat /\ U + i \in Nat /\ U <= U + i /\ U + i < U + n + FIFO_HDR_LEN
      BY <1>1, Sizes
    <3>2. u[N] + l[N] + FIFO_HDR_LEN \in Nat /\ u[1] + BufLen \in Nat /\ U + n + FIFO_HDR_LEN \in Nat
      <4>1. u[N] \in Nat /\ l[N] \in Nat /\ u[1] \in Nat /\ U \in Nat /\ n \in Nat
        BY <1>1, <1>6
      <4> QED BY <4>1, Sizes
    <3> QED BY <1>1, <1>2, <3>1, <3>2
  <2>2. At(U + i) = At(At(U) + i)
    <3>1. CASE U < BufLen
      BY <3>1 DEF At
    <3>2. CASE ~(U < BufLen)
      <4>1. At(U) = U - BufLen
        BY <3>2 DEF At
      <4>2. /\ ~(U + i < BufLen) /\ (U - BufLen) + i < BufLen
            /\ (U + i) - BufLen = (U - BufLen) + i
        BY <1>1, <1>6, <2>1, <3>2, Sizes
      <4>3. At(U + i) = (U + i) - BufLen /\ At((U - BufLen) + i) = (U - BufLen) + i
        BY <4>2 DEF At
      <4> QED BY <4>1, <4>2, <4>3
    <3> QED BY <3>1, <3>2
  <2> QED BY <1>2, <2>1, <2>2
<1>11. Written(N + 1, v, w, m)'
  <2> SUFFICES ASSUME NEW k \in 1 .. N + 1, NEW i \in 0 .. w[k] + FIFO_HDR_LEN - 1
               PROVE  mem'[At(v[k] + i)] = ItemByte(i, w[k], LinkOf(k, N + 1, v), m + k)
    BY DEF Written, LinkOf, ItemByte, At
  <2>1. CASE k = N + 1
    <3>1. v[k] = U /\ w[k] = n /\ LinkOf(k, N + 1, v) = NULL /\ m + k = accepted + 1
          /\ i \in 0 .. n + FIFO_HDR_LEN - 1
      BY <1>1, <1>5, <2>1 DEF LinkOf
    <3>2. ~(first # NULL /\ At(ItemAddr(n) + i) \in NextField(last))
      <4>1. ASSUME NEW j \in Word .. FIFO_HDR_LEN - 1 PROVE At(U + i) # At(u[N] + j)
        <5>1. j \in 0 .. l[N] + FIFO_HDR_LEN - 1
          BY <1>6, Sizes
        <5> QED BY <1>4, <1>10, <3>1, <5>1, BytesApart
      <4>2. At(U + i) \in Offsets
        <5>1. u[1] <= U + i
          BY <1>2, <1>6, <1>10, <3>1, Sizes
        <5> QED BY <1>6, <1>10, <3>1, <5>1, Places
      <4> QED BY <1>9, <1>10, <3>1, <4>1, <4>2
    <3>3. Stored(n)[At(ItemAddr(n) + i)] = ItemByte(i, n, NULL, accepted + 1)
      BY <1>1, <3>1, <3>2, StoredBytes
    <3> QED BY <1>3, <1>10, <3>1, <3>3
  <2>2. CASE k # N + 1
    <3>1. k \in 1 .. N /\ v[k] = u[k] /\ w[k] = l[k] /\ i \in 0 .. l[k] + FIFO_HDR_LEN - 1
      BY <1>4, <1>5, <2>2
    <3> DEFINE c == At(u[k] + i)
    <3>2. c \in Offsets /\ mem[c] = ItemByte(i, l[k], LinkOf(k, N, u), m + k)
      BY <3>1, BytesApart DEF Layout, Written
    <3>3. \A j \in 0 .. n + FIFO_HDR_LEN - 1 : c # At(ItemAddr(n) + j)
      BY <1>10, <3>1, BytesApart
    <3>4. c \in NextField(last) <=> k = N /\ i \in Word .. FIFO_HDR_LEN - 1
      <4>1. \A j \in Word .. FIFO_HDR_LEN - 1 : j \in 0 .. FIFO_HDR_LEN - 1
        BY Sizes
      <4>2. \A j \in 0 .. FIFO_HDR_LEN - 1 : c = At(u[N] + j) => k = N /\ i = j
        BY <3>1, BytesApart
      <4> QED BY <1>9, <3>2, <4>1, <4>2
    <3>5. CASE k = N /\ i \in Word .. FIFO_HDR_LEN - 1
      <4>1. Stored(n)[c] = <<"next", ItemAddr(n)>>
        <5> HIDE DEF c
        <5> QED BY <1>1, <3>2, <3>4, <3>5, StoredBytes
      <4>2. LinkOf(k, N + 1, v) = ItemAddr(n)
        BY <1>1, <1>2, <1>5, <3>5 DEF LinkOf
      <4>3. ~(i < Word) /\ i < FIFO_HDR_LEN
        BY <3>5, Sizes
      <4> QED BY <1>3, <3>1, <4>1, <4>2, <4>3 DEF ItemByte
    <3>6. CASE ~(k = N /\ i \in Word .. FIFO_HDR_LEN - 1)
      <4>1. Stored(n)[c] = mem[c]
        <5> HIDE DEF c
        <5> QED BY <1>1, <3>2, <3>3, <3>4, <3>6, StoredBytes
      <4>2. ItemByte(i, l[k], LinkOf(k, N, u), m + k) = ItemByte(i, l[k], LinkOf(k, N + 1, v), m + k)
        <5>1. CASE k = N
          <6>1. i < Word \/ ~(i < FIFO_HDR_LEN)
            BY <1>6, <3>1, <3>6, <5>1, Sizes
          <6> QED BY <6>1 DEF ItemByte
        <5>2. CASE k # N
          <6>1. k + 1 \in 1 .. N /\ k # N + 1
            BY <1>1, <3>1, <5>2
          <6> QED BY <1>5, <5>2, <6>1 DEF LinkOf
        <5> QED BY <5>1, <5>2
      <4> QED BY <1>3, <3>1, <3>2, <4>1, <4>2
    <3> QED BY <3>5, <3>6
  <2> QED BY <2>1, <2>2
<1>12. HeadAfter(N + 1, v, w, U + n + FIFO_HDR_LEN)'
  <2>1. head' = At(U + n + FIFO_HDR_LEN) /\ U + n + FIFO_HDR_LEN <= v[1] + BufLen
    BY <1>2, <1>3, <1>4, <1>5
  <2>2. v[N + 1] + w[N + 1] + FIFO_HDR_LEN <= U + n + FIFO_HDR_LEN
    BY <1>1, <1>5, Sizes
  <2> QED BY <2>1, <2>2 DEF HeadAfter, At
<1>13. /\ U + n + FIFO_HDR_LEN \in Nat /\ accepted' = m + (N + 1)
       /\ first' = v[1] /\ first' \in Items /\ last' = At(v[N + 1])
  BY <1>1, <1>2, <1>3, <1>4, <1>5, <1>6, Sizes
<1>14. Ordered(N + 1, v, w)'
  BY <1>8 DEF Ordered, At, Items
<1> QED BY <1>1, <1>4, <1>5, <1>11, <1>12, <1>13, <1>14 DEF Layout, At, Items

\* A message is the first of an empty queue, at head or at the start.
LEMMA PushAlone ==
  ASSUME FifoInv, first = NULL, NEW n \in Lens, PushInserts(n),
         NEW a, a = ItemAddr(n), NEW m, m = accepted,
         NEW v, v = [k \in 1 .. 1 |-> a], NEW w, w = [k \in 1 .. 1 |-> n]
  PROVE  Layout(1, v, w, m, a + n + FIFO_HDR_LEN)'
<1>1. /\ n \in Nat /\ n + FIFO_HDR_LEN <= BufLen /\ head \in 0 .. BufLen - 1 /\ m \in Nat
  BY MsgFifoAssumption, Sizes DEF PushInserts, FifoInv, TypeOK, Offsets
<1>2. /\ mem' = Stored(n) /\ head' = NewHead(n) /\ first' = a /\ last' = a
      /\ accepted' = m + 1
  BY DEF PushInserts
<1>3. a \in Items /\ a \in Nat /\ a + FIFO_HDR_LEN <= BufLen /\ At(a) = a
  <2>1. a \in Items
    BY <1>1, NewItem
  <2> QED BY <2>1, Sizes DEF Items, At
<1>4. /\ v \in [1 .. 1 -> Nat] /\ w \in [1 .. 1 -> Nat] /\ v[1] = a /\ w[1] = n
      /\ \A k \in 1 .. 1 : k = 1
  BY <1>1, <1>3
<1>5. Ordered(1, v, w)'
  <2>1. a + n + FIFO_HDR_LEN <= a + BufLen /\ a <= a
    BY <1>1, <1>3, Sizes
  <2>2. Ordered(1, v, w)
    BY <1>3, <1>4, <2>1 DEF Ordered
  <2> QED BY <2>2 DEF Ordered, At, Items
<1>6. Written(1, v, w, m)'
  <2> SUFFICES ASSUME NEW i \in 0 .. n + FIFO_HDR_LEN - 1
               PROVE  mem'[At(a + i)] = ItemByte(i, n, NULL, m + 1)
    <3>1. LinkOf(1, 1, v) = NULL
      BY DEF LinkOf
    <3>2. \A i \in 0 .. n + FIFO_HDR_LEN - 1 : mem'[At(v[1] + i)] = ItemByte(i, w[1], LinkOf(1, 1, v), m + 1)
      BY <1>4, <3>1
    <3> QED BY <1>4, <3>2 DEF Written, LinkOf, ItemByte, At
  <2> QED BY <1>1, <1>2, StoredBytes
<1>7. HeadAfter(1, v, w, a + n + FIFO_HDR_LEN)'
  <2> SUFFICES ASSUME a # 0
               PROVE  /\ head' = At(a + n + FIFO_HDR_LEN) /\ v[1] + w[1] + FIFO_HDR_LEN <= a + n + FIFO_HDR_LEN
                      /\ a + n + FIFO_HDR_LEN <= v[1] + BufLen
    BY <1>2 DEF HeadAfter, At
  <2>1. ~Restarts(n) /\ a = head
    BY DEF ItemAddr
  <2>2. NewHead(n) = IF (head + n) + FIFO_HDR_LEN >= BufLen THEN n - ((BufLen - head) - FIFO_HDR_LEN)
                     ELSE (head + n) + FIFO_HDR_LEN
    BY <2>1 DEF NewHead, FirstBlock, Wraps
  <2>3. NewHead(n) = At(a + n + FIFO_HDR_LEN)
    BY <1>1, <2>1, <2>2, Sizes DEF At
  <2> QED BY <1>1, <1>2, <1>3, <1>4, <2>3, Sizes
<1>8. a + n + FIFO_HDR_LEN \in Nat /\ 1 \in Nat /\ last' = At(v[1]) /\ first' = v[1] /\ first' \in Items
  BY <1>1, <1>2, <1>3, <1>4, Sizes
<1> QED BY <1>1, <1>2, <1>4, <1>5, <1>6, <1>7, <1>8 DEF Layout, At, Items

\* A refused push leaves the items alone; head may go to the start, over room
\* that no header fits in.
LEMMA PushRefused ==
  ASSUME FifoInv, NEW N, NEW u, NEW l, NEW m, NEW U, Layout(N, u, l, m, U),
         NEW n \in Lens, PushFull(n), NEW V, V = IF Restarts(n) THEN BufLen ELSE U
  PROVE  Layout(N, u, l, m, V)'
<1>1. /\ UNCHANGED <<first, last, mem, accepted>> /\ head' = IF Restarts(n) THEN 0 ELSE head
      /\ head \in 0 .. BufLen - 1 /\ n \in Nat
  BY MsgFifoAssumption DEF PushFull, FifoInv, TypeOK, Offsets
<1>2. V \in Nat
  BY Sizes DEF Layout
<1>3. HeadAfter(N, u, l, V)'
  <2>1. CASE ~Restarts(n)
    BY <1>1, <2>1 DEF Layout, HeadAfter, At
  <2>2. CASE Restarts(n)
    <3> SUFFICES ASSUME N > 0, ~(N = 1 /\ first = 0)
                 PROVE  /\ 0 = At(BufLen) /\ u[N] + l[N] + FIFO_HDR_LEN <= BufLen
                        /\ BufLen <= u[1] + BufLen
      BY <1>1, <2>2 DEF HeadAfter, At
    <3>1. N \in Nat /\ U \in Nat /\ head = At(U) /\ u[N] + l[N] + FIFO_HDR_LEN <= U /\ U <= u[1] + BufLen
      BY DEF Layout, HeadAfter
    <3>2. 1 \in 1 .. N /\ N \in 1 .. N
      BY <3>1
    <3>3. u[1] \in Nat /\ u[N] \in Nat /\ l[N] \in Nat /\ u[1] + FIFO_HDR_LEN <= BufLen
      <4>1. u[1] \in Nat /\ u[N] \in Nat /\ l[N] \in Nat /\ first = u[1] /\ first \in Items
        BY <3>2, ItemsInside DEF Layout
      <4> QED BY <4>1, Sizes DEF Items
    <3>4. BufLen - head < FIFO_HDR_LEN
      BY <2>2 DEF Restarts, FirstBlock
    <3>5. U < BufLen
      BY <1>1, <3>1, <3>3, <3>4, Sizes DEF At
    <3>6. u[N] + l[N] + FIFO_HDR_LEN <= BufLen /\ BufLen <= u[1] + BufLen
      BY <3>1, <3>3, <3>5, Sizes
    <3> QED BY <3>6, Sizes DEF At
  <2> QED BY <2>1, <2>2
<1>4. Ordered(N, u, l)' /\ Written(N, u, l, m)'
  BY <1>1 DEF Layout, Ordered, Written, At, Items, ItemByte, LinkOf
<1> QED BY <1>1, <1>2, <1>3, <1>4 DEF Layout, At, Items

\* The first message leaves: the others are counted from the next one.
LEMMA PopLeaves ==
  ASSUME FifoInv, NEW N, NEW u, NEW l, NEW m, NEW U, Layout(N, u, l, m, U), N > 1,
         first' = At(u[2]), UNCHANGED <<head, last, mem, accepted>>,
         NEW d, d = IF u[2] < BufLen THEN 0 ELSE BufLen,
         NEW v, v = [k \in 1 .. N - 1 |-> u[k + 1] - d],
         NEW w, w = [k \in 1 .. N - 1 |-> l[k + 1]]
  PROVE  Layout(N - 1, v, w, m + 1, U - d)'
<1>0. \A x, y, z \in Nat : x + y + FIFO_HDR_LEN <= z =>
        /\ x <= z /\ \A e \in Nat : (x - e) + y + FIFO_HDR_LEN <= z - e
        /\ \A i \in 0 .. y + FIFO_HDR_LEN - 1 : x + i \in Nat /\ x <= x + i /\ x + i <= z
  BY Sizes
<1>1. /\ N \in Nat /\ u \in [1 .. N -> Nat] /\ l \in [1 .. N -> Nat] /\ m \in Nat /\ U \in Nat
      /\ accepted = m + N /\ last = At(u[N])
  BY DEF Layout
<1>2. /\ 1 \in 1 .. N /\ 2 \in 1 .. N /\ N \in 1 .. N /\ 1 \in 1 .. N - 1 /\ N - 1 \in 1 .. N - 1
      /\ \A k \in 1 .. N - 1 : k + 1 \in 1 .. N /\ k \in Nat /\ (k + 1 = 2 \/ 2 < k + 1)
      /\ (N - 1) + 1 = N /\ N - 1 \in Nat /\ N - 1 > 0
  BY <1>1
<1>3. /\ u[1] \in Nat /\ u[1] < BufLen /\ u[2] \in Nat /\ u[1] <= u[2] /\ l[2] \in Nat
      /\ u[2] + l[2] + FIFO_HDR_LEN <= u[1] + BufLen /\ At(u[2]) \in Items
  BY <1>2, ItemsInside
<1>4. ASSUME NEW k \in 1 .. N - 1
      PROVE  /\ u[k + 1] \in Nat /\ l[k + 1] \in Nat /\ u[2] <= u[k + 1] /\ At(u[k + 1]) \in Items
             /\ u[k + 1] + l[k + 1] + FIFO_HDR_LEN <= u[1] + BufLen
  <2>1. /\ u[k + 1] \in Nat /\ l[k + 1] \in Nat /\ At(u[k + 1]) \in Items
        /\ u[k + 1] + l[k + 1] + FIFO_HDR_LEN <= u[1] + BufLen
    BY <1>2, ItemsInside
  <2>2. k + 1 = 2 \/ u[2] + l[2] + FIFO_HDR_LEN <= u[k + 1]
    BY <1>2 DEF Layout, Ordered
  <2> QED BY <1>3, <2>1, <2>2, Sizes
<1>5. /\ head = At(U) /\ u[N] + l[N] + FIFO_HDR_LEN <= U /\ U <= u[1] + BufLen
      /\ u[N] \in Nat /\ l[N] \in Nat /\ u[2] <= u[N]
  <2>1. N > 0 /\ N # 1
    BY <1>1
  <2>2. head = At(U) /\ u[N] + l[N] + FIFO_HDR_LEN <= U /\ U <= u[1] + BufLen
    BY <2>1 DEF Layout, HeadAfter
  <2> QED BY <1>2, <1>4, <2>2
\* Counting from the next item gives the same places.
<1>6. ASSUME NEW x \in Nat, u[2] <= x, x <= u[1] + BufLen
      PROVE  x - d \in Nat /\ At(x - d) = At(x) /\ x - d <= (u[2] - d) + BufLen
  BY <1>3, <1>6, Sizes DEF At
<1>7. d \in Nat /\ u[2] - d \in Nat /\ At(u[2]) = u[2] - d
  BY <1>3, Sizes DEF At
<1>8. ASSUME NEW k \in 1 .. N - 1
      PROVE  /\ v[k] = u[k + 1] - d /\ w[k] = l[k + 1] /\ v[k] \in Nat /\ w[k] \in Nat
             /\ At(v[k]) = At(u[k + 1])
  <2>1. v[k] = u[k + 1] - d /\ w[k] = l[k + 1]
    OBVIOUS
  <2>2. u[k + 1] <= u[1] + BufLen
    <3>1. u[k + 1] \in Nat /\ l[k + 1] \in Nat
          /\ u[k + 1] + l[k + 1] + FIFO_HDR_LEN <= u[1] + BufLen /\ u[1] + BufLen \in Nat
      BY <1>3, <1>4, Sizes
    <3> QED BY <1>0, <3>1
  <2> QED BY <1>4, <1>6, <2>1, <2>2
<1>9. v \in [1 .. N - 1 -> Nat] /\ w \in [1 .. N - 1 -> Nat]
  BY <1>8
<1>10. v[1] = u[2] - d /\ v[N - 1] = u[N] - d /\ w[N - 1] = l[N]
  BY <1>2, <1>8
<1>11. Ordered(N - 1, v, w)
  <2>1. ASSUME NEW k \in 1 .. N - 1
        PROVE  /\ At(v[k]) \in Items /\ v[1] <= v[k]
               /\ v[k] + w[k] + FIFO_HDR_LEN <= v[1] + BufLen
    <3>1. At(v[k]) \in Items /\ v[1] <= v[k]
      BY <1>3, <1>4, <1>7, <1>8, <1>10
    <3>2. (u[k + 1] + l[k + 1] + FIFO_HDR_LEN) - d <= (u[2] - d) + BufLen
      <4>1. u[k + 1] \in Nat /\ l[k + 1] \in Nat /\ u[2] \in Nat /\ u[2] <= u[k + 1]
        BY <1>3, <1>4
      <4>2. u[k + 1] + l[k + 1] + FIFO_HDR_LEN \in Nat /\ u[2] <= u[k + 1] + l[k + 1] + FIFO_HDR_LEN
        BY <4>1, Sizes
      <4> QED BY <1>4, <1>6, <4>2
    <3>3. v[k] + w[k] + FIFO_HDR_LEN = (u[k + 1] + l[k + 1] + FIFO_HDR_LEN) - d
      <4>1. /\ v[k] = u[k + 1] - d /\ w[k] = l[k + 1] /\ d \in Nat
            /\ u[k + 1] \in Nat /\ l[k + 1] \in Nat
        BY <1>4, <1>7, <1>8
      <4> QED BY <4>1, Sizes
    <3> QED BY <1>10, <3>1, <3>2, <3>3
  <2>2. ASSUME NEW j \in 1 .. N - 1, NEW k \in 1 .. N - 1, j < k
        PROVE  v[j] + w[j] + FIFO_HDR_LEN <= v[k]
    <3>1. j + 1 \in 1 .. N /\ k + 1 \in 1 .. N /\ j + 1 < k + 1
      BY <1>2, <2>2
    <3>2. u[j + 1] + l[j + 1] + FIFO_HDR_LEN <= u[k + 1]
      BY <3>1 DEF Layout, Ordered
    <3>3. u[j + 1] \in Nat /\ l[j + 1] \in Nat /\ u[k + 1] \in Nat
      BY <1>4
    <3>4. (u[j + 1] - d) + l[j + 1] + FIFO_HDR_LEN <= u[k + 1] - d
      BY <1>0, <1>7, <3>2, <3>3
    <3> QED BY <1>8, <3>4
  <2> QED BY <2>1, <2>2 DEF Ordered
<1>12. Ordered(N - 1, v, w)'
  BY <1>11 DEF Ordered, At, Items
<1>13. Written(N - 1, v, w, m + 1)'
  <2> SUFFICES ASSUME NEW k \in 1 .. N - 1, NEW i \in 0 .. w[k] + FIFO_HDR_LEN - 1
               PROVE  mem[At(v[k] + i)] = ItemByte(i, w[k], LinkOf(k, N - 1, v), (m + 1) + k)
    BY DEF Written, LinkOf, ItemByte, At
  <2>1. i \in 0 .. l[k + 1] + FIFO_HDR_LEN - 1 /\ k + 1 \in 1 .. N
    BY <1>2, <1>8
  <2>2. mem[At(u[k + 1] + i)] = ItemByte(i, l[k + 1], LinkOf(k + 1, N, u), m + (k + 1))
    BY <2>1 DEF Layout, Written
  <2>3. At(v[k] + i) = At(u[k + 1] + i)
    <3>1. u[k + 1] + i \in Nat /\ u[2] <= u[k + 1] + i /\ u[k + 1] + i <= u[1] + BufLen
      <4>1. u[k + 1] \in Nat /\ l[k + 1] \in Nat /\ u[2] <= u[k + 1]
            /\ u[k + 1] + l[k + 1] + FIFO_HDR_LEN <= u[1] + BufLen /\ u[1] + BufLen \in Nat
        <5>1. u[1] + BufLen \in Nat
          BY <1>3, Sizes
        <5> QED BY <1>4, <5>1
      <4>2. u[k + 1] + i \in Nat /\ u[k + 1] <= u[k + 1] + i /\ u[k + 1] + i <= u[1] + BufLen
        BY <1>0, <2>1, <4>1
      <4> QED BY <1>3, <4>1, <4>2
    <3>2. v[k] + i = (u[k + 1] + i) - d
      BY <1>4, <1>7, <1>8, <2>1, Sizes
    <3> QED BY <1>6, <3>1, <3>2
  <2>4. LinkOf(k, N - 1, v) = LinkOf(k + 1, N, u)
    <3>1. CASE k = N - 1
      BY <1>1, <3>1 DEF LinkOf
    <3>2. CASE k # N - 1
      <4>1. k + 1 \in 1 .. N - 1 /\ k + 1 # N
        BY <1>1, <3>2
      <4>2. At(v[k + 1]) = At(u[(k + 1) + 1])
        BY <1>8, <4>1
      <4> QED BY <3>2, <4>1, <4>2 DEF LinkOf
    <3> QED BY <3>1, <3>2
  <2>5. (m + 1) + k = m + (k + 1)
    BY <1>1
  <2> QED BY <1>8, <2>2, <2>3, <2>4, <2>5
<1>14. HeadAfter(N - 1, v, w, U - d)' /\ U - d \in Nat
  <2>1. u[2] <= U
    <3>1. u[N] <= U
      BY <1>0, <1>1, <1>5
    <3>2. u[2] \in Nat /\ u[N] \in Nat
      BY <1>3, <1>5
    <3> QED BY <1>1, <1>5, <3>1, <3>2
  <2>2. U - d \in Nat /\ At(U - d) = At(U) /\ U - d <= (u[2] - d) + BufLen
    BY <1>1, <1>5, <1>6, <2>1
  <2>3. v[N - 1] + w[N - 1] + FIFO_HDR_LEN <= U - d
    <3>1. (u[N] - d) + l[N] + FIFO_HDR_LEN <= U - d
      BY <1>0, <1>1, <1>5, <1>7
    <3> QED BY <1>10, <3>1
  <2> QED BY <1>5, <1>10, <2>2, <2>3 DEF HeadAfter, At
<1>15. /\ m + 1 \in Nat /\ accepted' = (m + 1) + (N - 1)
       /\ first' = v[1] /\ first' \in Items /\ last' = At(v[N - 1])
  <2>1. At(v[N - 1]) = At(u[N])
    BY <1>2, <1>8
  <2> QED BY <1>1, <1>3, <1>7, <1>10, <2>1
<1>16. N - 1 \in Nat /\ N - 1 > 0 /\ N - 1 # 0
  BY <1>1
<1> QED BY <1>9, <1>12, <1>13, <1>14, <1>15, <1>16 DEF Layout, At, Items
-----------------------------------------------------------------------------
AllMessages == {Message(a, b) : a \in Nat, b \in Nat}

\* A message has its length.
LEMMA MessageLen == ASSUME NEW a, NEW b \in Nat PROVE Len(Message(a, b)) = b
<1>1. Message(a, b) = [k \in 1 .. b |-> <<"data", a, k>>]
  BY DEF Message
<1> QED BY <1>1

\* The messages of the items, as a sequence.
LEMMA QueuedSeq ==
  ASSUME NEW N \in Nat, NEW m \in Nat, NEW l \in [1 .. N -> Nat]
  PROVE  /\ Queued(N, l, m) \in Seq(AllMessages) /\ Len(Queued(N, l, m)) = N
         /\ \A k \in 1 .. N : Queued(N, l, m)[k] = Message(m + k, l[k])
         /\ Queued(N, l, m) = <<>> <=> N = 0
<1>1. \A k \in 1 .. N : Message(m + k, l[k]) \in AllMessages
  <2>1. \A k \in 1 .. N : m + k \in Nat /\ l[k] \in Nat
    OBVIOUS
  <2>2. \A a, b \in Nat : Message(a, b) \in AllMessages
    BY DEF AllMessages
  <2> QED BY <2>1, <2>2
<1>2. Queued(N, l, m) \in [1 .. N -> AllMessages]
  BY <1>1 DEF Queued
<1>3. \A k \in 1 .. N : Queued(N, l, m)[k] = Message(m + k, l[k])
  BY DEF Queued
<1> DEFINE q == Queued(N, l, m)
<1> HIDE DEF q
<1>4. q \in Seq(AllMessages) /\ Len(q) = N
  BY <1>2 DEF q
<1>5. q = <<>> <=> N = 0
  BY <1>4, EmptySeq
<1> QED BY <1>3, <1>4, <1>5 DEF q

\* One more message.
LEMMA QueuedAppend ==
  ASSUME NEW N \in Nat, NEW m \in Nat, NEW w \in [1 .. N + 1 -> Nat]
  PROVE  Queued(N + 1, w, m) = Append(Queued(N, w, m), Message(m + (N + 1), w[N + 1]))
<1> DEFINE q == Queued(N, w, m)
           r == Queued(N + 1, w, m)
           e == Message(m + (N + 1), w[N + 1])
           l == [k \in 1 .. N |-> w[k]]
<1>1. q \in Seq(AllMessages) /\ Len(q) = N /\ \A k \in 1 .. N : q[k] = Message(m + k, w[k])
  <2>1. l \in [1 .. N -> Nat] /\ \A k \in 1 .. N : l[k] = w[k]
    OBVIOUS
  <2> HIDE DEF l
  <2>2. /\ Queued(N, l, m) \in Seq(AllMessages) /\ Len(Queued(N, l, m)) = N
        /\ \A k \in 1 .. N : Queued(N, l, m)[k] = Message(m + k, l[k])
    BY <2>1, QueuedSeq
  <2>3. q = Queued(N, l, m)
    BY <2>1 DEF Queued
  <2> HIDE DEF q
  <2> QED BY <2>1, <2>2, <2>3
<1>2. N + 1 \in Nat /\ m + (N + 1) \in Nat /\ w[N + 1] \in Nat
  OBVIOUS
<1>3. r \in Seq(AllMessages) /\ Len(r) = N + 1 /\ \A k \in 1 .. N + 1 : r[k] = Message(m + k, w[k])
  BY <1>2, QueuedSeq
<1>4. e \in AllMessages
  <2>1. \A a, b \in Nat : Message(a, b) \in AllMessages
    BY DEF AllMessages
  <2> QED BY <1>2, <2>1
<1>5. r[N + 1] = e
  BY <1>2, <1>3
<1> HIDE DEF q, r, e
<1>6. /\ Append(q, e) \in Seq(AllMessages) /\ Len(Append(q, e)) = N + 1
      /\ (\A k \in 1 .. N : Append(q, e)[k] = q[k]) /\ Append(q, e)[N + 1] = e
  BY <1>1, <1>4, AppendProperties
<1>7. ASSUME NEW k \in 1 .. N + 1 PROVE r[k] = Append(q, e)[k]
  <2>1. CASE k = N + 1
    BY <1>5, <1>6, <2>1
  <2>2. CASE k \in 1 .. N
    BY <1>1, <1>3, <1>6, <2>2
  <2>3. k = N + 1 \/ k \in 1 .. N
    OBVIOUS
  <2> QED BY <2>1, <2>2, <2>3
<1>8. r = Append(q, e)
  BY <1>3, <1>6, <1>7, SeqEqual
<1> QED BY <1>8 DEF q, r, e

\* One message less.
LEMMA QueuedTail ==
  ASSUME NEW N \in Nat, N > 0, NEW m \in Nat, NEW l \in [1 .. N -> Nat],
         NEW w, w = [k \in 1 .. N - 1 |-> l[k + 1]]
  PROVE  /\ Queued(N - 1, w, m + 1) = Tail(Queued(N, l, m))
         /\ Head(Queued(N, l, m)) = Message(m + 1, l[1])
<1> DEFINE q == Queued(N, l, m)
           r == Queued(N - 1, w, m + 1)
<1>1. /\ q \in Seq(AllMessages) /\ Len(q) = N /\ \A k \in 1 .. N : q[k] = Message(m + k, l[k])
      /\ q # <<>>
  <2>1. N # 0
    OBVIOUS
  <2> QED BY <2>1, QueuedSeq
<1>2. w \in [1 .. N - 1 -> Nat] /\ N - 1 \in Nat /\ m + 1 \in Nat
  OBVIOUS
<1>3. r \in Seq(AllMessages) /\ Len(r) = N - 1 /\ \A k \in 1 .. N - 1 : r[k] = Message((m + 1) + k, w[k])
  BY <1>2, QueuedSeq
<1>4. \A k \in 1 .. N - 1 : w[k] = l[k + 1] /\ k + 1 \in 1 .. N /\ (m + 1) + k = m + (k + 1)
  OBVIOUS
<1> HIDE DEF q, r
<1>5. /\ Tail(q) \in Seq(AllMessages) /\ Len(Tail(q)) = N - 1
      /\ \A k \in 1 .. N - 1 : Tail(q)[k] = q[k + 1]
  BY <1>1, HeadTailProperties
<1>6. ASSUME NEW k \in 1 .. N - 1 PROVE r[k] = Tail(q)[k]
  BY <1>1, <1>3, <1>4, <1>5
<1>7. r = Tail(q)
  BY <1>3, <1>5, <1>6, SeqEqual
<1>8. Head(q) = Message(m + 1, l[1])
  <2>1. 1 \in 1 .. N
    OBVIOUS
  <2> QED BY <1>1, <2>1
<1> QED BY <1>7, <1>8 DEF q, r
-----------------------------------------------------------------------------
\* The queue of a state in which the items are laid out.
LEMMA QueueNow ==
  ASSUME TypeOK, NEW N, NEW u, NEW l, NEW m, NEW U, Layout(N, u, l, m, U)
  PROVE  /\ Found = Queued(N, l, m) /\ N \in Nat /\ m \in Nat /\ l \in [1 .. N -> Nat]
         /\ (Found = <<>> <=> N = 0) /\ (first = NULL <=> N = 0)
<1>1. N \in Nat /\ m \in Nat /\ l \in [1 .. N -> Nat]
  BY DEF Layout
<1>2. Found = Queued(N, l, m)
  BY QueueRead DEF Reads
<1>3. Queued(N, l, m) = <<>> <=> N = 0
  BY <1>1, QueuedSeq
<1>4. first = NULL <=> N = 0
  <2>1. N > 0 => first \in Items
    BY DEF Layout
  <2>2. NULL \notin Items
    BY MsgFifoAssumption, Sizes DEF Items, Offsets
  <2> QED BY <1>1, <2>1, <2>2 DEF Layout
<1> QED BY <1>1, <1>2, <1>3, <1>4

\* The same items hold the same queue.
LEMMA SameQueue ==
  ASSUME FifoInv, FifoInv', LaidOut, UNCHANGED <<head, first, last, mem, accepted>>
  PROVE  LaidOut' /\ Found' = Found
<1> PICK N, u, l, m, U : Layout(N, u, l, m, U)
  BY DEF LaidOut
<1>1. Layout(N, u, l, m, U)'
  BY DEF Layout, Ordered, Written, HeadAfter, At, Items, ItemByte, LinkOf
<1>2. Found = Queued(N, l, m)
  BY QueueRead DEF Reads, FifoInv
<1>3. Found' = Queued(N, l, m)
  BY <1>1, QueueReadNext DEF FifoInv
<1> QED BY <1>1, <1>2, <1>3 DEF LaidOut

\* The messages that calls may push.
PushedMsgs == {Message(m, n) : m \in 1 .. MaxMsgs, n \in Lens}

\* An accepted push appends its message (msg_fifo_push).
LEMMA InsertImplements ==
  ASSUME FifoInv, FifoInv', LaidOut, NEW n \in Lens, PushInserts(n), ~Tears(n)
  PROVE  LaidOut' /\ \E msg \in PushedMsgs : Queue!Push(msg)
<1>0. TypeOK /\ TypeOK'
  BY DEF FifoInv
<1>1. PICK N, u, l, m, U : Layout(N, u, l, m, U)
  BY DEF LaidOut
<1>2. /\ Found = Queued(N, l, m) /\ N \in Nat /\ m \in Nat /\ l \in [1 .. N -> Nat]
      /\ (first = NULL <=> N = 0) /\ accepted = m + N
  BY <1>0, <1>1, QueueNow DEF Layout
<1>3. PICK p : p = m + N + 1
  OBVIOUS
<1>4. /\ n \in Nat /\ n + FIFO_HDR_LEN <= BufLen /\ p \in 1 .. MaxMsgs
      /\ ret' = Op("msg_fifo_push", n, n, <<>>)
  BY <1>0, <1>2, <1>3, MsgFifoAssumption, Sizes DEF PushInserts, TypeOK
\* With the lengths after the push the queue is one message longer.
<1>5. ASSUME NEW M, M = N + 1, NEW v, NEW V, NEW w, Layout(M, v, w, m, V)',
             w = [k \in 1 .. M |-> IF k = M THEN n ELSE l[k]]
      PROVE  LaidOut' /\ Found' = Append(Found, Message(p, n))
  <2>1. Found' = Queued(M, w, m)
    BY <1>0, <1>5, QueueReadNext
  <2>2. w \in [1 .. M -> Nat] /\ w[M] = n /\ \A k \in 1 .. N : w[k] = l[k]
    BY <1>2, <1>4, <1>5
  <2>3. Queued(M, w, m) = Append(Queued(N, l, m), Message(p, n))
    <3>1. p = m + (N + 1) /\ w \in [1 .. N + 1 -> Nat]
      BY <1>2, <1>3, <1>5, <2>2
    <3>2. Queued(N + 1, w, m) = Append(Queued(N, w, m), Message(m + (N + 1), w[N + 1]))
      BY <1>2, <3>1, QueuedAppend
    <3>3. Queued(N, w, m) = Queued(N, l, m)
      BY <2>2 DEF Queued
    <3> QED BY <1>5, <2>2, <3>1, <3>2, <3>3
  <2>4. LaidOut'
    BY <1>5 DEF LaidOut
  <2> QED BY <1>2, <2>1, <2>3, <2>4
<1>6. LaidOut' /\ Found' = Append(Found, Message(p, n))
  <2>1. CASE first # NULL
    <3>1. PICK v : v = [k \in 1 .. N + 1 |-> IF k = N + 1 THEN U ELSE u[k]]
      OBVIOUS
    <3>2. PICK w : w = [k \in 1 .. N + 1 |-> IF k = N + 1 THEN n ELSE l[k]]
      OBVIOUS
    <3>3. Layout(N + 1, v, w, m, U + n + FIFO_HDR_LEN)'
      BY <1>1, <2>1, <3>1, <3>2, PushBehind
    <3>4. PICK M, V : M = N + 1 /\ V = U + n + FIFO_HDR_LEN
      OBVIOUS
    <3>5. Layout(M, v, w, m, V)' /\ w = [k \in 1 .. M |-> IF k = M THEN n ELSE l[k]]
      BY <3>2, <3>3, <3>4
    <3> QED BY <1>5, <3>4, <3>5
  <2>2. CASE first = NULL
    <3>0. N = 0 /\ m = accepted /\ 1 = N + 1
      BY <1>2, <2>2
    <3>1. PICK a : a = ItemAddr(n)
      OBVIOUS
    <3>2. PICK v : v = [k \in 1 .. 1 |-> a]
      OBVIOUS
    <3>3. PICK w : w = [k \in 1 .. 1 |-> n]
      OBVIOUS
    <3>4. Layout(1, v, w, m, a + n + FIFO_HDR_LEN)'
      BY <2>2, <3>0, <3>1, <3>2, <3>3, PushAlone
    <3>5. PICK V : V = a + n + FIFO_HDR_LEN
      OBVIOUS
    <3>6. Layout(1, v, w, m, V)'
      BY <3>4, <3>5
    <3>7. w = [k \in 1 .. 1 |-> IF k = 1 THEN n ELSE l[k]]
      BY <3>3
    <3> QED BY <1>5, <3>0, <3>6, <3>7
  <2> QED BY <2>1, <2>2
<1> DEFINE msg == Message(p, n)
<1>7. msg \in PushedMsgs /\ Len(msg) = n
  BY <1>4, MessageLen DEF PushedMsgs
<1>8. n <= BufLen - FIFO_HDR_LEN
  BY <1>4, Sizes
<1> HIDE DEF msg
<1>9. Queue!Push(msg)
  BY <1>4, <1>6, <1>7, <1>8 DEF Queue!Push, Queue!Op, Op, msg
<1> QED BY <1>6, <1>7, <1>9

\* A push is refused for a message that can never fit, or while others are
\* queued, and changes nothing of them (msg_fifo_push).
LEMMA RefuseImplements ==
  ASSUME FifoInv, FifoInv', LaidOut, NEW n \in Lens, PushTooLarge(n) \/ PushFull(n)
  PROVE  LaidOut' /\ \E msg \in PushedMsgs : Queue!Push(msg)
<1>0. TypeOK /\ TypeOK' /\ n \in Nat /\ 1 \in 1 .. MaxMsgs
  BY MsgFifoAssumption DEF FifoInv
<1>1. /\ LaidOut' /\ Found' = Found /\ ret' = Op("msg_fifo_push", n, 0, <<>>)
      /\ Found # <<>> \/ n > BufLen - FIFO_HDR_LEN
  <2>1. CASE PushTooLarge(n)
    <3>1. n > BufLen - FIFO_HDR_LEN
      BY <1>0, <2>1, Sizes DEF PushTooLarge
    <3>2. LaidOut' /\ Found' = Found
      BY <2>1, SameQueue DEF PushTooLarge
    <3> QED BY <2>1, <3>1, <3>2 DEF PushTooLarge
  <2>2. CASE PushFull(n)
    <3> PICK N, u, l, m, U : Layout(N, u, l, m, U)
      BY DEF LaidOut
    <3> PICK V : V = IF Restarts(n) THEN BufLen ELSE U
      OBVIOUS
    <3>1. Layout(N, u, l, m, V)'
      BY <2>2, PushRefused
    <3>2. Found' = Queued(N, l, m)
      BY <1>0, <3>1, QueueReadNext
    <3>3. Found = Queued(N, l, m) /\ (Found = <<>> <=> N = 0) /\ (first = NULL <=> N = 0)
      BY <1>0, QueueNow
    <3>4. first # NULL
      BY <2>2 DEF PushFull, Full
    <3>5. LaidOut'
      BY <3>1 DEF LaidOut
    <3> QED BY <2>2, <3>2, <3>3, <3>4, <3>5 DEF PushFull
  <2> QED BY <2>1, <2>2
<1> DEFINE msg == Message(1, n)
<1>2. msg \in PushedMsgs /\ Len(msg) = n
  BY <1>0, MessageLen DEF PushedMsgs
<1> HIDE DEF msg
<1>3. Queue!Push(msg)
  BY <1>1, <1>2 DEF Queue!Push, Queue!Op, Op
<1> QED BY <1>1, <1>2, <1>3

\* A pop takes the first message whole, if it has the room (msg_fifo_pop).
LEMMA PopImplements ==
  ASSUME FifoInv, FifoInv', LaidOut, NEW room, msg_fifo_pop(room)
  PROVE  LaidOut' /\ Queue!Pop(room)
<1> PICK N, u, l, m, U : Layout(N, u, l, m, U)
  BY DEF LaidOut
<1>0. TypeOK /\ TypeOK'
  BY DEF FifoInv
<1>1. /\ Found = Queued(N, l, m) /\ N \in Nat /\ m \in Nat /\ l \in [1 .. N -> Nat]
      /\ (Found = <<>> <=> N = 0) /\ (first = NULL <=> N = 0)
  BY <1>0, QueueNow
<1>2. ASSUME first # NULL
      PROVE  /\ N > 0 /\ 1 \in 1 .. N /\ Len(Head(Found)) = l[1] /\ Found # <<>>
             /\ ItemLen(first) = {l[1]} /\ ItemNext(first) = {LinkOf(1, N, u)}
             /\ Copied(first, l[1]) = Head(Found)
  <2>1. N > 0 /\ 1 \in 1 .. N /\ Found # <<>>
    BY <1>1, <1>2
  <2>2. first = At(u[1])
    BY <2>1, ItemsInside
  <2>3. /\ ItemLen(first) = {l[1]} /\ ItemNext(first) = {LinkOf(1, N, u)}
        /\ Copied(first, l[1]) = Message(m + 1, l[1])
    <3>1. \A k \in 1 .. N : /\ ItemLen(At(u[k])) = {l[k]} /\ ItemNext(At(u[k])) = {LinkOf(k, N, u)}
                            /\ Copied(At(u[k]), l[k]) = Message(m + k, l[k])
      BY ItemRead
    <3> QED BY <2>1, <2>2, <3>1
  <2>4. Head(Found) = Message(m + 1, l[1])
    BY <1>1, <2>1, QueuedTail
  <2>5. Len(Message(m + 1, l[1])) = l[1]
    BY <1>1, <2>1, MessageLen
  <2> QED BY <2>1, <2>3, <2>4, <2>5
<1>3. CASE PopNone(room)
  <2>1. LaidOut' /\ Found' = Found
    BY <1>3, SameQueue DEF PopNone
  <2>2. Found = <<>> \/ Len(Head(Found)) > room
    BY <1>1, <1>2, <1>3 DEF PopNone
  <2> QED BY <1>3, <2>1, <2>2 DEF PopNone, Queue!Pop, Queue!Op, Op
<1>4. CASE PopTakes(room)
  <2>1. /\ first # NULL /\ l[1] <= room /\ first' = LinkOf(1, N, u)
        /\ ret' = Op("msg_fifo_pop", room, l[1], Copied(first, l[1]))
        /\ UNCHANGED <<head, last, mem, accepted>>
    BY <1>2, <1>4 DEF PopTakes
  <2>2. N > 0
    BY <1>2, <2>1
  <2> PICK w : w = [k \in 1 .. N - 1 |-> l[k + 1]]
    OBVIOUS
  <2>3. Queued(N - 1, w, m + 1) = Tail(Found)
    BY <1>1, <2>2, QueuedTail
  <2>4. \E v, V : Layout(N - 1, v, w, m + 1, V)'
    <3>1. CASE N > 1
      <4> PICK d : d = IF u[2] < BufLen THEN 0 ELSE BufLen
        OBVIOUS
      <4> PICK v : v = [k \in 1 .. N - 1 |-> u[k + 1] - d]
        OBVIOUS
      <4>1. first' = At(u[2])
        BY <1>1, <2>1, <3>1 DEF LinkOf
      <4>2. Layout(N - 1, v, w, m + 1, U - d)'
        BY <2>1, <3>1, <4>1, PopLeaves
      <4> QED BY <4>2
    <3>2. CASE ~(N > 1)
      <4>1. N = 1
        BY <1>1, <2>2, <3>2
      <4> PICK v : v = [k \in 1 .. 0 |-> 0]
        OBVIOUS
      <4>2. first' = NULL /\ accepted' = m + 1
        BY <2>1, <4>1 DEF LinkOf, Layout
      <4>3. w \in [1 .. 0 -> Nat] /\ v \in [1 .. 0 -> Nat] /\ m + 1 \in Nat /\ m + 1 = (m + 1) + 0 /\ 1 - 1 = 0
        BY <1>1, <4>1
      <4>4. Layout(0, v, w, m + 1, 0)'
        <5>1. ~(0 > 0) /\ 0 \in Nat /\ 1 .. 0 = {}
          OBVIOUS
        <5>2. Ordered(0, v, w)' /\ Written(0, v, w, m + 1)' /\ HeadAfter(0, v, w, 0)'
          BY <5>1 DEF Ordered, Written, HeadAfter
        <5> QED BY <4>2, <4>3, <5>1, <5>2 DEF Layout
      <4> QED BY <4>1, <4>3, <4>4
    <3> QED BY <3>1, <3>2
  <2> PICK M, p : M = N - 1 /\ p = m + 1
    OBVIOUS
  <2>5. PICK v, V : Layout(M, v, w, p, V)'
    BY <2>4
  <2>6. Found' = Queued(M, w, p)
    BY <1>0, <2>5, QueueReadNext
  <2>7. LaidOut'
    BY <2>5 DEF LaidOut
  <2> QED BY <1>2, <2>1, <2>3, <2>6, <2>7 DEF Queue!Pop, Queue!Op, Op
<1> QED BY <1>3, <1>4 DEF msg_fifo_pop

\* A torn queue is not mended.
LEMMA StaysTorn == torn /\ [Next]_vars => torn'
<1> SUFFICES ASSUME torn, [Next]_vars PROVE torn'
  OBVIOUS
<1>1. ASSUME NEW n \in Lens, msg_fifo_push(n) PROVE torn'
  <2>1. PushTooLarge(n) => torn'
    BY DEF PushTooLarge
  <2>2. PushFull(n) => torn'
    BY DEF PushFull
  <2>3. PushInserts(n) => torn'
    BY Zenon DEF PushInserts
  <2> QED BY <1>1, <2>1, <2>2, <2>3 DEF msg_fifo_push
<1>2. ASSUME NEW room \in Rooms, msg_fifo_pop(room) PROVE torn'
  BY <1>2 DEF msg_fifo_pop, PopTakes, PopNone
<1>3. UNCHANGED vars => torn'
  BY DEF vars
<1> QED BY <1>1, <1>2, <1>3 DEF Next

\* Until a push tears the queue the items stay laid out, and every step is one
\* of MsgQueueSpec.
LEMMA QueueStep ==
  FifoInv /\ FifoInv' /\ (~torn => LaidOut) /\ [Next]_vars
    => (~torn' => LaidOut') /\ [Queue!Next]_(Queue!vars)
<1> SUFFICES ASSUME FifoInv, FifoInv', ~torn => LaidOut, [Next]_vars
             PROVE  (~torn' => LaidOut') /\ (Queue!Next \/ UNCHANGED Queue!vars)
  OBVIOUS
<1>1. CASE torn'
  <2>1. Queue!Next
    BY <1>1 DEF Queue!Next
  <2> QED BY <1>1, <2>1
<1>2. CASE ~torn'
  <2>1. ~torn /\ LaidOut
    BY <1>2, StaysTorn
  <2>2. ASSUME NEW n \in Lens, msg_fifo_push(n) PROVE LaidOut' /\ Queue!Next
    <3>1. PushInserts(n) => ~Tears(n)
      BY <1>2 DEF PushInserts
    <3>2. LaidOut' /\ \E msg \in PushedMsgs : Queue!Push(msg)
      BY <2>1, <2>2, <3>1, InsertImplements, RefuseImplements DEF msg_fifo_push
    <3> QED BY <2>1, <3>2 DEF Queue!Next, Queue!Works, PushedMsgs
  <2>3. ASSUME NEW room \in Rooms, msg_fifo_pop(room) PROVE LaidOut' /\ Queue!Next
    BY <2>1, <2>3, PopImplements DEF Queue!Next, Queue!Works
  <2>4. CASE UNCHANGED vars
    BY <2>1, <2>4, SameQueue DEF vars, Queue!vars
  <2> QED BY <2>2, <2>3, <2>4 DEF Next
<1> QED BY <1>1, <1>2

\* For every buffer, every length of messages and every sequence of calls,
\* the ring implements the queue of queue.h up to the first push that Tears
\* describes: messages leave whole and in order, refused calls change nothing,
\* and only a message that can never fit is refused by an empty queue.
THEOREM MsgFifoRefines == Spec => FifoImplSpec
<1>1. Init => LaidOut
  <2> SUFFICES ASSUME Init PROVE LaidOut
    OBVIOUS
  <2> DEFINE z == [k \in 1 .. 0 |-> 0]
  <2>1. z \in [1 .. 0 -> Nat]
    OBVIOUS
  <2>2. Layout(0, z, z, 0, 0)
    BY <2>1 DEF Init, Layout, Ordered, Written, HeadAfter
  <2> QED BY <2>2 DEF LaidOut
<1>2. Init => Queue!Init
  <2> SUFFICES ASSUME Init PROVE Queue!Init
    OBVIOUS
  <2>1. TypeOK
    BY FifoInvInit DEF FifoInv
  <2> PICK N, u, l, m, U : Layout(N, u, l, m, U)
    BY <1>1 DEF LaidOut
  <2>2. Found = <<>>
    BY <2>1, QueueNow DEF Init
  <2> QED BY <2>2 DEF Init, Queue!Init, Queue!Op, Op
<1> QED BY <1>1, <1>2, FifoInvInit, FifoInvStep, QueueStep, PTL
        DEF Spec, FifoImplSpec, Queue!Spec
=============================================================================
