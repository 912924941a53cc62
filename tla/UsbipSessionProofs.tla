------------------------- MODULE UsbipSessionProofs -------------------------
(***************************************************************************)
(* Proofs about StreamFifo, for every buffer length and message length,    *)
(* and about UsbipSession, which sends its answers through one: for any    *)
(* number of requests of any lengths and any way they arrive in, framing   *)
(* is kept, and requests are answered in order, as long as every recv      *)
(* finds what it asks for.                                                 *)
(***************************************************************************)
EXTENDS UsbipSession, TLAPS, SequenceTheorems, FiniteSetTheorems, WellFoundedInduction

(***************************************************************************)
(* The byte ring.                                                          *)
(***************************************************************************)
SafeInv == TypeOK /\ InBounds

\* No send skipped bytes so far.
Unskipped == "skipped" \notin damage

\* The queue's length never exceeds the buffer (stream_fifo_length).
LEMMA LengthBound ==
  ASSUME TypeOK, Unskipped
  PROVE  stream_fifo_length \in 0 .. BufLen
BY StreamFifoAssumption DEF TypeOK, Unskipped, stream_fifo_length

\* Initially nothing was copied (stream_fifo_init).
LEMMA SafeInvInit == Init => SafeInv
BY StreamFifoAssumption DEF Init, SafeInv, TypeOK, InBounds, Offsets, JUNK

\* What memcpy writes are positions of the stream (stream_fifo_push).
LEMMA WrittenType ==
  ASSUME TypeOK, NEW b \in [Offsets -> Nat \cup {JUNK}],
         NEW p \in 0 .. BufLen, NEW k \in Nat, NEW n \in Nat
  PROVE  Written(b, p, k, n) \in [Offsets -> Nat \cup {JUNK}]
BY StreamFifoAssumption DEF TypeOK, Written, Offsets

\* A push that is accepted writes inside the buffer, although the room it
\* computes is not the room there is: the part written from the start on
\* never passes head, or tail when the queue is empty (stream_fifo_push).
LEMMA PushSafe ==
  ASSUME SafeInv, Unskipped, NEW n \in Nat, stream_fifo_push(n), seq' <= Total
  PROVE  SafeInv'
<1> USE StreamFifoAssumption
<1>0. head \in 0 .. BufLen /\ tail \in 0 .. BufLen
  BY DEF SafeInv, TypeOK, Unskipped
<1>d. damage' \subseteq {"overwritten", "skipped"} /\ head' <= BufLen
  <2>1. damage' = damage \/ damage' = damage \cup IF Overwrites(n) THEN {"overwritten"} ELSE {}
    BY DEF stream_fifo_push
  <2>2. damage' \subseteq damage \cup {"overwritten"} /\ head' = head
    BY <2>1 DEF stream_fifo_push
  <2> QED BY <1>0, <2>2 DEF SafeInv, TypeOK
<1>1. CASE Remaining < n
  BY <1>0, <1>1, <1>d DEF stream_fifo_push, SafeInv, TypeOK, InBounds
<1>2. CASE ~(Remaining < n) /\ tail + n > BufLen
  <2>1. PushWrapped(n) /\ seq' = seq + n /\ UNCHANGED <<head, delivered>> /\ seq' <= Total
    BY <1>2 DEF stream_fifo_push, SafeInv, TypeOK
  <2>2. /\ FirstLen(tail) \in 0 .. BufLen
        /\ n - FirstLen(tail) \in 0 .. BufLen
    <3>1. head \in 0 .. BufLen /\ tail \in 0 .. BufLen
      BY <1>0
    <3>2. Remaining \in Int /\ (tail < head => Remaining = BufLen + (head - tail))
          /\ (~(tail < head) => Remaining <= BufLen)
      BY <3>1 DEF Remaining
    <3>3. n <= BufLen + (BufLen - tail)
      BY <1>2, <3>1, <3>2
    <3> QED BY <1>2, <3>1, <3>3 DEF FirstLen
  <2>3. buf' \in [Offsets -> Nat \cup {JUNK}]
    <3>1. Written(buf, tail, 0, FirstLen(tail)) \in [Offsets -> Nat \cup {JUNK}]
      BY <2>2, WrittenType DEF SafeInv, TypeOK
    <3> QED BY <2>1, <2>2, <3>1, WrittenType DEF SafeInv, PushWrapped
  <2>4. TypeOK'
    BY <1>d, <2>1, <2>2, <2>3 DEF SafeInv, TypeOK, PushWrapped
  <2>5. InBounds'
    BY <1>0, <2>1, <2>2 DEF PushWrapped, InBounds, FirstLen
  <2> QED BY <2>4, <2>5 DEF SafeInv
<1>3. CASE ~(Remaining < n) /\ ~(tail + n > BufLen)
  <2>1. PushStraight(n) /\ seq' = seq + n /\ UNCHANGED <<head, delivered>> /\ seq' <= Total
    BY <1>3 DEF stream_fifo_push, SafeInv, TypeOK
  <2>2. buf' \in [Offsets -> Nat \cup {JUNK}]
    BY <2>1, WrittenType DEF SafeInv, TypeOK, PushStraight
  <2>3. TypeOK'
    BY <1>d, <1>0, <1>3, <2>1, <2>2 DEF SafeInv, TypeOK, PushStraight
  <2>4. InBounds'
    BY <1>0, <1>3, <2>1 DEF InBounds, PushStraight
  <2> QED BY <2>3, <2>4 DEF SafeInv
<1> QED BY <1>1, <1>2, <1>3

\* The bound of callers on the bytes in all (StreamFifo's Push).
LEMMA PushCounts ==
  ASSUME TypeOK, NEW n \in 0 .. MaxMsg, Push(n)
  PROVE  n \in Nat /\ stream_fifo_push(n) /\ seq' <= Total
BY StreamFifoAssumption DEF Push, stream_fifo_push, TypeOK

\* A pop reads inside the buffer, and head stays in it (stream_fifo_pop).
LEMMA PopSafe ==
  ASSUME SafeInv, Unskipped, NEW n \in 0 .. MaxMsg, stream_fifo_pop(n)
  PROVE  SafeInv'
<1> USE StreamFifoAssumption
<1> DEFINE got == Poppable(n)
<1>0. head \in 0 .. BufLen /\ tail \in 0 .. BufLen
  BY DEF SafeInv, TypeOK, Unskipped
<1>1. stream_fifo_pop(n)
  OBVIOUS
<1>2. got \in 0 .. BufLen /\ got <= stream_fifo_length
  BY LengthBound DEF SafeInv, Poppable
<1>3. CASE head + got > BufLen
  <2>1. FirstLen(head) \in 0 .. BufLen /\ got - FirstLen(head) \in 0 .. BufLen
    BY <1>0, <1>2, <1>3 DEF stream_fifo_length, FirstLen
  <2>2. /\ head' = got - FirstLen(head) /\ delivered' = delivered + got
        /\ span' = {<<head, head + FirstLen(head)>>, <<0, got - FirstLen(head)>>}
        /\ UNCHANGED <<tail, buf, seq, damage>>
    BY <1>1, <1>3 DEF stream_fifo_pop, PopHead
  <2> HIDE DEF got
  <2> QED BY <1>0, <1>2, <2>1, <2>2 DEF SafeInv, TypeOK, InBounds, FirstLen
<1>4. CASE ~(head + got > BufLen)
  <2>1. /\ head' = head + got /\ delivered' = delivered + got
        /\ span' = {<<head, head + got>>}
        /\ UNCHANGED <<tail, buf, seq, damage>>
    BY <1>1, <1>4 DEF stream_fifo_pop, PopHead
  <2> HIDE DEF got
  <2> QED BY <1>0, <1>2, <1>4, <2>1 DEF SafeInv, TypeOK, InBounds
<1> QED BY <1>3, <1>4

\* What a send does, in one place (stream_fifo_send_sock).
LEMMA SendTakes ==
  ASSUME SafeInv, Unskipped, NEW bytes \in -1 .. BufLen, stream_fifo_send_sock(bytes)
  PROVE  /\ head \in 0 .. BufLen /\ tail \in 0 .. BufLen
         /\ SendLength = (IF tail < head THEN BufLen - head ELSE tail - head)
         /\ SendLength \in 0 .. BufLen /\ bytes <= SendLength
         /\ head' = (IF bytes <= 0 THEN head
                     ELSE IF ComesRound(bytes) THEN bytes - (head - BufLen) ELSE head + bytes)
         /\ delivered' = delivered + (IF bytes < 0 THEN 0 ELSE bytes)
         /\ UNCHANGED <<tail, buf, seq>>
<1> USE StreamFifoAssumption
<1>1. head \in 0 .. BufLen /\ tail \in 0 .. BufLen
  BY DEF SafeInv, TypeOK, Unskipped
<1>2. SendLength = (IF tail < head THEN BufLen - head ELSE tail - head)
  BY DEF SendLength
<1>3. SendLength \in 0 .. BufLen
  BY <1>1, <1>2
<1>4. bytes <= SendLength
  BY <1>3 DEF stream_fifo_send_sock, SocketTakes
<1> QED BY <1>1, <1>2, <1>3, <1>4 DEF stream_fifo_send_sock, SentHead

\* A send reads inside the buffer, and head stays in it, or a send skipped
\* (stream_fifo_send_sock).
LEMMA SendSafe ==
  ASSUME SafeInv, Unskipped, NEW bytes \in -1 .. BufLen, stream_fifo_send_sock(bytes)
  PROVE  SafeInv'
<1> USE StreamFifoAssumption
<1>1. /\ head \in 0 .. BufLen /\ tail \in 0 .. BufLen
      /\ SendLength = (IF tail < head THEN BufLen - head ELSE tail - head)
      /\ SendLength \in 0 .. BufLen /\ bytes <= SendLength
      /\ head' = (IF bytes <= 0 THEN head
                  ELSE IF ComesRound(bytes) THEN bytes - (head - BufLen) ELSE head + bytes)
      /\ delivered' = delivered + (IF bytes < 0 THEN 0 ELSE bytes)
      /\ UNCHANGED <<tail, buf, seq>>
  BY SendTakes
<1>2. /\ span' = (IF head = tail THEN {} ELSE {<<head, head + SendLength>>})
      /\ damage' = damage \cup IF ComesRound(bytes) THEN {"skipped"} ELSE {}
  BY DEF stream_fifo_send_sock
<1>3. InBounds'
  BY <1>1, <1>2 DEF InBounds
<1>4. head' \in 0 .. 2 * BufLen /\ (~ComesRound(bytes) => head' <= BufLen)
  BY <1>1 DEF ComesRound
<1>5. damage' \subseteq {"overwritten", "skipped"} /\ ("skipped" \notin damage' => ~ComesRound(bytes))
  BY <1>2 DEF SafeInv, TypeOK
<1>6. TypeOK'
  BY <1>1, <1>4, <1>5 DEF SafeInv, TypeOK
<1> QED BY <1>3, <1>6 DEF SafeInv

\* Until a send skips, pushes, pops and sends never access memory outside the
\* buffer, whatever callers push, those pushes included for which there is no
\* room (stream_fifo_push, stream_fifo_pop, stream_fifo_send_sock), for every
\* buffer and message length.
THEOREM FifoInBounds == Spec => [](TypeOK /\ InBounds)
<1>1. SafeInv /\ [Next]_vars => SafeInv'
  <2> SUFFICES ASSUME SafeInv, [Next]_vars PROVE SafeInv'
    OBVIOUS
  <2>1. Next => Unskipped
    BY DEF Next, Unskipped
  <2>2. ASSUME Unskipped, NEW n \in 0 .. MaxMsg, Push(n) PROVE SafeInv'
    BY <2>2, PushCounts, PushSafe DEF SafeInv
  <2>3. ASSUME Unskipped, NEW n \in 0 .. MaxMsg, stream_fifo_pop(n) PROVE SafeInv'
    BY <2>3, PopSafe
  <2>4. ASSUME Unskipped, NEW bytes \in -1 .. BufLen, stream_fifo_send_sock(bytes) PROVE SafeInv'
    BY <2>4, SendSafe
  <2>5. CASE UNCHANGED vars
    BY <2>5 DEF vars, SafeInv, TypeOK, InBounds
  <2> QED BY <2>1, <2>2, <2>3, <2>4, <2>5 DEF Next, PopNext, Send
<1> QED BY <1>1, SafeInvInit, PTL DEF Spec, SafeInv
-----------------------------------------------------------------------------
\* The place of the i-th byte after h.
Slot(h, i) == IF h + i < BufLen THEN h + i ELSE h + i - BufLen

\* An offset that goes round at most once, as Contents writes it.
LEMMA SlotIsMod ==
  ASSUME NEW h \in 0 .. BufLen, NEW i \in 0 .. BufLen - 1
  PROVE  (h + i) % BufLen = Slot(h, i) /\ Slot(h, i) \in Offsets
BY StreamFifoAssumption DEF Slot, Offsets

\* Contents of an undamaged queue, with places that are not remainders.
Held ==
  /\ stream_fifo_length = seq - delivered
  /\ seq - delivered \in 0 .. BufLen
  /\ \A i \in 0 .. seq - delivered - 1 : buf[Slot(head, i)] = delivered + i

FifoInv == SafeInv /\ (damage = {} => Held) /\ InOrder

\* Held says what Contents says (stream_fifo_length).
LEMMA HeldIsContents == FifoInv => Contents
<1> SUFFICES ASSUME FifoInv, damage = {}, NEW i \in 0 .. seq - delivered - 1
             PROVE  buf[(head + i) % BufLen] = delivered + i
  BY DEF Contents, FifoInv, Held
<1>1. i \in 0 .. BufLen - 1 /\ head \in 0 .. BufLen
  BY StreamFifoAssumption DEF FifoInv, Held, SafeInv, TypeOK
<1> QED BY <1>1, SlotIsMod DEF FifoInv, Held

\* The empty queue (stream_fifo_init).
LEMMA FifoInvInit == Init => FifoInv
BY SafeInvInit, StreamFifoAssumption
   DEF FifoInv, Held, Init, InOrder, stream_fifo_length

\* A push for which there is room keeps the unread bytes and puts its own
\* behind them (stream_fifo_push).
LEMMA PushHeld ==
  ASSUME FifoInv, damage = {}, damage' = {}, NEW n \in 0 .. MaxMsg, Push(n)
  PROVE  Held' /\ InOrder'
<1> USE StreamFifoAssumption
<1>0. /\ head \in 0 .. BufLen /\ tail \in 0 .. BufLen
      /\ seq \in Nat /\ delivered \in Nat /\ n \in Nat
      /\ buf \in [Offsets -> Nat \cup {JUNK}]
  BY DEF FifoInv, SafeInv, TypeOK
<1>1. InOrder'
  BY DEF Push, stream_fifo_push, InOrder
<1>h. Held
  BY DEF FifoInv
<1>2. ~(Remaining < n) => n + stream_fifo_length <= BufLen /\ (n > 0 => tail' # head)
  <2> SUFFICES ASSUME ~(Remaining < n) PROVE ~Overwrites(n)
    BY <1>0, <1>h DEF Overwrites, Held
  <2>1. damage' = damage \cup IF Overwrites(n) THEN {"overwritten"} ELSE {}
    BY DEF Push, stream_fifo_push
  <2> QED BY <2>1
<1>3. CASE Remaining < n
  BY <1>1, <1>3, <1>h DEF Push, stream_fifo_push, Held, stream_fifo_length, Slot
<1>4. CASE ~(Remaining < n) /\ tail + n > BufLen
  <2>1. PushWrapped(n) /\ seq' = seq + n /\ UNCHANGED <<head, delivered>>
    BY <1>4 DEF Push, stream_fifo_push
  <2>2. /\ head <= tail /\ tail' = n - (BufLen - tail) /\ tail' < head
        /\ tail' \in 0 .. BufLen
    BY <1>0, <1>2, <1>4, <2>1 DEF PushWrapped, FirstLen, stream_fifo_length
  <2>3. stream_fifo_length' = seq' - delivered' /\ seq' - delivered' \in 0 .. BufLen
    BY <1>h, <1>0, <1>2, <2>1, <2>2 DEF Held, stream_fifo_length
  <2>4. ASSUME NEW o \in Offsets
        PROVE  buf'[o] = IF o < tail' THEN seq + (BufLen - tail) + o
                         ELSE IF tail <= o THEN seq + (o - tail) ELSE buf[o]
    <3>1. o \in Int /\ 0 <= o /\ o < BufLen
      BY DEF Offsets
    <3>2. buf'[o] = IF 0 <= o /\ o < 0 + (n - FirstLen(tail))
                    THEN seq + FirstLen(tail) + (o - 0)
                    ELSE Written(buf, tail, 0, FirstLen(tail))[o]
      BY <2>1 DEF PushWrapped, Written
    <3>3. Written(buf, tail, 0, FirstLen(tail))[o] =
            IF tail <= o /\ o < tail + FirstLen(tail) THEN seq + 0 + (o - tail) ELSE buf[o]
      BY DEF Written
    <3> QED BY <1>0, <2>2, <3>1, <3>2, <3>3 DEF FirstLen
  <2>5. ASSUME NEW i \in 0 .. seq' - delivered' - 1
        PROVE  buf'[Slot(head, i)] = delivered + i
    <3>1. i \in 0 .. BufLen - 1 /\ Slot(head, i) \in Offsets
      BY <1>0, <2>3, SlotIsMod
    <3>2. CASE i < seq - delivered
      <4>1. buf[Slot(head, i)] = delivered + i
        BY <1>h, <3>1, <3>2, <1>0 DEF Held
      <4>2. Slot(head, i) < tail /\ ~(Slot(head, i) < tail')
        BY <1>h, <1>0, <2>2, <3>1, <3>2 DEF Held, stream_fifo_length, Slot
      <4> QED BY <1>0, <2>4, <3>1, <4>1, <4>2 DEF Offsets
    <3>3. CASE i >= seq - delivered
      <4>1. tail - head = seq - delivered /\ i < seq + n - delivered
        BY <1>h, <1>0, <2>1, <2>2 DEF Held, stream_fifo_length
      <4>2. CASE head + i < BufLen
        BY <1>0, <2>2, <2>4, <3>1, <3>3, <4>1, <4>2 DEF Slot
      <4>3. CASE head + i >= BufLen
        BY <1>0, <2>2, <2>4, <3>1, <3>3, <4>1, <4>3 DEF Slot
      <4> QED BY <1>0, <3>1, <4>2, <4>3
    <3> QED BY <1>0, <3>1, <3>2, <3>3
  <2> QED BY <1>1, <2>1, <2>3, <2>5 DEF Held, Slot
<1>5. CASE ~(Remaining < n) /\ ~(tail + n > BufLen)
  <2>1. PushStraight(n) /\ seq' = seq + n /\ UNCHANGED <<head, delivered>>
    BY <1>5 DEF Push, stream_fifo_push
  <2>2. tail' = tail + n /\ tail' \in 0 .. BufLen /\ (tail < head => tail' < head)
    BY <1>0, <1>2, <1>5, <2>1 DEF PushStraight, stream_fifo_length
  <2>3. stream_fifo_length' = seq' - delivered' /\ seq' - delivered' \in 0 .. BufLen
    BY <1>h, <1>0, <1>2, <2>1, <2>2 DEF Held, stream_fifo_length
  <2>4. ASSUME NEW i \in 0 .. seq' - delivered' - 1
        PROVE  buf'[Slot(head, i)] = delivered + i
    <3>1. i \in 0 .. BufLen - 1 /\ Slot(head, i) \in Offsets
      BY <1>0, <2>3, SlotIsMod
    <3>2. CASE i < seq - delivered
      <4>1. buf[Slot(head, i)] = delivered + i
        BY <1>h, <3>1, <3>2, <1>0 DEF Held
      <4>2. ~(tail <= Slot(head, i) /\ Slot(head, i) < tail')
        BY <1>h, <1>0, <2>2, <3>1, <3>2 DEF Held, stream_fifo_length, Slot
      <4> QED BY <1>0, <2>1, <2>2, <3>1, <4>1, <4>2 DEF PushStraight, Written, Offsets
    <3>3. CASE i >= seq - delivered
      <4>1. Slot(head, i) = tail + (i - (seq - delivered)) /\ i - (seq - delivered) < n
        BY <1>h, <1>0, <2>1, <2>2, <3>1, <3>3 DEF Held, stream_fifo_length, Slot
      <4> QED BY <1>0, <2>1, <2>2, <3>1, <3>3, <4>1 DEF PushStraight, Written, Offsets
    <3> QED BY <1>0, <3>1, <3>2, <3>3
  <2> QED BY <1>1, <2>1, <2>3, <2>4 DEF Held, Slot
<1> QED BY <1>1, <1>3, <1>4, <1>5

\* A pop takes the oldest bytes, in order, and leaves the others behind head
\* (stream_fifo_pop).
LEMMA PopHeld ==
  ASSUME FifoInv, damage = {}, NEW n \in 0 .. MaxMsg, stream_fifo_pop(n)
  PROVE  Held' /\ InOrder'
<1> USE StreamFifoAssumption
<1>0. /\ head \in 0 .. BufLen /\ tail \in 0 .. BufLen
      /\ seq \in Nat /\ delivered \in Nat /\ n \in Nat
      /\ seq - delivered \in 0 .. BufLen
      /\ stream_fifo_length = seq - delivered
  BY DEF FifoInv, SafeInv, TypeOK, Held
<1>a. Poppable(n) \in 0 .. BufLen /\ Poppable(n) <= seq - delivered
  <2>1. CASE stream_fifo_length < n
    BY <1>0, <2>1 DEF Poppable
  <2>2. CASE ~(stream_fifo_length < n)
    BY <1>0, <2>2 DEF Poppable
  <2> QED BY <2>1, <2>2
<1> PICK got \in 0 .. BufLen : got = Poppable(n) /\ got <= seq - delivered
  BY <1>a
<1>1. /\ out' = Taken(got) /\ head' = PopHead(got) /\ delivered' = delivered + got
      /\ ret'.val = got /\ ret'.op = "pop" /\ UNCHANGED <<tail, buf, seq>>
  BY DEF stream_fifo_pop
<1>2. head' = IF head + got > BufLen THEN head + got - BufLen ELSE head + got
  BY <1>0, <1>1 DEF PopHead, FirstLen
<1>3. stream_fifo_length' = seq' - delivered' /\ seq' - delivered' \in 0 .. BufLen
  <2>1. CASE head + got > BufLen
    BY <1>0, <1>1, <1>2, <2>1 DEF stream_fifo_length
  <2>2. CASE ~(head + got > BufLen)
    BY <1>0, <1>1, <1>2, <2>2 DEF stream_fifo_length
  <2> QED BY <2>1, <2>2
<1>4. ASSUME NEW i \in 0 .. seq - (delivered + got) - 1
      PROVE  buf[Slot(head', i)] = delivered + got + i
  <2>1. buf[Slot(head, got + i)] = delivered + (got + i)
    BY <1>0 DEF FifoInv, Held
  <2>2. Slot(head', i) = Slot(head, got + i)
    BY <1>0, <1>2 DEF Slot
  <2> QED BY <2>1, <2>2, <1>0
<1>5. ASSUME NEW k \in 1 .. got
      PROVE  Taken(got)[k] = delivered + (k - 1)
  <2>1. buf[Slot(head, k - 1)] = delivered + (k - 1) /\ k - 1 \in 0 .. BufLen - 1
    BY <1>0 DEF FifoInv, Held
  <2>2. Slot(head, k - 1) \in Offsets
    BY <1>0, <2>1, SlotIsMod
  <2>3. Taken(got)[k] = buf[Slot(head, k - 1)]
    BY <1>0, <2>2 DEF Taken, Read, Slot, Offsets, FirstLen
  <2> QED BY <2>1, <2>3
<1>6. InOrder'
  <2>1. out' = Taken(got) /\ DOMAIN Taken(got) = 1 .. got
    BY <1>1 DEF Taken
  <2> QED BY <1>0, <1>1, <1>5, <2>1 DEF InOrder
<1>7. Held'
  BY <1>1, <1>3, <1>4 DEF Held, Slot
<1> QED BY <1>6, <1>7

\* A send takes the oldest bytes, in order, as many of them as the socket takes,
\* unless it comes round the end (stream_fifo_send_sock).
LEMMA SendHeld ==
  ASSUME FifoInv, damage = {}, damage' = {}, NEW bytes \in -1 .. BufLen, stream_fifo_send_sock(bytes)
  PROVE  Held' /\ InOrder'
<1> USE StreamFifoAssumption
<1>0. /\ seq \in Nat /\ delivered \in Nat /\ seq - delivered \in 0 .. BufLen
      /\ stream_fifo_length = seq - delivered /\ SafeInv /\ Unskipped
  BY DEF FifoInv, SafeInv, TypeOK, Held, Unskipped
<1>1. /\ head \in 0 .. BufLen /\ tail \in 0 .. BufLen
      /\ SendLength = (IF tail < head THEN BufLen - head ELSE tail - head)
      /\ SendLength \in 0 .. BufLen /\ bytes <= SendLength
      /\ head' = (IF bytes <= 0 THEN head
                  ELSE IF ComesRound(bytes) THEN bytes - (head - BufLen) ELSE head + bytes)
      /\ delivered' = delivered + (IF bytes < 0 THEN 0 ELSE bytes)
      /\ UNCHANGED <<tail, buf, seq>>
  BY <1>0, SendTakes
<1>2. ~ComesRound(bytes)
  BY DEF stream_fifo_send_sock
<1>3. /\ out' = [k \in 1 .. bytes |-> Read(head + k - 1)]
      /\ ret'.val = bytes
  BY <1>2 DEF stream_fifo_send_sock, Sent, SentRet
<1> PICK got \in 0 .. BufLen : got = IF bytes < 0 THEN 0 ELSE bytes
  OBVIOUS
<1>4. /\ head' = head + got /\ delivered' = delivered + got /\ 1 .. bytes = 1 .. got
      /\ got <= SendLength /\ (tail < head /\ got > 0 => head + got < BufLen)
  BY <1>1, <1>2 DEF ComesRound
<1>5. got <= seq - delivered /\ (got > 0 => head + got <= BufLen)
  BY <1>0, <1>1, <1>4 DEF stream_fifo_length
<1>6. stream_fifo_length' = seq' - delivered' /\ seq' - delivered' \in 0 .. BufLen
  BY <1>0, <1>1, <1>4, <1>5 DEF stream_fifo_length
<1>7. ASSUME NEW i \in 0 .. seq - (delivered + got) - 1
      PROVE  buf[Slot(head', i)] = delivered + got + i
  <2>1. buf[Slot(head, got + i)] = delivered + (got + i)
    BY <1>0, <1>5 DEF FifoInv, Held
  <2>2. Slot(head', i) = Slot(head, got + i)
    BY <1>0, <1>1, <1>4, <1>5 DEF Slot
  <2> QED BY <2>1, <2>2, <1>0
<1>8. ASSUME NEW k \in 1 .. got PROVE Read(head + k - 1) = delivered + (k - 1)
  <2>1. buf[Slot(head, k - 1)] = delivered + (k - 1)
    BY <1>0, <1>5 DEF FifoInv, Held
  <2>2. head + k - 1 \in Offsets /\ Slot(head, k - 1) = head + k - 1
    BY <1>1, <1>5 DEF Slot, Offsets
  <2> QED BY <2>1, <2>2 DEF Read
<1>9. InOrder'
  <2>1. DOMAIN out' = 1 .. got /\ \A k \in 1 .. got : out'[k] = delivered + (k - 1)
    BY <1>3, <1>4, <1>8
  <2>2. ASSUME NEW k \in 1 .. got PROVE delivered' - ret'.val + (k - 1) = delivered + (k - 1)
    BY <1>0, <1>3, <1>4
  <2>3. ret'.val > 0 => ret'.val = got
    BY <1>3
  <2> QED BY <2>1, <2>2, <2>3 DEF InOrder
<1> QED BY <1>1, <1>4, <1>6, <1>7, <1>9 DEF Held, Slot

\* Every step keeps the invariant; nothing is claimed of a damaged queue.
LEMMA FifoInvStep == FifoInv /\ [Next]_vars => FifoInv'
<1> SUFFICES ASSUME FifoInv, [Next]_vars PROVE FifoInv'
  OBVIOUS
<1>1. Next => Unskipped
  BY DEF Next, Unskipped
<1>2. damage \subseteq damage' \/ ~(Next \/ UNCHANGED vars)
  BY DEF Next, PopNext, Send, Push, stream_fifo_push, stream_fifo_pop, stream_fifo_send_sock, vars
<1>3. damage' = {} => damage = {}
  BY <1>2
<1>4. ASSUME Unskipped, NEW n \in 0 .. MaxMsg, Push(n) PROVE FifoInv'
  <2>1. SafeInv'
    BY <1>4, PushCounts, PushSafe DEF FifoInv, SafeInv
  <2>2. damage' = {} => Held' /\ InOrder'
    BY <1>3, <1>4, PushHeld
  <2> QED BY <2>1, <2>2 DEF FifoInv, InOrder
<1>5. ASSUME Unskipped, NEW n \in 0 .. MaxMsg, stream_fifo_pop(n) PROVE FifoInv'
  <2>1. SafeInv'
    BY <1>5, PopSafe DEF FifoInv
  <2>2. damage' = {} => Held' /\ InOrder'
    BY <1>3, <1>5, PopHeld
  <2> QED BY <2>1, <2>2 DEF FifoInv, InOrder
<1>6. ASSUME Unskipped, NEW bytes \in -1 .. BufLen, stream_fifo_send_sock(bytes) PROVE FifoInv'
  <2>1. SafeInv'
    BY <1>6, SendSafe DEF FifoInv
  <2>2. damage' = {} => Held' /\ InOrder'
    BY <1>3, <1>6, SendHeld
  <2> QED BY <2>1, <2>2 DEF FifoInv, InOrder
<1>7. CASE UNCHANGED vars
  BY <1>7 DEF vars, FifoInv, SafeInv, TypeOK, InBounds, Held, InOrder, stream_fifo_length, Slot
<1> QED BY <1>1, <1>4, <1>5, <1>6, <1>7 DEF Next, PopNext, Send

\* Until a push is accepted that overwrites unread bytes, or a send comes round
\* the end of the buffer, the queue holds exactly the bytes pushed and not yet
\* taken, in order, for every buffer, every length of messages and every
\* sequence of pushes, pops and sends, however often the ring wraps: no other
\* step damages the stream (stream_fifo_push, stream_fifo_pop,
\* stream_fifo_send_sock).
THEOREM FifoKeepsBytes == Spec => []Contents
BY HeldIsContents, FifoInvInit, FifoInvStep, PTL DEF Spec

\* And until then every pop and every send, however much of it the socket takes,
\* continues the bytes taken before it, and reports as many as it took
\* (stream_fifo_pop, stream_fifo_send_sock).
THEOREM FifoInOrder == Spec => []InOrder
<1>1. FifoInv => InOrder
  BY DEF FifoInv
<1> QED BY <1>1, FifoInvInit, FifoInvStep, PTL DEF Spec

\* head and tail stay inside the buffer or one past it until a send skips,
\* whatever callers push, pop and send.
THEOREM FifoTypes == Spec => []TypeOK
BY FifoInBounds, PTL
-----------------------------------------------------------------------------
(***************************************************************************)
(* The session.                                                            *)
(***************************************************************************)
RequestLen(kind) == HdrLen + BodyLen(kind)

\* The word after w, when the requests are of these kinds.
Following(kinds, w) ==
  IF w[2] < RequestLen(kinds[w[1]]) THEN <<w[1], w[2] + 1>> ELSE <<w[1] + 1, 1>>

\* The word the network delivers next, ct words of the last request missing.
Upcoming(kinds, ct) ==
  IF ct > 0 THEN <<Len(kinds), RequestLen(kinds[Len(kinds)]) - ct + 1>>
  ELSE <<Len(kinds) + 1, 1>>

\* The k-th word a recv is to find: those waiting, then the upcoming one.
At(kinds, ct, words, k) == IF k <= Len(words) THEN words[k] ELSE Upcoming(kinds, ct)

\* The words waiting are consecutive words of the requests, up to the last
\* one delivered.
Framed(kinds, ct, words) ==
  /\ \A k \in 1 .. Len(words) :
       /\ words[k][1] \in 1 .. Len(kinds)
       /\ words[k][2] \in 1 .. RequestLen(kinds[words[k][1]])
  /\ \A k \in 1 .. Len(words) :
       At(kinds, ct, words, k + 1) = Following(kinds, words[k])
  /\ \A k \in 1 .. Len(words) + 1 : \A j \in 1 .. k :
       At(kinds, ct, words, j)[1] <= At(kinds, ct, words, k)[1]

\* The word the server takes next.
NextWord == At(sent, cut, inbound, 1)

\* The server is where the words waiting begin, at the start of a request or
\* behind the header of req, and has answered only requests before that.
InStream ==
  /\ Framed(sent, cut, inbound)
  /\ pc \in {"send", "header"} => NextWord[2] = 1
  /\ pc = "push" => req \in 1 .. Len(sent) /\ NextWord = <<req + 1, 1>>
  /\ pc \in {"import", "command"} =>
       /\ req \in 1 .. Len(sent) /\ NextWord = <<req, HdrLen + 1>>
       /\ pc = "import"  => sent[req] \in {"import", "import_unknown"}
       /\ pc = "command" => sent[req] = "command"
  /\ \A i \in 1 .. Len(pushed) : 1 <= pushed[i].to /\ pushed[i].to < NextWord[1]

Ordered == \A i \in 1 .. Len(pushed) : \A j \in 1 .. i : pushed[j].to <= pushed[i].to

SessionTypes ==
  /\ pc \in {"send", "header", "import", "command", "push"}
  /\ conn \in {"up", "closed", "broken", "stopped", "killed", "crashed"}
  /\ sent \in Seq(Requests) /\ cut \in Nat
  /\ cut > 0 => Len(sent) > 0 /\ cut < RequestLen(sent[Len(sent)])
  /\ inbound \in Seq(Nat \X Nat)
  /\ \A k \in 1 .. Len(inbound) : inbound[k][1] \in 1 .. Len(sent)
  /\ req \in Nat /\ todo \in Seq(Nat)
  /\ pushed \in Seq([to : Nat, ok : BOOLEAN, at : Int])
  /\ seq \in Int
  /\ short \in BOOLEAN

\* What is left of it once the client is stopped.
Answered ==
  /\ inbound = <<>> /\ pc = "send"
  /\ ~Slipped => \A i \in 1 .. Len(pushed) :
       pushed[i].to # 0 /\ (pushed[i].to = Len(sent) => cut = 0)

\* The inductive invariant.
SessionInv ==
  /\ SessionTypes
  /\ conn = "stopped" => Answered
  /\ ~Slipped => (conn # "stopped" => InStream) /\ Ordered
-----------------------------------------------------------------------------
\* Every request has a header, and what follows it (the packets of usbip.c).
LEMMA Lengths ==
  /\ HdrLen \in Nat \ {0} /\ BusidLen \in Nat \ {0} /\ CmdLen \in Nat /\ HdrLen < CmdLen
  /\ DataLen \in Nat \ {0} /\ DevlistLen \in Nat \ {0}
  /\ PathLen \in Nat \ {0} /\ InfoLen \in Nat \ {0}
BY UsbipSessionAssumption

\* The length of each kind of request, as its handler reads it.
LEMMA RequestLens ==
  ASSUME NEW kind \in Requests
  PROVE  /\ BodyLen(kind) \in Nat
         /\ RequestLen(kind) \in Nat /\ RequestLen(kind) >= HdrLen /\ RequestLen(kind) > 0
         /\ kind = "devlist" => RequestLen(kind) = HdrLen
         /\ kind \in {"import", "import_unknown"} => RequestLen(kind) = HdrLen + BusidLen
         /\ kind = "command" => RequestLen(kind) = CmdLen
         /\ kind \in {"devlist", "import", "import_unknown", "command", "submit_out"}
<1>1. kind \in {"devlist", "import", "import_unknown", "command", "submit_out"}
  BY UsbipSessionAssumption DEF Ops, Commands
<1> QED BY <1>1, Lengths DEF BodyLen, RequestLen

\* The words of a request that arrive together (ClientRequests).
LEMMA WordsOf ==
  ASSUME NEW r \in Nat, NEW from \in Nat, NEW to \in Nat, 0 < from, from <= to + 1
  PROVE  /\ Words(r, from, to) \in Seq(Nat \X Nat)
         /\ Len(Words(r, from, to)) = to - from + 1
         /\ \A i \in 1 .. to - from + 1 : Words(r, from, to)[i] = <<r, from + i - 1>>
BY DEF Words

\* Nothing was sent.
LEMMA FramedInit == Framed(<<>>, 0, <<>>) /\ At(<<>>, 0, <<>>, 1) = <<1, 1>>
BY DEF Framed, At, Upcoming

\* The m words from the from-th on of the last of the requests kinds are the
\* next to arrive; it was just made, or is the last of old (ClientRequests,
\* RestArrives).
Arriving(old, kinds, ct, words, from, m) ==
  /\ old \in Seq(Requests) /\ kinds \in Seq(Requests) /\ words \in Seq(Nat \X Nat)
  /\ ct \in Nat /\ from \in Nat \ {0} /\ m \in Nat \ {0}
  /\ Len(old) <= Len(kinds) /\ \A r \in 1 .. Len(old) : kinds[r] = old[r]
  /\ Framed(old, ct, words)
  /\ Len(kinds) > 0 /\ Upcoming(old, ct) = <<Len(kinds), from>>
  /\ from + m - 1 <= RequestLen(kinds[Len(kinds)])

\* When more words of the last request arrive, those waiting are still
\* consecutive, and the one the server takes next is the same.
LEMMA FramedArrival ==
  ASSUME NEW old, NEW kinds, NEW ct, NEW words, NEW from, NEW m,
         Arriving(old, kinds, ct, words, from, m)
  PROVE  LET all  == words \o Words(Len(kinds), from, from + m - 1)
             left == RequestLen(kinds[Len(kinds)]) - (from + m - 1)
         IN  /\ all \in Seq(Nat \X Nat) /\ left \in Nat
             /\ Framed(kinds, left, all)
             /\ At(kinds, left, all, 1) = At(old, ct, words, 1)
<1> DEFINE N == Len(kinds)  L == Len(words)  T == RequestLen(kinds[N])
           left == T - (from + m - 1)
           new == Words(N, from, from + m - 1)
           all == words \o new
           A(k) == At(old, ct, words, k)
           B(k) == At(kinds, left, all, k)
<1>0. from \in Nat \ {0} /\ m \in Nat \ {0} /\ from + m - 1 <= T
  BY DEF Arriving
<1>1. N \in Nat \ {0} /\ L \in Nat /\ kinds[N] \in Requests /\ Len(old) \in Nat
  BY LenProperties, ElementOfSeq DEF Arriving
<1>f. Framed(old, ct, words)
  BY DEF Arriving
<1>k. Len(old) <= N /\ \A r \in 1 .. Len(old) : kinds[r] = old[r]
  BY DEF Arriving
<1>u. Upcoming(old, ct) = <<N, from>>
  BY DEF Arriving
<1>w. words \in Seq(Nat \X Nat)
  BY DEF Arriving
<1>2. T \in Nat /\ left \in Nat
  BY <1>0, <1>1, RequestLens
<1>3. new \in Seq(Nat \X Nat) /\ Len(new) = m /\ \A i \in 1 .. m : new[i] = <<N, from + i - 1>>
  <2> DEFINE to == from + m - 1
  <2>1. N \in Nat /\ from \in Nat /\ to \in Nat /\ 0 < from /\ from <= to + 1 /\ to - from + 1 = m
    BY <1>0, <1>1
  <2> HIDE DEF N, T, to
  <2>2. /\ Words(N, from, to) \in Seq(Nat \X Nat)
        /\ Len(Words(N, from, to)) = to - from + 1
        /\ \A i \in 1 .. to - from + 1 : Words(N, from, to)[i] = <<N, from + i - 1>>
    BY <2>1, WordsOf
  <2> QED BY <2>1, <2>2 DEF to
<1>4. all \in Seq(Nat \X Nat) /\ Len(all) = L + m
      /\ \A k \in 1 .. L : all[k] = words[k]
  <2> HIDE DEF new
  <2>1. new \in Seq(Nat \X Nat) /\ Len(new) = m
    BY <1>3
  <2>2. /\ all \in Seq(Nat \X Nat) /\ Len(all) = L + Len(new)
        /\ \A k \in 1 .. L + Len(new) : all[k] = IF k <= L THEN words[k] ELSE new[k - L]
    BY <1>w, <2>1, ConcatProperties
  <2>3. ASSUME NEW k \in 1 .. L PROVE k \in 1 .. L + m /\ k <= L
    BY <1>0, <1>1
  <2> HIDE DEF all, L
  <2> QED BY <2>1, <2>2, <2>3
<1>5. \A i \in 1 .. m : all[L + i] = <<N, from + i - 1>>
  <2> SUFFICES ASSUME NEW i \in 1 .. m PROVE all[L + i] = <<N, from + i - 1>>
    OBVIOUS
  <2>1. all[L + i] = new[L + i - L]
    <3> HIDE DEF new, L
    <3>1. L + i \in 1 .. L + m /\ L + i > L
      BY <1>0, <1>1
    <3> QED BY <1>0, <1>1, <1>3, <1>w, <3>1, ConcatProperties DEF L
  <2>2. L + i - L = i
    BY <1>1
  <2> QED BY <1>3, <2>1, <2>2
<1> HIDE DEF new, all, L, N, T
<1>6. /\ \A k \in 1 .. L : A(k) = words[k] /\ B(k) = words[k]
      /\ A(L + 1) = <<N, from>>
      /\ \A i \in 1 .. m : B(L + i) = <<N, from + i - 1>>
      /\ B(L + m + 1) = IF left > 0 THEN <<N, from + m>> ELSE <<N + 1, 1>>
  <2>1. \A k \in 1 .. L : A(k) = words[k] /\ B(k) = words[k]
    <3> SUFFICES ASSUME NEW k \in 1 .. L PROVE A(k) = words[k] /\ B(k) = words[k]
      OBVIOUS
    <3>1. k <= L /\ k <= L + m
      BY <1>0, <1>1
    <3> QED BY <1>4, <3>1 DEF At, L
  <2>2. A(L + 1) = <<N, from>>
    BY <1>1, <1>u DEF At, L
  <2>3. \A i \in 1 .. m : B(L + i) = <<N, from + i - 1>>
    <3> SUFFICES ASSUME NEW i \in 1 .. m PROVE B(L + i) = <<N, from + i - 1>>
      OBVIOUS
    <3>1. L + i <= L + m
      BY <1>0, <1>1
    <3>2. B(L + i) = all[L + i]
      BY <1>4, <3>1 DEF At
    <3> QED BY <1>5, <3>2
  <2>4. B(L + m + 1) = Upcoming(kinds, left)
    BY <1>0, <1>1, <1>4 DEF At
  <2>5. Upcoming(kinds, left) = IF left > 0 THEN <<N, from + m>> ELSE <<N + 1, 1>>
    <3>1. T - left + 1 = from + m
      BY <1>0, <1>1, <1>2
    <3> QED BY <3>1 DEF Upcoming, N, T
  <2> QED BY <2>1, <2>2, <2>3, <2>4, <2>5
<1>7. /\ \A k \in 1 .. L : words[k][1] \in 1 .. Len(old)
                           /\ words[k][2] \in 1 .. RequestLen(old[words[k][1]])
      /\ \A k \in 1 .. L : A(k + 1) = Following(old, words[k])
      /\ \A k \in 1 .. L + 1 : \A j \in 1 .. k : A(j)[1] <= A(k)[1]
  BY <1>f DEF Framed, L
<1> HIDE DEF A, B
<1>8. \A k \in 1 .. L + m : all[k][1] \in 1 .. N /\ all[k][2] \in 1 .. RequestLen(kinds[all[k][1]])
  <2>2. ASSUME NEW k \in 1 .. L
        PROVE  all[k][1] \in 1 .. N /\ all[k][2] \in 1 .. RequestLen(kinds[all[k][1]])
    <3>1. words[k][1] \in 1 .. Len(old) /\ words[k][2] \in 1 .. RequestLen(old[words[k][1]])
      BY <1>7
    <3>2. old[words[k][1]] = kinds[words[k][1]] /\ words[k][1] \in 1 .. N
      BY <1>1, <1>k, <3>1
    <3> QED BY <1>4, <3>1, <3>2
  <2>3. ASSUME NEW i \in 1 .. m
        PROVE  all[L + i][1] \in 1 .. N /\ all[L + i][2] \in 1 .. RequestLen(kinds[all[L + i][1]])
    <3>1. from + i - 1 \in 1 .. T /\ N \in 1 .. N
      BY <1>0, <1>1, <1>2
    <3> QED BY <1>5, <3>1 DEF T
  <2>4. ASSUME NEW k \in 1 .. L + m PROVE k \in 1 .. L \/ \E i \in 1 .. m : k = L + i
    <3>1. CASE k > L
      <4>1. k - L \in 1 .. m /\ k = L + (k - L)
        BY <1>0, <1>1, <3>1
      <4> QED BY <4>1
    <3> QED BY <1>1, <3>1
  <2> QED BY <1>1, <2>2, <2>3, <2>4
<1>9. \A k \in 1 .. L + m : B(k + 1) = Following(kinds, all[k])
  <2> SUFFICES ASSUME NEW k \in 1 .. L + m PROVE B(k + 1) = Following(kinds, all[k])
    OBVIOUS
  <2>1. CASE k \in 1 .. L
    <3>1. A(k + 1) = B(k + 1)
      <4>1. CASE k = L
        <5>1. B(L + 1) = <<N, from + 1 - 1>>
          BY <1>0, <1>6
        <5> QED BY <1>0, <1>6, <4>1, <5>1
      <4>2. CASE k < L
        <5>1. k + 1 \in 1 .. L
          BY <1>0, <1>1, <4>2
        <5> QED BY <1>0, <1>6, <5>1
      <4> QED BY <1>0, <1>1, <2>1, <4>1, <4>2
    <3>2. Following(kinds, words[k]) = Following(old, words[k])
      <4>1. words[k][1] \in 1 .. Len(old)
        BY <1>7, <2>1
      <4>2. kinds[words[k][1]] = old[words[k][1]]
        BY <1>k, <4>1
      <4> QED BY <4>2 DEF Following
    <3> QED BY <1>0, <1>4, <1>7, <2>1, <3>1, <3>2
  <2>2. CASE k > L
    <3>1. PICK i \in 1 .. m : k = L + i
      <4>1. k - L \in 1 .. m /\ k = L + (k - L)
        BY <1>0, <1>1, <2>2
      <4> QED BY <4>1
    <3>2. all[k] = <<N, from + i - 1>>
      BY <1>0, <1>5, <3>1
    <3>3. Following(kinds, all[k]) =
            IF from + i - 1 < T THEN <<N, from + i>> ELSE <<N + 1, 1>>
      BY <1>0, <1>2, <3>2 DEF Following, T
    <3>4. CASE i < m
      <4>1. i + 1 \in 1 .. m /\ L + (i + 1) = k + 1 /\ from + (i + 1) - 1 = from + i
        BY <1>0, <1>1, <3>1, <3>4
      <4>2. B(k + 1) = <<N, from + i>>
        BY <1>0, <1>6, <4>1
      <4>3. from + i - 1 < T
        BY <1>0, <1>2, <3>4
      <4> QED BY <3>3, <4>2, <4>3
    <3>5. CASE i = m
      <4>1. k + 1 = L + m + 1 /\ (from + m - 1 < T <=> left > 0)
        BY <1>0, <1>1, <1>2, <3>1, <3>5
      <4> QED BY <1>0, <1>6, <3>3, <3>5, <4>1
    <3> QED BY <1>0, <3>4, <3>5
  <2> QED BY <1>0, <1>1, <2>1, <2>2
<1>10. \A k \in 1 .. L + m + 1 : \A j \in 1 .. k : B(j)[1] <= B(k)[1]
  <2> SUFFICES ASSUME NEW k \in 1 .. L + m + 1, NEW j \in 1 .. k PROVE B(j)[1] <= B(k)[1]
    OBVIOUS
  <2>1. \A h \in 1 .. L : B(h)[1] \in 1 .. N
    <3> SUFFICES ASSUME NEW h \in 1 .. L PROVE B(h)[1] \in 1 .. N
      OBVIOUS
    <3>1. words[h][1] \in 1 .. Len(old) /\ B(h) = words[h]
      BY <1>6, <1>7
    <3> QED BY <1>1, <1>k, <3>1
  <2>2. ASSUME NEW h \in L + 1 .. L + m + 1
        PROVE  B(h)[1] = IF h = L + m + 1 /\ left = 0 THEN N + 1 ELSE N
    <3>1. CASE h = L + m + 1
      BY <1>0, <1>2, <1>6, <3>1
    <3>2. CASE h # L + m + 1
      <4>1. h - L \in 1 .. m /\ h = L + (h - L)
        BY <1>0, <1>1, <3>2
      <4>2. B(h) = <<N, from + (h - L) - 1>>
        BY <1>0, <1>6, <4>1
      <4> QED BY <3>2, <4>2
    <3> QED BY <3>1, <3>2
  <2>3. CASE k \in 1 .. L
    <3>1. A(j) = B(j) /\ A(k) = B(k) /\ k \in 1 .. L + 1
      BY <1>0, <1>1, <1>6, <2>3
    <3> QED BY <1>0, <1>7, <3>1
  <2>4. CASE k > L /\ j > L
    <3>1. k \in L + 1 .. L + m + 1 /\ j \in L + 1 .. L + m + 1
      BY <1>0, <1>1, <2>4
    <3> QED BY <1>0, <1>1, <2>2, <3>1
  <2>5. CASE k > L /\ j \in 1 .. L
    <3>1. k \in L + 1 .. L + m + 1
      BY <1>0, <1>1, <2>5
    <3> QED BY <1>0, <1>1, <2>1, <2>2, <2>5, <3>1
  <2> QED BY <1>0, <1>1, <2>3, <2>4, <2>5
<1>11. Framed(kinds, left, all)
  BY <1>0, <1>4, <1>8, <1>9, <1>10 DEF Framed, B, N, T
<1>12. B(1) = A(1)
  <2>1. CASE L = 0
    <3>1. B(L + 1) = <<N, from + 1 - 1>>
      BY <1>0, <1>6
    <3> QED BY <1>0, <1>6, <2>1, <3>1
  <2>2. CASE L > 0
    BY <1>0, <1>1, <1>6, <2>2
  <2> QED BY <1>0, <1>1, <2>1, <2>2
<1> QED BY <1>2, <1>4, <1>11, <1>12 DEF A, B, all, new, N, T
-----------------------------------------------------------------------------
\* A set of numbers has a least one.
LEMMA NatLeast ==
  ASSUME NEW T, T \subseteq Nat, T # {}
  PROVE  \E x \in T : \A y \in T : x <= y
<1> DEFINE R == OpToRel(<, Nat)
<1>1. \A x, y \in Nat : y < x => <<y, x>> \in R
  BY DEF OpToRel
<1>2. \E x \in T : \A y \in T : ~ (<<y, x>> \in R)
  <2>1. IsWellFoundedOn(R, Nat)
    BY NatLessThanWellFounded
  <2> HIDE DEF R
  <2> QED BY <2>1, WFMin
<1> HIDE DEF R
<1>3. PICK x \in T : \A y \in T : ~ (<<y, x>> \in R)
  BY <1>2
<1>4. \A y \in T : ~(y < x)
  BY <1>1, <1>3
<1> QED BY <1>4

\* Induction on the numbers, for a set of them.
LEMMA SetInduction ==
  ASSUME NEW S, 0 \in S, \A n \in Nat : n \in S => n + 1 \in S
  PROVE  Nat \subseteq S
<1> SUFFICES ASSUME Nat \ S # {} PROVE FALSE
  OBVIOUS
<1>1. PICK x \in Nat \ S : \A y \in Nat \ S : x <= y
  BY NatLeast
<1>2. x # 0 /\ x - 1 \in Nat /\ x - 1 \in S
  BY <1>1
<1> QED BY <1>1, <1>2

\* The words waiting begin with the w-th of request r, n of them belong to it.
Beginning(kinds, ct, words, r, w, n) ==
  /\ kinds \in Seq(Requests) /\ ct \in Nat /\ words \in Seq(Nat \X Nat)
  /\ Framed(kinds, ct, words)
  /\ r \in Nat /\ w \in Nat \ {0} /\ n \in Nat \ {0} /\ n <= Len(words)
  /\ At(kinds, ct, words, 1) = <<r, w>>
  /\ RequestLen(kinds[r]) \in Nat /\ w + n - 1 <= RequestLen(kinds[r])

\* So they are the n words of request r from its w-th on, and what follows
\* them is the rest of it or the next request.
Begun(kinds, ct, words, r, w, n) ==
  /\ \A i \in 1 .. n : words[i] = <<r, w + i - 1>>
  /\ At(kinds, ct, words, n + 1) =
       IF w + n - 1 < RequestLen(kinds[r]) THEN <<r, w + n>> ELSE <<r + 1, 1>>

\* Then a recv of n words finds them, and behind them what follows.
LEMMA FirstWords ==
  ASSUME NEW kinds, NEW ct, NEW words, NEW r, NEW w, NEW n,
         Beginning(kinds, ct, words, r, w, n)
  PROVE  Begun(kinds, ct, words, r, w, n)
<1> DEFINE L == Len(words)  T == RequestLen(kinds[r])
           A(k) == At(kinds, ct, words, k)
           S == {i \in Nat : i < n => words[i + 1] = <<r, w + i>>}
<1>1. r \in Nat /\ w \in Nat \ {0} /\ n \in Nat \ {0} /\ n <= L /\ T \in Nat
      /\ w + n - 1 <= T /\ L \in Nat /\ A(1) = <<r, w>>
  BY LenProperties DEF Beginning
<1>2. \A k \in 1 .. L : A(k + 1) = Following(kinds, words[k])
  BY DEF Beginning, Framed
<1>3. \A k \in 1 .. L : A(k) = words[k]
  BY <1>1 DEF At
<1> HIDE DEF L, T, A
<1>4. ASSUME NEW k \in Nat, k < n, words[k + 1] = <<r, w + k>>
      PROVE  A(k + 2) = IF w + k < T THEN <<r, w + k + 1>> ELSE <<r + 1, 1>>
  <2>1. k + 1 \in 1 .. L /\ (k + 1) + 1 = k + 2
    BY <1>1, <1>4
  <2>2. A(k + 2) = Following(kinds, words[k + 1])
    BY <1>2, <2>1
  <2> QED BY <1>4, <2>2 DEF Following, T
<1>5. 0 \in S
  BY <1>1, <1>3
<1>6. ASSUME NEW k \in Nat, k \in S PROVE k + 1 \in S
  <2> SUFFICES ASSUME k + 1 < n PROVE words[k + 2] = <<r, w + k + 1>>
    <3>1. (k + 1) + 1 = k + 2 /\ w + (k + 1) = w + k + 1
      BY <1>1
    <3> QED BY <3>1
  <2>1. words[k + 1] = <<r, w + k>> /\ k < n
    BY <1>1, <1>6
  <2>2. A(k + 2) = <<r, w + k + 1>>
    <3>1. w + k < T
      BY <1>1
    <3> QED BY <1>4, <2>1, <3>1
  <2>3. k + 2 \in 1 .. L
    BY <1>1
  <2> QED BY <1>3, <2>2, <2>3
<1>7. Nat \subseteq S
  <2> HIDE DEF S
  <2> QED BY <1>5, <1>6, SetInduction
<1>8. \A i \in 1 .. n : words[i] = <<r, w + i - 1>>
  <2> SUFFICES ASSUME NEW i \in 1 .. n PROVE words[i] = <<r, w + i - 1>>
    OBVIOUS
  <2>1. i - 1 \in Nat /\ i - 1 < n /\ (i - 1) + 1 = i /\ w + (i - 1) = w + i - 1
    BY <1>1
  <2>2. i - 1 \in S
    BY <1>7, <2>1
  <2> QED BY <2>1, <2>2
<1>9. A(n + 1) = IF w + n - 1 < T THEN <<r, w + n>> ELSE <<r + 1, 1>>
  <2>1. n - 1 \in Nat /\ n - 1 < n /\ (n - 1) + 1 = n /\ (n - 1) + 2 = n + 1
        /\ w + (n - 1) = w + n - 1 /\ w + (n - 1) + 1 = w + n
    BY <1>1
  <2>2. words[(n - 1) + 1] = <<r, w + (n - 1)>>
    BY <1>7, <2>1
  <2> QED BY <1>4, <2>1, <2>2
<1> QED BY <1>8, <1>9 DEF A, T, Begun

\* What a recv of m words leaves is framed as before.
LEMMA FramedRest ==
  ASSUME NEW kinds, NEW ct, NEW words \in Seq(Nat \X Nat), NEW m \in Nat,
         Framed(kinds, ct, words), m <= Len(words)
  PROVE  LET rest == SubSeq(words, m + 1, Len(words)) IN
         /\ rest \in Seq(Nat \X Nat) /\ Len(rest) = Len(words) - m
         /\ Framed(kinds, ct, rest)
         /\ At(kinds, ct, rest, 1) = At(kinds, ct, words, m + 1)
<1> DEFINE L == Len(words)
           rest == SubSeq(words, m + 1, L)
           A(k) == At(kinds, ct, words, k)
           B(k) == At(kinds, ct, rest, k)
<1>1. L \in Nat /\ m <= L
  BY LenProperties
<1>2. rest \in Seq(Nat \X Nat) /\ Len(rest) = L - m
      /\ \A k \in 1 .. L - m : rest[k] = words[k + m]
  <2>1. m + 1 \in Int /\ L \in Int /\ L - (m + 1) + 1 = L - m
        /\ (IF m + 1 <= L THEN L - (m + 1) + 1 ELSE 0) = L - m
    BY <1>1
  <2>2. \A i \in m + 1 .. L : words[i] \in Nat \X Nat
    BY <1>1, ElementOfSeq
  <2>3. ASSUME NEW k \in 1 .. L - m PROVE (m + 1) + k - 1 = k + m
    BY <1>1
  <2> HIDE DEF L
  <2>4. /\ rest \in Seq(Nat \X Nat)
        /\ Len(rest) = IF m + 1 <= L THEN L - (m + 1) + 1 ELSE 0
        /\ \A k \in 1 .. L - (m + 1) + 1 : rest[k] = words[(m + 1) + k - 1]
    BY <2>1, <2>2, SubSeqProperties
  <2> HIDE DEF rest
  <2> QED BY <2>1, <2>3, <2>4
<1>3. \A k \in 1 .. L - m + 1 : B(k) = A(k + m)
  <2> SUFFICES ASSUME NEW k \in 1 .. L - m + 1 PROVE B(k) = A(k + m)
    OBVIOUS
  <2>1. k <= L - m <=> k + m <= L
    BY <1>1
  <2>2. k <= L - m => k \in 1 .. L - m
    BY <1>1
  <2> HIDE DEF L, rest
  <2> QED BY <1>2, <2>1, <2>2 DEF At, L
<1>4. \A k \in 1 .. L - m : k + m \in 1 .. L /\ (k + 1) + m = (k + m) + 1 /\ k + 1 \in 1 .. L - m + 1
  BY <1>1
<1>5. \A k \in 1 .. L : /\ words[k][1] \in 1 .. Len(kinds)
                     /\ words[k][2] \in 1 .. RequestLen(kinds[words[k][1]])
  BY DEF Framed
<1>6. \A k \in 1 .. L : A(k + 1) = Following(kinds, words[k])
  BY DEF Framed
<1>7. \A k \in 1 .. L + 1 : \A j \in 1 .. k : A(j)[1] <= A(k)[1]
  BY DEF Framed
<1> HIDE DEF A, B, L, rest
<1>8. \A k \in 1 .. L - m : /\ rest[k][1] \in 1 .. Len(kinds)
                            /\ rest[k][2] \in 1 .. RequestLen(kinds[rest[k][1]])
  BY <1>2, <1>4, <1>5
<1>9. ASSUME NEW k \in 1 .. L - m PROVE B(k + 1) = Following(kinds, rest[k])
  <2>1. B(k + 1) = A((k + m) + 1)
    BY <1>3, <1>4
  <2>2. A((k + m) + 1) = Following(kinds, words[k + m])
    BY <1>4, <1>6
  <2> QED BY <1>2, <2>1, <2>2
<1>10. ASSUME NEW k \in 1 .. L - m + 1, NEW j \in 1 .. k PROVE B(j)[1] <= B(k)[1]
  <2>1. k + m \in 1 .. L + 1 /\ j + m \in 1 .. k + m /\ j \in 1 .. L - m + 1
    BY <1>1
  <2>2. A(j + m)[1] <= A(k + m)[1]
    BY <1>7, <2>1
  <2> QED BY <1>3, <2>1, <2>2
<1>11. Framed(kinds, ct, rest)
  BY <1>2, <1>8, <1>9, <1>10 DEF Framed, B
<1>12. B(1) = A(m + 1)
  BY <1>1, <1>3
<1> QED BY <1>2, <1>11, <1>12 DEF A, B, L, rest
-----------------------------------------------------------------------------
\* The answers are for requests received to the end.
LEMMA InStreamAnswered ==
  ASSUME SessionTypes, InStream
  PROVE  /\ NextWord[1] \in Nat /\ NextWord[1] <= Len(sent) + 1
         /\ \A i \in 1 .. Len(pushed) :
              /\ pushed[i].to \in 1 .. Len(sent)
              /\ \A k \in 1 .. Len(inbound) : inbound[k][1] # pushed[i].to
              /\ pushed[i].to = Len(sent) => cut = 0
<1> DEFINE L == Len(inbound)  N == Len(sent)
           A(k) == At(sent, cut, inbound, k)
<1>1. L \in Nat /\ N \in Nat /\ cut \in Nat
  BY LenProperties DEF SessionTypes
<1>2. \A k \in 1 .. L + 1 : \A j \in 1 .. k : A(j)[1] <= A(k)[1]
  BY DEF InStream, Framed
<1>3. A(L + 1) = Upcoming(sent, cut) /\ \A k \in 1 .. L : A(k) = inbound[k]
  BY <1>1 DEF At
<1>4. \A k \in 1 .. L : inbound[k][1] \in 1 .. N
  BY DEF InStream, Framed
<1>5. \A i \in 1 .. Len(pushed) : 1 <= pushed[i].to /\ pushed[i].to < A(1)[1]
  BY DEF InStream, NextWord
<1>6. \A i \in 1 .. Len(pushed) : pushed[i].to \in Nat
  <2>1. pushed \in Seq([to : Nat, ok : BOOLEAN, at : Int])
    BY DEF SessionTypes
  <2>2. ASSUME NEW i \in 1 .. Len(pushed) PROVE pushed[i] \in [to : Nat, ok : BOOLEAN, at : Int]
    BY <2>1, ElementOfSeq
  <2> QED BY <2>2
<1>7. Upcoming(sent, cut)[1] = IF cut > 0 THEN N ELSE N + 1
  BY DEF Upcoming
<1> HIDE DEF A, L, N
<1>8. A(1)[1] <= A(L + 1)[1] /\ \A k \in 1 .. L : A(1)[1] <= inbound[k][1]
  <2>1. L + 1 \in 1 .. L + 1 /\ 1 \in 1 .. L + 1
    BY <1>1
  <2>2. ASSUME NEW k \in 1 .. L PROVE k \in 1 .. L + 1 /\ 1 \in 1 .. k
    BY <1>1
  <2> QED BY <1>2, <1>3, <2>1, <2>2
<1>9. A(1)[1] \in Nat
  <2>1. CASE L = 0
    BY <1>1, <1>3, <1>7, <2>1
  <2>2. CASE L > 0
    BY <1>1, <1>3, <1>4, <2>2
  <2> QED BY <1>1, <2>1, <2>2
<1>10. ASSUME NEW i \in 1 .. Len(pushed)
       PROVE  /\ pushed[i].to \in 1 .. N
              /\ \A k \in 1 .. L : inbound[k][1] # pushed[i].to
              /\ pushed[i].to = N => cut = 0
  <2>1. 1 <= pushed[i].to /\ pushed[i].to < A(1)[1] /\ pushed[i].to \in Nat
    BY <1>5, <1>6
  <2>2. A(1)[1] <= (IF cut > 0 THEN N ELSE N + 1)
    BY <1>3, <1>7, <1>8
  <2>3. ASSUME NEW k \in 1 .. L PROVE inbound[k][1] # pushed[i].to
    <3>1. A(1)[1] <= inbound[k][1] /\ inbound[k][1] \in Nat
      BY <1>1, <1>4, <1>8
    <3> QED BY <1>9, <2>1, <3>1
  <2> QED BY <1>1, <1>9, <2>1, <2>2, <2>3
<1>11. A(1)[1] <= N + 1
  BY <1>1, <1>3, <1>7, <1>8, <1>9
<1> QED BY <1>9, <1>10, <1>11 DEF NextWord, A, L, N

\* A client that is stopped.
LEMMA Stopping ==
  ASSUME SessionInv, conn # "stopped", Stop,
         UNCHANGED <<seq, sent, cut, req, todo, pushed, short>>, pc # "push"
  PROVE  SessionInv'
<1>1. SessionTypes'
  <2>1. <<>> \in Seq(Nat \X Nat) /\ 1 .. Len(<<>>) = {}
    BY EmptySeq
  <2> QED BY <2>1 DEF SessionInv, SessionTypes, Stop
<1>2. Answered'
  <2> SUFFICES ASSUME ~Slipped, NEW i \in 1 .. Len(pushed)
               PROVE  pushed[i].to # 0 /\ (pushed[i].to = Len(sent) => cut = 0)
    BY DEF Answered, Stop, Slipped
  <2>1. SessionTypes /\ InStream
    BY DEF SessionInv
  <2> QED BY <2>1, InStreamAnswered
<1>3. ~Slipped' => Ordered'
  BY DEF SessionInv, Slipped, Ordered
<1> QED BY <1>1, <1>2, <1>3 DEF SessionInv, Stop

\* A step that leaves the socket, the request and the answers alone.
LEMMA OtherSteps ==
  ASSUME SessionInv,
         UNCHANGED <<seq, sent, cut, inbound, req, todo, pushed, short>>,
         conn # "stopped", conn' \in {"up", "closed", "broken", "killed", "crashed"},
         \/ UNCHANGED pc
         \/ pc = "send" /\ pc' = "header"
         \/ pc = "push" /\ todo = <<>> /\ pc' = "send"
  PROVE  SessionInv'
<1>1. SessionTypes'
  BY DEF SessionInv, SessionTypes
<1>2. ASSUME ~Slipped' PROVE InStream' /\ Ordered'
  <2>1. InStream /\ Ordered
    BY <1>2 DEF SessionInv, Slipped
  <2>2. InStream'
    BY <2>1 DEF InStream, NextWord
  <2>3. Ordered'
    BY <2>1 DEF Ordered
  <2> QED BY <2>2, <2>3
<1> QED BY <1>1, <1>2 DEF SessionInv

\* What the words of a request that arrive change: the socket, and with a new
\* request the requests made.
LEMMA ArrivalStep ==
  ASSUME SessionInv, conn = "up", UNCHANGED <<seq, pc, conn, req, todo, pushed, short>>,
         sent' \in Seq(Requests), inbound' \in Seq(Nat \X Nat), cut' \in Nat,
         \A k \in 1 .. Len(inbound') : inbound'[k][1] \in 1 .. Len(sent'),
         cut' > 0 => Len(sent') > 0 /\ cut' < RequestLen(sent'[Len(sent')]),
         Len(sent) <= Len(sent'), \A r \in 1 .. Len(sent) : sent'[r] = sent[r],
         ~Slipped => /\ Framed(sent', cut', inbound')
                     /\ At(sent', cut', inbound', 1) = NextWord
  PROVE  SessionInv'
<1>1. SessionTypes'
  BY DEF SessionInv, SessionTypes
<1>2. ASSUME ~Slipped' PROVE InStream' /\ Ordered'
  <2>0. Len(sent) \in Nat /\ Len(sent') \in Nat /\ 1 .. Len(sent) = DOMAIN sent
        /\ 1 .. Len(sent') = DOMAIN sent'
    BY LenProperties DEF SessionInv, SessionTypes
  <2>a. \A r \in 1 .. Len(sent) : r \in 1 .. Len(sent')
    BY <2>0
  <2>1. ~Slipped
    BY <1>2, <2>0, <2>a DEF Slipped
  <2>2. InStream /\ Ordered /\ SessionTypes
    BY <2>1 DEF SessionInv
  <2>3. NextWord' = NextWord
    BY <2>1 DEF NextWord
  <2>4. InStream'
    <3>1. /\ pc \in {"send", "header"} => NextWord'[2] = 1
          /\ pc = "push" => req \in 1 .. Len(sent') /\ NextWord' = <<req + 1, 1>>
          /\ \A i \in 1 .. Len(pushed) : 1 <= pushed[i].to /\ pushed[i].to < NextWord'[1]
      BY <2>2, <2>3, <2>a DEF InStream
    <3>2. pc \in {"import", "command"} =>
            /\ req \in 1 .. Len(sent') /\ NextWord' = <<req, HdrLen + 1>>
            /\ pc = "import"  => sent'[req] \in {"import", "import_unknown"}
            /\ pc = "command" => sent'[req] = "command"
      <4> SUFFICES ASSUME pc \in {"import", "command"}
                   PROVE  /\ req \in 1 .. Len(sent') /\ NextWord' = <<req, HdrLen + 1>>
                          /\ pc = "import"  => sent'[req] \in {"import", "import_unknown"}
                          /\ pc = "command" => sent'[req] = "command"
        OBVIOUS
      <4>1. req \in 1 .. Len(sent) /\ NextWord = <<req, HdrLen + 1>>
            /\ (pc = "import"  => sent[req] \in {"import", "import_unknown"})
            /\ (pc = "command" => sent[req] = "command")
        BY <2>2 DEF InStream
      <4>2. sent'[req] = sent[req]
        BY <4>1
      <4> QED BY <2>3, <2>a, <4>1, <4>2
    <3>3. Framed(sent', cut', inbound')
      BY <2>1
    <3> QED BY <3>1, <3>2, <3>3 DEF InStream
  <2>6. Ordered'
    BY <2>2 DEF Ordered
  <2> QED BY <2>4, <2>6
<1> QED BY <1>1, <1>2 DEF SessionInv

\* A new request arrives behind the others, whole or in part.
LEMMA ClientRequestsStep ==
  ASSUME SessionInv, NEW kind \in Requests, ClientRequests(kind)
  PROVE  SessionInv'
<1> DEFINE N == Len(sent)
<1>1. /\ conn = "up" /\ cut = 0 /\ ~Slipped /\ sent' = Append(sent, kind)
      /\ UNCHANGED <<seq, pc, conn, req, todo, pushed, short>>
  BY DEF ClientRequests, vars
<1>2. SessionTypes /\ InStream /\ sent \in Seq(Requests) /\ inbound \in Seq(Nat \X Nat)
      /\ N \in Nat
  BY <1>1, LenProperties DEF SessionInv, SessionTypes
<1>3. sent' \in Seq(Requests) /\ Len(sent') = N + 1 /\ sent'[N + 1] = kind
      /\ \A r \in 1 .. N : sent'[r] = sent[r]
  BY <1>1, <1>2, AppendProperties
<1>4. RequestLen(kind) \in Nat
  BY RequestLens
<1>a. PICK n \in 1 .. HdrLen + BodyLen(kind) :
        /\ inbound' = inbound \o Words(Len(sent'), 1, n)
        /\ cut' = HdrLen + BodyLen(kind) - n
  BY DEF ClientRequests
<1>5. /\ n \in 1 .. RequestLen(kind) /\ cut' = RequestLen(kind) - n
      /\ inbound' = inbound \o Words(Len(sent'), 1, n)
  <2>1. n \in 1 .. RequestLen(kind)
    BY DEF RequestLen
  <2>2. cut' = RequestLen(kind) - n
    BY <1>a, Lengths, RequestLens DEF RequestLen
  <2>3. inbound' = inbound \o Words(Len(sent'), 1, n)
    BY <1>a
  <2> QED BY <2>1, <2>2, <2>3
<1>6. 1 + n - 1 = n /\ n \in Nat \ {0} /\ n <= RequestLen(kind)
  BY <1>4, <1>5
<1>7. Arriving(sent, sent', 0, inbound, 1, n)
  <2>1. Upcoming(sent, 0) = <<N + 1, 1>>
    BY DEF Upcoming
  <2>2. Framed(sent, 0, inbound)
    BY <1>1, <1>2 DEF InStream
  <2>3. N <= N + 1 /\ N + 1 > 0
    BY <1>2
  <2> QED BY <1>2, <1>3, <1>6, <2>1, <2>2, <2>3 DEF Arriving
<1>8. /\ inbound' \in Seq(Nat \X Nat) /\ cut' \in Nat
      /\ Framed(sent', cut', inbound')
      /\ At(sent', cut', inbound', 1) = At(sent, 0, inbound, 1)
  <2>1. LET all  == inbound \o Words(Len(sent'), 1, 1 + n - 1)
            left == RequestLen(sent'[Len(sent')]) - (1 + n - 1)
        IN  /\ all \in Seq(Nat \X Nat) /\ left \in Nat
            /\ Framed(sent', left, all)
            /\ At(sent', left, all, 1) = At(sent, 0, inbound, 1)
    BY <1>7, FramedArrival
  <2> QED BY <1>3, <1>5, <1>6, <2>1
<1>9. N <= Len(sent') /\ Len(sent') > 0 /\ cut' < RequestLen(sent'[Len(sent')])
  BY <1>2, <1>3, <1>4, <1>5
<1>10. \A k \in 1 .. Len(inbound') : inbound'[k][1] \in 1 .. Len(sent')
  BY <1>8 DEF Framed
<1> QED BY <1>1, <1>3, <1>8, <1>9, <1>10, ArrivalStep DEF NextWord

\* The rest of a cut request arrives.
LEMMA RestArrivesStep ==
  ASSUME SessionInv, RestArrives
  PROVE  SessionInv'
<1> DEFINE N == Len(sent)  T == RequestLen(sent[N])
<1>1. /\ conn = "up" /\ cut > 0 /\ cut' = 0
      /\ inbound' = inbound \o Words(N, T - cut + 1, T)
      /\ UNCHANGED <<seq, pc, conn, sent, req, todo, pushed, short>>
  BY DEF RestArrives, vars, RequestLen
<1>2. SessionTypes /\ sent \in Seq(Requests) /\ inbound \in Seq(Nat \X Nat)
      /\ N \in Nat /\ cut \in Nat
  BY <1>1, LenProperties DEF SessionInv, SessionTypes
<1>3. N > 0 /\ cut < T /\ T \in Nat
  <2>1. N > 0 /\ cut < T
    BY <1>1, <1>2 DEF SessionTypes
  <2> QED BY <1>2, <2>1, ElementOfSeq, RequestLens
<1> DEFINE from == T - cut + 1
<1>4. inbound' = inbound \o Words(N, from, T)
  BY <1>1
<1>5. Upcoming(sent, cut) = <<N, from>>
  BY <1>1 DEF Upcoming
<1> HIDE DEF T, N
<1>6. /\ from \in Nat \ {0} /\ cut \in Nat \ {0} /\ from + cut - 1 = T
      /\ from + cut - 1 <= T /\ T - (from + cut - 1) = 0 /\ from <= T + 1
  BY <1>1, <1>2, <1>3
<1> HIDE DEF from
<1>7. inbound' \in Seq(Nat \X Nat) /\ \A k \in 1 .. Len(inbound') : inbound'[k][1] \in 1 .. N
  <2>1. N \in Nat /\ T \in Nat /\ from \in Nat /\ 0 < from /\ from <= T + 1
    BY <1>2, <1>3, <1>6
  <2> DEFINE new == Words(N, from, T)
  <2>2. new \in Seq(Nat \X Nat) /\ Len(new) = T - from + 1
        /\ \A i \in 1 .. T - from + 1 : new[i] = <<N, from + i - 1>>
    BY <2>1, WordsOf
  <2> HIDE DEF new
  <2>3. \A i \in 1 .. Len(new) : new[i][1] = N
    BY <2>2
  <2>4. /\ inbound' \in Seq(Nat \X Nat) /\ Len(inbound') = Len(inbound) + Len(new)
        /\ \A k \in 1 .. Len(inbound) + Len(new) :
             inbound'[k] = IF k <= Len(inbound) THEN inbound[k] ELSE new[k - Len(inbound)]
    <3>1. inbound' = inbound \o new
      BY <1>4 DEF new
    <3> QED BY <1>2, <2>2, <3>1, ConcatProperties
  <2>5. Len(inbound) \in Nat /\ Len(new) \in Nat
    BY <1>2, <2>2, LenProperties
  <2>6. ASSUME NEW k \in 1 .. Len(inbound') PROVE inbound'[k][1] \in 1 .. N
    <3>1. CASE k <= Len(inbound)
      <4>1. inbound'[k] = inbound[k] /\ k \in 1 .. Len(inbound)
        BY <2>4, <2>5, <3>1
      <4> QED BY <1>2, <4>1 DEF SessionTypes, N
    <3>2. CASE k > Len(inbound)
      <4>1. inbound'[k] = new[k - Len(inbound)] /\ k - Len(inbound) \in 1 .. Len(new)
        BY <2>4, <2>5, <3>2
      <4> QED BY <1>2, <1>3, <2>3, <4>1
    <3> QED BY <2>4, <2>5, <3>1, <3>2
  <2> QED BY <2>4, <2>6
<1>8. ASSUME ~Slipped
      PROVE  /\ Framed(sent, 0, inbound')
             /\ At(sent, 0, inbound', 1) = At(sent, cut, inbound, 1)
  <2>1. Framed(sent, cut, inbound)
    BY <1>1, <1>8 DEF SessionInv, InStream
  <2>2. Arriving(sent, sent, cut, inbound, from, cut)
    BY <1>2, <1>3, <1>6, <1>5, <2>1 DEF Arriving, T, N
  <2>3. LET all  == inbound \o Words(Len(sent), from, from + cut - 1)
            left == RequestLen(sent[Len(sent)]) - (from + cut - 1)
        IN  /\ all \in Seq(Nat \X Nat) /\ left \in Nat
            /\ Framed(sent, left, all)
            /\ At(sent, left, all, 1) = At(sent, cut, inbound, 1)
    BY <2>2, FramedArrival
  <2> QED BY <1>6, <1>4, <2>3 DEF T, N
<1>9. N <= N /\ ~(0 > 0)
  BY <1>2
<1> QED BY <1>1, <1>2, <1>7, <1>8, <1>9, ArrivalStep DEF NextWord, N
-----------------------------------------------------------------------------
\* What a recv of n words finds and leaves.
LEMMA RecvTakes ==
  ASSUME SessionTypes, NEW n \in Nat \ {0}, Recv(n)
  PROVE  \E m \in 0 .. n :
           /\ m <= Len(inbound) /\ (m < n => m = Len(inbound))
           /\ Received(n) = SubSeq(inbound, 1, m) /\ Len(Received(n)) = m
           /\ inbound' = SubSeq(inbound, m + 1, Len(inbound))
           /\ short' = (short \/ m \notin (IF pc = "header" THEN {0, n} ELSE {n}))
<1> DEFINE L == Len(inbound)
           m == IF L < n THEN L ELSE n
<1>1. L \in Nat /\ inbound \in Seq(Nat \X Nat)
  BY LenProperties DEF SessionTypes
<1>2. m \in 0 .. n /\ m <= L /\ (m < n => m = L)
  BY <1>1
<1>3. Received(n) = SubSeq(inbound, 1, m)
  BY DEF Received
<1> HIDE DEF m
<1>4. Len(Received(n)) = m
  <2>1. \A i \in 1 .. m : inbound[i] \in Nat \X Nat
    BY <1>1, <1>2, ElementOfSeq
  <2>2. Len(SubSeq(inbound, 1, m)) = IF 1 <= m THEN m - 1 + 1 ELSE 0
    BY <1>2, <2>1, SubSeqProperties
  <2> QED BY <1>2, <1>3, <2>2
<1>5. /\ inbound' = SubSeq(inbound, m + 1, L)
      /\ short' = (short \/ m \notin (IF pc = "header" THEN {0, n} ELSE {n}))
  BY <1>4 DEF Recv
<1> QED BY <1>2, <1>3, <1>4, <1>5

\* What is left are words of the client's requests.
LEMMA RecvTypes ==
  ASSUME SessionTypes, sent' = sent, NEW n \in Nat \ {0}, Recv(n)
  PROVE  /\ inbound' \in Seq(Nat \X Nat) /\ short' \in BOOLEAN /\ (short => short')
         /\ \A k \in 1 .. Len(inbound') : inbound'[k][1] \in 1 .. Len(sent')
<1>1. PICK m \in 0 .. n :
        /\ m <= Len(inbound) /\ inbound' = SubSeq(inbound, m + 1, Len(inbound))
        /\ short' = (short \/ m \notin (IF pc = "header" THEN {0, n} ELSE {n}))
  BY RecvTakes
<1> DEFINE L == Len(inbound)
<1>2. L \in Nat /\ m \in Nat /\ inbound \in Seq(Nat \X Nat)
  BY LenProperties DEF SessionTypes
<1>3. /\ inbound' \in Seq(Nat \X Nat)
      /\ Len(inbound') = IF m + 1 <= L THEN L - (m + 1) + 1 ELSE 0
      /\ \A k \in 1 .. L - (m + 1) + 1 : inbound'[k] = inbound[(m + 1) + k - 1]
  <2>1. \A i \in m + 1 .. L : inbound[i] \in Nat \X Nat
    BY <1>2, ElementOfSeq
  <2> QED BY <1>1, <1>2, <2>1, SubSeqProperties
<1>4. ASSUME NEW k \in 1 .. Len(inbound') PROVE inbound'[k][1] \in 1 .. Len(sent')
  <2>1. k \in 1 .. L - (m + 1) + 1 /\ (m + 1) + k - 1 \in 1 .. L
    BY <1>1, <1>2, <1>3
  <2>2. inbound'[k] = inbound[(m + 1) + k - 1]
    BY <1>3, <2>1
  <2>3. \A j \in 1 .. L : inbound[j][1] \in 1 .. Len(sent)
    BY DEF SessionTypes
  <2> HIDE DEF L
  <2> QED BY <2>1, <2>2, <2>3
<1>5. short' \in BOOLEAN /\ (short => short')
  BY <1>1 DEF SessionTypes
<1> QED BY <1>3, <1>4, <1>5

\* The next n words are there, and are those of request r from its w-th on.
Waiting(n, r, w) ==
  /\ n \in Nat \ {0} /\ n <= Len(inbound)
  /\ r \in 1 .. Len(sent) /\ w \in Nat \ {0} /\ NextWord = <<r, w>>
  /\ w + n - 1 <= RequestLen(sent[r])

\* A recv finds them.
LEMMA RecvWhole ==
  ASSUME SessionTypes, InStream, NEW n, NEW r, NEW w, Waiting(n, r, w), Recv(n)
  PROVE  /\ Len(Received(n)) = n /\ RequestOf(Received(n), w) = r
         /\ Framed(sent, cut, inbound')
         /\ At(sent, cut, inbound', 1) =
              IF w + n - 1 < RequestLen(sent[r]) THEN <<r, w + n>> ELSE <<r + 1, 1>>
<1>0. n \in Nat \ {0} /\ n <= Len(inbound) /\ w \in Nat \ {0} /\ r \in 1 .. Len(sent)
  BY DEF Waiting
<1>1. /\ Received(n) = SubSeq(inbound, 1, n) /\ Len(Received(n)) = n
      /\ inbound' = SubSeq(inbound, n + 1, Len(inbound))
  <2>1. PICK m \in 0 .. n :
          /\ m <= Len(inbound) /\ (m < n => m = Len(inbound))
          /\ Received(n) = SubSeq(inbound, 1, m) /\ Len(Received(n)) = m
          /\ inbound' = SubSeq(inbound, m + 1, Len(inbound))
    BY <1>0, RecvTakes
  <2>2. m = n
    BY <1>0, <2>1, LenProperties DEF SessionTypes
  <2> QED BY <2>1, <2>2
<1>2. /\ sent \in Seq(Requests) /\ cut \in Nat /\ inbound \in Seq(Nat \X Nat)
      /\ Framed(sent, cut, inbound) /\ Len(inbound) \in Nat
  BY LenProperties DEF SessionTypes, InStream
<1>3. RequestLen(sent[r]) \in Nat /\ r \in Nat
  <2>1. sent[r] \in Requests /\ r \in Nat
    BY <1>0, <1>2, ElementOfSeq
  <2> QED BY <2>1, RequestLens
<1>4. Beginning(sent, cut, inbound, r, w, n)
  BY <1>2, <1>3 DEF Beginning, NextWord, Waiting
<1>5. /\ \A i \in 1 .. n : inbound[i] = <<r, w + i - 1>>
      /\ At(sent, cut, inbound, n + 1) =
           IF w + n - 1 < RequestLen(sent[r]) THEN <<r, w + n>> ELSE <<r + 1, 1>>
  <2>1. Begun(sent, cut, inbound, r, w, n)
    BY <1>4, FirstWords
  <2> QED BY <2>1 DEF Begun
<1>6. RequestOf(Received(n), w) = r
  <2> DEFINE got == SubSeq(inbound, 1, n)
  <2>1. \A i \in 1 .. n : inbound[i] \in Nat \X Nat
    BY <1>0, <1>2, ElementOfSeq
  <2>2. n - 1 + 1 = n /\ 1 <= n /\ \A i \in 1 .. n : 1 + i - 1 = i
    BY <1>0
  <2>3. /\ got \in Seq(Nat \X Nat) /\ Len(got) = IF 1 <= n THEN n - 1 + 1 ELSE 0
        /\ \A i \in 1 .. n - 1 + 1 : got[i] = inbound[1 + i - 1]
    BY <1>0, <2>1, SubSeqProperties
  <2> HIDE DEF got
  <2>4. got \in Seq(Nat \X Nat) /\ Len(got) = n /\ \A i \in 1 .. n : got[i] = <<r, w + i - 1>>
    BY <1>5, <2>2, <2>3
  <2>5. got # <<>> /\ got[1][1] = r
    BY <1>0, <2>4, EmptySeq
  <2>6. got = Words(r, w, w + Len(got) - 1)
    <3> DEFINE to == w + Len(got) - 1
    <3>1. to \in Nat /\ w <= to + 1 /\ to - w + 1 = n /\ 0 < w
      BY <1>0, <2>4
    <3>2. /\ Words(r, w, to) \in Seq(Nat \X Nat) /\ Len(Words(r, w, to)) = to - w + 1
          /\ \A i \in 1 .. to - w + 1 : Words(r, w, to)[i] = <<r, w + i - 1>>
      <4> HIDE DEF to
      <4>1. r \in Nat /\ w \in Nat /\ to \in Nat /\ 0 < w /\ w <= to + 1
        BY <1>0, <1>3, <3>1
      <4> QED BY <4>1, WordsOf
    <3> HIDE DEF to
    <3>3. got = Words(r, w, to)
      BY <2>4, <3>1, <3>2, SeqEqual
    <3> QED BY <3>3 DEF to
  <2>7. RequestOf(got, w) = r
    BY <2>5, <2>6 DEF RequestOf
  <2> QED BY <1>1, <2>7 DEF got
<1>7. /\ Framed(sent, cut, inbound')
      /\ At(sent, cut, inbound', 1) = At(sent, cut, inbound, n + 1)
  BY <1>0, <1>1, <1>2, FramedRest
<1> QED BY <1>1, <1>5, <1>6, <1>7
-----------------------------------------------------------------------------
\* Where a handler leaves the server: at a request or behind a header, or with
\* an answer to push for the request that was next.
Handled ==
  /\ Framed(sent, cut, inbound')
  /\ NextWord'[1] \in Nat /\ NextWord[1] <= NextWord'[1]
  /\ pc' \in {"send", "header"} => NextWord'[2] = 1
  /\ pc' = "push" => req' \in 1 .. Len(sent) /\ NextWord' = <<req' + 1, 1>>
  /\ pc' \in {"import", "command"} =>
       /\ req' \in 1 .. Len(sent) /\ NextWord' = <<req', HdrLen + 1>>
       /\ pc' = "import"  => sent[req'] \in {"import", "import_unknown"}
       /\ pc' = "command" => sent[req'] = "command"

\* A handler that took n words, all of them or few and marked short, keeps
\* the invariant if it goes on at the word behind them.
LEMMA HandledStep ==
  ASSUME SessionInv, pc # "push", conn \in {"up", "closed"},
         conn' \in {"up", "closed", "crashed"}, UNCHANGED <<seq, sent, cut, pushed>>,
         NEW n \in Nat \ {0}, Recv(n),
         pc' \in {"send", "header", "import", "command", "push"},
         req' \in Nat, todo' \in Seq(Nat),
         ~Slipped /\ ~short' => Handled
  PROVE  SessionInv'
<1>1. SessionTypes
  BY DEF SessionInv
<1>2. /\ inbound' \in Seq(Nat \X Nat) /\ short' \in BOOLEAN /\ (short => short')
      /\ \A k \in 1 .. Len(inbound') : inbound'[k][1] \in 1 .. Len(sent')
  BY <1>1, RecvTypes
<1>3. SessionTypes'
  BY <1>1, <1>2 DEF SessionTypes
<1>4. ASSUME ~Slipped' PROVE InStream' /\ Ordered'
  <2>1. ~Slipped /\ ~short'
    BY <1>2, <1>4 DEF Slipped
  <2>2. InStream /\ Ordered /\ Handled
    BY <2>1 DEF SessionInv
  <2>3. NextWord[1] \in Nat /\ NextWord'[1] \in Nat /\ NextWord[1] <= NextWord'[1]
    BY <1>1, <2>2, InStreamAnswered DEF Handled
  <2>4. \A i \in 1 .. Len(pushed) :
          pushed[i].to \in Nat /\ 1 <= pushed[i].to /\ pushed[i].to < NextWord[1]
    BY <1>1, <2>2, InStreamAnswered DEF InStream
  <2>5. \A i \in 1 .. Len(pushed) : 1 <= pushed[i].to /\ pushed[i].to < NextWord'[1]
    BY <2>3, <2>4
  <2>6. InStream'
    BY <2>2, <2>5 DEF InStream, Handled
  <2>8. Ordered'
    BY <2>2 DEF Ordered
  <2> QED BY <2>6, <2>8
<1> QED BY <1>3, <1>4 DEF SessionInv

\* The answers' parts (usbip_resp_devlist, usbip_handle_import, handle_urb_submit).
LEMMA AnswerParts ==
  /\ <<DevlistLen>> \in Seq(Nat)
  /\ <<HdrLen>> \o usb_dev_to_buf \in Seq(Nat)
  /\ \A parts \in handle_urb_submit \cup handle_urb_unlink : parts \in Seq(Nat)
<1>1. write_cmd_response_header \in Seq(Nat) /\ <<>> \in Seq(Nat)
  BY Lengths DEF write_cmd_response_header
<1>2. \A parts \in get_client_dev : parts \in Seq(Nat) /\ parts \o write_cmd_response_header \in Seq(Nat)
  BY <1>1, ConcatProperties DEF get_client_dev
<1>3. \A parts \in handle_urb_unlink : parts \in Seq(Nat)
  BY <1>2 DEF handle_urb_unlink
<1>4. \A parts \in handle_urb_submit : parts \in Seq(Nat)
  BY <1>2, <1>3 DEF handle_urb_submit
<1>5. <<DevlistLen>> \in Seq(Nat) /\ <<HdrLen>> \o usb_dev_to_buf \in Seq(Nat)
  BY Lengths DEF usb_dev_to_buf
<1> QED BY <1>3, <1>4, <1>5

\* What a header leads to (usbip_client_handle).
LEMMA DispatchCases ==
  ASSUME NEW kind, Dispatch(kind)
  PROVE  /\ kind = "devlist" => pc' = "push" /\ todo' = <<DevlistLen>>
         /\ kind = "import" => pc' = "import" /\ UNCHANGED todo
         /\ kind = "import_unknown" => pc' = "import" /\ UNCHANGED todo
         /\ kind = "command" => pc' = "command" /\ UNCHANGED todo
         /\ kind = "submit_out" => pc' = "command" /\ UNCHANGED todo
         /\ kind = "none" => pc' = "send" /\ UNCHANGED todo
<1>1. CASE kind = "devlist"
  BY <1>1 DEF Dispatch, Commands, usbip_resp_devlist, Reply
<1>2. CASE kind = "import"
  BY <1>2 DEF Dispatch, Commands
<1>3. CASE kind = "import_unknown"
  BY <1>3 DEF Dispatch, Commands
<1>4. CASE kind = "command"
  BY <1>4 DEF Dispatch, Commands
<1>5. CASE kind = "submit_out"
  BY <1>5 DEF Dispatch, Commands
<1>6. CASE kind = "none"
  BY <1>6 DEF Dispatch, Commands, Return
<1> QED BY <1>1, <1>2, <1>3, <1>4, <1>5, <1>6

\* The request that words received are taken for is one of the client's, or none.
LEMMA RequestOfType ==
  ASSUME SessionTypes, NEW n \in Nat \ {0}, NEW from, Recv(n)
  PROVE  RequestOf(Received(n), from) \in 0 .. Len(sent)
<1> DEFINE got == Received(n)
<1>1. PICK m \in 0 .. n : m <= Len(inbound) /\ got = SubSeq(inbound, 1, m) /\ Len(got) = m
  BY RecvTakes
<1>2. inbound \in Seq(Nat \X Nat) /\ Len(inbound) \in Nat /\ Len(sent) \in Nat
      /\ \A k \in 1 .. Len(inbound) : inbound[k][1] \in 1 .. Len(sent)
  BY LenProperties DEF SessionTypes
<1>3. m > 0 => got[1] = inbound[1] /\ 1 \in 1 .. Len(inbound)
  <2> SUFFICES ASSUME m > 0 PROVE got[1] = inbound[1] /\ 1 \in 1 .. Len(inbound)
    OBVIOUS
  <2>1. \A i \in 1 .. m : inbound[i] \in Nat \X Nat
    BY <1>1, <1>2, ElementOfSeq
  <2>2. \A i \in 1 .. m - 1 + 1 : SubSeq(inbound, 1, m)[i] = inbound[1 + i - 1]
    BY <2>1, SubSeqProperties
  <2>3. 1 \in 1 .. m - 1 + 1 /\ 1 + 1 - 1 = 1 /\ 1 \in 1 .. Len(inbound)
    BY <1>1, <1>2
  <2> QED BY <1>1, <2>2, <2>3
<1>4. m = 0 => got = <<>>
  BY <1>1, <1>2, SubSeqEmpty
<1> HIDE DEF got
<1>5. CASE m = 0
  BY <1>2, <1>4, <1>5 DEF RequestOf, got
<1>6. CASE m > 0
  <2>1. got[1][1] \in 1 .. Len(sent)
    BY <1>2, <1>3, <1>6
  <2>2. got # <<>>
    BY <1>1, <1>6, EmptySeq
  <2> QED BY <1>2, <2>1, <2>2 DEF RequestOf, got
<1> QED BY <1>5, <1>6

\* The header is taken, and its kind of request dispatched (usbip_recv).
LEMMA RecvHeaderStep ==
  ASSUME SessionInv, RecvHeader
  PROVE  SessionInv'
<1>1. /\ pc = "header" /\ Recv(HdrLen) /\ req' = RequestOf(Received(HdrLen), 1)
      /\ UNCHANGED <<seq, conn, sent, cut, pushed>>
      /\ conn \in {"up", "closed"} /\ SessionTypes /\ HdrLen \in Nat \ {0}
  BY Lengths DEF RecvHeader, vars, Recv, SessionInv
<1>2. req' \in 0 .. Len(sent) /\ Len(sent) \in Nat /\ sent \in Seq(Requests)
  BY <1>1, RequestOfType, LenProperties DEF SessionTypes
<1>3. \/ \E kind \in KindsOf(req') : Dispatch(kind) /\ Len(Received(HdrLen)) = HdrLen
      \/ Return /\ Len(Received(HdrLen)) # HdrLen
  BY DEF RecvHeader
<1>4. \A kind \in KindsOf(req') :
        kind \in {"devlist", "import", "import_unknown", "command", "submit_out", "none"}
  <2>1. CASE req' = 0
    BY <2>1 DEF KindsOf
  <2>2. CASE req' # 0
    <3>1. sent[req'] \in Requests
      BY <1>2, <2>2, ElementOfSeq
    <3>2. KindsOf(req') = {sent[req']}
      BY <2>2 DEF KindsOf
    <3> QED BY <1>1, <3>1, <3>2, RequestLens
  <2> QED BY <2>1, <2>2
<1>5. /\ pc' \in {"send", "header", "import", "command", "push"} /\ todo' \in Seq(Nat)
      /\ req' \in Nat
  <2>1. todo \in Seq(Nat)
    BY <1>1 DEF SessionTypes
  <2>2. CASE Return
    BY <1>2, <2>1, <2>2 DEF Return
  <2>3. CASE \E kind \in KindsOf(req') : Dispatch(kind)
    <3>1. PICK kind \in KindsOf(req') : Dispatch(kind)
      BY <2>3
    <3>2. pc' \in {"send", "import", "command", "push"} /\ (todo' = todo \/ todo' = <<DevlistLen>>)
      BY <1>4, <3>1, DispatchCases
    <3>3. <<DevlistLen>> \in Seq(Nat)
      BY AnswerParts
    <3>4. todo' \in Seq(Nat)
      BY <2>1, <3>2, <3>3
    <3> QED BY <1>2, <3>2, <3>4
  <2> QED BY <1>3, <2>2, <2>3
<1>6. ASSUME ~Slipped, ~short' PROVE Handled
  <2>1. InStream
    BY <1>1, <1>6 DEF SessionInv
  <2>2. PICK m \in 0 .. HdrLen :
          /\ m <= Len(inbound) /\ (m < HdrLen => m = Len(inbound))
          /\ Len(Received(HdrLen)) = m
          /\ inbound' = SubSeq(inbound, m + 1, Len(inbound))
          /\ short' = (short \/ m \notin (IF pc = "header" THEN {0, HdrLen} ELSE {HdrLen}))
    BY <1>1, RecvTakes
  <2>3. m \in {0, HdrLen}
    BY <1>1, <1>6, <2>2
  <2>4. NextWord[1] \in Nat /\ NextWord[1] <= Len(sent) + 1 /\ NextWord[2] = 1
    BY <1>1, <2>1, InStreamAnswered DEF InStream
  <2>5. CASE m = 0
    <3>1. Return
      BY <1>1, <1>3, <2>2, <2>5
    <3>2. Framed(sent, cut, inbound') /\ NextWord' = NextWord
      <4>1. inbound \in Seq(Nat \X Nat) /\ Framed(sent, cut, inbound) /\ 0 <= Len(inbound)
        BY <1>1, <2>1, LenProperties DEF SessionTypes, InStream
      <4>2. inbound' = SubSeq(inbound, 0 + 1, Len(inbound))
        BY <2>2, <2>5
      <4>3. /\ Framed(sent, cut, inbound')
            /\ At(sent, cut, inbound', 1) = At(sent, cut, inbound, 0 + 1)
        BY <4>1, <4>2, FramedRest
      <4> QED BY <1>1, <4>3 DEF NextWord
    <3> QED BY <2>4, <3>1, <3>2 DEF Handled, Return
  <2>6. CASE m = HdrLen
    <3> DEFINE q == inbound[1][1]
    <3>1. /\ HdrLen <= Len(inbound) /\ q \in 1 .. Len(sent) /\ NextWord = <<q, 1>>
          /\ Len(inbound) \in Nat
      <4>1. 1 \in 1 .. Len(inbound) /\ HdrLen <= Len(inbound) /\ Len(inbound) \in Nat
        BY <1>1, <2>2, <2>6, LenProperties DEF SessionTypes
      <4>2. NextWord = inbound[1] /\ q \in 1 .. Len(sent)
        BY <1>1, <4>1 DEF NextWord, At, SessionTypes
      <4>3. inbound[1] \in Nat \X Nat
        BY <1>1, <4>1, ElementOfSeq DEF SessionTypes
      <4> QED BY <2>4, <4>1, <4>2, <4>3
    <3> HIDE DEF q
    <3>2. /\ sent[q] \in {"devlist", "import", "import_unknown", "command"}
          /\ RequestLen(sent[q]) \in Nat /\ RequestLen(sent[q]) >= HdrLen
          /\ sent[q] = "devlist" <=> RequestLen(sent[q]) = HdrLen
      <4>1. sent[q] \in Requests /\ sent[q] # "submit_out"
        BY <1>2, <1>6, <3>1, ElementOfSeq, LenProperties DEF Slipped
      <4> QED BY <4>1, Lengths, RequestLens
    <3>3. Waiting(HdrLen, q, 1)
      BY <1>1, <3>1, <3>2 DEF Waiting
    <3>4. /\ RequestOf(Received(HdrLen), 1) = q
          /\ Framed(sent, cut, inbound')
          /\ At(sent, cut, inbound', 1) =
               IF 1 + HdrLen - 1 < RequestLen(sent[q]) THEN <<q, 1 + HdrLen>> ELSE <<q + 1, 1>>
      BY <1>1, <2>1, <3>3, RecvWhole
    <3>5. req' = q /\ NextWord' = IF sent[q] = "devlist" THEN <<q + 1, 1>> ELSE <<q, HdrLen + 1>>
      BY <1>1, <3>2, <3>4 DEF NextWord
    <3>6. Dispatch(sent[q])
      <4>1. KindsOf(req') = {sent[q]}
        BY <3>1, <3>5 DEF KindsOf
      <4> QED BY <1>1, <1>3, <2>2, <2>6, <4>1
    <3>7. NextWord[1] = q /\ q \in Nat
      BY <1>2, <3>1
    <3>8. CASE sent[q] = "devlist"
      <4>1. pc' = "push" /\ todo' = <<DevlistLen>> /\ NextWord' = <<q + 1, 1>>
        BY <3>5, <3>6, <3>8, DispatchCases
      <4> QED BY <3>1, <3>4, <3>5, <3>7, <4>1 DEF Handled
    <3>9. CASE sent[q] \in {"import", "import_unknown"}
      <4>1. pc' = "import" /\ NextWord' = <<q, HdrLen + 1>>
        BY <3>5, <3>6, <3>9, DispatchCases
      <4> QED BY <3>1, <3>4, <3>5, <3>7, <3>9, <4>1 DEF Handled
    <3>10. CASE sent[q] = "command"
      <4>1. pc' = "command" /\ NextWord' = <<q, HdrLen + 1>>
        BY <3>5, <3>6, <3>10, DispatchCases
      <4> QED BY <3>1, <3>4, <3>5, <3>7, <3>10, <4>1 DEF Handled
    <3> QED BY <3>2, <3>8, <3>9, <3>10
  <2> QED BY <2>3, <2>5, <2>6
<1> QED BY <1>1, <1>5, <1>6, HandledStep

\* The bus id is taken, and the answer prepared (usbip_handle_import).
LEMMA ImportStep ==
  ASSUME SessionInv, usbip_handle_import
  PROVE  SessionInv'
<1>1. /\ pc = "import" /\ Recv(BusidLen)
      /\ UNCHANGED <<seq, conn, sent, cut, req, pushed>>
      /\ conn \in {"up", "closed"} /\ SessionTypes /\ BusidLen \in Nat \ {0}
  BY Lengths DEF usbip_handle_import, vars, Recv, SessionInv
<1>2. sent \in Seq(Requests) /\ Len(sent) \in Nat /\ req' \in Nat /\ todo \in Seq(Nat)
      /\ inbound \in Seq(Nat \X Nat) /\ Len(inbound) \in Nat
  BY <1>1, LenProperties DEF SessionTypes
<1>3. \/ Return
      \/ Received(BusidLen) # <<>> /\ Reply(<<HdrLen>> \o usb_dev_to_buf)
  BY DEF usbip_handle_import, Found
<1>4. pc' \in {"send", "header", "import", "command", "push"} /\ todo' \in Seq(Nat)
  <2>1. <<HdrLen>> \o usb_dev_to_buf \in Seq(Nat)
    BY AnswerParts
  <2> QED BY <1>2, <1>3, <2>1 DEF Return, Reply
<1>5. ASSUME ~Slipped, ~short' PROVE Handled
  <2>1. InStream
    BY <1>1, <1>5 DEF SessionInv
  <2>2. /\ req \in 1 .. Len(sent) /\ NextWord = <<req, HdrLen + 1>>
        /\ sent[req] \in {"import", "import_unknown"}
    BY <1>1, <2>1 DEF InStream
  <2>3. BusidLen <= Len(inbound) /\ Received(BusidLen) # <<>>
    <3>1. PICK m \in 0 .. BusidLen :
            /\ m <= Len(inbound) /\ Len(Received(BusidLen)) = m
            /\ short' = (short \/ m \notin (IF pc = "header" THEN {0, BusidLen} ELSE {BusidLen}))
      BY <1>1, RecvTakes
    <3>2. m = BusidLen
      BY <1>1, <1>5, <3>1
    <3> QED BY <1>1, <3>1, <3>2, EmptySeq
  <2>4. RequestLen(sent[req]) = HdrLen + BusidLen
    BY <1>2, <2>2, ElementOfSeq, RequestLens
  <2>5. HdrLen + 1 \in Nat \ {0} /\ (HdrLen + 1) + BusidLen - 1 = HdrLen + BusidLen
    BY Lengths
  <2>6. Waiting(BusidLen, req, HdrLen + 1)
    <3>1. HdrLen + BusidLen <= HdrLen + BusidLen
      BY Lengths
    <3> QED BY <1>1, <2>2, <2>3, <2>4, <2>5, <3>1 DEF Waiting
  <2>7. /\ Len(Received(BusidLen)) = BusidLen /\ RequestOf(Received(BusidLen), HdrLen + 1) = req
        /\ Framed(sent, cut, inbound')
        /\ At(sent, cut, inbound', 1) =
             IF (HdrLen + 1) + BusidLen - 1 < RequestLen(sent[req])
             THEN <<req, (HdrLen + 1) + BusidLen>> ELSE <<req + 1, 1>>
    BY <1>1, <2>1, <2>6, RecvWhole
  <2>8. NextWord' = <<req + 1, 1>> /\ NextWord[1] = req /\ req \in Nat
    <3>1. ~(HdrLen + BusidLen < HdrLen + BusidLen)
      BY Lengths
    <3>2. At(sent, cut, inbound', 1) = <<req + 1, 1>>
      BY <2>4, <2>5, <2>7, <3>1
    <3> QED BY <1>1, <1>2, <2>2, <3>2 DEF NextWord
  <2>9. CASE Return
    BY <2>7, <2>8, <2>9 DEF Handled, Return
  <2>10. CASE Reply(<<HdrLen>> \o usb_dev_to_buf)
    <3>1. pc' = "push"
      BY <2>10 DEF Reply
    <3> QED BY <1>1, <2>2, <2>7, <2>8, <3>1 DEF Handled
  <2> QED BY <1>3, <2>9, <2>10
<1> QED BY <1>1, <1>2, <1>4, <1>5, HandledStep

\* The rest of a command is taken (usbip_handle_cmd).
LEMMA CommandStep ==
  ASSUME SessionInv, RecvCommand
  PROVE  SessionInv'
<1> DEFINE n == CmdLen - HdrLen
<1>1. /\ pc = "command" /\ Recv(n)
      /\ UNCHANGED <<seq, sent, cut, req, pushed>>
      /\ conn \in {"up", "closed"} /\ conn' \in {conn, "crashed"} /\ SessionTypes
  BY DEF RecvCommand, vars, Recv, SessionInv
<1>a. n \in Nat \ {0} /\ HdrLen + n = CmdLen
  BY Lengths
<1>2. sent \in Seq(Requests) /\ Len(sent) \in Nat /\ req' \in Nat /\ todo \in Seq(Nat)
      /\ inbound \in Seq(Nat \X Nat) /\ Len(inbound) \in Nat
  BY <1>1, LenProperties DEF SessionTypes
<1>3. Return \/ \E parts \in handle_urb_submit \cup handle_urb_unlink : Reply(parts)
  BY DEF RecvCommand
<1> HIDE DEF n
<1>4. pc' \in {"send", "push"} /\ todo' \in Seq(Nat)
  <2>1. CASE Return
    BY <1>2, <2>1 DEF Return
  <2>2. CASE \E parts \in handle_urb_submit \cup handle_urb_unlink : Reply(parts)
    <3>1. PICK parts \in handle_urb_submit \cup handle_urb_unlink : Reply(parts)
      BY <2>2
    <3> QED BY <3>1, AnswerParts DEF Reply
  <2> QED BY <1>3, <2>1, <2>2
<1>5. ASSUME ~Slipped, ~short' PROVE Handled
  <2>1. InStream
    BY <1>1, <1>5 DEF SessionInv
  <2>2. req \in 1 .. Len(sent) /\ NextWord = <<req, HdrLen + 1>> /\ sent[req] = "command"
    BY <1>1, <2>1 DEF InStream
  <2>3. n <= Len(inbound)
    <3>1. PICK m \in 0 .. n :
            /\ m <= Len(inbound)
            /\ short' = (short \/ m \notin (IF pc = "header" THEN {0, n} ELSE {n}))
      BY <1>1, <1>a, RecvTakes
    <3> QED BY <1>1, <1>5, <3>1
  <2>4. RequestLen(sent[req]) = CmdLen
    BY <1>2, <2>2, ElementOfSeq, RequestLens
  <2>5. /\ HdrLen + 1 \in Nat \ {0} /\ (HdrLen + 1) + n - 1 = CmdLen
        /\ CmdLen <= CmdLen /\ ~(CmdLen < CmdLen)
    BY <1>a, Lengths
  <2>6. Waiting(n, req, HdrLen + 1)
    BY <1>a, <2>2, <2>3, <2>4, <2>5 DEF Waiting
  <2>7. /\ Framed(sent, cut, inbound')
        /\ At(sent, cut, inbound', 1) =
             IF (HdrLen + 1) + n - 1 < RequestLen(sent[req])
             THEN <<req, (HdrLen + 1) + n>> ELSE <<req + 1, 1>>
    BY <1>1, <2>1, <2>6, RecvWhole
  <2>8. NextWord' = <<req + 1, 1>> /\ NextWord[1] = req /\ req \in Nat
    <3>1. At(sent, cut, inbound', 1) = <<req + 1, 1>>
      BY <2>4, <2>5, <2>7
    <3> QED BY <1>1, <1>2, <2>2, <3>1 DEF NextWord
  <2> QED BY <1>1, <1>4, <2>2, <2>7, <2>8 DEF Handled
<1> QED BY <1>1, <1>a, <1>2, <1>4, <1>5, HandledStep
-----------------------------------------------------------------------------
\* One more part of the answer is pushed.
LEMMA PushReplyStep ==
  ASSUME SessionInv, PushReply
  PROVE  SessionInv'
<1> DEFINE push == [to |-> req, ok |-> ret'.val > 0, at |-> seq']
<1>1. /\ pc = "push" /\ todo # <<>> /\ todo' = Tail(todo) /\ pushed' = Append(pushed, push)
      /\ UNCHANGED <<pc, conn, sent, cut, inbound, req, short>> /\ SessionTypes
      /\ stream_fifo_push(Head(todo))
  BY DEF PushReply, SessionInv
<1>2. todo \in Seq(Nat) /\ Head(todo) \in Nat /\ Tail(todo) \in Seq(Nat)
      /\ Len(Tail(todo)) = Len(todo) - 1 /\ Len(todo) \in Nat
  BY <1>1, HeadTailProperties, LenProperties DEF SessionTypes
<1>3. seq' \in Int
  BY <1>1, <1>2 DEF stream_fifo_push, SessionTypes
<1>4. push \in [to : Nat, ok : BOOLEAN, at : Int] /\ push.to = req
  BY <1>1, <1>3 DEF SessionTypes
<1> HIDE DEF push
<1> DEFINE P == Len(pushed)
<1>5. /\ pushed' \in Seq([to : Nat, ok : BOOLEAN, at : Int]) /\ Len(pushed') = P + 1
      /\ \A i \in 1 .. P : pushed'[i] = pushed[i]
      /\ pushed'[P + 1] = push /\ P \in Nat
      /\ DOMAIN pushed' = 1 .. P + 1 /\ DOMAIN pushed = 1 .. P
  <2>1. pushed \in Seq([to : Nat, ok : BOOLEAN, at : Int])
    BY <1>1 DEF SessionTypes
  <2> QED BY <1>1, <1>4, <2>1, AppendProperties, LenProperties
<1>6. SessionTypes'
  BY <1>1, <1>2, <1>3, <1>5 DEF SessionTypes
<1> HIDE DEF P
<1>7. ASSUME ~Slipped' PROVE InStream' /\ Ordered'
  <2>1. conn # "stopped"
    BY <1>1 DEF SessionInv, Answered
  <2>2. InStream /\ Ordered
    BY <1>1, <1>7, <2>1 DEF SessionInv, Slipped
  <2>3. NextWord' = NextWord /\ req \in 1 .. Len(sent) /\ NextWord = <<req + 1, 1>> /\ req \in Nat
    BY <1>1, <2>2 DEF InStream, NextWord, SessionTypes
  <2>4. \A i \in 1 .. P : pushed[i].to \in Nat /\ 1 <= pushed[i].to /\ pushed[i].to <= req
    BY <1>1, <2>2, <2>3, InStreamAnswered DEF InStream, P
  <2>5. ASSUME NEW i \in 1 .. P + 1
        PROVE  pushed'[i].to \in Nat /\ 1 <= pushed'[i].to /\ pushed'[i].to <= req
    <3>1. CASE i = P + 1
      BY <1>4, <1>5, <2>3, <3>1
    <3>2. CASE i \in 1 .. P
      BY <1>5, <2>4, <3>2
    <3> QED BY <1>5, <3>1, <3>2
  <2>6. InStream'
    <3>1. \A i \in 1 .. Len(pushed') : 1 <= pushed'[i].to /\ pushed'[i].to < NextWord'[1]
      BY <1>5, <2>3, <2>5
    <3> QED BY <1>1, <2>2, <2>3, <3>1 DEF InStream
  <2>7. Ordered'
    <3> SUFFICES ASSUME NEW i \in 1 .. P + 1, NEW j \in 1 .. i
                 PROVE  pushed'[j].to <= pushed'[i].to
      BY <1>5 DEF Ordered
    <3>1. CASE i = P + 1
      <4>1. pushed'[i].to = req /\ j \in 1 .. P + 1
        BY <1>4, <1>5, <3>1
      <4> QED BY <2>5, <4>1
    <3>2. CASE i \in 1 .. P
      <4>1. pushed'[i] = pushed[i] /\ pushed'[j] = pushed[j]
        BY <1>5, <3>2
      <4> QED BY <2>2, <3>2, <4>1 DEF Ordered, P
    <3> QED BY <1>5, <3>1, <3>2
  <2> QED BY <2>6, <2>7
<1>8. conn # "stopped"
  BY <1>1 DEF SessionInv, Answered
<1> QED BY <1>1, <1>6, <1>7, <1>8 DEF SessionInv
-----------------------------------------------------------------------------
\* At first nothing was sent.
LEMMA SessionInvInit == SessionInit => SessionInv
<1> SUFFICES ASSUME SessionInit PROVE SessionInv
  OBVIOUS
<1>1. /\ pc = "send" /\ conn = "up" /\ sent = <<>> /\ cut = 0 /\ inbound = <<>> /\ req = 0
      /\ todo = <<>> /\ pushed = <<>> /\ short = FALSE /\ seq = 0
  BY DEF SessionInit, Init
<1>2. Len(<<>>) = 0 /\ 1 .. 0 = {}
  OBVIOUS
<1>3. SessionTypes
  <2>1. /\ <<>> \in Seq(Requests) /\ <<>> \in Seq(Nat \X Nat) /\ <<>> \in Seq(Nat)
        /\ <<>> \in Seq([to : Nat, ok : BOOLEAN, at : Int]) /\ ~(0 > 0)
    BY EmptySeq
  <2>2. /\ sent \in Seq(Requests) /\ inbound \in Seq(Nat \X Nat) /\ todo \in Seq(Nat)
        /\ pushed \in Seq([to : Nat, ok : BOOLEAN, at : Int])
    BY <1>1, <2>1
  <2>3. ~(cut > 0) /\ 1 .. Len(inbound) = {}
    BY <1>1, <1>2
  <2>4. pc = "send" /\ conn = "up" /\ short = FALSE /\ cut \in Nat /\ req \in Nat /\ seq \in Int
    BY <1>1
  <2> QED BY <2>2, <2>3, <2>4 DEF SessionTypes
<1>4. InStream
  <2>1. Framed(sent, cut, inbound) /\ NextWord = <<1, 1>>
    BY <1>1, FramedInit DEF NextWord
  <2> QED BY <1>1, <1>2, <2>1 DEF InStream
<1>5. Ordered
  BY <1>1, <1>2 DEF Ordered
<1> QED BY <1>1, <1>3, <1>4, <1>5 DEF SessionInv

\* Every step of the client, the network and the server keeps the invariant.
LEMMA SessionInvStep == SessionInv /\ [SessionNext]_allvars => SessionInv'
<1> SUFFICES ASSUME SessionInv, [SessionNext]_allvars PROVE SessionInv'
  OBVIOUS
<1>0. conn = "stopped" => pc = "send"
  BY DEF SessionInv, Answered
<1>1. CASE \E kind \in Requests : ClientRequests(kind)
  BY <1>1, ClientRequestsStep
<1>2. CASE RestArrives
  BY <1>2, RestArrivesStep
<1>3. CASE ConnectionEnds
  BY <1>3, OtherSteps DEF ConnectionEnds, vars
<1>4. CASE SendQueued
  <2>1. UNCHANGED seq
    BY <1>4 DEF SendQueued, stream_fifo_send_sock, vars
  <2> QED BY <1>4, <2>1, OtherSteps DEF SendQueued
<1>5. CASE SendOnBroken
  <2>1. CASE Stop
    BY <1>5, <2>1, Stopping DEF SendOnBroken, vars
  <2>2. CASE conn' = "killed" /\ pc' = "send" /\ UNCHANGED inbound
    BY <1>5, <2>2, OtherSteps DEF SendOnBroken, vars
  <2>3. CASE pc' = "header" /\ UNCHANGED <<conn, inbound>>
    BY <1>5, <2>3, OtherSteps DEF SendOnBroken, vars
  <2> QED BY <1>5, <2>1, <2>2, <2>3 DEF SendOnBroken
<1>6. CASE RecvFails
  BY <1>6, Stopping DEF RecvFails, vars
<1>7. CASE RecvHeader
  BY <1>7, RecvHeaderStep
<1>8. CASE usbip_handle_import
  BY <1>8, ImportStep
<1>9. CASE RecvCommand
  BY <1>9, CommandStep
<1>10. CASE PushReply
  BY <1>10, PushReplyStep
<1>11. CASE HandlerReturns
  <2>1. conn \in {"up", "closed", "broken", "stopped", "killed", "crashed"}
    BY DEF SessionInv, SessionTypes
  <2> QED BY <1>0, <1>11, <2>1, OtherSteps DEF HandlerReturns, vars
<1>12. CASE fill_devlist
  BY <1>0, <1>12, OtherSteps DEF fill_devlist, vars
<1>13. CASE UNCHANGED allvars
  BY <1>13 DEF allvars, vars, session, SessionInv, SessionTypes, InStream, Ordered,
               Answered, NextWord, Slipped
<1> QED BY <1>1, <1>2, <1>3, <1>4, <1>5, <1>6, <1>7, <1>8, <1>9, <1>10, <1>11, <1>12, <1>13
        DEF SessionNext, usbip_client_handle

\* The invariant holds of every client's session.
THEOREM SessionInvariant == SessionSpec => []SessionInv
BY SessionInvInit, SessionInvStep, PTL DEF SessionSpec

\* For any requests, of any number and lengths, delivered in any parts, and any
\* moment at which the connection ends: a recv of a header is about to find the
\* first word of a request, and one of a body the word behind that header, as
\* long as framing is kept (usbip_client_handle).
THEOREM SessionInSync == SessionSpec => []InSync
<1>1. SessionInv => InSync
  <2> SUFFICES ASSUME SessionInv, ~Slipped, inbound # <<>>
               PROVE  /\ pc \in {"send", "header"} => Head(inbound)[2] = 1
                      /\ pc \in {"import", "command"} => Head(inbound) = <<req, HdrLen + 1>>
    BY DEF InSync
  <2>1. conn # "stopped" /\ InStream /\ inbound \in Seq(Nat \X Nat)
    BY DEF SessionInv, Answered, SessionTypes
  <2>2. Head(inbound) = inbound[1] /\ 1 <= Len(inbound)
    BY <2>1, HeadTailProperties, EmptySeq, LenProperties
  <2>3. NextWord = Head(inbound)
    BY <2>2 DEF NextWord, At
  <2> QED BY <2>1, <2>3 DEF InStream
<1> QED BY <1>1, SessionInvariant, PTL

\* Likewise, what is queued answers a request received to its last word, and
\* requests are answered in the order they were made.
THEOREM SessionAnswersRequests == SessionSpec => []AnswersRequests
<1>1. SessionInv => AnswersRequests
  <2> SUFFICES ASSUME SessionInv, ~Slipped, NEW i \in DOMAIN pushed
               PROVE  /\ pushed[i].to # 0
                      /\ ~\E k \in DOMAIN inbound : inbound[k][1] = pushed[i].to
                      /\ pushed[i].to = Len(sent) => cut = 0
                      /\ \A j \in 1 .. i - 1 : pushed[j].to <= pushed[i].to
    BY DEF AnswersRequests
  <2>1. SessionTypes /\ Ordered /\ DOMAIN pushed = 1 .. Len(pushed)
        /\ DOMAIN inbound = 1 .. Len(inbound) /\ Len(pushed) \in Nat
    BY LenProperties DEF SessionInv, SessionTypes
  <2>2. \A j \in 1 .. i - 1 : pushed[j].to <= pushed[i].to
    <3> SUFFICES ASSUME NEW j \in 1 .. i - 1 PROVE pushed[j].to <= pushed[i].to
      OBVIOUS
    <3>1. i \in 1 .. Len(pushed) /\ j \in 1 .. i
      BY <2>1
    <3> QED BY <2>1, <3>1 DEF Ordered
  <2>3. CASE conn = "stopped"
    <3>1. Answered /\ i \in 1 .. Len(pushed)
      BY <2>1, <2>3 DEF SessionInv
    <3>2. DOMAIN inbound = {}
      BY <3>1 DEF Answered
    <3> QED BY <2>2, <3>1, <3>2 DEF Answered
  <2>4. CASE conn # "stopped"
    <3>1. InStream
      BY <2>4 DEF SessionInv
    <3>2. /\ pushed[i].to \in 1 .. Len(sent)
          /\ \A k \in 1 .. Len(inbound) : inbound[k][1] # pushed[i].to
          /\ pushed[i].to = Len(sent) => cut = 0
      BY <2>1, <3>1, InStreamAnswered
    <3> QED BY <2>1, <2>2, <3>2
  <2> QED BY <2>3, <2>4
<1> QED BY <1>1, SessionInvariant, PTL

=============================================================================
