------------------------------ MODULE MsgFifo -------------------------------
(***************************************************************************)
(* The message queue of queue.c (msg_fifo_init, msg_fifo_push and          *)
(* msg_fifo_pop).  The items, each a header (its length and a pointer to   *)
(* the next item) and the bytes of a message, lie in a ring: the bytes of  *)
(* a message may be split around the end of the buffer, a header never is. *)
(*                                                                         *)
(* torn records whether a push was accepted that overwrites messages, or   *)
(* lets the next one do so.                                                *)
(*                                                                         *)
(* Addresses are offsets into the buffer.  The k-th byte of the m-th       *)
(* message accepted is <<"data", m, k>>, so that a lost, stale, repeated   *)
(* or overwritten byte shows.                                              *)
(***************************************************************************)
EXTENDS Integers, Sequences, FiniteSets

CONSTANTS BufLen,    \* buffer_len
          Word,      \* sizeof(size_t) and sizeof(void*)
          NULL,      \* the null pointer
          Lens,      \* bound: lengths of messages
          Rooms,     \* bound: lengths of the buffers messages are popped into
          MaxMsgs    \* bound: messages accepted

FIFO_HDR_LEN == 2 * Word
Offsets == 0 .. BufLen - 1

ASSUME MsgFifoAssumption ==
  /\ BufLen \in Nat /\ Word \in Nat \ {0} /\ BufLen > FIFO_HDR_LEN
  /\ Lens \subseteq Nat /\ Rooms \subseteq Nat /\ MaxMsgs \in Nat \ {0}
  /\ NULL \notin Offsets

VARIABLES head,        \* where the next item goes
          first, last, \* the oldest item and the youngest one
          mem,         \* the bytes of the buffer
          accepted,    \* messages accepted so far
          ret,         \* the last operation: its name, argument, result and the bytes it copied out
          torn         \* history, read by no step: a push that Tears was accepted

vars == <<head, first, last, mem, accepted, ret, torn>>

Op(name, arg, val, out) == [op |-> name, arg |-> arg, val |-> val, out |-> out]
Message(m, n) == [k \in 1 .. n |-> <<"data", m, k>>]

\* last and the buffer are not set: they hold anything, which nothing reads.
Init ==
  /\ head = 0 /\ first = NULL /\ last = NULL
  /\ mem = [c \in Offsets |-> <<"unset">>]
  /\ accepted = 0
  /\ ret = Op("msg_fifo_init", 0, 0, <<>>)
  /\ torn = FALSE
-----------------------------------------------------------------------------
\* The bytes of an item's header: its length, then the pointer to the next.
LenField(o)  == o .. o + Word - 1
NextField(o) == o + Word .. o + FIFO_HDR_LEN - 1

\* A message of n bytes would reach the end of the buffer.
Wraps(n) == head + n + FIFO_HDR_LEN >= BufLen

\* first_block_len
FirstBlock == BufLen - head

\* The header does not fit before the end: the item goes to the start.
Restarts(n) == Wraps(n) /\ FirstBlock < FIFO_HDR_LEN

\* Mutant of Full: a message may end where the first one begins.
FullLate(n) ==
  first # NULL /\ (IF Wraps(n) THEN n + FIFO_HDR_LEN - FirstBlock ELSE head + n + FIFO_HDR_LEN) > first

\* "We would overwrite the first message, do not insert."
Full(n) ==
  first # NULL /\ (IF Wraps(n) THEN n + FIFO_HDR_LEN - FirstBlock ELSE head + n + FIFO_HDR_LEN) >= first

\* Two kinds of push are accepted although they, or the push after them,
\* overwrite queued messages: one that starts again at the front, since
\* the new head leaves out the header, and one that reaches the end of the buffer
\* while the first message does not lie behind head.
Tears(n) == first # NULL /\ ~Full(n) /\ (Restarts(n) \/ (Wraps(n) /\ head <= first))

\* Where the item and its k-th byte go.
ItemAddr(n) == IF Restarts(n) THEN 0 ELSE head

\* Mutant of ByteAddr: the second part of a split message starts one byte late.
ByteAddrLate(n, k) ==
  IF Wraps(n) /\ ~Restarts(n) /\ k > FirstBlock - FIFO_HDR_LEN
  THEN k - (FirstBlock - FIFO_HDR_LEN)
  ELSE ItemAddr(n) + FIFO_HDR_LEN + k - 1

ByteAddr(n, k) ==
  IF Wraps(n) /\ ~Restarts(n) /\ k > FirstBlock - FIFO_HDR_LEN
  THEN k - (FirstBlock - FIFO_HDR_LEN) - 1
  ELSE ItemAddr(n) + FIFO_HDR_LEN + k - 1

\* Mutant of NewHead: the wrapped head counts the header as well.
NewHeadLong(n) ==
  IF Restarts(n) THEN n
  ELSE IF Wraps(n) THEN n + FIFO_HDR_LEN - (FirstBlock - FIFO_HDR_LEN)
  ELSE head + n + FIFO_HDR_LEN

NewHead(n) ==
  IF Restarts(n) THEN n
  ELSE IF Wraps(n) THEN n - (FirstBlock - FIFO_HDR_LEN)
  ELSE head + n + FIFO_HDR_LEN

\* The buffer with the new item, linked to the one before it.
Stored(n) ==
  [c \in Offsets |->
     IF first # NULL /\ c \in NextField(last) THEN <<"next", ItemAddr(n)>>
     ELSE IF \E k \in 1 .. n : c = ByteAddr(n, k)
          THEN <<"data", accepted + 1, CHOOSE k \in 1 .. n : c = ByteAddr(n, k)>>
     ELSE IF c \in LenField(ItemAddr(n)) THEN <<"len", n>>
     ELSE IF c \in NextField(ItemAddr(n)) THEN <<"next", NULL>>
     ELSE mem[c]]

PushTooLarge(n) ==
  /\ BufLen < n + FIFO_HDR_LEN
  /\ ret' = Op("msg_fifo_push", n, 0, <<>>)
  /\ UNCHANGED <<head, first, last, mem, accepted, torn>>

\* head has gone to the start already when the message is refused.
PushFull(n) ==
  /\ BufLen >= n + FIFO_HDR_LEN /\ Full(n)
  /\ head' = IF Restarts(n) THEN 0 ELSE head
  /\ ret' = Op("msg_fifo_push", n, 0, <<>>)
  /\ UNCHANGED <<first, last, mem, accepted, torn>>

PushInserts(n) ==
  /\ BufLen >= n + FIFO_HDR_LEN /\ ~Full(n) /\ accepted < MaxMsgs
  /\ mem' = Stored(n)
  /\ head' = NewHead(n)
  /\ first' = IF first = NULL THEN ItemAddr(n) ELSE first
  /\ last' = ItemAddr(n)
  /\ accepted' = accepted + 1
  /\ ret' = Op("msg_fifo_push", n, n, <<>>)
  /\ torn' = (torn \/ Tears(n))

msg_fifo_push(n) == PushTooLarge(n) \/ PushFull(n) \/ PushInserts(n)
-----------------------------------------------------------------------------
\* What is read of a header.  Where its bytes were overwritten, anything.
ItemLen(o) ==
  IF \A c \in LenField(o) : mem[c] = mem[o] /\ mem[c][1] = "len"
  THEN {mem[o][2]} ELSE 0 .. BufLen

ItemNext(o) ==
  IF \A c \in NextField(o) : mem[c] = mem[o + Word] /\ mem[c][1] = "next"
  THEN {mem[o + Word][2]} ELSE 0 .. BufLen - FIFO_HDR_LEN \cup {NULL}

\* The bytes msg_fifo_pop copies, from both ends if the message is split.
Copied(o, n) ==
  [k \in 1 .. n |->
     IF o + n + FIFO_HDR_LEN > BufLen /\ k > BufLen - (o + FIFO_HDR_LEN)
     THEN mem[k - (BufLen - (o + FIFO_HDR_LEN)) - 1]
     ELSE mem[o + FIFO_HDR_LEN + k - 1]]

PopTakes(room) ==
  /\ first # NULL
  /\ \E n \in ItemLen(first), next \in ItemNext(first) :
       /\ n <= room
       /\ first' = next
       /\ ret' = Op("msg_fifo_pop", room, n, Copied(first, n))
  /\ UNCHANGED <<head, last, mem, accepted, torn>>

PopNone(room) ==
  /\ first # NULL => \E n \in ItemLen(first) : n > room
  /\ ret' = Op("msg_fifo_pop", room, 0, <<>>)
  /\ UNCHANGED <<head, first, last, mem, accepted, torn>>

msg_fifo_pop(room) == PopTakes(room) \/ PopNone(room)
-----------------------------------------------------------------------------
Next == (\E n \in Lens : msg_fifo_push(n)) \/ (\E room \in Rooms : msg_fifo_pop(room))

Spec == Init /\ [][Next]_vars
-----------------------------------------------------------------------------
\* head is always inside the buffer, and items start where a header fits
\* (msg_fifo_push).
TypeOK ==
  /\ head \in Offsets
  /\ first \in 0 .. BufLen - FIFO_HDR_LEN \cup {NULL}
  /\ last \in 0 .. BufLen - FIFO_HDR_LEN \cup {NULL}
  /\ first # NULL => last # NULL
  /\ DOMAIN mem = Offsets /\ accepted \in 0 .. MaxMsgs /\ torn \in BOOLEAN

\* Wherever head is, whatever length is pushed next, no byte of the header
\* or of the message is written outside the buffer, and none over another one
\* of the same item (the copies of msg_fifo_push).
CopiesInBuffer ==
  \A n \in Lens : n + FIFO_HDR_LEN <= BufLen =>
    /\ LenField(ItemAddr(n)) \cup NextField(ItemAddr(n)) \subseteq Offsets
    /\ \A k \in 1 .. n :
         /\ ByteAddr(n, k) \in Offsets \ (LenField(ItemAddr(n)) \cup NextField(ItemAddr(n)))
         /\ \A j \in 1 .. n : ByteAddr(n, j) = ByteAddr(n, k) => j = k

\* The queue as it is found in the buffer, following the pointers from first.
The(s) == CHOOSE x \in s : TRUE
ItemAt[k \in Nat] ==
  IF k <= 1 THEN first
  ELSE LET o == ItemAt[k - 1] IN IF o = NULL THEN NULL ELSE The(ItemNext(o))

Found ==
  [k \in 1 .. Cardinality({j \in 1 .. MaxMsgs : ItemAt[j] # NULL}) |->
     Copied(ItemAt[k], The(ItemLen(ItemAt[k])))]

Queue == INSTANCE MsgQueueSpec
           WITH queue <- Found, Capacity <- BufLen - FIFO_HDR_LEN,
                Msgs <- {Message(m, n) : m \in 1 .. MaxMsgs, n \in Lens}

\* Messages leave whole and in order, however they lie around the end of the
\* buffer, refused pushes and pops change nothing, and an empty queue accepts
\* whatever the buffer can hold, until a push is accepted that Tears describes;
\* no other sequence of calls loses a message or a byte (queue.h).
FifoImplSpec == Queue!Spec
=============================================================================
