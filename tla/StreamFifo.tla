----------------------------- MODULE StreamFifo -----------------------------
(***************************************************************************)
(* The byte ring of queue.c (stream_fifo_t), which the server uses as each *)
(* client's output queue.  Pointers are offsets from start, so that head   *)
(* and tail range over 0 .. BufLen, where BufLen is one past the buffer, a *)
(* place both can rest at.  A byte is its position in the stream of all    *)
(* bytes pushed, so that a byte lost, repeated, stale or out of place is   *)
(* told apart.                                                             *)
(*                                                                         *)
(* Two steps of the code damage the stream, and damage records which were  *)
(* taken: a push that is accepted without being room for it, and a send    *)
(* that reaches the end of the buffer while bytes wait at its start.       *)
(***************************************************************************)
EXTENDS Integers

CONSTANTS BufLen,   \* buffer_len
          ItemSize, \* sizeof(fifo_item_t), the least buffer_len accepted
          MaxMsg,   \* bound: longest message pushed or popped
          Total     \* bound: bytes pushed in all

ASSUME StreamFifoAssumption ==
  /\ BufLen \in Nat /\ ItemSize \in Nat /\ 0 < ItemSize /\ ItemSize <= BufLen
  /\ MaxMsg \in Nat /\ Total \in Nat

ENOBUFS == -105         \* stream_fifo_push's error
JUNK    == -1           \* read outside the buffer, or never written

VARIABLES head, tail,  \* the pointers
          buf,         \* the buffer
          seq,         \* bytes accepted by push so far: the next byte's position
          delivered,   \* bytes that left the queue so far
          out,         \* the bytes the last pop or send took out
          span,        \* the [from, to) ranges the last operation copied
          ret,         \* the last operation's name, length argument and result
          damage       \* history, read by no step: "overwritten", "skipped"

vars == <<head, tail, buf, seq, delivered, out, span, ret, damage>>

Offsets == 0 .. BufLen - 1

Init ==
  /\ head = 0 /\ tail = 0
  /\ buf = [o \in Offsets |-> JUNK]
  /\ seq = 0 /\ delivered = 0 /\ out = <<>>
  /\ span = {} /\ ret = [op |-> "init", n |-> 0, val |-> 0]
  /\ damage = {}
-----------------------------------------------------------------------------
stream_fifo_length == IF tail - head < 0 THEN BufLen + (tail - head) ELSE tail - head

\* The room stream_fifo_push computes.
Remaining ==
  IF head = tail THEN BufLen
  ELSE IF tail - head < 0 THEN BufLen + (head - tail) ELSE tail - head

\* Mutant of FirstLen: one byte more.
FirstLenOver(p) == BufLen - p + 1

\* The part of a copy of n bytes at p that fits before the end, when it does
\* not fit as a whole.
FirstLen(p) == BufLen - p

\* memcpy of the next n bytes of the stream to offset p, from its k-th byte.
Written(b, p, k, n) ==
  [o \in Offsets |-> IF p <= o /\ o < p + n THEN seq + k + (o - p) ELSE b[o]]

\* Mutant of PushWrapped: the second part starts with the message again.
PushWrappedAgain(n) ==
  LET first_len == FirstLen(tail) IN
  /\ buf' = Written(Written(buf, tail, 0, first_len), 0, 0, n - first_len)
  /\ tail' = n - first_len
  /\ span' = {<<tail, tail + first_len>>, <<0, n - first_len>>}

PushWrapped(n) ==
  LET first_len == FirstLen(tail) IN
  /\ buf' = Written(Written(buf, tail, 0, first_len), 0, first_len, n - first_len)
  /\ tail' = n - first_len
  /\ span' = {<<tail, tail + first_len>>, <<0, n - first_len>>}

PushStraight(n) ==
  /\ buf' = Written(buf, tail, 0, n)
  /\ tail' = tail + n
  /\ span' = {<<tail, tail + n>>}

\* A push of n bytes that is accepted goes over unread bytes, or fills the
\* buffer up to head, so that it is taken for empty.
Overwrites(n) == n > 0 /\ (stream_fifo_length + n > BufLen \/ tail' = head)

stream_fifo_push(n) ==
  /\ IF Remaining < n
     THEN /\ ret' = [op |-> "push", n |-> n, val |-> ENOBUFS]
          /\ span' = {} /\ UNCHANGED <<tail, buf, seq, damage>>
     ELSE /\ IF tail + n > BufLen THEN PushWrapped(n) ELSE PushStraight(n)
          /\ seq' = seq + n
          /\ ret' = [op |-> "push", n |-> n, val |-> n]
          /\ damage' = damage \cup IF Overwrites(n) THEN {"overwritten"} ELSE {}
  /\ out' = <<>>
  /\ UNCHANGED <<head, delivered>>
-----------------------------------------------------------------------------
Read(o) == IF o \in Offsets THEN buf[o] ELSE JUNK

\* Mutant of Taken: the copy goes on past the end.
TakenStraight(n) == [k \in 1 .. n |-> Read(head + k - 1)]

\* The n bytes from head on, continued at the start when they pass the end.
Taken(n) ==
  [k \in 1 .. n |-> IF head + n > BufLen /\ k > FirstLen(head)
                    THEN Read(k - FirstLen(head) - 1) ELSE Read(head + k - 1)]

Poppable(n) == IF stream_fifo_length < n THEN stream_fifo_length ELSE n

\* Mutant of PopHead: head is not taken back to the start.
PopHeadStraight(n) == head + n

PopHead(n) == IF head + n > BufLen THEN n - FirstLen(head) ELSE head + n

stream_fifo_pop(n) ==
  LET got == Poppable(n) IN
  /\ out' = Taken(got)
  /\ head' = PopHead(got)
  /\ delivered' = delivered + got
  /\ span' = IF head + got > BufLen
             THEN {<<head, head + FirstLen(head)>>, <<0, got - FirstLen(head)>>}
             ELSE {<<head, head + got>>}
  /\ ret' = [op |-> "pop", n |-> n, val |-> got]
  /\ UNCHANGED <<tail, buf, seq, damage>>
-----------------------------------------------------------------------------
\* Mutant of SendLength: a byte is left behind.
SendLengthShort == IF tail < head THEN BufLen - head ELSE tail - head - 1

\* What one send is asked for: up to the end when wrapped, else up to tail.
SendLength == IF tail < head THEN BufLen - head ELSE tail - head

\* A send comes to the end of the buffer and is to go on at its start.
ComesRound(bytes) == bytes > 0 /\ tail < head /\ head + bytes >= BufLen

\* bytes -= head - end adds the bytes up to the end once more: that many bytes
\* at the start are skipped, and counted as sent.
SentHead(bytes) ==
  IF bytes <= 0 THEN head
  ELSE IF ComesRound(bytes) THEN bytes - (head - BufLen)
  ELSE head + bytes

SentRet(bytes) == IF ComesRound(bytes) THEN bytes - (head - BufLen) ELSE bytes

\* What the socket may take of length bytes: none when there is no room (-1),
\* else some or all.  A negative length is a huge size_t.
SocketTakes(length) ==
  {-1} \cup (IF length = 0 THEN {0} ELSE 1 .. (IF length < 0 THEN BufLen ELSE length))

\* Mutant of Sent: the buffer is sent from its start.
SentFromStart(bytes) == [k \in 1 .. bytes |-> Read(k - 1)]

Sent(bytes) == [k \in 1 .. bytes |-> Read(head + k - 1)]

\* send took bytes (-1: an error, nothing sent); an empty queue sends nothing.
stream_fifo_send_sock(bytes) ==
  /\ IF head = tail THEN bytes = 0 ELSE bytes \in SocketTakes(SendLength)
  /\ out' = Sent(bytes)
  /\ head' = SentHead(bytes)
  /\ delivered' = delivered + (IF bytes < 0 THEN 0 ELSE bytes)
  /\ span' = IF head = tail THEN {} ELSE {<<head, head + SendLength>>}
  /\ ret' = [op |-> "send_sock", n |-> bytes, val |-> SentRet(bytes)]
  /\ damage' = damage \cup IF ComesRound(bytes) THEN {"skipped"} ELSE {}
  /\ UNCHANGED <<tail, buf, seq>>
-----------------------------------------------------------------------------
\* The callers push what they like.
Push(n) == seq + n <= Total /\ stream_fifo_push(n)

\* The reader takes bytes out with pop.
PopNext == \E n \in 0 .. MaxMsg : Push(n) \/ stream_fifo_pop(n)

\* The reader sends them over a socket.
Send == \E bytes \in -1 .. BufLen : stream_fifo_send_sock(bytes)

\* Callers that wait until a message fits beside the unread bytes.
PushFitting(n) == n + stream_fifo_length < BufLen /\ Push(n)

SockNext == (\E n \in 0 .. MaxMsg : PushFitting(n)) \/ Send

\* The main loop calls stream_fifo_send_sock on every pass, and a connected
\* peer that reads lets the socket take bytes again.
FairSockSpec ==
  /\ Init /\ [][SockNext]_vars
  /\ WF_vars(\E bytes \in 1 .. BufLen : stream_fifo_send_sock(bytes))

\* Both ways (bound: no call follows one that skipped, after which head may be
\* outside the buffer).
Next == "skipped" \notin damage /\ (PopNext \/ Send)

Spec == Init /\ [][Next]_vars
-----------------------------------------------------------------------------
\* The pointers, the buffer and the counts are what they are declared to be;
\* head and tail stay inside the buffer or one past it, until a send skips.
TypeOK ==
  /\ head \in 0 .. 2 * BufLen /\ tail \in 0 .. BufLen
  /\ "skipped" \notin damage => head <= BufLen
  /\ buf \in [Offsets -> Nat \cup {JUNK}]
  /\ seq \in 0 .. Total /\ delivered \in Nat
  /\ damage \subseteq {"overwritten", "skipped"}

\* Every copy into or out of the buffer lies within it, both parts of a
\* wrapped one included, even when unread bytes are overwritten, until a send
\* skips (stream_fifo_push, stream_fifo_pop, stream_fifo_send_sock).
InBounds ==
  "skipped" \notin damage => \A s \in span : 0 <= s[1] /\ s[1] <= s[2] /\ s[2] <= BufLen

\* As long as neither of the two steps that damage the stream was taken, the
\* queue's length is what was pushed and not yet taken, and these bytes follow
\* head in order, around the end of the buffer: no other sequence of calls
\* loses, repeats or overwrites a byte (stream_fifo_push, stream_fifo_length).
Contents ==
  damage = {} =>
    /\ stream_fifo_length = seq - delivered
    /\ \A i \in 0 .. seq - delivered - 1 : buf[(head + i) % BufLen] = delivered + i

\* Likewise the bytes a pop or a send takes out continue the ones taken before,
\* whatever part of them the socket takes, and it reports as many as it took
\* (stream_fifo_pop, stream_fifo_send_sock).
InOrder ==
  damage = {} =>
    /\ \A k \in DOMAIN out : out[k] = delivered - ret.val + (k - 1)
    /\ ret.op \in {"pop", "send_sock"} /\ ret.val > 0 => DOMAIN out = 1 .. ret.val

\* Every byte pushed is sent in the end (stream_fifo_send_sock).
Drained == \A k \in 1 .. Total : seq >= k ~> delivered >= k
=============================================================================
