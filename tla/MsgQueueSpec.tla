---------------------------- MODULE MsgQueueSpec ----------------------------
(***************************************************************************)
(* What queue.h promises of a msg_fifo: messages leave whole and in the    *)
(* order they were pushed.  A push may be refused only for a message that  *)
(* can never fit or while others are queued, and a pop whose buffer is too *)
(* small takes nothing.  Nothing is promised any more once a push has torn *)
(* the queue.  MsgFifo is shown to implement it.                           *)
(***************************************************************************)
EXTENDS Integers, Sequences

CONSTANTS Msgs,      \* messages, as sequences of bytes
          Rooms,     \* lengths of the buffers messages are popped into
          Capacity   \* the longest message the queue can hold

VARIABLES queue,     \* the messages queued, the oldest first
          ret,       \* the last operation: its name, argument, result and the bytes it copied out
          torn       \* a push overwrote messages

vars == <<queue, ret, torn>>

Op(name, arg, val, out) == [op |-> name, arg |-> arg, val |-> val, out |-> out]

Init == queue = <<>> /\ ret = Op("msg_fifo_init", 0, 0, <<>>) /\ torn = FALSE

Push(msg) ==
  \/ /\ Len(msg) <= Capacity
     /\ queue' = Append(queue, msg)
     /\ ret' = Op("msg_fifo_push", Len(msg), Len(msg), <<>>)
  \/ /\ queue # <<>> \/ Len(msg) > Capacity
     /\ UNCHANGED queue
     /\ ret' = Op("msg_fifo_push", Len(msg), 0, <<>>)

Pop(room) ==
  \/ /\ queue # <<>> /\ Len(Head(queue)) <= room
     /\ queue' = Tail(queue)
     /\ ret' = Op("msg_fifo_pop", room, Len(Head(queue)), Head(queue))
  \/ /\ queue = <<>> \/ Len(Head(queue)) > room
     /\ UNCHANGED queue
     /\ ret' = Op("msg_fifo_pop", room, 0, <<>>)

Works == (\E msg \in Msgs : Push(msg)) \/ (\E room \in Rooms : Pop(room))

Next == torn' \/ (~torn /\ Works)

Spec == Init /\ [][Next]_vars
=============================================================================
