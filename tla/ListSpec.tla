------------------------------ MODULE ListSpec ------------------------------
(***************************************************************************)
(* What linked_list.h promises: a list of objects that is pushed at the    *)
(* end, and read and removed by index (from 0).  LinkedList is shown to    *)
(* implement it.                                                           *)
(***************************************************************************)
EXTENDS Integers, Sequences

CONSTANTS Data,   \* the objects
          NULL    \* the null pointer

VARIABLES list,   \* the objects in the list, in order
          ret     \* the last completed operation: its name, argument and result

vars == <<list, ret>>

Returns(name, arg, val) == ret' = [op |-> name, arg |-> arg, val |-> val]

Init == list = <<>> /\ ret = [op |-> "linked_list_init", arg |-> NULL, val |-> 0]

\* The node allocator may have no memory left.
Push(d) == \/ list' = Append(list, d) /\ Returns("linked_list_push", d, 0)
           \/ UNCHANGED list /\ Returns("linked_list_push", d, -1)

Get(i) ==
  /\ Returns("linked_list_get", i, IF i < Len(list) THEN list[i + 1] ELSE NULL)
  /\ UNCHANGED list

Without(s, i) == [k \in 1 .. Len(s) - 1 |-> IF k <= i THEN s[k] ELSE s[k + 1]]

Rem(i) ==
  IF i < Len(list)
  THEN list' = Without(list, i) /\ Returns("linked_list_rem", i, list[i + 1])
  ELSE UNCHANGED list /\ Returns("linked_list_rem", i, NULL)

Next == \/ \E d \in Data : Push(d)
        \/ \E i \in 0 .. Len(list) : Get(i) \/ Rem(i)

Spec == Init /\ [][Next]_vars
=============================================================================
