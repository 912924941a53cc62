----------------------------- MODULE LinkedList -----------------------------
(***************************************************************************)
(* The doubly linked list of linked_list.c: push, get and remove by index, *)
(* and linked_list_iter, whose callback may remove the object it was given *)
(* by its index and return -1.  One pointer hop of linked_list_find and    *)
(* one iteration of linked_list_iter are steps of their own.               *)
(***************************************************************************)
EXTENDS Integers, FiniteSets

CONSTANTS Nodes,    \* addresses the node allocator can return
          Data,     \* objects kept in the list
          NULL,     \* the null pointer
          JUNK      \* whatever is read from memory that is not allocated

ASSUME LinkedListAssumption ==
  /\ NULL \notin Nodes \cup Data
  /\ JUNK \notin Nodes \cup Data \cup {NULL}
  /\ Data \cap {0, -1} = {}

VARIABLES size, first, last,        \* the list head
          node,                     \* memory of the nodes
          live,                     \* nodes the allocator has handed out
          ret,                      \* what the last completed operation returned
          fop, fidx, fcur, fi, fdir, \* linked_list_find: its caller, argument and locals
          itpc, iti, itcur, itlast,  \* linked_list_iter: control point and locals
          visited, removed          \* history: nodes visited, removals of this pass

lvars == <<size, first, last, node, live>>
fvars == <<fop, fidx, fcur, fi, fdir>>
ivars == <<itpc, iti, itcur, itlast, visited, removed>>
vars  == <<lvars, ret, fvars, ivars>>

Ptr  == Nodes \cup {NULL, JUNK}
Junk == [data |-> JUNK, next |-> JUNK, prev |-> JUNK]

\* What a dereference of p reads.
At(p) == IF p \in Nodes THEN node[p] ELSE Junk

\* A completed operation: its name, its argument and what it returned.
Op(name, arg, val) == [op |-> name, arg |-> arg, val |-> val]

\* Every pointer the list and a running search or iteration follow is a node or
\* NULL; only remembered ones may be junk (linked_list.c).
TypeOK ==
  /\ size \in Nat
  /\ first \in Nodes \cup {NULL} /\ last \in Nodes \cup {NULL}
  /\ node \in [Nodes -> [data : Data \cup {JUNK}, next : Ptr, prev : Ptr]]
  /\ live \subseteq Nodes
  /\ ret.val \in Data \cup {NULL, 0, -1}
  /\ fop \in {"none", "get", "rem"} /\ fidx \in Nat /\ fi \in Nat
  /\ fcur \in Nodes \cup {NULL} /\ fdir \in {"next", "prev"}
  /\ itpc \in {"off", "visit", "invalidated", "advance"} /\ iti \in Nat
  /\ itcur \in Nodes \cup {NULL} /\ itlast \in Ptr
  /\ visited \subseteq Nodes /\ removed \in Nat

Init ==
  /\ size = 0 /\ first = NULL /\ last = NULL
  /\ node = [n \in Nodes |-> Junk] /\ live = {}
  /\ ret = Op("linked_list_init", NULL, 0)
  /\ fop = "none" /\ fidx = 0 /\ fcur = NULL /\ fi = 0 /\ fdir = "next"
  /\ itpc = "off" /\ iti = 0 /\ itcur = NULL /\ itlast = NULL
  /\ visited = {} /\ removed = 0

Idle == fop = "none" /\ itpc = "off"
-----------------------------------------------------------------------------
\* linked_list_push with a node from the allocator.
PushNode(d, n) ==
  /\ live' = live \cup {n}
  /\ IF size = 0
     THEN /\ first' = n
          /\ node' = [node EXCEPT ![n] = [data |-> d, next |-> NULL, prev |-> NULL]]
     ELSE /\ UNCHANGED first
          /\ node' = [node EXCEPT ![last].next = n,
                                  ![n] = [data |-> d, next |-> NULL, prev |-> last]]
  /\ last' = n
  /\ size' = size + 1
  /\ ret' = Op("linked_list_push", d, 0)

linked_list_push(d) ==
  /\ Idle
  /\ \/ \E n \in Nodes \ live : PushNode(d, n)
     \/ ret' = Op("linked_list_push", d, -1) /\ UNCHANGED lvars
  /\ UNCHANGED <<fvars, ivars>>

\* linked_list_find enters the list from the nearer end.
FindStart(i, op) ==
  /\ fop' = op /\ fidx' = i
  /\ IF i >= size \div 2
     THEN fcur' = last /\ fi' = size - i - 1 /\ fdir' = "prev"
     ELSE fcur' = first /\ fi' = i /\ fdir' = "next"

\* Mutant of FindHop: the index is not decremented.
FindHopStuck ==
  /\ fop # "none" /\ fi > 0
  /\ fcur' = IF fdir = "prev" THEN At(fcur).prev ELSE At(fcur).next
  /\ UNCHANGED <<lvars, ret, fop, fidx, fi, fdir, ivars>>

FindHop ==
  /\ fop # "none" /\ fi > 0
  /\ fcur' = IF fdir = "prev" THEN At(fcur).prev ELSE At(fcur).next
  /\ fi' = fi - 1
  /\ UNCHANGED <<lvars, ret, fop, fidx, fdir, ivars>>

FindEnd ==
  fop' = "none" /\ fidx' = 0 /\ fcur' = NULL /\ fi' = 0 /\ fdir' = "next"

\* Mutant of linked_list_get: the last index is refused.
GetShort(i) ==
  /\ Idle
  /\ IF i + 1 < size THEN FindStart(i, "get") /\ UNCHANGED ret
     ELSE ret' = Op("linked_list_get", i, NULL) /\ UNCHANGED fvars
  /\ UNCHANGED <<lvars, ivars>>

linked_list_get(i) ==
  /\ Idle
  /\ IF i < size THEN FindStart(i, "get") /\ UNCHANGED ret
     ELSE ret' = Op("linked_list_get", i, NULL) /\ UNCHANGED fvars
  /\ UNCHANGED <<lvars, ivars>>

GetReturn ==
  /\ fop = "get" /\ fi = 0
  /\ ret' = Op("linked_list_get", fidx, At(fcur).data)
  /\ FindEnd
  /\ UNCHANGED <<lvars, ivars>>

linked_list_rem(i) ==
  /\ Idle
  /\ IF i < size THEN FindStart(i, "rem") /\ UNCHANGED ret
     ELSE ret' = Op("linked_list_rem", i, NULL) /\ UNCHANGED fvars
  /\ UNCHANGED <<lvars, ivars>>

\* The memory once the node n is unlinked and given back.
Unlinked(n) ==
  [m \in Nodes |->
     IF m = n THEN Junk
     ELSE [node[m] EXCEPT !.next = IF m = At(n).prev THEN At(n).next ELSE @,
                          !.prev = IF m = At(n).next THEN At(n).prev ELSE @]]

\* Mutant of MoveEnds: the start pointer is moved for every index below the last.
MoveEndsWrong ==
  IF fidx = size - 1 THEN last' = At(fcur).prev /\ UNCHANGED first
                     ELSE first' = At(fcur).next /\ UNCHANGED last

\* last is moved when the last node goes, else first when the first one goes.
MoveEnds ==
  IF fidx = size - 1 THEN last' = At(fcur).prev /\ UNCHANGED first
  ELSE /\ first' = IF fidx = 0 THEN At(fcur).next ELSE first
       /\ UNCHANGED last

RemReturn ==
  /\ fop = "rem" /\ fi = 0
  /\ node' = Unlinked(fcur)
  /\ MoveEnds
  /\ size' = size - 1
  /\ live' = live \ {fcur}
  /\ ret' = Op("linked_list_rem", fidx, At(fcur).data)
  /\ FindEnd
  /\ UNCHANGED ivars
-----------------------------------------------------------------------------
linked_list_iter ==
  /\ Idle
  /\ itpc' = "visit" /\ iti' = 0 /\ itcur' = first /\ itlast' = NULL
  /\ visited' = {} /\ removed' = 0
  /\ UNCHANGED <<lvars, ret, fvars>>

\* Mutant of IterMore: the loop stops before the last node.
IterMoreShort == itpc = "visit" /\ iti + 1 < size

IterMore == itpc = "visit" /\ iti < size

\* The callback returns 0: the object is still valid.
VisitKeeps ==
  /\ IterMore
  /\ itcur' = At(itcur).next
  /\ itpc' = "advance"
  /\ visited' = visited \cup {itcur}
  /\ UNCHANGED <<lvars, ret, fvars, iti, itlast, removed>>

\* The callback calls linked_list_rem(list, i) and returns -1.
VisitInvalidates ==
  /\ IterMore
  /\ FindStart(iti, "rem")
  /\ itpc' = "invalidated"
  /\ visited' = visited \cup {itcur}
  /\ removed' = removed + 1
  /\ UNCHANGED <<lvars, ret, iti, itcur, itlast>>

\* Mutant of ReseatedCur: the loop goes on from the first node.
ReseatedCurFirst == first

\* Mutant of ReseatedCur: the loop keeps its pointer.
ReseatedCurStale == itcur

ReseatedCur ==
  IF iti = 0 THEN first
  ELSE IF iti = 1 THEN At(first).next
  ELSE At(itlast).next

Reseat ==
  /\ itpc = "invalidated" /\ fop = "none"
  /\ itcur' = ReseatedCur
  /\ itpc' = "advance"
  /\ UNCHANGED <<lvars, ret, fvars, iti, itlast, visited, removed>>

\* Mutant of IterAdvance: the index is not incremented.
IterAdvanceStuck ==
  /\ itpc = "advance"
  /\ itlast' = IF itcur # NULL THEN At(itcur).prev ELSE itlast
  /\ itpc' = "visit"
  /\ UNCHANGED <<lvars, ret, fvars, iti, itcur, visited, removed>>

IterAdvance ==
  /\ itpc = "advance"
  /\ itlast' = IF itcur # NULL THEN At(itcur).prev ELSE itlast
  /\ iti' = iti + 1
  /\ itpc' = "visit"
  /\ UNCHANGED <<lvars, ret, fvars, itcur, visited, removed>>

IterReturn ==
  /\ itpc = "visit" /\ ~IterMore
  /\ itpc' = "off" /\ iti' = 0 /\ itcur' = NULL /\ itlast' = NULL
  /\ visited' = {} /\ removed' = 0
  /\ UNCHANGED <<lvars, ret, fvars>>
-----------------------------------------------------------------------------
\* The steps of an operation under way: the thread takes them unless it is
\* preempted for ever.
Running ==
  \/ FindHop \/ GetReturn \/ RemReturn
  \/ VisitKeeps \/ VisitInvalidates \/ Reseat \/ IterAdvance \/ IterReturn

Next ==
  \/ \E d \in Data : linked_list_push(d)
  \/ \E i \in 0 .. size : linked_list_get(i) \/ linked_list_rem(i)
  \/ linked_list_iter
  \/ Running

Spec == Init /\ [][Next]_vars

FairSpec == Spec /\ WF_vars(Running)
-----------------------------------------------------------------------------
\* s lists the nodes in order: its links, both ways, its ends and its size.
Links(s) ==
  /\ \A j, k \in 1 .. size : s[j] = s[k] => j = k
  /\ live = {s[k] : k \in 1 .. size}
  /\ size > 0 => first = s[1] /\ last = s[size]
  /\ \A k \in 1 .. size :
       /\ node[s[k]].data \in Data
       /\ node[s[k]].next = IF k = size THEN NULL ELSE s[k + 1]
       /\ node[s[k]].prev = IF k = 1 THEN NULL ELSE s[k - 1]

\* Whatever is pushed, removed, or invalidated during an iteration, the next
\* and prev pointers, first, last and size describe one list of all the nodes
\* allocated (linked_list_push, linked_list_rem).
WellFormed == \E s \in [1 .. size -> live] : Links(s)

\* The object the callback is called with is a node of the list, no further
\* than index i and no more than one place behind it per removal of this pass,
\* and every node before it was visited (linked_list_iter).
VisitInList ==
  IterMore =>
    \E s \in [1 .. size -> live] : Links(s) /\
      \E p \in 0 .. iti :
        /\ iti - p <= removed
        /\ itcur = s[p + 1]
        /\ \A k \in 1 .. p : s[k] \in visited

\* A pass that ends leaves at most as many nodes unvisited as its callbacks
\* removed; with no removal every node was visited (linked_list_iter).
PassCoverage ==
  itpc = "visit" /\ ~IterMore => Cardinality(live \ visited) <= removed

\* Every get, remove and iteration returns, also when callbacks invalidate.
OperationsReturn == ~Idle ~> Idle

\* The nodes in order, and the objects they hold.
NodeAt[k \in 1 .. size] == IF k = 1 THEN first ELSE At(NodeAt[k - 1]).next
Objects == [k \in 1 .. size |-> At(NodeAt[k]).data]
ListImpl == INSTANCE ListSpec WITH list <- Objects

\* Push appends, and get and remove act on the object at their index, from
\* whichever end linked_list_find starts (linked_list.h).
ListImplSpec == ListImpl!Spec

\* The node the loop goes on with, and reads the prev pointer of, is one of the
\* list, or NULL at its end, wherever in the list callbacks removed theirs - and
\* exactly as long as they left one: the branch for the last element does not
\* move first, so that after the only node was removed the loop takes the memory
\* just given back from first, and reads it before it looks at size
\* (linked_list_rem, linked_list_iter).
AdvanceOnLive == itpc = "advance" => (itcur \in live \cup {NULL} <=> size # 0)
=============================================================================
