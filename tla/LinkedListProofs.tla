-------------------------- MODULE LinkedListProofs --------------------------
(***************************************************************************)
(* Proofs about LinkedList, for every set of nodes and of objects: the     *)
(* links stay those of one list, and the iteration visits nodes of it,     *)
(* also when its callbacks remove nodes.                                   *)
(***************************************************************************)
EXTENDS LinkedList, TLAPS, SequenceTheorems, FiniteSetTheorems, WellFoundedInduction

\* The search has fi hops left to the node at index fidx of s.
FindAt(s) ==
  fop # "none" =>
    /\ fidx < size
    /\ fdir = "next" => fi <= fidx /\ fcur = s[fidx - fi + 1]
    /\ fdir = "prev" => fidx + fi < size /\ fcur = s[fidx + fi + 1]

\* p nodes precede the one the iteration is at, all of them visited; it is at
\* most as many places behind index i as nodes were removed.
Behind(s, p, i) ==
  /\ p <= i /\ i - p <= removed
  /\ p = 0 => i <= 1
  /\ \A k \in 1 .. p : k <= size => s[k] \in visited

VisitAt(s, p) ==
  /\ fop = "none" /\ Behind(s, p, iti)
  /\ iti < size => itcur = s[p + 1] /\ (p > 0 => itlast = s[p])

\* The callback is removing index i.
RemovingAt(s, p) ==
  /\ fop = "rem" /\ fidx = iti
  /\ p <= iti /\ iti + 1 - p <= removed
  /\ p = 0 => iti <= 1
  /\ \A k \in 1 .. p + 1 : s[k] \in visited
  /\ itcur = s[p + 1] /\ (p > 0 => itlast = s[p])

\* The callback removed it.
RemovedAt(s, p) ==
  /\ fop = "none" /\ iti <= size
  /\ p <= iti /\ iti + 1 - p <= removed
  /\ p = 0 => iti <= 1
  /\ \A k \in 1 .. p : s[k] \in visited
  /\ p = 0 /\ iti = 1 => s[1] \in visited
  /\ p > 0 => itlast = s[p]

AdvanceAt(s, p) ==
  /\ fop = "none" /\ Behind(s, p, iti + 1)
  /\ iti + 1 < size => itcur = s[p + 1]

IterAt(s, p) ==
  /\ itpc = "visit" => VisitAt(s, p)
  /\ itpc = "invalidated" => RemovingAt(s, p) \/ RemovedAt(s, p)
  /\ itpc = "advance" => AdvanceAt(s, p)
  /\ fop = "get" => itpc = "off"

ListInv ==
  /\ TypeOK
  /\ \E s \in [1 .. size -> Nodes], p \in Nat : Links(s) /\ FindAt(s) /\ IterAt(s, p)
-----------------------------------------------------------------------------
\* The empty list (linked_list_init).
LEMMA ListInvInit == Init => ListInv
<1> SUFFICES ASSUME Init PROVE ListInv
  OBVIOUS
<1>1. TypeOK
  BY DEF Init, TypeOK, Ptr, Junk, Op
<1>2. [k \in 1 .. 0 |-> NULL] \in [1 .. size -> Nodes]
  BY DEF Init
<1>3. Links([k \in 1 .. 0 |-> NULL])
  BY DEF Init, Links
<1>4. FindAt([k \in 1 .. 0 |-> NULL]) /\ IterAt([k \in 1 .. 0 |-> NULL], 0)
  BY DEF Init, FindAt, IterAt
<1> QED BY <1>1, <1>2, <1>3, <1>4 DEF ListInv

\* A node that is not in use becomes the last one, and the others keep their
\* places and objects (linked_list_push).
LEMMA PushLinks ==
  ASSUME TypeOK, NEW s \in [1 .. size -> Nodes], Links(s), NEW d \in Data,
         NEW n \in Nodes \ live, PushNode(d, n), UNCHANGED <<fvars, ivars>>
  PROVE  /\ TypeOK' /\ size' = size + 1 /\ node'[n].data = d
         /\ \A k \in 1 .. size : node'[s[k]].data = node[s[k]].data
         /\ \E t \in [1 .. size' -> Nodes] :
              /\ Links(t)'
              /\ \A k \in 1 .. size + 1 : t[k] = IF k <= size THEN s[k] ELSE n
<1>0. size \in Nat /\ size' = size + 1
  BY DEF TypeOK, PushNode
<1>1. PICK t \in [1 .. size' -> Nodes] :
        \A k \in 1 .. size + 1 : t[k] = IF k <= size THEN s[k] ELSE n
  <2>1. [k \in 1 .. size + 1 |-> IF k <= size THEN s[k] ELSE n] \in [1 .. size' -> Nodes]
    BY <1>0
  <2> QED BY <2>1
<1>2. \A k \in 1 .. size : s[k] \in Nodes /\ s[k] \in live /\ s[k] # n
  BY DEF Links
<1>3. CASE size = 0
  <2>1. /\ first' = n /\ last' = n /\ live' = live \cup {n}
        /\ node' = [node EXCEPT ![n] = [data |-> d, next |-> NULL, prev |-> NULL]]
        /\ ret' = Op("linked_list_push", d, 0)
    BY <1>3 DEF PushNode
  <2>2. TypeOK'
    BY <1>0, <2>1 DEF TypeOK, Ptr, Op, fvars, ivars
  <2>3. Links(t)'
    <3>1. live = {} /\ \A k \in 1 .. size' : k = 1 /\ t[k] = n
      BY <1>0, <1>1, <1>3 DEF Links
    <3>2. node'[n] = [data |-> d, next |-> NULL, prev |-> NULL]
      BY <1>0, <2>1 DEF TypeOK
    <3> QED BY <1>0, <1>3, <2>1, <3>1, <3>2 DEF Links
  <2>4. node'[n].data = d
    BY <2>1 DEF TypeOK
  <2> QED BY <1>0, <1>1, <1>3, <2>2, <2>3, <2>4
<1>4. CASE size # 0
  <2>1. /\ first' = first /\ last' = n /\ live' = live \cup {n}
        /\ node' = [node EXCEPT ![last].next = n,
                                ![n] = [data |-> d, next |-> NULL, prev |-> last]]
        /\ ret' = Op("linked_list_push", d, 0)
    BY <1>4 DEF PushNode
  <2>2. last = s[size] /\ first = s[1] /\ last \in Nodes /\ last # n
    BY <1>0, <1>2, <1>4 DEF Links
  <2>3. /\ node'[n] = [data |-> d, next |-> NULL, prev |-> last]
        /\ node'[last].data = node[last].data /\ node'[last].prev = node[last].prev
        /\ node'[last].next = n
        /\ \A m \in Nodes \ {n, last} : node'[m] = node[m]
    BY <1>0, <2>1, <2>2 DEF TypeOK
  <2>4. TypeOK'
    <3>0. node \in [Nodes -> [data : Data \cup {JUNK}, next : Ptr, prev : Ptr]]
      BY DEF TypeOK
    <3>1. node' \in [Nodes -> [data : Data \cup {JUNK}, next : Ptr, prev : Ptr]]
      <4>1. [node[last] EXCEPT !.next = n] \in [data : Data \cup {JUNK}, next : Ptr, prev : Ptr]
        BY <2>2, <3>0 DEF Ptr
      <4>2. [data |-> d, next |-> NULL, prev |-> last] \in [data : Data \cup {JUNK}, next : Ptr, prev : Ptr]
        BY <2>2 DEF Ptr
      <4>3. node' = [[node EXCEPT ![last] = [node[last] EXCEPT !.next = n]]
                       EXCEPT ![n] = [data |-> d, next |-> NULL, prev |-> last]]
        BY <2>1, <2>2, <3>0
      <4> QED BY <3>0, <4>1, <4>2, <4>3
    <3> QED BY <1>0, <2>1, <2>2, <3>1 DEF TypeOK, Op, fvars, ivars
  <2>5. Links(t)'
    <3>1. \A j, k \in 1 .. size' : t[j] = t[k] => j = k
      BY <1>0, <1>1, <1>2 DEF Links
    <3>2. live' = {t[k] : k \in 1 .. size'}
      <4>1. t[size + 1] = n /\ \A k \in 1 .. size : t[k] = s[k]
        BY <1>0, <1>1
      <4>2. live = {s[k] : k \in 1 .. size}
        BY DEF Links
      <4> QED BY <1>0, <2>1, <4>1, <4>2
    <3>3. first' = t[1] /\ last' = t[size']
      BY <1>0, <1>1, <1>4, <2>1, <2>2
    <3>4. ASSUME NEW k \in 1 .. size'
          PROVE  /\ node'[t[k]].data \in Data
                 /\ node'[t[k]].next = IF k = size' THEN NULL ELSE t[k + 1]
                 /\ node'[t[k]].prev = IF k = 1 THEN NULL ELSE t[k - 1]
      <4>1. CASE k = size'
        BY <1>0, <1>1, <1>4, <2>2, <2>3, <4>1
      <4>2. CASE k = size
        BY <1>0, <1>1, <1>4, <2>2, <2>3, <4>2 DEF Links
      <4>3. CASE k < size
        <5>1. s[k] # last /\ s[k] # n
          BY <1>0, <1>2, <2>2, <4>3 DEF Links
        <5>2. k \in 1 .. size /\ k + 1 \in 1 .. size /\ s[k] \in Nodes \ {n, last}
          BY <1>0, <4>3, <5>1
        <5>3. node'[s[k]] = node[s[k]] /\ t[k] = s[k] /\ t[k + 1] = s[k + 1]
          BY <1>0, <1>1, <2>3, <5>2
        <5>4. k # 1 => k - 1 \in 1 .. size /\ t[k - 1] = s[k - 1]
          BY <1>0, <1>1, <5>2
        <5>5. /\ node[s[k]].data \in Data /\ node[s[k]].next = s[k + 1]
              /\ node[s[k]].prev = IF k = 1 THEN NULL ELSE s[k - 1]
          BY <1>0, <4>3, <5>2 DEF Links
        <5> QED BY <1>0, <4>3, <5>3, <5>4, <5>5
      <4> QED BY <1>0, <4>1, <4>2, <4>3
    <3> QED BY <1>0, <3>1, <3>2, <3>3, <3>4 DEF Links
  <2>6. \A k \in 1 .. size : node'[s[k]].data = node[s[k]].data
    BY <1>2, <2>3
  <2> QED BY <1>0, <1>1, <2>3, <2>4, <2>5, <2>6
<1> QED BY <1>3, <1>4

\* No search and no iteration is under way, so the rest of the invariant is
\* that of an idle list (linked_list_push).
LEMMA PushStep ==
  ASSUME ListInv, Idle, NEW d \in Data, NEW n \in Nodes \ live,
         PushNode(d, n), UNCHANGED <<fvars, ivars>>
  PROVE  ListInv'
<1> PICK s \in [1 .. size -> Nodes], p \in Nat : Links(s)
  BY DEF ListInv
<1>0. TypeOK /\ fop' = "none" /\ itpc' = "off"
  BY DEF ListInv, Idle, fvars, ivars
<1>1. TypeOK' /\ \E t \in [1 .. size' -> Nodes] : Links(t)'
  BY <1>0, PushLinks
<1> QED BY <1>0, <1>1 DEF ListInv, FindAt, IterAt

\* The search starts within reach of its index (linked_list_find).
LEMMA FindStartAt ==
  ASSUME TypeOK, NEW s \in [1 .. size -> Nodes], Links(s),
         NEW i \in Nat, i < size, NEW op \in {"get", "rem"},
         FindStart(i, op), UNCHANGED lvars
  PROVE  /\ Links(s)' /\ FindAt(s)' /\ fop' = op /\ fidx' = i
         /\ fi' \in Nat /\ fcur' \in Nodes /\ fdir' \in {"next", "prev"}
<1>1. Links(s)'
  BY DEF lvars, Links
<1>2. size \in Nat /\ first = s[1] /\ last = s[size] /\ s[1] \in Nodes /\ s[size] \in Nodes
  BY DEF TypeOK, Links
<1>3. CASE i >= size \div 2
  <2>1. fop' = op /\ fidx' = i /\ fcur' = last /\ fi' = size - i - 1 /\ fdir' = "prev"
    BY <1>3 DEF FindStart
  <2>2. i + (size - i - 1) + 1 = size
    BY <1>2
  <2> QED BY <1>1, <1>2, <2>1, <2>2 DEF FindAt, lvars
<1>4. CASE ~(i >= size \div 2)
  <2>1. fop' = op /\ fidx' = i /\ fcur' = first /\ fi' = i /\ fdir' = "next"
    BY <1>4 DEF FindStart
  <2> QED BY <1>1, <1>2, <2>1 DEF FindAt, lvars
<1> QED BY <1>3, <1>4

\* A hop comes one node closer to the index (linked_list_find).
LEMMA FindHopStep ==
  ASSUME ListInv, FindHop
  PROVE  ListInv'
<1> PICK s \in [1 .. size -> Nodes], p \in Nat : Links(s) /\ FindAt(s) /\ IterAt(s, p)
  BY DEF ListInv
<1>0. TypeOK /\ size \in Nat /\ fi \in Nat /\ fidx \in Nat /\ fop # "none" /\ fi > 0
  BY DEF ListInv, TypeOK, FindHop
<1>1. /\ fcur' = IF fdir = "prev" THEN At(fcur).prev ELSE At(fcur).next
      /\ fi' = fi - 1 /\ UNCHANGED <<fop, fidx, fdir>> /\ UNCHANGED <<lvars, ret, ivars>>
  BY DEF FindHop
<1>2. Links(s)'
  BY <1>1 DEF lvars, Links
<1>3. FindAt(s)' /\ fcur' \in Nodes
  <2>1. CASE fdir = "prev"
    <3>1. fidx + fi < size /\ fcur = s[fidx + fi + 1] /\ fidx + fi + 1 \in 2 .. size
      BY <1>0, <2>1 DEF FindAt
    <3>2. fcur \in Nodes /\ At(fcur).prev = s[fidx + fi]
      <4> DEFINE k == fidx + fi + 1
      <4>1. k \in 1 .. size /\ k # 1 /\ k - 1 = fidx + fi /\ fcur = s[k]
        BY <1>0, <3>1
      <4> HIDE DEF k
      <4>2. fcur \in Nodes /\ At(fcur).prev = s[k - 1]
        BY <4>1 DEF Links, At
      <4> QED BY <4>1, <4>2
    <3> QED BY <1>0, <1>1, <2>1, <3>1, <3>2 DEF FindAt, lvars
  <2>2. CASE fdir = "next"
    <3>1. fidx < size /\ fi <= fidx /\ fcur = s[fidx - fi + 1] /\ fidx - fi + 1 \in 1 .. size - 1
      BY <1>0, <2>2 DEF FindAt
    <3> PICK j \in 1 .. size - 1 : j = fidx - fi + 1
      BY <3>1
    <3>2. fcur \in Nodes /\ At(fcur).next = s[j + 1]
      <4>1. j \in 1 .. size /\ j # size /\ fcur = s[j] /\ s[j] \in Nodes
        BY <1>0, <3>1
      <4>2. node[s[j]].next = s[j + 1]
        BY <4>1 DEF Links
      <4> QED BY <4>1, <4>2 DEF At
    <3>3. j + 1 \in 1 .. size /\ fidx - (fi - 1) + 1 = j + 1
      BY <1>0, <3>1
    <3> QED BY <1>0, <1>1, <2>2, <3>1, <3>2, <3>3 DEF FindAt, lvars
  <2> QED BY <1>0, <2>1, <2>2 DEF TypeOK
<1>4. TypeOK'
  BY <1>0, <1>1, <1>3 DEF TypeOK, lvars, ivars
<1>5. IterAt(s, p)'
  BY <1>1 DEF IterAt, VisitAt, RemovingAt, RemovedAt, AdvanceAt, Behind, lvars, ivars
<1> QED BY <1>1, <1>2, <1>3, <1>4, <1>5 DEF ListInv, lvars

\* Where the search ends (linked_list_find).
LEMMA Found ==
  ASSUME TypeOK, NEW s \in [1 .. size -> Nodes], Links(s), FindAt(s), fop # "none", fi = 0
  PROVE  /\ fidx < size /\ fidx + 1 \in 1 .. size /\ fcur = s[fidx + 1]
         /\ fcur \in Nodes /\ At(fcur) = node[s[fidx + 1]] /\ At(fcur).data \in Data
<1>1. /\ size \in Nat /\ fidx \in Nat /\ fidx < size /\ fdir \in {"next", "prev"}
      /\ fidx - 0 + 1 = fidx + 1 /\ fidx + 0 + 1 = fidx + 1
  BY DEF TypeOK, FindAt
<1>2. fcur = s[fidx + 1]
  BY <1>1 DEF FindAt
<1> QED BY <1>1, <1>2 DEF At, Links

\* Removing the node found leaves a list of the others in their order: its
\* neighbours are linked to each other, and first or last is moved when it was
\* at an end (linked_list_rem).
LEMMA RemLinks ==
  ASSUME TypeOK, NEW s \in [1 .. size -> Nodes], Links(s), FindAt(s), RemReturn
  PROVE  /\ TypeOK' /\ fop' = "none" /\ size' = size - 1
         /\ \E t \in [1 .. size' -> Nodes] :
              /\ Links(t)'
              /\ \A k \in 1 .. size' : t[k] = IF k <= fidx THEN s[k] ELSE s[k + 1]
<1>0. /\ size \in Nat /\ fidx \in Nat /\ node \in [Nodes -> [data : Data \cup {JUNK}, next : Ptr, prev : Ptr]]
  BY DEF TypeOK
<1>1. /\ fidx < size /\ fidx + 1 \in 1 .. size /\ fcur = s[fidx + 1]
      /\ fcur \in Nodes /\ At(fcur) = node[s[fidx + 1]] /\ At(fcur).data \in Data
  BY Found DEF RemReturn
<1> DEFINE f == fidx + 1
<1>2. /\ At(fcur).next = IF f = size THEN NULL ELSE s[f + 1]
      /\ At(fcur).prev = IF f = 1 THEN NULL ELSE s[f - 1]
  BY <1>1 DEF Links
<1>3. /\ node' = Unlinked(fcur) /\ MoveEnds /\ size' = size - 1 /\ live' = live \ {fcur}
      /\ ret' = Op("linked_list_rem", fidx, At(fcur).data)
      /\ fop' = "none" /\ fidx' = 0 /\ fcur' = NULL /\ fi' = 0 /\ fdir' = "next"
      /\ UNCHANGED ivars
  BY DEF RemReturn, FindEnd
<1>4. PICK t \in [1 .. size' -> Nodes] :
        \A k \in 1 .. size' : t[k] = IF k <= fidx THEN s[k] ELSE s[k + 1]
  <2>1. [k \in 1 .. size - 1 |-> IF k <= fidx THEN s[k] ELSE s[k + 1]] \in [1 .. size' -> Nodes]
    BY <1>0, <1>3
  <2> QED BY <1>3, <2>1
<1>5. \A j, k \in 1 .. size : s[j] = s[k] => j = k
  BY DEF Links
<1>6. ASSUME NEW m \in Nodes, m # fcur
      PROVE  /\ node'[m].data = node[m].data
             /\ node'[m].next = IF m = At(fcur).prev THEN At(fcur).next ELSE node[m].next
             /\ node'[m].prev = IF m = At(fcur).next THEN At(fcur).prev ELSE node[m].prev
  <2>1. node'[m] = [node[m] EXCEPT
                      !.next = IF m = At(fcur).prev THEN At(fcur).next ELSE @,
                      !.prev = IF m = At(fcur).next THEN At(fcur).prev ELSE @]
    BY <1>3, <1>6 DEF Unlinked
  <2>2. node[m] \in [data : Data \cup {JUNK}, next : Ptr, prev : Ptr]
    BY <1>0
  <2> QED BY <2>1, <2>2
<1>7. \A k \in 1 .. size : s[k] \in Nodes /\ (k # f => s[k] # fcur)
  BY <1>1, <1>5
<1>8. ASSUME NEW k \in 1 .. size'
      PROVE  /\ node'[t[k]].data \in Data
             /\ node'[t[k]].next = IF k = size' THEN NULL ELSE t[k + 1]
             /\ node'[t[k]].prev = IF k = 1 THEN NULL ELSE t[k - 1]
  <2>1. k \in 1 .. size /\ k + 1 \in 1 .. size /\ k \in Nat
    BY <1>0, <1>3
  <2>2. CASE k < f
    <3>0. s[k] \in Nodes /\ s[k] # NULL /\ (f # size => s[k] # s[f + 1])
      BY <1>0, <1>1, <1>5, <2>1, <2>2, LinkedListAssumption
    <3>1. t[k] = s[k] /\ s[k] \in Nodes /\ s[k] # fcur /\ s[k] # At(fcur).next
      BY <1>0, <1>2, <1>4, <1>7, <2>1, <2>2, <3>0
    <3>2. s[k] = At(fcur).prev <=> k = f - 1
      BY <1>0, <1>1, <1>2, <1>5, <2>1, <2>2, <3>1, LinkedListAssumption
    <3>3. /\ node[s[k]].data \in Data /\ node[s[k]].next = s[k + 1]
          /\ node[s[k]].prev = IF k = 1 THEN NULL ELSE s[k - 1]
      BY <1>0, <1>1, <2>1, <2>2 DEF Links
    <3>4. k # 1 => t[k - 1] = s[k - 1]
      BY <1>0, <1>3, <1>4, <2>1, <2>2
    <3>5. k # f - 1 => k + 1 < f /\ k + 1 \in 1 .. size' /\ t[k + 1] = s[k + 1]
      BY <1>0, <1>1, <1>3, <1>4, <2>1, <2>2
    <3>6. k = f - 1 /\ f # size => k + 1 \in 1 .. size' /\ t[k + 1] = s[f + 1]
      BY <1>0, <1>1, <1>3, <1>4, <2>1, <2>2
    <3>7. k = size' <=> k = f - 1 /\ f = size
      BY <1>0, <1>1, <1>3, <2>1, <2>2
    <3>8. /\ node'[t[k]].data = node[s[k]].data
          /\ node'[t[k]].next = IF k = f - 1 THEN At(fcur).next ELSE node[s[k]].next
          /\ node'[t[k]].prev = node[s[k]].prev
      BY <1>6, <3>1, <3>2
    <3> HIDE DEF f
    <3> QED BY <1>2, <3>3, <3>4, <3>5, <3>6, <3>7, <3>8
  <2>3. CASE k >= f
    <3>1. t[k] = s[k + 1] /\ s[k + 1] \in Nodes /\ s[k + 1] # fcur /\ s[k + 1] # At(fcur).prev
      BY <1>0, <1>1, <1>2, <1>4, <1>5, <1>7, <2>1, <2>3, LinkedListAssumption
    <3>2. s[k + 1] = At(fcur).next <=> k = f
      BY <1>0, <1>1, <1>2, <1>5, <2>1, <2>3, <3>1, LinkedListAssumption
    <3>3. /\ node[s[k + 1]].data \in Data /\ node[s[k + 1]].prev = s[k]
          /\ node[s[k + 1]].next = IF k + 1 = size THEN NULL ELSE s[k + 2]
      BY <1>0, <1>1, <2>1, <2>3 DEF Links
    <3>4. k # size' => t[k + 1] = s[k + 2]
      BY <1>0, <1>1, <1>3, <1>4, <2>1, <2>3
    <3>5. k # f => k # 1 /\ t[k - 1] = s[k]
      BY <1>0, <1>1, <1>3, <1>4, <2>1, <2>3
    <3>6. k = f /\ f # 1 => t[k - 1] = s[f - 1]
      BY <1>0, <1>1, <1>3, <1>4, <2>1, <2>3
    <3>7. k = size' <=> k + 1 = size
      BY <1>0, <1>3, <2>1
    <3>8. /\ node'[t[k]].data = node[s[k + 1]].data
          /\ node'[t[k]].next = node[s[k + 1]].next
          /\ node'[t[k]].prev = IF k = f THEN At(fcur).prev ELSE node[s[k + 1]].prev
      BY <1>6, <3>1, <3>2
    <3> HIDE DEF f
    <3> QED BY <1>2, <3>3, <3>4, <3>5, <3>6, <3>7, <3>8
  <2> QED BY <1>0, <2>1, <2>2, <2>3
<1>9. \A j, k \in 1 .. size' : t[j] = t[k] => j = k
  BY <1>0, <1>3, <1>4, <1>5
<1>10. live' = {t[k] : k \in 1 .. size'}
  <2>1. live = {s[k] : k \in 1 .. size}
    BY DEF Links
  <2>2. ASSUME NEW k \in 1 .. size' PROVE t[k] \in live'
    <3>1. CASE k <= fidx
      BY <1>0, <1>3, <1>4, <1>7, <2>1, <3>1
    <3>2. CASE ~(k <= fidx)
      <4>1. k + 1 \in 1 .. size /\ k + 1 # f /\ t[k] = s[k + 1]
        BY <1>0, <1>3, <1>4, <3>2
      <4> QED BY <1>3, <1>7, <2>1, <4>1
    <3> QED BY <3>1, <3>2
  <2>3. ASSUME NEW m \in live' PROVE \E k \in 1 .. size' : m = t[k]
    <3>1. PICK j \in 1 .. size : m = s[j] /\ j # f
      BY <1>1, <1>3, <2>1
    <3>2. CASE j <= fidx
      BY <1>0, <1>1, <1>3, <1>4, <3>1, <3>2
    <3>3. CASE ~(j <= fidx)
      <4>1. j - 1 \in 1 .. size' /\ t[j - 1] = s[(j - 1) + 1] /\ (j - 1) + 1 = j
        BY <1>0, <1>1, <1>3, <1>4, <3>1, <3>3
      <4> QED BY <3>1, <4>1
    <3> QED BY <3>2, <3>3
  <2> QED BY <2>2, <2>3
<1>11. size' > 0 => first' = t[1] /\ last' = t[size']
  <2> SUFFICES ASSUME size' > 0 PROVE first' = t[1] /\ last' = t[size']
    OBVIOUS
  <2>1. first = s[1] /\ last = s[size] /\ 1 \in 1 .. size' /\ size' \in 1 .. size'
    BY <1>0, <1>3 DEF Links
  <2>2. CASE fidx = size - 1
    <3>1. first' = first /\ last' = s[size - 1] /\ 1 <= fidx /\ size' <= fidx
      BY <1>0, <1>2, <1>3, <2>2 DEF MoveEnds
    <3> QED BY <1>0, <1>3, <1>4, <2>1, <3>1
  <2>3. CASE fidx # size - 1 /\ fidx = 0
    <3>1. first' = s[2] /\ last' = last
      BY <1>0, <1>2, <1>3, <2>3 DEF MoveEnds
    <3> QED BY <1>0, <1>3, <1>4, <2>1, <2>3, <3>1
  <2>4. CASE fidx # size - 1 /\ fidx # 0
    <3>1. first' = first /\ last' = last
      BY <1>3, <2>4 DEF MoveEnds
    <3> QED BY <1>0, <1>1, <1>3, <1>4, <2>1, <2>4, <3>1
  <2> QED BY <2>2, <2>3, <2>4
<1>12. Links(t)'
  BY <1>8, <1>9, <1>10, <1>11 DEF Links
<1>13. first' \in Nodes \cup {NULL} /\ last' \in Nodes \cup {NULL}
  <2>1. /\ At(fcur).next \in Nodes \cup {NULL} /\ At(fcur).prev \in Nodes \cup {NULL}
    BY <1>0, <1>1, <1>2
  <2> QED BY <1>3, <2>1 DEF MoveEnds, TypeOK
<1>14. node' \in [Nodes -> [data : Data \cup {JUNK}, next : Ptr, prev : Ptr]]
  <2>1. At(fcur).next \in Ptr /\ At(fcur).prev \in Ptr
    BY <1>0, <1>1, <1>2 DEF Ptr
  <2>2. ASSUME NEW m \in Nodes
        PROVE  Unlinked(fcur)[m] \in [data : Data \cup {JUNK}, next : Ptr, prev : Ptr]
    <3>1. node[m] \in [data : Data \cup {JUNK}, next : Ptr, prev : Ptr]
      BY <1>0
    <3> QED BY <2>1, <3>1 DEF Unlinked, Junk, Ptr
  <2> QED BY <1>3, <2>2 DEF Unlinked
<1>15. TypeOK'
  BY <1>0, <1>1, <1>3, <1>13, <1>14 DEF TypeOK, ivars, Op
<1> QED BY <1>3, <1>4, <1>12, <1>15

\* A removal, called directly or by a callback, keeps the invariant: the nodes
\* before the iteration's place stay where they are (linked_list_rem).
LEMMA RemStep ==
  ASSUME ListInv, RemReturn
  PROVE  ListInv'
<1> PICK s \in [1 .. size -> Nodes], p \in Nat : Links(s) /\ FindAt(s) /\ IterAt(s, p)
  BY DEF ListInv
<1>0. /\ TypeOK /\ size \in Nat /\ fidx \in Nat /\ iti \in Nat /\ removed \in Nat
      /\ fop = "rem" /\ UNCHANGED ivars
  BY DEF ListInv, TypeOK, RemReturn
<1>1. TypeOK' /\ fop' = "none" /\ size' = size - 1
  BY <1>0, RemLinks
<1>2. PICK t \in [1 .. size' -> Nodes] :
        /\ Links(t)'
        /\ \A k \in 1 .. size' : t[k] = IF k <= fidx THEN s[k] ELSE s[k + 1]
  BY <1>0, RemLinks
<1>3. FindAt(t)'
  BY <1>1 DEF FindAt
<1>4. IterAt(t, p)'
  <2>1. CASE itpc = "off"
    BY <1>0, <1>1, <2>1 DEF IterAt, ivars
  <2>2. CASE itpc # "off"
    <3>1. itpc = "invalidated" /\ RemovingAt(s, p)
      BY <1>0, <2>2 DEF IterAt, VisitAt, AdvanceAt, RemovedAt, TypeOK
    <3>2. fidx = iti /\ fidx < size
      BY <1>0, <3>1 DEF RemovingAt, FindAt
    <3>3. iti <= size' /\ p <= iti
      BY <1>0, <1>1, <3>1, <3>2 DEF RemovingAt
    <3>4. ASSUME NEW k \in 1 .. p PROVE t[k] = s[k] /\ s[k] \in visited
      BY <1>0, <1>1, <1>2, <3>1, <3>2, <3>3 DEF RemovingAt
    <3>5. p = 0 /\ iti = 1 => t[1] \in visited
      BY <1>0, <1>1, <1>2, <3>1, <3>2, <3>3 DEF RemovingAt
    <3>6. p > 0 => itlast = t[p]
      BY <1>0, <3>1, <3>4 DEF RemovingAt
    <3>7. RemovedAt(t, p)'
      BY <1>0, <1>1, <3>1, <3>3, <3>4, <3>5, <3>6 DEF RemovedAt, RemovingAt, ivars
    <3> QED BY <1>0, <1>1, <3>1, <3>7 DEF IterAt, ivars
  <2> QED BY <2>1, <2>2
<1> QED BY <1>1, <1>2, <1>3, <1>4 DEF ListInv

\* A search is started, or an index out of range refused (linked_list_get,
\* linked_list_rem).
LEMMA CallStep ==
  ASSUME ListInv, NEW i \in 0 .. size, linked_list_get(i) \/ linked_list_rem(i)
  PROVE  ListInv'
<1> PICK s \in [1 .. size -> Nodes], p \in Nat : Links(s) /\ FindAt(s) /\ IterAt(s, p)
  BY DEF ListInv
<1>0. /\ TypeOK /\ size \in Nat /\ i \in Nat /\ fop = "none" /\ itpc = "off"
      /\ UNCHANGED <<lvars, ivars>>
  BY DEF ListInv, TypeOK, linked_list_get, linked_list_rem, Idle
<1>1. CASE i < size
  <2>1. PICK op \in {"get", "rem"} : FindStart(i, op) /\ UNCHANGED ret
    BY <1>1 DEF linked_list_get, linked_list_rem
  <2>2. /\ Links(s)' /\ FindAt(s)' /\ fop' = op /\ fidx' = i
        /\ fi' \in Nat /\ fcur' \in Nodes /\ fdir' \in {"next", "prev"}
    BY <1>0, <1>1, <2>1, FindStartAt
  <2>3. TypeOK'
    BY <1>0, <2>1, <2>2 DEF TypeOK, lvars, ivars
  <2>4. IterAt(s, p)'
    BY <1>0 DEF IterAt, ivars
  <2> QED BY <1>0, <2>2, <2>3, <2>4 DEF ListInv, lvars
<1>2. CASE ~(i < size)
  <2>1. ret'.val = NULL /\ UNCHANGED fvars
    BY <1>2 DEF linked_list_get, linked_list_rem, Op
  <2>2. TypeOK'
    BY <1>0, <2>1 DEF TypeOK, lvars, fvars, ivars
  <2>3. Links(s)' /\ FindAt(s)' /\ IterAt(s, p)'
    BY <1>0, <2>1 DEF Links, FindAt, IterAt, lvars, fvars, ivars
  <2> QED BY <1>0, <2>2, <2>3 DEF ListInv, lvars
<1> QED BY <1>1, <1>2

\* The object at the index is returned (linked_list_get).
LEMMA GetStep ==
  ASSUME ListInv, GetReturn
  PROVE  ListInv'
<1> PICK s \in [1 .. size -> Nodes], p \in Nat : Links(s) /\ FindAt(s) /\ IterAt(s, p)
  BY DEF ListInv
<1>0. /\ TypeOK /\ fop = "get" /\ fi = 0 /\ fop' = "none" /\ fidx' = 0 /\ fcur' = NULL
      /\ fi' = 0 /\ fdir' = "next" /\ UNCHANGED <<lvars, ivars>>
      /\ ret' = Op("linked_list_get", fidx, At(fcur).data)
  BY DEF ListInv, GetReturn, FindEnd
<1>1. At(fcur).data \in Data
  BY <1>0, Found
<1>2. TypeOK'
  BY <1>0, <1>1 DEF TypeOK, lvars, ivars, Op
<1>3. itpc = "off"
  BY <1>0 DEF IterAt
<1>4. Links(s)' /\ FindAt(s)' /\ IterAt(s, p)'
  BY <1>0, <1>3 DEF Links, FindAt, IterAt, lvars, ivars
<1> QED BY <1>0, <1>2, <1>4 DEF ListInv, lvars

\* An iteration starts at the first node (linked_list_iter).
LEMMA IterStartStep ==
  ASSUME ListInv, linked_list_iter
  PROVE  ListInv'
<1> PICK s \in [1 .. size -> Nodes], p \in Nat : Links(s) /\ FindAt(s) /\ IterAt(s, p)
  BY DEF ListInv
<1>0. /\ TypeOK /\ fop = "none" /\ UNCHANGED <<lvars, ret, fvars>>
      /\ itpc' = "visit" /\ iti' = 0 /\ itcur' = first /\ itlast' = NULL
      /\ visited' = {} /\ removed' = 0
  BY DEF ListInv, linked_list_iter, Idle
<1>1. TypeOK'
  BY <1>0 DEF TypeOK, lvars, fvars, Ptr
<1>2. Links(s)' /\ FindAt(s)'
  BY <1>0 DEF Links, FindAt, lvars, fvars
<1>3. IterAt(s, 0)'
  BY <1>0 DEF IterAt, VisitAt, Behind, Links, lvars, fvars, TypeOK
<1> QED BY <1>0, <1>1, <1>2, <1>3 DEF ListInv, lvars

\* The node the callback is given, and its place (linked_list_iter).
LEMMA AtVisit ==
  ASSUME TypeOK, IterMore, NEW s \in [1 .. size -> Nodes], NEW p \in Nat,
         Links(s), IterAt(s, p)
  PROVE  /\ size \in Nat /\ iti \in Nat /\ removed \in Nat /\ iti < size /\ fop = "none"
         /\ Behind(s, p, iti) /\ p + 1 \in 1 .. size
         /\ itcur = s[p + 1] /\ itcur \in Nodes /\ (p > 0 => itlast = s[p])
         /\ At(itcur).next = IF p + 1 = size THEN NULL ELSE s[p + 2]
<1>1. /\ size \in Nat /\ iti \in Nat /\ removed \in Nat /\ iti < size /\ fop = "none"
      /\ Behind(s, p, iti) /\ itcur = s[p + 1] /\ (p > 0 => itlast = s[p])
  BY DEF TypeOK, IterMore, IterAt, VisitAt
<1>2. p + 1 \in 1 .. size /\ (p + 1) + 1 = p + 2
  BY <1>1 DEF Behind
<1>3. s[p + 1] \in Nodes /\ node[s[p + 1]].next = IF p + 1 = size THEN NULL ELSE s[p + 2]
  BY <1>2 DEF Links
<1> QED BY <1>1, <1>2, <1>3 DEF At

\* The callback keeps its object: the iteration moves to the next node
\* (linked_list_iter).
LEMMA KeepStep ==
  ASSUME ListInv, VisitKeeps
  PROVE  ListInv'
<1> PICK s \in [1 .. size -> Nodes], p \in Nat : Links(s) /\ FindAt(s) /\ IterAt(s, p)
  BY DEF ListInv
<1>0. /\ TypeOK /\ IterMore /\ itcur' = At(itcur).next /\ itpc' = "advance"
      /\ visited' = visited \cup {itcur}
      /\ UNCHANGED <<lvars, ret, fvars, iti, itlast, removed>>
  BY DEF ListInv, VisitKeeps
<1>1. /\ size \in Nat /\ iti \in Nat /\ removed \in Nat /\ iti < size /\ fop = "none"
      /\ Behind(s, p, iti) /\ p + 1 \in 1 .. size
      /\ itcur = s[p + 1] /\ itcur \in Nodes
      /\ At(itcur).next = IF p + 1 = size THEN NULL ELSE s[p + 2]
  BY <1>0, AtVisit
<1>2. TypeOK'
  <2>1. At(itcur).next \in Nodes \cup {NULL}
    BY <1>1
  <2> QED BY <1>0, <1>1, <2>1 DEF TypeOK, lvars, fvars
<1>3. Links(s)' /\ FindAt(s)'
  BY <1>0 DEF Links, FindAt, lvars, fvars
<1>4. Behind(s, p + 1, iti + 1)'
  BY <1>0, <1>1 DEF Behind, lvars
<1>5. iti + 1 < size => itcur' = s[(p + 1) + 1]
  <2>1. (p + 1) + 1 = p + 2 /\ (iti + 1 < size => p + 1 # size)
    BY <1>1 DEF Behind
  <2> QED BY <1>0, <1>1, <2>1
<1>6. IterAt(s, p + 1)'
  BY <1>0, <1>1, <1>4, <1>5 DEF IterAt, AdvanceAt, lvars, fvars
<1> QED BY <1>0, <1>2, <1>3, <1>6 DEF ListInv, lvars

\* The callback starts to remove its index (linked_list_iter).
LEMMA InvalidateStep ==
  ASSUME ListInv, VisitInvalidates
  PROVE  ListInv'
<1> PICK s \in [1 .. size -> Nodes], p \in Nat : Links(s) /\ FindAt(s) /\ IterAt(s, p)
  BY DEF ListInv
<1>0. /\ TypeOK /\ IterMore /\ FindStart(iti, "rem") /\ itpc' = "invalidated"
      /\ visited' = visited \cup {itcur} /\ removed' = removed + 1
      /\ UNCHANGED <<lvars, ret, iti, itcur, itlast>> /\ UNCHANGED lvars
  BY DEF ListInv, VisitInvalidates
<1>1. /\ size \in Nat /\ iti \in Nat /\ removed \in Nat /\ iti < size /\ fop = "none"
      /\ Behind(s, p, iti) /\ p + 1 \in 1 .. size
      /\ itcur = s[p + 1] /\ itcur \in Nodes /\ (p > 0 => itlast = s[p])
  BY <1>0, AtVisit
<1>2. /\ Links(s)' /\ FindAt(s)' /\ fop' = "rem" /\ fidx' = iti
      /\ fi' \in Nat /\ fcur' \in Nodes /\ fdir' \in {"next", "prev"}
  BY <1>0, <1>1, FindStartAt
<1>3. TypeOK'
  BY <1>0, <1>1, <1>2 DEF TypeOK, lvars
<1>4. RemovingAt(s, p)'
  BY <1>0, <1>1, <1>2 DEF RemovingAt, Behind, lvars
<1> QED BY <1>0, <1>2, <1>3, <1>4 DEF ListInv, IterAt, lvars

\* After a removal the iteration finds its place again from the nodes before
\* it (linked_list_iter).
LEMMA ReseatStep ==
  ASSUME ListInv, Reseat
  PROVE  ListInv'
<1> PICK s \in [1 .. size -> Nodes], p \in Nat : Links(s) /\ FindAt(s) /\ IterAt(s, p)
  BY DEF ListInv
<1>0. /\ TypeOK /\ size \in Nat /\ iti \in Nat /\ removed \in Nat
      /\ itpc = "invalidated" /\ fop = "none" /\ itcur' = ReseatedCur /\ itpc' = "advance"
      /\ UNCHANGED <<lvars, ret, fvars, iti, itlast, visited, removed>>
  BY DEF ListInv, TypeOK, Reseat
<1>1. RemovedAt(s, p)
  BY <1>0 DEF IterAt, RemovingAt
<1>2. Links(s)' /\ FindAt(s)'
  BY <1>0 DEF Links, FindAt, lvars, fvars
<1>3. \E q \in Nat : AdvanceAt(s, q)' /\ itcur' \in Nodes \cup {NULL}
  <2>1. CASE iti = 0
    <3>1. ReseatedCur = first /\ p = 0
      BY <1>0, <1>1, <2>1 DEF ReseatedCur, RemovedAt
    <3>2. AdvanceAt(s, 0)'
      BY <1>0, <1>1, <2>1, <3>1 DEF AdvanceAt, Behind, RemovedAt, Links, lvars, fvars
    <3> QED BY <1>0, <3>1, <3>2 DEF TypeOK
  <2>2. CASE iti = 1
    <3>1. ReseatedCur = At(first).next /\ size >= 1 /\ 1 \in 1 .. size
      BY <1>0, <1>1, <2>2 DEF ReseatedCur, RemovedAt
    <3>2. first = s[1] /\ s[1] \in Nodes /\ At(first).next = IF 1 = size THEN NULL ELSE s[1 + 1]
      BY <1>0, <3>1 DEF Links, At
    <3>3. s[1] \in visited /\ removed >= 1
      BY <1>0, <1>1, <2>2 DEF RemovedAt
    <3>4. AdvanceAt(s, 1)'
      BY <1>0, <2>2, <3>1, <3>2, <3>3 DEF AdvanceAt, Behind, lvars, fvars
    <3> QED BY <1>0, <3>1, <3>2, <3>4
  <2>3. CASE iti >= 2
    <3>1. ReseatedCur = At(itlast).next /\ p > 0 /\ p \in 1 .. size /\ itlast = s[p]
      BY <1>0, <1>1, <2>3 DEF ReseatedCur, RemovedAt
    <3>2. s[p] \in Nodes /\ At(itlast).next = IF p = size THEN NULL ELSE s[p + 1]
      BY <1>0, <3>1 DEF Links, At
    <3>3. AdvanceAt(s, p)'
      BY <1>0, <1>1, <3>1, <3>2 DEF AdvanceAt, Behind, RemovedAt, lvars, fvars
    <3>4. itcur' \in Nodes \cup {NULL}
      BY <1>0, <3>1, <3>2
    <3> QED BY <3>3, <3>4
  <2> QED BY <1>0, <2>1, <2>2, <2>3
<1>4. TypeOK'
  BY <1>0, <1>3 DEF TypeOK, lvars, fvars
<1> QED BY <1>0, <1>2, <1>3, <1>4 DEF ListInv, IterAt, lvars, fvars

\* The iteration counts on and remembers the node before (linked_list_iter).
LEMMA AdvanceStep ==
  ASSUME ListInv, IterAdvance
  PROVE  ListInv'
<1> PICK s \in [1 .. size -> Nodes], p \in Nat : Links(s) /\ FindAt(s) /\ IterAt(s, p)
  BY DEF ListInv
<1>0. /\ TypeOK /\ size \in Nat /\ iti \in Nat /\ removed \in Nat
      /\ itpc = "advance" /\ iti' = iti + 1 /\ itpc' = "visit"
      /\ itlast' = IF itcur # NULL THEN At(itcur).prev ELSE itlast
      /\ UNCHANGED <<lvars, ret, fvars, itcur, visited, removed>>
  BY DEF ListInv, TypeOK, IterAdvance
<1>1. AdvanceAt(s, p)
  BY <1>0 DEF IterAt
<1>2. Links(s)' /\ FindAt(s)'
  BY <1>0 DEF Links, FindAt, lvars, fvars
<1>3. TypeOK'
  <2>1. At(itcur).prev \in Ptr
    BY <1>0 DEF At, Junk, Ptr, TypeOK
  <2> QED BY <1>0, <2>1 DEF TypeOK, lvars, fvars
<1>4. ASSUME iti + 1 < size PROVE itcur = s[p + 1] /\ (p > 0 => itlast' = s[p])
  <2>1. itcur = s[p + 1] /\ p + 1 \in 1 .. size
    BY <1>0, <1>1, <1>4 DEF AdvanceAt, Behind
  <2>2. s[p + 1] \in Nodes /\ node[s[p + 1]].prev = IF p + 1 = 1 THEN NULL ELSE s[p + 1 - 1]
    BY <2>1 DEF Links
  <2>3. p + 1 - 1 = p /\ (p > 0 => p + 1 # 1)
    OBVIOUS
  <2> QED BY <1>0, <2>1, <2>2, <2>3, LinkedListAssumption DEF At
<1>5. VisitAt(s, p)'
  BY <1>0, <1>1, <1>4 DEF VisitAt, AdvanceAt, Behind, lvars, fvars
<1> QED BY <1>0, <1>1, <1>2, <1>3, <1>5 DEF ListInv, IterAt, AdvanceAt, lvars, fvars

\* The invariant depends on nothing else (a refused linked_list_push).
LEMMA SameState ==
  ASSUME ListInv, UNCHANGED <<lvars, fvars, ivars>>, TypeOK'
  PROVE  ListInv'
<1> PICK s \in [1 .. size -> Nodes], p \in Nat : Links(s) /\ FindAt(s) /\ IterAt(s, p)
  BY DEF ListInv
<1>1. Links(s)' /\ FindAt(s)'
  BY DEF Links, FindAt, lvars, fvars
<1>2. IterAt(s, p)'
  BY DEF IterAt, VisitAt, RemovingAt, RemovedAt, AdvanceAt, Behind, lvars, fvars, ivars
<1> QED BY <1>1, <1>2 DEF ListInv, lvars

\* Every step keeps the invariant (linked_list.c).
LEMMA ListInvStep == ListInv /\ [Next]_vars => ListInv'
<1> SUFFICES ASSUME ListInv, [Next]_vars PROVE ListInv'
  OBVIOUS
<1>1. ASSUME NEW d \in Data, linked_list_push(d) PROVE ListInv'
  <2>1. CASE \E n \in Nodes \ live : PushNode(d, n)
    BY <1>1, <2>1, PushStep DEF linked_list_push
  <2>2. CASE ret' = Op("linked_list_push", d, -1) /\ UNCHANGED lvars
    <3>1. UNCHANGED <<fvars, ivars>>
      BY <1>1 DEF linked_list_push
    <3>2. TypeOK'
      BY <2>2, <3>1 DEF ListInv, TypeOK, lvars, fvars, ivars, Op
    <3> QED BY <2>2, <3>1, <3>2, SameState
  <2> QED BY <1>1, <2>1, <2>2 DEF linked_list_push
<1>2. ASSUME NEW i \in 0 .. size, linked_list_get(i) \/ linked_list_rem(i) PROVE ListInv'
  BY <1>2, CallStep
<1>3. CASE linked_list_iter
  BY <1>3, IterStartStep
<1>4. CASE Running
  <2>1. CASE IterReturn
    <3>1. /\ itpc' = "off" /\ iti' = 0 /\ itcur' = NULL /\ itlast' = NULL
          /\ visited' = {} /\ removed' = 0 /\ UNCHANGED <<lvars, ret, fvars>>
          /\ itpc = "visit"
      BY <2>1 DEF IterReturn
    <3>2. TypeOK'
      BY <3>1 DEF ListInv, TypeOK, lvars, fvars, Ptr
    <3> PICK s \in [1 .. size -> Nodes], p \in Nat : Links(s) /\ FindAt(s) /\ IterAt(s, p)
      BY DEF ListInv
    <3>3. Links(s)' /\ FindAt(s)' /\ IterAt(s, p)'
      BY <3>1 DEF Links, FindAt, IterAt, VisitAt, lvars, fvars
    <3> QED BY <3>1, <3>2, <3>3 DEF ListInv, lvars
  <2> QED BY <1>4, <2>1, FindHopStep, GetStep, RemStep, KeepStep, InvalidateStep,
             ReseatStep, AdvanceStep DEF Running
<1>5. CASE UNCHANGED vars
  <2>1. TypeOK' /\ UNCHANGED <<lvars, fvars, ivars>>
    BY <1>5 DEF vars, ListInv, TypeOK, lvars, fvars, ivars
  <2> QED BY <2>1, SameState
<1> QED BY <1>1, <1>2, <1>3, <1>4, <1>5 DEF Next

\* What the invariant says of the list and of the node visited.
LEMMA ListInvImplies == ListInv => TypeOK /\ WellFormed /\ VisitInList
<1> SUFFICES ASSUME ListInv PROVE WellFormed /\ VisitInList
  BY DEF ListInv
<1> PICK s \in [1 .. size -> Nodes], p \in Nat : Links(s) /\ FindAt(s) /\ IterAt(s, p)
  BY DEF ListInv
<1>1. s \in [1 .. size -> live]
  BY DEF Links
<1>2. ASSUME IterMore
      PROVE  /\ p \in 0 .. iti /\ iti - p <= removed /\ itcur = s[p + 1]
             /\ \A k \in 1 .. p : s[k] \in visited
  BY <1>2, AtVisit DEF ListInv, Behind
<1> QED BY <1>1, <1>2 DEF WellFormed, VisitInList

\* For every list: the links, the ends and the size describe one list of all
\* nodes in use, also while callbacks remove nodes from under an iteration, and
\* a callback is given a node of that list, never a removed one (linked_list_push,
\* linked_list_rem, linked_list_iter).
THEOREM ListSafety == Spec => [](TypeOK /\ WellFormed /\ VisitInList)
BY ListInvInit, ListInvStep, ListInvImplies, PTL DEF Spec

\* What a node of the list points to next is a node of the list, or nothing.
LEMMA NextIsLive ==
  ASSUME TypeOK, NEW s \in [1 .. size -> Nodes], Links(s), NEW k \in 1 .. size
  PROVE  At(s[k]).next \in live \cup {NULL}
<1>1. s[k] \in Nodes /\ size \in Nat
  BY DEF TypeOK
<1>2. At(s[k]) = node[s[k]]
  BY <1>1, LinkedListAssumption DEF At
<1>3. node[s[k]].next = IF k = size THEN NULL ELSE s[k + 1]
  BY DEF Links
<1>4. k # size => s[k + 1] \in live
  BY <1>1 DEF Links
<1> QED BY <1>2, <1>3, <1>4

\* A list that had a node keeps pointing to one, or to what was one, with first.
KeepsFirst == itpc = "invalidated" => first # NULL

\* No removal sets first to NULL (linked_list_rem).
LEMMA KeepsFirstStep == ListInv /\ KeepsFirst /\ [Next]_vars => KeepsFirst'
<1> SUFFICES ASSUME ListInv, KeepsFirst, [Next]_vars, itpc' = "invalidated"
             PROVE  first' # NULL
  BY DEF KeepsFirst
<1> PICK s \in [1 .. size -> Nodes], p \in Nat : Links(s) /\ FindAt(s) /\ IterAt(s, p)
  BY DEF ListInv
<1>0. TypeOK /\ size \in Nat /\ iti \in Nat /\ NULL \notin Nodes
  BY LinkedListAssumption DEF ListInv, TypeOK
<1>1. CASE VisitInvalidates
  <2>1. iti < size /\ first' = first
    BY <1>1 DEF VisitInvalidates, IterMore, lvars
  <2>2. first = s[1] /\ s[1] \in Nodes
    BY <2>1, <1>0 DEF Links
  <2> QED BY <2>1, <2>2, <1>0
<1>2. CASE RemReturn
  <2>1. /\ itpc = "invalidated" /\ fop = "rem" /\ size' = size - 1 /\ MoveEnds
    BY <1>2 DEF RemReturn, ivars
  <2>2. CASE fidx = size - 1
    BY <2>1, <2>2 DEF MoveEnds, KeepsFirst
  <2>3. CASE fidx # size - 1
    <3>1. fidx < size /\ fidx \in Nat
      BY <2>1, <1>0 DEF FindAt, TypeOK
    <3>2. size' > 0 /\ size' \in Nat
      BY <2>1, <2>3, <3>1, <1>0
    <3>3. ListInv'
      BY ListInvStep
    <3>4. PICK t \in [1 .. size' -> Nodes] : Links(t)'
      BY <3>3 DEF ListInv
    <3>5. first' = t[1] /\ t[1] \in Nodes
      BY <3>2, <3>4 DEF Links
    <3> QED BY <3>5, <1>0
  <2> QED BY <2>2, <2>3
<1>3. CASE UNCHANGED <<itpc, first>>
  BY <1>3 DEF KeepsFirst
<1>4. ASSUME ~VisitInvalidates, ~RemReturn PROVE UNCHANGED <<itpc, first>>
  <2>1. CASE UNCHANGED vars
    BY <2>1 DEF vars, lvars, ivars
  <2>2. ASSUME NEW d \in Data, linked_list_push(d) PROVE FALSE
    BY <2>2 DEF linked_list_push, Idle, ivars
  <2>3. ASSUME NEW i \in 0 .. size, linked_list_get(i) \/ linked_list_rem(i) PROVE FALSE
    BY <2>3 DEF linked_list_get, linked_list_rem, Idle, ivars
  <2>4. CASE linked_list_iter
    BY <2>4 DEF linked_list_iter
  <2>5. CASE FindHop
    BY <2>5 DEF FindHop, ivars, lvars
  <2>6. CASE GetReturn
    BY <2>6 DEF GetReturn, ivars, lvars
  <2>7. CASE VisitKeeps \/ Reseat \/ IterAdvance \/ IterReturn
    BY <2>7 DEF VisitKeeps, Reseat, IterAdvance, IterReturn
  <2> QED BY <1>4, <2>1, <2>2, <2>3, <2>4, <2>5, <2>6, <2>7 DEF Next, Running
<1> QED BY <1>1, <1>2, <1>3, <1>4

\* A callback that keeps its object, or the search for the place after one
\* that did not, ends on a node of the list unless the list is empty; then it
\* ends on what first is left at (linked_list_iter).
LEMMA AdvanceOnLiveStep ==
  ListInv /\ KeepsFirst /\ AdvanceOnLive /\ [Next]_vars => AdvanceOnLive'
<1> SUFFICES ASSUME ListInv, KeepsFirst, AdvanceOnLive, [Next]_vars, itpc' = "advance"
             PROVE  itcur' \in live' \cup {NULL} <=> size' # 0
  BY DEF AdvanceOnLive
<1> PICK s \in [1 .. size -> Nodes], p \in Nat : Links(s) /\ FindAt(s) /\ IterAt(s, p)
  BY DEF ListInv
<1>0. TypeOK /\ size \in Nat /\ iti \in Nat
  BY DEF ListInv, TypeOK
<1>1. CASE VisitKeeps
  <2>1. itcur' = At(itcur).next /\ live' = live /\ size' = size /\ IterMore
    BY <1>1 DEF VisitKeeps, lvars
  <2>2. itcur = s[p + 1] /\ p \in 0 .. iti /\ iti < size
    BY <2>1, <1>0, AtVisit DEF IterMore, ListInv, Behind
  <2>3. p + 1 \in 1 .. size
    BY <2>2, <1>0
  <2> QED BY <2>1, <2>2, <2>3, <1>0, NextIsLive
<1>2. CASE Reseat
  <2>1. /\ itcur' = ReseatedCur /\ live' = live /\ size' = size
        /\ itpc = "invalidated" /\ fop = "none"
    BY <1>2 DEF Reseat, lvars
  <2>2. RemovedAt(s, p)
    BY <2>1 DEF IterAt, RemovingAt
  <2>3. CASE iti = 0 /\ size # 0
    <3>1. first = s[1] /\ first \in live
      BY <2>1, <2>3, <1>0 DEF Links
    <3> QED BY <2>1, <2>3, <3>1 DEF ReseatedCur
  <2>a. CASE iti = 0 /\ size = 0
    <3>1. live = {} /\ first # NULL
      BY <2>1, <2>a DEF Links, KeepsFirst
    <3> QED BY <2>1, <2>a, <3>1 DEF ReseatedCur
  <2>4. CASE iti = 1
    <3>1. 1 \in 1 .. size /\ first = s[1]
      BY <2>2, <2>4, <1>0 DEF Links, RemovedAt
    <3> QED BY <2>1, <2>4, <3>1, <1>0, NextIsLive DEF ReseatedCur
  <2>5. CASE iti > 1
    <3>1. p \in 1 .. size /\ itlast = s[p]
      BY <2>2, <2>5, <1>0 DEF RemovedAt
    <3> QED BY <2>1, <2>5, <3>1, <1>0, NextIsLive DEF ReseatedCur
  <2> QED BY <2>3, <2>a, <2>4, <2>5, <1>0
<1>3. CASE UNCHANGED <<itpc, itcur, live, size>>
  BY <1>3 DEF AdvanceOnLive
<1>4. ASSUME ~VisitKeeps, ~Reseat PROVE UNCHANGED <<itpc, itcur, live, size>>
  <2>1. CASE UNCHANGED vars
    BY <2>1 DEF vars, lvars, ivars
  <2>2. ASSUME NEW d \in Data, linked_list_push(d) PROVE FALSE
    BY <2>2 DEF linked_list_push, Idle, ivars
  <2>3. ASSUME NEW i \in 0 .. size, linked_list_get(i) \/ linked_list_rem(i) PROVE FALSE
    BY <2>3 DEF linked_list_get, linked_list_rem, Idle, ivars
  <2>4. CASE linked_list_iter
    BY <2>4 DEF linked_list_iter
  <2>5. CASE FindHop
    BY <2>5 DEF FindHop, ivars, lvars
  <2>6. CASE GetReturn
    BY <2>6 DEF GetReturn, ivars, lvars
  <2>7. CASE RemReturn
    <3>1. fop = "rem" /\ itpc = "advance"
      BY <2>7 DEF RemReturn, ivars
    <3> QED BY <3>1 DEF IterAt, AdvanceAt
  <2>8. CASE VisitInvalidates \/ IterAdvance \/ IterReturn
    BY <2>8 DEF VisitInvalidates, IterAdvance, IterReturn
  <2> QED BY <1>4, <2>1, <2>2, <2>3, <2>4, <2>5, <2>6, <2>7, <2>8 DEF Next, Running
<1> QED BY <1>1, <1>2, <1>3, <1>4

\* A callback of an iteration is given a node of the list, never a removed one
\* (linked_list_iter).
THEOREM ListVisits == Spec => []VisitInList
BY ListSafety, PTL

\* For any number of nodes: an iteration goes on with a node of the list, or
\* NULL, as long as its callbacks left one, and with memory given back when they
\* removed the only one (linked_list_iter, linked_list_rem).
THEOREM ListAdvances == Spec => []AdvanceOnLive
<1>1. Init => KeepsFirst /\ AdvanceOnLive
  BY DEF Init, KeepsFirst, AdvanceOnLive
<1> QED BY <1>1, ListInvInit, ListInvStep, KeepsFirstStep, AdvanceOnLiveStep, PTL DEF Spec

\* The image of a finite set under a function is no larger.
LEMMA ImageSize ==
  ASSUME NEW a \in Nat, NEW b \in Nat, a <= b, NEW f
  PROVE  /\ IsFiniteSet({f[k] : k \in a + 1 .. b})
         /\ Cardinality({f[k] : k \in a + 1 .. b}) <= b - a
<1> DEFINE S == a + 1 .. b
           T == {f[k] : k \in S}
           g == [k \in S |-> f[k]]
<1>1. IsFiniteSet(S) /\ Cardinality(S) = b - a
  <2>1. a + 1 \in Int /\ b \in Int
    OBVIOUS
  <2>2. IsFiniteSet(S) /\ Cardinality(S) = IF a + 1 > b THEN 0 ELSE b - (a + 1) + 1
    BY <2>1, FS_Interval
  <2> HIDE DEF S
  <2> QED BY <2>2
<1>2. g \in Surjection(S, T)
  BY DEF Surjection
<1> QED BY <1>1, <1>2, FS_Surjection

\* When the loop ends, index i has passed the last node, and the nodes not
\* visited are among those between the iteration's place and index i.
LEMMA PassEndsCovered == ListInv => PassCoverage
<1> SUFFICES ASSUME ListInv, itpc = "visit", ~IterMore
             PROVE  Cardinality(live \ visited) <= removed
  BY DEF PassCoverage
<1> PICK s \in [1 .. size -> Nodes], p \in Nat : Links(s) /\ FindAt(s) /\ IterAt(s, p)
  BY DEF ListInv
<1>1. /\ size \in Nat /\ iti \in Nat /\ removed \in Nat /\ size <= iti
      /\ p <= iti /\ iti - p <= removed /\ \A k \in 1 .. p : k <= size => s[k] \in visited
  BY DEF ListInv, TypeOK, IterMore, IterAt, VisitAt, Behind
<1>2. live = {s[k] : k \in 1 .. size}
  BY DEF Links
<1>3. CASE p >= size
  <2>1. live \ visited = {}
    BY <1>1, <1>2, <1>3
  <2>2. Cardinality({}) = 0
    BY FS_EmptySet
  <2> QED BY <1>1, <2>1, <2>2
<1>4. CASE p < size
  <2> DEFINE Left == {s[k] : k \in p + 1 .. size}
  <2>1. live \ visited \subseteq Left
    BY <1>1, <1>2
  <2>2. IsFiniteSet(Left) /\ Cardinality(Left) <= size - p
    <3>1. p <= size
      BY <1>1, <1>4
    <3> QED BY <1>1, <3>1, ImageSize
  <2> HIDE DEF Left
  <2>3. Cardinality(live \ visited) <= Cardinality(Left)
    BY <2>1, <2>2, FS_Subset
  <2>4. Cardinality(live \ visited) \in Nat /\ Cardinality(Left) \in Nat
    BY <2>1, <2>2, FS_Subset, FS_CardinalityType
  <2> QED BY <1>1, <1>4, <2>2, <2>3, <2>4
<1> QED BY <1>1, <1>3, <1>4

\* For every list and every pass: whatever its callbacks remove, it leaves at
\* most as many nodes unvisited as they removed (linked_list_iter).
THEOREM ListCoverage == Spec => []PassCoverage
BY ListInvInit, ListInvStep, PassEndsCovered, PTL DEF Spec
-----------------------------------------------------------------------------
\* Induction on the numbers, for a set of them.
LEMMA SetInduction ==
  ASSUME NEW S, 0 \in S, \A n \in Nat : n \in S => n + 1 \in S
  PROVE  Nat \subseteq S
<1> SUFFICES ASSUME Nat \ S # {} PROVE FALSE
  OBVIOUS
<1>0. \E x \in Nat \ S : \A y \in Nat \ S : x <= y
  <2> DEFINE R == OpToRel(<, Nat)
  <2>1. \A x, y \in Nat : y < x => <<y, x>> \in R
    BY DEF OpToRel
  <2>2. IsWellFoundedOn(R, Nat)
    BY NatLessThanWellFounded
  <2> HIDE DEF R
  <2>3. PICK x \in Nat \ S : \A y \in Nat \ S : ~ (<<y, x>> \in R)
    BY <2>2, WFMin
  <2>4. \A y \in Nat \ S : ~(y < x)
    BY <2>1, <2>3
  <2> QED BY <2>4
<1>1. PICK x \in Nat \ S : \A y \in Nat \ S : x <= y
  BY <1>0
<1>2. x # 0 /\ x - 1 \in Nat /\ x - 1 \in S
  BY <1>1
<1> QED BY <1>1, <1>2

\* Following the next pointers from first gives the nodes in order.
LEMMA NodesInOrder ==
  ASSUME TypeOK, NEW s \in [1 .. size -> Nodes], Links(s)
  PROVE  \A k \in 1 .. size : NodeAt[k] = s[k]
<1>0. size \in Nat
  BY DEF TypeOK
<1>1. \A k \in 1 .. size : s[k] = IF k = 1 THEN first ELSE At(s[k - 1]).next
  <2> SUFFICES ASSUME NEW k \in 1 .. size PROVE s[k] = IF k = 1 THEN first ELSE At(s[k - 1]).next
    OBVIOUS
  <2>1. k = 1 => s[k] = first
    BY <1>0 DEF Links
  <2>2. k # 1 => k - 1 \in 1 .. size /\ k - 1 # size /\ (k - 1) + 1 = k
    BY <1>0
  <2>3. k # 1 => At(s[k - 1]).next = s[k]
    BY <2>2 DEF Links, At
  <2> QED BY <2>1, <2>3
<1>2. s = [k \in 1 .. size |-> IF k = 1 THEN first ELSE At(s[k - 1]).next]
  BY <1>1
<1>3. NodeAt = [k \in 1 .. size |-> IF k = 1 THEN first ELSE At(NodeAt[k - 1]).next]
  BY <1>2 DEF NodeAt
<1>4. \A k \in 1 .. size : NodeAt[k] = IF k = 1 THEN first ELSE At(NodeAt[k - 1]).next
  BY <1>3
<1> DEFINE S == {k \in Nat : k \in 1 .. size => NodeAt[k] = s[k]}
<1>5. 0 \in S
  OBVIOUS
<1>6. ASSUME NEW n \in Nat, n \in S PROVE n + 1 \in S
  <2> SUFFICES ASSUME n + 1 \in 1 .. size PROVE NodeAt[n + 1] = s[n + 1]
    OBVIOUS
  <2>1. CASE n = 0
    BY <1>1, <1>4, <2>1
  <2>2. CASE n # 0
    <3>1. n \in 1 .. size /\ NodeAt[n] = s[n] /\ (n + 1) - 1 = n /\ n + 1 # 1
      BY <1>0, <1>6, <2>2
    <3> QED BY <1>1, <1>4, <3>1
  <2> QED BY <2>1, <2>2
<1>7. Nat \subseteq S
  <2> HIDE DEF S
  <2> QED BY <1>5, <1>6, SetInduction
<1> QED BY <1>0, <1>7

\* So the objects are those of the nodes in order.
LEMMA ObjectsInOrder ==
  TypeOK => \A s \in [1 .. size -> Nodes] :
              Links(s) => /\ Objects \in [1 .. size -> Data]
                          /\ \A k \in 1 .. size : Objects[k] = node[s[k]].data
<1> SUFFICES ASSUME TypeOK, NEW s \in [1 .. size -> Nodes], Links(s)
             PROVE  /\ Objects \in [1 .. size -> Data]
                    /\ \A k \in 1 .. size : Objects[k] = node[s[k]].data
  OBVIOUS
<1>1. \A k \in 1 .. size : NodeAt[k] = s[k] /\ s[k] \in Nodes
  BY NodesInOrder
<1>2. \A k \in 1 .. size : At(NodeAt[k]).data = node[s[k]].data
  BY <1>1 DEF At
<1>3. \A k \in 1 .. size : node[s[k]].data \in Data
  BY DEF Links
<1> QED BY <1>2, <1>3 DEF Objects

\* The same in the next state.
LEMMA ObjectsInOrderNext ==
  TypeOK' => (\A s \in [1 .. size -> Nodes] :
                Links(s) => /\ Objects \in [1 .. size -> Data]
                            /\ \A k \in 1 .. size : Objects[k] = node[s[k]].data)'
BY ObjectsInOrder, PTL

\* A list that is not written holds the same objects.
LEMMA SameObjects ==
  ASSUME ListInv, TypeOK', UNCHANGED lvars
  PROVE  Objects' = Objects
<1> PICK s \in [1 .. size -> Nodes] : Links(s)
  BY DEF ListInv
<1>1. TypeOK /\ Links(s)' /\ size' = size /\ node' = node
  BY DEF ListInv, Links, lvars
<1>2. Objects \in [1 .. size -> Data] /\ \A k \in 1 .. size : Objects[k] = node[s[k]].data
  BY <1>1, ObjectsInOrder
<1>3. Objects' \in [1 .. size -> Data] /\ \A k \in 1 .. size : Objects'[k] = node[s[k]].data
  BY <1>1, ObjectsInOrderNext
<1>4. Objects = [k \in 1 .. size |-> node[s[k]].data]
  BY <1>2
<1>5. Objects' = [k \in 1 .. size |-> node[s[k]].data]
  BY <1>3
<1> QED BY <1>4, <1>5

\* A push appends its object (linked_list_push).
LEMMA PushImplements ==
  ASSUME ListInv, NEW d \in Data, NEW n \in Nodes \ live,
         PushNode(d, n), UNCHANGED <<fvars, ivars>>
  PROVE  ListImpl!Push(d)
<1> PICK s \in [1 .. size -> Nodes] : Links(s)
  BY DEF ListInv
<1>0. TypeOK /\ size \in Nat /\ ret' = Op("linked_list_push", d, 0)
  BY DEF ListInv, TypeOK, PushNode
<1>1. /\ TypeOK' /\ size' = size + 1 /\ node'[n].data = d
      /\ \A k \in 1 .. size : node'[s[k]].data = node[s[k]].data
  BY <1>0, PushLinks
<1>2. PICK t \in [1 .. size' -> Nodes] :
        /\ Links(t)'
        /\ \A k \in 1 .. size + 1 : t[k] = IF k <= size THEN s[k] ELSE n
  BY <1>0, PushLinks
<1>3. Objects \in [1 .. size -> Data] /\ \A k \in 1 .. size : Objects[k] = node[s[k]].data
  BY <1>0, ObjectsInOrder
<1>4. Objects' \in [1 .. size' -> Data] /\ \A k \in 1 .. size' : Objects'[k] = node'[t[k]].data
  BY <1>1, <1>2, ObjectsInOrderNext
<1>5. Objects \in Seq(Data) /\ Len(Objects) = size
  BY <1>0, <1>3, IsASeq, LenProperties
<1>6. Objects' = Append(Objects, d)
  <2> DEFINE A == Append(Objects, d)
  <2>1. /\ A \in Seq(Data) /\ Len(A) = size + 1
        /\ \A k \in 1 .. size : A[k] = Objects[k]
        /\ A[size + 1] = d
    BY <1>5, AppendProperties
  <2>2. A \in [1 .. size' -> Data]
    BY <1>1, <2>1, LenProperties
  <2> HIDE DEF A
  <2>3. ASSUME NEW k \in 1 .. size' PROVE Objects'[k] = A[k]
    <3>1. CASE k = size + 1
      BY <1>0, <1>1, <1>2, <1>4, <2>1, <3>1
    <3>2. CASE k \in 1 .. size
      BY <1>0, <1>1, <1>2, <1>3, <1>4, <2>1, <3>2
    <3>3. k = size + 1 \/ k \in 1 .. size
      BY <1>0, <1>1
    <3> QED BY <3>1, <3>2, <3>3
  <2>4. A = [k \in 1 .. size' |-> A[k]]
    BY <2>2
  <2>5. Objects' = [k \in 1 .. size' |-> A[k]]
    BY <1>4, <2>3
  <2> QED BY <2>4, <2>5 DEF A
<1> QED BY <1>0, <1>6 DEF ListImpl!Push, ListImpl!Returns, Op

\* The object at the index is returned (linked_list_get).
LEMMA GetImplements ==
  ASSUME ListInv, TypeOK', GetReturn
  PROVE  \E i \in 0 .. Len(Objects) : ListImpl!Get(i)
<1> PICK s \in [1 .. size -> Nodes] : Links(s) /\ FindAt(s)
  BY DEF ListInv
<1>0. /\ TypeOK /\ size \in Nat /\ fidx \in Nat /\ fop = "get" /\ fi = 0 /\ UNCHANGED lvars
      /\ ret' = Op("linked_list_get", fidx, At(fcur).data)
  BY DEF ListInv, TypeOK, GetReturn
<1>1. fidx < size /\ fidx + 1 \in 1 .. size /\ At(fcur).data = node[s[fidx + 1]].data
  BY <1>0, Found
<1>2. Objects \in [1 .. size -> Data] /\ Objects[fidx + 1] = node[s[fidx + 1]].data
  BY <1>0, <1>1, ObjectsInOrder
<1>3. Len(Objects) = size
  BY <1>0, <1>2, IsASeq, LenProperties
<1>4. Objects' = Objects
  BY <1>0, SameObjects
<1>5. fidx \in 0 .. Len(Objects) /\ ListImpl!Get(fidx)
  BY <1>0, <1>1, <1>2, <1>3, <1>4 DEF ListImpl!Get, ListImpl!Returns, Op
<1> QED BY <1>5

\* The object at the index is taken out and returned, whichever end the search
\* came from and whoever called (linked_list_rem).
LEMMA RemImplements ==
  ASSUME ListInv, RemReturn
  PROVE  \E i \in 0 .. Len(Objects) : ListImpl!Rem(i)
<1> PICK s \in [1 .. size -> Nodes] : Links(s) /\ FindAt(s)
  BY DEF ListInv
<1>0. /\ TypeOK /\ size \in Nat /\ fidx \in Nat /\ fop = "rem" /\ fi = 0
      /\ ret' = Op("linked_list_rem", fidx, At(fcur).data)
      /\ node' = Unlinked(fcur) /\ node \in [Nodes -> [data : Data \cup {JUNK}, next : Ptr, prev : Ptr]]
  BY DEF ListInv, TypeOK, RemReturn
<1>1. /\ fidx < size /\ fidx + 1 \in 1 .. size /\ At(fcur).data = node[s[fidx + 1]].data
      /\ fcur = s[fidx + 1]
  BY <1>0, Found
<1>2. TypeOK' /\ size' = size - 1
  BY <1>0, RemLinks
<1>3. PICK t \in [1 .. size' -> Nodes] :
        /\ Links(t)'
        /\ \A k \in 1 .. size' : t[k] = IF k <= fidx THEN s[k] ELSE s[k + 1]
  BY <1>0, RemLinks
<1>4. Objects \in [1 .. size -> Data] /\ \A k \in 1 .. size : Objects[k] = node[s[k]].data
  BY <1>0, ObjectsInOrder
<1>5. Objects' \in [1 .. size' -> Data] /\ \A k \in 1 .. size' : Objects'[k] = node'[t[k]].data
  BY <1>2, <1>3, ObjectsInOrderNext
<1>6. Len(Objects) = size
  BY <1>0, <1>4, IsASeq, LenProperties
<1>7. \A m \in Nodes : m # fcur => node'[m].data = node[m].data
  BY <1>0 DEF Unlinked
<1>8. ASSUME NEW k \in 1 .. size'
      PROVE  Objects'[k] = IF k <= fidx THEN Objects[k] ELSE Objects[k + 1]
  <2>1. k \in 1 .. size /\ k + 1 \in 1 .. size
    BY <1>0, <1>2
  <2>2. \A j \in 1 .. size : j # fidx + 1 => s[j] \in Nodes /\ s[j] # fcur
    BY <1>1 DEF Links
  <2>3. CASE k <= fidx
    BY <1>0, <1>3, <1>4, <1>5, <1>7, <2>1, <2>2, <2>3
  <2>4. CASE ~(k <= fidx)
    BY <1>0, <1>3, <1>4, <1>5, <1>7, <2>1, <2>2, <2>4
  <2> QED BY <2>3, <2>4
<1>9. Objects' = ListImpl!Without(Objects, fidx)
  BY <1>2, <1>5, <1>6, <1>8 DEF ListImpl!Without
<1>10. fidx \in 0 .. Len(Objects) /\ ListImpl!Rem(fidx)
  BY <1>0, <1>1, <1>4, <1>6, <1>9 DEF ListImpl!Rem, ListImpl!Returns, Op
<1> QED BY <1>10

\* An index that is out of range is refused, one in range leaves the answer to
\* the search (linked_list_get, linked_list_rem).
LEMMA CallImplements ==
  ASSUME ListInv, TypeOK', NEW i \in 0 .. size, linked_list_get(i) \/ linked_list_rem(i)
  PROVE  \/ \E j \in 0 .. Len(Objects) : ListImpl!Get(j) \/ ListImpl!Rem(j)
         \/ UNCHANGED ListImpl!vars
<1> PICK s \in [1 .. size -> Nodes] : Links(s)
  BY DEF ListInv
<1>0. TypeOK /\ size \in Nat /\ UNCHANGED lvars
  BY DEF ListInv, TypeOK, linked_list_get, linked_list_rem
<1>1. Len(Objects) = size
  BY <1>0, ObjectsInOrder, IsASeq, LenProperties
<1>2. Objects' = Objects
  BY <1>0, SameObjects
<1>3. CASE i < size
  BY <1>2, <1>3 DEF linked_list_get, linked_list_rem, ListImpl!vars
<1>4. CASE ~(i < size)
  <2>1. \/ ret' = Op("linked_list_get", i, NULL)
        \/ ret' = Op("linked_list_rem", i, NULL)
    BY <1>4 DEF linked_list_get, linked_list_rem
  <2>2. ListImpl!Get(i) \/ ListImpl!Rem(i)
    BY <1>1, <1>2, <1>4, <2>1 DEF ListImpl!Get, ListImpl!Rem, ListImpl!Returns, Op
  <2> QED BY <1>1, <2>2
<1> QED BY <1>3, <1>4

\* Every other step leaves the objects and the last answer alone.
LEMMA ListStepImplements ==
  ListInv /\ ListInv' /\ [Next]_vars => [ListImpl!Next]_(ListImpl!vars)
<1> SUFFICES ASSUME ListInv, ListInv', [Next]_vars
             PROVE  ListImpl!Next \/ UNCHANGED ListImpl!vars
  OBVIOUS
<1>0. TypeOK'
  BY DEF ListInv
<1>1. ASSUME NEW d \in Data, linked_list_push(d) PROVE ListImpl!Push(d)
  <2>1. CASE \E n \in Nodes \ live : PushNode(d, n)
    BY <1>1, <2>1, PushImplements DEF linked_list_push
  <2>2. CASE ret' = Op("linked_list_push", d, -1) /\ UNCHANGED lvars
    <3>1. Objects' = Objects
      BY <1>0, <2>2, SameObjects
    <3> QED BY <2>2, <3>1 DEF ListImpl!Push, ListImpl!Returns, Op
  <2> QED BY <1>1, <2>1, <2>2 DEF linked_list_push
<1>2. ASSUME NEW i \in 0 .. size, linked_list_get(i) \/ linked_list_rem(i)
      PROVE  ListImpl!Next \/ UNCHANGED ListImpl!vars
  BY <1>0, <1>2, CallImplements DEF ListImpl!Next
<1>3. CASE UNCHANGED <<lvars, ret>>
  BY <1>0, <1>3, SameObjects DEF ListImpl!vars
<1>4. CASE GetReturn
  BY <1>0, <1>4, GetImplements DEF ListImpl!Next
<1>5. CASE RemReturn
  BY <1>5, RemImplements DEF ListImpl!Next
<1>6. ASSUME linked_list_iter \/ (Running /\ ~GetReturn /\ ~RemReturn) \/ UNCHANGED vars
      PROVE  UNCHANGED <<lvars, ret>>
  BY <1>6 DEF linked_list_iter, Running, FindHop, VisitKeeps, VisitInvalidates, Reseat,
              IterAdvance, IterReturn, vars
<1>7. (\E d \in Data : ListImpl!Push(d)) => ListImpl!Next
  BY DEF ListImpl!Next
<1> QED BY <1>1, <1>2, <1>3, <1>4, <1>5, <1>6, <1>7 DEF Next

\* For every list: what push, get and remove do and return is what ListSpec
\* promises, whichever end a search starts from and also when callbacks of an
\* iteration remove objects (linked_list.h).
THEOREM ListRefines == Spec => ListImplSpec
<1>1. Init => ListImpl!Init
  <2> SUFFICES ASSUME Init PROVE ListImpl!Init
    OBVIOUS
  <2>1. Objects = <<>>
    <3>1. size = 0
      BY DEF Init
    <3> QED BY <3>1 DEF Objects
  <2> QED BY <2>1 DEF Init, ListImpl!Init, Op
<1> QED BY <1>1, ListInvInit, ListInvStep, ListStepImplements, PTL
        DEF Spec, ListImplSpec, ListImpl!Spec
=============================================================================
