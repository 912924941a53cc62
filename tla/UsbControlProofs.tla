-------------------------- MODULE UsbControlProofs --------------------------
(***************************************************************************)
(* Proofs about UsbDev and UsbControl, for any number of configurations,   *)
(* groups, interfaces and endpoints with any numbers, added in any order.  *)
(***************************************************************************)
EXTENDS UsbControl, TLAPS, SequenceTheorems, FiniteSetTheorems, WellFoundedInduction

\* What is chained to a parent.
Kin(p) ==
  IF p = Dev THEN Confs ELSE IF p \in Confs THEN Groups ELSE IF p \in Groups THEN Ifs ELSE Eps

TreeTypes ==
  /\ child \in [Parents -> Nodes \cup {NULL}] /\ next \in [Nodes -> Nodes \cup {NULL}]
  /\ count \in [Parents -> Nat] /\ alt \in [Groups -> Byte]
  /\ added \in [Parents -> Seq(Nodes)] /\ \A p \in Parents : added[p] \in Seq(Kin(p))
  /\ late \subseteq Confs

\* The pointers link what was added to p, in order.
Linked(p) ==
  /\ child[p] = IF added[p] = <<>> THEN NULL ELSE added[p][1]
  /\ \A k \in 1 .. Len(added[p]) :
       next[added[p][k]] = IF k = Len(added[p]) THEN NULL ELSE added[p][k + 1]

\* Nothing was added twice.
Apart ==
  \A p, q \in Parents : \A j \in 1 .. Len(added[p]), k \in 1 .. Len(added[q]) :
    added[p][j] = added[q][k] => p = q /\ j = k

TreeInv == TreeTypes /\ (\A p \in Parents : Linked(p)) /\ Apart
-----------------------------------------------------------------------------
\* Every set of numbers has a least one.
LEMMA NatLeast ==
  ASSUME NEW T, T \subseteq Nat, T # {}
  PROVE  \E x \in T : \A y \in T : ~(y < x)
<1> DEFINE R == OpToRel(<, Nat)
<1>1. \A x, y \in Nat : y < x => <<y, x>> \in R
  BY DEF OpToRel
<1>2. IsWellFoundedOn(R, Nat)
  BY NatLessThanWellFounded
<1> HIDE DEF R
<1>3. PICK x \in T : \A y \in T : ~ (<<y, x>> \in R)
  BY <1>2, WFMin
<1> QED BY <1>1, <1>3

\* Induction on the numbers, for a set of them.
LEMMA SetInduction ==
  ASSUME NEW S, 0 \in S, \A n \in Nat : n \in S => n + 1 \in S
  PROVE  Nat \subseteq S
<1> SUFFICES ASSUME Nat \ S # {} PROVE FALSE
  OBVIOUS
<1>1. PICK x \in Nat \ S : \A y \in Nat \ S : ~(y < x)
  BY NatLeast
<1>2. x # 0 /\ x - 1 \in Nat /\ x - 1 \in S
  BY <1>1
<1> QED BY <1>1, <1>2

\* The numbers up to n.
LEMMA UpTo == ASSUME NEW n \in Nat PROVE IsFiniteSet(1 .. n) /\ Cardinality(1 .. n) = n
<1>1. n \in Int /\ 1 \in Int
  OBVIOUS
<1>2. IsFiniteSet(1 .. n) /\ Cardinality(1 .. n) = IF 1 > n THEN 0 ELSE n - 1 + 1
  BY <1>1, FS_Interval
<1> DEFINE S == 1 .. n
<1> HIDE DEF S
<1>3. Cardinality(S) = IF 1 > n THEN 0 ELSE n - 1 + 1
  BY <1>2 DEF S
<1>4. Cardinality(S) = n
  BY <1>3
<1> QED BY <1>2, <1>4 DEF S

\* A sequence without repetitions has as many elements as places.
LEMMA SizeOfSeq ==
  ASSUME NEW S, NEW s \in Seq(S), \A j, k \in 1 .. Len(s) : s[j] = s[k] => j = k
  PROVE  IsFiniteSet(ToSet(s)) /\ Cardinality(ToSet(s)) = Len(s)
<1>1. Len(s) \in Nat /\ DOMAIN s = 1 .. Len(s) /\ s \in [1 .. Len(s) -> S]
  BY LenProperties
<1>2. IsFiniteSet(1 .. Len(s)) /\ Cardinality(1 .. Len(s)) = Len(s)
  BY <1>1, UpTo
<1>3. s \in Surjection(1 .. Len(s), ToSet(s)) /\ s \in Injection(1 .. Len(s), ToSet(s))
  <2>1. s \in [1 .. Len(s) -> ToSet(s)]
    BY <1>1 DEF ToSet
  <2>2. \A x \in ToSet(s) : \E k \in 1 .. Len(s) : s[k] = x
    BY <1>1 DEF ToSet
  <2> QED BY <2>1, <2>2 DEF Surjection, Injection, IsInjective
<1>4. /\ IsFiniteSet(ToSet(s))
      /\ Cardinality(ToSet(s)) = Cardinality(1 .. Len(s))
  BY <1>2, <1>3, FS_Surjection
<1> QED BY <1>2, <1>4
-----------------------------------------------------------------------------
\* The nodes met by the walk that Chain is defined from.
Walk(p) ==
  CHOOSE at : at = [k \in 1 .. Cardinality(Nodes) + 1 |->
    IF k = 1 THEN child[p]
    ELSE LET n == at[k - 1] IN IF n = NULL THEN NULL ELSE next[n]]

\* A parent has no more children than there are nodes, each of them once.
LEMMA ChildrenOf ==
  ASSUME TreeInv, NEW p \in Parents
  PROVE  /\ added[p] \in Seq(Nodes) /\ Len(added[p]) \in Nat
         /\ \A k \in 1 .. Len(added[p]) : added[p][k] \in Nodes /\ added[p][k] # NULL
         /\ \A j, k \in 1 .. Len(added[p]) : added[p][j] = added[p][k] => j = k
         /\ Len(added[p]) <= Cardinality(Nodes) /\ Cardinality(Nodes) \in Nat
<1>1. /\ added[p] \in Seq(Nodes) /\ Len(added[p]) \in Nat
      /\ \A j, k \in 1 .. Len(added[p]) : added[p][j] = added[p][k] => j = k
  BY LenProperties DEF TreeInv, TreeTypes, Apart
<1>2. \A k \in 1 .. Len(added[p]) : added[p][k] \in Nodes /\ added[p][k] # NULL
  BY <1>1, ElementOfSeq, UsbDevAssumption
<1>3. IsFiniteSet(ToSet(added[p])) /\ Cardinality(ToSet(added[p])) = Len(added[p])
  BY <1>1, SizeOfSeq
<1>4. ToSet(added[p]) \subseteq Nodes
  BY <1>1, <1>2, LenProperties DEF ToSet
<1>5. IsFiniteSet(Nodes) /\ Cardinality(Nodes) \in Nat
  BY UsbDevAssumption, FS_CardinalityType
<1>6. Cardinality(ToSet(added[p])) <= Cardinality(Nodes)
  BY <1>4, <1>5, FS_Subset
<1> QED BY <1>1, <1>2, <1>3, <1>5, <1>6

\* A walk along the pointers meets what was added, and then NULL.
LEMMA WalkMeets ==
  ASSUME TreeInv, NEW p \in Parents
  PROVE  /\ DOMAIN Walk(p) = 1 .. Cardinality(Nodes) + 1
         /\ \A k \in 1 .. Cardinality(Nodes) + 1 :
              Walk(p)[k] = IF k <= Len(added[p]) THEN added[p][k] ELSE NULL
<1> DEFINE s == added[p]
           n == Len(s)
           N == Cardinality(Nodes)
           Step(f, k) == IF k = 1 THEN child[p]
                         ELSE IF f[k - 1] = NULL THEN NULL ELSE next[f[k - 1]]
           g == [k \in 1 .. N + 1 |-> IF k <= n THEN s[k] ELSE NULL]
<1>1. /\ n \in Nat /\ N \in Nat /\ n <= N
      /\ \A k \in 1 .. n : s[k] \in Nodes /\ s[k] # NULL
  BY ChildrenOf
<1>2. /\ child[p] = IF n = 0 THEN NULL ELSE s[1]
      /\ \A k \in 1 .. n : next[s[k]] = IF k = n THEN NULL ELSE s[k + 1]
  <2>1. Linked(p) /\ s \in Seq(Nodes)
    BY DEF TreeInv, TreeTypes
  <2>2. s = <<>> <=> n = 0
    BY <2>1, EmptySeq
  <2> QED BY <2>1, <2>2 DEF Linked
<1> HIDE DEF s, n, N
<1>3. ASSUME NEW k \in 1 .. N + 1 PROVE g[k] = Step(g, k)
  <2>1. CASE k = 1
    BY <1>1, <1>2, <2>1
  <2>2. CASE k # 1
    <3>1. k - 1 \in 1 .. N + 1 /\ (k - 1) + 1 = k /\ k - 1 \in Nat
      BY <1>1, <2>2
    <3>2. CASE k - 1 < n
      <4>1. k - 1 \in 1 .. n /\ g[k - 1] = s[k - 1] /\ s[k - 1] # NULL /\ g[k] = s[k]
        BY <1>1, <3>1, <3>2
      <4>2. next[s[k - 1]] = s[k]
        BY <1>1, <1>2, <3>1, <3>2, <4>1
      <4> QED BY <2>2, <4>1, <4>2
    <3>3. CASE k - 1 = n
      <4>1. k - 1 \in 1 .. n /\ g[k - 1] = s[n] /\ s[n] # NULL /\ g[k] = NULL
        BY <1>1, <2>2, <3>1, <3>3
      <4>2. next[s[n]] = NULL
        BY <1>1, <1>2, <3>1, <3>3
      <4> QED BY <2>2, <4>1, <4>2
    <3>4. CASE k - 1 > n
      <4>1. g[k - 1] = NULL /\ g[k] = NULL
        BY <1>1, <3>1, <3>4
      <4> QED BY <2>2, <4>1
    <3> QED BY <1>1, <3>1, <3>2, <3>3, <3>4
  <2> QED BY <2>1, <2>2
<1>4. g = [k \in 1 .. N + 1 |-> Step(g, k)]
  BY <1>3
<1>5. Walk(p) = [k \in 1 .. N + 1 |-> Step(Walk(p), k)]
  <2> HIDE DEF g
  <2> QED BY <1>4 DEF Walk, N
<1>6. DOMAIN Walk(p) = 1 .. N + 1 /\ \A k \in 1 .. N + 1 : Walk(p)[k] = Step(Walk(p), k)
  BY <1>5
<1> DEFINE S == {k \in Nat : k \in 1 .. N + 1 => Walk(p)[k] = g[k]}
<1>7. 0 \in S
  OBVIOUS
<1>8. ASSUME NEW k \in Nat, k \in S PROVE k + 1 \in S
  <2> SUFFICES ASSUME k + 1 \in 1 .. N + 1 PROVE Walk(p)[k + 1] = g[k + 1]
    OBVIOUS
  <2> HIDE DEF g
  <2>1. CASE k = 0
    BY <1>3, <1>6, <2>1
  <2>2. CASE k # 0
    <3>1. k \in 1 .. N + 1 /\ (k + 1) - 1 = k /\ k + 1 # 1 /\ Walk(p)[k] = g[k]
      BY <1>1, <1>8, <2>2
    <3> QED BY <1>3, <1>6, <3>1
  <2> QED BY <2>1, <2>2
<1>9. Nat \subseteq S
  <2> HIDE DEF S
  <2> QED BY <1>7, <1>8, SetInduction
<1>10. ASSUME NEW k \in 1 .. N + 1 PROVE Walk(p)[k] = g[k]
  <2> HIDE DEF g
  <2>1. k \in Nat
    BY <1>1
  <2> QED BY <1>9, <2>1
<1> QED BY <1>6, <1>10 DEF s, n, N

\* So a chain is what was added to its parent.
LEMMA ChainsOfTree == TreeInv => ChainsAsAdded
<1> SUFFICES ASSUME TreeInv, NEW p \in Parents PROVE Chain(p) = added[p]
  BY DEF ChainsAsAdded
<1> DEFINE n == Len(added[p])
           N == Cardinality(Nodes)
<1>1. /\ added[p] \in Seq(Nodes) /\ n \in Nat /\ N \in Nat /\ n <= N
      /\ \A k \in 1 .. n : added[p][k] # NULL
  BY ChildrenOf
<1>2. /\ DOMAIN Walk(p) = 1 .. N + 1
      /\ \A k \in 1 .. N + 1 : Walk(p)[k] = IF k <= n THEN added[p][k] ELSE NULL
  BY WalkMeets
<1>3. Chain(p) = [k \in 1 .. Cardinality({j \in DOMAIN Walk(p) : Walk(p)[j] # NULL}) |-> Walk(p)[k]]
  BY DEF Chain, Walk
<1>4. {j \in DOMAIN Walk(p) : Walk(p)[j] # NULL} = 1 .. n
  <2> HIDE DEF n, N
  <2> QED BY <1>1, <1>2
<1>5. Cardinality(1 .. n) = n
  BY <1>1, UpTo
<1>6. Chain(p) = [k \in 1 .. n |-> Walk(p)[k]]
  BY <1>3, <1>4, <1>5
<1>7. added[p] = [k \in 1 .. n |-> added[p][k]]
  BY <1>1, LenProperties
<1>8. \A k \in 1 .. n : Walk(p)[k] = added[p][k]
  BY <1>1, <1>2
<1> HIDE DEF n
<1>9. [k \in 1 .. n |-> Walk(p)[k]] = [k \in 1 .. n |-> added[p][k]]
  BY <1>8
<1> QED BY <1>6, <1>7, <1>9

\* The same in the next state.
LEMMA ChainsOfTreeNext == TreeInv' => ChainsAsAdded'
BY ChainsOfTree, PTL
-----------------------------------------------------------------------------
\* Which parents have which children.
LEMMA KinOf ==
  /\ Dev \in Parents /\ Kin(Dev) = Confs
  /\ \A c \in Confs : c \in Parents /\ Kin(c) = Groups
  /\ \A g \in Groups : g \in Parents /\ Kin(g) = Ifs
  /\ \A i \in Ifs : i \in Parents /\ Kin(i) = Eps
  /\ \A p \in Parents : Kin(p) \subseteq Nodes
BY UsbDevAssumption DEF Kin, Parents, Nodes

\* The pointers after a node was chained to p: only the node itself and the
\* last child of p, if there is one, are written.
LEMMA AppendWrites ==
  ASSUME TreeInv, NEW p \in Parents, NEW n \in Kin(p), AppendTo(p, n)
  PROVE  /\ child' \in [Parents -> Nodes \cup {NULL}] /\ next' \in [Nodes -> Nodes \cup {NULL}]
         /\ child' = IF added[p] = <<>> THEN [child EXCEPT ![p] = n] ELSE child
         /\ \A m \in Nodes :
              next'[m] = IF added[p] # <<>> /\ m = added[p][Len(added[p])] THEN n
                         ELSE IF m = n THEN NULL ELSE next[m]
<1>1. /\ n \in Nodes /\ n # NULL /\ added[p] \in Seq(Nodes) /\ Len(added[p]) \in Nat
      /\ \A k \in 1 .. Len(added[p]) : added[p][k] \in Nodes /\ added[p][k] # NULL
  BY KinOf, ChildrenOf, UsbDevAssumption
<1>2. /\ child \in [Parents -> Nodes \cup {NULL}] /\ next \in [Nodes -> Nodes \cup {NULL}]
      /\ child[p] = IF added[p] = <<>> THEN NULL ELSE added[p][1]
  BY DEF TreeInv, TreeTypes, Linked
<1>3. added[p] # <<>> => Len(added[p]) \in 1 .. Len(added[p]) /\ 1 \in 1 .. Len(added[p])
  BY <1>1, EmptySeq
<1>4. child[p] = NULL <=> added[p] = <<>>
  BY <1>1, <1>2, <1>3
<1>5. Last(Chain(p)) = added[p][Len(added[p])]
  BY ChainsOfTree DEF ChainsAsAdded, Last
<1>6. CASE added[p] = <<>>
  <2>1. child' = [child EXCEPT ![p] = n] /\ next' = [next EXCEPT ![n] = NULL]
    BY <1>4, <1>6 DEF AppendTo
  <2> QED BY <1>1, <1>2, <1>6, <2>1
<1>7. CASE added[p] # <<>>
  <2> DEFINE l == added[p][Len(added[p])]
  <2>1. child' = child /\ next' = [next EXCEPT ![n] = NULL, ![l] = n]
    BY <1>4, <1>5, <1>7 DEF AppendTo
  <2>2. l \in Nodes
    BY <1>1, <1>3, <1>7
  <2> HIDE DEF l
  <2>3. next' = [[next EXCEPT ![n] = NULL] EXCEPT ![l] = n]
    BY <2>1
  <2>4. /\ next' \in [Nodes -> Nodes \cup {NULL}]
        /\ \A m \in Nodes : next'[m] = IF m = l THEN n ELSE IF m = n THEN NULL ELSE next[m]
    BY <1>1, <1>2, <2>2, <2>3
  <2> QED BY <1>2, <1>7, <2>1, <2>4 DEF l
<1> QED BY <1>6, <1>7

\* What was added to each parent then.
LEMMA AppendAdds ==
  ASSUME TreeInv, NEW p \in Parents, NEW n \in Kin(p), AppendTo(p, n)
  PROVE  /\ added' \in [Parents -> Seq(Nodes)]
         /\ added'[p] \in Seq(Kin(p)) /\ Len(added'[p]) = Len(added[p]) + 1
         /\ \A k \in 1 .. Len(added[p]) : added'[p][k] = added[p][k]
         /\ added'[p][Len(added[p]) + 1] = n
         /\ \A q \in Parents : q # p => added'[q] = added[q]
         /\ \A q \in Parents : \A k \in 1 .. Len(added[q]) : added[q][k] # n
<1>1. /\ added \in [Parents -> Seq(Nodes)] /\ added[p] \in Seq(Kin(p)) /\ Kin(p) \subseteq Nodes
      /\ added' = [added EXCEPT ![p] = @ \o <<n>>]
  BY KinOf DEF TreeInv, TreeTypes, AppendTo
<1>2. added'[p] = added[p] \o <<n>> /\ \A q \in Parents : q # p => added'[q] = added[q]
  BY <1>1
<1>3. <<n>> \in Seq(Kin(p)) /\ Len(<<n>>) = 1 /\ <<n>>[1] = n
  OBVIOUS
<1>4. /\ added[p] \o <<n>> \in Seq(Kin(p))
      /\ Len(added[p] \o <<n>>) = Len(added[p]) + 1
      /\ \A k \in 1 .. Len(added[p]) + 1 :
           (added[p] \o <<n>>)[k] = IF k <= Len(added[p]) THEN added[p][k] ELSE <<n>>[k - Len(added[p])]
  BY <1>1, <1>3, ConcatProperties
<1>5. Len(added[p]) \in Nat
  BY <1>1, LenProperties
<1>6. \A k \in 1 .. Len(added[p]) : added'[p][k] = added[p][k]
  BY <1>2, <1>4, <1>5
<1>7. added'[p][Len(added[p]) + 1] = n
  <2>1. Len(added[p]) + 1 \in 1 .. Len(added[p]) + 1 /\ ~(Len(added[p]) + 1 <= Len(added[p]))
        /\ (Len(added[p]) + 1) - Len(added[p]) = 1
    BY <1>5
  <2> QED BY <1>2, <1>3, <1>4, <2>1
<1>8. added[p] \o <<n>> \in Seq(Nodes)
  BY <1>1, <1>4
<1>9. added' \in [Parents -> Seq(Nodes)]
  BY <1>1, <1>8
<1>10. ASSUME NEW q \in Parents, NEW k \in 1 .. Len(added[q]) PROVE added[q][k] # n
  <2>1. n \notin ToSet(added[q])
    BY DEF AppendTo, Unused
  <2>2. k \in DOMAIN added[q]
    BY <1>1, LenProperties
  <2> QED BY <2>1, <2>2 DEF ToSet
<1> QED BY <1>2, <1>4, <1>6, <1>7, <1>9, <1>10

\* A node goes to the end of its chain, and the other chains stay as they are
\* (the builders).
LEMMA AppendStep ==
  ASSUME TreeInv, NEW p \in Parents, NEW n \in Kin(p), AppendTo(p, n),
         count' \in [Parents -> Nat], alt' \in [Groups -> Byte], late' \subseteq Confs
  PROVE  TreeInv'
<1>1. /\ child' \in [Parents -> Nodes \cup {NULL}] /\ next' \in [Nodes -> Nodes \cup {NULL}]
      /\ child' = IF added[p] = <<>> THEN [child EXCEPT ![p] = n] ELSE child
      /\ \A m \in Nodes :
           next'[m] = IF added[p] # <<>> /\ m = added[p][Len(added[p])] THEN n
                      ELSE IF m = n THEN NULL ELSE next[m]
  BY AppendWrites
<1>2. /\ added' \in [Parents -> Seq(Nodes)]
      /\ added'[p] \in Seq(Kin(p)) /\ Len(added'[p]) = Len(added[p]) + 1
      /\ \A k \in 1 .. Len(added[p]) : added'[p][k] = added[p][k]
      /\ added'[p][Len(added[p]) + 1] = n
      /\ \A q \in Parents : q # p => added'[q] = added[q]
      /\ \A q \in Parents : \A k \in 1 .. Len(added[q]) : added[q][k] # n
  BY AppendAdds
<1>3. ASSUME NEW q \in Parents
      PROVE  /\ added[q] \in Seq(Nodes) /\ Len(added[q]) \in Nat
             /\ \A k \in 1 .. Len(added[q]) : added[q][k] \in Nodes
             /\ child[q] = IF added[q] = <<>> THEN NULL ELSE added[q][1]
             /\ \A k \in 1 .. Len(added[q]) :
                  next[added[q][k]] = IF k = Len(added[q]) THEN NULL ELSE added[q][k + 1]
             /\ added[q] = <<>> <=> Len(added[q]) = 0
  BY ChildrenOf, EmptySeq DEF TreeInv, Linked
<1>4. TreeTypes'
  <2>1. \A q \in Parents : added'[q] \in Seq(Kin(q))
    BY <1>2 DEF TreeInv, TreeTypes
  <2> QED BY <1>1, <1>2, <2>1 DEF TreeTypes, Kin
<1>5. Apart'
  <2> SUFFICES ASSUME NEW q \in Parents, NEW r \in Parents,
                      NEW j \in 1 .. Len(added'[q]), NEW k \in 1 .. Len(added'[r]),
                      added'[q][j] = added'[r][k]
               PROVE  q = r /\ j = k
    BY DEF Apart
  <2>1. ASSUME NEW x \in Parents, NEW l \in 1 .. Len(added'[x])
        PROVE  \/ x = p /\ l = Len(added[p]) + 1 /\ added'[x][l] = n
               \/ l \in 1 .. Len(added[x]) /\ added'[x][l] = added[x][l] /\ added[x][l] # n
    <3>1. CASE x = p
      <4>1. l = Len(added[p]) + 1 \/ l \in 1 .. Len(added[p])
        BY <1>2, <1>3, <3>1
      <4> QED BY <1>2, <3>1, <4>1
    <3>2. CASE x # p
      BY <1>2, <3>2
    <3> QED BY <3>1, <3>2
  <2>2. CASE j \in 1 .. Len(added[q]) /\ added'[q][j] = added[q][j] /\ added[q][j] # n
    <3>1. k \in 1 .. Len(added[r]) /\ added'[r][k] = added[r][k]
      BY <2>1, <2>2
    <3>2. added[q][j] = added[r][k] /\ Apart
      BY <2>2, <3>1 DEF TreeInv
    <3> QED BY <2>2, <3>1, <3>2 DEF Apart
  <2>3. CASE q = p /\ j = Len(added[p]) + 1 /\ added'[q][j] = n
    <3>1. r = p /\ k = Len(added[p]) + 1
      BY <2>1, <2>3
    <3> QED BY <2>3, <3>1
  <2> QED BY <2>1, <2>2, <2>3
<1>6. ASSUME NEW q \in Parents PROVE Linked(q)'
  <2>1. CASE q = p
    <3> DEFINE l == Len(added[p])
    <3>0. l \in Nat /\ n \in Nodes /\ Len(added'[p]) = l + 1 /\ added'[p] \in Seq(Nodes)
      BY <1>2, <1>3, KinOf
    <3>1. added'[p] # <<>> /\ child'[p] = added'[p][1]
      <4>1. added'[p] # <<>>
        BY <3>0, EmptySeq
      <4>2. CASE l = 0
        <5>1. added[p] = <<>> /\ child' = [child EXCEPT ![p] = n]
          BY <1>1, <1>3, <4>2
        <5>2. child'[p] = n
          BY <5>1 DEF TreeInv, TreeTypes
        <5> QED BY <1>2, <4>1, <4>2, <5>2
      <4>3. CASE l # 0
        <5>1. added[p] # <<>> /\ 1 \in 1 .. l
          BY <1>3, <3>0, <4>3
        <5> QED BY <1>1, <1>2, <1>3, <4>1, <5>1
      <4> QED BY <4>2, <4>3
    <3>2. ASSUME NEW k \in 1 .. l + 1
          PROVE  next'[added'[p][k]] = IF k = l + 1 THEN NULL ELSE added'[p][k + 1]
      <4>1. CASE k = l + 1
        <5>1. added[p] # <<>> => added[p][l] # n
          <6>1. added[p] # <<>> => l \in 1 .. l
            BY <1>3, <3>0
          <6> QED BY <1>2, <6>1
        <5> QED BY <1>1, <1>2, <3>0, <4>1, <5>1
      <4>2. CASE k = l
        <5>1. k \in 1 .. l /\ added[p] # <<>> /\ k + 1 = l + 1 /\ added[p][k] \in Nodes
          BY <1>3, <3>0, <4>2
        <5> QED BY <1>1, <1>2, <3>0, <4>2, <5>1
      <4>3. CASE k < l
        <5>1. k \in 1 .. l /\ k + 1 \in 1 .. l /\ l \in 1 .. l /\ k # l /\ k # l + 1
          BY <3>0, <4>3
        <5>2. added[p][k] \in Nodes /\ added[p][k] # n /\ added[p][k] # added[p][l]
          BY <1>2, <1>3, <5>1, ChildrenOf
        <5>3. next'[added[p][k]] = next[added[p][k]]
          BY <1>1, <5>2
        <5> QED BY <1>2, <1>3, <5>1, <5>3
      <4> QED BY <3>0, <4>1, <4>2, <4>3
    <3> QED BY <2>1, <3>0, <3>1, <3>2 DEF Linked
  <2>2. CASE q # p
    <3>1. added'[q] = added[q] /\ child'[q] = child[q]
      BY <1>1, <1>2, <2>2 DEF TreeInv, TreeTypes
    <3>2. ASSUME NEW k \in 1 .. Len(added[q]) PROVE next'[added[q][k]] = next[added[q][k]]
      <4>1. added[q][k] \in Nodes /\ added[q][k] # n
        BY <1>2, <1>3
      <4>2. added[p] # <<>> => added[q][k] # added[p][Len(added[p])]
        <5>1. added[p] # <<>> => Len(added[p]) \in 1 .. Len(added[p])
          BY <1>3
        <5> QED BY <2>2, <5>1 DEF TreeInv, Apart
      <4> QED BY <1>1, <4>1, <4>2
    <3> QED BY <1>3, <3>1, <3>2 DEF Linked
  <2> QED BY <2>1, <2>2
<1> QED BY <1>4, <1>5, <1>6 DEF TreeInv
-----------------------------------------------------------------------------
\* What a search of s for the first of the places I gives.
Selected(s, I) ==
  LET k == IF I # {} THEN Min(I) ELSE 0 IN IF k = 0 THEN NULL ELSE s[k]

\* It is the node at one of them, if there is one.
LEMMA Selects ==
  ASSUME NEW s, NEW I, I \subseteq Nat \ {0}, \A k \in I : s[k] # NULL
  PROVE  /\ I = {} => Selected(s, I) = NULL
         /\ I # {} => Selected(s, I) # NULL /\ \E k \in I : Selected(s, I) = s[k]
<1>1. CASE I = {}
  BY <1>1 DEF Selected
<1>2. CASE I # {}
  <2>1. I \subseteq Nat /\ 0 \notin I
    OBVIOUS
  <2>2. \E x \in I : \A y \in I : ~(y < x)
    BY <1>2, <2>1, NatLeast
  <2>3. \E x \in I : \A y \in I : x <= y
    BY <2>1, <2>2
  <2>4. Min(I) \in I
    BY <2>3 DEF Min
  <2>5. Selected(s, I) = s[Min(I)]
    BY <1>2, <2>1, <2>4 DEF Selected
  <2> QED BY <1>2, <2>4, <2>5
<1> QED BY <1>1, <1>2

\* The children of a parent, as a set.
LEMMA ChildSets ==
  ASSUME TreeInv, NEW p \in Parents
  PROVE  /\ Chain(p) = added[p] /\ added[p] \in Seq(Kin(p)) /\ NULL \notin Kin(p)
         /\ ToSet(added[p]) = {added[p][k] : k \in 1 .. Len(added[p])}
         /\ ToSet(added[p]) \subseteq Kin(p)
<1>1. Chain(p) = added[p] /\ added[p] \in Seq(Kin(p)) /\ NULL \notin Kin(p)
  BY ChainsOfTree, KinOf, UsbDevAssumption DEF ChainsAsAdded, TreeInv, TreeTypes
<1>2. DOMAIN added[p] = 1 .. Len(added[p]) /\ \A k \in 1 .. Len(added[p]) : added[p][k] \in Kin(p)
  BY <1>1, LenProperties, ElementOfSeq
<1> QED BY <1>1, <1>2 DEF ToSet

\* A configuration is found if the device has one with the value, and has it
\* (usb_dev_get_config).
LEMMA ConfigFound ==
  ASSUME TreeInv, NEW v
  PROVE  /\ usb_dev_get_config(v) # NULL =>
              /\ usb_dev_get_config(v) \in ToSet(added[Dev]) /\ usb_dev_get_config(v) \in Confs
              /\ ConfValue[usb_dev_get_config(v)] = v % 256
         /\ (\E c \in ToSet(added[Dev]) : ConfValue[c] = v % 256) => usb_dev_get_config(v) # NULL
<1> DEFINE s == Chain(Dev)
           I == {k \in 1 .. Len(s) : ConfValue[s[k]] = v % 256}
<1>1. s = added[Dev] /\ s \in Seq(Confs) /\ ToSet(s) = {s[k] : k \in 1 .. Len(s)}
  <2>1. Dev \in Parents /\ Kin(Dev) = Confs
    BY KinOf
  <2>2. /\ Chain(Dev) = added[Dev] /\ added[Dev] \in Seq(Kin(Dev))
        /\ ToSet(added[Dev]) = {added[Dev][k] : k \in 1 .. Len(added[Dev])}
    BY <2>1, ChildSets
  <2> QED BY <2>1, <2>2
<1>2. usb_dev_get_config(v) = Selected(s, I)
  BY DEF usb_dev_get_config, FirstWith, SelectInSeq, Selected
<1> HIDE DEF s
<1>3. \A k \in 1 .. Len(s) : s[k] \in Confs /\ s[k] # NULL /\ s[k] \in ToSet(s) /\ k \in Nat \ {0}
  BY <1>1, ElementOfSeq, UsbDevAssumption DEF Nodes
<1>4. /\ I = {} => Selected(s, I) = NULL
      /\ I # {} => Selected(s, I) # NULL /\ \E k \in I : Selected(s, I) = s[k]
  <2>1. I \subseteq Nat \ {0} /\ \A k \in I : s[k] # NULL
    BY <1>3
  <2> HIDE DEF I
  <2> QED BY <2>1, Selects
<1>5. (\E c \in ToSet(s) : ConfValue[c] = v % 256) => I # {}
  BY <1>1
<1>6. \A k \in I : s[k] \in ToSet(s) /\ s[k] \in Confs /\ ConfValue[s[k]] = v % 256
  BY <1>3
<1>7. ToSet(s) = ToSet(added[Dev])
  BY <1>1
<1> HIDE DEF I
<1> QED BY <1>2, <1>4, <1>5, <1>6, <1>7

\* An interface is found if a group at the setting has one with the numbers
\* asked for, and has them (usb_conf_get_if).
LEMMA IfFound ==
  ASSUME TreeInv, NEW c \in Confs, NEW num, NEW a
  PROVE  /\ usb_conf_get_if(c, num, a) # NULL =>
              /\ usb_conf_get_if(c, num, a) \in Ifs
              /\ \E g \in ToSet(added[c]) : usb_conf_get_if(c, num, a) \in ToSet(added[g])
              /\ IfNum[usb_conf_get_if(c, num, a)] = num
              /\ IfAlt[usb_conf_get_if(c, num, a)] = a
         /\ (\E g \in ToSet(added[c]) :
               alt[g] = a /\ \E i \in ToSet(added[g]) : IfNum[i] = num /\ IfAlt[i] = a)
              => usb_conf_get_if(c, num, a) # NULL
<1> DEFINE Is(i) == IfNum[i] = num /\ IfAlt[i] = a
           s == Chain(c)
           Has(h) == alt[h] = a /\ \E i \in ToSet(Chain(h)) : Is(i)
           I == {k \in 1 .. Len(s) : Has(s[k])}
           g == Selected(s, I)
           t == Chain(g)
           J == {k \in 1 .. Len(t) : Is(t[k])}
<1>1. s = added[c] /\ s \in Seq(Groups) /\ ToSet(s) = {s[k] : k \in 1 .. Len(s)}
  <2>1. c \in Parents /\ Kin(c) = Groups
    BY KinOf
  <2>2. /\ Chain(c) = added[c] /\ added[c] \in Seq(Kin(c))
        /\ ToSet(added[c]) = {added[c][k] : k \in 1 .. Len(added[c])}
    BY <2>1, ChildSets
  <2> QED BY <2>1, <2>2
<1>2. c # NULL
  BY UsbDevAssumption DEF Nodes
<1>3. \A h \in Groups : /\ Chain(h) = added[h] /\ added[h] \in Seq(Ifs)
                          /\ ToSet(added[h]) = {added[h][k] : k \in 1 .. Len(added[h])}
  BY KinOf, ChildSets
<1>4. usb_conf_get_if(c, num, a) = IF g = NULL THEN NULL ELSE Selected(t, J)
  BY <1>2 DEF usb_conf_get_if, FirstWith, SelectInSeq, Selected
<1> HIDE DEF s, g, t
<1>5. \A k \in 1 .. Len(s) : s[k] \in Groups /\ s[k] # NULL /\ s[k] \in ToSet(s) /\ k \in Nat \ {0}
  BY <1>1, ElementOfSeq, UsbDevAssumption DEF Nodes
<1>6. /\ I = {} => g = NULL
      /\ I # {} => g # NULL /\ \E k \in I : g = s[k]
  <2>1. I \subseteq Nat \ {0} /\ \A k \in I : s[k] # NULL
    BY <1>5
  <2>2. g = Selected(s, I)
    BY DEF g
  <2> HIDE DEF I
  <2> QED BY <2>1, <2>2, Selects
<1>7. CASE I = {}
  <2>1. usb_conf_get_if(c, num, a) = NULL
    BY <1>4, <1>6, <1>7
  <2>2. ASSUME NEW h \in ToSet(s), Has(h) PROVE FALSE
    BY <1>1, <1>7, <2>2
  <2>3. ASSUME NEW h \in ToSet(s), alt[h] = a, \E i \in ToSet(added[h]) : Is(i) PROVE FALSE
    <3>1. h \in Groups
      BY <1>1, <1>5
    <3> QED BY <1>3, <2>2, <2>3, <3>1
  <2> QED BY <1>1, <2>1, <2>3
<1>8. CASE I # {}
  <2>1. PICK k \in I : g = s[k]
    BY <1>6, <1>8
  <2>2. g \in Groups /\ g \in ToSet(s) /\ g # NULL /\ Has(g)
    BY <1>5, <1>6, <1>8, <2>1
  <2>3. t = added[g] /\ t \in Seq(Ifs) /\ ToSet(t) = {t[l] : l \in 1 .. Len(t)}
    BY <1>3, <2>2 DEF t
  <2>4. \A l \in 1 .. Len(t) : t[l] \in Ifs /\ t[l] # NULL /\ t[l] \in ToSet(t) /\ l \in Nat \ {0}
    BY <2>3, ElementOfSeq, UsbDevAssumption DEF Nodes
  <2>5. \E i \in ToSet(t) : Is(i)
    BY <2>2 DEF t
  <2>6. J # {}
    BY <2>3, <2>5
  <2>7. Selected(t, J) # NULL /\ \E l \in J : Selected(t, J) = t[l]
    <3>1. J \subseteq Nat \ {0} /\ \A l \in J : t[l] # NULL
      BY <2>4
    <3> HIDE DEF J
    <3> QED BY <2>6, <3>1, Selects
  <2>8. PICK l \in J : usb_conf_get_if(c, num, a) = t[l]
    BY <1>4, <2>2, <2>7
  <2>9. t[l] \in Ifs /\ t[l] # NULL /\ t[l] \in ToSet(added[g]) /\ Is(t[l])
    BY <2>3, <2>4, <2>8
  <2> QED BY <1>1, <2>2, <2>8, <2>9
<1> QED BY <1>7, <1>8

\* The same of an endpoint (usb_if_get_ep).
LEMMA EpFound ==
  ASSUME TreeInv, NEW i \in Ifs, NEW nb, NEW dir
  PROVE  /\ usb_if_get_ep(i, nb, dir) # NULL =>
              /\ usb_if_get_ep(i, nb, dir) \in ToSet(added[i])
              /\ EpNb[usb_if_get_ep(i, nb, dir)] = nb /\ EpDir[usb_if_get_ep(i, nb, dir)] = dir
         /\ (\E e \in ToSet(added[i]) : EpNb[e] = nb /\ EpDir[e] = dir)
              => usb_if_get_ep(i, nb, dir) # NULL
<1> DEFINE s == Chain(i)
           I == {k \in 1 .. Len(s) : EpNb[s[k]] = nb /\ EpDir[s[k]] = dir}
<1>1. s = added[i] /\ s \in Seq(Eps) /\ ToSet(s) = {s[k] : k \in 1 .. Len(s)}
  <2>1. i \in Parents /\ Kin(i) = Eps
    BY KinOf
  <2>2. /\ Chain(i) = added[i] /\ added[i] \in Seq(Kin(i))
        /\ ToSet(added[i]) = {added[i][k] : k \in 1 .. Len(added[i])}
    BY <2>1, ChildSets
  <2> QED BY <2>1, <2>2
<1>2. usb_if_get_ep(i, nb, dir) = Selected(s, I)
  <2>1. i # NULL
    BY UsbDevAssumption DEF Nodes
  <2> QED BY <2>1 DEF usb_if_get_ep, FirstWith, SelectInSeq, Selected
<1> HIDE DEF s
<1>3. \A k \in 1 .. Len(s) : s[k] \in Eps /\ s[k] # NULL /\ s[k] \in ToSet(s) /\ k \in Nat \ {0}
  BY <1>1, ElementOfSeq, UsbDevAssumption DEF Nodes
<1>4. /\ I = {} => Selected(s, I) = NULL
      /\ I # {} => Selected(s, I) # NULL /\ \E k \in I : Selected(s, I) = s[k]
  <2>1. I \subseteq Nat \ {0} /\ \A k \in I : s[k] # NULL
    BY <1>3
  <2> HIDE DEF I
  <2> QED BY <2>1, Selects
<1>5. (\E e \in ToSet(s) : EpNb[e] = nb /\ EpDir[e] = dir) => I # {}
  BY <1>1
<1> QED BY <1>1, <1>2, <1>3, <1>4, <1>5
-----------------------------------------------------------------------------
\* The children of p after n was added.
LEMMA AppendSets ==
  ASSUME TreeInv, NEW p \in Parents, NEW n \in Kin(p), AppendTo(p, n)
  PROVE  /\ ToSet(added'[p]) = ToSet(added[p]) \cup {n} /\ Len(added'[p]) = Len(added[p]) + 1
         /\ \A q \in Parents : q # p => added'[q] = added[q]
         /\ \A q \in Parents : n \notin ToSet(added[q])
<1>1. /\ added'[p] \in Seq(Kin(p)) /\ Len(added'[p]) = Len(added[p]) + 1
      /\ \A k \in 1 .. Len(added[p]) : added'[p][k] = added[p][k]
      /\ added'[p][Len(added[p]) + 1] = n
      /\ \A q \in Parents : q # p => added'[q] = added[q]
  BY AppendAdds
<1>2. Len(added[p]) \in Nat /\ ToSet(added[p]) = {added[p][k] : k \in 1 .. Len(added[p])}
  BY ChildSets, ChildrenOf
<1>3. ToSet(added'[p]) = {added'[p][k] : k \in 1 .. Len(added[p]) + 1}
  BY <1>1, LenProperties DEF ToSet
<1>4. ToSet(added'[p]) = ToSet(added[p]) \cup {n}
  <2>1. \A k \in 1 .. Len(added[p]) + 1 : k \in 1 .. Len(added[p]) \/ k = Len(added[p]) + 1
    BY <1>2
  <2>2. /\ Len(added[p]) + 1 \in 1 .. Len(added[p]) + 1
        /\ \A k \in 1 .. Len(added[p]) : k \in 1 .. Len(added[p]) + 1
    BY <1>2
  <2>3. ASSUME NEW x \in ToSet(added'[p]) PROVE x \in ToSet(added[p]) \cup {n}
    <3>1. PICK k \in 1 .. Len(added[p]) + 1 : x = added'[p][k]
      BY <1>3
    <3>2. CASE k \in 1 .. Len(added[p])
      <4>1. x = added[p][k]
        BY <1>1, <3>1, <3>2
      <4> QED BY <1>2, <3>2, <4>1
    <3>3. CASE k = Len(added[p]) + 1
      BY <1>1, <3>1, <3>3
    <3> QED BY <2>1, <3>2, <3>3
  <2>4. n \in ToSet(added'[p])
    BY <1>1, <1>3, <2>2
  <2>5. ASSUME NEW k \in 1 .. Len(added[p]) PROVE added[p][k] \in ToSet(added'[p])
    BY <1>1, <1>3, <2>2
  <2> QED BY <1>2, <2>3, <2>4, <2>5
<1> QED BY <1>1, <1>4 DEF AppendTo, Unused

\* Each builder chains a node to a parent of its kind, or does nothing.
LEMMA BuildAppends ==
  ASSUME TreeInv, Build
  PROVE  \/ UNCHANGED tree
         \/ \E c \in Confs : usb_dev_add_config(c)
         \/ \E c \in Confs, g \in Groups : usb_conf_add_if_grp(c, g)
         \/ \E g \in Groups, i \in Ifs : usb_if_grp_add(g, i)
         \/ \E i \in Ifs, e \in Eps : usb_if_add_ep(i, e)
<1>1. ASSUME NEW c \in Confs, ChooseConfig(c) PROVE UNCHANGED tree
  BY <1>1 DEF ChooseConfig
<1>2. ASSUME NEW v, NEW g \in Groups, usb_dev_add_if_grp(v, g)
      PROVE  UNCHANGED tree \/ \E c \in Confs : usb_conf_add_if_grp(c, g)
  <2>1. CASE usb_dev_get_config(v) = NULL
    BY <1>2, <2>1 DEF usb_dev_add_if_grp, vars
  <2>2. CASE usb_dev_get_config(v) # NULL
    <3>1. usb_dev_get_config(v) \in Confs
      BY <2>2, ConfigFound
    <3>2. usb_conf_add_if_grp(usb_dev_get_config(v), g)
      BY <1>2, <2>2 DEF usb_dev_add_if_grp
    <3> QED BY <3>1, <3>2
  <2> QED BY <2>1, <2>2
<1>3. ASSUME NEW v, NEW num, NEW a, NEW e \in Eps, usb_dev_add_ep(v, num, a, e)
      PROVE  UNCHANGED tree \/ \E i \in Ifs : usb_if_add_ep(i, e)
  <2> DEFINE j == usb_dev_get_if(v, num, a)
             c == usb_dev_get_config(v)
  <2>1. CASE j = NULL
    BY <1>3, <2>1 DEF usb_dev_add_ep, vars
  <2>2. CASE j # NULL
    <3>1. j = usb_conf_get_if(c, num, a)
      BY DEF usb_dev_get_if
    <3>2. c # NULL
      BY <2>2, <3>1 DEF usb_conf_get_if
    <3>3. c \in Confs
      BY <3>2, ConfigFound
    <3>4. j \in Ifs
      <4> HIDE DEF j, c
      <4> QED BY <2>2, <3>1, <3>3, IfFound
    <3>5. usb_if_add_ep(j, e)
      BY <1>3, <2>2 DEF usb_dev_add_ep
    <3> QED BY <3>4, <3>5
  <2> QED BY <2>1, <2>2
<1> QED BY <1>1, <1>2, <1>3 DEF Build

\* The builders keep the tree well linked (dev.c).
LEMMA BuildKeepsTree == TreeInv /\ Build => TreeInv'
<1> SUFFICES ASSUME TreeInv, Build PROVE TreeInv'
  OBVIOUS
<1>0. /\ count \in [Parents -> Nat] /\ alt \in [Groups -> Byte] /\ late \subseteq Confs
      /\ \A x \in Nat : x % 256 \in Nat
  BY DEF TreeInv, TreeTypes
<1>1. CASE UNCHANGED tree
  BY <1>1 DEF tree, TreeInv, TreeTypes, Linked, Apart
<1>2. ASSUME NEW c \in Confs, usb_dev_add_config(c) PROVE TreeInv'
  <2>1. count' \in [Parents -> Nat] /\ alt' = alt /\ late' \subseteq Confs
    <3>1. (IF child[Dev] = NULL THEN 1 ELSE (count[Dev] + 1) % 256) \in Nat
      BY <1>0, KinOf
    <3>2. c # Dev
      BY UsbDevAssumption DEF Nodes
    <3> QED BY <1>0, <1>2, <3>1, <3>2 DEF usb_dev_add_config
  <2>2. AppendTo(Dev, c) /\ Dev \in Parents /\ c \in Kin(Dev)
    BY <1>2, KinOf DEF usb_dev_add_config
  <2> QED BY <1>0, <2>1, <2>2, AppendStep
<1>3. ASSUME NEW c \in Confs, NEW g \in Groups, usb_conf_add_if_grp(c, g) PROVE TreeInv'
  <2>1. count' \in [Parents -> Nat] /\ alt' = alt /\ late' = late
    <3>1. (count[c] + count[g]) % 256 \in Nat
      BY <1>0, KinOf
    <3> QED BY <1>0, <1>3, <3>1 DEF usb_conf_add_if_grp
  <2>2. AppendTo(c, g) /\ c \in Parents /\ g \in Kin(c)
    BY <1>3, KinOf DEF usb_conf_add_if_grp
  <2> QED BY <1>0, <2>1, <2>2, AppendStep
<1>4. ASSUME NEW g \in Groups, NEW i \in Ifs, usb_if_grp_add(g, i) PROVE TreeInv'
  <2>1. count' \in [Parents -> Nat] /\ alt' \in [Groups -> Byte] /\ late' \subseteq Confs
    <3>1. (IF child[g] = NULL THEN 1 ELSE count[g] + 1) \in Nat /\ IfAlt[i] \in Byte
      BY <1>0, KinOf, UsbDevAssumption
    <3> QED BY <1>0, <1>4, <3>1 DEF usb_if_grp_add
  <2>2. AppendTo(g, i) /\ g \in Parents /\ i \in Kin(g)
    BY <1>4, KinOf DEF usb_if_grp_add
  <2> QED BY <2>1, <2>2, AppendStep
<1>5. ASSUME NEW i \in Ifs, NEW e \in Eps, usb_if_add_ep(i, e) PROVE TreeInv'
  <2>1. count' \in [Parents -> Nat] /\ alt' = alt /\ late' = late
    <3>1. (count[i] + 1) % 256 \in Nat
      BY <1>0, KinOf
    <3> QED BY <1>0, <1>5, <3>1 DEF usb_if_add_ep
  <2>2. AppendTo(i, e) /\ i \in Parents /\ e \in Kin(i)
    BY <1>5, KinOf DEF usb_if_add_ep
  <2> QED BY <1>0, <2>1, <2>2, AppendStep
<1> QED BY <1>1, <1>2, <1>3, <1>4, <1>5, BuildAppends

\* Nothing is added at first (usb_dev_create).
LEMMA TreeInit == Init => TreeInv
<1> SUFFICES ASSUME Init PROVE TreeInv
  OBVIOUS
<1>1. \A p \in Parents : added[p] = <<>> /\ Len(added[p]) = 0 /\ child[p] = NULL
  BY DEF Init
<1>2. \A S : <<>> \in Seq(S)
  OBVIOUS
<1>3. TreeTypes
  BY <1>1, <1>2 DEF Init, TreeTypes, Byte
<1> QED BY <1>1, <1>3 DEF TreeInv, Linked, Apart

\* A transfer leaves the tree alone, and changes the configuration in use only
\* to one that it found (handle_urb).
LEMMA TransferKeepsTree ==
  ASSUME handle_urb
  PROVE  /\ UNCHANGED tree
         /\ \/ UNCHANGED cur_config
            \/ \E v : /\ usb_dev_get_config(v) # NULL
                      /\ cur_config' = ConfValue[usb_dev_get_config(v)]
<1>1. ASSUME NEW v, SetConf(v)
      PROVE  /\ UNCHANGED tree
             /\ \/ UNCHANGED cur_config
                \/ usb_dev_get_config(v) # NULL /\ cur_config' = ConfValue[usb_dev_get_config(v)]
  BY <1>1 DEF SetConf, Completes, vars
<1>2. ASSUME NEW num, NEW len, GetIf(num, len) PROVE UNCHANGED vars
  BY <1>2 DEF GetIf, Completes, Crashes
<1>3. ASSUME NEW v, NEW len, GetConfDesc(v, len) PROVE UNCHANGED vars
  BY <1>3 DEF GetConfDesc, Completes, Crashes
<1>4. ASSUME NEW len, handle_get_desc(len) PROVE UNCHANGED vars
  BY <1>3, <1>4 DEF handle_get_desc, GetDevDesc, GetLangId, GetString, Completes
<1>5. ASSUME NEW len,
             \/ GetStatus(len) \/ Feature(len) \/ GetConf(len)
             \/ Completes("unsupported", len, "ENOTSUP", 0, 0)
      PROVE  UNCHANGED vars
  BY <1>5 DEF GetStatus, Feature, GetConf, Completes, Crashes
<1>6. CASE UNCHANGED vars
  BY <1>6 DEF vars
<1> QED BY <1>1, <1>2, <1>4, <1>5, <1>6 DEF handle_urb

\* Every step either builds, or is a transfer or its completion.
LEMMA ControlSteps ==
  ASSUME [ControlNext]_cvars
  PROVE  Build \/ handle_urb \/ UNCHANGED vars
BY DEF ControlNext, complete, cvars

\* No step, of the builders or of a transfer, leaves the tree badly linked.
LEMMA TreeStep == TreeInv /\ [ControlNext]_cvars => TreeInv'
<1> SUFFICES ASSUME TreeInv, [ControlNext]_cvars PROVE TreeInv'
  OBVIOUS
<1>1. CASE UNCHANGED tree
  BY <1>1 DEF tree, TreeInv, TreeTypes, Linked, Apart
<1> QED BY <1>1, ControlSteps, BuildKeepsTree, TransferKeepsTree DEF vars

\* However many structures are added in whatever order, every walk along next
\* pointers ends, and meets what was added to its parent in the order of the
\* calls (the builders of dev.c).
THEOREM TreeChains == ControlSpec => []ChainsAsAdded
BY TreeInit, TreeStep, ChainsOfTree, PTL DEF ControlSpec, ControlInit

\* What the lookups find in a well linked tree (usb_conf_get_if, usb_if_get_ep).
LEMMA LookupsFind == TreeInv => FoundAgain
<1> SUFFICES ASSUME TreeInv, NEW c \in ToSet(Chain(Dev)),
                    usb_dev_get_config(ConfValue[c]) = c,
                    NEW g \in ToSet(Chain(c)), NEW i \in ToSet(Chain(g)), IfAlt[i] = alt[g]
             PROVE  LET j == usb_dev_get_if(ConfValue[c], IfNum[i], IfAlt[i]) IN
                    /\ j \in InterfacesOf(c) /\ IfNum[j] = IfNum[i] /\ IfAlt[j] = IfAlt[i]
                    /\ \A e \in ToSet(Chain(j)) :
                         LET f == usb_dev_get_ep(ConfValue[c], IfNum[i], IfAlt[i], EpNb[e], EpDir[e])
                         IN  f \in ToSet(Chain(j)) /\ EpNb[f] = EpNb[e] /\ EpDir[f] = EpDir[e]
  BY DEF FoundAgain
<1> DEFINE j == usb_dev_get_if(ConfValue[c], IfNum[i], IfAlt[i])
<1>1. c \in Confs /\ Chain(c) = added[c] /\ ToSet(added[c]) \subseteq Groups
  BY KinOf, ChildSets
<1>2. \A h \in Groups : Chain(h) = added[h] /\ ToSet(added[h]) \subseteq Ifs
  BY KinOf, ChildSets
<1>3. \A h \in Ifs : Chain(h) = added[h]
  BY KinOf, ChildSets
<1>4. j = usb_conf_get_if(c, IfNum[i], IfAlt[i])
  BY DEF usb_dev_get_if
<1>5. g \in ToSet(added[c]) /\ g \in Groups /\ i \in ToSet(added[g])
  BY <1>1, <1>2
<1>6. j # NULL
  BY <1>1, <1>4, <1>5, IfFound
<1>7. /\ j \in Ifs /\ \E h \in ToSet(added[c]) : j \in ToSet(added[h])
      /\ IfNum[j] = IfNum[i] /\ IfAlt[j] = IfAlt[i]
  BY <1>1, <1>4, <1>6, IfFound
<1>8. j \in InterfacesOf(c)
  <2>1. PICK h \in ToSet(added[c]) : j \in ToSet(added[h])
    BY <1>7
  <2>2. h \in ToSet(Chain(c)) /\ j \in ToSet(Chain(h))
    BY <1>1, <1>2, <2>1
  <2> HIDE DEF j
  <2> QED BY <2>2 DEF InterfacesOf
<1>9. ASSUME NEW e \in ToSet(Chain(j))
      PROVE  LET f == usb_dev_get_ep(ConfValue[c], IfNum[i], IfAlt[i], EpNb[e], EpDir[e])
             IN  f \in ToSet(Chain(j)) /\ EpNb[f] = EpNb[e] /\ EpDir[f] = EpDir[e]
  <2> DEFINE f == usb_dev_get_ep(ConfValue[c], IfNum[i], IfAlt[i], EpNb[e], EpDir[e])
  <2>1. f = usb_if_get_ep(j, EpNb[e], EpDir[e])
    BY DEF usb_dev_get_ep
  <2>2. Chain(j) = added[j] /\ e \in ToSet(added[j])
    BY <1>3, <1>7
  <2> HIDE DEF j, f
  <2>3. f # NULL
    BY <1>7, <2>1, <2>2, EpFound
  <2>4. f \in ToSet(added[j]) /\ EpNb[f] = EpNb[e] /\ EpDir[f] = EpDir[e]
    BY <1>7, <2>1, <2>3, EpFound
  <2> QED BY <2>2, <2>4 DEF f
<1> QED BY <1>7, <1>8, <1>9

\* In every device, an interface whose group is at its alternate setting and an
\* endpoint of it are found under the numbers they were added with
\* (usb_conf_get_if, usb_if_get_ep).
THEOREM TreeFoundAgain == ControlSpec => []FoundAgain
BY TreeInit, TreeStep, LookupsFind, PTL DEF ControlSpec, ControlInit
-----------------------------------------------------------------------------
\* The configuration in use is the value of one that was added.
Chosen == cur_config # -1 => \E c \in ToSet(added[Dev]) : ConfValue[c] = cur_config

\* Configurations are never taken away, and only their values are chosen
\* (main.c, SET_CONFIGURATION in handle_urb).
LEMMA ChosenStep == TreeInv /\ Chosen /\ [ControlNext]_cvars => Chosen'
<1> SUFFICES ASSUME TreeInv, Chosen, [ControlNext]_cvars PROVE Chosen'
  OBVIOUS
<1>1. CASE Build
  <2>1. \A c \in ToSet(added[Dev]) : c \in ToSet(added'[Dev])
    <3>1. CASE UNCHANGED tree
      BY <3>1 DEF tree
    <3>2. ASSUME NEW c \in Confs, usb_dev_add_config(c)
          PROVE  ToSet(added'[Dev]) = ToSet(added[Dev]) \cup {c}
      BY <3>2, KinOf, AppendSets DEF usb_dev_add_config
    <3>3. ASSUME NEW c \in Confs, NEW g \in Groups, usb_conf_add_if_grp(c, g)
          PROVE  added'[Dev] = added[Dev]
      <4>1. AppendTo(c, g) /\ c \in Parents /\ g \in Kin(c) /\ Dev \in Parents /\ c # Dev
        BY <3>3, KinOf, UsbDevAssumption DEF usb_conf_add_if_grp, Nodes
      <4> QED BY <4>1, AppendSets
    <3>4. ASSUME NEW g \in Groups, NEW i \in Ifs, usb_if_grp_add(g, i)
          PROVE  added'[Dev] = added[Dev]
      <4>1. AppendTo(g, i) /\ g \in Parents /\ i \in Kin(g) /\ Dev \in Parents /\ g # Dev
        BY <3>4, KinOf, UsbDevAssumption DEF usb_if_grp_add, Nodes
      <4> QED BY <4>1, AppendSets
    <3>5. ASSUME NEW i \in Ifs, NEW e \in Eps, usb_if_add_ep(i, e)
          PROVE  added'[Dev] = added[Dev]
      <4>1. AppendTo(i, e) /\ i \in Parents /\ e \in Kin(i) /\ Dev \in Parents /\ i # Dev
        BY <3>5, KinOf, UsbDevAssumption DEF usb_if_add_ep, Nodes
      <4> QED BY <4>1, AppendSets
    <3> QED BY <1>1, <3>1, <3>2, <3>3, <3>4, <3>5, BuildAppends
  <2>2. ASSUME NEW c \in Confs, ChooseConfig(c)
        PROVE  c \in ToSet(added[Dev]) /\ cur_config' = ConfValue[c]
    BY <2>2, KinOf, ChildSets DEF ChooseConfig
  <2>3. UNCHANGED cur_config \/ \E c \in Confs : ChooseConfig(c)
    BY <1>1 DEF Build, usb_dev_add_config, usb_conf_add_if_grp, usb_dev_add_if_grp,
                usb_if_grp_add, usb_if_add_ep, usb_dev_add_ep, vars
  <2> QED BY <2>1, <2>2, <2>3 DEF Chosen
<1>2. CASE handle_urb
  <2>1. added' = added
    BY <1>2, TransferKeepsTree DEF tree
  <2>2. ASSUME NEW v, usb_dev_get_config(v) # NULL,
               cur_config' = ConfValue[usb_dev_get_config(v)]
        PROVE  Chosen'
    BY <2>1, <2>2, ConfigFound DEF Chosen
  <2> QED BY <1>2, <2>1, <2>2, TransferKeepsTree DEF Chosen
<1>3. CASE UNCHANGED vars
  BY <1>3 DEF vars, tree, Chosen
<1> QED BY <1>1, <1>2, <1>3, ControlSteps

\* From its first choice on the configuration in use is one the device has:
\* the device list and GET_INTERFACE find it, whatever is added and whichever
\* configurations a host selects (handle_urb, main.c).
THEOREM ControlConfigExists == ControlSpec => []CurrentConfigExists
<1>1. Init => Chosen
  BY DEF Init, Chosen
<1>2. TreeInv /\ Chosen => CurrentConfigExists
  <2> SUFFICES ASSUME TreeInv, Chosen, cur_config # -1
               PROVE  usb_dev_get_config(cur_config) # NULL
    BY DEF CurrentConfigExists
  <2>1. PICK c \in ToSet(added[Dev]) : ConfValue[c] = cur_config
    BY DEF Chosen
  <2>2. c \in Confs
    BY KinOf, ChildSets
  <2>3. cur_config \in 0 .. 255
    BY <2>1, <2>2, UsbDevAssumption DEF Byte
  <2>4. cur_config % 256 = cur_config
    BY <2>3
  <2> QED BY <2>1, <2>4, ConfigFound
<1> QED
  BY <1>1, <1>2, TreeInit, TreeStep, ChosenStep, PTL DEF ControlSpec, ControlInit
-----------------------------------------------------------------------------
\* The interfaces of a configuration, from what was added.
AddedIfs(c) == {i \in Ifs : \E g \in ToSet(added[c]) : i \in ToSet(added[g])}

\* A group counts its interfaces, and a configuration those of its groups,
\* unless the order of the calls made it lose some.
Counted ==
  /\ \A g \in Groups : count[g] = Len(added[g])
  /\ \A c \in Confs \ late : count[c] = Cardinality(AddedIfs(c))

\* The walks of usb_dev_if_to_buf meet these interfaces.
LEMMA IfsMet ==
  ASSUME TreeInv, NEW c \in Confs
  PROVE  InterfacesOf(c) = AddedIfs(c)
<1>1. Chain(c) = added[c] /\ ToSet(added[c]) \subseteq Groups
  BY KinOf, ChildSets
<1>2. \A h \in Groups : Chain(h) = added[h] /\ ToSet(added[h]) \subseteq Ifs
  BY KinOf, ChildSets
<1>3. InterfacesOf(c) = UNION {ToSet(added[g]) : g \in ToSet(added[c])}
  BY <1>1, <1>2 DEF InterfacesOf
<1> QED BY <1>1, <1>2, <1>3 DEF AddedIfs

\* A configuration has finitely many interfaces, no more than there are.
LEMMA IfsFinite ==
  ASSUME NEW S \in SUBSET Ifs
  PROVE  /\ IsFiniteSet(S) /\ IsFiniteSet(Ifs)
         /\ Cardinality(S) \in Nat /\ Cardinality(Ifs) \in Nat /\ Cardinality(S) <= Cardinality(Ifs)
<1>1. IsFiniteSet(Nodes) /\ Ifs \in SUBSET Nodes
  BY UsbDevAssumption DEF Nodes
<1>2. IsFiniteSet(Ifs)
  BY <1>1, FS_Subset
<1>3. IsFiniteSet(S) /\ Cardinality(S) <= Cardinality(Ifs)
  BY <1>2, FS_Subset
<1> QED BY <1>2, <1>3, FS_CardinalityType

\* An interface is in one group only.
LEMMA IfsApart ==
  ASSUME TreeInv, NEW p \in Parents, NEW q \in Parents, p # q
  PROVE  ToSet(added[p]) \cap ToSet(added[q]) = {}
<1>1. /\ ToSet(added[p]) = {added[p][k] : k \in 1 .. Len(added[p])}
      /\ ToSet(added[q]) = {added[q][k] : k \in 1 .. Len(added[q])}
  BY ChildSets
<1> QED BY <1>1 DEF TreeInv, Apart

\* A configuration counts the interfaces of a group that it gets
\* (usb_conf_add_if_grp).
LEMMA GroupCounted ==
  ASSUME Cardinality(Ifs) <= 255, TreeInv, Counted,
         NEW c \in Confs, NEW g \in Groups, usb_conf_add_if_grp(c, g)
  PROVE  Counted'
<1>1. AppendTo(c, g) /\ c \in Parents /\ g \in Parents /\ g \in Kin(c) /\ c \notin Groups
      /\ late' = late /\ count' = [count EXCEPT ![c] = (@ + count[g]) % 256]
  BY KinOf, UsbDevAssumption DEF usb_conf_add_if_grp
<1>2. /\ ToSet(added'[c]) = ToSet(added[c]) \cup {g} /\ g \notin ToSet(added[c])
      /\ \A q \in Parents : q # c => added'[q] = added[q]
  BY <1>1, AppendSets
<1>3. /\ \A h \in Groups : h \in Parents /\ h # c /\ added'[h] = added[h] /\ ToSet(added[h]) \subseteq Ifs
      /\ \A d \in Confs : d \in Parents /\ ToSet(added[d]) \subseteq Groups
      /\ count \in [Parents -> Nat]
  <2>1. count \in [Parents -> Nat]
    BY DEF TreeInv, TreeTypes
  <2>2. ASSUME NEW h \in Groups
        PROVE  h \in Parents /\ h # c /\ added'[h] = added[h] /\ ToSet(added[h]) \subseteq Ifs
    <3>1. h \in Parents /\ Kin(h) = Ifs /\ h # c
      BY <1>1, KinOf
    <3> QED BY <1>2, <3>1, ChildSets
  <2>3. ASSUME NEW d \in Confs PROVE d \in Parents /\ ToSet(added[d]) \subseteq Groups
    <3>1. d \in Parents /\ Kin(d) = Groups
      BY KinOf
    <3> QED BY <3>1, ChildSets
  <2> QED BY <2>1, <2>2, <2>3
<1>4. \A h \in Groups : count'[h] = Len(added'[h])
  BY <1>1, <1>3 DEF Counted
<1>5. ASSUME NEW d \in Confs \ late', d # c PROVE count'[d] = Cardinality(AddedIfs(d)')
  <2>1. added'[d] = added[d] /\ count'[d] = count[d]
    BY <1>1, <1>2, <1>3, <1>5
  <2>2. AddedIfs(d)' = AddedIfs(d)
    BY <1>3, <2>1 DEF AddedIfs
  <2> QED BY <1>1, <2>1, <2>2 DEF Counted
<1>6. ASSUME c \notin late' PROVE count'[c] = Cardinality(AddedIfs(c)')
  <2> DEFINE A == AddedIfs(c)
             B == ToSet(added[g])
  <2>1. AddedIfs(c)' = A \cup B
    BY <1>2, <1>3 DEF AddedIfs
  <2>2. A \cap B = {}
    <3>1. \A h \in ToSet(added[c]) : h \in Parents /\ h # g
      BY <1>2, <1>3
    <3>2. \A h \in ToSet(added[c]) : ToSet(added[h]) \cap B = {}
      BY <1>1, <3>1, IfsApart
    <3> QED BY <3>2 DEF AddedIfs
  <2>3. A \in SUBSET Ifs /\ B \in SUBSET Ifs /\ A \cup B \in SUBSET Ifs
    BY <1>3 DEF AddedIfs
  <2>4. count[c] = Cardinality(A) /\ count[g] = Len(added[g])
    BY <1>1, <1>6 DEF Counted
  <2>5. Cardinality(B) = Len(added[g])
    BY <1>1, ChildrenOf, SizeOfSeq
  <2> HIDE DEF A, B
  <2>6. IsFiniteSet(A) /\ IsFiniteSet(B) /\ Cardinality(A) \in Nat /\ Cardinality(B) \in Nat
    BY <2>3, IfsFinite
  <2>7. Cardinality(A \cup B) \in Nat /\ Cardinality(A \cup B) <= Cardinality(Ifs) /\ Cardinality(Ifs) \in Nat
    BY <2>3, IfsFinite
  <2>8. Cardinality(A \cup B) = Cardinality(A) + Cardinality(B)
    <3>1. Cardinality(A \cup B) = Cardinality(A) + Cardinality(B) - Cardinality({})
      BY <2>2, <2>6, FS_Union
    <3> QED BY <2>6, <3>1, FS_EmptySet
  <2>9. count'[c] = (Cardinality(A) + Cardinality(B)) % 256
    BY <1>1, <1>3, <2>4, <2>5
  <2>10. \A x \in Nat : x <= 255 => x % 256 = x
    OBVIOUS
  <2>11. Cardinality(A \cup B) <= 255
    BY <2>7
  <2> QED BY <2>1, <2>7, <2>8, <2>9, <2>10, <2>11
<1> QED BY <1>4, <1>5, <1>6 DEF Counted

\* A group counts an interface that it gets, and the configurations that have
\* the group already do not (usb_if_grp_add).
LEMMA IfCounted ==
  ASSUME TreeInv, Counted, NEW g \in Groups, NEW i \in Ifs, usb_if_grp_add(g, i)
  PROVE  Counted'
<1>1. /\ AppendTo(g, i) /\ g \in Parents /\ i \in Kin(g) /\ g \notin Confs
      /\ count' = [count EXCEPT ![g] = IF child[g] = NULL THEN 1 ELSE @ + 1]
      /\ late' = late \cup {c \in Confs : g \in ToSet(Chain(c))}
  BY KinOf, UsbDevAssumption DEF usb_if_grp_add
<1>2. /\ Len(added'[g]) = Len(added[g]) + 1
      /\ \A q \in Parents : q # g => added'[q] = added[q]
  BY <1>1, AppendSets
<1>3. /\ \A h \in Groups : h \in Parents
      /\ \A d \in Confs : d \in Parents /\ d # g /\ Chain(d) = added[d] /\ ToSet(added[d]) \subseteq Groups
      /\ count \in [Parents -> Nat]
  BY <1>1, KinOf, ChildSets DEF TreeInv, TreeTypes
<1>4. ASSUME NEW h \in Groups PROVE count'[h] = Len(added'[h])
  <2>1. CASE h = g
    <3>1. child[g] = NULL <=> Len(added[g]) = 0
      <4>1. /\ added[g] \in Seq(Nodes) /\ Len(added[g]) \in Nat
            /\ \A k \in 1 .. Len(added[g]) : added[g][k] # NULL
        BY <1>1, ChildrenOf
      <4>2. child[g] = IF added[g] = <<>> THEN NULL ELSE added[g][1]
        BY <1>1 DEF TreeInv, Linked
      <4> QED BY <4>1, <4>2, EmptySeq
    <3>2. count[g] = Len(added[g])
      BY DEF Counted
    <3> QED BY <1>1, <1>2, <1>3, <2>1, <3>1, <3>2
  <2>2. CASE h # g
    BY <1>1, <1>2, <1>3, <2>2 DEF Counted
  <2> QED BY <2>1, <2>2
<1>5. ASSUME NEW d \in Confs \ late' PROVE count'[d] = Cardinality(AddedIfs(d)')
  <2>1. d \in Confs \ late /\ g \notin ToSet(added[d])
    BY <1>1, <1>3, <1>5
  <2>2. added'[d] = added[d] /\ count'[d] = count[d]
    BY <1>1, <1>2, <1>3
  <2>3. \A h \in ToSet(added[d]) : added'[h] = added[h]
    BY <1>2, <1>3, <2>1
  <2>4. AddedIfs(d)' = AddedIfs(d)
    BY <2>2, <2>3 DEF AddedIfs
  <2> QED BY <2>1, <2>2, <2>4 DEF Counted
<1> QED BY <1>4, <1>5 DEF Counted

\* The other builders leave groups and their interfaces alone; a configuration
\* counts from 0 when it is added (usb_dev_add_config, usb_if_add_ep).
LEMMA RestCounted ==
  ASSUME TreeInv, Counted,
         \/ \E c \in Confs : usb_dev_add_config(c)
         \/ \E i \in Ifs, e \in Eps : usb_if_add_ep(i, e)
  PROVE  Counted'
<1>0. /\ \A h \in Groups : h \in Parents /\ h # Dev /\ h \notin Ifs /\ h \notin Confs
      /\ \A d \in Confs : d \in Parents /\ d # Dev /\ d \notin Ifs /\ ToSet(added[d]) \subseteq Groups
      /\ count \in [Parents -> Nat]
  BY KinOf, ChildSets, UsbDevAssumption DEF TreeInv, TreeTypes, Nodes
<1>1. ASSUME NEW p \in Parents, NEW n \in Kin(p), AppendTo(p, n), p \notin Confs, p \notin Groups
      PROVE  /\ \A h \in Groups : added'[h] = added[h]
             /\ \A d \in Confs : AddedIfs(d)' = AddedIfs(d)
  <2>1. \A q \in Parents : q # p => added'[q] = added[q]
    BY <1>1, AppendSets
  <2>2. \A h \in Confs \cup Groups : added'[h] = added[h]
    BY <1>0, <1>1, <2>1
  <2> QED BY <1>0, <2>2 DEF AddedIfs
<1>2. ASSUME NEW c \in Confs, usb_dev_add_config(c) PROVE Counted'
  <2>1. /\ \A h \in Groups : added'[h] = added[h]
        /\ \A d \in Confs : AddedIfs(d)' = AddedIfs(d)
    <3>1. AppendTo(Dev, c) /\ Dev \in Parents /\ c \in Kin(Dev) /\ Dev \notin Confs /\ Dev \notin Groups
      BY <1>0, <1>2, KinOf DEF usb_dev_add_config
    <3> QED BY <1>1, <3>1
  <2>2. /\ \A q \in Parents : q # Dev /\ q # c => count'[q] = count[q]
        /\ count'[c] = 0
        /\ late \subseteq late' /\ (c \notin late' => InterfacesOf(c) = {})
    BY <1>0, <1>2 DEF usb_dev_add_config
  <2>3. \A h \in Groups : count'[h] = Len(added'[h])
    BY <1>0, <2>1, <2>2 DEF Counted
  <2>4. ASSUME c \notin late' PROVE count'[c] = Cardinality(AddedIfs(c)')
    <3>1. AddedIfs(c)' = {}
      BY <2>1, <2>2, <2>4, IfsMet
    <3> QED BY <2>2, <3>1, FS_EmptySet
  <2>5. ASSUME NEW d \in Confs \ late', d # c PROVE count'[d] = Cardinality(AddedIfs(d)')
    BY <1>0, <2>1, <2>2, <2>5 DEF Counted
  <2> QED BY <2>3, <2>4, <2>5 DEF Counted
<1>3. ASSUME NEW i \in Ifs, NEW e \in Eps, usb_if_add_ep(i, e) PROVE Counted'
  <2>1. /\ \A h \in Groups : added'[h] = added[h]
        /\ \A d \in Confs : AddedIfs(d)' = AddedIfs(d)
    <3>1. AppendTo(i, e) /\ i \in Parents /\ e \in Kin(i) /\ i \notin Confs /\ i \notin Groups
      BY <1>0, <1>3, KinOf DEF usb_if_add_ep
    <3> QED BY <1>1, <3>1
  <2>2. late' = late /\ \A q \in Parents : q # i => count'[q] = count[q]
    BY <1>0, <1>3 DEF usb_if_add_ep
  <2> QED BY <1>0, <2>1, <2>2 DEF Counted
<1> QED BY <1>2, <1>3

\* Every step keeps the counters.
LEMMA CountedStep ==
  ASSUME Cardinality(Ifs) <= 255
  PROVE  TreeInv /\ Counted /\ [ControlNext]_cvars => Counted'
<1> SUFFICES ASSUME TreeInv, Counted, [ControlNext]_cvars PROVE Counted'
  OBVIOUS
<1>1. CASE UNCHANGED tree
  BY <1>1 DEF tree, Counted, AddedIfs
<1>2. CASE Build
  BY <1>1, <1>2, BuildAppends, GroupCounted, IfCounted, RestCounted
<1>3. handle_urb => UNCHANGED tree
  BY TransferKeepsTree
<1> QED BY <1>1, <1>2, <1>3, ControlSteps DEF vars

\* With no more interfaces than a byte can count, a device list entry announces
\* as many as follow it, whatever configuration is in use, if groups were filled
\* before they were added and configurations added before they were filled
\* (usb_dev_to_buf, usb_dev_if_to_buf).
THEOREM TreeDevlist ==
  ASSUME Cardinality(Ifs) <= 255
  PROVE  ControlSpec => []DevlistMatches
<1>1. Init => Counted
  <2> SUFFICES ASSUME Init PROVE Counted
    OBVIOUS
  <2>1. /\ \A p \in Parents : added[p] = <<>> /\ ToSet(added[p]) = {} /\ Len(added[p]) = 0 /\ count[p] = 0
    BY DEF Init, ToSet
  <2>2. \A c \in Confs : AddedIfs(c) = {}
    BY <2>1, KinOf DEF AddedIfs
  <2> QED BY <2>1, <2>2, KinOf, FS_EmptySet DEF Counted
<1>2. TreeInv /\ Counted => DevlistMatches
  <2> SUFFICES ASSUME TreeInv, Counted, usb_dev_get_config(cur_config) \notin late
               PROVE  Announced = Entries
    BY DEF DevlistMatches
  <2> DEFINE c == usb_dev_get_config(cur_config)
  <2>1. CASE c = NULL
    BY <2>1 DEF Announced, Entries
  <2>2. CASE c # NULL
    <3>1. c \in Confs \ late
      BY <2>2, ConfigFound
    <3>2. Announced = count[c] /\ Entries = Cardinality(InterfacesOf(c))
      BY <2>2 DEF Announced, Entries
    <3> HIDE DEF c
    <3> QED BY <3>1, <3>2, IfsMet DEF Counted
  <2> QED BY <2>1, <2>2
<1> QED
  BY <1>1, <1>2, TreeInit, TreeStep, CountedStep, PTL DEF ControlSpec, ControlInit
-----------------------------------------------------------------------------
\* The table of lengths that IfsLen is defined from.
LenTable(ifs) ==
  CHOOSE len : len = [j \in 0 .. Len(ifs) |->
    IF j = 0 THEN ConfDesc ELSE len[j - 1] + IfDesc + EpDesc * Len(Chain(ifs[j]))]

\* f holds the sums of b and the first j lengths, each with d bytes in front.
Sums(f, n, b, d, a) == \A j \in 0 .. n : f[j] = IF j = 0 THEN b ELSE f[j - 1] + d + a[j]

\* A sum of lengths can be built up from its start, and is a length.
LEMMA TableExists ==
  ASSUME NEW n \in Nat, NEW b \in Nat, NEW d \in Nat, NEW a \in [1 .. n -> Nat]
  PROVE  \E f \in [0 .. n -> Nat] : Sums(f, n, b, d, a)
<1> DEFINE Built(m) == m <= n => \E f \in [0 .. m -> Nat] : Sums(f, m, b, d, a)
           S == {m \in Nat : Built(m)}
<1>0. \A m \in Nat : m \in S <=> Built(m)
  <2> HIDE DEF Built
  <2> QED OBVIOUS
<1> HIDE DEF S
<1>1. Built(0)
  <2> DEFINE f == [j \in 0 .. 0 |-> b]
  <2>1. f \in [0 .. 0 -> Nat] /\ Sums(f, 0, b, d, a)
    BY DEF Sums
  <2> HIDE DEF f
  <2> QED BY <2>1
<1>2. ASSUME NEW m \in Nat, Built(m) PROVE Built(m + 1)
  <2> SUFFICES ASSUME m + 1 <= n PROVE \E f \in [0 .. m + 1 -> Nat] : Sums(f, m + 1, b, d, a)
    OBVIOUS
  <2>1. PICK f \in [0 .. m -> Nat] : Sums(f, m, b, d, a)
    BY <1>2
  <2> DEFINE g == [j \in 0 .. m + 1 |-> IF j <= m THEN f[j] ELSE f[m] + d + a[m + 1]]
  <2>2. f[m] \in Nat /\ a[m + 1] \in Nat
    BY <2>1
  <2>3. g \in [0 .. m + 1 -> Nat]
    BY <2>1, <2>2
  <2>4. Sums(g, m + 1, b, d, a)
    <3> SUFFICES ASSUME NEW j \in 0 .. m + 1
                 PROVE  g[j] = IF j = 0 THEN b ELSE g[j - 1] + d + a[j]
      BY DEF Sums
    <3>1. CASE j = 0
      BY <2>1, <3>1 DEF Sums
    <3>2. CASE j # 0 /\ j <= m
      <4>1. j \in 0 .. m /\ j - 1 \in 0 .. m + 1 /\ j - 1 <= m
        BY <3>2
      <4>2. g[j] = f[j] /\ g[j - 1] = f[j - 1] /\ f[j] = f[j - 1] + d + a[j]
        BY <2>1, <3>2, <4>1 DEF Sums
      <4> QED BY <3>2, <4>2
    <3>3. CASE j = m + 1
      <4>1. m \in 0 .. m + 1 /\ j - 1 = m /\ ~(j <= m) /\ j # 0
        BY <3>3
      <4>2. g[j] = f[m] + d + a[m + 1] /\ g[j - 1] = f[m]
        BY <4>1
      <4> QED BY <3>3, <4>1, <4>2
    <3> QED BY <3>1, <3>2, <3>3
  <2> HIDE DEF g
  <2> QED BY <2>3, <2>4
<1>3. Nat \subseteq S
  <2> HIDE DEF Built
  <2> QED BY <1>0, <1>1, <1>2, SetInduction
<1>4. Built(n)
  <2> HIDE DEF Built
  <2> QED BY <1>0, <1>3
<1> QED BY <1>4

\* The lengths at which the descriptors of a configuration end are numbers.
LEMMA EndsAreLengths ==
  ASSUME TreeInv, NEW c \in Confs, child[c] # NULL
  PROVE  DescEnds(c) \subseteq Nat
<1> DEFINE g == child[c]
           ifs == Chain(g)
           n == Len(ifs)
<1>1. g \in Groups
  <2>1. /\ c \in Parents /\ Kin(c) = Groups /\ added[c] \in Seq(Nodes) /\ Len(added[c]) \in Nat
        /\ g = IF added[c] = <<>> THEN NULL ELSE added[c][1]
    BY KinOf, ChildrenOf DEF TreeInv, Linked
  <2>2. added[c] # <<>> /\ 1 \in 1 .. Len(added[c])
    BY <2>1, EmptySeq
  <2>3. added[c] \in Seq(Groups)
    BY <2>1, ChildSets
  <2> QED BY <2>1, <2>2, <2>3, ElementOfSeq
<1>2. ifs = added[g] /\ ifs \in Seq(Ifs) /\ n \in Nat
  <2>1. g \in Parents /\ Kin(g) = Ifs
    BY <1>1, KinOf
  <2> HIDE DEF g
  <2>2. Chain(g) = added[g] /\ added[g] \in Seq(Kin(g))
    BY <2>1, ChildSets
  <2> QED BY <2>1, <2>2, LenProperties
<1> HIDE DEF g, ifs, n
<1>3. ASSUME NEW j \in 1 .. n PROVE Len(Chain(ifs[j])) \in Nat
  <2>1. ifs[j] \in Parents
    BY <1>2, KinOf, ElementOfSeq DEF n
  <2>2. Chain(ifs[j]) = added[ifs[j]] /\ Len(added[ifs[j]]) \in Nat
    BY <2>1, ChildSets, ChildrenOf
  <2> QED BY <2>2
<1> DEFINE a == [j \in 1 .. n |-> EpDesc * Len(Chain(ifs[j]))]
           T == LenTable(ifs)
<1>4. ConfDesc \in Nat /\ IfDesc \in Nat /\ EpDesc \in Nat
  BY DEF ConfDesc, IfDesc, EpDesc, DescHdr
<1>5. a \in [1 .. n -> Nat]
  BY <1>3, <1>4
<1>6. PICK f \in [0 .. n -> Nat] : Sums(f, n, ConfDesc, IfDesc, a)
  <2> HIDE DEF a
  <2> QED BY <1>2, <1>4, <1>5, TableExists
<1>7. f = [j \in 0 .. n |->
             IF j = 0 THEN ConfDesc ELSE f[j - 1] + IfDesc + EpDesc * Len(Chain(ifs[j]))]
  <2>1. \A j \in 0 .. n : j # 0 => a[j] = EpDesc * Len(Chain(ifs[j]))
    BY <1>2
  <2> HIDE DEF a
  <2>2. f = [j \in 0 .. n |-> f[j]]
    OBVIOUS
  <2>3. \A j \in 0 .. n : f[j] = IF j = 0 THEN ConfDesc
                                 ELSE f[j - 1] + IfDesc + EpDesc * Len(Chain(ifs[j]))
    BY <1>6, <2>1 DEF Sums
  <2> QED BY <2>2, <2>3
<1>8. T = [j \in 0 .. n |->
             IF j = 0 THEN ConfDesc ELSE T[j - 1] + IfDesc + EpDesc * Len(Chain(ifs[j]))]
  BY <1>7 DEF LenTable, n
<1> HIDE DEF T, a
<1> DEFINE S == {j \in Nat : j <= n => T[j] \in Nat}
<1>9. Nat \subseteq S
  <2>1. 0 \in S
    BY <1>2, <1>4, <1>8
  <2>2. ASSUME NEW j \in Nat, j \in S PROVE j + 1 \in S
    <3> SUFFICES ASSUME j + 1 <= n PROVE T[j + 1] \in Nat
      OBVIOUS
    <3>1. j + 1 \in 0 .. n /\ j + 1 \in 1 .. n /\ j + 1 # 0 /\ (j + 1) - 1 = j /\ T[j] \in Nat
      BY <1>2, <2>2
    <3>2. T[j + 1] = T[j] + IfDesc + EpDesc * Len(Chain(ifs[j + 1]))
      BY <1>8, <3>1
    <3>3. EpDesc * Len(Chain(ifs[j + 1])) \in Nat
      BY <1>3, <1>4, <3>1
    <3> QED BY <1>4, <3>1, <3>2, <3>3
  <2> HIDE DEF S
  <2> QED BY <2>1, <2>2, SetInduction
<1>10. \A k \in 0 .. n : IfsLen(c, k) \in Nat
  <2>1. \A k : IfsLen(c, k) = T[k]
    BY DEF IfsLen, LenTable, T, ifs, g
  <2> QED BY <1>9, <2>1
<1>11. ASSUME NEW k \in 1 .. n, NEW e \in 0 .. Len(Chain(ifs[k]))
       PROVE  IfsLen(c, k - 1) + IfDesc + EpDesc * e \in Nat
  <2>1. k - 1 \in 0 .. n
    BY <1>2
  <2>2. e \in Nat
    BY <1>3
  <2>3. EpDesc * e \in Nat
    BY <1>4, <2>2
  <2> QED BY <1>4, <1>10, <2>1, <2>3
<1> QED BY <1>4, <1>11 DEF DescEnds, ifs, g, n

\* A configuration descriptor stays in the buffer, up to the header of the
\* first part that does not fit (USB_DT_CONFIG in handle_get_desc).
LEMMA ConfDescFits ==
  ASSUME TreeInv, ConfigurationFits, NEW v, NEW len \in Nat, len > DescHdr, GetConfDesc(v, len)
  PROVE  ConfigurationFits'
<1> DEFINE c == usb_dev_get_config(v)
<1>0. DescHdr = 2 /\ ConfDesc = 7
  BY DEF DescHdr, ConfDesc
<1>1. ASSUME NEW status, NEW actual, NEW written, Completes("conf", len, status, actual, written)
      PROVE  urb'.len = len /\ urb'.status = status /\ urb'.actual = actual /\ urb'.written = written
  BY <1>1 DEF Completes, Urb
<1>2. CASE c = NULL
  <2>1. Completes("conf", len, "-EINVAL", 0, DescHdr)
    BY <1>2 DEF GetConfDesc
  <2>2. urb'.len = len /\ urb'.status = "-EINVAL" /\ urb'.actual = 0 /\ urb'.written = DescHdr
    BY <1>1, <2>1
  <2> QED BY <1>0, <2>2 DEF ConfigurationFits
<1>3. CASE c # NULL /\ ~Fits(ConfDesc, len)
  <2>1. Completes("conf", len, "-ENOMEM", 0, DescHdr)
    BY <1>3 DEF GetConfDesc
  <2>2. urb'.len = len /\ urb'.status = "-ENOMEM" /\ urb'.actual = 0 /\ urb'.written = DescHdr
    BY <1>1, <2>1
  <2> QED BY <1>0, <2>2 DEF ConfigurationFits
<1>4. CASE c # NULL /\ Fits(ConfDesc, len) /\ child[c] = NULL
  <2>1. Completes("conf", len, "-EINVAL", ConfDesc, ConfDesc)
    BY <1>4 DEF GetConfDesc
  <2>2. urb'.len = len /\ urb'.status = "-EINVAL" /\ urb'.actual = ConfDesc /\ urb'.written = ConfDesc
    BY <1>1, <2>1
  <2>3. ConfDesc <= len
    BY <1>4 DEF Fits
  <2> QED BY <1>0, <2>2, <2>3 DEF ConfigurationFits
<1>5. CASE c # NULL /\ Fits(ConfDesc, len) /\ child[c] # NULL
  <2>1. CASE Fits(WholeLen(c), len)
    <3>1. urb' = urb
      BY <1>5, <2>1 DEF GetConfDesc, Crashes
    <3> QED BY <3>1 DEF ConfigurationFits
  <2>2. CASE ~Fits(WholeLen(c), len)
    <3>1. PICK n \in DescEnds(c) : Fits(n, len) /\ Completes("conf", len, "-ENOMEM", 0, n + DescHdr)
      BY <1>5, <2>2 DEF GetConfDesc
    <3>2. n \in Nat
      BY <1>5, ConfigFound, EndsAreLengths
    <3>3. urb'.len = len /\ urb'.status = "-ENOMEM" /\ urb'.actual = 0 /\ urb'.written = n + DescHdr
      BY <1>1, <3>1
    <3>4. n + DescHdr <= len + DescHdr
      BY <1>0, <3>1, <3>2 DEF Fits
    <3> QED BY <3>3, <3>4 DEF ConfigurationFits
  <2> QED BY <2>1, <2>2
<1> QED BY <1>2, <1>3, <1>4, <1>5

\* The other transfers are not about configuration descriptors.
LEMMA FitsStep == TreeInv /\ ConfigurationFits /\ [ControlNext]_cvars => ConfigurationFits'
<1> SUFFICES ASSUME TreeInv, ConfigurationFits, [ControlNext]_cvars PROVE ConfigurationFits'
  OBVIOUS
<1>1. CASE UNCHANGED urb
  BY <1>1 DEF ConfigurationFits
<1>2. CASE urb'.req # "conf"
  BY <1>2 DEF ConfigurationFits
<1>3. ASSUME NEW req, NEW len, NEW status, NEW actual, NEW written,
             Completes(req, len, status, actual, written)
      PROVE  urb'.req = req
  BY <1>3 DEF Completes, Urb
<1>4. CASE complete
  BY <1>2, <1>4 DEF complete, NoUrb, Urb
<1>5. ASSUME NEW len \in BufLens, handle_get_desc(len) PROVE ConfigurationFits'
  <2>1. len \in Nat
    BY UsbControlAssumption
  <2>2. CASE \E v \in Asked : GetConfDesc(v, len) /\ len > DescHdr
    BY <2>1, <2>2, ConfDescFits
  <2>3. CASE \/ Completes("unknown", len, "-EINVAL", 0, 0)
             \/ GetDevDesc(len) \/ GetLangId(len) \/ GetString(len)
             \/ Completes("other", len, "ENOTSUP", 0, 0)
    <3>1. urb'.req \in {"unknown", "dev", "lang", "string", "other"}
      BY <1>3, <2>3 DEF GetDevDesc, GetLangId, GetString
    <3> QED BY <1>2, <3>1
  <2> QED BY <1>5, <2>2, <2>3 DEF handle_get_desc
<1>6. ASSUME NEW len,
             \/ GetStatus(len) \/ Feature(len) \/ GetConf(len)
             \/ \E i \in Ifs : GetIf(IfNum[i], len)
             \/ Completes("unsupported", len, "ENOTSUP", 0, 0)
      PROVE  ConfigurationFits'
  <2>1. UNCHANGED urb \/ urb'.req \in {"status", "feature", "get_conf", "get_if", "unsupported"}
    BY <1>3, <1>6 DEF GetStatus, Feature, GetConf, GetIf, Crashes
  <2> QED BY <1>1, <1>2, <2>1
<1>7. ASSUME NEW v, SetConf(v) PROVE ConfigurationFits'
  <2>1. urb'.req = "set_conf"
    BY <1>3, <1>7 DEF SetConf, Urb
  <2> QED BY <1>2, <2>1
<1>8. CASE handle_urb
  BY <1>5, <1>6, <1>7, <1>8 DEF handle_urb
<1> QED BY <1>1, <1>4, <1>8 DEF ControlNext, cvars

\* Whatever a configuration holds and wherever the buffer ends, GET_DESCRIPTOR
\* writes no further than the header of the first part that does not fit, and
\* then reports nothing of the configuration (handle_get_desc).
THEOREM ControlDescriptorFits == ControlSpec => []ConfigurationFits
<1>1. ControlInit => ConfigurationFits
  BY DEF ControlInit, NoUrb, Urb, ConfigurationFits
<1> QED
  BY <1>1, TreeInit, TreeStep, FitsStep, PTL DEF ControlSpec, ControlInit
=============================================================================
