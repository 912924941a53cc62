------------------------------- MODULE UsbDev -------------------------------
(***************************************************************************)
(* The description of a USB device that dev.c builds and searches: a       *)
(* device has configurations, these have interface groups, these have      *)
(* interfaces and these have endpoints.  The callers own all structures;   *)
(* children are chained with their next pointers and counted in the        *)
(* descriptor of their parent (the interfaces of a configuration, in its   *)
(* groups, in the configuration).  usbip.c announces a number of           *)
(* interfaces from these counters and then sends one entry per interface.  *)
(*                                                                         *)
(* A structure is zero when its owner declares it, as in main.c, and is    *)
(* added once: adding it again would link it to itself.                    *)
(***************************************************************************)
EXTENDS Integers, FiniteSets, SequencesExt

CONSTANTS Confs, Groups, Ifs, Eps, \* the structures
          Dev,                     \* the device
          NULL,                    \* the null pointer
          ConfValue,               \* bConfigurationValue of a configuration
          IfNum, IfAlt,            \* bInterfaceNumber and bAlternateSetting of an interface
          EpNb, EpDir              \* ep_nb and dir of an endpoint

Parents == {Dev} \cup Confs \cup Groups \cup Ifs
Nodes   == Confs \cup Groups \cup Ifs \cup Eps
Byte    == 0 .. 255

ASSUME UsbDevAssumption ==
  /\ IsFiniteSet(Nodes) /\ NULL \notin Nodes /\ Dev \notin Nodes
  /\ Confs \cap Groups = {} /\ (Confs \cup Groups) \cap Ifs = {}
  /\ (Confs \cup Groups \cup Ifs) \cap Eps = {}
  /\ ConfValue \in [Confs -> Byte]
  /\ IfNum \in [Ifs -> Byte] /\ IfAlt \in [Ifs -> Byte]
  /\ EpNb \in [Eps -> Byte] /\ EpDir \in [Eps -> {0, 1}]

VARIABLES child,      \* configurations, interfaces, interfaces, endpoints: the first child
          next,       \* next
          count,      \* bNumConfigurations, bNumInterfaces, if_count, bNumEndpoints
          alt,        \* cur_alt_set of a group
          cur_config, \* cur_config, -1 until one is chosen
          added,      \* history: what was added to each parent, in order
          late        \* history: configurations that got interfaces past their counter

tree == <<child, next, count, alt, added, late>>
vars == <<tree, cur_config>>

\* usb_dev_create, and the other structures as declared.
Init ==
  /\ child = [p \in Parents |-> NULL] /\ next = [n \in Nodes |-> NULL]
  /\ count = [p \in Parents |-> 0] /\ alt = [g \in Groups |-> 0]
  /\ cur_config = -1
  /\ added = [p \in Parents |-> <<>>] /\ late = {}
-----------------------------------------------------------------------------
\* The children of p, as a walk along the next pointers meets them.
Chain(p) ==
  LET at[k \in 1 .. Cardinality(Nodes) + 1] ==
        IF k = 1 THEN child[p]
        ELSE LET n == at[k - 1] IN IF n = NULL THEN NULL ELSE next[n]
  IN  [k \in 1 .. Cardinality({j \in DOMAIN at : at[j] # NULL}) |-> at[k]]

\* The first one that passes the test, or NULL.
FirstWith(s, Test(_)) ==
  LET k == SelectInSeq(s, Test) IN IF k = 0 THEN NULL ELSE s[k]

\* A lookup converts what it is asked for to uint8_t.
usb_dev_get_config(v) == FirstWith(Chain(Dev), LAMBDA c : ConfValue[c] = v % 256)

\* A group is known by the number of its first interface.
usb_conf_get_if_grp(c, num) ==
  IF c = NULL THEN NULL
  ELSE FirstWith(Chain(c), LAMBDA g : child[g] # NULL /\ IfNum[child[g]] = num)

usb_dev_get_if_grp(v, num) == usb_conf_get_if_grp(usb_dev_get_config(v), num)

\* Mutant of usb_conf_get_if: the search ends with the first group at the setting.
FirstGroupOnly(c, num, a) ==
  IF c = NULL THEN NULL
  ELSE LET g == FirstWith(Chain(c), LAMBDA h : alt[h] = a)
       IN  IF g = NULL THEN NULL
           ELSE FirstWith(Chain(g), LAMBDA i : IfNum[i] = num /\ IfAlt[i] = a)

\* Only groups whose current alternate setting is the one asked for are searched.
usb_conf_get_if(c, num, a) ==
  IF c = NULL THEN NULL
  ELSE LET Is(i) == IfNum[i] = num /\ IfAlt[i] = a
           g == FirstWith(Chain(c), LAMBDA h : alt[h] = a /\ \E i \in ToSet(Chain(h)) : Is(i))
       IN  IF g = NULL THEN NULL ELSE FirstWith(Chain(g), Is)

usb_dev_get_if(v, num, a) == usb_conf_get_if(usb_dev_get_config(v), num, a)

usb_if_get_ep(i, nb, dir) ==
  IF i = NULL THEN NULL
  ELSE FirstWith(Chain(i), LAMBDA e : EpNb[e] = nb /\ EpDir[e] = dir)

usb_dev_get_ep(v, num, a, nb, dir) == usb_if_get_ep(usb_dev_get_if(v, num, a), nb, dir)
-----------------------------------------------------------------------------
Unused(n) == \A p \in Parents : n \notin ToSet(added[p])

\* Mutant of AppendTo: the node is put in front of the others.
AppendFront(p, n) ==
  /\ Unused(n)
  /\ child' = [child EXCEPT ![p] = n] /\ next' = [next EXCEPT ![n] = child[p]]
  /\ added' = [added EXCEPT ![p] = @ \o <<n>>]

\* What the builders have in common: the node goes to the end of its chain.
AppendTo(p, n) ==
  /\ Unused(n)
  /\ IF child[p] = NULL
     THEN child' = [child EXCEPT ![p] = n] /\ next' = [next EXCEPT ![n] = NULL]
     ELSE UNCHANGED child /\ next' = [next EXCEPT ![n] = NULL, ![Last(Chain(p))] = n]
  /\ added' = [added EXCEPT ![p] = @ \o <<n>>]

\* The interfaces of a configuration, in all of its groups.
InterfacesOf(c) == UNION {ToSet(Chain(g)) : g \in ToSet(Chain(c))}

\* The counter of interfaces starts at 0, also if there are some already.
usb_dev_add_config(c) ==
  /\ AppendTo(Dev, c)
  /\ count' = [count EXCEPT ![c] = 0, ![Dev] = IF child[Dev] = NULL THEN 1 ELSE (@ + 1) % 256]
  /\ late' = IF InterfacesOf(c) = {} THEN late ELSE late \cup {c}
  /\ UNCHANGED <<alt, cur_config>>

\* Mutant of usb_conf_add_if_grp: a group counts as one interface.
AddIfGrpOne(c, g) ==
  /\ AppendTo(c, g)
  /\ count' = [count EXCEPT ![c] = (@ + 1) % 256]
  /\ UNCHANGED <<alt, late, cur_config>>

usb_conf_add_if_grp(c, g) ==
  /\ AppendTo(c, g)
  /\ count' = [count EXCEPT ![c] = (@ + count[g]) % 256]
  /\ UNCHANGED <<alt, late, cur_config>>

\* Nothing happens if there is no such configuration.
usb_dev_add_if_grp(v, g) ==
  LET c == usb_dev_get_config(v) IN
  IF c = NULL THEN UNCHANGED vars ELSE usb_conf_add_if_grp(c, g)

\* A configuration that has the group already does not count the interface.
usb_if_grp_add(g, i) ==
  /\ AppendTo(g, i)
  /\ count' = [count EXCEPT ![g] = IF child[g] = NULL THEN 1 ELSE @ + 1]
  /\ alt' = IF child[g] = NULL THEN [alt EXCEPT ![g] = IfAlt[i]] ELSE alt
  /\ late' = late \cup {c \in Confs : g \in ToSet(Chain(c))}
  /\ UNCHANGED cur_config

usb_if_add_ep(i, e) ==
  /\ AppendTo(i, e)
  /\ count' = [count EXCEPT ![i] = (@ + 1) % 256]
  /\ UNCHANGED <<alt, late, cur_config>>

usb_dev_add_ep(v, num, a, e) ==
  LET i == usb_dev_get_if(v, num, a) IN
  IF i = NULL THEN UNCHANGED vars ELSE usb_if_add_ep(i, e)

\* main.c chooses a configuration it has added.
ChooseConfig(c) ==
  /\ c \in ToSet(Chain(Dev)) /\ cur_config = -1
  /\ cur_config' = ConfValue[c]
  /\ UNCHANGED tree

Build ==
  \/ \E c \in Confs : usb_dev_add_config(c) \/ ChooseConfig(c)
  \/ \E c \in Confs, g \in Groups : usb_conf_add_if_grp(c, g)
  \/ \E c \in Confs, g \in Groups : usb_dev_add_if_grp(ConfValue[c], g)
  \/ \E g \in Groups, i \in Ifs : usb_if_grp_add(g, i)
  \/ \E i \in Ifs, e \in Eps : usb_if_add_ep(i, e)
  \/ \E c \in Confs, i \in Ifs, e \in Eps : usb_dev_add_ep(ConfValue[c], IfNum[i], IfAlt[i], e)
-----------------------------------------------------------------------------
\* The interfaces usb_dev_to_buf announces, and the entries usb_dev_if_to_buf
\* sends after it (usbip.c).
Announced ==
  LET c == usb_dev_get_config(cur_config) IN IF c = NULL THEN 0 ELSE count[c]

Entries ==
  LET c == usb_dev_get_config(cur_config)
  IN  IF c = NULL THEN 0 ELSE Cardinality(InterfacesOf(c))
-----------------------------------------------------------------------------
\* Every walk along next pointers ends and meets what was added to its parent,
\* in the order of the calls, whatever is added elsewhere (the builders).
ChainsAsAdded == \A p \in Parents : Chain(p) = added[p]

\* A device list entry announces as many interfaces as follow it: a client
\* that counts keeps its place in the stream.  It holds if groups were
\* filled before they were added, and configurations added before they were
\* filled, the order of main.c (usb_dev_to_buf, usb_dev_if_to_buf).
DevlistMatches ==
  usb_dev_get_config(cur_config) \notin late => Announced = Entries

\* An interface whose group is at its alternate setting, and an endpoint of
\* it, are found again under the numbers they were added with; what is found
\* has these numbers (usb_conf_get_if, usb_if_get_ep).
FoundAgain ==
  \A c \in ToSet(Chain(Dev)) : usb_dev_get_config(ConfValue[c]) = c =>
    \A g \in ToSet(Chain(c)) : \A i \in ToSet(Chain(g)) :
      IfAlt[i] = alt[g] =>
        LET j == usb_dev_get_if(ConfValue[c], IfNum[i], IfAlt[i]) IN
        /\ j \in InterfacesOf(c) /\ IfNum[j] = IfNum[i] /\ IfAlt[j] = IfAlt[i]
        /\ \A e \in ToSet(Chain(j)) :
             LET f == usb_dev_get_ep(ConfValue[c], IfNum[i], IfAlt[i], EpNb[e], EpDir[e])
             IN  f \in ToSet(Chain(j)) /\ EpNb[f] = EpNb[e] /\ EpDir[f] = EpDir[e]
=============================================================================
