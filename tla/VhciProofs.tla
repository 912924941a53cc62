----------------------------- MODULE VhciProofs -----------------------------
(***************************************************************************)
(* Numbers of the virtual host controller are never given twice, for every *)
(* number of devices and calls below the range of bus numbers.             *)
(*                                                                         *)
(* Everything rests on an order: the pair of counters only grows, from one *)
(* bus to the next, so every pair given is before the counters (Past), the *)
(* next pair is new, and a pair belongs to one device (GivenOnce).         *)
(***************************************************************************)
EXTENDS Vhci, TLAPS

\* A pair is before the counters.
Before(bus, num) == bus < last_busnum \/ (bus = last_busnum /\ num < last_devnum)

\* The counters and what was given.
Counters ==
  /\ last_busnum \in Nat /\ last_devnum \in 0 .. DevMax
  /\ calls \in Nat /\ last_busnum <= calls /\ calls <= MaxCalls

Past == \A g \in given : /\ g \in Nat \X Nat \X Devs
                         /\ Before(g[1], g[2])

GivenOnce == \A g, h \in given : g[1] = h[1] /\ g[2] = h[2] => g[3] = h[3]

\* Shapes of the list, the memory and the numbers.
Shape ==
  /\ devices \in Seq(used) /\ used \subseteq Vdevs
  /\ dev \in [Vdevs -> Devs \cup {NULL}] /\ \A v \in used : dev[v] \in Devs
  /\ busnum \in [Devs -> Nat] /\ devnum \in [Devs -> 0 .. DevMax - 1]
  /\ DOMAIN busid = Devs

\* The list holds the memory in use, each piece once.
Once ==
  /\ \A v \in used : \E k \in DOMAIN devices : devices[k] = v
  /\ \A j, k \in DOMAIN devices : devices[j] = devices[k] => j = k

\* A device in the list has numbers and a busid that were given to it.
Own(d) ==
  /\ <<busnum[d], devnum[d], d>> \in given
  /\ \E b, n \in Nat : busid[d] = <<b, n>> /\ <<b, n, d>> \in given

Owned == \A v \in used : Own(dev[v])

IInv == Counters /\ Past /\ GivenOnce /\ Shape /\ Once /\ Owned
-----------------------------------------------------------------------------
\* At first nothing is given and nothing is listed.
LEMMA InitIInv == Init => IInv
BY VhciAssumption DEF Init, IInv, Counters, Past, GivenOnce, Shape, Once, Owned

\* The next pair is a pair of numbers, and no pair was given that equals it.
LEMMA NextIsNew ==
  ASSUME Counters, Past, calls < MaxCalls
  PROVE  \E b \in Nat, n \in 0 .. DevMax - 1 :
           /\ NextNumber = <<b, n>> /\ b <= calls + 1
           /\ b > last_busnum \/ (b = last_busnum /\ n = last_devnum)
           /\ \A g \in given : ~(g[1] = b /\ g[2] = n)
<1> DEFINE full == last_devnum >= DevMax
<1>1. CASE full
  <2>1. last_busnum + 1 < BusMod /\ last_busnum + 1 \in Nat
    BY VhciAssumption DEF Counters
  <2>2. (last_busnum + 1) % BusMod = last_busnum + 1
    BY <2>1, VhciAssumption
  <2>3. NextNumber = <<last_busnum + 1, 0>>
    BY <1>1, <2>2 DEF NextNumber
  <2>4. \A g \in given : ~(g[1] = last_busnum + 1 /\ g[2] = 0)
    BY DEF Past, Before, Counters
  <2>5. last_busnum + 1 <= calls + 1 /\ last_busnum + 1 > last_busnum /\ 0 \in 0 .. DevMax - 1
    BY VhciAssumption DEF Counters
  <2> QED BY <2>1, <2>3, <2>4, <2>5
<1>2. CASE ~full
  <2>1. NextNumber = <<last_busnum, last_devnum>>
    BY <1>2 DEF NextNumber
  <2>2. last_devnum \in 0 .. DevMax - 1 /\ last_busnum \in Nat /\ last_busnum <= calls + 1
    BY <1>2, VhciAssumption DEF Counters
  <2>3. \A g \in given : ~(g[1] = last_busnum /\ g[2] = last_devnum)
    BY DEF Past, Before, Counters
  <2> QED BY <2>1, <2>2, <2>3
<1> QED BY <1>1, <1>2

\* Taking a number keeps the order of the counters and gives the pair to one
\* device only.
LEMMA TakeNumberKeeps ==
  ASSUME Counters, Past, GivenOnce, NEW d \in Devs, TakeNumber(d),
         busnum \in [Devs -> Nat], devnum \in [Devs -> 0 .. DevMax - 1]
  PROVE  /\ Counters' /\ Past' /\ GivenOnce'
         /\ busnum' \in [Devs -> Nat] /\ devnum' \in [Devs -> 0 .. DevMax - 1]
         /\ <<busnum'[d], devnum'[d], d>> \in given'
         /\ busnum'[d] \in Nat /\ devnum'[d] \in Nat
         /\ given \subseteq given'
         /\ \A e \in Devs \ {d} : busnum'[e] = busnum[e] /\ devnum'[e] = devnum[e]
<1>1. calls < MaxCalls /\ calls' = calls + 1
  BY DEF TakeNumber
<1>2. PICK b \in Nat, n \in 0 .. DevMax - 1 :
        /\ NextNumber = <<b, n>> /\ b <= calls + 1
        /\ b > last_busnum \/ (b = last_busnum /\ n = last_devnum)
        /\ \A g \in given : ~(g[1] = b /\ g[2] = n)
  BY <1>1, NextIsNew
<1>3. /\ last_busnum' = b /\ last_devnum' = n + 1
      /\ busnum' = [busnum EXCEPT ![d] = b] /\ devnum' = [devnum EXCEPT ![d] = n]
      /\ given' = given \cup {<<b, n, d>>}
  BY <1>2 DEF TakeNumber
<1>4. Counters'
  BY <1>1, <1>2, <1>3, VhciAssumption DEF Counters
<1>5. Past'
  <2> SUFFICES ASSUME NEW g \in given'
               PROVE  g \in Nat \X Nat \X Devs /\ Before(g[1], g[2])'
    BY DEF Past
  <2>1. CASE g = <<b, n, d>>
    <3>1. n \in Nat /\ n < n + 1
      BY <1>2, VhciAssumption
    <3>2. Before(b, n)'
      BY <3>1, <1>3 DEF Before
    <3> QED BY <2>1, <3>1, <3>2
  <2>2. CASE g \in given
    <3>1. g \in Nat \X Nat \X Devs /\ Before(g[1], g[2])
      BY <2>2 DEF Past
    <3>2. g[1] \in Nat /\ g[2] \in Nat
      BY <3>1
    <3>3. g[1] < b \/ (g[1] = b /\ g[2] < n + 1)
      BY <3>1, <3>2, <1>2, VhciAssumption DEF Before, Counters
    <3> QED BY <3>1, <3>3, <1>3 DEF Before
  <2> QED BY <2>1, <2>2, <1>3
<1>6. GivenOnce'
  BY <1>2, <1>3 DEF GivenOnce
<1> QED BY <1>2, <1>3, <1>4, <1>5, <1>6, VhciAssumption
-----------------------------------------------------------------------------
\* A device keeps what was given to it while others, or it, get new numbers.
LEMMA OwnKept ==
  ASSUME Counters, Past, GivenOnce, Shape, NEW d \in Devs, TakeNumber(d),
         NEW e \in Devs, Own(e), busid'[e] = busid[e]
  PROVE  Own(e)'
<1>1. /\ <<busnum'[d], devnum'[d], d>> \in given'
      /\ given \subseteq given'
      /\ \A f \in Devs \ {d} : busnum'[f] = busnum[f] /\ devnum'[f] = devnum[f]
  BY TakeNumberKeeps DEF Shape
<1>2. <<busnum'[e], devnum'[e], e>> \in given'
  <2>1. CASE e = d BY <2>1, <1>1
  <2>2. CASE e # d BY <2>2, <1>1 DEF Own
  <2> QED BY <2>1, <2>2
<1>3. \E b, n \in Nat : busid'[e] = <<b, n>> /\ <<b, n, e>> \in given'
  BY <1>1 DEF Own
<1> QED BY <1>2, <1>3 DEF Own

\* A registration that fails leaves the list, the memory in use and the busids.
LEMMA FailureKeeps ==
  ASSUME IInv, NEW d \in Devs, TakeNumber(d),
         UNCHANGED <<devices, used, busid>>,
         dev' \in [Vdevs -> Devs \cup {NULL}], \A v \in used : dev'[v] = dev[v]
  PROVE  IInv'
<1>1. /\ Counters' /\ Past' /\ GivenOnce'
      /\ busnum' \in [Devs -> Nat] /\ devnum' \in [Devs -> 0 .. DevMax - 1]
  BY TakeNumberKeeps DEF IInv, Shape
<1>2. Shape'
  BY <1>1 DEF IInv, Shape
<1>3. Once'
  BY DEF IInv, Once
<1>4. Owned'
  <2> SUFFICES ASSUME NEW v \in used PROVE Own(dev[v])'
    BY DEF Owned
  <2>1. PICK e \in Devs : e = dev[v] /\ Own(e)
    BY DEF IInv, Shape, Owned
  <2>2. Own(e)'
    BY <2>1, OwnKept DEF IInv
  <2>3. dev'[v] = e
    BY <2>1
  <2> QED BY <2>2, <2>3 DEF Own
<1> QED BY <1>1, <1>2, <1>3, <1>4 DEF IInv

\* A registration that succeeds puts new memory at the end of the list; its
\* device has the numbers and the busid it was just given.
LEMMA RegistersKeeps ==
  ASSUME IInv, NEW d \in Devs, NEW v \in Vdevs, Registers(d, v)
  PROVE  IInv'
<1>1. /\ v \notin used /\ TakeNumber(d)
      /\ dev' = [dev EXCEPT ![v] = d] /\ used' = used \cup {v}
      /\ devices' = Append(devices, v)
      /\ busid' = [busid EXCEPT ![d] = <<busnum'[d], devnum'[d]>>]
  BY DEF Registers
<1>2. /\ Counters' /\ Past' /\ GivenOnce'
      /\ busnum' \in [Devs -> Nat] /\ devnum' \in [Devs -> 0 .. DevMax - 1]
      /\ <<busnum'[d], devnum'[d], d>> \in given'
      /\ busnum'[d] \in Nat /\ devnum'[d] \in Nat
  BY <1>1, TakeNumberKeeps DEF IInv, Shape
<1>3. /\ devices \in Seq(used) /\ devices \in Seq(used')
      /\ Len(devices') = Len(devices) + 1 /\ devices'[Len(devices) + 1] = v
      /\ DOMAIN devices = 1 .. Len(devices) /\ DOMAIN devices' = 1 .. (Len(devices) + 1)
      /\ \A k \in DOMAIN devices : devices'[k] = devices[k] /\ devices[k] \in used
      /\ Len(devices) \in Nat
  BY <1>1 DEF IInv, Shape
<1>4. Shape'
  <2>1. devices' \in Seq(used')
    BY <1>1, <1>3
  <2>2. \A u \in used' : dev'[u] \in Devs
    BY <1>1 DEF IInv, Shape
  <2>3. DOMAIN busid' = Devs /\ dev' \in [Vdevs -> Devs \cup {NULL}] /\ used' \subseteq Vdevs
    BY <1>1 DEF IInv, Shape
  <2> QED BY <1>2, <2>1, <2>2, <2>3 DEF Shape
<1>5. Once'
  <2>1. \A u \in used' : \E k \in DOMAIN devices' : devices'[k] = u
    <3> SUFFICES ASSUME NEW u \in used' PROVE \E k \in DOMAIN devices' : devices'[k] = u
      OBVIOUS
    <3>1. CASE u = v BY <3>1, <1>3
    <3>2. CASE u \in used BY <3>2, <1>3 DEF IInv, Once
    <3> QED BY <3>1, <3>2, <1>1
  <2>2. \A j, k \in DOMAIN devices' : devices'[j] = devices'[k] => j = k
    BY <1>1, <1>3 DEF IInv, Once
  <2> QED BY <2>1, <2>2 DEF Once
<1>6. Owned'
  <2> SUFFICES ASSUME NEW u \in used' PROVE Own(dev[u])'
    BY DEF Owned
  <2>1. PICK e \in Devs : e = dev'[u]
    BY <1>4 DEF Shape
  <2>2. Own(e)'
    <3>1. CASE e = d
      <4>1. busid'[d] = <<busnum'[d], devnum'[d]>>
        BY <1>1 DEF IInv, Shape
      <4> QED BY <3>1, <4>1, <1>2 DEF Own
    <3>2. CASE e # d
      <4>1. u \in used /\ e = dev[u]
        BY <3>2, <2>1, <1>1 DEF IInv, Shape
      <4>2. Own(e) /\ busid'[e] = busid[e]
        BY <4>1, <3>2, <1>1 DEF IInv, Owned, Shape
      <4> QED BY <4>2, <1>1, OwnKept DEF IInv
    <3> QED BY <3>1, <3>2
  <2> QED BY <2>1, <2>2 DEF Own
<1> QED BY <1>2, <1>4, <1>5, <1>6 DEF IInv

\* Every step keeps the invariant.
LEMMA NextIInv == IInv /\ [Next]_vars => IInv'
<1> SUFFICES ASSUME IInv, [Next]_vars PROVE IInv'
  OBVIOUS
<1>1. CASE UNCHANGED vars
  <2>1. Counters' /\ Past' /\ GivenOnce'
    BY <1>1 DEF vars, numbers, IInv, Counters, Past, Before, GivenOnce
  <2>2. Shape' /\ Once'
    BY <1>1 DEF vars, numbers, IInv, Shape, Once
  <2>3. Owned'
    BY <1>1 DEF vars, numbers, IInv, Owned, Own
  <2> QED BY <2>1, <2>2, <2>3 DEF IInv
<1>2. CASE Next
  <2>1. PICK d \in Devs : vhci_register_dev(d)
    BY <1>2 DEF Next
  <2>2. CASE NoMemory(d)
    BY <2>2, FailureKeeps DEF NoMemory, IInv, Shape
  <2>3. ASSUME NEW v \in Vdevs, PushFails(d, v) PROVE IInv'
    <3>1. /\ v \notin used /\ TakeNumber(d) /\ UNCHANGED <<devices, used, busid>>
          /\ dev' = [dev EXCEPT ![v] = d]
      BY <2>3 DEF PushFails
    <3>2. dev' \in [Vdevs -> Devs \cup {NULL}] /\ \A u \in used : dev'[u] = dev[u]
      BY <3>1 DEF IInv, Shape
    <3> QED BY <3>1, <3>2, FailureKeeps
  <2>4. ASSUME NEW v \in Vdevs, Registers(d, v) PROVE IInv'
    BY <2>4, RegistersKeeps
  <2> QED BY <2>1, <2>2, <2>3, <2>4 DEF vhci_register_dev
<1> QED BY <1>1, <1>2
-----------------------------------------------------------------------------
\* What is found by numbers is a listed one with these numbers.
LEMMA FoundByNumbers ==
  ASSUME NEW b, NEW n, NEW v \in vhci_get_device(b, n)
  PROVE  \E k \in DOMAIN devices : devices[k] = v /\ busnum[dev[v]] = b /\ devnum[dev[v]] = n
BY DEF vhci_get_device, LastOf

\* A pair leads to the device it was given to, or nowhere.
LEMMA InvNeverAnother == IInv => NeverAnotherDevice
<1> SUFFICES ASSUME IInv, NEW g \in given, NEW v \in vhci_get_device(g[1], g[2])
             PROVE  dev[v] = g[3]
  BY DEF NeverAnotherDevice
<1>1. PICK k \in DOMAIN devices :
        devices[k] = v /\ busnum[dev[v]] = g[1] /\ devnum[dev[v]] = g[2]
  BY FoundByNumbers
<1>2. v \in used
  BY <1>1 DEF IInv, Shape
<1>3. <<busnum[dev[v]], devnum[dev[v]], dev[v]>> \in given
  BY <1>2 DEF IInv, Owned, Own
<1> DEFINE h == <<busnum[dev[v]], devnum[dev[v]], dev[v]>>
<1>4. h \in given /\ h[1] = g[1] /\ h[2] = g[2] /\ h[3] = dev[v]
  BY <1>1, <1>3
<1> HIDE DEF h
<1> QED BY <1>4 DEF IInv, GivenOnce

\* Busid and numbers of a listed device pick out the same entries of the list:
\* the ones of that device.
LEMMA SameHits ==
  ASSUME IInv, NEW d \in Listed
  PROVE  /\ {k \in DOMAIN devices : busid[dev[devices[k]]] = busid[d]}
              = {k \in DOMAIN devices : dev[devices[k]] = d}
         /\ {k \in DOMAIN devices : busnum[dev[devices[k]]] = busnum[d]
                                    /\ devnum[dev[devices[k]]] = devnum[d]}
              = {k \in DOMAIN devices : dev[devices[k]] = d}
<1>1. \A k \in DOMAIN devices : devices[k] \in used
  BY DEF IInv, Shape
<1>2. Own(d) /\ \A k \in DOMAIN devices : Own(dev[devices[k]])
  BY <1>1 DEF IInv, Owned, Listed
<1>3. ASSUME NEW e, Own(e), busnum[e] = busnum[d], devnum[e] = devnum[d] PROVE e = d
  <2> DEFINE g == <<busnum[e], devnum[e], e>>
             h == <<busnum[d], devnum[d], d>>
  <2>1. g \in given /\ h \in given /\ g[1] = h[1] /\ g[2] = h[2] /\ g[3] = e /\ h[3] = d
    BY <1>2, <1>3 DEF Own
  <2> HIDE DEF g, h
  <2> QED BY <2>1 DEF IInv, GivenOnce
<1>4. ASSUME NEW e, Own(e), busid[e] = busid[d] PROVE e = d
  <2>1. PICK b, n \in Nat : busid[e] = <<b, n>> /\ <<b, n, e>> \in given
    BY <1>4 DEF Own
  <2>2. PICK c, m \in Nat : busid[d] = <<c, m>> /\ <<c, m, d>> \in given
    BY <1>2 DEF Own
  <2>3. b = c /\ n = m
    BY <2>1, <2>2, <1>4
  <2> DEFINE g == <<b, n, e>>
             h == <<c, m, d>>
  <2>4. g \in given /\ h \in given /\ g[1] = h[1] /\ g[2] = h[2] /\ g[3] = e /\ h[3] = d
    BY <2>1, <2>2, <2>3
  <2> HIDE DEF g, h
  <2> QED BY <2>4 DEF IInv, GivenOnce
<1> QED BY <1>2, <1>3, <1>4

\* The last entry of a device is what its busid and its numbers lead to.
LEMMA InvImport == IInv => ImportReachesDevice
<1> SUFFICES ASSUME IInv, NEW d \in Listed, NEW v \in vhci_find_device(busid[d])
             PROVE  dev[v] = d /\ vhci_get_device(busnum[d], devnum[d]) = {v}
  BY DEF ImportReachesDevice
<1> DEFINE Hit == {k \in DOMAIN devices : dev[devices[k]] = d}
<1>1. vhci_find_device(busid[d]) = LastOf(Hit) /\ vhci_get_device(busnum[d], devnum[d]) = LastOf(Hit)
  BY SameHits DEF vhci_find_device, vhci_get_device
<1>2. PICK h \in Hit : devices[h] = v /\ \A j \in Hit : j <= h
  BY <1>1 DEF LastOf
<1>3. Hit \subseteq Nat
  BY DEF IInv, Shape
<1>4. ASSUME NEW k \in Hit, \A j \in Hit : j <= k PROVE k = h
  <2>1. k <= h /\ h <= k /\ k \in Nat /\ h \in Nat
    BY <1>2, <1>3, <1>4
  <2> QED BY <2>1
<1>5. LastOf(Hit) = {v}
  BY <1>2, <1>4 DEF LastOf
<1> QED BY <1>1, <1>2, <1>5

\* Each piece of memory in use has its one place in the list.
LEMMA InvListedOnce == IInv => ListedOnce
BY DEF IInv, Once, ListedOnce
-----------------------------------------------------------------------------
\* The controller's numbers are right in every reachable state: the invariant
\* of vhci_register_dev, whichever of its steps fail.
THEOREM VhciInductive == Spec => []IInv
<1>1. Init => IInv BY InitIInv
<1>2. IInv /\ [Next]_vars => IInv' BY NextIInv
<1> QED BY <1>1, <1>2, PTL DEF Spec

\* Numbers stay in their ranges, the list holds memory in use
\* (vhci_register_dev at the maximum device number).
THEOREM VhciTypes == Spec => []TypeOK
<1>1. IInv => TypeOK
  BY DEF IInv, Counters, Shape, TypeOK
<1> QED BY <1>1, VhciInductive, PTL

\* No vusb_dev_t is lost or listed twice (the dev_free of vhci_register_dev).
THEOREM VhciListedOnce == Spec => []ListedOnce
BY InvListedOnce, VhciInductive, PTL

\* Numbers once given never lead to another device (vhci_get_device).
THEOREM VhciNeverAnotherDevice == Spec => []NeverAnotherDevice
BY InvNeverAnother, VhciInductive, PTL

\* A busid and the numbers in its reply lead to the same vusb_dev_t
\* (vhci_find_device, vhci_get_device).
THEOREM VhciImport == Spec => []ImportReachesDevice
BY InvImport, VhciInductive, PTL
=============================================================================
