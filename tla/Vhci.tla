-------------------------------- MODULE Vhci --------------------------------
(***************************************************************************)
(* The devices of the virtual host controller (vhci.c): a device gets a    *)
(* bus and a device number when it is registered, a vusb_dev_t, and a      *)
(* place in the list of devices.  A client learns the numbers from the     *)
(* device list, asks for a device by its busid, and from then on names it  *)
(* by its two numbers in every command; it may use numbers it has learned  *)
(* long ago.                                                               *)
(*                                                                         *)
(* The list is the sequence that ListSpec promises and LinkedList          *)
(* implements.  Memory comes from malloc or from pools of DEV_POOL_SIZE,   *)
(* Vdevs; either may be out of memory.                                     *)
(***************************************************************************)
EXTENDS Integers, Sequences

CONSTANTS Devs,      \* devices, usb_dev_t
          Vdevs,     \* memory for vusb_dev_t
          NULL,      \* vdev->dev of memory that was never used
          DevMax,    \* UINT16_MAX, where device numbers start again
          BusMod,    \* 2^32, where bus numbers start again
          MaxCalls   \* bound: calls of vhci_register_dev

ASSUME VhciAssumption ==
  /\ DevMax \in Nat \ {0} /\ BusMod \in Nat
  /\ MaxCalls \in Nat /\ MaxCalls < BusMod

VARIABLES devices,        \* handle->devices: the list
          dev,            \* vdev->dev, of each vusb_dev_t
          used,           \* the vusb_dev_t in use by the controller
          busnum, devnum, \* of each device
          busid,          \* of each device, written "%u-%u": the two numbers; empty at first
          last_busnum, last_devnum,
          given,          \* history: numbers and the device they were given to
          calls           \* bound: calls so far

numbers == <<busnum, devnum, last_busnum, last_devnum, given, calls>>
vars == <<numbers, devices, dev, used, busid>>

\* vhci_init, and devices as usb_dev_create leaves them.
Init ==
  /\ devices = <<>> /\ dev = [v \in Vdevs |-> NULL] /\ used = {}
  /\ busnum = [d \in Devs |-> 0] /\ devnum = [d \in Devs |-> 0]
  /\ busid = [d \in Devs |-> <<>>]
  /\ last_busnum = 0 /\ last_devnum = 0
  /\ given = {} /\ calls = 0
-----------------------------------------------------------------------------
\* Devices listed for a client, one entry for each registration
\* (vhci_iter_devices).
Listed == {dev[devices[k]] : k \in DOMAIN devices}

\* The callbacks never stop the walk: what is found is the last hit.
LastOf(Hit) == {devices[k] : k \in {h \in Hit : \A j \in Hit : j <= h}}

\* What is found by a busid, or by numbers: a vusb_dev_t, or {} for NULL.
vhci_find_device(id) == LastOf({k \in DOMAIN devices : busid[dev[devices[k]]] = id})

vhci_get_device(bus, num) ==
  LastOf({k \in DOMAIN devices :
            busnum[dev[devices[k]]] = bus /\ devnum[dev[devices[k]]] = num})
-----------------------------------------------------------------------------
\* Mutant of NextNumber: the bus stays the same at the maximum.
NextNumberSameBus ==
  IF last_devnum >= DevMax THEN <<last_busnum, 0>> ELSE <<last_busnum, last_devnum>>

\* Mutant of NextNumber: one device too many on a bus.
NextNumberLate ==
  IF last_devnum > DevMax THEN <<(last_busnum + 1) % BusMod, 0>>
  ELSE <<last_busnum, last_devnum>>

\* Bus and device number of the next registration.
NextNumber ==
  IF last_devnum >= DevMax THEN <<(last_busnum + 1) % BusMod, 0>>
  ELSE <<last_busnum, last_devnum>>

\* The device has its numbers before memory is asked for, and keeps them, and
\* they are not given again, if there is none.
TakeNumber(d) ==
  LET n == NextNumber IN
  /\ calls < MaxCalls /\ calls' = calls + 1
  /\ last_busnum' = n[1] /\ last_devnum' = n[2] + 1
  /\ busnum' = [busnum EXCEPT ![d] = n[1]] /\ devnum' = [devnum EXCEPT ![d] = n[2]]
  /\ given' = given \cup {<<n[1], n[2], d>>}

\* dev_alloc has no memory.
NoMemory(d) == TakeNumber(d) /\ UNCHANGED <<devices, dev, used, busid>>

\* Mutant of PushFails: the vusb_dev_t is not freed.
PushFailsLeaks(d, v) ==
  /\ v \notin used /\ TakeNumber(d)
  /\ dev' = [dev EXCEPT ![v] = d] /\ used' = used \cup {v}
  /\ UNCHANGED <<devices, busid>>

\* linked_list_push has no memory: the vusb_dev_t is freed.
PushFails(d, v) ==
  /\ v \notin used /\ TakeNumber(d)
  /\ dev' = [dev EXCEPT ![v] = d]
  /\ UNCHANGED <<devices, used, busid>>

\* Mutant of Registers: the busid holds the device number alone.
RegistersShortId(d, v) ==
  /\ v \notin used /\ TakeNumber(d)
  /\ dev' = [dev EXCEPT ![v] = d] /\ used' = used \cup {v}
  /\ devices' = Append(devices, v)
  /\ busid' = [busid EXCEPT ![d] = <<0, devnum'[d]>>]

\* A device that is registered already is renumbered and listed once more.
Registers(d, v) ==
  /\ v \notin used /\ TakeNumber(d)
  /\ dev' = [dev EXCEPT ![v] = d] /\ used' = used \cup {v}
  /\ devices' = Append(devices, v)
  /\ busid' = [busid EXCEPT ![d] = <<busnum'[d], devnum'[d]>>]

vhci_register_dev(d) == NoMemory(d) \/ \E v \in Vdevs : PushFails(d, v) \/ Registers(d, v)

Next == \E d \in Devs : vhci_register_dev(d)

Spec == Init /\ [][Next]_vars
-----------------------------------------------------------------------------
\* Device numbers stay below UINT16_MAX, the width they have in a command,
\* and the list holds memory in use.
TypeOK ==
  /\ devices \in Seq(used) /\ used \subseteq Vdevs
  /\ \A v \in used : dev[v] \in Devs
  /\ busnum \in [Devs -> Nat] /\ devnum \in [Devs -> 0 .. DevMax - 1]
  /\ last_busnum \in Nat /\ last_devnum \in 0 .. DevMax

\* Every vusb_dev_t in use is in the list exactly once: whichever step of a
\* registration fails, no memory is lost (the dev_free in vhci_register_dev).
ListedOnce ==
  \A v \in used : \E k \in DOMAIN devices :
    devices[k] = v /\ \A j \in DOMAIN devices : devices[j] = v => j = k

\* Numbers a device once had never lead to another device, however late a
\* client uses them, also after the device numbers have started again and after
\* registrations that failed or were repeated (vhci_get_device).
NeverAnotherDevice ==
  \A g \in given : \A v \in vhci_get_device(g[1], g[2]) : dev[v] = g[3]

\* What a client imports by a busid is what its commands reach: the numbers in
\* the reply lead to the vusb_dev_t that the busid led to, also if the busid is
\* older than the numbers because a repeated registration failed
\* (vhci_find_device, then vhci_get_device).
ImportReachesDevice ==
  \A d \in Listed : \A v \in vhci_find_device(busid[d]) :
    dev[v] = d /\ vhci_get_device(busnum[d], devnum[d]) = {v}
=============================================================================
