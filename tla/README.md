# embedded-usbip in TLA+

embedded-usbip exports USB devices over TCP with the USB/IP protocol. It is a
single-threaded C program: `main` builds a device, registers it with a virtual
host controller and then calls `usbip_server_handle_once` for ever. Nothing in it
runs in parallel, but everything it touches may change between two of its calls:
connections come, break and are closed, requests arrive in parts, sockets take
only a part of what they are offered, and callbacks change the list that is
being walked. The containers it is built from keep their book-keeping inside
the memory they manage.

Paths below are relative to the repository (`src/queue.c` is `src/src/queue.c`
in `PROJECT.json`, which lists the source lines of every definition).

## 1. Inventory

| Component | State | Operations | Hard behaviour | What makes it correct |
|---|---|---|---|---|
| `mem_pool` (`src/mem_pool.c`) | `free_block`; a free list inside the free blocks, with a mark for "never used from here on" | `init_mem_pool`, `INIT_MEM_POOL`, `mem_pool_alloc`, `mem_pool_free` | words left by clients next to words of the list; exhaustion at the last block | only free blocks are handed out, NULL exactly when none is left |
| `heap` (`src/heap.c`) | headers in the pool, linked by address, bit 0 = allocated | `init_heap`, `heap_alloc`, `heap_free` | splitting, lazy one-directional merging, `size_t` arithmetic | blocks tile the pool, objects are apart and aligned, ENOMEM is honest |
| `linked_list` (`src/linked_list.c`) | `size`, `first`, `last`, nodes | `push`, `get`, `rem`, `iter` | the callback of an iteration removes the node the loop stands on | one list in both directions; the callback gets nodes of it; the list is a sequence |
| `stream_fifo` (`src/queue.c`) | `head`, `tail`, buffer | `push`, `pop`, `length`, `send_sock` | wrap-around, full and empty, partial sends | every byte leaves once, in order, eventually |
| `msg_fifo` (`src/queue.c`) | `head`, `first`, `last`, items with a header in the buffer | `init`, `push`, `pop` | headers never split, messages split around the end; room judged from `head` and `first` | no copy leaves the buffer; messages leave whole and in order |
| server (`src/usbip.c`) | `client_list`, client memory, descriptors, `listen_sock` | accept, visit, stop a client | failures during a pass over the clients | list, memory and descriptors agree; every failed client is released; the loop goes on |
| session (`src/usbip.c`) | a client's queue, its inbound stream | device list, import, submit, unlink | requests in parts, two `recv`s per request, replies of several parts | framing, answers whole and in order |
| `vhci` (`src/usb/vhci.c`) | devices, last bus and device number | `register_dev`, `find_device`, `get_device`, `iter_devices`; submit and unlink are stubs | numbers start again at a limit; two allocations may fail; a device registered again | numbers once given never lead to another device; no memory is lost; an import reaches the device its busid names |
| control transfers (`src/usb/vhci.c`) | a transfer's buffer, status and length; `cur_config` | `handle_urb`, `handle_get_desc` | buffers that end at, before or inside every descriptor | what is written and reported fits; the configuration in use exists |
| device tree (`src/usb/dev.c`) | configurations, interface groups, interfaces, endpoints, counters of each | builders and lookups | five copies of one walk, order of calls, counters kept by two builders | chains as added, counters right, what was added is found |
| `conv` (`src/conv.c`) | none | byte order | converting twice | |
| `main` | none | the loop | | |

How they interact: the server keeps its clients in a `linked_list` (nodes and
clients come from `malloc`, or from `mem_pool`s in a static build) and visits
them with `linked_list_iter`; a visit sends from the client's `stream_fifo`,
receives and dispatches one request and queues its answer there; a visit that
finds the connection failed removes the client by its index and returns -1,
which tells the iteration to find its place again. `vhci` keeps its devices in a
`linked_list` as well.

The hazards this leads to are listed with their lines under `hazards` in
`PROJECT.json`, with the properties that would catch each.

## 2. Plan

In the order of importance; all but step 10 are done.

1. Containers below everything: `MemPool` (implements `Allocator`), `LinkedList`
   (implements `ListSpec`), `StreamFifo`, `Heap`, each with its proofs.
2. `UsbipServer` = `LinkedList` + clients: the loop, failures at any moment.
3. `UsbipSession` = `StreamFifo` + one client's visits: framing and answers.
4. Runs on small instances; for every property a change of the code's model that
   breaks it.
5. Theorems: inductive invariants of all containers and of the server.
6. `MsgFifo` (implements `MsgQueueSpec`), `UsbDev` and `UsbControl` = `UsbDev` +
   control transfers, `Vhci`.
7. Theorems about `MsgFifo` and `Vhci`, and the remaining invariants of
   `LinkedList` but one.
8. Theorems about the session (framing, answers), the device tree and control
   transfers; `FreeListIntact`, `ObjectsAligned`, `PassCoverage`; the refinements
   of `ListSpec` and `MsgQueueSpec`. With these every safety property that a
   passing run checks is a theorem, under the conditions of section 5.
9. Both queues with callers that push what they like, and sends around the end of
   the buffer: the steps that damage a queue are recorded (`damage`, `torn`), and
   everything up to them is proved. The failures of accepting a client, and the
   visits that end the process.
10. Next: what the theorems leave open in their conditions: `MemPool` made by
   `INIT_MEM_POOL`, and the server's list after the second failure of a pass. In
   both the code does not keep the property in general, so that the task is to find
   how much of it stays.

## 3. Modules

**`Allocator`, `MemPool`.** `Allocator` is what `mem_pool.h` promises: a set of
blocks, each free or held. `MemPool` keeps `free_block` and the first word of
every block; addresses are integers, as the test of bit 0 makes them.
`AllocNone`, `AllocFresh` and `AllocReused` are the three ways through
`mem_pool_alloc`; `ClientWrite` lets a client leave any word in a block it
holds, and the memory starts with any content. `InitBy` selects
`init_mem_pool` or the macro.

**`Heap`.** `node` maps the addresses of headers to size, next and the
allocated bit. `heap_alloc` is one step per block it looks at (`AllocMerge`,
`AllocTake` with or without a split, `AllocSkip`, `AllocNoMemory`). Rounding is
done modulo `SizeMod`, the number of values of a `size_t`. Clients free only
what they hold.

**`ListSpec`, `LinkedList`.** `ListSpec` is a sequence with push, get and remove.
`LinkedList` has the nodes with their pointers; one hop of `linked_list_find`
(from either end, as in the code) and one round of `linked_list_iter` are steps.
A callback keeps its object (`VisitKeeps`) or removes it by index
(`VisitInvalidates`, the steps of `linked_list_rem`, `Reseat`). A node given back
is overwritten with `JUNK`. `Objects`, the data met along the next pointers, is the
sequence of `ListSpec`.

**`StreamFifo`.** `head` and `tail` are offsets in `0 .. BufLen`, both may rest at
`BufLen`. A byte is its position in the stream of all bytes pushed, so that a
lost, repeated, stale or misplaced byte shows. `Remaining`, `SendLength` and
`SentHead` are the code's own arithmetic. `send` takes any part of what it is
offered, or nothing. `Spec` has `pop` and the socket as readers and callers that push
any length; `FairSockSpec` has the socket only, and callers that wait for room. Two
steps of the code damage the stream, and the variable `damage`, which no step
reads, records which were taken: `stream_fifo_push` accepts a message for which
there is no room (`Overwrites`), and `stream_fifo_send_sock` skips bytes at the
start of the buffer when a send comes round its end (`ComesRound`). A skip may put
`head` anywhere, so `Spec` ends there.

**`UsbipServer`** extends `LinkedList` with clients, descriptors and the place in
`usbip_server_handle_once`. Accepting a connection can fail at each of its steps:
the descriptor cannot be set up or no client is allocated (`AcceptedDropped`), the
client gets no node of the list (`AddFails`), or `listen_sock` itself failed and is
closed (`AcceptFails`). What a visit does with requests is left to the session; here it
returns, finds its connection failed and stops the client, or ends the process
(`VisitEndsProcess`: a crash of `fill_devlist` or over a command, or SIGPIPE from a
send on a failed connection). `ServerStep` are the steps of the program,
`ConnectionBreaks` is the environment. `StopsPerPass` bounds the failures that are
found in one pass, not those that happen.

**`UsbipSession`** extends `StreamFifo` with the visits of one client. The unit is
a word of 4 bytes; a received word is `<<r, k>>`, the k-th word of the r-th
request, so that a handler that reads the wrong words shows. Between any two
calls of `recv` more may arrive or the connection may end. Words that are no
header are dispatched as any request or none; a part of a busid names a device or
not. A reply is the list of lengths the handler pushes, one
`stream_fifo_push` per step, and, as in the code, a refused push is not
noticed. Both supported builds are covered: with `ENDIAN_CONV` the command word is
converted a second time (`src/usbip.c:642`) and no command is recognised;
without it commands are answered. `imported_devs` is set nowhere, so what
`get_client_dev` finds in it is whatever the client's memory held: nothing, and the
command is answered twice (lines 460 and 479 or 564); a device; or a crash.
`devices` says whether a device is registered: without one no import finds any
and the device list is complete after its header. With one, `fill_devlist` reads
the queue's first field as the queue (line 187); the outcomes are a crash, or no
room in what is taken for the queue and nothing added. A send on a connection
that failed returns an error or ends the process by SIGPIPE (`"killed"`).

**`MsgQueueSpec`, `MsgFifo`.** `MsgQueueSpec` is a queue of messages that may refuse
a message, but not one that fits while it is empty. `MsgFifo` keeps the buffer byte
by byte, headers included; the k-th byte of the m-th message is told apart from
every other. `Full`, `ByteAddr` and `NewHead` are the code's arithmetic. A header
that was overwritten reads as any length and any place in the buffer.
Callers push what they like; `torn`, which no step reads, records that a push under
`Tears` was accepted, one of the two kinds that overwrite queued messages. A push that
tears the queue ends what `MsgQueueSpec` promises.

**`UsbDev`, `UsbControl`.** `UsbDev` has the pointers and counters of the device tree;
`child` and `next` are what the builders assign, `added` remembers what the caller
did. The builders are called in every order, the lookups are operators that walk
the same chains. `UsbControl` adds the control transfers: of the data it keeps
lengths, with the sizes of the descriptors, and `written` says how far the
handler went in the transfer's buffer. `IfsLen`, `DescEnds` and `WholeLen` are the
places where a part of a configuration's description ends; GET_DESCRIPTOR gets to
the last one that fits. A null pointer that is followed ends the
program (`alive`). `MCUsbControl` gives the structures their numbers.

**`Vhci`** has the devices with their numbers, the list of devices (as the sequence
that `ListSpec` promises) and the memory it points to. One call of
`vhci_register_dev` is one action per outcome: no memory, no place in the list,
registered. Lookups return the last hit, as the callbacks never stop the walk.
`given` remembers which numbers went to which device.

`MemPoolProofs`, `HeapProofs`, `LinkedListProofs`, `UsbipServerProofs`,
`UsbipSessionProofs` (with those of `StreamFifo`), `MsgFifoProofs`,
`UsbControlProofs` (with those of `UsbDev`) and `VhciProofs` hold the theorems.

Definitions whose comment begins with "Mutant of" are wrong on purpose: each
changes one mapped definition the way a plausible mistake would, and makes the
property named in `PROJECT.json` fail. No specification uses them.

## 4. Runs

| Run | Bounds | Result |
|---|---|---|
| `mem_pool` | 4 objects of 8 bytes in 36 bytes; client words 0, 1 and a block address | free list whole, implements `Allocator` (13168 states) |
| `heap` | pool of 19 bytes with 2-byte headers, sizes 1, 2, 3, 6 | tiling, separation, alignment, honest ENOMEM, every call returns (47884) |
| `linked_list` | 4 nodes, 2 objects | well formed, callbacks in the list, the loop goes on with live nodes as long as there is one, coverage of a pass, implements `ListSpec`, every call returns (178674) |
| `stream_fifo` | buffer of 9, messages up to 9, 27 bytes; any pushes, pops and sends | in bounds, contents and order kept until one of the two damaging steps (8518) |
| `stream_fifo_stuck` | read by the socket, 10 bytes | **violated** `Drained` |
| `session` | 2 requests of 5 kinds, each in one or two parts; with and without a device; lengths scaled down | framing, answers to whole requests in order, headers of device lists delivered or the server crashed (454136) |
| `session_import` | the real lengths, 1 request | **violated** `RepliesWhole` |
| `server` | 3 clients, nodes and descriptors; 1 failure found per pass | list, memory, descriptors agree; failed clients released; the loop goes on or the process ended (137193) |
| `server_two_failures` | the same, 2 failures found per pass | **violated** `ClientsMatch` |
| `msg_fifo` | buffer of 9 with headers of 2, lengths 0 to 8, 4 messages; any pushes and pops | copies stay in the buffer, implements `MsgQueueSpec` until torn (71860) |
| `usb_control` | 2 configurations, groups, interfaces and endpoints; buffers of 0, 1, 6, 7, 16, 23 and 64 bytes | chains as added, device list as announced, lookups find what was added; current configuration exists; configurations fit (128581) |
| `vhci` | 3 devices, 3 `vusb_dev_t`, 2 devices per bus, 6 calls | no memory lost, numbers never lead to another device, imports reach their device (587875) |

Why the bounds are enough. *Pool and heap*: four blocks give a first, a last and
two inner ones, so that chains of length 0 to 4, all orders of freeing and merges
with and without a neighbour happen; 36 is not a multiple of 8; the sizes are
below, at and above the alignment, and 6 next to 19 leaves rests that are just a
header. *List*: four nodes are the least with searches from both ends that
take more than one hop; data repeat, so that nodes and objects are told apart.
*FIFO*: three times around, with messages from empty to the whole buffer, so that
`head` and `tail` meet at every offset, and pushes and sends of every length come
to the end of the buffer from every place. *Session*: lengths keep the order that
decides what is accepted (header < device list <= busid < path); two requests
are enough for one to be read as the other or answered before it. A request comes
in at most two parts, and the client makes no further request once framing is
lost, since the words that follow are arbitrary already. The buffer is not
wrapped in this run: order, loss and repetition of bytes around the end of the
buffer, with sends of any part, are the subject of the `stream_fifo` run.
*Server*: three clients give a first, a middle and a last one; any of them may have
failed when a pass begins, so that failed clients are among those that a pass
skips behind one that was removed. *Message queue*: four
messages go around the buffer at least once; the lengths reach from the empty
message over those that end before, at and after the end of the buffer to one that
never fits; a pop has a buffer that is too short or one that is not. *Device tree
and transfers*: two children of each kind are enough to tell first from last and to
spread interfaces over groups and configurations; the buffers end inside a header,
inside a configuration, right after it, right after an interface and after an
endpoint, and behind everything. Transfers begin when every structure has its
place and in the builders' intended order (`Finished`). *Controller*: six calls use
three buses, so that the numbers start again twice, with failures and repeated
registrations in between; there are more calls than devices and memory.

No run uses symmetry: those with model values check liveness, for which it is not
sound, or are small enough without.

`InSync` and `AnswersRequests` speak of a session in which every `recv` has
found what it asked for and no OUT submit was made (`~Slipped`). This is the most
that holds: a header or body that arrives in parts is dropped and its rest is read
as a header, and the data of an OUT submit are never received. Behaviours after
that are part of the run, with arbitrary dispatch. How often a request is answered
is not a property: the code answers a command twice and an unknown import never.

`DevlistServed` names every way in which a request for the device list stays
without an answer: framing is lost, the peer is gone, or the server crashed, over
a command or, with a device registered, over the list itself. As a device is always
registered by `main`, the last is what happens to every list but on a machine on which
`fill_devlist` survives.

`Contents` and `InOrder` hold as long as `damage` is empty, `FifoImplSpec` as long
as `torn` is false. These are statements about which steps do damage: any
sequence of other calls, however long, keeps the queue exact. That the recorded steps
really occur shows in the runs, which take them.

**Deadlock** is checked except in the session runs, where a session really ends (the
client was stopped or the program crashed or was killed), in the server runs, where
the process may end, in `stream_fifo`, which ends with a skip, in `usb_control`, where a null pointer
ends the program, and in `vhci`, where the bound on calls is the end.

**Fairness.** The program never blocks: every socket is non-blocking and `main`
loops for ever, so weak fairness of the program's own steps is what its scheduling
gives (`heap`, `linked_list`, `server`, `session`: a call that was begun is
continued, the loop is run again). For sending, `stream_fifo_stuck` and
`session` assume that the socket of a connected peer that reads takes at least a
byte again and again; in the session this is strong fairness, because a send is
possible only at the beginning of a visit. Nothing is assumed of the
environment otherwise: requests need never be completed, connections may stay or
break.

### Findings

The three violated runs are disagreements between the code and its comments;
`findings` in `PROJECT.json` quotes the lines.

- A send that ends exactly at the end of the buffer can leave the queue unable
  to send for ever (`src/queue.c:285`).
- The reply to an import consists of its header only: what follows is refused by
  the queue, and the refusal is not noticed (`src/usbip.c:262`).
- Two clients that fail in one pass: the second is removed by a stale index, so
  that the freed client stays in the list and another one is lost
  (`src/usbip.c:70`).

Seen while modelling, without a run of their own.

*Pool and heap.* `INIT_MEM_POOL` makes a pool without the mark and with a size
counted in objects (`src/mem_pool.h:15`, used for the pools at `src/usbip.c:37`, 46
and 47); with `InitBy = "INIT_MEM_POOL"` the `mem_pool` run fails. An odd object size
makes `mem_pool` take links for marks (excluded by `EvenBlocks` in the theorem).
Alignments larger than the header are not honoured by `heap_alloc`
(`src/heap.h:24`); sizes near `SIZE_MAX` are rounded to 0 (`src/heap.h:34`).

*List.* Removing the only element leaves `first` at the node given back
(`src/linked_list.c:124`). When a callback does that, `linked_list_iter` takes this
node as the current one and reads its `prev` (lines 160 and 176 to 178) before the
loop looks at `size` again: a read of freed memory, at every pass in which the only
client is stopped. `AdvanceOnLive` says that this case, and no other, has it. The
value read is not used, since the loop ends.

*Queues.* `stream_fifo_push` mistakes used for free space and accepts messages that
overwrite unread bytes (`src/queue.c:197` to 209; `Overwrites`), and refuses ones
that fit. It returns the length while `src/queue.h:64` says 0 on success.
`stream_fifo_send_sock` computes the new `head` behind a wrap from the old one, so
that bytes at the start of the buffer are skipped, or `head` leaves it, and counts
more bytes than were sent (`src/queue.c:295` to 298; `ComesRound`). `msg_fifo_push`
overwrites queued messages, which the comment at `src/queue.c:91` rules out, in
the two cases `Tears` describes: in a buffer of 9 with headers of 2, a push, a pop
and pushes of 5 and 7 bytes suffice.

*Session.* With a registered device a request for the device list crashes the
server or gets an incomplete list: `fill_devlist` is given the address of the queue
and uses the queue's first field as the queue (`src/usbip.c:187`, 216 to 218; for
`vhci_iter_devices` this is just "a context to be passed into the function",
`src/usb/vhci.h:49`). A send on a failed connection raises SIGPIPE, as its flags are
0 (`src/queue.c:287`, 311) and `main` installs no handler. `malloc` leaves
`imported_devs` of a client as it was (`src/usbip.c:53`, 76 to 83), and
`get_client_dev` follows it (lines 439 to 448). An import of an unknown device gets
no answer. A successful import is never recorded, so that every command is refused as not
imported, unless the client's memory happened to hold a device. `recv` returning
0, the peer's orderly close, is treated as no data and the client is kept for ever.
A failed `recv` of an OUT submit's data returns -1 without stopping the client
(`src/usbip.c:526`), which tells the iteration that a node was removed.

*Device tree.* The comments of `src/usb/dev.h` promise 0 or -1 where the builders
return 1 or 0. `bNumInterfaces` depends on the order of the calls: a group
that is filled before it is added, or a configuration that is added after its
groups, is counted wrongly (`late`; `DevlistMatches` holds without it). An
interface is found only while its group is at its alternate setting, and a group
only by its first interface. `usb_dev_add_string` and `vhci_remove_device` are
declared and not defined.

*Control transfers.* GET_DESCRIPTOR for a configuration with interfaces never
succeeds: the inner loop tests the group and ends at a null pointer or with
`-ENOMEM` (`src/usb/vhci.c:133`). The status stays `-EINVAL` on success. The header
of a descriptor is written before its length is tested, up to two bytes behind the
buffer; a device descriptor is written whatever the length of the buffer; the
language identifier goes behind the bytes that are reported.

*Controller.* A device registered again is listed twice under its new numbers, and
keeps its old busid if that registration fails.

*Byte order.* `i_swapcpy16`, `32` and `64` compute the swapped value and copy the
other one (`src/conv.c:40`).

## 5. Proofs

Every theorem holds for all values of the constants under the named assumptions
of its module and the conditions below.

| Theorem | Says | Conditions |
|---|---|---|
| `PoolSafety`, `PoolTypes`, `PoolFreeListIntact` | the free list is one chain, without a cycle, over all freed blocks | `init_mem_pool`, even addresses and sizes |
| `PoolImplementsAllocator` | the pool implements `Allocator` | the same |
| `HeapSafety`, `HeapTilesPool`, `HeapNoMemoryIsHonest`, `HeapHandsOutFree` | tiling and separation; ENOMEM only when no run of free blocks is long enough; memory in use is never returned | the pool holds a header; rounding does not wrap |
| `HeapObjectsAligned` | what clients hold is aligned | also: a header is a multiple of the alignment, which is a `size_t` |
| `ListSafety`, `ListVisits` | the links are one list and callbacks get nodes of it | none |
| `ListAdvances` | an iteration goes on with a node of the list exactly as long as its callbacks left one | none |
| `ListCoverage` | a pass leaves at most as many nodes unvisited as its callbacks removed | none |
| `ListRefines` | the list implements `ListSpec` | none |
| `FifoInBounds`, `FifoTypes` | no copy leaves the buffer, and no send reads outside it, whatever is pushed, popped and sent | none (the specification ends with a send that skips) |
| `FifoKeepsBytes`, `FifoInOrder` | every byte leaves once and in order, to both readers | none (the properties end with the step that damages the queue) |
| `SessionInSync`, `SessionAnswersRequests` | framing is kept; answers go to whole requests, in order | none (the properties end with framing, see section 4) |
| `ServerSafety`, `ServerHandlesLiveClient` | list, memory and descriptors agree between passes; the handler gets live clients | at most one failure is found per pass |
| `MsgFifoTypes`, `MsgFifoCopiesInBuffer` | `head` and items lie where a header fits; no push writes outside the buffer or twice to a byte of its item, whatever is pushed | the buffer is longer than a header |
| `MsgFifoRefines` | the message queue implements `MsgQueueSpec`, whatever is pushed, until a push tears it | the buffer is longer than a header |
| `TreeChains`, `TreeFoundAgain` | chains hold what was added, in order; lookups find it | nothing is added twice |
| `TreeDevlist` | a device list announces what follows | at most 255 interfaces: the counter is a byte |
| `ControlConfigExists`, `ControlDescriptorFits` | the current configuration exists; descriptors stay in the transfer's buffer but for the header of the one that does not fit | as in the builders' actions |
| `VhciTypes`, `VhciListedOnce` | device numbers stay below the maximum; each `vusb_dev_t` in use is listed exactly once | none |
| `VhciNeverAnotherDevice`, `VhciImport` | numbers once given never lead to another device; busid and numbers of a device lead to the same `vusb_dev_t` | fewer calls than there are bus numbers |

The arguments. *Pool*: `PoolInv` says that there is a first never-used block and
a depth for each freed one, decreasing along the links; links form a chain
because depths are natural numbers, and the mark is met last. For
`FreeListIntact`, whose depths are bounded by the number of blocks: every depth
below that of a freed block is the depth of another one, so that there are no
more depths than blocks. *Heap*: `HeapInv` adds to the tiling that each object
is the memory of an allocated block (`Backed`), and that the blocks behind the
cursor are merged and too small (`Swept`); the latter gives honest ENOMEM when the
cursor reaches the end. For the alignment every header must lie at a multiple of
it, which a split keeps because sizes were rounded and a merge because it only
removes a header. *List*: `ListInv` says that a sequence of nodes exists with which
the pointers agree (`Links`), that a search stands where its count says, and that
an iteration stands on the p-th node, with p = index - removals, or behind the
last; the next pointer of a node of the list is a node of the list or null. The
refinement maps that sequence to the data of its nodes (`Objects`); that the walk
along next pointers meets exactly these nodes is shown by induction on its length,
and each operation then is `Append`, an access or the removal of one place.
*FIFO*: `SafeInv` bounds the pointers until a send skips; `FifoInv` adds that, while
no step has done damage, the bytes between head and tail, around the end, are the
ones not yet delivered and no more than the buffer holds (`Held`). A push that
`Overwrites` does not describe then writes only free bytes, and a send that
`ComesRound` does not describe takes a part of the bytes up to the end.

*Session*: `SessionInv` says that the words waiting in the socket are consecutive
words of the requests made, up to the last one delivered (`Framed`), and that the
next word a `recv` takes is where the place in the handler says (`InStream`): the
first of a request, or the one behind the header of the request being handled, with
every answer so far for a request before it; answers are in the order of requests
(`Ordered`). All this holds
as long as no `recv` came up short; a client that was stopped has nothing waiting
(`Answered`). The words' positions do not restrict where requests are cut or how
many there are. *Server*: `ServerInv` is `ListInv` plus the correspondence of
nodes, clients and descriptors, with the client that is being stopped taken out of
each in the order `client_stop` does it; with one failure found per pass the index
passed is still the client's own.

*Message queue*: besides the types the invariant (`FifoInv` of `MsgFifoProofs`)
needs that every link found in the buffer leads to where a header fits
(`LinksInside`), since `pop` makes it `first`. For the refinement, `LaidOut` puts
the items on a line that goes twice round the buffer: they follow each other from
the first one without overlapping, none goes beyond one round from there
(`Ordered`), each has its message's length, its link and its bytes in the buffer
(`Written`), and `head` is behind the last one or, when nothing would fit there, at
the front (`HeadAfter`). A push that `Tears` does not describe then writes only
between the last item and the first one, a round later. *Device tree*: `TreeInv`
says that the pointers link what was added to each parent (`Linked`) and that
nothing was added twice (`Apart`); walks are then the sequences of `added`, by
induction. Counters are lengths of these, unless an order of calls lost some
(`Counted`); a current configuration is the value of one that was added
(`Chosen`). *Controller*: the pair of counters only grows in the lexicographic
order, so that numbers already given lie before it (`Past`) and a pair belongs to
one device (`GivenOnce`); a listed device owns the numbers and the busid it shows
(`Owned`), hence whatever a pair or busid leads to is the device it was given to.

The type invariants of `Heap`, `LinkedList` and `UsbipServer` are conjuncts of
these invariants and so proved with them.

Walks along pointers are recursive functions, which are defined by a choice among
the functions that satisfy their equation. That one exists is not something the
provers find; where it is needed, it and the induction over it are done by hand:
`NatLeast` takes the least element of a set of numbers from well-foundedness, and
`SetInduction` concludes that a set which holds 0 and with n also n + 1 holds every
number. The set is then "the lengths for which the claim holds".

Only model-checked: liveness (`AllocReturns`, `OperationsReturn`, `DevlistServed`,
`BrokenIsClosed`, `PassesEnd`), which rests on fairness and so on ENABLED, out of
the prover's reach. The three runs that show a disagreement are counterexamples and
have no theorem; the condition of `ServerSafety` is what keeps clear of the third.

## 6. Not modelled

- `conv`: pure functions without state. The one place where control depends on
  them, the double conversion of the command word, is part of `UsbipSession`.
- What `handle_urb_submit` does with the data of an OUT submit (they stay in the
  socket; a `recv` of them, and the -1 of `src/usbip.c:526`, are left out), and
  `urb_complete_cb`, which nothing calls as `vhci_submit_urb` is a stub. That
  `get_client_dev` finds a device in a client's memory is modelled by its outcomes,
  not by the memory.
- `vhci_submit_urb` and `vhci_unlink_urb` are stubs that return `ENOTSUP` and change
  nothing. Nothing in the repository calls `handle_urb` or `vhci_run_once`; the
  former is modelled as its signature lets it be called, the latter is not, as it
  passes its callback the controller where a search is expected.
- Strings of a device: nothing adds one, a lookup finds none.
- The setup of the listening socket (`usbip_server_setup`) is the initial
  state of the server; its failures end the program before the loop.
- Descriptors' contents, strings and the values in replies: data without
  influence on control.
