---------------------------- MODULE UsbipSession ----------------------------
(***************************************************************************)
(* What usbip_client_handle does for one client, visit by visit (usbip.c): *)
(* send what is queued, receive a header, receive what belongs to it, and  *)
(* queue the answer in the client's stream_fifo, which StreamFifo models.  *)
(* Data arrive in parts and at any moment, also between two calls of recv; *)
(* the connection is closed or fails at any moment.                        *)
(*                                                                         *)
(* Lengths are in words of 4 bytes.  A received word is <<r, k>>: the k-th *)
(* word of the client's r-th request.  Eight bytes that are not a header   *)
(* are taken for any request or none.                                      *)
(***************************************************************************)
EXTENDS StreamFifo, Sequences, FiniteSets

CONSTANTS Requests,   \* bound: kinds of request the client makes
          MaxReq,     \* bound: requests the client makes, none once framing is lost
          HdrLen,     \* the first 8 bytes of a request; sizeof(hdr_common_t)
          BusidLen,   \* the busid, in an import request and in its reply
          CmdLen,     \* sizeof(hdr_cmd_t)
          DataLen,    \* the data that follow an OUT submit
          DevlistLen, \* sizeof(hdr_rep_devlist_t)
          PathLen,    \* the path in an import reply
          InfoLen     \* the rest of the device's description

Ops      == {"devlist", "import", "import_unknown"}
Commands == {"command", "submit_out"}   \* "command": unlink, or submit IN

ASSUME UsbipSessionAssumption ==
  /\ Requests \subseteq Ops \cup Commands
  /\ MaxReq \in Nat
  /\ {HdrLen, BusidLen, CmdLen, DataLen, DevlistLen, PathLen, InfoLen} \subseteq Nat \ {0}
  /\ HdrLen < CmdLen

VARIABLES pc,          \* the place in usbip_client_handle, "send" between visits
          conn,        \* "up", "closed" by the peer, "broken", then "stopped";
                       \* "killed" by SIGPIPE, "crashed": the process has ended
          devices,     \* a device is registered
          endian_conv, \* built with ENDIAN_CONV, on a little endian machine
          sent,        \* the kinds of the client's requests so far
          cut,         \* words of the last one that were not delivered yet
          inbound,     \* words waiting in the socket
          req,         \* the request being handled; 0: bytes that are none
          handler,     \* what its header was taken for
          todo,        \* lengths the handler has still to push
          pushed,      \* every push so far: for which request, whether accepted, up to where
          short        \* a recv found a part of a header, or not all that follows one

session == <<pc, conn, devices, endian_conv, sent, cut, inbound, req, handler, todo, pushed, short>>
allvars == <<vars, session>>

SessionInit ==
  /\ Init
  /\ pc = "send" /\ conn = "up"
  /\ devices \in BOOLEAN /\ endian_conv \in BOOLEAN
  /\ sent = <<>> /\ cut = 0 /\ inbound = <<>>
  /\ req = 0 /\ handler = "none" /\ todo = <<>> /\ pushed = <<>> /\ short = FALSE
-----------------------------------------------------------------------------
\* The client and the network.

BodyLen(kind) ==
  CASE kind = "devlist"                        -> 0
    [] kind \in {"import", "import_unknown"}   -> BusidLen
    [] kind = "command"                        -> CmdLen - HdrLen
    [] kind = "submit_out"                     -> CmdLen - HdrLen + DataLen

Words(r, from, to) == [i \in 1 .. to - from + 1 |-> <<r, from + i - 1>>]

\* Framing may be lost: a recv came up short, or an OUT submit, whose data are
\* never received, was made.
Slipped == short \/ \E r \in DOMAIN sent : sent[r] = "submit_out"

ClientRequests(kind) ==
  /\ conn = "up" /\ cut = 0 /\ Len(sent) < MaxReq /\ ~Slipped
  /\ sent' = Append(sent, kind)
  /\ \E n \in 1 .. HdrLen + BodyLen(kind) :
       /\ inbound' = inbound \o Words(Len(sent'), 1, n)
       /\ cut' = HdrLen + BodyLen(kind) - n
  /\ UNCHANGED <<vars, pc, conn, devices, endian_conv, req, handler, todo, pushed, short>>

\* The rest of a request arrives (bound: a request comes in at most two parts).
RestArrives ==
  /\ conn = "up" /\ cut > 0
  /\ LET r == Len(sent)
         total == HdrLen + BodyLen(sent[r])
     IN  inbound' = inbound \o Words(r, total - cut + 1, total)
  /\ cut' = 0
  /\ UNCHANGED <<vars, pc, conn, devices, endian_conv, sent, req, handler, todo, pushed, short>>

\* The peer closes its side, or the connection is reset or times out.
ConnectionEnds ==
  /\ \/ conn = "up" /\ conn' = "closed"
     \/ conn \in {"up", "closed"} /\ conn' = "broken"
  /\ UNCHANGED <<vars, pc, devices, endian_conv, sent, cut, inbound, req, handler, todo, pushed, short>>
-----------------------------------------------------------------------------
\* client_stop: the server closes the connection and forgets the client.
Stop == conn' = "stopped" /\ pc' = "send" /\ inbound' = <<>>

\* The sending part.  Without an answer the fifo has nothing to send.
SendQueued ==
  /\ pc = "send" /\ conn \in {"up", "closed"}
  /\ IF stream_fifo_length > 0
     THEN \E bytes \in -1 .. BufLen : stream_fifo_send_sock(bytes)
     ELSE UNCHANGED vars
  /\ pc' = "header"
  /\ UNCHANGED <<conn, devices, endian_conv, sent, cut, inbound, req, handler, todo, pushed, short>>

\* A send on a broken connection fails, and may raise SIGPIPE (its flags are 0),
\* which main.c leaves to end the process.
SendOnBroken ==
  /\ pc = "send" /\ conn = "broken"
  /\ IF stream_fifo_length > 0
     THEN Stop \/ (conn' = "killed" /\ pc' = "send" /\ UNCHANGED inbound)
     ELSE pc' = "header" /\ UNCHANGED <<conn, inbound>>
  /\ UNCHANGED <<vars, devices, endian_conv, sent, cut, req, handler, todo, pushed, short>>

\* A recv that fails for another reason than a lack of data.
RecvFails ==
  /\ pc \in {"header", "import", "command"} /\ conn = "broken"
  /\ Stop
  /\ UNCHANGED <<vars, devices, endian_conv, sent, cut, req, handler, todo, pushed, short>>
-----------------------------------------------------------------------------
\* recv of n words: what there is, up to n; none is EAGAIN, or 0 once the peer
\* closed, which the callers treat alike.
Received(n) == SubSeq(inbound, 1, IF Len(inbound) < n THEN Len(inbound) ELSE n)

Recv(n) ==
  /\ conn \in {"up", "closed"}
  /\ inbound' = SubSeq(inbound, Len(Received(n)) + 1, Len(inbound))
  /\ short' = (short \/ Len(Received(n)) \notin (IF pc = "header" THEN {0, n} ELSE {n}))

\* The request that words are the from-th and following ones of, or 0.
RequestOf(words, from) ==
  LET r == IF words = <<>> THEN 0 ELSE words[1][1]
  IN  IF words = Words(r, from, from + Len(words) - 1) THEN r ELSE 0

\* What a header is taken for.
KindsOf(r) == IF r = 0 THEN {"devlist", "import", "command", "none"} ELSE {sent[r]}

\* Queue an answer of these parts.
Reply(parts) == pc' = "push" /\ todo' = parts

Return == pc' = "send" /\ UNCHANGED todo

\* usbip_resp_devlist up to the device list.
usbip_resp_devlist == Reply(<<DevlistLen>>)

\* Mutant of Dispatch: an import is answered before its busid is received.
DispatchEarly(kind) ==
  CASE kind = "devlist"                      -> usbip_resp_devlist
    [] kind \in {"import", "import_unknown"} -> Reply(<<HdrLen>>)
    [] kind \in Commands                     -> pc' = "command" /\ UNCHANGED todo
    [] kind = "none"                         -> Return

\* Mutant of Dispatch: the busid is left to a later visit.
DispatchLater(kind) ==
  CASE kind = "devlist"                      -> usbip_resp_devlist
    [] kind \in {"import", "import_unknown"} -> Return
    [] kind \in Commands                     -> pc' = "command" /\ UNCHANGED todo
    [] kind = "none"                         -> Return

Dispatch(kind) ==
  CASE kind = "devlist"                      -> usbip_resp_devlist
    [] kind \in {"import", "import_unknown"} -> pc' = "import" /\ UNCHANGED todo
    [] kind \in Commands                     -> pc' = "command" /\ UNCHANGED todo
    [] kind = "none"                         -> Return

\* usbip_client_handle receives and parses a header.
RecvHeader ==
  /\ pc = "header" /\ Recv(HdrLen)
  /\ req' = RequestOf(Received(HdrLen), 1)
  /\ IF Len(Received(HdrLen)) = HdrLen
     THEN \E kind \in KindsOf(req') : handler' = kind /\ Dispatch(kind)
     ELSE Return /\ UNCHANGED handler
  /\ UNCHANGED <<vars, conn, devices, endian_conv, sent, cut, pushed>>

\* The device's description, as usb_dev_to_buf pushes it.
usb_dev_to_buf == <<PathLen, BusidLen, InfoLen>>

\* vhci_find_device: whether the words received name a device.  A part of a
\* busid, or other bytes, may name one or not.
Found(words) ==
  LET r == RequestOf(words, HdrLen + 1)
  IN  IF r # 0 /\ r = req /\ Len(words) = BusidLen
      THEN {sent[r] = "import" /\ devices} ELSE {FALSE, devices}

\* usbip_handle_import: an unknown device gets no answer.
usbip_handle_import ==
  /\ pc = "import" /\ Recv(BusidLen)
  /\ IF Received(BusidLen) = <<>> THEN Return
     ELSE \E found \in Found(Received(BusidLen)) :
            IF found THEN Reply(<<HdrLen>> \o usb_dev_to_buf) ELSE Return
  /\ UNCHANGED <<vars, conn, devices, endian_conv, sent, cut, req, handler, pushed>>

write_cmd_response_header == <<CmdLen>>

\* The device of a command.  imported_devs is never set: by what the client's
\* memory held before, no device is imported, and this is answered already, or
\* one is found (or the search crashes, see RecvCommand).
get_client_dev == {write_cmd_response_header, <<>>}

\* Without a device both answer, once more if get_client_dev has; with one an
\* unlink, and a submit that gets as far as vhci_submit_urb, are answered that
\* the operation is not supported, and other submits not at all.
handle_urb_unlink == {parts \o write_cmd_response_header : parts \in get_client_dev}
handle_urb_submit == handle_urb_unlink \cup {parts \in get_client_dev : parts = <<>> /\ devices}

\* The rest of a command.  Its first word was converted twice with
\* ENDIAN_CONV, so that no command is recognised.
RecvCommand ==
  /\ pc = "command" /\ Recv(CmdLen - HdrLen)
  /\ IF Len(Received(CmdLen - HdrLen)) = CmdLen - HdrLen /\ ~endian_conv
     THEN \/ \E parts \in handle_urb_submit \cup handle_urb_unlink : Reply(parts) /\ UNCHANGED conn
          \/ conn' = "crashed" /\ Return
          \/ req = 0 /\ Return /\ UNCHANGED conn
     ELSE Return /\ UNCHANGED conn
  /\ UNCHANGED <<vars, devices, endian_conv, sent, cut, req, handler, pushed>>

\* stream_fifo_push of the next part.  The callers go on unless the result is
\* 0, which a push of a positive length never returns.
PushReply ==
  /\ pc = "push" /\ todo # <<>>
  /\ stream_fifo_push(Head(todo))
  /\ todo' = Tail(todo)
  /\ pushed' = Append(pushed, [to |-> req, ok |-> ret'.val > 0, at |-> seq'])
  /\ UNCHANGED <<pc, conn, devices, endian_conv, sent, cut, inbound, req, handler, short>>

\* The end of the handler.
HandlerReturns ==
  /\ pc = "push" /\ todo = <<>>
  /\ pc' = "send"
  /\ UNCHANGED <<vars, conn, devices, endian_conv, sent, cut, inbound, req, handler, todo, pushed, short>>

\* With a device the device list goes on with fill_devlist, which takes the
\* fifo's first field for the fifo: it crashes, or finds no room in what it takes
\* for the fifo and adds nothing (HandlerReturns).
fill_devlist ==
  /\ pc = "push" /\ todo = <<>> /\ handler = "devlist" /\ devices
  /\ conn' = "crashed" /\ pc' = "send"
  /\ UNCHANGED <<vars, devices, endian_conv, sent, cut, inbound, req, handler, todo, pushed, short>>
-----------------------------------------------------------------------------
\* usbip_client_handle, visit after visit.
usbip_client_handle ==
  \/ SendQueued \/ SendOnBroken \/ RecvFails
  \/ RecvHeader \/ usbip_handle_import \/ RecvCommand
  \/ PushReply \/ HandlerReturns \/ fill_devlist

SessionNext ==
  \/ usbip_client_handle
  \/ \E kind \in Requests : ClientRequests(kind)
  \/ RestArrives \/ ConnectionEnds

SessionSpec == SessionInit /\ [][SessionNext]_allvars

\* The main loop visits the client for ever, and while the peer reads the
\* socket has room at visits again and again.
FairSessionSpec ==
  /\ SessionSpec
  /\ WF_allvars(usbip_client_handle)
  /\ SF_allvars(SendQueued /\ delivered' > delivered)
-----------------------------------------------------------------------------
\* While every recv finds what it asks for, the words a recv of a header or of
\* a body is about to find are the header or the body of a request: no visit
\* takes more or less than one request (usbip_client_handle and its handlers).
InSync ==
  ~Slipped /\ inbound # <<>> =>
    /\ pc \in {"send", "header"} => Head(inbound)[2] = 1
    /\ pc \in {"import", "command"} => Head(inbound) = <<req, HdrLen + 1>>

\* While framing is kept, what is queued answers a request that was received
\* to its last word, and requests are answered in the order they were made.
AnswersRequests ==
  ~Slipped => \A i \in DOMAIN pushed :
    LET r == pushed[i].to IN
    /\ r # 0 /\ ~\E k \in DOMAIN inbound : inbound[k][1] = r
    /\ r = Len(sent) => cut = 0
    /\ \A j \in 1 .. i - 1 : pushed[j].to <= r

\* A request for the device list is answered: what is queued for it reaches a
\* peer that stays connected and reads, unless the queue refused it.  With a
\* device this is the list's header only, the devices it counts do not follow,
\* and instead of it the server may crash over the list; nothing else it does
\* keeps the peer from it but a crash over a command (usbip_resp_devlist,
\* fill_devlist, get_client_dev, stream_fifo_send_sock).
PeerLost == conn \in {"closed", "broken", "stopped", "killed"}
Crashed  == conn = "crashed" /\ (handler \in Commands \/ (handler = "devlist" /\ devices))

DevlistServed ==
  \A r \in 1 .. MaxReq :
    (r \in DOMAIN sent /\ sent[r] = "devlist" /\ (r = Len(sent) => cut = 0))
      ~> \/ Slipped \/ PeerLost \/ Crashed
         \/ \E i \in DOMAIN pushed :
              pushed[i].to = r /\ (pushed[i].ok => delivered >= pushed[i].at)

\* Every part of a reply finds room in the queue: a peer that got the first
\* part gets the others (usbip_handle_import, usb_dev_to_buf).
RepliesWhole == ~Slipped => \A i \in DOMAIN pushed : pushed[i].ok
=============================================================================
