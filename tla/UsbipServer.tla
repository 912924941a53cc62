---------------------------- MODULE UsbipServer -----------------------------
(***************************************************************************)
(* The server's loop over its clients (usbip.c): each pass accepts at most *)
(* one connection and then runs usbip_client_handle on every client with   *)
(* linked_list_iter, of which LinkedList models every step.  What is kept  *)
(* of a client is what its lifetime depends on: its memory, its socket and *)
(* whether the socket's calls fail.  Connections fail at any moment, and a *)
(* visit may end the process.                                              *)
(***************************************************************************)
EXTENDS LinkedList

CONSTANTS Socks,          \* descriptors accept can return
          StopsPerPass    \* bound: connections found to have failed in one pass

\* The objects of client_list are the memory of clients.
Clients == Data

ASSUME UsbipServerAssumption ==
  StopsPerPass \in Nat /\ Socks \cap {NULL, JUNK} = {}

VARIABLES pc,        \* usbip_server_handle_once: "accept", then "clients"; "ended"
          listening, \* listen_sock is open
          open,      \* descriptors of connections that are open
          broken,    \* those whose send and recv fail from now on
          alloc,     \* clients that are allocated
          sock,      \* client->sock
          stopping,  \* the client client_stop is removing
          stops      \* clients stopped in this pass

svars == <<pc, listening, open, broken, alloc, sock, stopping, stops>>
allvars == <<vars, svars>>

ServerInit ==
  /\ Init
  /\ pc = "accept" /\ listening = TRUE
  /\ open = {} /\ broken = {}
  /\ alloc = {} /\ sock = [c \in Clients |-> JUNK]
  /\ stopping = NULL /\ stops = 0
-----------------------------------------------------------------------------
\* The environment: a connection is reset or times out.
ConnectionBreaks(s) ==
  /\ s \in open \ broken
  /\ broken' = broken \cup {s}
  /\ UNCHANGED <<vars, pc, listening, open, alloc, sock, stopping, stops>>

\* shutdown and close.
sock_stop(socks, s) == socks \ {s}

client_free(clients, c) == clients \ {c}

\* usbip_accept_new_client: there is nothing to accept.
AcceptNone ==
  /\ pc = "accept" /\ listening
  /\ pc' = "clients"
  /\ UNCHANGED <<vars, listening, open, broken, alloc, sock, stopping, stops>>

\* accept fails, for good once listen_sock is closed.
AcceptFails ==
  /\ pc = "accept"
  /\ listening' = FALSE
  /\ pc' = "clients"
  /\ UNCHANGED <<vars, open, broken, alloc, sock, stopping, stops>>

\* accept returns a new descriptor.
Accepts(s) ==
  /\ pc = "accept" /\ listening /\ s \in Socks \ open
  /\ pc' = "clients"
  /\ UNCHANGED <<fvars, ivars, listening, broken, stopping, stops>>

\* It cannot be set up (fcntl, setsockopt), or add_client gets no client.
AcceptedDropped(s) ==
  /\ Accepts(s)
  /\ open' = sock_stop(open \cup {s}, s)
  /\ UNCHANGED <<lvars, ret, alloc, sock>>

\* Mutant of AddFails: the client without a node is not given back.
AddFailsLeaks(s, c) ==
  /\ Accepts(s) /\ c \in Clients \ alloc
  /\ ret' = Op("linked_list_push", c, -1)
  /\ alloc' = alloc \cup {c}
  /\ open' = sock_stop(open \cup {s}, s)
  /\ UNCHANGED <<lvars, sock>>

\* add_client gets a client, but linked_list_push no node: both the client and
\* the connection are given back.
AddFails(s, c) ==
  /\ Accepts(s) /\ c \in Clients \ alloc
  /\ ret' = Op("linked_list_push", c, -1)
  /\ alloc' = client_free(alloc \cup {c}, c)
  /\ open' = sock_stop(open \cup {s}, s)
  /\ UNCHANGED <<lvars, sock>>

add_client(s, c) ==
  /\ Accepts(s) /\ c \in Clients \ alloc
  /\ \E n \in Nodes \ live : PushNode(c, n)
  /\ alloc' = alloc \cup {c}
  /\ sock' = [sock EXCEPT ![c] = s]
  /\ open' = open \cup {s}

usbip_accept_new_client ==
  \/ AcceptNone \/ AcceptFails
  \/ \E s \in Socks : AcceptedDropped(s) \/ \E c \in Clients : AddFails(s, c) \/ add_client(s, c)
-----------------------------------------------------------------------------
usbip_server_handle_once ==
  /\ pc = "clients" /\ linked_list_iter
  /\ UNCHANGED svars

\* The client the iteration calls usbip_client_handle with.
Current == At(itcur).data

\* Mutant of Fails: every error is taken for EAGAIN.
FailsNever(c) == FALSE

\* A call on the client's connection fails.  (Bound: after StopsPerPass failures
\* the others show in the next pass.)
Fails(c) == c \in Clients /\ sock[c] \in broken /\ stops < StopsPerPass

Visiting == pc = "clients" /\ IterMore

\* usbip_client_handle returns 0: it sent, received and answered what it could.
HandleReturns ==
  /\ Visiting /\ ~Fails(Current) /\ VisitKeeps
  /\ UNCHANGED svars

\* The visit ends the process, whose descriptors are closed: fill_devlist or
\* get_client_dev crashes, or a send on a failed connection raises SIGPIPE.
VisitEndsProcess ==
  /\ Visiting
  /\ pc' = "ended" /\ listening' = FALSE /\ open' = {} /\ broken' = {}
  /\ UNCHANGED <<vars, alloc, sock, stopping, stops>>

\* client_stop up to the call of linked_list_rem.
client_stop(c) ==
  /\ open' = sock_stop(open, sock[c]) /\ broken' = broken \ {sock[c]}
  /\ VisitInvalidates
  /\ stopping' = c

\* usbip_client_handle, or a handler it calls, is told that the connection
\* failed.
HandleStops ==
  /\ Visiting /\ Fails(Current)
  /\ client_stop(Current)
  /\ stops' = stops + 1
  /\ UNCHANGED <<pc, listening, alloc, sock>>

\* linked_list_rem, called by client_stop.
StopRemoves == (FindHop \/ RemReturn) /\ UNCHANGED svars

\* The end of client_stop, and the iteration goes on.
StopEnds ==
  /\ Reseat
  /\ alloc' = client_free(alloc, stopping)
  /\ sock' = [sock EXCEPT ![stopping] = JUNK]
  /\ stopping' = NULL
  /\ UNCHANGED <<pc, listening, open, broken, stops>>

PassGoesOn == IterAdvance /\ UNCHANGED svars

PassEnds ==
  /\ pc = "clients" /\ IterReturn
  /\ pc' = "accept" /\ stops' = 0
  /\ UNCHANGED <<listening, open, broken, alloc, sock, stopping>>
-----------------------------------------------------------------------------
\* The server's own steps; none of them waits.
ServerStep ==
  \/ usbip_accept_new_client
  \/ usbip_server_handle_once
  \/ HandleReturns \/ VisitEndsProcess
  \/ HandleStops \/ StopRemoves \/ StopEnds
  \/ PassGoesOn \/ PassEnds

ServerNext == ServerStep \/ \E s \in Socks : ConnectionBreaks(s)

ServerSpec == ServerInit /\ [][ServerNext]_allvars

FairServerSpec == ServerSpec /\ WF_allvars(ServerStep)
-----------------------------------------------------------------------------
\* Descriptors, clients and the place in the loop have their types, and an
\* allocated client has a descriptor (add_client).
ServerTypeOK ==
  /\ pc \in {"accept", "clients", "ended"} /\ listening \in BOOLEAN
  /\ broken \subseteq open /\ open \subseteq Socks
  /\ alloc \subseteq Clients /\ sock \in [Clients -> Socks \cup {JUNK}]
  /\ stopping \in Clients \cup {NULL} /\ stops \in Nat
  /\ \A c \in alloc : sock[c] \in Socks

\* Between passes the list holds every allocated client once and nothing else,
\* and each has an open connection of its own: no client or descriptor leaks,
\* wherever accepting one fails, and no node is left with a freed client
\* (usbip_accept_new_client, add_client, client_stop).
ClientsMatch ==
  pc = "accept" =>
    /\ {node[n].data : n \in live} = alloc
    /\ \A m, n \in live : node[m].data = node[n].data => m = n
    /\ {sock[c] : c \in alloc} = open
    /\ \A c, d \in alloc : sock[c] = sock[d] => c = d

\* usbip_client_handle is called with a client that is allocated and whose
\* descriptor is its own open connection.
HandlesLiveClient == Visiting => Current \in alloc /\ sock[Current] \in open

\* A connection that fails is closed and forgotten, though passes skip clients
\* behind one that was stopped and others connect and fail meanwhile, unless the
\* process ends first, which closes them all.
BrokenIsClosed == \A s \in Socks : s \in broken ~> s \notin broken

\* The loop comes back to accept, or the process ends over a visit: no client
\* keeps the others waiting.
PassesEnd == []<>(pc \in {"accept", "ended"})
=============================================================================
