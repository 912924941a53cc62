-------------------------- MODULE UsbipServerProofs --------------------------
(***************************************************************************)
(* Proof, for every number of clients and descriptors, that the server's   *)
(* client list, its clients' memory and their connections stay consistent  *)
(* as long as at most one connection is found to have failed in a pass.    *)
(***************************************************************************)
EXTENDS UsbipServer, LinkedListProofs, FiniteSetTheorems

Control ==
  /\ removed = stops
  /\ pc = "accept" => itpc = "off"
  /\ itpc = "off" => fop = "none" /\ stops = 0
  /\ stopping # NULL <=> itpc = "invalidated"
  /\ stopping # NULL => stops = 1
  /\ pc = "ended" => open = {}
  /\ fop \in {"none", "rem"}

\* The clients the list should hold.
Listed == IF stopping # NULL /\ fop = "none" THEN alloc \ {stopping} ELSE alloc

NodesMatch ==
  /\ \A m, n \in live : node[m].data = node[n].data => m = n
  /\ \A n \in live : node[n].data \in Listed
  /\ \A c \in Listed : \E n \in live : node[n].data = c

\* client_stop is removing the node of the client it was called with.
StoppingMatch ==
  stopping # NULL =>
    /\ stopping \in alloc
    /\ fop = "rem" => itcur \in live /\ node[itcur].data = stopping

SocksMatch ==
  pc # "ended" =>
    /\ \A c, d \in alloc : sock[c] = sock[d] => c = d
    /\ open = {sock[c] : c \in alloc \ {stopping}}

ServerInv ==
  /\ ListInv /\ ServerTypeOK /\ Control
  /\ NodesMatch /\ StoppingMatch /\ SocksMatch
-----------------------------------------------------------------------------
\* No clients, no connections (usbip_server_setup).
LEMMA ServerInvInit == ServerInit => ServerInv
<1> SUFFICES ASSUME ServerInit PROVE ServerInv
  OBVIOUS
<1>1. ListInv
  BY ListInvInit DEF ServerInit
<1> QED BY <1>1 DEF ServerInit, Init, ServerInv, ServerTypeOK, Control, NodesMatch,
           StoppingMatch, SocksMatch, Listed

\* A connection breaks.
LEMMA BreakStep ==
  ASSUME ServerInv, NEW s \in Socks, ConnectionBreaks(s)
  PROVE  ServerInv'
<1>1. /\ UNCHANGED <<vars, pc, listening, open, alloc, sock, stopping, stops>>
      /\ broken' = broken \cup {s} /\ s \in open
  BY DEF ConnectionBreaks
<1>2. ListInv' /\ UNCHANGED <<lvars, fvars, ivars>>
  <2>1. [Next]_vars /\ UNCHANGED <<lvars, fvars, ivars>>
    BY <1>1 DEF vars
  <2> QED BY <2>1, ListInvStep DEF ServerInv
<1>3. ServerTypeOK'
  BY <1>1 DEF ServerInv, ServerTypeOK
<1>4. Control' /\ NodesMatch' /\ StoppingMatch' /\ SocksMatch'
  BY <1>1, <1>2 DEF ServerInv, Control, NodesMatch, StoppingMatch, SocksMatch, Listed, lvars, fvars, ivars
<1> QED BY <1>2, <1>3, <1>4 DEF ServerInv

\* usbip_accept_new_client leaves the clients as they are.
LEMMA AcceptNoneStep ==
  ASSUME ServerInv, AcceptNone \/ AcceptFails
  PROVE  ServerInv'
<1>1. /\ UNCHANGED <<vars, open, broken, alloc, sock, stopping, stops>>
      /\ pc = "accept" /\ pc' = "clients" /\ listening' \in BOOLEAN
  BY DEF AcceptNone, AcceptFails, ServerInv, ServerTypeOK
<1>2. ListInv' /\ UNCHANGED <<lvars, fvars, ivars>>
  <2>1. [Next]_vars /\ UNCHANGED <<lvars, fvars, ivars>>
    BY <1>1 DEF vars
  <2> QED BY <2>1, ListInvStep DEF ServerInv
<1>3. ServerTypeOK'
  BY <1>1 DEF ServerInv, ServerTypeOK
<1>4. Control' /\ NodesMatch' /\ StoppingMatch' /\ SocksMatch'
  BY <1>1, <1>2 DEF ServerInv, Control, NodesMatch, StoppingMatch, SocksMatch, Listed, lvars, fvars, ivars
<1> QED BY <1>2, <1>3, <1>4 DEF ServerInv

\* Where accepting a connection fails, what was taken for it is given back
\* (add_client).
LEMMA AcceptFailedStep ==
  ASSUME ServerInv, NEW s \in Socks, AcceptedDropped(s) \/ \E c \in Clients : AddFails(s, c)
  PROVE  ServerInv'
<1>1. /\ Accepts(s) /\ open' = open /\ alloc' = alloc /\ UNCHANGED <<lvars, sock>>
      /\ UNCHANGED ret \/ \E c \in Data : ret' = Op("linked_list_push", c, -1)
  BY DEF AcceptedDropped, AddFails, Accepts, sock_stop, client_free, Clients
<1>2. /\ UNCHANGED <<lvars, fvars, ivars>> /\ pc = "accept" /\ pc' = "clients"
      /\ UNCHANGED <<listening, open, broken, alloc, sock, stopping, stops>>
  BY <1>1 DEF Accepts
<1>3. ListInv'
  <2>1. CASE UNCHANGED ret
    <3>1. [Next]_vars
      BY <1>2, <2>1 DEF vars
    <3> QED BY <3>1, ListInvStep DEF ServerInv
  <2>2. ASSUME NEW c \in Data, ret' = Op("linked_list_push", c, -1) PROVE ListInv'
    <3>1. Idle
      BY <1>2 DEF ServerInv, Control, Idle
    <3>2. linked_list_push(c)
      BY <1>2, <2>2, <3>1 DEF linked_list_push
    <3> QED BY <2>2, <3>2, ListInvStep DEF ServerInv, Next
  <2> QED BY <1>1, <2>1, <2>2
<1>4. ServerTypeOK'
  BY <1>2 DEF ServerInv, ServerTypeOK
<1>5. Control' /\ NodesMatch' /\ StoppingMatch' /\ SocksMatch'
  BY <1>2 DEF ServerInv, Control, NodesMatch, StoppingMatch, SocksMatch, Listed, lvars, fvars, ivars
<1> QED BY <1>3, <1>4, <1>5 DEF ServerInv

\* A new client has memory, a node and a descriptor that were not in use
\* (add_client).
LEMMA AcceptStep ==
  ASSUME ServerInv, NEW s \in Socks, NEW c \in Clients, add_client(s, c)
  PROVE  ServerInv'
<1>1. /\ pc = "accept" /\ s \in Socks \ open /\ c \in Clients \ alloc
      /\ open' = open \cup {s} /\ alloc' = alloc \cup {c} /\ sock' = [sock EXCEPT ![c] = s]
      /\ pc' = "clients" /\ UNCHANGED <<fvars, ivars>>
      /\ UNCHANGED <<listening, broken, stopping, stops>>
  BY DEF add_client, Accepts
<1>2. PICK n \in Nodes \ live : PushNode(c, n)
  BY DEF add_client, Accepts
<1>3. itpc = "off" /\ fop = "none" /\ stopping = NULL /\ Idle /\ fop' = fop /\ itpc' = itpc /\ removed' = removed
  BY <1>1 DEF ServerInv, Control, Idle, fvars, ivars
<1>4. ListInv'
  BY <1>1, <1>2, <1>3, PushStep DEF ServerInv, Clients
<1>5. /\ sock'[c] = s /\ \A d \in alloc : d # c /\ sock'[d] = sock[d] /\ sock[d] \in open
      /\ alloc \subseteq Clients /\ NULL \notin Clients
  BY <1>1, <1>3, LinkedListAssumption DEF ServerInv, ServerTypeOK, SocksMatch, Clients
<1>6. ServerTypeOK' /\ Control'
  BY <1>1, <1>3, <1>5 DEF ServerInv, ServerTypeOK, Control, Clients
<1>7. NodesMatch'
  <2>1. live' = live \cup {n} /\ node'[n].data = c /\ \A m \in live : node'[m].data = node[m].data
    <3>1. node \in [Nodes -> [data : Data \cup {JUNK}, next : Ptr, prev : Ptr]] /\ live \subseteq Nodes
      BY DEF ServerInv, ListInv, TypeOK
    <3> QED BY <1>2, <3>1 DEF PushNode
  <2>2. Listed = alloc /\ Listed' = alloc'
    BY <1>1, <1>3 DEF Listed
  <2> QED BY <1>1, <2>1, <2>2 DEF ServerInv, NodesMatch
<1>8. StoppingMatch'
  BY <1>1, <1>3 DEF StoppingMatch
<1>9. SocksMatch'
  <2>1. \A d, e \in alloc' : sock'[d] = sock'[e] => d = e
    BY <1>1, <1>5 DEF ServerInv, SocksMatch
  <2>2. open = {sock[d] : d \in alloc}
    BY <1>1, <1>3, <1>5 DEF ServerInv, SocksMatch
  <2>3. alloc' \ {stopping'} = alloc \cup {c}
    BY <1>1, <1>3, <1>5
  <2> QED BY <1>1, <1>5, <2>1, <2>2, <2>3 DEF SocksMatch
<1> QED BY <1>4, <1>6, <1>7, <1>8, <1>9 DEF ServerInv

\* The steps of the iteration that leave the clients as they are
\* (usbip_server_handle_once).
LEMMA PassStep ==
  ASSUME ServerInv, usbip_server_handle_once \/ HandleReturns \/ PassGoesOn \/ PassEnds
  PROVE  ServerInv'
<1>1. Next
  BY DEF usbip_server_handle_once, HandleReturns, PassGoesOn, PassEnds, Next, Running
<1>2. ListInv'
  BY <1>1, ListInvStep DEF ServerInv
<1>3. UNCHANGED <<listening, open, broken, alloc, sock, stopping>> /\ UNCHANGED <<lvars, fvars>>
  BY DEF usbip_server_handle_once, HandleReturns, PassGoesOn, PassEnds, svars,
         linked_list_iter, VisitKeeps, IterAdvance, IterReturn
<1>4. /\ itpc # "invalidated" /\ itpc' # "invalidated"
      /\ \/ removed' = 0 /\ stops' = stops /\ itpc = "off" /\ itpc' = "visit" /\ pc = "clients" /\ pc' = pc
         \/ removed' = removed /\ stops' = stops /\ pc' = pc /\ itpc # "off" /\ itpc' # "off"
         \/ removed' = 0 /\ stops' = 0 /\ pc = "clients" /\ pc' = "accept" /\ itpc # "off" /\ itpc' = "off" /\ fop = "none"
  <2>1. itpc = "visit" => fop = "none"
    <3> PICK s \in [1 .. size -> Nodes], p \in Nat : Links(s) /\ FindAt(s) /\ IterAt(s, p)
      BY DEF ServerInv, ListInv
    <3> QED BY DEF IterAt, VisitAt
  <2> QED BY <2>1 DEF usbip_server_handle_once, HandleReturns, PassGoesOn, PassEnds, svars,
         linked_list_iter, VisitKeeps, IterAdvance, IterReturn, IterMore, Idle
<1>5. ServerTypeOK'
  BY <1>3, <1>4 DEF ServerInv, ServerTypeOK
<1>6. Control'
  BY <1>3, <1>4 DEF ServerInv, Control, fvars
<1>7. stopping = NULL
  BY <1>4 DEF ServerInv, Control
<1>8. NodesMatch' /\ StoppingMatch' /\ SocksMatch'
  BY <1>3, <1>4, <1>7 DEF ServerInv, NodesMatch, StoppingMatch, SocksMatch, Listed, lvars, fvars
<1> QED BY <1>2, <1>5, <1>6, <1>8 DEF ServerInv

\* The client being visited (usbip_client_handle).
LEMMA CurrentClient ==
  ASSUME ServerInv, Visiting
  PROVE  /\ itcur \in live /\ itcur \in Nodes /\ Current = node[itcur].data
         /\ Current \in alloc /\ Current \in Clients /\ sock[Current] \in open
         /\ stopping = NULL /\ fop = "none"
<1> PICK s \in [1 .. size -> Nodes], p \in Nat : Links(s) /\ FindAt(s) /\ IterAt(s, p)
  BY DEF ServerInv, ListInv
<1>1. itcur = s[p + 1] /\ p + 1 \in 1 .. size /\ itcur \in Nodes /\ fop = "none"
  BY AtVisit DEF ServerInv, ListInv, Visiting
<1>2. itcur \in live /\ Current = node[itcur].data
  BY <1>1 DEF Links, Current, At
<1>3. stopping = NULL /\ pc = "clients"
  BY DEF ServerInv, Control, Visiting, IterMore
<1>4. Current \in alloc
  BY <1>2, <1>3 DEF ServerInv, NodesMatch, Listed
<1>5. Current \in Clients /\ NULL \notin Clients
  BY <1>4, LinkedListAssumption DEF ServerInv, ServerTypeOK, Clients
<1> QED BY <1>1, <1>2, <1>3, <1>4, <1>5 DEF ServerInv, SocksMatch

\* The end of the process closes every connection.
LEMMA EndStep ==
  ASSUME ServerInv, VisitEndsProcess
  PROVE  ServerInv'
<1>1. /\ UNCHANGED <<vars, alloc, sock, stopping, stops>> /\ itpc = "visit"
      /\ pc' = "ended" /\ listening' = FALSE /\ open' = {} /\ broken' = {}
  BY DEF VisitEndsProcess, Visiting, IterMore
<1>2. ListInv' /\ UNCHANGED <<lvars, fvars, ivars>>
  <2>1. [Next]_vars /\ UNCHANGED <<lvars, fvars, ivars>>
    BY <1>1 DEF vars
  <2> QED BY <2>1, ListInvStep DEF ServerInv
<1>3. ServerTypeOK' /\ Control'
  BY <1>1, <1>2 DEF ServerInv, ServerTypeOK, Control, fvars, ivars
<1>4. NodesMatch' /\ StoppingMatch' /\ SocksMatch'
  BY <1>1, <1>2 DEF ServerInv, NodesMatch, StoppingMatch, SocksMatch, Listed, lvars, fvars, ivars
<1> QED BY <1>2, <1>3, <1>4 DEF ServerInv

\* client_stop closes the connection and starts to remove the node of the
\* client: no client was stopped before in this pass (client_stop).
LEMMA StopStep ==
  ASSUME StopsPerPass <= 1, ServerInv, HandleStops
  PROVE  ServerInv'
<1>1. /\ Visiting /\ Fails(Current) /\ VisitInvalidates /\ stopping' = Current /\ stops' = stops + 1
      /\ open' = open \ {sock[Current]} /\ broken' = broken \ {sock[Current]}
      /\ UNCHANGED <<pc, listening, alloc, sock>>
  BY DEF HandleStops, client_stop, sock_stop
<1>2. IterMore /\ itpc' = "invalidated" /\ removed' = removed + 1 /\ fop' = "rem" /\ fidx' = iti
      /\ UNCHANGED <<lvars, itcur>> /\ itpc = "visit"
  BY <1>1 DEF VisitInvalidates, FindStart, IterMore
<1>3. ListInv'
  BY <1>1, InvalidateStep DEF ServerInv
<1>4. /\ itcur \in live /\ itcur \in Nodes /\ Current = node[itcur].data
      /\ Current \in alloc /\ Current \in Clients /\ sock[Current] \in open
      /\ stopping = NULL /\ fop = "none"
  BY <1>1, CurrentClient
<1>5. stops = 0 /\ pc = "clients"
  BY <1>1, UsbipServerAssumption DEF ServerInv, ServerTypeOK, Fails, Visiting
<1>6. NULL \notin Clients
  BY LinkedListAssumption DEF Clients
<1>7. ServerTypeOK' /\ Control'
  BY <1>1, <1>2, <1>4, <1>5, <1>6 DEF ServerInv, ServerTypeOK, Control
<1>8. NodesMatch' /\ StoppingMatch'
  BY <1>1, <1>2, <1>4, <1>6 DEF ServerInv, NodesMatch, StoppingMatch, Listed, lvars
<1>9. SocksMatch'
  <2>1. open = {sock[c] : c \in alloc} /\ \A c, d \in alloc : sock[c] = sock[d] => c = d
    BY <1>4, <1>5, <1>6 DEF ServerInv, SocksMatch, ServerTypeOK
  <2> QED BY <1>1, <1>4, <2>1 DEF SocksMatch
<1> QED BY <1>3, <1>7, <1>8, <1>9 DEF ServerInv

\* linked_list_rem removes the node of the client that is stopped, and no
\* other one (client_stop).
LEMMA RemovesStep ==
  ASSUME ServerInv, StopRemoves
  PROVE  ServerInv'
<1>1. (FindHop \/ RemReturn) /\ UNCHANGED svars
  BY DEF StopRemoves
<1>2. ListInv'
  BY <1>1, FindHopStep, RemStep DEF ServerInv
<1>3. ServerTypeOK' /\ SocksMatch'
  BY <1>1 DEF ServerInv, ServerTypeOK, SocksMatch, svars
<1>4. fop = "rem" /\ UNCHANGED ivars
  BY <1>1 DEF FindHop, RemReturn, ServerInv, Control
<1>5. stopping # NULL /\ stops = 1 /\ itpc = "invalidated"
  BY <1>4 DEF ServerInv, Control, ListInv, TypeOK, IterAt, VisitAt, AdvanceAt
<1>6. CASE FindHop
  <2>1. UNCHANGED <<lvars, fop>>
    BY <1>6 DEF FindHop
  <2> QED BY <1>1, <1>2, <1>3, <1>4, <2>1
          DEF ServerInv, Control, NodesMatch, StoppingMatch, Listed, svars, lvars, ivars
<1>7. CASE RemReturn
  <2>1. fcur = itcur /\ fcur \in Nodes /\ fop' = "none"
    <3> PICK s \in [1 .. size -> Nodes], p \in Nat : Links(s) /\ FindAt(s) /\ IterAt(s, p)
      BY DEF ServerInv, ListInv
    <3>1. fi = 0 /\ TypeOK /\ fop' = "none"
      BY <1>7 DEF RemReturn, FindEnd, ServerInv, ListInv
    <3>2. fcur = s[fidx + 1] /\ fcur \in Nodes
      BY <1>4, <3>1, Found
    <3>3. RemovingAt(s, p)
      BY <1>4, <1>5 DEF IterAt, RemovedAt
    <3>4. p = iti /\ fidx = iti
      BY <1>5, <3>1, <3>3 DEF RemovingAt, ServerInv, Control, TypeOK
    <3> QED BY <3>1, <3>2, <3>3, <3>4 DEF RemovingAt
  <2>2. live' = live \ {itcur} /\ \A m \in live \ {itcur} : node'[m].data = node[m].data
    <3>1. node \in [Nodes -> [data : Data \cup {JUNK}, next : Ptr, prev : Ptr]] /\ live \subseteq Nodes
      BY DEF ServerInv, ListInv, TypeOK
    <3>2. node' = Unlinked(itcur) /\ live' = live \ {itcur}
      BY <1>7, <2>1 DEF RemReturn
    <3>3. ASSUME NEW m \in live \ {itcur} PROVE node'[m].data = node[m].data
      <4>1. m \in Nodes /\ m # itcur /\ node[m] \in [data : Data \cup {JUNK}, next : Ptr, prev : Ptr]
        BY <3>1
      <4>2. node'[m] = [node[m] EXCEPT
                          !.next = IF m = At(itcur).prev THEN At(itcur).next ELSE @,
                          !.prev = IF m = At(itcur).next THEN At(itcur).prev ELSE @]
        BY <3>2, <4>1 DEF Unlinked
      <4> QED BY <4>1, <4>2
    <3> QED BY <3>2, <3>3
  <2>3. Listed = alloc /\ Listed' = alloc \ {stopping}
    BY <1>1, <1>4, <1>5, <2>1 DEF Listed, svars
  <2>4. itcur \in live /\ node[itcur].data = stopping
    BY <1>4, <1>5 DEF ServerInv, StoppingMatch
  <2>5. NodesMatch'
    BY <2>2, <2>3, <2>4 DEF ServerInv, NodesMatch
  <2>6. Control' /\ StoppingMatch'
    BY <1>1, <1>4, <1>5, <2>1 DEF ServerInv, Control, StoppingMatch, svars, ivars
  <2> QED BY <1>2, <1>3, <2>5, <2>6 DEF ServerInv
<1> QED BY <1>1, <1>6, <1>7

\* client_stop gives back the client's memory (client_free).
LEMMA StopEndsStep ==
  ASSUME ServerInv, StopEnds
  PROVE  ServerInv'
<1>1. /\ Reseat /\ alloc' = alloc \ {stopping} /\ sock' = [sock EXCEPT ![stopping] = JUNK]
      /\ stopping' = NULL /\ UNCHANGED <<pc, listening, open, broken, stops>>
  BY DEF StopEnds, client_free
<1>2. ListInv'
  BY <1>1, ReseatStep DEF ServerInv
<1>3. /\ itpc = "invalidated" /\ fop = "none" /\ itpc' = "advance" /\ UNCHANGED <<lvars, fvars, removed>>
  BY <1>1 DEF Reseat
<1>4. stopping # NULL /\ stopping \in alloc /\ NULL \notin Clients /\ alloc \subseteq Clients
  BY <1>3, LinkedListAssumption DEF ServerInv, Control, StoppingMatch, ServerTypeOK, Clients
<1>5. \A c \in alloc \ {stopping} : sock'[c] = sock[c]
  BY <1>1, <1>4 DEF ServerInv, ServerTypeOK
<1>6. ServerTypeOK' /\ Control'
  BY <1>1, <1>3, <1>4, <1>5 DEF ServerInv, ServerTypeOK, Control, fvars
<1>7. NodesMatch' /\ StoppingMatch'
  BY <1>1, <1>3, <1>4 DEF ServerInv, NodesMatch, StoppingMatch, Listed, lvars, fvars
<1>8. SocksMatch'
  <2>1. alloc' \ {stopping'} = alloc \ {stopping}
    BY <1>1, <1>4
  <2> QED BY <1>1, <1>5, <2>1 DEF ServerInv, SocksMatch
<1> QED BY <1>2, <1>6, <1>7, <1>8 DEF ServerInv

\* What the invariant says between passes and of the client visited.
LEMMA ServerInvImplies == ServerInv => ClientsMatch /\ HandlesLiveClient
<1> SUFFICES ASSUME ServerInv PROVE ClientsMatch /\ HandlesLiveClient
  OBVIOUS
<1>1. HandlesLiveClient
  BY CurrentClient DEF HandlesLiveClient
<1>2. ASSUME pc = "accept"
      PROVE  /\ {node[n].data : n \in live} = alloc
             /\ {sock[c] : c \in alloc} = open
  <2>1. stopping = NULL /\ NULL \notin Clients /\ alloc \subseteq Clients
    BY <1>2, LinkedListAssumption DEF ServerInv, Control, ServerTypeOK, Clients
  <2>2. Listed = alloc /\ alloc \ {stopping} = alloc
    BY <2>1 DEF Listed
  <2> QED BY <1>2, <2>2 DEF ServerInv, NodesMatch, SocksMatch
<1>3. ClientsMatch
  BY <1>2 DEF ServerInv, ClientsMatch, NodesMatch, SocksMatch
<1> QED BY <1>1, <1>3

\* If at most one connection is found to have failed in a pass, then for any number of clients
\* usbip_client_handle is only called with live clients, and between passes the
\* list, the clients' memory and the open connections match: client_stop's
\* index, taken from the iteration, is that of the client's own node.
THEOREM ServerSafety ==
  ASSUME StopsPerPass <= 1
  PROVE  ServerSpec => [](ClientsMatch /\ HandlesLiveClient)
<1>1. ServerInv /\ [ServerNext]_allvars => ServerInv'
  <2> SUFFICES ASSUME ServerInv, [ServerNext]_allvars PROVE ServerInv'
    OBVIOUS
  <2>1. ASSUME NEW s \in Socks, ConnectionBreaks(s) PROVE ServerInv'
    BY <2>1, BreakStep
  <2>2. CASE usbip_accept_new_client
    <3>1. CASE AcceptNone \/ AcceptFails
      BY <3>1, AcceptNoneStep
    <3>2. ASSUME NEW s \in Socks, AcceptedDropped(s) \/ \E c \in Clients : AddFails(s, c) PROVE ServerInv'
      BY <3>2, AcceptFailedStep
    <3>3. ASSUME NEW s \in Socks, NEW c \in Clients, add_client(s, c) PROVE ServerInv'
      BY <3>3, AcceptStep
    <3> QED BY <2>2, <3>1, <3>2, <3>3 DEF usbip_accept_new_client
  <2>3. CASE VisitEndsProcess
    BY <2>3, EndStep
  <2>4. CASE usbip_server_handle_once \/ HandleReturns \/ PassGoesOn \/ PassEnds
    BY <2>4, PassStep
  <2>5. CASE HandleStops
    BY <2>5, StopStep
  <2>6. CASE StopRemoves
    BY <2>6, RemovesStep
  <2>7. CASE StopEnds
    BY <2>7, StopEndsStep
  <2>8. CASE UNCHANGED allvars
    <3>1. ListInv' /\ UNCHANGED <<lvars, fvars, ivars>> /\ UNCHANGED svars
      <4>1. [Next]_vars /\ UNCHANGED <<lvars, fvars, ivars>> /\ UNCHANGED svars
        BY <2>8 DEF allvars, vars
      <4> QED BY <4>1, ListInvStep DEF ServerInv
    <3> QED BY <3>1 DEF ServerInv, ServerTypeOK, Control, NodesMatch, StoppingMatch,
               SocksMatch, Listed, svars, lvars, fvars, ivars
  <2> QED BY <2>1, <2>2, <2>3, <2>4, <2>5, <2>6, <2>7, <2>8 DEF ServerNext, ServerStep
<1> QED BY <1>1, ServerInvInit, ServerInvImplies, PTL DEF ServerSpec

\* The handler never gets a client whose memory was freed, for any number of
\* clients (usbip_client_handle, client_stop).
THEOREM ServerHandlesLiveClient ==
  ASSUME StopsPerPass <= 1
  PROVE  ServerSpec => []HandlesLiveClient
BY ServerSafety, PTL
=============================================================================
