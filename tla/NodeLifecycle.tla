---------------------------- MODULE NodeLifecycle ----------------------------
(***************************************************************************)
(* The CNode objects of net.cpp: made by the threads that open connections *)
(* and by the socket thread, used by the socket thread and the message     *)
(* handler, taken from vNodes and deleted by the socket thread.  A counter *)
(* of references says when an object may go, and a semaphore how many      *)
(* outbound connections there are.                                         *)
(*                                                                         *)
(* cs_vNodes makes a step of a block that holds it, for those that take it *)
(* too.  Opening threads change nodes without it, so that the loop that    *)
(* disconnects nodes has steps of its own, and the others wait for it.     *)
(***************************************************************************)
EXTENDS Integers, FiniteSets

CONSTANTS
    MaxNodes,       \* how many CNode objects the program may allocate
    Addrs,          \* addresses of peers
    Openers,        \* the threads that open connections
    Ways,           \* to what each opens them: to an "address", to a "name" (-addnode
                    \* behind a name proxy), to the name of a "oneshot" or of "onetry"
    None,
    Resolved,       \* the addresses that names lead to, None if a proxy keeps it
    MaxOutbound,    \* the initial value of semOutbound
    MaxInbound      \* -maxconnections less MAX_OUTBOUND_CONNECTIONS

Objects == 1..MaxNodes

ASSUME NodesAssumption ==
    /\ MaxNodes \in Nat
    /\ MaxOutbound \in Nat
    /\ MaxInbound \in Nat
    /\ IsFiniteSet(Openers)
    /\ None \notin Addrs /\ Resolved \subseteq Addrs \cup {None}
    /\ Ways \in [Openers -> SUBSET {"address", "name", "oneshot", "onetry"}]

VARIABLES
    node,           \* the objects: fields of CNode
    nLastNodeId,    \* the id of the newest object
    vNodes,
    vNodesDisconnected,
    deleted,        \* objects whose memory was freed
    free,           \* the value of semOutbound
    opener,         \* the locals of each opening thread
    sock, handler,  \* the socket thread and the message handler
    shared,         \* history: objects that ConnectNode has found, not made
    leaked,         \* history: objects taken from vNodes with no Release
    cut             \* history: objects taken from vNodes before their grant came

vars == <<node, nLastNodeId, vNodes, vNodesDisconnected, deleted, free, opener,
          sock, handler, shared, leaked, cut>>

lists == <<nLastNodeId, vNodes, vNodesDisconnected, deleted, shared, leaked, cut>>

Node == [addr : Addrs \cup {None}, by : {"peer", "address", "name", "oneshot", "onetry"},
         network : BOOLEAN, disconnect : BOOLEAN, grant : BOOLEAN, refs : Int]

Opener == [pc : {"idle", "wait", "found", "addref", "socket", "grant", "network", "oneshot"},
           how : {"address", "name", "oneshot", "onetry"}, addr : Addrs \cup {None},
           n : 0..MaxNodes, refs : Int]

\* Every node is in one place, the threads have their locals.
NodesTypeOK ==
    /\ node \in [Objects -> Node]
    /\ nLastNodeId \in 0..MaxNodes
    /\ vNodes \subseteq Objects
    /\ vNodesDisconnected \subseteq Objects /\ deleted \subseteq Objects
    /\ free \in 0..MaxOutbound
    /\ opener \in [Openers -> Opener]
    /\ sock \in [pc : {"disconnect", "loop", "pool", "delete", "accept", "copy", "service"},
                 copy : SUBSET Objects, todo : SUBSET Objects]
    /\ handler \in [pc : {"copy", "process", "release"}, copy : SUBSET Objects]
    /\ shared \subseteq Objects /\ leaked \subseteq Objects /\ cut \subseteq Objects

Blank == [addr |-> None, by |-> "peer", network |-> FALSE,
          disconnect |-> FALSE, grant |-> FALSE, refs |-> 0]

Idle == [pc |-> "idle", how |-> "address", addr |-> None, n |-> 0, refs |-> 0]

Init ==
    /\ node = [n \in Objects |-> Blank]
    /\ nLastNodeId = 0
    /\ vNodes = {} /\ vNodesDisconnected = {} /\ deleted = {}
    /\ free = MaxOutbound
    /\ opener = [o \in Openers |-> Idle]
    /\ sock = [pc |-> "disconnect", copy |-> {}, todo |-> {}]
    /\ handler = [pc |-> "copy", copy |-> {}]
    /\ shared = {} /\ leaked = {} /\ cut = {}

\* AddRef or Release of all nodes of a set, under cs_vNodes.
Count(ns, k) == [n \in Objects |-> IF n \in ns THEN [node[n] EXCEPT !.refs = @ + k]
                                               ELSE node[n]]

\* An assignment to an object; what is stored in a freed one is lost.
Store(n, fields) == IF n \in deleted THEN node ELSE [node EXCEPT ![n] = fields]

\* cs_vNodes, when the socket thread is not in the loop that disconnects.
VNodesFree == sock.pc \notin {"loop", "pool"}

-----------------------------------------------------------------------------
(* Opening: OpenNetworkConnection and ConnectNode.                         *)

\* FindNode((CNetAddr)addr).
KnownHost(a) == \E n \in vNodes : node[n].addr = a

\* FindNode((CService)addr): a peer that connected to us has another port, a
\* node opened by name may have another.
KnownService(a) == {n \in vNodes : node[n].addr = a /\ node[n].by # "peer"}
OpenedTo(a) == {n \in vNodes : node[n].addr = a /\ node[n].by = "address"}

\* A thread gets a grant (onetry does not ask for one), picks an address or a
\* name and finds no node for it (onetry does not look).  If it finds one its
\* grant is given back and nothing has changed.  Which nodes have a name is
\* left out: it may always be a new one.
Dial(o, how, a) ==
    /\ opener[o].pc = "idle"
    /\ how # "onetry" => VNodesFree /\ free > 0
    /\ how = "address" => ~KnownHost(a)
    /\ free' = IF how = "onetry" THEN free ELSE free - 1
    /\ opener' = [opener EXCEPT ![o] = [Idle EXCEPT !.pc = "wait", !.how = how, !.addr = a]]
    /\ UNCHANGED <<node, lists, sock, handler>>

\* The holder of cs_connectNode.
InConnectNode(o) == opener[o].pc \in {"found", "addref", "socket"}

\* Mutated: without LOCK(cs_connectNode).
EnterConnectNodeUnlocked(o) ==
    /\ opener[o].pc = "wait"
    /\ \/ /\ opener[o].how = "address" => VNodesFree /\ OpenedTo(opener[o].addr) = {}
          /\ opener' = [opener EXCEPT ![o].pc = "socket"]
          /\ shared' = shared
       \/ /\ opener[o].how = "address" /\ VNodesFree
          /\ \E n \in KnownService(opener[o].addr) :
              /\ opener' = [opener EXCEPT ![o] = [Idle EXCEPT !.pc = "found", !.n = n]]
              /\ shared' = shared \cup {n}
    /\ UNCHANGED <<node, nLastNodeId, vNodes, vNodesDisconnected, deleted, leaked, cut,
                   free, sock, handler>>

\* ConnectNode has its lock; for an address it looks for an existing connection.
EnterConnectNode(o) ==
    /\ opener[o].pc = "wait"
    /\ \A p \in Openers : ~InConnectNode(p)
    /\ \/ /\ opener[o].how = "address" => VNodesFree /\ OpenedTo(opener[o].addr) = {}
          /\ opener' = [opener EXCEPT ![o].pc = "socket"]
          /\ shared' = shared
       \/ /\ opener[o].how = "address" /\ VNodesFree
          /\ \E n \in KnownService(opener[o].addr) :
              /\ opener' = [opener EXCEPT ![o] = [Idle EXCEPT !.pc = "found", !.n = n]]
              /\ shared' = shared \cup {n}
    /\ UNCHANGED <<node, nLastNodeId, vNodes, vNodesDisconnected, deleted, leaked, cut,
                   free, sock, handler>>

\* nRefCount++ without cs_vNodes: the read and, later, the write.
ReadRefCount(o) ==
    /\ opener[o].pc = "found"
    /\ opener' = [opener EXCEPT ![o].pc = "addref",
                                ![o].refs = node[opener[o].n].refs]
    /\ UNCHANGED <<node, lists, free, sock, handler>>

WriteRefCount(o) ==
    /\ opener[o].pc = "addref"
    /\ node' = Store(opener[o].n, [node[opener[o].n] EXCEPT !.refs = opener[o].refs + 1])
    /\ opener' = [opener EXCEPT ![o].pc = "grant", ![o].refs = 0]
    /\ UNCHANGED <<lists, free, sock, handler>>

\* The connection fails; the destructor of the grant gives it back.
ConnectFails(o) ==
    /\ opener[o].pc = "socket"
    /\ free' = IF opener[o].how = "onetry" THEN free ELSE free + 1
    /\ opener' = [opener EXCEPT ![o] = Idle]
    /\ UNCHANGED <<node, lists, sock, handler>>

\* A new node with one reference enters vNodes.  Its constructor sends the
\* version message, which may find the socket closed.  A name may lead to any
\* address or, through a proxy, to none that we know.  onetry is done.
Connects(o) ==
    /\ opener[o].pc = "socket" /\ VNodesFree
    /\ nLastNodeId < MaxNodes
    /\ nLastNodeId' = nLastNodeId + 1
    /\ \E dead \in BOOLEAN,
          a \in IF opener[o].how = "address" THEN {opener[o].addr} ELSE Resolved :
       LET n == nLastNodeId' IN
        /\ node' = [node EXCEPT ![n] = [Blank EXCEPT !.addr = a,
                                                     !.by = opener[o].how,
                                                     !.disconnect = dead,
                                                     !.refs = 1]]
        /\ vNodes' = vNodes \cup {n}
        /\ opener' = [opener EXCEPT ![o] =
                        IF opener[o].how = "onetry" THEN Idle
                        ELSE [Idle EXCEPT !.pc = "grant", !.how = opener[o].how, !.n = n]]
    /\ UNCHANGED <<vNodesDisconnected, deleted, shared, leaked, cut, free, sock, handler>>

\* Mutated: fHaveGrant stays set at the source, which releases it too.
MoveGrantCopied(o) ==
    /\ opener[o].pc = "grant"
    /\ LET n == opener[o].n
       IN  /\ free' = IF node[n].grant THEN free + 2 ELSE free + 1
           /\ node' = Store(n, [node[n] EXCEPT !.grant = TRUE])
    /\ opener' = [opener EXCEPT ![o].pc = "network"]
    /\ UNCHANGED <<lists, sock, handler>>

\* grantOutbound->MoveTo(pnode->grantOutbound): if the node has a grant that is
\* released, and it takes that of the thread.  No lock is held.
MoveGrant(o) ==
    /\ opener[o].pc = "grant"
    /\ LET n == opener[o].n
       IN  /\ free' = IF node[n].grant THEN free + 1 ELSE free
           /\ node' = Store(n, [node[n] EXCEPT !.grant = TRUE])
    /\ opener' = [opener EXCEPT ![o].pc = "network"]
    /\ UNCHANGED <<lists, sock, handler>>

\* pnode->fNetworkNode = true, and OpenNetworkConnection returns, but for a
\* one-shot.
SetNetworkNode(o) ==
    /\ opener[o].pc = "network"
    /\ node' = Store(opener[o].n, [node[opener[o].n] EXCEPT !.network = TRUE])
    /\ opener' = [opener EXCEPT ![o] =
                    IF opener[o].how = "oneshot" THEN [opener[o] EXCEPT !.pc = "oneshot"] ELSE Idle]
    /\ UNCHANGED <<lists, free, sock, handler>>

\* pnode->fOneShot = true: the handler will give the node up after some
\* message, as it may any node.
SetOneShot(o) ==
    /\ opener[o].pc = "oneshot"
    /\ opener' = [opener EXCEPT ![o] = Idle]
    /\ UNCHANGED <<node, lists, free, sock, handler>>

-----------------------------------------------------------------------------
(* ThreadSocketHandler.                                                    *)

\* cs_vNodes is left when nothing is left to do.
Walk(rest) == [sock EXCEPT !.pc = IF rest = {} THEN "delete" ELSE "loop", !.todo = rest]

\* "Disconnect nodes": cs_vNodes is taken, and vNodesCopy is walked in order.
SocketDisconnect ==
    /\ sock.pc = "disconnect"
    /\ sock' = Walk(vNodes)
    /\ UNCHANGED <<node, lists, free, opener, handler>>

\* n is the next of vNodesCopy.
IsNext(n) == n \in sock.todo /\ \A m \in sock.todo : n <= m

\* A node stays that nobody has given up; if it has no references its buffers
\* are not empty.
SocketKeep(n) ==
    /\ sock.pc = "loop" /\ IsNext(n)
    /\ ~node[n].disconnect
    /\ sock' = Walk(sock.todo \ {n})
    /\ UNCHANGED <<node, lists, free, opener, handler>>

\* Mutated: the grant stays with the node until that is deleted.
SocketSeverGranted(n) ==
    /\ sock.pc = "loop" /\ IsNext(n)
    /\ node[n].disconnect \/ node[n].refs <= 0
    /\ vNodes' = vNodes \ {n}
    /\ node' = [node EXCEPT ![n].disconnect = TRUE]
    /\ cut' = IF \E o \in Openers : opener[o].pc = "grant" /\ opener[o].n = n
              THEN cut \cup {n} ELSE cut
    /\ sock' = [sock EXCEPT !.pc = "pool"]
    /\ UNCHANGED <<nLastNodeId, vNodesDisconnected, deleted, shared, leaked, free, opener, handler>>

\* A node leaves vNodes, its grant is released and its socket closed.
SocketSever(n) ==
    /\ sock.pc = "loop" /\ IsNext(n)
    /\ node[n].disconnect \/ node[n].refs <= 0
    /\ vNodes' = vNodes \ {n}
    /\ free' = IF node[n].grant THEN free + 1 ELSE free
    /\ node' = [node EXCEPT ![n].grant = FALSE, ![n].disconnect = TRUE]
    /\ cut' = IF \E o \in Openers : opener[o].pc = "grant" /\ opener[o].n = n
              THEN cut \cup {n} ELSE cut
    /\ sock' = [sock EXCEPT !.pc = "pool"]
    /\ UNCHANGED <<nLastNodeId, vNodesDisconnected, deleted, shared, leaked, opener, handler>>

\* Then the reference of its maker is released, if it is by now known to be a
\* network node, or is inbound.
SocketPool(n) ==
    /\ sock.pc = "pool" /\ IsNext(n)
    /\ \/ /\ node[n].network \/ node[n].by = "peer"
          /\ node' = [node EXCEPT ![n].refs = @ - 1]
          /\ leaked' = leaked
       \/ /\ ~node[n].network /\ node[n].by # "peer"
          /\ node' = node
          /\ leaked' = leaked \cup {n}
    /\ vNodesDisconnected' = vNodesDisconnected \cup {n}
    /\ sock' = Walk(sock.todo \ {n})
    /\ UNCHANGED <<nLastNodeId, vNodes, deleted, shared, cut, free, opener, handler>>

\* "Delete disconnected nodes": ~CNode releases a grant that came late.
SocketDelete ==
    /\ sock.pc = "delete"
    /\ LET gone == {n \in vNodesDisconnected : node[n].refs <= 0}
       IN  /\ vNodesDisconnected' = vNodesDisconnected \ gone
           /\ deleted' = deleted \cup gone
           /\ node' = [n \in Objects |-> IF n \in gone THEN Blank ELSE node[n]]
           /\ free' = free + Cardinality({n \in gone : node[n].grant})
           /\ cut' = cut \ gone
    /\ sock' = [sock EXCEPT !.pc = "accept"]
    /\ UNCHANGED <<nLastNodeId, vNodes, opener, handler, shared, leaked>>

\* "Accept new connections", one or none, if there are not too many.
SocketAccept ==
    /\ sock.pc = "accept"
    /\ \/ /\ Cardinality({n \in vNodes : node[n].by = "peer"}) < MaxInbound
          /\ nLastNodeId < MaxNodes
          /\ nLastNodeId' = nLastNodeId + 1
          /\ \E a \in Addrs :
                node' = [node EXCEPT ![nLastNodeId'] =
                            [Blank EXCEPT !.addr = a, !.refs = 1]]
          /\ vNodes' = vNodes \cup {nLastNodeId'}
       \/ UNCHANGED <<node, nLastNodeId, vNodes>>
    /\ sock' = [sock EXCEPT !.pc = "copy"]
    /\ UNCHANGED <<vNodesDisconnected, deleted, free, opener, handler, shared, leaked, cut>>

SocketCopy ==
    /\ sock.pc = "copy"
    /\ node' = Count(vNodes, 1)
    /\ sock' = [sock EXCEPT !.pc = "service", !.copy = vNodes]
    /\ UNCHANGED <<lists, free, opener, handler>>

\* "Service each socket": receive, send and inactivity checks give some nodes
\* up; nobody but this thread acts on that before it releases them all.
SocketService ==
    /\ sock.pc = "service"
    /\ \E lost \in SUBSET sock.copy :
        node' = [n \in Objects |-> [Count(sock.copy, -1)[n] EXCEPT
                                     !.disconnect = @ \/ n \in lost]]
    /\ sock' = [sock EXCEPT !.pc = "disconnect", !.copy = {}]
    /\ UNCHANGED <<lists, free, opener, handler>>

Socket == \/ SocketDisconnect
          \/ \E n \in Objects : SocketKeep(n) \/ SocketSever(n) \/ SocketPool(n)
          \/ SocketDelete \/ SocketAccept \/ SocketCopy \/ SocketService

-----------------------------------------------------------------------------
(* ThreadMessageHandler.                                                   *)

\* Mutated: the handler uses the nodes without references of its own.
HandlerCopyBare ==
    /\ handler.pc = "copy" /\ VNodesFree
    /\ handler' = [pc |-> "process", copy |-> vNodes]
    /\ UNCHANGED <<node, lists, free, opener, sock>>

HandlerCopy ==
    /\ handler.pc = "copy" /\ VNodesFree
    /\ node' = Count(vNodes, 1)
    /\ handler' = [pc |-> "process", copy |-> vNodes]
    /\ UNCHANGED <<lists, free, opener, sock>>

\* Messages of the nodes are handled; some of the nodes are given up.
HandlerProcess ==
    /\ handler.pc = "process"
    /\ \E lost \in SUBSET handler.copy :
        node' = [n \in Objects |-> [node[n] EXCEPT !.disconnect = @ \/ n \in lost]]
    /\ handler' = [handler EXCEPT !.pc = "release"]
    /\ UNCHANGED <<lists, free, opener, sock>>

\* Mutated: nodes that were given up meanwhile are skipped.
HandlerReleaseSome ==
    /\ handler.pc = "release" /\ VNodesFree
    /\ node' = Count({n \in handler.copy : ~node[n].disconnect}, -1)
    /\ handler' = [pc |-> "copy", copy |-> {}]
    /\ UNCHANGED <<lists, free, opener, sock>>

HandlerRelease ==
    /\ handler.pc = "release" /\ VNodesFree
    /\ node' = Count(handler.copy, -1)
    /\ handler' = [pc |-> "copy", copy |-> {}]
    /\ UNCHANGED <<lists, free, opener, sock>>

Handler == HandlerCopy \/ HandlerProcess \/ HandlerRelease

Open(o) ==
    \/ \E how \in Ways[o], a \in Addrs : Dial(o, how, a)
    \/ EnterConnectNode(o) \/ ReadRefCount(o) \/ WriteRefCount(o)
    \/ ConnectFails(o) \/ Connects(o)
    \/ MoveGrant(o) \/ SetNetworkNode(o) \/ SetOneShot(o)

Next == Socket \/ Handler \/ \E o \in Openers : Open(o)

NodesSpec == Init /\ [][Next]_vars

\* Both threads run for ever; connections need not be opened.  The handler gets
\* cs_vNodes, which is free while the socket thread waits in select.
FairNodes == NodesSpec /\ WF_sock(Socket) /\ SF_handler(Handler)
-----------------------------------------------------------------------------
(* Properties.  What FindNode returned to ConnectNode is used and counted  *)
(* after cs_vNodes was left (shared), and a node that loses its connection *)
(* before fNetworkNode is set keeps the reference of its maker (leaked).   *)
(* The properties say what holds for all other nodes.                      *)

\* The nodes whose pointers a thread will follow.
InUse == sock.copy \cup sock.todo \cup handler.copy
            \cup {opener[o].n : o \in {p \in Openers : opener[p].n # 0}}

\* What is left to do for a one-shot whose node the others already know to be
\* a network node, and may delete.
Late == {opener[o].n : o \in {p \in Openers : opener[p].pc = "oneshot"}}

\* "wait until threads are done using it" (net.cpp:841): no thread follows a
\* pointer to a deleted node, but to set fOneShot.
NoUseAfterDelete == InUse \cap deleted \subseteq shared \cup Late

\* "release outbound grant (if any)" (net.cpp:822): the slot of a peer that is
\* gone is free for another, unless the grant came after that line; it is then
\* free when the node is deleted.
SlotsBelongToPeers ==
    \A n \in Objects : node[n].grant => n \in vNodes \cup cut \cup shared

\* "if successful, this moves the passed grant to the constructed node"
\* (net.cpp:1468): however connections fail, meet and end, a slot is free, with
\* one thread or with one node, unless a grant was moved to a freed object.
GrantsAddUp ==
    LET inHand(o) == /\ opener[o].pc \notin {"idle", "network", "oneshot"}
                     /\ opener[o].how # "onetry"
        slots == free + Cardinality({o \in Openers : inHand(o)})
                      + Cardinality({n \in Objects : node[n].grant})
    IN  /\ NodesTypeOK
        /\ slots <= MaxOutbound
        /\ shared \cap deleted = {} => slots = MaxOutbound

\* "or it's possible to connect to the same peer twice" (net.cpp:414): no two
\* connections to one address, but for those made by name.
NoTwins ==
    \A n, m \in vNodes :
        /\ node[n].addr = node[m].addr
        /\ node[n].by = "address" /\ node[m].by = "address"
        => n = m

\* "hold in disconnected pool until all refs are released" (net.cpp:829): but
\* no longer; the memory of a disconnected node is freed.
DisconnectedAreDeleted ==
    \A n \in Objects :
        n \in vNodesDisconnected ~> n \in deleted \cup leaked \cup shared

\* The same for the slots, without exception: a node that left vNodes has none.
SlotsReturn == \A n \in vNodesDisconnected : ~node[n].grant

\* NoUseAfterDelete for one-shots too.
OneShotsAreAlive == InUse \cap deleted \subseteq shared
=============================================================================
