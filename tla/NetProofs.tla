----------------------------- MODULE NetProofs ------------------------------
(***************************************************************************)
(* Proofs about NodeLifecycle and AddrMan, the connections of a node and   *)
(* the addresses it takes them from.                                       *)
(*                                                                         *)
(* NodeLifecycle: no thread follows a pointer to a deleted node, no node   *)
(* that is gone holds a slot, and no address is connected twice, but for   *)
(* the nodes that ConnectNode has found and what else the properties name; *)
(* no slot is lost or counted twice.                                       *)
(*                                                                         *)
(* AddrMan: every index of the address manager leads to the entry that     *)
(* leads back to it, tried entries are not forgotten, and an orderly       *)
(* restart keeps the tables.                                               *)
(***************************************************************************)
EXTENDS NodeLifecycle, AddrMan, TLAPS, FiniteSetTheorems, SequenceTheorems, WellFoundedInduction

-----------------------------------------------------------------------------
(* Connections.                                                            *)

Made == 1..nLastNodeId

(* The types that the other parts need.                                    *)
FieldsOK ==
    /\ node \in [Objects -> Node] /\ nLastNodeId \in 0..MaxNodes
    /\ opener \in [Openers -> Opener]
    /\ sock \in [pc : {"disconnect", "loop", "pool", "delete", "accept", "copy", "service"},
                 copy : SUBSET Objects, todo : SUBSET Objects]
    /\ handler \in [pc : {"copy", "process", "release"}, copy : SUBSET Objects]

(* A node that was made is in vNodes, then among the disconnected, then    *)
(* deleted, and in the hands of the loop in between; a thread has no       *)
(* copies but between SocketCopy or HandlerCopy and the release.           *)
ListsOK ==
    /\ vNodes \subseteq Made /\ vNodesDisconnected \subseteq Made /\ deleted \subseteq Made
    /\ vNodes \cap vNodesDisconnected = {} /\ vNodes \cap deleted = {}
    /\ vNodesDisconnected \cap deleted = {}
    /\ leaked \subseteq vNodesDisconnected \cup deleted /\ cut \subseteq Made
    /\ sock.todo \subseteq Made /\ sock.todo \cap (vNodesDisconnected \cup deleted) = {}
    /\ \A n \in sock.todo : n \in vNodes <=> ~(sock.pc = "pool" /\ IsNext(n))
    /\ sock.pc \notin {"loop", "pool"} => sock.todo = {}
    /\ sock.copy \subseteq Made /\ handler.copy \subseteq Made
    /\ sock.pc # "service" => sock.copy = {}
    /\ handler.pc = "copy" => handler.copy = {}

(* The references of a node: one for the copy of each thread, and one for  *)
(* its maker, which goes when the loop is done with it unless it leaks.    *)
Refs(n) == (IF n \in sock.copy THEN 1 ELSE 0) + (IF n \in handler.copy THEN 1 ELSE 0)
           + (IF n \in vNodes \cup sock.todo \cup leaked THEN 1 ELSE 0)

CountsOK == \A n \in Objects \ shared :
    /\ n \notin deleted => node[n].refs = Refs(n)
    /\ n \in deleted => n \notin sock.copy \cup handler.copy \cup leaked

(* What an opening thread holds is a node that ConnectNode has found, or   *)
(* one that it has just made, which nobody else has, and which does not    *)
(* give up its maker's reference before fNetworkNode is set.               *)
Fresh(n) ==
    n \in vNodes \cup sock.todo \cup leaked /\ ~node[n].network /\ node[n].by # "peer"

HandsOK == \A o \in Openers :
    /\ opener[o].pc \in {"idle", "wait", "socket"} => opener[o].n = 0
    /\ opener[o].pc \notin {"idle", "wait", "socket"} => opener[o].n \in Made
    /\ opener[o].pc \in {"found", "addref"} => opener[o].n \in shared
    /\ opener[o].n \in Made \ shared =>
          /\ opener[o].pc # "oneshot" => Fresh(opener[o].n)
          /\ opener[o].pc = "grant" => opener[o].n \in vNodes \cup cut
          /\ \A p \in Openers : opener[p].n = opener[o].n => p = o

(* cs_connectNode: one thread at a time is inside, and while it opens a    *)
(* socket to an address nobody else connects there.                        *)
ConnectOK ==
    /\ \A o, p \in Openers : InConnectNode(o) /\ InConnectNode(p) => o = p
    /\ \A o \in Openers : opener[o].pc = "socket" /\ opener[o].how = "address"
          => OpenedTo(opener[o].addr) = {}

NodesInv == FieldsOK /\ ListsOK /\ CountsOK /\ HandsOK /\ SlotsBelongToPeers /\ ConnectOK /\ NoTwins

-----------------------------------------------------------------------------
(* At start nothing is made and nobody holds anything.                     *)
LEMMA InitHolds == Init => NodesInv
<1> SUFFICES ASSUME Init
             PROVE  NodesInv
  OBVIOUS
<1>1. FieldsOK
  BY NodesAssumption DEF Init, FieldsOK, Node, Opener, Blank, Idle, NodesAssumption
<1>2. ListsOK /\ CountsOK
  BY DEF Init, ListsOK, CountsOK, Refs, Made, Blank
<1>3. HandsOK /\ ConnectOK
  BY NodesAssumption DEF Init, HandsOK, Fresh, ConnectOK, InConnectNode, Idle, Made, NodesAssumption
<1>4. SlotsBelongToPeers /\ NoTwins
  BY DEF Init, SlotsBelongToPeers, NoTwins, Blank
<1> QED
  BY <1>1, <1>2, <1>3, <1>4 DEF NodesInv

LEMMA MadeAreObjects == FieldsOK => Made \subseteq Objects /\ MaxNodes \in Nat
BY NodesAssumption DEF FieldsOK, Made, Objects, NodesAssumption

LEMMA IdleIsOpener == Idle \in Opener /\ Idle.n = 0
BY NodesAssumption DEF Idle, Opener, NodesAssumption

(* Locals of an opening thread after an assignment.                        *)
LEMMA OpenerCounted ==
    ASSUME NEW r \in Opener, NEW k \in Int
    PROVE  [r EXCEPT !.pc = "grant", !.refs = k] \in Opener
BY DEF Opener

LEMMA OpenerHolds ==
    ASSUME NEW r \in Opener, NEW pc \in {"found", "grant"}, NEW n \in Objects
    PROVE  [r EXCEPT !.pc = pc, !.n = n] \in Opener
<1>1. n \in 0..MaxNodes
  BY NodesAssumption DEF Objects, NodesAssumption
<1> QED
  BY <1>1 DEF Opener

LEMMA BlankIsNode == Blank \in Node /\ ~Blank.network /\ ~Blank.grant
BY DEF Blank, Node

(* A step of one opening thread that leaves nodes and lists as they are.   *)
LEMMA ThreadMoves ==
    ASSUME NodesInv, NEW o \in Openers, NEW new \in Opener,
           opener' = [opener EXCEPT ![o] = new],
           UNCHANGED <<node, lists, sock, handler>>,
           new.pc \in {"idle", "wait"}, new.n = 0
    PROVE  NodesInv'
<1>1. opener' \in [Openers -> Opener] /\ opener'[o] = new
      /\ \A p \in Openers \ {o} : opener'[p] = opener[p]
  BY DEF NodesInv, FieldsOK
<1>2. FieldsOK' /\ ListsOK' /\ CountsOK' /\ SlotsBelongToPeers' /\ NoTwins'
  BY <1>1 DEF NodesInv, FieldsOK, ListsOK, IsNext, CountsOK, Refs, Made, SlotsBelongToPeers, NoTwins, lists
<1>3. HandsOK'
  BY <1>1 DEF NodesInv, HandsOK, Fresh, Made, lists
<1>4. ConnectOK'
  BY <1>1 DEF NodesInv, ConnectOK, InConnectNode, OpenedTo, lists
<1> QED
  BY <1>2, <1>3, <1>4 DEF NodesInv

(* Addresses and makers of the peers decide ConnectOK and NoTwins.         *)
LEMMA PeersDecide ==
    ASSUME NodesInv, vNodes' \subseteq vNodes,
           \A n \in vNodes' : node'[n].addr = node[n].addr /\ node'[n].by = node[n].by
    PROVE  /\ NoTwins'
           /\ UNCHANGED opener => ConnectOK'
<1>1. NoTwins'
  BY DEF NodesInv, NoTwins
<1>2. ASSUME UNCHANGED opener
      PROVE  ConnectOK'
  BY <1>2 DEF NodesInv, ConnectOK, InConnectNode, OpenedTo
<1> QED
  BY <1>1, <1>2

-----------------------------------------------------------------------------
(* The threads that open connections.                                      *)

LEMMA DialKeeps ==
    ASSUME NodesInv, NEW o \in Openers, NEW how \in Ways[o], NEW a \in Addrs, Dial(o, how, a)
    PROVE  NodesInv'
<1>1. how \in {"address", "name", "oneshot", "onetry"}
  BY NodesAssumption DEF NodesAssumption
<1>2. [Idle EXCEPT !.pc = "wait", !.how = how, !.addr = a] \in Opener
  BY <1>1, IdleIsOpener DEF Opener
<1> QED
  BY <1>2, ThreadMoves DEF Dial, Idle

LEMMA ConnectFailsKeeps ==
    ASSUME NodesInv, NEW o \in Openers, ConnectFails(o)
    PROVE  NodesInv'
BY IdleIsOpener, ThreadMoves DEF ConnectFails, Idle

(* Only one thread is inside; it goes on to the socket only if the address *)
(* is not connected, and what it finds is shared.                          *)
LEMMA EnterKeeps ==
    ASSUME NodesInv, NEW o \in Openers, EnterConnectNode(o)
    PROVE  NodesInv'
<1>1. /\ opener[o].pc = "wait" /\ \A p \in Openers : ~InConnectNode(p)
      /\ UNCHANGED <<node, nLastNodeId, vNodes, vNodesDisconnected, deleted, leaked, cut, sock,
                     handler>>
  BY DEF EnterConnectNode
<1>2. CASE /\ opener[o].how = "address" => OpenedTo(opener[o].addr) = {}
           /\ opener' = [opener EXCEPT ![o].pc = "socket"] /\ shared' = shared
  <2>1. /\ opener' \in [Openers -> Opener]
        /\ opener'[o] = [opener[o] EXCEPT !.pc = "socket"]
        /\ \A p \in Openers \ {o} : opener'[p] = opener[p]
    BY <1>2 DEF NodesInv, FieldsOK, Opener
  <2>2. FieldsOK' /\ ListsOK' /\ CountsOK' /\ SlotsBelongToPeers' /\ NoTwins'
    BY <1>1, <1>2, <2>1 DEF NodesInv, FieldsOK, ListsOK, IsNext, CountsOK, Refs, Made, SlotsBelongToPeers, NoTwins
  <2>3. opener'[o].n = 0 /\ opener'[o].pc = "socket" /\ opener'[o].how = opener[o].how
        /\ opener'[o].addr = opener[o].addr
    BY <1>1, <2>1 DEF NodesInv, FieldsOK, HandsOK, Opener
  <2>4. HandsOK'
    BY <1>1, <1>2, <2>1, <2>3 DEF NodesInv, HandsOK, Fresh, Made
  <2>5. ConnectOK'
    <3>1. \A p \in Openers : InConnectNode(p)' => p = o
      BY <1>1, <2>1 DEF InConnectNode
    <3> QED
      BY <1>1, <1>2, <2>1, <2>3, <3>1 DEF ConnectOK, InConnectNode, OpenedTo
  <2> QED
    BY <2>2, <2>4, <2>5 DEF NodesInv
<1>3. ASSUME NEW n \in KnownService(opener[o].addr),
             opener' = [opener EXCEPT ![o] = [Idle EXCEPT !.pc = "found", !.n = n]],
             shared' = shared \cup {n}
      PROVE  NodesInv'
  <2>1. n \in vNodes /\ n \in Made /\ n \in Objects
    BY MadeAreObjects DEF KnownService, NodesInv, ListsOK
  <2>2. /\ opener' \in [Openers -> Opener]
        /\ opener'[o].pc = "found" /\ opener'[o].n = n
        /\ \A p \in Openers \ {o} : opener'[p] = opener[p]
    <3>1. [Idle EXCEPT !.pc = "found", !.n = n] \in Opener
      BY <2>1, IdleIsOpener, OpenerHolds
    <3>2. opener'[o] = [Idle EXCEPT !.pc = "found", !.n = n]
      BY <1>3 DEF NodesInv, FieldsOK
    <3>3. opener'[o].pc = "found" /\ opener'[o].n = n
      BY <3>2 DEF Idle
    <3> QED
      BY <1>3, <3>1, <3>3 DEF NodesInv, FieldsOK
  <2>3. FieldsOK' /\ ListsOK' /\ CountsOK' /\ SlotsBelongToPeers' /\ NoTwins'
    BY <1>1, <1>3, <2>2 DEF NodesInv, FieldsOK, ListsOK, IsNext, CountsOK, Refs, Made, SlotsBelongToPeers, NoTwins
  <2>4. HandsOK'
    BY <1>1, <1>3, <2>1, <2>2 DEF NodesInv, HandsOK, Fresh, Made
  <2>5. ConnectOK'
    BY <1>1, <2>2 DEF NodesInv, ConnectOK, InConnectNode, OpenedTo
  <2> QED
    BY <2>3, <2>4, <2>5 DEF NodesInv
<1> QED
  BY <1>2, <1>3 DEF EnterConnectNode

(* The unlocked increment changes nodes that were found, and no others.    *)
LEMMA ReadKeeps ==
    ASSUME NodesInv, NEW o \in Openers, ReadRefCount(o)
    PROVE  NodesInv'
<1> DEFINE n == opener[o].n
<1>1. /\ opener[o].pc = "found" /\ UNCHANGED <<node, lists, sock, handler>>
      /\ opener' = [opener EXCEPT ![o].pc = "addref", ![o].refs = node[n].refs]
  BY DEF ReadRefCount
<1>2. n \in Made /\ n \in shared /\ n \in Objects /\ opener[o] \in Opener
  BY <1>1, MadeAreObjects DEF NodesInv, HandsOK, Fresh, FieldsOK
<1>3. node[n].refs \in Int
  BY <1>2 DEF NodesInv, FieldsOK, Node
<1>4. /\ opener' \in [Openers -> Opener]
      /\ opener'[o].pc = "addref" /\ opener'[o].n = n
      /\ \A p \in Openers \ {o} : opener'[p] = opener[p]
  BY <1>1, <1>2, <1>3 DEF NodesInv, FieldsOK, Opener
<1>5. FieldsOK' /\ ListsOK' /\ CountsOK' /\ SlotsBelongToPeers' /\ NoTwins'
  BY <1>1, <1>4 DEF NodesInv, FieldsOK, ListsOK, IsNext, CountsOK, Refs, Made, SlotsBelongToPeers, NoTwins, lists
<1>6. HandsOK'
  BY <1>1, <1>2, <1>4 DEF NodesInv, HandsOK, Fresh, Made, lists
<1>7. ConnectOK'
  BY <1>1, <1>4 DEF NodesInv, ConnectOK, InConnectNode, OpenedTo, lists
<1> QED
  BY <1>5, <1>6, <1>7 DEF NodesInv

LEMMA WriteKeeps ==
    ASSUME NodesInv, NEW o \in Openers, WriteRefCount(o)
    PROVE  NodesInv'
<1> DEFINE n == opener[o].n
<1>1. /\ opener[o].pc = "addref" /\ UNCHANGED <<lists, sock, handler>>
      /\ node' = Store(n, [node[n] EXCEPT !.refs = opener[o].refs + 1])
      /\ opener' = [opener EXCEPT ![o].pc = "grant", ![o].refs = 0]
  BY DEF WriteRefCount
<1>2. n \in Made /\ n \in shared /\ n \in Objects /\ opener[o] \in Opener /\ node[n] \in Node
  BY <1>1, MadeAreObjects DEF NodesInv, HandsOK, Fresh, FieldsOK
<1>3. /\ opener' \in [Openers -> Opener]
      /\ opener'[o].pc = "grant" /\ opener'[o].n = n
      /\ \A p \in Openers \ {o} : opener'[p] = opener[p]
  <2>1. [opener[o] EXCEPT !.pc = "grant", !.refs = 0] \in Opener
    <3>1. PICK k \in Int : k = 0
      OBVIOUS
    <3>2. [opener[o] EXCEPT !.pc = "grant", !.refs = k] \in Opener
      BY <1>2, OpenerCounted
    <3> QED
      BY <3>1, <3>2
  <2>2. opener' = [opener EXCEPT ![o] = [opener[o] EXCEPT !.pc = "grant", !.refs = 0]]
    BY <1>1 DEF NodesInv, FieldsOK
  <2>3. opener'[o] = [opener[o] EXCEPT !.pc = "grant", !.refs = 0]
    BY <2>2 DEF NodesInv, FieldsOK
  <2> QED
    BY <1>2, <2>1, <2>2, <2>3 DEF NodesInv, FieldsOK, Opener
<1>4. /\ node' \in [Objects -> Node] /\ \A m \in Objects \ {n} : node'[m] = node[m]
      /\ node'[n].addr = node[n].addr /\ node'[n].by = node[n].by
  <2>1. PICK k \in Int : k = opener[o].refs + 1
    BY <1>2 DEF Opener
  <2>2. [node[n] EXCEPT !.refs = k] \in Node /\ [node[n] EXCEPT !.refs = k].addr = node[n].addr
        /\ [node[n] EXCEPT !.refs = k].by = node[n].by
    BY <1>2 DEF Node
  <2>3. node' = Store(n, [node[n] EXCEPT !.refs = k])
    BY <1>1, <2>1
  <2> QED
    BY <1>2, <2>2, <2>3 DEF NodesInv, FieldsOK, Store
<1>5. FieldsOK' /\ ListsOK' /\ CountsOK' /\ SlotsBelongToPeers'
  BY <1>1, <1>2, <1>3, <1>4 DEF NodesInv, FieldsOK, ListsOK, IsNext, CountsOK, Refs, Made, SlotsBelongToPeers, lists
<1>6. HandsOK'
  <2>1. ASSUME NEW p \in Openers, p # o, opener[p].n \in Made \ shared
        PROVE  opener[p].n # n /\ node'[opener[p].n] = node[opener[p].n]
    BY <1>2, <1>4, <2>1, MadeAreObjects DEF NodesInv
  <2> QED
    BY <1>1, <1>2, <1>3, <2>1 DEF NodesInv, HandsOK, Fresh, Made, lists
<1>7. \A m \in vNodes : node'[m].addr = node[m].addr /\ node'[m].by = node[m].by
  BY <1>4, MadeAreObjects DEF NodesInv, ListsOK
<1>8. ConnectOK'
  BY <1>1, <1>3, <1>7 DEF NodesInv, ConnectOK, InConnectNode, OpenedTo, lists
<1> QED
  BY <1>1, <1>5, <1>6, <1>7, <1>8, PeersDecide DEF NodesInv, lists

(* A new node is in no list, and nobody else connects to its address.      *)
LEMMA ConnectsKeeps ==
    ASSUME NodesInv, NEW o \in Openers, Connects(o)
    PROVE  NodesInv'
<1> DEFINE n == nLastNodeId + 1
           once == opener[o].how = "onetry"
<1>1. PICK dead \in BOOLEAN, b \in Addrs \cup {None} :
         /\ opener[o].how = "address" => b = opener[o].addr
         /\ node' = [node EXCEPT ![n] = [Blank EXCEPT !.addr = b, !.by = opener[o].how,
                                                      !.disconnect = dead, !.refs = 1]]
  <2>1. opener[o].addr \in Addrs \cup {None} /\ Resolved \subseteq Addrs \cup {None}
    BY NodesAssumption DEF NodesInv, FieldsOK, Opener, NodesAssumption
  <2> QED
    BY <2>1 DEF Connects
<1>2. /\ opener[o].pc = "socket" /\ nLastNodeId < MaxNodes /\ nLastNodeId' = n
      /\ vNodes' = vNodes \cup {n}
      /\ opener' = [opener EXCEPT ![o] =
                      IF once THEN Idle
                      ELSE [Idle EXCEPT !.pc = "grant", !.how = opener[o].how, !.n = n]]
      /\ UNCHANGED <<vNodesDisconnected, deleted, shared, leaked, cut, sock, handler>>
  BY DEF Connects
<1>3. /\ n \in Objects /\ n \notin Made /\ Made' = Made \cup {n} /\ Made \subseteq Objects
      /\ nLastNodeId' \in 0..MaxNodes /\ n # 0
  BY <1>2, MadeAreObjects DEF NodesInv, FieldsOK, Made, Objects
<1>4. /\ node' \in [Objects -> Node] /\ \A m \in Objects \ {n} : node'[m] = node[m]
      /\ node'[n].addr = b /\ node'[n].by = opener[o].how /\ ~node'[n].network
      /\ ~node'[n].grant /\ node'[n].refs = 1
  <2>1. opener[o].how \in {"address", "name", "oneshot", "onetry"}
    BY DEF NodesInv, FieldsOK, Opener
  <2> DEFINE new == [Blank EXCEPT !.addr = b, !.by = opener[o].how,
                                  !.disconnect = dead, !.refs = 1]
  <2>2. /\ new \in Node /\ new.addr = b /\ new.by = opener[o].how
        /\ ~new.network /\ ~new.grant /\ new.refs = 1
    <3>1. PICK k \in Int : k = 1
      OBVIOUS
    <3>2. PICK r \in Node, a \in Addrs \cup {None}, how \in {"address", "name", "oneshot", "onetry", "peer"} :
             r = Blank /\ a = b /\ how = opener[o].how
      BY <2>1, BlankIsNode
    <3> DEFINE counted == [r EXCEPT !.addr = a, !.by = how, !.disconnect = dead, !.refs = k]
    <3>3. /\ counted \in Node /\ counted.addr = a /\ counted.by = how
          /\ counted.network = r.network /\ counted.grant = r.grant /\ counted.refs = k
      BY <3>1, <3>2 DEF Node
    <3>4. counted = new
      BY <3>1, <3>2
    <3> HIDE DEF counted, new
    <3> QED
      BY <3>1, <3>2, <3>3, <3>4, BlankIsNode
  <2>3. node' = [node EXCEPT ![n] = new]
    BY <1>1
  <2> HIDE DEF new
  <2> QED
    BY <1>3, <2>2, <2>3 DEF NodesInv, FieldsOK
<1>5. /\ opener' \in [Openers -> Opener]
      /\ IF once THEN opener'[o] = Idle ELSE opener'[o].pc = "grant" /\ opener'[o].n = n
      /\ \A p \in Openers \ {o} : opener'[p] = opener[p]
  <2> DEFINE new == [Idle EXCEPT !.pc = "grant", !.how = opener[o].how, !.n = n]
  <2>1. new \in Opener
    <3>1. n \in 0..MaxNodes /\ opener[o] \in Opener
      BY <1>3, NodesAssumption DEF Objects, NodesAssumption, NodesInv, FieldsOK
    <3> QED
      BY <3>1, IdleIsOpener DEF Idle, Opener
  <2>2. new.pc = "grant" /\ new.n = n
    BY DEF Idle
  <2> HIDE DEF new
  <2>3. opener' = [opener EXCEPT ![o] = IF once THEN Idle ELSE new]
    BY <1>2 DEF new
  <2> QED
    BY <2>1, <2>2, <2>3, IdleIsOpener DEF NodesInv, FieldsOK
<1>6. FieldsOK' /\ ListsOK'
  BY <1>2, <1>3, <1>4, <1>5 DEF NodesInv, FieldsOK, ListsOK, IsNext
<1>7. CountsOK'
  <2>1. n \notin sock.copy \cup handler.copy \cup leaked \cup deleted \cup vNodes
    BY <1>3 DEF NodesInv, ListsOK
  <2> QED
    BY <1>2, <1>3, <1>4, <2>1 DEF NodesInv, CountsOK, Refs
<1>8. HandsOK'
  <2>1. ASSUME NEW p \in Openers, p # o
        PROVE  opener'[p] = opener[p] /\ opener[p].n # n
               /\ (opener[p].n \in Made => node'[opener[p].n] = node[opener[p].n])
    <3>1. opener[p].n \in Made \/ opener[p].n = 0
      BY DEF NodesInv, HandsOK, Fresh
    <3> QED
      BY <1>3, <1>4, <1>5, <2>1, <3>1
  <2>2. 0 \notin Made
    BY DEF Made
  <2>3. opener[o].how # "peer"
    BY DEF NodesInv, FieldsOK, Opener
  <2> QED
    BY <1>2, <1>3, <1>4, <1>5, <2>1, <2>2, <2>3 DEF NodesInv, HandsOK, Fresh, Idle
<1>9. SlotsBelongToPeers'
  BY <1>2, <1>4 DEF NodesInv, SlotsBelongToPeers
<1>10. \A m \in vNodes : m # n /\ node'[m] = node[m]
  BY <1>3, <1>4 DEF NodesInv, ListsOK
<1>11. ConnectOK'
  <2>1. \A p \in Openers : InConnectNode(p)' => FALSE
    BY <1>2, <1>5 DEF NodesInv, ConnectOK, InConnectNode, Idle
  <2> QED
    BY <2>1 DEF ConnectOK, InConnectNode
<1>12. NoTwins'
  <2>1. ASSUME opener[o].how = "address", NEW m \in vNodes, node[m].addr = opener[o].addr
        PROVE  node[m].by # "address"
    BY <1>2, <2>1 DEF NodesInv, ConnectOK, OpenedTo
  <2> QED
    BY <1>1, <1>2, <1>4, <1>10, <2>1 DEF NodesInv, NoTwins
<1> QED
  BY <1>6, <1>7, <1>8, <1>9, <1>11, <1>12 DEF NodesInv

(* A change to the node that a thread holds, which keeps address and maker *)
(* and does not touch the count of one that was not found.                 *)
LEMMA HolderMoves ==
    ASSUME NodesInv, NEW o \in Openers, opener[o].n \in Made,
           opener[o].pc \in {"grant", "network"}, NEW new \in Opener,
           NEW fields \in Node, node' = Store(opener[o].n, fields),
           fields.addr = node[opener[o].n].addr, fields.by = node[opener[o].n].by,
           fields.refs = node[opener[o].n].refs,
           fields.grant => opener[o].n \in vNodes \cup cut \cup shared,
           opener' = [opener EXCEPT ![o] = new],
           \/ new = Idle
           \/ new.pc = "oneshot" /\ new.n = opener[o].n
           \/ new.pc = "network" /\ new.n = opener[o].n /\ fields.network = node[opener[o].n].network,
           UNCHANGED <<lists, sock, handler>>
    PROVE  NodesInv'
<1> DEFINE n == opener[o].n
<1>1. /\ opener' \in [Openers -> Opener] /\ opener'[o] = new
      /\ \A p \in Openers \ {o} : opener'[p] = opener[p]
  BY DEF NodesInv, FieldsOK
<1>2. n \in Objects /\ node[n] \in Node
  BY MadeAreObjects DEF NodesInv, FieldsOK
<1>3. /\ node' \in [Objects -> Node] /\ \A m \in Objects \ {n} : node'[m] = node[m]
      /\ node'[n] = fields \/ node'[n] = node[n]
      /\ node'[n].network => fields.network \/ node[n].network
  BY <1>2 DEF NodesInv, FieldsOK, Store
<1>4. FieldsOK' /\ ListsOK'
  BY <1>1, <1>3 DEF NodesInv, FieldsOK, ListsOK, IsNext, Made, lists
<1>5. CountsOK' /\ SlotsBelongToPeers'
  BY <1>3 DEF NodesInv, CountsOK, Refs, SlotsBelongToPeers, lists
<1>6. HandsOK'
  <2>1. ASSUME NEW p \in Openers, p # o, opener[p].n \in Made \ shared
        PROVE  opener[p].n # n /\ node'[opener[p].n] = node[opener[p].n]
    BY <1>3, <2>1, MadeAreObjects DEF NodesInv, HandsOK, Fresh
  <2>2. CASE new = Idle
    BY <1>1, <2>1, <2>2 DEF NodesInv, HandsOK, Fresh, Made, Idle, lists
  <2>3. CASE new.pc = "network" /\ new.n = n /\ fields.network = node[n].network
    BY <1>1, <1>3, <2>1, <2>3 DEF NodesInv, HandsOK, Fresh, Made, lists
  <2>4. CASE new.pc = "oneshot" /\ new.n = n
    BY <1>1, <2>1, <2>4 DEF NodesInv, HandsOK, Fresh, Made, lists
  <2> QED
    BY <2>2, <2>3, <2>4
<1>7. \A m \in vNodes : node'[m].addr = node[m].addr /\ node'[m].by = node[m].by
  BY <1>3, MadeAreObjects DEF NodesInv, ListsOK
<1>8. ConnectOK'
  BY <1>1, <1>7 DEF NodesInv, ConnectOK, InConnectNode, OpenedTo, lists, Idle
<1>9. NoTwins'
  BY <1>7, PeersDecide DEF lists
<1> QED
  BY <1>4, <1>5, <1>6, <1>8, <1>9 DEF NodesInv

LEMMA MoveGrantKeeps ==
    ASSUME NodesInv, NEW o \in Openers, MoveGrant(o)
    PROVE  NodesInv'
<1> DEFINE n == opener[o].n
           new == [opener[o] EXCEPT !.pc = "network"]
           fields == [node[n] EXCEPT !.grant = TRUE]
<1>1. opener[o].pc = "grant" /\ UNCHANGED <<lists, sock, handler>> /\ node' = Store(n, fields)
  BY DEF MoveGrant
<1>2. n \in Made /\ opener[o] \in Opener /\ node[n] \in Node /\ n \in vNodes \cup cut \cup shared
  BY <1>1, MadeAreObjects DEF NodesInv, HandsOK, Fresh, FieldsOK
<1>3. new \in Opener /\ new.pc = "network" /\ new.n = n
  BY <1>2 DEF Opener
<1>4. /\ fields \in Node /\ fields.addr = node[n].addr /\ fields.by = node[n].by
      /\ fields.refs = node[n].refs /\ fields.network = node[n].network
  BY <1>2 DEF Node
<1>5. opener' = [opener EXCEPT ![o] = new]
  BY DEF MoveGrant
<1> QED
  BY <1>1, <1>2, <1>3, <1>4, <1>5, HolderMoves

LEMMA SetNetworkKeeps ==
    ASSUME NodesInv, NEW o \in Openers, SetNetworkNode(o)
    PROVE  NodesInv'
<1> DEFINE n == opener[o].n
           fields == [node[n] EXCEPT !.network = TRUE]
           new == IF opener[o].how = "oneshot" THEN [opener[o] EXCEPT !.pc = "oneshot"] ELSE Idle
<1>1. /\ opener[o].pc = "network" /\ UNCHANGED <<lists, sock, handler>> /\ node' = Store(n, fields)
      /\ opener' = [opener EXCEPT ![o] = new]
  BY DEF SetNetworkNode
<1>2. n \in Made /\ node[n] \in Node /\ (node[n].grant => n \in vNodes \cup cut \cup shared)
  BY <1>1, MadeAreObjects DEF NodesInv, HandsOK, FieldsOK, SlotsBelongToPeers
<1>3. /\ fields \in Node /\ fields.addr = node[n].addr /\ fields.by = node[n].by
      /\ fields.refs = node[n].refs /\ fields.grant = node[n].grant
  BY <1>2 DEF Node
<1>4. new \in Opener /\ (new = Idle \/ (new.pc = "oneshot" /\ new.n = n))
  BY IdleIsOpener DEF NodesInv, FieldsOK, Opener
<1> HIDE DEF new, fields
<1> QED
  BY <1>1, <1>2, <1>3, <1>4, HolderMoves

(* What a one-shot has left to do changes no state that is modelled.       *)
LEMMA SetOneShotKeeps ==
    ASSUME NodesInv, NEW o \in Openers, SetOneShot(o)
    PROVE  NodesInv'
BY IdleIsOpener, ThreadMoves DEF SetOneShot, Idle

-----------------------------------------------------------------------------
(* The socket thread and the message handler.                              *)

(* What the opening threads hold is untouched by others as long as nodes   *)
(* without fNetworkNode, made by a connection, stay counted for.           *)
LEMMA ThreadsHold ==
    ASSUME NodesInv, UNCHANGED <<opener, shared>>, Made \subseteq Made', 0 \notin Made',
           \A n \in Made \ shared : Fresh(n) => Fresh(n)',
           \A o \in Openers :
              opener[o].pc = "grant" /\ opener[o].n \in vNodes \cup cut /\ Fresh(opener[o].n)
              => opener[o].n \in vNodes' \cup cut'
    PROVE  HandsOK'
<1>1. \A o \in Openers : opener[o].n \in Made \/ opener[o].n = 0
  BY DEF NodesInv, HandsOK
<1> HIDE DEF Fresh
<1> QED
  BY <1>1 DEF NodesInv, HandsOK

LEMMA ZeroIsNone == 0 \notin Made
BY DEF Made

(* Counts and flags say nothing of who is connected to whom.               *)
LEMMA CountersMove ==
    ASSUME NodesInv, UNCHANGED <<lists, opener>>, sock'.todo = sock.todo,
           \A n \in Objects : /\ node'[n].addr = node[n].addr /\ node'[n].by = node[n].by
                             /\ node'[n].network = node[n].network /\ node'[n].grant = node[n].grant
    PROVE  HandsOK' /\ SlotsBelongToPeers' /\ ConnectOK' /\ NoTwins'
<1>1. Made' = Made /\ UNCHANGED <<vNodes, leaked, shared, cut>>
  BY DEF Made, lists
<1>2. HandsOK'
  <2>1. \A n \in Made : Fresh(n) => Fresh(n)'
    BY <1>1, MadeAreObjects DEF NodesInv, Fresh
  <2> QED
    BY <1>1, <2>1, ThreadsHold, ZeroIsNone
<1>3. SlotsBelongToPeers'
  BY <1>1 DEF NodesInv, SlotsBelongToPeers
<1>4. ConnectOK' /\ NoTwins'
  BY <1>1, PeersDecide, MadeAreObjects DEF NodesInv, ListsOK
<1> QED
  BY <1>2, <1>3, <1>4

(* AddRef and Release of a set of nodes.                                   *)
LEMMA CountFacts ==
    ASSUME NodesInv, NEW ns, NEW k \in Int
    PROVE  /\ Count(ns, k) \in [Objects -> Node]
           /\ \A n \in Objects : LET new == Count(ns, k)[n] IN
                /\ new.addr = node[n].addr /\ new.by = node[n].by
                /\ new.network = node[n].network /\ new.grant = node[n].grant
                /\ new.disconnect = node[n].disconnect
                /\ new.refs = IF n \in ns THEN node[n].refs + k ELSE node[n].refs
<1>1. ASSUME NEW n \in Objects
      PROVE  /\ node[n] \in Node
             /\ Count(ns, k)[n] = IF n \in ns THEN [node[n] EXCEPT !.refs = node[n].refs + k] ELSE node[n]
  BY DEF Count, NodesInv, FieldsOK
<1>2. ASSUME NEW r \in Node
      PROVE  LET new == [r EXCEPT !.refs = r.refs + k] IN
                /\ new \in Node /\ new.addr = r.addr /\ new.by = r.by /\ new.network = r.network
                /\ new.grant = r.grant /\ new.disconnect = r.disconnect /\ new.refs = r.refs + k
  BY DEF Node
<1>3. ASSUME NEW n \in Objects
      PROVE  LET new == Count(ns, k)[n] IN
                /\ new \in Node /\ new.addr = node[n].addr /\ new.by = node[n].by
                /\ new.network = node[n].network /\ new.grant = node[n].grant
                /\ new.disconnect = node[n].disconnect
                /\ new.refs = IF n \in ns THEN node[n].refs + k ELSE node[n].refs
  BY <1>1, <1>2
<1> QED
  BY <1>3 DEF Count

(* Setting fDisconnect of some nodes.                                      *)
Flagged(f, lost) == [n \in Objects |-> [f[n] EXCEPT !.disconnect = @ \/ n \in lost]]

LEMMA FlagFacts ==
    ASSUME NEW f \in [Objects -> Node], NEW lost
    PROVE  /\ Flagged(f, lost) \in [Objects -> Node]
           /\ \A n \in Objects : LET new == Flagged(f, lost)[n] IN
                /\ new.addr = f[n].addr /\ new.by = f[n].by
                /\ new.network = f[n].network /\ new.grant = f[n].grant
                /\ new.refs = f[n].refs
<1>1. ASSUME NEW r \in Node, NEW d \in BOOLEAN
      PROVE  LET new == [r EXCEPT !.disconnect = d] IN
                /\ new \in Node /\ new.addr = r.addr /\ new.by = r.by /\ new.network = r.network
                /\ new.grant = r.grant /\ new.refs = r.refs
  BY DEF Node
<1>2. \A n \in Objects : f[n] \in Node /\ (f[n].disconnect \/ n \in lost) \in BOOLEAN
  BY DEF Node
<1>3. ASSUME NEW n \in Objects
      PROVE  LET new == Flagged(f, lost)[n] IN
                /\ new \in Node /\ new.addr = f[n].addr /\ new.by = f[n].by
                /\ new.network = f[n].network /\ new.grant = f[n].grant
                /\ new.refs = f[n].refs
  BY <1>1, <1>2 DEF Flagged
<1> QED
  BY <1>3 DEF Flagged

LEMMA SocketCopyKeeps ==
    ASSUME NodesInv, SocketCopy
    PROVE  NodesInv'
<1>1. /\ sock.pc = "copy" /\ sock.copy = {} /\ sock' = [sock EXCEPT !.pc = "service", !.copy = vNodes]
      /\ node' = Count(vNodes, 1) /\ UNCHANGED <<lists, opener, handler>>
  BY DEF SocketCopy, NodesInv, ListsOK
<1>2. /\ node' \in [Objects -> Node]
      /\ \A n \in Objects : /\ node'[n].addr = node[n].addr /\ node'[n].by = node[n].by
                            /\ node'[n].network = node[n].network /\ node'[n].grant = node[n].grant
                            /\ node'[n].refs = IF n \in vNodes THEN node[n].refs + 1 ELSE node[n].refs
  BY <1>1, CountFacts
<1>5. sock'.pc = "service" /\ sock'.copy = vNodes /\ sock'.todo = {} /\ sock.todo = {}
  BY <1>1 DEF NodesInv, FieldsOK, ListsOK
<1>3. FieldsOK' /\ ListsOK'
  BY <1>1, <1>2, <1>5, MadeAreObjects DEF NodesInv, FieldsOK, ListsOK, Made, lists
<1>4. CountsOK'
  BY <1>1, <1>2, <1>5 DEF NodesInv, CountsOK, ListsOK, Refs, lists
<1> QED
  BY <1>1, <1>2, <1>3, <1>4, <1>5, CountersMove DEF NodesInv

LEMMA HandlerCopyKeeps ==
    ASSUME NodesInv, HandlerCopy
    PROVE  NodesInv'
<1>1. /\ handler.pc = "copy" /\ handler.copy = {} /\ handler' = [pc |-> "process", copy |-> vNodes]
      /\ node' = Count(vNodes, 1) /\ UNCHANGED <<lists, opener, sock>>
  BY DEF HandlerCopy, NodesInv, ListsOK
<1>2. /\ node' \in [Objects -> Node]
      /\ \A n \in Objects : /\ node'[n].addr = node[n].addr /\ node'[n].by = node[n].by
                            /\ node'[n].network = node[n].network /\ node'[n].grant = node[n].grant
                            /\ node'[n].refs = IF n \in vNodes THEN node[n].refs + 1 ELSE node[n].refs
  BY <1>1, CountFacts
<1>3. FieldsOK' /\ ListsOK'
  BY <1>1, <1>2, MadeAreObjects DEF NodesInv, FieldsOK, ListsOK, IsNext, Made, lists
<1>4. CountsOK'
  BY <1>1, <1>2 DEF NodesInv, CountsOK, ListsOK, Refs, lists
<1> QED
  BY <1>1, <1>2, <1>3, <1>4, CountersMove DEF NodesInv

LEMMA HandlerProcessKeeps ==
    ASSUME NodesInv, HandlerProcess
    PROVE  NodesInv'
<1>1. /\ handler.pc = "process" /\ handler' = [handler EXCEPT !.pc = "release"]
      /\ UNCHANGED <<lists, opener, sock>>
  BY DEF HandlerProcess
<1>2. PICK lost : node' = Flagged(node, lost)
  BY DEF HandlerProcess, Flagged
<1>3. /\ node' \in [Objects -> Node]
      /\ \A n \in Objects : /\ node'[n].addr = node[n].addr /\ node'[n].by = node[n].by
                            /\ node'[n].network = node[n].network /\ node'[n].grant = node[n].grant
                            /\ node'[n].refs = node[n].refs
  BY <1>2, FlagFacts DEF NodesInv, FieldsOK
<1>4. handler'.copy = handler.copy /\ handler'.pc = "release"
  BY <1>1 DEF NodesInv, FieldsOK
<1>5. FieldsOK' /\ ListsOK'
  BY <1>1, <1>3, <1>4 DEF NodesInv, FieldsOK, ListsOK, IsNext, Made, lists
<1>6. CountsOK'
  BY <1>1, <1>3, <1>4 DEF NodesInv, CountsOK, Refs, lists
<1> QED
  BY <1>1, <1>3, <1>5, <1>6, CountersMove DEF NodesInv

LEMMA HandlerReleaseKeeps ==
    ASSUME NodesInv, HandlerRelease
    PROVE  NodesInv'
<1>1. /\ handler' = [pc |-> "copy", copy |-> {}] /\ node' = Count(handler.copy, -1)
      /\ UNCHANGED <<lists, opener, sock>>
  BY DEF HandlerRelease
<1>2. /\ node' \in [Objects -> Node]
      /\ \A n \in Objects : /\ node'[n].addr = node[n].addr /\ node'[n].by = node[n].by
                            /\ node'[n].network = node[n].network /\ node'[n].grant = node[n].grant
                            /\ node'[n].refs = IF n \in handler.copy THEN node[n].refs - 1
                                              ELSE node[n].refs
  <2>1. PICK k \in Int : k = -1
    OBVIOUS
  <2>2. node' = Count(handler.copy, k)
    BY <1>1, <2>1
  <2>3. \A n \in Objects : node[n].refs \in Int
    BY DEF NodesInv, FieldsOK, Node
  <2> QED
    BY <2>1, <2>2, <2>3, CountFacts
<1>3. FieldsOK' /\ ListsOK'
  BY <1>1, <1>2 DEF NodesInv, FieldsOK, ListsOK, IsNext, Made, lists
<1>4. CountsOK'
  BY <1>1, <1>2 DEF NodesInv, CountsOK, Refs, lists
<1> QED
  BY <1>1, <1>2, <1>3, <1>4, CountersMove DEF NodesInv

LEMMA SocketServiceKeeps ==
    ASSUME NodesInv, SocketService
    PROVE  NodesInv'
<1>1. /\ sock.pc = "service" /\ sock' = [sock EXCEPT !.pc = "disconnect", !.copy = {}]
      /\ UNCHANGED <<lists, opener, handler>>
  BY DEF SocketService
<1>6. sock'.pc = "disconnect" /\ sock'.copy = {} /\ sock'.todo = {} /\ sock.todo = {}
  BY <1>1 DEF NodesInv, FieldsOK, ListsOK
<1>2. PICK lost : node' = Flagged(Count(sock.copy, -1), lost)
  BY DEF SocketService, Flagged
<1>3. /\ node' \in [Objects -> Node]
      /\ \A n \in Objects : /\ node'[n].addr = node[n].addr /\ node'[n].by = node[n].by
                            /\ node'[n].network = node[n].network /\ node'[n].grant = node[n].grant
                            /\ node'[n].refs = IF n \in sock.copy THEN node[n].refs - 1
                                              ELSE node[n].refs
  <2>1. PICK k \in Int : k = -1
    OBVIOUS
  <2>2. PICK f : f = Count(sock.copy, k)
    OBVIOUS
  <2>3. node' = Flagged(f, lost)
    BY <1>2, <2>1, <2>2
  <2>4. /\ f \in [Objects -> Node]
        /\ \A n \in Objects : /\ f[n].addr = node[n].addr /\ f[n].by = node[n].by
                              /\ f[n].network = node[n].network /\ f[n].grant = node[n].grant
                              /\ f[n].refs = IF n \in sock.copy THEN node[n].refs + k ELSE node[n].refs
    BY <2>2, CountFacts
  <2>5. \A n \in Objects : node[n].refs \in Int
    BY DEF NodesInv, FieldsOK, Node
  <2>6. /\ node' \in [Objects -> Node]
        /\ \A n \in Objects : /\ node'[n].addr = f[n].addr /\ node'[n].by = f[n].by
                              /\ node'[n].network = f[n].network /\ node'[n].grant = f[n].grant
                              /\ node'[n].refs = f[n].refs
    BY <2>3, <2>4, FlagFacts
  <2> QED
    BY <2>1, <2>4, <2>5, <2>6
<1>4. FieldsOK' /\ ListsOK'
  BY <1>1, <1>3, <1>6 DEF NodesInv, FieldsOK, ListsOK, Made, lists
<1>5. CountsOK'
  BY <1>1, <1>3, <1>6 DEF NodesInv, CountsOK, Refs, lists
<1> QED
  BY <1>1, <1>3, <1>4, <1>5, <1>6, CountersMove DEF NodesInv

(* The loop that disconnects nodes.  Those that it has yet to walk are in  *)
(* vNodes, but for the one that has just left it.                          *)

LEMMA WalkFacts ==
    ASSUME NodesInv, NEW rest \in SUBSET Objects
    PROVE  /\ Walk(rest).pc = IF rest = {} THEN "delete" ELSE "loop"
           /\ Walk(rest).copy = sock.copy /\ Walk(rest).todo = rest
BY DEF NodesInv, FieldsOK, Walk

LEMMA SocketDisconnectKeeps ==
    ASSUME NodesInv, SocketDisconnect
    PROVE  NodesInv'
<1>1. /\ sock.pc = "disconnect" /\ sock' = Walk(vNodes)
      /\ UNCHANGED <<node, lists, opener, handler>>
  BY DEF SocketDisconnect
<1>2. vNodes \in SUBSET Objects
  BY MadeAreObjects DEF NodesInv, ListsOK
<1>3. /\ sock'.pc = (IF vNodes = {} THEN "delete" ELSE "loop")
      /\ sock'.copy = {} /\ sock.copy = {} /\ sock'.todo = vNodes /\ sock.todo = {}
  BY <1>1, <1>2, WalkFacts DEF NodesInv, ListsOK
<1>4. sock' \in [pc : {"disconnect", "loop", "pool", "delete", "accept", "copy", "service"},
                 copy : SUBSET Objects, todo : SUBSET Objects]
  BY <1>1, <1>2, <1>3 DEF NodesInv, FieldsOK, Walk
<1>5. FieldsOK' /\ ListsOK'
  BY <1>1, <1>3, <1>4 DEF NodesInv, FieldsOK, ListsOK, Made, lists
<1>6. CountsOK' /\ SlotsBelongToPeers'
  BY <1>1, <1>3 DEF NodesInv, CountsOK, Refs, SlotsBelongToPeers, lists
<1>7. HandsOK'
  BY <1>1, <1>3, ThreadsHold, ZeroIsNone DEF Fresh, Made, lists
<1> QED
  BY <1>1, <1>5, <1>6, <1>7, PeersDecide DEF NodesInv, lists

LEMMA SocketKeepKeeps ==
    ASSUME NodesInv, NEW n \in Objects, SocketKeep(n)
    PROVE  NodesInv'
<1> DEFINE rest == sock.todo \ {n}
<1>1. /\ sock.pc = "loop" /\ sock' = Walk(rest) /\ n \in sock.todo
      /\ UNCHANGED <<node, lists, opener, handler>>
  BY DEF SocketKeep, IsNext
<1>2. rest \in SUBSET Objects /\ n \in vNodes /\ rest \subseteq vNodes
  BY <1>1 DEF NodesInv, FieldsOK, ListsOK
<1>3. /\ sock'.pc = (IF rest = {} THEN "delete" ELSE "loop")
      /\ sock'.copy = sock.copy /\ sock.copy = {} /\ sock'.todo = rest
  BY <1>1, <1>2, WalkFacts DEF NodesInv, ListsOK
<1>4. sock' \in [pc : {"disconnect", "loop", "pool", "delete", "accept", "copy", "service"},
                 copy : SUBSET Objects, todo : SUBSET Objects]
  BY <1>1, <1>2, <1>3 DEF NodesInv, FieldsOK, Walk
<1>5. FieldsOK' /\ ListsOK'
  BY <1>1, <1>2, <1>3, <1>4 DEF NodesInv, FieldsOK, ListsOK, Made, lists
<1>6. CountsOK' /\ SlotsBelongToPeers'
  BY <1>1, <1>2, <1>3 DEF NodesInv, CountsOK, Refs, SlotsBelongToPeers, lists
<1>7. HandsOK'
  BY <1>1, <1>2, <1>3, ThreadsHold, ZeroIsNone DEF Fresh, Made, lists
<1> QED
  BY <1>1, <1>5, <1>6, <1>7, PeersDecide DEF NodesInv, lists

LEMMA OneIsNext ==
    ASSUME NodesInv, NEW n, NEW m, IsNext(n), IsNext(m)
    PROVE  n = m
<1>1. n \in Nat /\ m \in Nat /\ n <= m /\ m <= n
  BY NodesAssumption DEF NodesInv, FieldsOK, IsNext, Objects, NodesAssumption
<1> QED
  BY <1>1

(* A node that leaves vNodes gives its grant back; the grant of a thread   *)
(* that has yet to move it there will come late.                           *)
LEMMA SocketSeverKeeps ==
    ASSUME NodesInv, NEW n \in Objects, SocketSever(n)
    PROVE  NodesInv'
<1>1. /\ sock.pc = "loop" /\ IsNext(n) /\ n \in sock.todo
      /\ vNodes' = vNodes \ {n} /\ sock' = [sock EXCEPT !.pc = "pool"]
      /\ node' = [node EXCEPT ![n].grant = FALSE, ![n].disconnect = TRUE]
      /\ UNCHANGED <<nLastNodeId, vNodesDisconnected, deleted, shared, leaked, opener, handler>>
      /\ Made' = Made
  BY DEF SocketSever, IsNext, Made
<1>2. /\ cut \subseteq cut' /\ cut' \subseteq cut \cup {n}
      /\ \A o \in Openers : opener[o].pc = "grant" /\ opener[o].n = n => n \in cut'
  BY DEF SocketSever
<1>3. sock'.pc = "pool" /\ sock'.copy = sock.copy /\ sock'.todo = sock.todo
  BY <1>1 DEF NodesInv, FieldsOK
<1>4. /\ node' \in [Objects -> Node] /\ \A m \in Objects \ {n} : node'[m] = node[m]
      /\ node'[n].addr = node[n].addr /\ node'[n].by = node[n].by /\ ~node'[n].grant
      /\ node'[n].network = node[n].network /\ node'[n].refs = node[n].refs
  <2>1. node[n] \in Node /\ node'[n] = [node[n] EXCEPT !.grant = FALSE, !.disconnect = TRUE]
    BY <1>1 DEF NodesInv, FieldsOK
  <2>2. ASSUME NEW r \in Node
        PROVE  LET new == [r EXCEPT !.grant = FALSE, !.disconnect = TRUE]
               IN  /\ new \in Node /\ new.addr = r.addr /\ new.by = r.by /\ ~new.grant
                   /\ new.network = r.network /\ new.refs = r.refs
    BY DEF Node
  <2> QED
    BY <1>1, <2>1, <2>2 DEF NodesInv, FieldsOK
<1>5. FieldsOK'
  BY <1>1, <1>4 DEF NodesInv, FieldsOK
<1>6. ListsOK'
  <2>1. \A m \in sock.todo : IsNext(m)' <=> m = n
    BY <1>1, <1>3, OneIsNext DEF IsNext
  <2>2. \A m \in sock.todo : m \in vNodes
    BY <1>1 DEF NodesInv, ListsOK
  <2>3. \A m \in sock'.todo : m \in vNodes' <=> ~(sock'.pc = "pool" /\ IsNext(m)')
    BY <1>1, <1>3, <2>1, <2>2
  <2> QED
    BY <1>1, <1>2, <1>3, <2>3 DEF NodesInv, ListsOK
<1>7. CountsOK'
  BY <1>1, <1>3, <1>4 DEF NodesInv, CountsOK, Refs
<1>8. HandsOK'
  <2>1. \A m \in Made : Fresh(m) => Fresh(m)'
    BY <1>1, <1>3, <1>4, MadeAreObjects DEF NodesInv, Fresh
  <2>2. \A o \in Openers : opener[o].pc = "grant" /\ opener[o].n \in vNodes \cup cut
                           => opener[o].n \in vNodes' \cup cut'
    BY <1>1, <1>2
  <2> QED
    BY <1>1, <2>1, <2>2, ThreadsHold, ZeroIsNone
<1>9. SlotsBelongToPeers'
  BY <1>1, <1>2, <1>4 DEF NodesInv, SlotsBelongToPeers
<1>10. ConnectOK' /\ NoTwins'
  <2>1. vNodes' \subseteq vNodes /\ \A m \in vNodes' : node'[m] = node[m]
    BY <1>1, <1>4, MadeAreObjects DEF NodesInv, ListsOK
  <2> QED
    BY <1>1, <2>1, PeersDecide
<1> QED
  BY <1>5, <1>6, <1>7, <1>8, <1>9, <1>10 DEF NodesInv

(* The reference of its maker goes, if it is ours to release by now; if    *)
(* not it has leaked.                                                      *)
LEMMA SocketPoolKeeps ==
    ASSUME NodesInv, NEW n \in Objects, SocketPool(n)
    PROVE  NodesInv'
<1> DEFINE ours == node[n].network \/ node[n].by = "peer"
           rest == sock.todo \ {n}
<1>1. /\ sock.pc = "pool" /\ IsNext(n) /\ n \in sock.todo /\ sock' = Walk(rest)
      /\ vNodesDisconnected' = vNodesDisconnected \cup {n}
      /\ leaked' = IF ours THEN leaked ELSE leaked \cup {n}
      /\ UNCHANGED <<nLastNodeId, vNodes, deleted, shared, cut, opener, handler>>
      /\ Made' = Made
  BY DEF SocketPool, IsNext, Made
<1>2. n \notin vNodes /\ n \notin vNodesDisconnected \cup deleted \cup leaked /\ n \in Made
  BY <1>1 DEF NodesInv, ListsOK
<1>3. rest \in SUBSET Objects /\ rest \subseteq vNodes
  <2>1. \A m \in rest : ~IsNext(m)
    BY <1>1, OneIsNext
  <2> QED
    BY <2>1 DEF NodesInv, FieldsOK, ListsOK
<1>4. /\ sock'.pc = (IF rest = {} THEN "delete" ELSE "loop")
      /\ sock'.copy = sock.copy /\ sock.copy = {} /\ sock'.todo = rest
  BY <1>1, <1>3, WalkFacts DEF NodesInv, ListsOK
<1>5. sock' \in [pc : {"disconnect", "loop", "pool", "delete", "accept", "copy", "service"},
                 copy : SUBSET Objects, todo : SUBSET Objects]
  BY <1>1, <1>3, <1>4 DEF NodesInv, FieldsOK, Walk
<1>6. /\ node' \in [Objects -> Node] /\ \A m \in Objects \ {n} : node'[m] = node[m]
      /\ node'[n].addr = node[n].addr /\ node'[n].by = node[n].by
      /\ node'[n].grant = node[n].grant /\ node'[n].network = node[n].network
      /\ node'[n].refs = IF ours THEN node[n].refs - 1 ELSE node[n].refs
  <2>1. node \in [Objects -> Node] /\ node[n] \in Node
    BY DEF NodesInv, FieldsOK
  <2>2. ASSUME NEW r \in Node
        PROVE  LET new == [r EXCEPT !.refs = @ - 1]
               IN  /\ new \in Node /\ new.addr = r.addr /\ new.by = r.by
                   /\ new.grant = r.grant /\ new.network = r.network /\ new.refs = r.refs - 1
    BY DEF Node
  <2>3. CASE ours
    <3>1. node' = [node EXCEPT ![n].refs = @ - 1]
      BY <2>3 DEF SocketPool
    <3>2. node'[n] = [node[n] EXCEPT !.refs = @ - 1] /\ \A m \in Objects \ {n} : node'[m] = node[m]
      BY <2>1, <3>1
    <3> HIDE DEF ours
    <3> QED
      BY <2>1, <2>2, <2>3, <3>1, <3>2
  <2>4. CASE ~ours
    BY <2>1, <2>4 DEF SocketPool
  <2> QED
    BY <2>3, <2>4
<1> HIDE DEF ours, rest
<1>7. FieldsOK'
  BY <1>1, <1>5, <1>6 DEF NodesInv, FieldsOK
<1>8. ListsOK'
  BY <1>1, <1>2, <1>3, <1>4 DEF NodesInv, ListsOK, rest
<1>9. CountsOK'
  <2>1. ASSUME n \notin shared
        PROVE  node'[n].refs = Refs(n)' /\ n \notin deleted'
    <3> DEFINE held == IF n \in handler.copy THEN 1 ELSE 0
    <3>1. node[n].refs = held + 1
      BY <1>1, <1>2, <1>4, <2>1 DEF NodesInv, CountsOK, Refs
    <3>2. Refs(n)' = held + (IF ours THEN 0 ELSE 1)
      BY <1>1, <1>2, <1>4 DEF Refs, rest
    <3> QED
      BY <1>1, <1>2, <1>6, <3>1, <3>2
  <2>2. ASSUME NEW m \in Objects \ shared, m # n
        PROVE  /\ m \notin deleted' => node'[m].refs = Refs(m)'
               /\ m \in deleted' => m \notin sock'.copy \cup handler'.copy \cup leaked'
    BY <1>1, <1>4, <1>6, <2>2 DEF NodesInv, CountsOK, Refs, rest
  <2> QED
    BY <1>1, <2>1, <2>2 DEF CountsOK
<1>10. HandsOK'
  <2>1. ASSUME NEW m \in Made, Fresh(m)
        PROVE  Fresh(m)'
    <3>1. m = n => ~ours
      BY <2>1 DEF Fresh, ours
    <3>2. m \in vNodes' \cup sock'.todo \cup leaked'
      BY <1>1, <1>4, <2>1, <3>1 DEF Fresh, rest
    <3> QED
      BY <1>6, <2>1, <3>2, MadeAreObjects DEF NodesInv, Fresh
  <2> QED
    BY <1>1, <2>1, ThreadsHold, ZeroIsNone
<1>11. SlotsBelongToPeers'
  BY <1>1, <1>6 DEF NodesInv, SlotsBelongToPeers
<1>12. ConnectOK' /\ NoTwins'
  <2>1. \A m \in vNodes : node'[m] = node[m]
    BY <1>2, <1>6, MadeAreObjects DEF NodesInv, ListsOK
  <2> QED
    BY <1>1, <2>1, PeersDecide
<1> QED
  BY <1>7, <1>8, <1>9, <1>10, <1>11, <1>12 DEF NodesInv

(* Only a node without references is deleted, so nobody has a copy of it,  *)
(* it has not leaked, and no opening thread has just made it.              *)
LEMMA SocketDeleteKeeps ==
    ASSUME NodesInv, SocketDelete
    PROVE  NodesInv'
<1> DEFINE gone == {n \in vNodesDisconnected : node[n].refs <= 0}
<1>1. /\ vNodesDisconnected' = vNodesDisconnected \ gone /\ deleted' = deleted \cup gone
      /\ node' = [n \in Objects |-> IF n \in gone THEN Blank ELSE node[n]]
      /\ sock.pc = "delete" /\ sock' = [sock EXCEPT !.pc = "accept"]
      /\ cut' = cut \ gone
      /\ UNCHANGED <<nLastNodeId, vNodes, opener, handler, shared, leaked>>
  BY DEF SocketDelete
<1>2. sock'.pc = "accept" /\ sock'.copy = {} /\ sock.copy = {} /\ Made' = Made
      /\ sock'.todo = {} /\ sock.todo = {}
  BY <1>1 DEF NodesInv, FieldsOK, ListsOK, Made
<1>3. /\ node' \in [Objects -> Node]
      /\ \A n \in Objects \ gone : node'[n] = node[n]
      /\ \A n \in Objects : node'[n].grant => node[n].grant /\ n \notin gone
  BY <1>1, BlankIsNode DEF NodesInv, FieldsOK
<1>4. ASSUME NEW n \in gone \ shared
      PROVE  n \notin handler.copy \cup leaked \cup vNodes
  <2>1. n \in Objects /\ n \notin deleted /\ node[n].refs <= 0
    BY MadeAreObjects DEF NodesInv, ListsOK
  <2>2. node[n].refs = Refs(n)
    BY <2>1 DEF NodesInv, CountsOK
  <2> QED
    BY <2>1, <2>2 DEF Refs
<1>5. FieldsOK' /\ ListsOK'
  BY <1>1, <1>2, <1>3 DEF NodesInv, FieldsOK, ListsOK
<1>6. CountsOK'
  BY <1>1, <1>2, <1>3, <1>4 DEF NodesInv, CountsOK, Refs
<1>7. HandsOK'
  <2>1. ASSUME NEW n \in Made \ shared, Fresh(n)
        PROVE  Fresh(n)' /\ n \notin gone
    <3>1. n \in vNodes \cup leaked /\ n \in Objects
      BY <1>2, <2>1, MadeAreObjects DEF NodesInv, Fresh
    <3>2. n \notin gone
      BY <1>4, <2>1, <3>1
    <3> HIDE DEF gone
    <3> QED
      BY <1>1, <1>3, <2>1, <3>1, <3>2 DEF Fresh
  <2>2. ASSUME NEW o \in Openers, opener[o].pc = "grant", opener[o].n \in Made \ shared
        PROVE  opener[o].n \in vNodes' \cup cut'
    BY <1>1, <2>1, <2>2 DEF NodesInv, HandsOK
  <2> HIDE DEF gone, Fresh
  <2> QED
    BY <1>1, <1>2, <2>1, <2>2 DEF NodesInv, HandsOK
<1>8. SlotsBelongToPeers'
  <2>1. ASSUME NEW n \in Objects, node'[n].grant
        PROVE  n \in vNodes' \cup cut' \cup shared'
    BY <1>1, <1>3, <2>1 DEF NodesInv, SlotsBelongToPeers
  <2> QED
    BY <2>1 DEF SlotsBelongToPeers
<1>9. ConnectOK' /\ NoTwins'
  <2>1. \A n \in vNodes : node'[n] = node[n]
    BY <1>3, MadeAreObjects DEF NodesInv, ListsOK
  <2> QED
    BY <1>1, <2>1, PeersDecide
<1> QED
  BY <1>5, <1>6, <1>7, <1>8, <1>9 DEF NodesInv

(* A node that a peer opened is not one that ConnectNode looks for.        *)
LEMMA SocketAcceptKeeps ==
    ASSUME NodesInv, SocketAccept
    PROVE  NodesInv'
<1> DEFINE n == nLastNodeId + 1
<1>1. /\ sock.pc = "accept" /\ sock' = [sock EXCEPT !.pc = "copy"]
      /\ UNCHANGED <<vNodesDisconnected, deleted, opener, handler, shared, leaked, cut>>
  BY DEF SocketAccept
<1>2. /\ sock'.pc = "copy" /\ sock'.copy = {} /\ sock.copy = {}
      /\ sock'.todo = {} /\ sock.todo = {}
  BY <1>1 DEF NodesInv, FieldsOK, ListsOK
<1>3. CASE UNCHANGED <<node, nLastNodeId, vNodes>>
  <2>1. FieldsOK' /\ ListsOK' /\ CountsOK' /\ HandsOK' /\ SlotsBelongToPeers'
    BY <1>1, <1>2, <1>3 DEF NodesInv, FieldsOK, ListsOK, CountsOK, Refs, HandsOK, Fresh, SlotsBelongToPeers, Made
  <2> QED
    BY <1>1, <1>3, <2>1, PeersDecide DEF NodesInv
<1>4. ASSUME nLastNodeId < MaxNodes, nLastNodeId' = n, vNodes' = vNodes \cup {n}, NEW a \in Addrs,
             node' = [node EXCEPT ![n] = [Blank EXCEPT !.addr = a, !.refs = 1]]
      PROVE  NodesInv'
  <2>1. /\ n \in Objects /\ n \notin Made /\ Made' = Made \cup {n} /\ Made \subseteq Objects
        /\ nLastNodeId' \in 0..MaxNodes /\ 0 \notin Made'
    BY <1>4, MadeAreObjects DEF NodesInv, FieldsOK, Made, Objects
  <2>2. /\ node' \in [Objects -> Node] /\ \A m \in Objects \ {n} : node'[m] = node[m]
        /\ node'[n].by = "peer" /\ ~node'[n].grant /\ node'[n].refs = 1
    <3>1. PICK k \in Int, r \in Node : k = 1 /\ r = Blank
      BY BlankIsNode
    <3> DEFINE new == [r EXCEPT !.addr = a, !.refs = k]
    <3>2. new \in Node /\ new.by = r.by /\ new.grant = r.grant /\ new.refs = k
      BY <3>1 DEF Node
    <3>3. new.by = "peer" /\ ~new.grant /\ new.refs = 1
      BY <3>1, <3>2 DEF Blank
    <3>4. node' = [node EXCEPT ![n] = new]
      BY <1>4, <3>1
    <3> HIDE DEF new
    <3> QED
      BY <2>1, <3>2, <3>3, <3>4 DEF NodesInv, FieldsOK
  <2>3. FieldsOK' /\ ListsOK'
    BY <1>1, <1>2, <1>4, <2>1, <2>2 DEF NodesInv, FieldsOK, ListsOK
  <2>4. CountsOK'
    <3>1. n \notin sock.copy \cup handler.copy \cup leaked \cup deleted \cup vNodes
      BY <2>1 DEF NodesInv, ListsOK
    <3> QED
      BY <1>1, <1>2, <1>4, <2>1, <2>2, <3>1 DEF NodesInv, CountsOK, Refs
  <2>5. HandsOK'
    <3>1. \A m \in Made : Fresh(m) => Fresh(m)'
      BY <1>1, <1>2, <1>4, <2>1, <2>2 DEF Fresh
    <3> QED
      BY <1>1, <1>4, <2>1, <3>1, ThreadsHold
  <2>6. SlotsBelongToPeers'
    BY <1>1, <1>4, <2>2 DEF NodesInv, SlotsBelongToPeers
  <2>7. \A m \in vNodes : m # n /\ node'[m] = node[m]
    BY <2>1, <2>2 DEF NodesInv, ListsOK
  <2>8. ConnectOK' /\ NoTwins'
    BY <1>1, <1>4, <2>2, <2>7 DEF NodesInv, ConnectOK, InConnectNode, OpenedTo, NoTwins
  <2> QED
    BY <2>3, <2>4, <2>5, <2>6, <2>8 DEF NodesInv
<1> QED
  BY <1>3, <1>4 DEF SocketAccept

-----------------------------------------------------------------------------
(* Every step, then every behaviour.                                       *)

LEMMA StepKeeps ==
    ASSUME NodesInv, [Next]_vars
    PROVE  NodesInv'
<1>1. CASE Socket
  BY <1>1, SocketDisconnectKeeps, SocketKeepKeeps, SocketSeverKeeps, SocketPoolKeeps,
     SocketDeleteKeeps, SocketAcceptKeeps, SocketCopyKeeps, SocketServiceKeeps DEF Socket
<1>2. CASE Handler
  BY <1>2, HandlerCopyKeeps, HandlerProcessKeeps, HandlerReleaseKeeps DEF Handler
<1>3. ASSUME NEW o \in Openers, Open(o)
      PROVE  NodesInv'
  BY <1>3, DialKeeps, EnterKeeps, ReadKeeps, WriteKeeps, ConnectFailsKeeps, ConnectsKeeps,
     MoveGrantKeeps, SetNetworkKeeps, SetOneShotKeeps DEF Open
<1>4. CASE UNCHANGED vars
  BY <1>4 DEF vars, lists, NodesInv, FieldsOK, ListsOK, IsNext, CountsOK, Refs, HandsOK, Fresh,
     SlotsBelongToPeers, ConnectOK, InConnectNode, OpenedTo, NoTwins, Made
<1> QED
  BY <1>1, <1>2, <1>3, <1>4 DEF Next

LEMMA NodesInvHolds == NodesSpec => []NodesInv
<1>1. Init => NodesInv
  BY InitHolds
<1>2. NodesInv /\ [Next]_vars => NodesInv'
  BY StepKeeps
<1> QED
  BY <1>1, <1>2, PTL DEF NodesSpec

(* A thread's copies and a new node in an opening thread's hands hold      *)
(* references, and a node is deleted when it has none.                     *)
LEMMA HeldIsAlive == NodesInv => NoUseAfterDelete
<1> SUFFICES ASSUME NodesInv, NEW n \in InUse \cap deleted, n \notin shared, n \notin Late
             PROVE  FALSE
  BY DEF NoUseAfterDelete
<1>1. n \in Made /\ n \in Objects \ shared
  BY MadeAreObjects DEF NodesInv, ListsOK
<1>2. n \notin sock.copy \cup handler.copy \cup leaked \cup vNodes \cup sock.todo
  BY <1>1 DEF NodesInv, CountsOK, ListsOK
<1>3. PICK o \in Openers : opener[o].n = n /\ opener[o].pc # "oneshot"
  BY <1>2 DEF InUse, Late
<1>4. n \in vNodes \cup sock.todo \cup leaked
  BY <1>1, <1>3 DEF NodesInv, HandsOK, Fresh
<1> QED
  BY <1>2, <1>4

(* "wait until threads are done using it" (net.cpp:841): no thread follows *)
(* a pointer to a deleted CNode, whatever the number of threads and peers, *)
(* except to one that ConnectNode has found without a reference, and for   *)
(* the last write of a thread to the one-shot that it has opened.          *)
THEOREM DeletedAreUnused == NodesSpec => []NoUseAfterDelete
<1>1. NodesInv => NoUseAfterDelete
  BY HeldIsAlive
<1> QED
  BY <1>1, NodesInvHolds, PTL

(* "release outbound grant (if any)" (net.cpp:822): a node that has left   *)
(* vNodes keeps no slot of semOutbound, unless a thread was yet to move it *)
(* there when the node left, or the node was found by ConnectNode.         *)
THEOREM SlotsComeBack == NodesSpec => []SlotsBelongToPeers
<1>1. NodesInv => SlotsBelongToPeers
  BY DEF NodesInv
<1> QED
  BY <1>1, NodesInvHolds, PTL

(* "or it's possible to connect to the same peer twice" (net.cpp:414): the *)
(* look-up of ConnectNode under cs_connectNode keeps connections made to   *)
(* an address apart, however many threads open them.                       *)
THEOREM OneConnectionEach == NodesSpec => []NoTwins
<1>1. NodesInv => NoTwins
  BY DEF NodesInv
<1> QED
  BY <1>1, NodesInvHolds, PTL

-----------------------------------------------------------------------------
(* Slots: the grants that threads and nodes have, and the free ones.       *)

InHand == {o \in Openers : /\ opener[o].pc \notin {"idle", "network", "oneshot"}
                           /\ opener[o].how # "onetry"}
Granted == {n \in Objects : node[n].grant}
Slots == free + Cardinality(InHand) + Cardinality(Granted)

Granting(pc) == pc \in {"found", "addref", "grant"}

(* ConnectNode finds only nodes that were made, memory that is not a       *)
(* node's holds no grant, and onetry, which has none, moves none.          *)
GrantsOK ==
    /\ \A o \in Openers : Granting(opener[o].pc) => opener[o].how # "onetry"
    /\ free \in Nat /\ shared \subseteq Made /\ Granted \subseteq Made \ deleted
    /\ Slots <= MaxOutbound
    /\ shared \cap deleted = {} => Slots = MaxOutbound

SlotsInv == NodesInv /\ GrantsOK

LEMMA TheyAreFinite ==
    ASSUME FieldsOK
    PROVE  /\ IsFiniteSet(InHand) /\ Cardinality(InHand) \in Nat
           /\ IsFiniteSet(Granted) /\ Cardinality(Granted) \in Nat
<1>1. IsFiniteSet(Openers) /\ IsFiniteSet(Objects)
  BY NodesAssumption, FS_Interval DEF NodesAssumption, Objects
<1>2. InHand \in SUBSET Openers /\ Granted \in SUBSET Objects
  BY DEF InHand, Granted
<1>3. IsFiniteSet(InHand) /\ IsFiniteSet(Granted)
  BY <1>1, <1>2, FS_Subset
<1> QED
  BY <1>3, FS_CardinalityType

(* A step that changes no sum keeps it, and one that does ends with a node *)
(* that was both shared and deleted.                                       *)
LEMMA SumHolds ==
    ASSUME SlotsInv, NodesInv', free' \in Nat,
           (\A o \in Openers : Granting(opener[o].pc) => opener[o].how # "onetry")', shared' \subseteq Made',
           Granted' \subseteq Made' \ deleted',
           shared \subseteq shared', deleted \subseteq deleted',
           \/ Slots' = Slots
           \/ Slots' = Slots - 1 /\ shared' \cap deleted' # {}
    PROVE  SlotsInv'
<1>1. Slots \in Int
  BY TheyAreFinite DEF SlotsInv, NodesInv, GrantsOK, Slots
<1>2. MaxOutbound \in Nat
  BY NodesAssumption DEF NodesAssumption
<1>3. GrantsOK'
  BY <1>1, <1>2 DEF SlotsInv, GrantsOK
<1> QED
  BY <1>3 DEF SlotsInv

(* What one thread's step makes of the set of those with a grant in hand.  *)
LEMMA HandMoves ==
    ASSUME FieldsOK, NEW o \in Openers, NEW new \in Opener,
           opener' = [opener EXCEPT ![o] = new]
    PROVE  LET held == opener[o].pc \notin {"idle", "network", "oneshot"} /\ opener[o].how # "onetry"
               holds == new.pc \notin {"idle", "network", "oneshot"} /\ new.how # "onetry"
           IN  /\ (held <=> holds) => InHand' = InHand
               /\ ~held /\ holds => Cardinality(InHand') = Cardinality(InHand) + 1
               /\ held /\ ~holds => Cardinality(InHand') = Cardinality(InHand) - 1
<1> DEFINE held == opener[o].pc \notin {"idle", "network", "oneshot"} /\ opener[o].how # "onetry"
           holds == new.pc \notin {"idle", "network", "oneshot"} /\ new.how # "onetry"
<1>1. opener'[o] = new /\ \A p \in Openers \ {o} : opener'[p] = opener[p]
  BY DEF FieldsOK
<1>2. (held <=> holds) => InHand' = InHand
  BY <1>1 DEF InHand
<1>3. ~held /\ holds => InHand' = InHand \cup {o} /\ o \notin InHand
  BY <1>1 DEF InHand
<1>4. held /\ ~holds => InHand' = InHand \ {o} /\ o \in InHand
  BY <1>1 DEF InHand
<1>5. IsFiniteSet(InHand)
  BY TheyAreFinite
<1> HIDE DEF held, holds
<1>6. ~held /\ holds => Cardinality(InHand') = Cardinality(InHand) + 1
  BY <1>3, <1>5, FS_AddElement
<1>7. held /\ ~holds => Cardinality(InHand') = Cardinality(InHand) - 1
  BY <1>4, <1>5, FS_RemoveElement
<1> QED
  BY <1>2, <1>6, <1>7 DEF held, holds

LEMMA HowHolds ==
    ASSUME SlotsInv, NEW o \in Openers, NEW new \in Opener,
           opener' = [opener EXCEPT ![o] = new],
           Granting(new.pc) => new.how # "onetry"
    PROVE  (\A p \in Openers : Granting(opener[p].pc) => opener[p].how # "onetry")'
<1>1. opener'[o] = new /\ \A p \in Openers \ {o} : opener'[p] = opener[p]
  BY DEF SlotsInv, NodesInv, FieldsOK
<1> QED
  BY <1>1 DEF SlotsInv, GrantsOK

(* A thread's step that leaves nodes and lists as they are.                *)
LEMMA HandOnly ==
    ASSUME SlotsInv, NodesInv', NEW o \in Openers, NEW new \in Opener,
           opener' = [opener EXCEPT ![o] = new], free' \in Nat,
           Granting(new.pc) => new.how # "onetry",
           UNCHANGED <<node, nLastNodeId, deleted>>, shared \subseteq shared', shared' \subseteq Made,
           LET held == opener[o].pc \notin {"idle", "network", "oneshot"} /\ opener[o].how # "onetry"
               holds == new.pc \notin {"idle", "network", "oneshot"} /\ new.how # "onetry"
           IN  \/ (held <=> holds) /\ free' = free
               \/ ~held /\ holds /\ free' = free - 1
               \/ held /\ ~holds /\ free' = free + 1
    PROVE  SlotsInv'
<1>1. Granted' = Granted /\ Made' = Made
  BY DEF Granted, Made
<1>2. Cardinality(InHand) \in Nat /\ Cardinality(Granted) \in Nat /\ free \in Nat
  BY TheyAreFinite DEF SlotsInv, NodesInv, GrantsOK
<1>3. \/ Cardinality(InHand') = Cardinality(InHand) /\ free' = free
      \/ Cardinality(InHand') = Cardinality(InHand) + 1 /\ free' = free - 1
      \/ Cardinality(InHand') = Cardinality(InHand) - 1 /\ free' = free + 1
  <2>1. FieldsOK
    BY DEF SlotsInv, NodesInv
  <2> QED
    BY <2>1, HandMoves, Zenon
<1>4. Slots' = Slots
  BY <1>1, <1>2, <1>3 DEF Slots
<1>5. (\A p \in Openers : Granting(opener[p].pc) => opener[p].how # "onetry")'
  BY HowHolds
<1> QED
  BY <1>1, <1>4, <1>5, SumHolds DEF SlotsInv, GrantsOK

LEMMA DialSlots ==
    ASSUME SlotsInv, NodesInv', NEW o \in Openers, NEW how \in Ways[o], NEW a \in Addrs, Dial(o, how, a)
    PROVE  SlotsInv'
<1> DEFINE new == [Idle EXCEPT !.pc = "wait", !.how = how, !.addr = a]
<1>1. how \in {"address", "name", "oneshot", "onetry"}
  BY NodesAssumption DEF NodesAssumption
<1>2. new \in Opener /\ new.pc = "wait" /\ new.how = how
  BY <1>1, IdleIsOpener DEF Opener
<1>3. /\ opener[o].pc = "idle" /\ opener' = [opener EXCEPT ![o] = new]
      /\ UNCHANGED <<node, nLastNodeId, deleted, shared>>
      /\ how # "onetry" => free > 0
      /\ free' = IF how = "onetry" THEN free ELSE free - 1
  BY DEF Dial, lists
<1>4. free \in Nat /\ free' \in Nat /\ shared \subseteq Made
  BY <1>3 DEF SlotsInv, GrantsOK
<1> HIDE DEF new
<1> QED
  BY <1>2, <1>3, <1>4, HandOnly DEF Granting

LEMMA ConnectFailsSlots ==
    ASSUME SlotsInv, NodesInv', NEW o \in Openers, ConnectFails(o)
    PROVE  SlotsInv'
<1>1. /\ opener[o].pc = "socket" /\ opener' = [opener EXCEPT ![o] = Idle]
      /\ UNCHANGED <<node, nLastNodeId, deleted, shared>>
      /\ free' = IF opener[o].how = "onetry" THEN free ELSE free + 1
  BY DEF ConnectFails, lists
<1>2. free \in Nat /\ free' \in Nat /\ shared \subseteq Made /\ Idle.pc = "idle"
  BY <1>1 DEF SlotsInv, GrantsOK, Idle
<1> QED
  BY <1>1, <1>2, IdleIsOpener, HandOnly DEF Granting

(* A thread that finds a node was to connect to an address, as its reset   *)
(* locals say too.                                                         *)
LEMMA EnterSlots ==
    ASSUME SlotsInv, NodesInv', NEW o \in Openers, EnterConnectNode(o)
    PROVE  SlotsInv'
<1>1. opener[o].pc = "wait" /\ UNCHANGED <<node, nLastNodeId, deleted, free>> /\ free \in Nat
      /\ opener[o] \in Opener /\ shared \subseteq Made
  BY DEF EnterConnectNode, SlotsInv, GrantsOK, NodesInv, FieldsOK
<1>2. CASE opener' = [opener EXCEPT ![o].pc = "socket"] /\ shared' = shared
  <2> DEFINE new == [opener[o] EXCEPT !.pc = "socket"]
  <2>1. new \in Opener /\ new.pc = "socket" /\ new.how = opener[o].how
    BY <1>1 DEF Opener
  <2>2. opener' = [opener EXCEPT ![o] = new]
    BY <1>2
  <2> HIDE DEF new
  <2> QED
    BY <1>1, <1>2, <2>1, <2>2, HandOnly DEF Granting
<1>3. ASSUME opener[o].how = "address", NEW n \in KnownService(opener[o].addr),
             opener' = [opener EXCEPT ![o] = [Idle EXCEPT !.pc = "found", !.n = n]],
             shared' = shared \cup {n}
      PROVE  SlotsInv'
  <2> DEFINE new == [Idle EXCEPT !.pc = "found", !.n = n]
  <2>1. n \in vNodes /\ n \in Made /\ n \in Objects
    BY <1>3, MadeAreObjects DEF KnownService, SlotsInv, NodesInv, ListsOK
  <2>2. new \in Opener /\ new.pc = "found" /\ new.how = "address"
    BY <2>1, IdleIsOpener, OpenerHolds DEF Idle
  <2> HIDE DEF new
  <2>3. opener' = [opener EXCEPT ![o] = new]
    BY <1>3 DEF new
  <2>4. shared \subseteq shared' /\ shared' \subseteq Made
    BY <1>1, <1>3, <2>1
  <2> QED
    BY <1>1, <1>3, <2>2, <2>3, <2>4, HandOnly DEF Granting
<1> QED
  BY <1>2, <1>3 DEF EnterConnectNode

LEMMA ReadSlots ==
    ASSUME SlotsInv, NodesInv', NEW o \in Openers, ReadRefCount(o)
    PROVE  SlotsInv'
<1> DEFINE new == [opener[o] EXCEPT !.pc = "addref", !.refs = node[opener[o].n].refs]
<1>1. opener[o].pc = "found" /\ UNCHANGED <<node, nLastNodeId, deleted, free, shared>> /\ free \in Nat
      /\ opener[o] \in Opener /\ shared \subseteq Made
  BY DEF ReadRefCount, lists, SlotsInv, GrantsOK, NodesInv, FieldsOK
<1>2. opener' = [opener EXCEPT ![o] = new]
  BY DEF ReadRefCount, SlotsInv, NodesInv, FieldsOK
<1>3. new.pc = "addref" /\ new.how = opener[o].how
  BY <1>1 DEF Opener
<1>4. new \in Opener
  BY <1>2 DEF NodesInv, FieldsOK, SlotsInv
<1>5. opener[o].how # "onetry"
  BY <1>1 DEF SlotsInv, GrantsOK, Granting
<1> HIDE DEF new
<1> QED
  BY <1>1, <1>2, <1>3, <1>4, <1>5, HandOnly


(* A step that changes one object, which holds no grant afterwards if it   *)
(* held none.                                                              *)
LEMMA WriteSlots ==
    ASSUME SlotsInv, NodesInv', NEW o \in Openers, WriteRefCount(o)
    PROVE  SlotsInv'
<1> DEFINE n == opener[o].n
           new == [opener[o] EXCEPT !.pc = "grant", !.refs = 0]
<1>1. /\ opener[o].pc = "addref" /\ UNCHANGED <<nLastNodeId, deleted, free, shared>>
      /\ opener[o] \in Opener /\ n \in Objects /\ node \in [Objects -> Node]
      /\ node' = Store(n, [node[n] EXCEPT !.refs = opener[o].refs + 1])
  BY MadeAreObjects DEF WriteRefCount, lists, SlotsInv, NodesInv, FieldsOK, HandsOK
<1>2. \A m \in Objects : node'[m].grant = node[m].grant
  <2>1. [node[n] EXCEPT !.refs = opener[o].refs + 1].grant = node[n].grant
    BY <1>1 DEF Node
  <2> QED
    BY <1>1, <2>1 DEF Store
<1>3. Granted' = Granted /\ Made' = Made
  BY <1>1, <1>2 DEF Granted, Made
<1>4. opener' = [opener EXCEPT ![o] = new]
  BY DEF WriteRefCount
<1>5. new \in Opener /\ new.pc = "grant" /\ new.how = opener[o].how
  <2>1. PICK k \in Int : k = 0
    OBVIOUS
  <2>2. [opener[o] EXCEPT !.pc = "grant", !.refs = k] \in Opener
    BY <1>1, OpenerCounted
  <2>3. new \in Opener
    BY <2>1, <2>2
  <2>4. new.pc = "grant" /\ new.how = opener[o].how
    BY <1>1 DEF Opener
  <2> QED
    BY <2>3, <2>4
<1> HIDE DEF new
<1>8. new.how # "onetry"
  BY <1>1, <1>5 DEF SlotsInv, GrantsOK, Granting
<1>6. InHand' = InHand
  BY <1>1, <1>4, <1>5, HandMoves DEF SlotsInv, NodesInv
<1>7. Slots' = Slots
  BY <1>1, <1>3, <1>6 DEF Slots
<1>9. (\A p \in Openers : Granting(opener[p].pc) => opener[p].how # "onetry")'
  BY <1>4, <1>5, <1>8, HowHolds
<1> QED
  BY <1>1, <1>3, <1>7, <1>9, SumHolds DEF SlotsInv, GrantsOK

LEMMA SetNetworkSlots ==
    ASSUME SlotsInv, NodesInv', NEW o \in Openers, SetNetworkNode(o)
    PROVE  SlotsInv'
<1> DEFINE n == opener[o].n
           new == IF opener[o].how = "oneshot" THEN [opener[o] EXCEPT !.pc = "oneshot"] ELSE Idle
<1>1. /\ opener[o].pc = "network" /\ UNCHANGED <<nLastNodeId, deleted, free, shared>>
      /\ n \in Objects /\ node \in [Objects -> Node]
      /\ node' = Store(n, [node[n] EXCEPT !.network = TRUE])
      /\ opener' = [opener EXCEPT ![o] = new]
  BY MadeAreObjects DEF SetNetworkNode, lists, SlotsInv, NodesInv, FieldsOK, HandsOK
<1>2. \A m \in Objects : node'[m].grant = node[m].grant
  <2>1. [node[n] EXCEPT !.network = TRUE].grant = node[n].grant
    BY <1>1 DEF Node
  <2> QED
    BY <1>1, <2>1 DEF Store
<1>3. Granted' = Granted /\ Made' = Made
  BY <1>1, <1>2 DEF Granted, Made
<1>4. new \in Opener /\ new.pc \in {"idle", "oneshot"}
  BY IdleIsOpener DEF Idle, SlotsInv, NodesInv, FieldsOK, Opener
<1> HIDE DEF new
<1>5. InHand' = InHand
  BY <1>1, <1>4, HandMoves DEF SlotsInv, NodesInv
<1>6. Slots' = Slots
  BY <1>1, <1>3, <1>5 DEF Slots
<1>7. (\A p \in Openers : Granting(opener[p].pc) => opener[p].how # "onetry")'
  BY <1>1, <1>4, HowHolds DEF Granting
<1> QED
  BY <1>1, <1>3, <1>6, <1>7, SumHolds DEF SlotsInv, GrantsOK

LEMMA SetOneShotSlots ==
    ASSUME SlotsInv, NodesInv', NEW o \in Openers, SetOneShot(o)
    PROVE  SlotsInv'
<1>1. /\ opener[o].pc = "oneshot" /\ opener' = [opener EXCEPT ![o] = Idle]
      /\ UNCHANGED <<node, nLastNodeId, deleted, shared, free>>
  BY DEF SetOneShot, lists
<1>2. free \in Nat /\ shared \subseteq Made /\ Idle.pc = "idle"
  BY DEF SlotsInv, GrantsOK, Idle
<1> QED
  BY <1>1, <1>2, IdleIsOpener, HandOnly DEF Granting

(* The memory of a new node was never used, so it holds no grant.          *)
LEMMA ConnectsSlots ==
    ASSUME SlotsInv, NodesInv', NEW o \in Openers, Connects(o)
    PROVE  SlotsInv'
<1> DEFINE n == nLastNodeId + 1
           new == IF opener[o].how = "onetry" THEN Idle
                  ELSE [Idle EXCEPT !.pc = "grant", !.how = opener[o].how, !.n = n]
<1>1. PICK dead, b :
        node' = [node EXCEPT ![n] = [Blank EXCEPT !.addr = b, !.by = opener[o].how,
                                                  !.disconnect = dead, !.refs = 1]]
        /\ opener' = [opener EXCEPT ![o] = new]
  BY DEF Connects
<1>2. /\ opener[o].pc = "socket" /\ UNCHANGED <<deleted, free, shared>>
      /\ nLastNodeId < MaxNodes /\ nLastNodeId' = n /\ nLastNodeId \in Nat
      /\ node \in [Objects -> Node]
  BY NodesAssumption DEF Connects, SlotsInv, NodesInv, FieldsOK, NodesAssumption
<1>3. n \in Objects /\ n \notin Made /\ Made' = Made \cup {n}
  BY <1>2, NodesAssumption DEF Objects, Made, NodesAssumption
<1>4. Granted' = Granted
  <2>1. ~node'[n].grant
    BY <1>1, <1>2, <1>3 DEF Blank
  <2>2. ~node[n].grant
    BY <1>3 DEF SlotsInv, GrantsOK, Granted
  <2> QED
    BY <1>1, <1>2, <2>1, <2>2 DEF Granted
<1>5. new \in Opener /\ (IF opener[o].how = "onetry" THEN new.pc = "idle"
                         ELSE new.pc = "grant" /\ new.how # "onetry")
  <2>1. CASE opener[o].how = "onetry"
    BY <2>1, IdleIsOpener DEF Idle
  <2>2. CASE opener[o].how # "onetry"
    <3>1. opener[o] \in Opener
      BY DEF SlotsInv, NodesInv, FieldsOK
    <3>2. new = [Idle EXCEPT !.pc = "grant", !.how = opener[o].how, !.n = n]
      BY <2>2
    <3>3. n \in 0..MaxNodes
      BY <1>3, NodesAssumption DEF Objects, NodesAssumption
    <3> QED
      BY <2>2, <3>1, <3>2, <3>3, IdleIsOpener DEF Idle, Opener
  <2> QED
    BY <2>1, <2>2
<1> HIDE DEF new
<1>6. InHand' = InHand
  BY <1>1, <1>2, <1>5, HandMoves DEF SlotsInv, NodesInv
<1>7. Slots' = Slots
  BY <1>2, <1>4, <1>6 DEF Slots
<1>8. n \notin deleted
  BY <1>3 DEF SlotsInv, NodesInv, ListsOK
<1>9. (\A p \in Openers : Granting(opener[p].pc) => opener[p].how # "onetry")'
  BY <1>1, <1>5, HowHolds DEF Granting
<1> QED
  BY <1>2, <1>3, <1>4, <1>7, <1>8, <1>9, SumHolds DEF SlotsInv, GrantsOK

(* MoveTo gives the grant to the node and frees the one that it had; when  *)
(* the node is deleted already the slot is lost.                           *)
LEMMA MoveGrantSlots ==
    ASSUME SlotsInv, NodesInv', NEW o \in Openers, MoveGrant(o)
    PROVE  SlotsInv'
<1> DEFINE n == opener[o].n
           new == [opener[o] EXCEPT !.pc = "network"]
           fields == [node[n] EXCEPT !.grant = TRUE]
<1>1. /\ opener[o].pc = "grant" /\ UNCHANGED <<nLastNodeId, deleted, shared>>
      /\ free' = IF node[n].grant THEN free + 1 ELSE free
      /\ opener[o] \in Opener /\ n \in Made /\ n \in Objects /\ node \in [Objects -> Node]
      /\ node' = Store(n, fields) /\ opener' = [opener EXCEPT ![o] = new]
  BY MadeAreObjects DEF MoveGrant, lists, SlotsInv, NodesInv, FieldsOK, HandsOK
<1>2. new \in Opener /\ new.pc = "network"
  BY <1>1 DEF Opener
<1>3. fields.grant
  BY <1>1 DEF Node
<1> HIDE DEF new, fields
<1>4. Made' = Made /\ free \in Nat /\ free' \in Nat /\ shared \subseteq Made
      /\ Granted \subseteq Made \ deleted
  BY <1>1 DEF Made, SlotsInv, GrantsOK
<1>5. /\ Cardinality(InHand) \in Nat /\ Cardinality(Granted) \in Nat /\ IsFiniteSet(Granted)
  BY TheyAreFinite DEF SlotsInv, NodesInv
<1>6. opener[o].how # "onetry"
  BY <1>1 DEF SlotsInv, GrantsOK, Granting
<1>11. (\A p \in Openers : Granting(opener[p].pc) => opener[p].how # "onetry")'
  BY <1>1, <1>2, HowHolds DEF Granting
<1>7. Cardinality(InHand') = Cardinality(InHand) - 1
  BY <1>1, <1>2, <1>6, HandMoves DEF SlotsInv, NodesInv
<1>8. CASE n \in deleted
  <2>1. n \in shared
    <3>1. n \notin shared => n \in vNodes \cup sock.todo \cup leaked
      BY <1>1 DEF SlotsInv, NodesInv, HandsOK, Fresh
    <3>2. n \notin shared => n \notin leaked
      BY <1>1, <1>8 DEF SlotsInv, NodesInv, CountsOK
    <3>3. n \notin vNodes \cup sock.todo
      BY <1>8 DEF SlotsInv, NodesInv, ListsOK
    <3> QED
      BY <3>1, <3>2, <3>3
  <2>2. node' = node /\ ~node[n].grant
    BY <1>1, <1>4, <1>8 DEF Store, Granted
  <2>3. Granted' = Granted /\ free' = free
    BY <1>1, <2>2 DEF Granted
  <2>4. Slots' = Slots - 1
    BY <1>4, <1>5, <1>7, <2>3 DEF Slots
  <2> QED
    BY <1>1, <1>4, <1>8, <2>1, <2>3, <2>4, <1>11, SumHolds
<1>9. CASE n \notin deleted /\ node[n].grant
  <2>1. \A m \in Objects : node'[m].grant = node[m].grant
    BY <1>1, <1>3, <1>9 DEF Store, Node
  <2>2. Granted' = Granted /\ free' = free + 1
    BY <1>1, <1>9, <2>1 DEF Granted
  <2>3. Slots' = Slots
    BY <1>4, <1>5, <1>7, <2>2 DEF Slots
  <2> QED
    BY <1>1, <1>4, <2>2, <2>3, <1>11, SumHolds
<1>10. CASE n \notin deleted /\ ~node[n].grant
  <2>1. node'[n].grant /\ \A m \in Objects \ {n} : node'[m] = node[m]
    BY <1>1, <1>3, <1>10 DEF Store
  <2>2. Granted' = Granted \cup {n} /\ n \notin Granted
    BY <1>1, <1>10, <2>1 DEF Granted
  <2>3. Cardinality(Granted') = Cardinality(Granted) + 1
    BY <1>5, <2>2, FS_AddElement
  <2>4. Slots' = Slots
    BY <1>1, <1>4, <1>5, <1>7, <1>10, <2>3 DEF Slots
  <2> QED
    BY <1>1, <1>4, <1>10, <2>2, <2>4, <1>11, SumHolds
<1> QED
  BY <1>8, <1>9, <1>10


(* The socket thread frees as many slots as nodes that leave have grants.  *)
LEMMA LeaveSlots ==
    ASSUME SlotsInv, NodesInv', NEW gone, gone \subseteq Objects,
           \A n \in Objects : node'[n].grant <=> node[n].grant /\ n \notin gone,
           UNCHANGED <<nLastNodeId, shared, opener>>,
           deleted \subseteq deleted', deleted' \ deleted \subseteq gone,
           free' = free + Cardinality({n \in gone : node[n].grant})
    PROVE  SlotsInv'
<1> DEFINE freed == {n \in gone : node[n].grant}
<1>1. freed \subseteq Granted /\ Granted' = Granted \ freed
  BY DEF Granted
<1> HIDE DEF freed
<1>2. IsFiniteSet(Granted) /\ Cardinality(Granted) \in Nat /\ Cardinality(InHand) \in Nat
      /\ IsFiniteSet(freed)
  BY <1>1, TheyAreFinite, FS_Subset DEF SlotsInv, NodesInv
<1>3. Cardinality(freed) \in Nat
  BY <1>2, FS_CardinalityType
<1>4. Granted \cap freed = freed
  BY <1>1
<1>5. Cardinality(Granted') = Cardinality(Granted) - Cardinality(freed)
  BY <1>1, <1>2, <1>4, FS_Difference
<1>6. free' = free + Cardinality(freed) /\ free \in Nat
  BY DEF freed, SlotsInv, GrantsOK
<1>7. InHand' = InHand /\ Made' = Made
  BY DEF InHand, Made
<1>8. Slots' = Slots
  BY <1>2, <1>3, <1>5, <1>6, <1>7 DEF Slots
<1>9. Granted' \subseteq Made' \ deleted'
  BY <1>1, <1>7 DEF freed, SlotsInv, GrantsOK, Granted
<1>10. free' \in Nat
  BY <1>3, <1>6
<1>11. (\A p \in Openers : Granting(opener[p].pc) => opener[p].how # "onetry")'
  BY DEF SlotsInv, GrantsOK
<1>12. shared \subseteq shared' /\ shared' \subseteq Made'
  BY <1>7 DEF SlotsInv, GrantsOK
<1> QED
  BY <1>8, <1>9, <1>10, <1>11, <1>12, SumHolds

LEMMA SocketSeverSlots ==
    ASSUME SlotsInv, NodesInv', NEW n \in Objects, SocketSever(n)
    PROVE  SlotsInv'
<1>1. /\ node' = [node EXCEPT ![n].grant = FALSE, ![n].disconnect = TRUE]
      /\ free' = IF node[n].grant THEN free + 1 ELSE free
      /\ UNCHANGED <<nLastNodeId, shared, opener, deleted>>
      /\ node \in [Objects -> Node] /\ free \in Nat
  BY DEF SocketSever, SlotsInv, NodesInv, FieldsOK, GrantsOK
<1>2. \A m \in Objects : node'[m].grant <=> node[m].grant /\ m \notin {n}
  BY <1>1 DEF Node
<1>3. free' = free + Cardinality({m \in {n} : node[m].grant})
  <2>1. CASE node[n].grant
    <3>1. {m \in {n} : node[m].grant} = {n}
      BY <2>1
    <3> QED
      BY <1>1, <2>1, <3>1, FS_Singleton
  <2>2. CASE ~node[n].grant
    <3>1. {m \in {n} : node[m].grant} = {}
      BY <2>2
    <3> QED
      BY <1>1, <2>2, <3>1, FS_EmptySet
  <2> QED
    BY <2>1, <2>2
<1> QED
  BY <1>1, <1>2, <1>3, LeaveSlots

LEMMA SocketDeleteSlots ==
    ASSUME SlotsInv, NodesInv', SocketDelete
    PROVE  SlotsInv'
<1> DEFINE gone == {n \in vNodesDisconnected : node[n].refs <= 0}
<1>1. /\ UNCHANGED <<nLastNodeId, shared, opener>> /\ gone \subseteq Objects
      /\ deleted' = deleted \cup gone
      /\ node' = [n \in Objects |-> IF n \in gone THEN Blank ELSE node[n]]
      /\ free' = free + Cardinality({n \in gone : node[n].grant})
  BY MadeAreObjects DEF SocketDelete, SlotsInv, NodesInv, FieldsOK, ListsOK
<1> HIDE DEF gone
<1>2. \A n \in Objects : node'[n].grant <=> node[n].grant /\ n \notin gone
  BY <1>1 DEF Blank
<1> QED
  BY <1>1, <1>2, LeaveSlots

(* Other steps of the two threads move no grant.                           *)
LEMMA NoneMoves ==
    ASSUME SlotsInv, NodesInv', UNCHANGED <<opener, free, shared, deleted>>, Made \subseteq Made',
           \A n \in Objects : node'[n].grant <=> node[n].grant
    PROVE  SlotsInv'
<1>1. Granted' = Granted /\ InHand' = InHand
  BY DEF Granted, InHand
<1>2. Slots' = Slots
  BY <1>1 DEF Slots
<1>3. (\A p \in Openers : Granting(opener[p].pc) => opener[p].how # "onetry")'
  BY DEF SlotsInv, GrantsOK
<1> QED
  BY <1>1, <1>2, <1>3, SumHolds DEF SlotsInv, GrantsOK

LEMMA LoopSlots ==
    ASSUME SlotsInv, NodesInv',
           \/ SocketDisconnect
           \/ \E n \in Objects : SocketKeep(n) \/ SocketPool(n)
    PROVE  SlotsInv'
<1>1. UNCHANGED <<opener, free, shared, deleted, nLastNodeId>>
  BY DEF SocketDisconnect, SocketKeep, SocketPool, lists
<1>2. \A n \in Objects : node'[n].grant <=> node[n].grant
  <2>1. node \in [Objects -> Node]
    BY DEF SlotsInv, NodesInv, FieldsOK
  <2>2. ASSUME NEW n \in Objects, SocketPool(n)
        PROVE  \A m \in Objects : node'[m].grant <=> node[m].grant
    BY <2>1, <2>2 DEF SocketPool, Node
  <2> QED
    BY <2>2 DEF SocketDisconnect, SocketKeep
<1> QED
  BY <1>1, <1>2, NoneMoves DEF Made

LEMMA SocketAcceptSlots ==
    ASSUME SlotsInv, NodesInv', SocketAccept
    PROVE  SlotsInv'
<1>1. UNCHANGED <<opener, free, shared, deleted>>
  BY DEF SocketAccept
<1>2. CASE UNCHANGED <<node, nLastNodeId>>
  BY <1>1, <1>2, NoneMoves DEF Made
<1>3. ASSUME nLastNodeId < MaxNodes, nLastNodeId' = nLastNodeId + 1, NEW a \in Addrs,
             node' = [node EXCEPT ![nLastNodeId'] = [Blank EXCEPT !.addr = a, !.refs = 1]]
      PROVE  SlotsInv'
  <2>1. nLastNodeId \in Nat /\ node \in [Objects -> Node]
    BY NodesAssumption DEF SlotsInv, NodesInv, FieldsOK, NodesAssumption
  <2>2. nLastNodeId' \in Objects /\ nLastNodeId' \notin Made /\ Made \subseteq Made'
    BY <1>3, <2>1, NodesAssumption DEF Objects, Made, NodesAssumption
  <2>3. ~node'[nLastNodeId'].grant
    BY <1>3, <2>1, <2>2 DEF Blank
  <2>4. ~node[nLastNodeId'].grant
    BY <2>2 DEF SlotsInv, GrantsOK, Granted
  <2>5. \A n \in Objects : node'[n].grant <=> node[n].grant
    BY <1>3, <2>1, <2>2, <2>3, <2>4
  <2> QED
    BY <1>1, <2>2, <2>5, NoneMoves
<1> QED
  BY <1>2, <1>3 DEF SocketAccept

LEMMA CopySlots ==
    ASSUME SlotsInv, NodesInv',
           SocketCopy \/ SocketService \/ HandlerCopy \/ HandlerProcess \/ HandlerRelease
    PROVE  SlotsInv'
<1>1. UNCHANGED <<opener, free, lists>> /\ Made \subseteq Made'
  BY DEF SocketCopy, SocketService, HandlerCopy, HandlerProcess, HandlerRelease, lists, Made
<1>2. \A n \in Objects : node'[n].grant <=> node[n].grant
  <2>1. \A ns : \A k \in {-1, 1} : \A n \in Objects :
           /\ Count(ns, k) \in [Objects -> Node]
           /\ Count(ns, k)[n].grant <=> node[n].grant
    BY CountFacts DEF SlotsInv, NodesInv
  <2>2. CASE SocketCopy
    BY <2>1, <2>2 DEF SocketCopy
  <2>3. CASE HandlerCopy
    BY <2>1, <2>3 DEF HandlerCopy
  <2>4. CASE HandlerRelease
    BY <2>1, <2>4 DEF HandlerRelease
  <2>5. CASE SocketService
    <3>1. PICK lost \in SUBSET sock.copy :
            node' = [n \in Objects |-> [Count(sock.copy, -1)[n] EXCEPT !.disconnect = @ \/ n \in lost]]
      BY <2>5 DEF SocketService
    <3> QED
      BY <2>1, <3>1 DEF Node
  <2>6. CASE HandlerProcess
    <3>1. PICK lost \in SUBSET handler.copy :
            node' = [n \in Objects |-> [node[n] EXCEPT !.disconnect = @ \/ n \in lost]]
      BY <2>6 DEF HandlerProcess
    <3> QED
      BY <3>1 DEF Node, SlotsInv, NodesInv, FieldsOK
  <2> QED
    BY <2>2, <2>3, <2>4, <2>5, <2>6
<1> QED
  BY <1>1, <1>2, NoneMoves DEF lists

LEMMA InitSlots == Init => SlotsInv
<1> SUFFICES ASSUME Init
             PROVE  SlotsInv
  OBVIOUS
<1>1. InHand = {} /\ Granted = {} /\ free = MaxOutbound /\ shared = {} /\ MaxOutbound \in Nat
      /\ \A o \in Openers : opener[o].pc = "idle"
  BY NodesAssumption DEF Init, InHand, Granted, Idle, Blank, NodesAssumption
<1>2. Slots = MaxOutbound
  BY <1>1, FS_EmptySet DEF Slots
<1>3. GrantsOK
  BY <1>1, <1>2 DEF GrantsOK, Granting
<1> QED
  BY <1>3, InitHolds DEF SlotsInv

LEMMA StepSlots ==
    ASSUME SlotsInv, [Next]_vars
    PROVE  SlotsInv'
<1>1. NodesInv'
  BY StepKeeps DEF SlotsInv
<1>2. CASE Socket
  BY <1>1, <1>2, LoopSlots, SocketSeverSlots, SocketDeleteSlots, SocketAcceptSlots, CopySlots
     DEF Socket
<1>3. CASE Handler
  BY <1>1, <1>3, CopySlots DEF Handler
<1>4. ASSUME NEW o \in Openers, Open(o)
      PROVE  SlotsInv'
  BY <1>1, <1>4, DialSlots, EnterSlots, ReadSlots, WriteSlots, ConnectFailsSlots, ConnectsSlots,
     MoveGrantSlots, SetNetworkSlots, SetOneShotSlots DEF Open
<1>5. CASE UNCHANGED vars
  BY <1>1, <1>5, NoneMoves DEF vars, lists, Made
<1> QED
  BY <1>2, <1>3, <1>4, <1>5 DEF Next

LEMMA SlotsInvHolds == NodesSpec => []SlotsInv
<1>1. SlotsInv /\ [Next]_vars => SlotsInv'
  BY StepSlots
<1> QED
  BY <1>1, InitSlots, PTL DEF NodesSpec

(* "if successful, this moves the passed grant to the constructed node"    *)
(* (net.cpp:1468): a slot is free, with one thread or with one node, and   *)
(* the sum of the three is MaxOutbound, however many threads open          *)
(* connections, unless a grant was moved to a freed object.                *)
THEOREM SlotsAddUp == NodesSpec => []GrantsAddUp
<1>1. SlotsInv => GrantsAddUp
  <2> SUFFICES ASSUME SlotsInv
               PROVE  GrantsAddUp
    OBVIOUS
  <2>1. Cardinality(InHand) \in Nat /\ Cardinality(Granted) \in Nat /\ free \in Nat
        /\ MaxOutbound \in Nat
    BY TheyAreFinite, NodesAssumption DEF SlotsInv, NodesInv, GrantsOK, NodesAssumption
  <2>2. free \in 0..MaxOutbound
    BY <2>1 DEF SlotsInv, GrantsOK, Slots
  <2>3. NodesTypeOK
    BY <2>2, MadeAreObjects DEF SlotsInv, NodesInv, GrantsOK, FieldsOK, ListsOK, NodesTypeOK
  <2> QED
    BY <2>3 DEF GrantsAddUp, SlotsInv, GrantsOK, Slots, InHand, Granted
<1> QED
  BY <1>1, SlotsInvHolds, PTL

-----------------------------------------------------------------------------
(* Addresses.                                                              *)

(* An entry, CAddrInfo.                                                    *)
Info == [service : Services, source : Sources, nRefCount : Int, fInTried : BOOLEAN,
         nRandomPos : Nat]

(* The manager with just these fields.                                     *)
Only(info, addr, order, new, tried, nNew, nTried) ==
    [mapInfo : {info}, mapAddr : {addr}, vRandom : {order}, vvNew : {new}, vvTried : {tried},
     nNew : {nNew}, nTried : {nTried}]

(* The types of the fields: every index holds ids of entries.              *)
IsManager(a) ==
    /\ a \in Only(a.mapInfo, a.mapAddr, a.vRandom, a.vvNew, a.vvTried, a.nNew, a.nTried)
    /\ DOMAIN a.mapInfo \subseteq Ids /\ a.mapInfo \in [DOMAIN a.mapInfo -> Info]
    /\ a.vRandom \in Seq(DOMAIN a.mapInfo)
    /\ a.vvNew \in [NewBuckets -> SUBSET DOMAIN a.mapInfo]
    /\ a.vvTried \in [TriedBuckets -> SUBSET DOMAIN a.mapInfo]
    /\ a.nNew \in Int /\ a.nTried \in Int

(* nRandomPos is where the entry is in vRandom, and every position is that *)
(* of the entry found there: the random order is a bijection.              *)
RandomOK(a) ==
    /\ \A n \in DOMAIN a.mapInfo :
          /\ a.mapInfo[n].nRandomPos \in 1..Len(a.vRandom)
          /\ a.vRandom[a.mapInfo[n].nRandomPos] = n
    /\ \A i \in 1..Len(a.vRandom) : a.mapInfo[a.vRandom[i]].nRandomPos = i

(* mapAddr finds every entry by its address, and nothing else.             *)
AddrOK(a) ==
    /\ DOMAIN a.mapAddr = {Address[a.mapInfo[n].service] : n \in DOMAIN a.mapInfo}
    /\ \A n \in DOMAIN a.mapInfo : a.mapAddr[Address[a.mapInfo[n].service]] = n

(* The tried entries, and the new ones.                                    *)
TriedIn(a) == {n \in DOMAIN a.mapInfo : a.mapInfo[n].fInTried}
NewIn(a) == {n \in DOMAIN a.mapInfo : ~a.mapInfo[n].fInTried}

(* nNew and nTried count the entries.                                      *)
TotalsOK(a) ==
    /\ Len(a.vRandom) = a.nNew + a.nTried
    /\ a.nTried = Cardinality(TriedIn(a)) /\ a.nNew = Cardinality(NewIn(a))

(* A tried entry is in the tried bucket of its service, no other entry is  *)
(* in one, and no such bucket is over its size.                            *)
TriedOK(a) ==
    /\ \A n \in DOMAIN a.mapInfo, b \in TriedBuckets :
          n \in a.vvTried[b] <=>
             a.mapInfo[n].fInTried /\ b = TriedBucket[a.mapInfo[n].service]
    /\ \A b \in TriedBuckets : Cardinality(a.vvTried[b]) <= MaxTriedBucket

(* What holds between the steps of every operation.                        *)
BaseOK(a) == IsManager(a) /\ RandomOK(a) /\ AddrOK(a) /\ TotalsOK(a) /\ TriedOK(a)

(* The new buckets an entry is in.                                         *)
PlacesOf(a, n) == {b \in NewBuckets : n \in a.vvNew[b]}

(* References are counted; a new entry has one at least.                   *)
EntryOK(a, n) ==
    /\ a.mapInfo[n].nRefCount = Cardinality(PlacesOf(a, n))
    /\ IF a.mapInfo[n].fInTried THEN PlacesOf(a, n) = {}
                                ELSE Cardinality(PlacesOf(a, n)) \in 1..MaxRefs

(* No new bucket is over its size.                                         *)
SizesOK(a) == \A b \in NewBuckets : Cardinality(a.vvNew[b]) <= MaxNewBucket

(* The inductive invariant.                                                *)
SoundOK(a) == BaseOK(a) /\ SizesOK(a) /\ \A n \in DOMAIN a.mapInfo : EntryOK(a, n)

(* A non-empty set of naturals has a least element.                        *)
LEMMA LeastOf ==
    ASSUME NEW T, T \subseteq Nat, T # {}
    PROVE  \E m \in T : \A k \in T : m <= k
<1> DEFINE R == OpToRel(<, Nat)
<1>1. \E m \in T : \A k \in T : ~(<<k, m>> \in R)
  <2>1. IsWellFoundedOn(R, Nat)
    BY NatLessThanWellFounded
  <2> HIDE DEF R
  <2> QED
    BY <2>1, WFMin
<1>2. PICK m \in T : \A k \in T : ~(<<k, m>> \in R)
  BY <1>1
<1>3. \A k \in T : ~(k < m)
  BY <1>2 DEF OpToRel
<1> QED
  BY <1>3

(* The inductive invariant is stronger than what Check_ tests.             *)
LEMMA SoundIsConsistent == SoundOK(am) => AddrManConsistent
<1> SUFFICES ASSUME SoundOK(am) PROVE AddrManConsistent
  OBVIOUS
<1> DEFINE ids == DOMAIN am.mapInfo
           tried == {n \in ids : am.mapInfo[n].fInTried}
           places(n) == {b \in NewBuckets : n \in am.vvNew[b]}
<1>1. ids \ tried = NewIn(am) /\ tried = TriedIn(am)
  BY DEF NewIn, TriedIn
<1>2. Len(am.vRandom) = am.nNew + am.nTried
      /\ am.nTried = Cardinality(tried) /\ am.nNew = Cardinality(ids \ tried)
  BY <1>1 DEF SoundOK, BaseOK, TotalsOK
<1>3. DOMAIN am.mapAddr = {Address[am.mapInfo[n].service] : n \in ids}
  BY DEF SoundOK, BaseOK, AddrOK
<1>4. ASSUME NEW n \in ids
      PROVE  /\ am.mapAddr[Address[am.mapInfo[n].service]] = n
             /\ am.mapInfo[n].nRandomPos \in DOMAIN am.vRandom
             /\ am.vRandom[am.mapInfo[n].nRandomPos] = n
             /\ am.mapInfo[n].nRefCount = Cardinality(places(n))
             /\ IF n \in tried THEN places(n) = {}
                               ELSE Cardinality(places(n)) \in 1..MaxRefs
             /\ \A b \in TriedBuckets :
                   n \in am.vvTried[b] <=> n \in tried /\ b = TriedBucket[am.mapInfo[n].service]
  <2>1. am.mapAddr[Address[am.mapInfo[n].service]] = n
    BY DEF SoundOK, BaseOK, AddrOK
  <2>2. /\ am.mapInfo[n].nRandomPos \in DOMAIN am.vRandom
        /\ am.vRandom[am.mapInfo[n].nRandomPos] = n
    BY DEF SoundOK, BaseOK, RandomOK, IsManager
  <2>3. /\ am.mapInfo[n].nRefCount = Cardinality(places(n))
        /\ IF n \in tried THEN places(n) = {}
                          ELSE Cardinality(places(n)) \in 1..MaxRefs
    BY DEF SoundOK, EntryOK, PlacesOf
  <2>4. \A b \in TriedBuckets :
           n \in am.vvTried[b] <=> n \in tried /\ b = TriedBucket[am.mapInfo[n].service]
    BY DEF SoundOK, BaseOK, TriedOK
  <2> QED
    BY <2>1, <2>2, <2>3, <2>4
<1>5. \A b \in NewBuckets : am.vvNew[b] \subseteq ids /\ Cardinality(am.vvNew[b]) <= MaxNewBucket
  BY DEF SoundOK, SizesOK, BaseOK, IsManager
<1>6. \A b \in TriedBuckets :
         am.vvTried[b] \subseteq ids /\ Cardinality(am.vvTried[b]) <= MaxTriedBucket
  BY DEF SoundOK, BaseOK, IsManager, TriedOK
<1> QED
  BY <1>2, <1>3, <1>4, <1>5, <1>6 DEF AddrManConsistent

(* The fields of a manager that is known by its fields.                    *)
LEMMA OnlyFields ==
    ASSUME NEW info, NEW addr, NEW order, NEW new, NEW tried, NEW nNew, NEW nTried,
           NEW a \in Only(info, addr, order, new, tried, nNew, nTried)
    PROVE  /\ a.mapInfo = info /\ a.mapAddr = addr /\ a.vRandom = order
           /\ a.vvNew = new /\ a.vvTried = tried /\ a.nNew = nNew /\ a.nTried = nTried
           /\ a \in Only(a.mapInfo, a.mapAddr, a.vRandom, a.vvNew, a.vvTried, a.nNew, a.nTried)
  BY DEF Only

(* There are as many ids as services.                                      *)
LEMMA IdsAreFinite ==
    /\ IsFiniteSet(Ids) /\ Ids \subseteq Nat \ {0}
    /\ Cardinality(Services) \in Nat /\ Cardinality(Ids) = Cardinality(Services)
<1>1. Cardinality(Services) \in Nat
  BY AddrManAssumption, FS_CardinalityType
<1>2. IsFiniteSet(Ids) /\ Cardinality(Ids) = Cardinality(Services)
  <2>1. IsFiniteSet(1..Cardinality(Services))
        /\ Cardinality(1..Cardinality(Services))
              = IF 1 > Cardinality(Services) THEN 0 ELSE Cardinality(Services) - 1 + 1
    BY <1>1, FS_Interval
  <2> QED
    BY <1>1, <2>1 DEF Ids
<1> QED
  BY <1>1, <1>2 DEF Ids

(* The new buckets of an entry can be counted.                             *)
LEMMA PlacesAreFinite ==
    ASSUME NEW a, NEW n
    PROVE  IsFiniteSet(PlacesOf(a, n)) /\ Cardinality(PlacesOf(a, n)) \in Nat
<1>1. PlacesOf(a, n) \in SUBSET NewBuckets
  BY DEF PlacesOf
<1>2. IsFiniteSet(PlacesOf(a, n))
  BY <1>1, FS_Subset, AddrManAssumption
<1> QED
  BY <1>2, FS_CardinalityType

(* Every set of ids can be counted.                                        *)
LEMMA BucketsAreFinite ==
    ASSUME NEW S, S \subseteq Ids
    PROVE  IsFiniteSet(S) /\ Cardinality(S) \in Nat
<1>1. IsFiniteSet(S)
  BY IdsAreFinite, FS_Subset
<1> QED
  BY <1>1, FS_CardinalityType

(* The empty manager is consistent.                                        *)
LEMMA InitSound == AddrManInit => SoundOK(am)
<1> SUFFICES ASSUME AddrManInit PROVE SoundOK(am)
  OBVIOUS
<1>1. /\ DOMAIN am.mapInfo = {} /\ DOMAIN am.mapAddr = {} /\ am.vRandom = << >>
      /\ am.mapInfo = [x \in {} |-> 0]
      /\ am.nNew = 0 /\ am.nTried = 0
      /\ am.vvNew = [b \in NewBuckets |-> {}] /\ am.vvTried = [b \in TriedBuckets |-> {}]
  BY DEF AddrManInit, Nothing
<1>2. IsManager(am)
  <2>1. am \in Only(am.mapInfo, am.mapAddr, am.vRandom, am.vvNew, am.vvTried, am.nNew, am.nTried)
    BY DEF AddrManInit, Only
  <2>2. am.mapInfo \in [DOMAIN am.mapInfo -> Info]
    BY <1>1
  <2> QED
    BY <1>1, <2>1, <2>2 DEF IsManager
<1>3. TriedIn(am) = {} /\ NewIn(am) = {}
  BY <1>1 DEF TriedIn, NewIn
<1>4. Len(am.vRandom) = 0
  BY <1>1
<1>5. RandomOK(am) /\ AddrOK(am)
  BY <1>1, <1>4 DEF RandomOK, AddrOK
<1>6. TotalsOK(am) /\ TriedOK(am) /\ SizesOK(am)
  BY <1>1, <1>3, <1>4, FS_EmptySet, AddrManAssumption DEF TotalsOK, TriedOK, SizesOK
<1> QED
  BY <1>1, <1>2, <1>5, <1>6 DEF SoundOK, BaseOK

(* Only the references and the new buckets differ.                         *)
Alike(a, c) ==
    /\ c \in Only(c.mapInfo, a.mapAddr, a.vRandom, c.vvNew, a.vvTried, a.nNew, a.nTried)
    /\ DOMAIN c.mapInfo = DOMAIN a.mapInfo /\ c.mapInfo \in [DOMAIN a.mapInfo -> Info]
    /\ \A n \in DOMAIN a.mapInfo :
          /\ c.mapInfo[n].service = a.mapInfo[n].service
          /\ c.mapInfo[n].source = a.mapInfo[n].source
          /\ c.mapInfo[n].fInTried = a.mapInfo[n].fInTried
          /\ c.mapInfo[n].nRandomPos = a.mapInfo[n].nRandomPos
    /\ c.vvNew \in [NewBuckets -> SUBSET DOMAIN a.mapInfo]

(* Such a change keeps the random order, mapAddr and the tried buckets     *)
(* consistent.                                                             *)
LEMMA AlikeBase ==
    ASSUME NEW a, NEW c, BaseOK(a), Alike(a, c)
    PROVE  BaseOK(c)
<1>1. /\ DOMAIN c.mapInfo = DOMAIN a.mapInfo
      /\ c.mapAddr = a.mapAddr /\ c.vRandom = a.vRandom /\ c.vvTried = a.vvTried
      /\ c.nNew = a.nNew /\ c.nTried = a.nTried
  BY OnlyFields DEF Alike
<1>2. \A n \in DOMAIN a.mapInfo :
          /\ c.mapInfo[n].service = a.mapInfo[n].service
          /\ c.mapInfo[n].fInTried = a.mapInfo[n].fInTried
          /\ c.mapInfo[n].nRandomPos = a.mapInfo[n].nRandomPos
  BY DEF Alike
<1>3. IsManager(c)
  BY <1>1 DEF Alike, BaseOK, IsManager
<1>4. a.vRandom \in Seq(DOMAIN a.mapInfo)
  BY DEF BaseOK, IsManager
<1>5. RandomOK(c)
  BY <1>1, <1>2, <1>4 DEF BaseOK, RandomOK
<1>6. AddrOK(c)
  BY <1>1, <1>2 DEF BaseOK, AddrOK
<1>7. TriedIn(c) = TriedIn(a) /\ NewIn(c) = NewIn(a)
  BY <1>1, <1>2 DEF TriedIn, NewIn
<1>8. TotalsOK(c) /\ TriedOK(c)
  BY <1>1, <1>2, <1>7 DEF BaseOK, TotalsOK, TriedOK
<1> QED
  BY <1>3, <1>5, <1>6, <1>8 DEF BaseOK

(* Nothing is moved but places in the random order.                        *)
Moved(a, c) ==
    /\ c \in Only(c.mapInfo, a.mapAddr, c.vRandom, a.vvNew, a.vvTried, a.nNew, a.nTried)
    /\ DOMAIN c.mapInfo = DOMAIN a.mapInfo /\ c.mapInfo \in [DOMAIN a.mapInfo -> Info]
    /\ \A n \in DOMAIN a.mapInfo :
          /\ c.mapInfo[n].service = a.mapInfo[n].service
          /\ c.mapInfo[n].source = a.mapInfo[n].source
          /\ c.mapInfo[n].fInTried = a.mapInfo[n].fInTried
          /\ c.mapInfo[n].nRefCount = a.mapInfo[n].nRefCount
    /\ c.vRandom \in Seq(DOMAIN a.mapInfo) /\ Len(c.vRandom) = Len(a.vRandom)

(* SwapRandom moves two entries in the random order and keeps the order a  *)
(* bijection, also when both positions are the same.                       *)
LEMMA SwapMoves ==
    ASSUME NEW a, IsManager(a), RandomOK(a),
           NEW i \in 1..Len(a.vRandom), NEW j \in 1..Len(a.vRandom)
    PROVE  /\ Moved(a, SwapRandom(a, i, j)) /\ RandomOK(SwapRandom(a, i, j))
           /\ SwapRandom(a, i, j).vRandom[j] = a.vRandom[i]
<1> DEFINE v == a.vRandom
           info == [a.mapInfo EXCEPT ![v[i]].nRandomPos = j, ![v[j]].nRandomPos = i]
           order == [v EXCEPT ![i] = v[j], ![j] = v[i]]
           c == SwapRandom(a, i, j)
<1>1. c \in Only(info, a.mapAddr, order, a.vvNew, a.vvTried, a.nNew, a.nTried)
  BY DEF SwapRandom, IsManager, Only
<1>0. c.mapInfo = info /\ c.vRandom = order
  <2> HIDE DEF info, order, c
  <2> QED
    BY <1>1, OnlyFields
<1>2. v \in Seq(DOMAIN a.mapInfo) /\ Len(v) \in Nat /\ DOMAIN v = 1..Len(v)
  BY DEF IsManager
<1>3. v[i] \in DOMAIN a.mapInfo /\ v[j] \in DOMAIN a.mapInfo
  BY <1>2
<1>4. a.mapInfo \in [DOMAIN a.mapInfo -> Info]
  BY DEF IsManager
<1>5. ASSUME NEW n \in DOMAIN a.mapInfo
      PROVE  /\ info[n] \in Info
             /\ info[n].service = a.mapInfo[n].service /\ info[n].source = a.mapInfo[n].source
             /\ info[n].nRefCount = a.mapInfo[n].nRefCount
             /\ info[n].fInTried = a.mapInfo[n].fInTried
             /\ info[n].nRandomPos = IF n = v[j] THEN i
                                     ELSE IF n = v[i] THEN j ELSE a.mapInfo[n].nRandomPos
  <2>1. a.mapInfo[n] \in Info /\ i \in Nat /\ j \in Nat
    BY <1>2, <1>4
  <2>2. CASE n = v[j]
    <3>1. info[n] = [[a.mapInfo EXCEPT ![v[i]].nRandomPos = j][n] EXCEPT !.nRandomPos = i]
      BY <1>4, <2>2
    <3> HIDE DEF info
    <3>2. [a.mapInfo EXCEPT ![v[i]].nRandomPos = j][n] \in Info
      BY <1>4, <2>1 DEF Info
    <3> QED
      BY <1>4, <2>1, <2>2, <3>1, <3>2 DEF Info
  <2>3. CASE n # v[j] /\ n = v[i]
    <3>1. info[n] = [a.mapInfo[n] EXCEPT !.nRandomPos = j]
      BY <1>4, <2>3
    <3> HIDE DEF info
    <3> QED
      BY <2>1, <2>3, <3>1 DEF Info
  <2>4. CASE n # v[j] /\ n # v[i]
    <3>1. info[n] = a.mapInfo[n]
      BY <1>4, <2>4
    <3> HIDE DEF info
    <3> QED
      BY <2>1, <2>4, <3>1
  <2> QED
    BY <2>2, <2>3, <2>4
<1>6. DOMAIN info = DOMAIN a.mapInfo /\ info \in [DOMAIN a.mapInfo -> Info]
  <2>1. info = [n \in DOMAIN a.mapInfo |-> info[n]]
    BY <1>4
  <2> HIDE DEF info
  <2> QED
    BY <1>5, <2>1
<1>7. order \in Seq(DOMAIN a.mapInfo) /\ Len(order) = Len(v)
  BY <1>2, <1>3
<1>8. \A k \in 1..Len(v) : order[k] = IF k = j THEN v[i] ELSE IF k = i THEN v[j] ELSE v[k]
  BY <1>2
<1>9. Moved(a, c)
  <2> HIDE DEF info, order, c
  <2>1. c \in Only(c.mapInfo, a.mapAddr, c.vRandom, a.vvNew, a.vvTried, a.nNew, a.nTried)
    BY <1>0, <1>1
  <2>2. \A n \in DOMAIN a.mapInfo :
          /\ info[n].service = a.mapInfo[n].service
          /\ info[n].source = a.mapInfo[n].source
          /\ info[n].fInTried = a.mapInfo[n].fInTried
          /\ info[n].nRefCount = a.mapInfo[n].nRefCount
    BY <1>5
  <2> QED
    BY <1>0, <1>6, <1>7, <2>1, <2>2 DEF Moved
<1>10. RandomOK(c)
  <2> HIDE DEF info, order, c
  <2>2. ASSUME NEW n \in DOMAIN info
        PROVE  info[n].nRandomPos \in 1..Len(order) /\ order[info[n].nRandomPos] = n
    <3>1. n \in DOMAIN a.mapInfo
      BY <1>6
    <3>2. a.mapInfo[n].nRandomPos \in 1..Len(v) /\ v[a.mapInfo[n].nRandomPos] = n
      BY <3>1 DEF RandomOK
    <3>3. info[n].nRandomPos = IF n = v[j] THEN i
                               ELSE IF n = v[i] THEN j ELSE a.mapInfo[n].nRandomPos
      BY <1>5, <3>1
    <3> QED
      BY <1>7, <1>8, <3>2, <3>3
  <2>3. ASSUME NEW k \in 1..Len(order)
        PROVE  info[order[k]].nRandomPos = k
    <3>1. k \in 1..Len(v)
      BY <1>7
    <3>2. v[k] \in DOMAIN a.mapInfo /\ a.mapInfo[v[k]].nRandomPos = k
      BY <1>2, <3>1 DEF RandomOK
    <3>3. a.mapInfo[v[i]].nRandomPos = i /\ a.mapInfo[v[j]].nRandomPos = j
      BY DEF RandomOK
    <3>4. order[k] \in DOMAIN a.mapInfo
             /\ order[k] = IF k = j THEN v[i] ELSE IF k = i THEN v[j] ELSE v[k]
      BY <1>3, <1>8, <3>1, <3>2
    <3>5. info[order[k]].nRandomPos = IF order[k] = v[j] THEN i ELSE
             IF order[k] = v[i] THEN j ELSE a.mapInfo[order[k]].nRandomPos
      BY <1>5, <3>4
    <3> QED
      BY <3>2, <3>3, <3>4, <3>5
  <2> QED
    BY <1>0, <2>2, <2>3 DEF RandomOK
<1>11. c.vRandom[j] = v[i]
  BY <1>0, <1>8
<1> QED
  BY <1>9, <1>10, <1>11

(* The other indexes do not depend on the random order.                    *)
LEMMA MovedKeeps ==
    ASSUME NEW a, NEW c, IsManager(a), AddrOK(a), TotalsOK(a), TriedOK(a), Moved(a, c), RandomOK(c)
    PROVE  BaseOK(c)
<1>1. /\ DOMAIN c.mapInfo = DOMAIN a.mapInfo
      /\ c.mapAddr = a.mapAddr /\ c.vvNew = a.vvNew /\ c.vvTried = a.vvTried
      /\ c.nNew = a.nNew /\ c.nTried = a.nTried /\ Len(c.vRandom) = Len(a.vRandom)
  BY OnlyFields DEF Moved
<1>2. \A n \in DOMAIN a.mapInfo :
          /\ c.mapInfo[n].service = a.mapInfo[n].service
          /\ c.mapInfo[n].fInTried = a.mapInfo[n].fInTried
  BY DEF Moved
<1>3. IsManager(c)
  BY <1>1 DEF Moved, IsManager
<1>4. AddrOK(c)
  BY <1>1, <1>2 DEF AddrOK
<1>5. TriedIn(c) = TriedIn(a) /\ NewIn(c) = NewIn(a)
  BY <1>1, <1>2 DEF TriedIn, NewIn
<1>6. TotalsOK(c) /\ TriedOK(c)
  BY <1>1, <1>2, <1>5 DEF TotalsOK, TriedOK
<1> QED
  BY <1>3, <1>4, <1>6 DEF BaseOK

(* Entries that only move stay consistent.                                 *)
LEMMA MovedSound ==
    ASSUME NEW a, NEW c, SoundOK(a), Moved(a, c), RandomOK(c)
    PROVE  SoundOK(c)
<1>1. BaseOK(c)
  BY MovedKeeps DEF SoundOK, BaseOK
<1>2. c.vvNew = a.vvNew /\ DOMAIN c.mapInfo = DOMAIN a.mapInfo
      /\ \A n \in DOMAIN a.mapInfo : c.mapInfo[n].nRefCount = a.mapInfo[n].nRefCount
                                     /\ c.mapInfo[n].fInTried = a.mapInfo[n].fInTried
  BY OnlyFields DEF Moved
<1>3. SizesOK(c)
  BY <1>2 DEF SoundOK, SizesOK
<1>4. \A n \in DOMAIN a.mapInfo : PlacesOf(c, n) = PlacesOf(a, n)
  BY <1>2 DEF PlacesOf
<1>5. \A n \in DOMAIN c.mapInfo : EntryOK(c, n)
  BY <1>2, <1>4 DEF SoundOK, EntryOK
<1> QED
  BY <1>1, <1>3, <1>5 DEF SoundOK

(* The first k elements of a sequence.                                     *)
LEMMA Prefix ==
    ASSUME NEW S, NEW q \in Seq(S), NEW k \in 0..Len(q)
    PROVE  /\ SubSeq(q, 1, k) \in Seq(S) /\ Len(SubSeq(q, 1, k)) = k
           /\ \A i \in 1..k : SubSeq(q, 1, k)[i] = q[i]
<1>1. \A i \in 1..k : q[i] \in S
  OBVIOUS
<1>2. k \in Int /\ 1 \in Int
  OBVIOUS
<1>3. /\ SubSeq(q, 1, k) \in Seq(S)
      /\ Len(SubSeq(q, 1, k)) = IF 1 <= k THEN k - 1 + 1 ELSE 0
      /\ \A i \in 1 .. k - 1 + 1 : SubSeq(q, 1, k)[i] = q[1 + i - 1]
  BY <1>1, <1>2, SubSeqProperties
<1> QED
  BY <1>3

(* Delete of an entry without places keeps the indexes consistent, and     *)
(* takes away nothing but this entry.                                      *)
LEMMA DeleteKeeps ==
    ASSUME NEW a, BaseOK(a), NEW n \in DOMAIN a.mapInfo, ~a.mapInfo[n].fInTried,
           \A b \in NewBuckets : n \notin a.vvNew[b]
    PROVE  LET d == Delete(a, n) IN
           /\ BaseOK(d)
           /\ DOMAIN d.mapInfo = DOMAIN a.mapInfo \ {n}
           /\ \A m \in DOMAIN a.mapInfo \ {n} :
                 /\ d.mapInfo[m].service = a.mapInfo[m].service
                 /\ d.mapInfo[m].source = a.mapInfo[m].source
                 /\ d.mapInfo[m].fInTried = a.mapInfo[m].fInTried
                 /\ d.mapInfo[m].nRefCount = a.mapInfo[m].nRefCount
           /\ d.vvNew = a.vvNew
<1> DEFINE pos == a.mapInfo[n].nRandomPos
           last == SwapRandom(a, pos, Len(a.vRandom))
           d == Delete(a, n)
           D == DOMAIN a.mapInfo
           addr == Address[a.mapInfo[n].service]
<1>1. /\ IsManager(a) /\ RandomOK(a) /\ AddrOK(a) /\ TotalsOK(a) /\ TriedOK(a)
      /\ pos \in 1..Len(a.vRandom) /\ a.vRandom[pos] = n
      /\ Len(a.vRandom) \in 1..Len(a.vRandom)
  <2>1. IsManager(a) /\ RandomOK(a) /\ AddrOK(a) /\ TotalsOK(a) /\ TriedOK(a)
    BY DEF BaseOK
  <2>2. pos \in 1..Len(a.vRandom) /\ a.vRandom[pos] = n
    BY <2>1 DEF RandomOK
  <2>3. Len(a.vRandom) \in Nat
    BY <2>1 DEF IsManager
  <2> QED
    BY <2>1, <2>2, <2>3
<1>2. Moved(a, last) /\ RandomOK(last) /\ last.vRandom[Len(a.vRandom)] = n
  BY <1>1, SwapMoves
<1>3. BaseOK(last)
  BY <1>1, <1>2, MovedKeeps
<1>4. /\ last.mapAddr = a.mapAddr /\ last.vvNew = a.vvNew /\ last.vvTried = a.vvTried
      /\ last.nNew = a.nNew /\ last.nTried = a.nTried /\ Len(last.vRandom) = Len(a.vRandom)
      /\ DOMAIN last.mapInfo = D
  BY <1>2, OnlyFields DEF Moved
<1>5. d \in Only(Without(last.mapInfo, n), Without(last.mapAddr, addr), Front(last.vRandom),
                 last.vvNew, last.vvTried, last.nNew - 1, last.nTried)
  <2>1. last \in Only(last.mapInfo, last.mapAddr, last.vRandom, last.vvNew, last.vvTried,
                      last.nNew, last.nTried)
    BY <1>3 DEF BaseOK, IsManager
  <2>2. d = [last EXCEPT !.vRandom = Front(last.vRandom),
                     !.mapAddr = Without(last.mapAddr, addr),
                     !.mapInfo = Without(last.mapInfo, n), !.nNew = @ - 1]
    BY DEF Delete
  <2> HIDE DEF d, last
  <2> QED
    BY <2>1, <2>2 DEF Only
<1> HIDE DEF d, last
<1>6. /\ d.mapInfo = Without(last.mapInfo, n) /\ d.mapAddr = Without(last.mapAddr, addr)
      /\ d.vRandom = Front(last.vRandom) /\ d.vvNew = last.vvNew /\ d.vvTried = last.vvTried
      /\ d.nNew = last.nNew - 1 /\ d.nTried = last.nTried
      /\ d \in Only(d.mapInfo, d.mapAddr, d.vRandom, d.vvNew, d.vvTried, d.nNew, d.nTried)
  BY <1>5, OnlyFields
<1>7. /\ DOMAIN d.mapInfo = D \ {n} /\ \A m \in D \ {n} : d.mapInfo[m] = last.mapInfo[m]
      /\ d.mapInfo \in [DOMAIN d.mapInfo -> Info] /\ D \subseteq Ids
  <2>1. last.mapInfo \in [D -> Info] /\ D \subseteq Ids
    BY <1>3, <1>4 DEF BaseOK, IsManager
  <2>2. DOMAIN d.mapInfo = D \ {n} /\ \A m \in D \ {n} : d.mapInfo[m] = last.mapInfo[m]
    BY <1>4, <1>6 DEF Without
  <2>3. d.mapInfo = [m \in D \ {n} |-> last.mapInfo[m]]
    BY <1>4, <1>6 DEF Without
  <2> QED
    BY <2>1, <2>2, <2>3
<1>8. \A m \in D :
         /\ last.mapInfo[m].service = a.mapInfo[m].service
         /\ last.mapInfo[m].source = a.mapInfo[m].source
         /\ last.mapInfo[m].fInTried = a.mapInfo[m].fInTried
         /\ last.mapInfo[m].nRefCount = a.mapInfo[m].nRefCount
  BY <1>2 DEF Moved
<1>9. /\ d.vRandom \in Seq(D) /\ Len(d.vRandom) = Len(a.vRandom) - 1
      /\ Len(d.vRandom) \in Nat /\ Len(a.vRandom) \in Nat
      /\ \A i \in 1..Len(d.vRandom) : d.vRandom[i] = last.vRandom[i]
  <2>1. last.vRandom \in Seq(D) /\ Len(a.vRandom) \in Nat \ {0}
    BY <1>1, <1>3, <1>4 DEF BaseOK, IsManager
  <2> DEFINE q == last.vRandom
             k == Len(a.vRandom) - 1
  <2>2. d.vRandom = SubSeq(q, 1, k)
    BY <1>4, <1>6 DEF Front
  <2>3. q \in Seq(D) /\ 1 \in 1..Len(q) + 1 /\ k \in 0..Len(q) /\ k \in Nat
    BY <1>4, <2>1
  <2> HIDE DEF q, k
  <2>4. SubSeq(q, 1, k) \in Seq(D) /\ Len(SubSeq(q, 1, k)) = k
        /\ \A i \in 1..k : SubSeq(q, 1, k)[i] = q[i]
    BY <2>3, Prefix
  <2> QED
    BY <2>1, <2>2, <2>3, <2>4 DEF k, q
<1>10. \A i \in 1..Len(d.vRandom) : last.vRandom[i] \in D \ {n} /\ last.mapInfo[last.vRandom[i]].nRandomPos = i
  <2>1. \A i \in 1..Len(a.vRandom) : last.mapInfo[last.vRandom[i]].nRandomPos = i
    BY <1>2, <1>4 DEF RandomOK
  <2>2. last.mapInfo[n].nRandomPos = Len(a.vRandom)
    BY <1>1, <1>2, <2>1
  <2>3. ASSUME NEW i \in 1..Len(d.vRandom)
        PROVE  last.vRandom[i] \in D \ {n} /\ last.mapInfo[last.vRandom[i]].nRandomPos = i
    <3>1. i \in 1..Len(a.vRandom) /\ i # Len(a.vRandom)
      BY <1>9
    <3>2. last.mapInfo[last.vRandom[i]].nRandomPos = i
      BY <2>1, <3>1
    <3>3. d.vRandom[i] \in D
      BY <1>9
    <3> QED
      BY <1>9, <2>2, <3>1, <3>2, <3>3
  <2> QED
    BY <2>3
<1>11. d.vRandom \in Seq(D \ {n})
  <2>1. d.vRandom = [i \in 1..Len(d.vRandom) |-> d.vRandom[i]]
    BY <1>9
  <2>2. \A i \in 1..Len(d.vRandom) : d.vRandom[i] \in D \ {n}
    BY <1>9, <1>10
  <2> QED
    BY <1>9, <2>1, <2>2, IsASeq
<1>12. IsManager(d)
  <2>1. d.vvNew \in [NewBuckets -> SUBSET (D \ {n})]
    <3>1. a.vvNew \in [NewBuckets -> SUBSET D]
      BY <1>1 DEF IsManager
    <3> QED
      BY <1>4, <1>6, <3>1
  <2>2. d.vvTried \in [TriedBuckets -> SUBSET (D \ {n})]
    <3>1. a.vvTried \in [TriedBuckets -> SUBSET D]
      BY <1>1 DEF IsManager
    <3>2. \A b \in TriedBuckets : n \notin a.vvTried[b]
      BY <1>1 DEF TriedOK
    <3> QED
      BY <1>4, <1>6, <3>1, <3>2
  <2>3. d.nNew \in Int /\ d.nTried \in Int
    BY <1>1, <1>4, <1>6 DEF IsManager
  <2> QED
    BY <1>6, <1>7, <1>11, <2>1, <2>2, <2>3 DEF IsManager
<1>13. RandomOK(d)
  <2>1. ASSUME NEW m \in D \ {n}
        PROVE  /\ d.mapInfo[m].nRandomPos \in 1..Len(d.vRandom)
               /\ d.vRandom[d.mapInfo[m].nRandomPos] = m
    <3>1. last.mapInfo[m].nRandomPos \in 1..Len(a.vRandom)
             /\ last.vRandom[last.mapInfo[m].nRandomPos] = m
      BY <1>2, <1>4 DEF RandomOK
    <3>2. last.mapInfo[m].nRandomPos # Len(a.vRandom)
      BY <1>2, <3>1
    <3>3. last.mapInfo[m].nRandomPos \in 1..Len(d.vRandom)
      BY <1>9, <3>1, <3>2
    <3> QED
      BY <1>7, <1>9, <3>1, <3>3
  <2>2. \A i \in 1..Len(d.vRandom) : d.mapInfo[d.vRandom[i]].nRandomPos = i
    BY <1>7, <1>9, <1>10
  <2> QED
    BY <1>7, <2>1, <2>2 DEF RandomOK
<1>14. AddrOK(d)
  <2>1. /\ DOMAIN a.mapAddr = {Address[a.mapInfo[m].service] : m \in D}
        /\ \A m \in D : a.mapAddr[Address[a.mapInfo[m].service]] = m
    BY <1>1 DEF AddrOK
  <2>2. \A m \in D \ {n} : d.mapInfo[m].service = a.mapInfo[m].service
    BY <1>7, <1>8
  <2>3. DOMAIN d.mapAddr = DOMAIN a.mapAddr \ {addr}
        /\ \A x \in DOMAIN a.mapAddr \ {addr} : d.mapAddr[x] = a.mapAddr[x]
    BY <1>4, <1>6 DEF Without
  <2>4. \A m \in D \ {n} : Address[a.mapInfo[m].service] # addr
    BY <2>1
  <2>5. DOMAIN d.mapAddr = {Address[a.mapInfo[m].service] : m \in D \ {n}}
    BY <2>1, <2>3, <2>4
  <2>6. DOMAIN d.mapAddr = {Address[d.mapInfo[m].service] : m \in D \ {n}}
    BY <2>2, <2>5
  <2>7. \A m \in D \ {n} : d.mapAddr[Address[a.mapInfo[m].service]] = m
    BY <2>1, <2>3, <2>4
  <2> QED
    BY <1>7, <2>2, <2>6, <2>7 DEF AddrOK
<1>15. TotalsOK(d)
  <2>1. TriedIn(d) = TriedIn(a) /\ NewIn(d) = NewIn(a) \ {n} /\ n \in NewIn(a)
    BY <1>7, <1>8 DEF TriedIn, NewIn
  <2>2. IsFiniteSet(NewIn(a)) /\ Cardinality(NewIn(a)) \in Nat
    BY <1>7, BucketsAreFinite DEF NewIn
  <2>3. Cardinality(NewIn(a) \ {n}) = Cardinality(NewIn(a)) - 1
    BY <2>1, <2>2, FS_RemoveElement
  <2>4. a.nTried = Cardinality(TriedIn(a)) /\ a.nNew = Cardinality(NewIn(a))
        /\ Len(a.vRandom) = a.nNew + a.nTried /\ a.nNew \in Int /\ a.nTried \in Int
    BY <1>1 DEF TotalsOK, IsManager
  <2> QED
    BY <1>4, <1>6, <1>9, <2>1, <2>3, <2>4 DEF TotalsOK
<1>16. TriedOK(d)
  BY <1>1, <1>4, <1>6, <1>7, <1>8 DEF TriedOK
<1> QED
  BY <1>4, <1>6, <1>7, <1>8, <1>12, <1>13, <1>14, <1>15, <1>16 DEF BaseOK, d

(* Create adds an entry that has no place yet, and nothing else.           *)
LEMMA CreateKeeps ==
    ASSUME NEW a, BaseOK(a), NEW n \in Ids \ DOMAIN a.mapInfo, NEW s \in Services,
           NEW source \in Sources, Address[s] \notin DOMAIN a.mapAddr
    PROVE  LET c == Create(a, n, s, source) IN
           /\ BaseOK(c)
           /\ DOMAIN c.mapInfo = DOMAIN a.mapInfo \cup {n}
           /\ \A m \in DOMAIN a.mapInfo : c.mapInfo[m] = a.mapInfo[m]
           /\ c.mapInfo[n].service = s /\ c.mapInfo[n].source = source
           /\ c.mapInfo[n].nRefCount = 0 /\ ~c.mapInfo[n].fInTried
           /\ c.vvNew = a.vvNew
<1> DEFINE D == DOMAIN a.mapInfo
           c == Create(a, n, s, source)
           new == [service |-> s, source |-> source, nRefCount |-> 0,
                   fInTried |-> FALSE, nRandomPos |-> Len(a.vRandom) + 1]
<1>1. /\ IsManager(a) /\ RandomOK(a) /\ AddrOK(a) /\ TotalsOK(a) /\ TriedOK(a)
      /\ D \subseteq Ids /\ a.mapInfo \in [D -> Info] /\ a.vRandom \in Seq(D)
      /\ Len(a.vRandom) \in Nat
  BY DEF BaseOK, IsManager
<1>2. c \in Only(With(a.mapInfo, n, new), With(a.mapAddr, Address[s], n), Append(a.vRandom, n),
                 a.vvNew, a.vvTried, a.nNew + 1, a.nTried)
  <2>1. a \in Only(a.mapInfo, a.mapAddr, a.vRandom, a.vvNew, a.vvTried, a.nNew, a.nTried)
    BY <1>1 DEF IsManager
  <2>2. c = [a EXCEPT !.mapInfo = With(@, n, new), !.mapAddr = With(@, Address[s], n),
                      !.vRandom = Append(@, n), !.nNew = @ + 1]
    BY DEF Create
  <2> HIDE DEF c, new
  <2> QED
    BY <2>1, <2>2 DEF Only
<1>3. /\ new.service = s /\ new.source = source /\ new.nRefCount = 0 /\ ~new.fInTried
      /\ new.nRandomPos = Len(a.vRandom) + 1 /\ new \in Info
  BY <1>1 DEF Info
<1> HIDE DEF c, new
<1>4. /\ c.mapInfo = With(a.mapInfo, n, new) /\ c.mapAddr = With(a.mapAddr, Address[s], n)
      /\ c.vRandom = Append(a.vRandom, n) /\ c.vvNew = a.vvNew /\ c.vvTried = a.vvTried
      /\ c.nNew = a.nNew + 1 /\ c.nTried = a.nTried
      /\ c \in Only(c.mapInfo, c.mapAddr, c.vRandom, c.vvNew, c.vvTried, c.nNew, c.nTried)
  BY <1>2 DEF Only
<1>5. /\ DOMAIN c.mapInfo = D \cup {n} /\ c.mapInfo[n] = new
      /\ \A m \in D : c.mapInfo[m] = a.mapInfo[m]
      /\ c.mapInfo \in [DOMAIN c.mapInfo -> Info]
  <2>1. DOMAIN c.mapInfo = D \cup {n} /\ c.mapInfo[n] = new
        /\ \A m \in D : c.mapInfo[m] = a.mapInfo[m]
    BY <1>4 DEF With
  <2>2. c.mapInfo = [m \in D \cup {n} |-> IF m = n THEN new ELSE a.mapInfo[m]]
    BY <1>4 DEF With
  <2> QED
    BY <1>1, <1>3, <2>1, <2>2
<1>6. /\ c.vRandom \in Seq(D \cup {n}) /\ Len(c.vRandom) = Len(a.vRandom) + 1
      /\ c.vRandom[Len(a.vRandom) + 1] = n
      /\ \A i \in 1..Len(a.vRandom) : c.vRandom[i] = a.vRandom[i] /\ a.vRandom[i] \in D
  BY <1>1, <1>4
<1>7. IsManager(c)
  <2>1. c.vvNew \in [NewBuckets -> SUBSET (D \cup {n})]
        /\ c.vvTried \in [TriedBuckets -> SUBSET (D \cup {n})]
        /\ c.nNew \in Int /\ c.nTried \in Int
    BY <1>1, <1>4 DEF IsManager
  <2> QED
    BY <1>1, <1>4, <1>5, <1>6, <2>1 DEF IsManager
<1>8. RandomOK(c)
  <2>1. ASSUME NEW m \in D \cup {n}
        PROVE  /\ c.mapInfo[m].nRandomPos \in 1..Len(c.vRandom)
               /\ c.vRandom[c.mapInfo[m].nRandomPos] = m
    <3>1. CASE m = n
      BY <1>1, <1>3, <1>5, <1>6, <3>1
    <3>2. CASE m \in D
      <4>1. a.mapInfo[m].nRandomPos \in 1..Len(a.vRandom)
            /\ a.vRandom[a.mapInfo[m].nRandomPos] = m
        BY <1>1, <3>2 DEF RandomOK
      <4> QED
        BY <1>1, <1>5, <1>6, <3>2, <4>1
    <3> QED
      BY <3>1, <3>2
  <2>2. ASSUME NEW i \in 1..Len(c.vRandom)
        PROVE  c.mapInfo[c.vRandom[i]].nRandomPos = i
    <3>1. CASE i = Len(a.vRandom) + 1
      BY <1>3, <1>5, <1>6, <3>1
    <3>2. CASE i \in 1..Len(a.vRandom)
      <4>1. a.mapInfo[a.vRandom[i]].nRandomPos = i
        BY <1>1, <3>2 DEF RandomOK
      <4> QED
        BY <1>5, <1>6, <3>2, <4>1
    <3> QED
      BY <1>1, <1>6, <3>1, <3>2
  <2> QED
    BY <1>5, <2>1, <2>2 DEF RandomOK
<1>9. AddrOK(c)
  <2>1. /\ DOMAIN a.mapAddr = {Address[a.mapInfo[m].service] : m \in D}
        /\ \A m \in D : a.mapAddr[Address[a.mapInfo[m].service]] = m
    BY <1>1 DEF AddrOK
  <2>2. DOMAIN c.mapAddr = DOMAIN a.mapAddr \cup {Address[s]} /\ c.mapAddr[Address[s]] = n
        /\ \A x \in DOMAIN a.mapAddr : c.mapAddr[x] = a.mapAddr[x]
    BY <1>4 DEF With
  <2>3. c.mapInfo[n].service = s /\ \A m \in D : c.mapInfo[m].service = a.mapInfo[m].service
    BY <1>3, <1>5
  <2>4. DOMAIN c.mapAddr = {Address[c.mapInfo[m].service] : m \in D \cup {n}}
    BY <2>1, <2>2, <2>3
  <2> QED
    BY <1>5, <2>1, <2>2, <2>3, <2>4 DEF AddrOK
<1>10. TotalsOK(c)
  <2>1. TriedIn(c) = TriedIn(a) /\ NewIn(c) = NewIn(a) \cup {n} /\ n \notin NewIn(a)
    BY <1>3, <1>5 DEF TriedIn, NewIn
  <2>2. IsFiniteSet(NewIn(a)) /\ Cardinality(NewIn(a)) \in Nat
    BY <1>1, BucketsAreFinite DEF NewIn
  <2>3. Cardinality(NewIn(a) \cup {n}) = Cardinality(NewIn(a)) + 1
    BY <2>1, <2>2, FS_AddElement
  <2>4. a.nTried = Cardinality(TriedIn(a)) /\ a.nNew = Cardinality(NewIn(a))
        /\ Len(a.vRandom) = a.nNew + a.nTried /\ a.nNew \in Int /\ a.nTried \in Int
    BY <1>1 DEF TotalsOK, IsManager
  <2> QED
    BY <1>4, <1>6, <2>1, <2>3, <2>4 DEF TotalsOK
<1>11. TriedOK(c)
  <2>1. a.vvTried \in [TriedBuckets -> SUBSET D]
    BY <1>1 DEF IsManager
  <2>2. \A b \in TriedBuckets : n \notin a.vvTried[b]
    BY <2>1
  <2> QED
    BY <1>1, <1>3, <1>4, <1>5, <2>2 DEF TriedOK
<1> QED
  BY <1>3, <1>4, <1>5, <1>7, <1>8, <1>9, <1>10, <1>11 DEF BaseOK, c

(* An unknown address leaves an id free, since there are as many ids as    *)
(* services.                                                               *)
LEMMA FreeId ==
    ASSUME NEW a, BaseOK(a), NEW s \in Services, Address[s] \notin DOMAIN a.mapAddr
    PROVE  Min(Ids \ DOMAIN a.mapInfo) \in Ids \ DOMAIN a.mapInfo
<1> DEFINE D == DOMAIN a.mapInfo
           f == [n \in D |-> a.mapInfo[n].service]
<1>1. D \subseteq Ids /\ a.mapInfo \in [D -> Info]
      /\ DOMAIN a.mapAddr = {Address[a.mapInfo[m].service] : m \in D}
      /\ \A m \in D : a.mapAddr[Address[a.mapInfo[m].service]] = m
  BY DEF BaseOK, IsManager, AddrOK
<1>2. IsFiniteSet(Services) /\ IsFiniteSet(Services \ {s})
      /\ Cardinality(Services \ {s}) = Cardinality(Services) - 1
  BY AddrManAssumption, FS_RemoveElement
<1>3. f \in [D -> Services \ {s}]
  <2>1. \A m \in D : a.mapInfo[m].service \in Services /\ a.mapInfo[m].service # s
    BY <1>1 DEF Info
  <2> QED
    BY <2>1
<1>4. \A m, k \in D : f[m] = f[k] => m = k
  BY <1>1
<1>5. Cardinality(D) <= Cardinality(Services \ {s})
  <2>1. DOMAIN f = D
    OBVIOUS
  <2> HIDE DEF f
  <2>2. f \in Injection(D, Services \ {s})
    BY <1>3, <1>4, <2>1 DEF Injection, IsInjective
  <2> QED
    BY <1>2, <2>2, FS_Injection
<1>6. Ids \ D # {}
  <2>1. Cardinality(D) \in Nat
    BY <1>1, BucketsAreFinite
  <2>2. ASSUME D = Ids
        PROVE  FALSE
    <3>1. Cardinality(Ids) <= Cardinality(Services) - 1
      BY <1>2, <1>5, <2>2
    <3> QED
      BY <3>1, IdsAreFinite
  <2> QED
    BY <1>1, <2>2
<1>7. Ids \ D \subseteq Nat
  BY IdsAreFinite
<1>8. \E m \in Ids \ D : \A k \in Ids \ D : m <= k
  BY <1>6, <1>7, LeastOf
<1> QED
  BY <1>8 DEF Min

(* Entry n is about to get one more place.                                 *)
FillingOK(a, n) ==
    /\ BaseOK(a) /\ SizesOK(a)
    /\ n \in DOMAIN a.mapInfo /\ ~a.mapInfo[n].fInTried
    /\ a.mapInfo[n].nRefCount = Cardinality(PlacesOf(a, n))
    /\ a.mapInfo[n].nRefCount < MaxRefs
    /\ \A m \in DOMAIN a.mapInfo \ {n} : EntryOK(a, m)

(* No tried entry is lost from a to c.                                     *)
KeepsTried(a, c) ==
    \A m \in DOMAIN a.mapInfo : a.mapInfo[m].fInTried =>
        m \in DOMAIN c.mapInfo /\ c.mapInfo[m].service = a.mapInfo[m].service

(* The count of references of one entry and the new buckets may change and *)
(* leave the rest consistent.                                              *)
LEMMA Recounted ==
    ASSUME NEW a, BaseOK(a), NEW n \in DOMAIN a.mapInfo, NEW k \in Int,
           NEW new \in [NewBuckets -> SUBSET DOMAIN a.mapInfo],
           NEW c \in Only([a.mapInfo EXCEPT ![n].nRefCount = k], a.mapAddr, a.vRandom, new,
                          a.vvTried, a.nNew, a.nTried)
    PROVE  /\ Alike(a, c) /\ BaseOK(c) /\ c.vvNew = new
           /\ c.mapInfo[n].nRefCount = k
           /\ \A m \in DOMAIN a.mapInfo \ {n} : c.mapInfo[m] = a.mapInfo[m]
<1> DEFINE D == DOMAIN a.mapInfo
<1>1. a.mapInfo \in [D -> Info]
  BY DEF BaseOK, IsManager
<1>2. /\ c.mapInfo = [a.mapInfo EXCEPT ![n].nRefCount = k] /\ c.vvNew = new
      /\ c \in Only(c.mapInfo, a.mapAddr, a.vRandom, c.vvNew, a.vvTried, a.nNew, a.nTried)
  BY DEF Only
<1>3. DOMAIN c.mapInfo = D /\ \A m \in D \ {n} : c.mapInfo[m] = a.mapInfo[m]
  BY <1>1, <1>2
<1>4. /\ c.mapInfo[n] \in Info /\ c.mapInfo[n].nRefCount = k
      /\ c.mapInfo[n].service = a.mapInfo[n].service /\ c.mapInfo[n].source = a.mapInfo[n].source
      /\ c.mapInfo[n].fInTried = a.mapInfo[n].fInTried
      /\ c.mapInfo[n].nRandomPos = a.mapInfo[n].nRandomPos
  <2>1. a.mapInfo[n] \in Info
    BY <1>1
  <2>2. c.mapInfo[n] = [a.mapInfo[n] EXCEPT !.nRefCount = k]
    BY <1>1, <1>2
  <2> QED
    BY <2>1, <2>2 DEF Info
<1>5. c.mapInfo \in [D -> Info]
  <2>1. c.mapInfo = [m \in D |-> c.mapInfo[m]]
    BY <1>1, <1>2
  <2> QED
    BY <1>1, <1>3, <1>4, <2>1
<1>6. Alike(a, c)
  BY <1>2, <1>3, <1>4, <1>5 DEF Alike
<1> QED
  BY <1>2, <1>3, <1>4, <1>6, AlikeBase

(* The new buckets alone may change and leave the rest consistent.         *)
LEMMA Rebucketed ==
    ASSUME NEW a, BaseOK(a), NEW new \in [NewBuckets -> SUBSET DOMAIN a.mapInfo],
           NEW c \in Only(a.mapInfo, a.mapAddr, a.vRandom, new, a.vvTried, a.nNew, a.nTried)
    PROVE  BaseOK(c) /\ c.vvNew = new /\ c.mapInfo = a.mapInfo
<1>1. c.mapInfo = a.mapInfo /\ c.vvNew = new
      /\ c \in Only(c.mapInfo, a.mapAddr, a.vRandom, c.vvNew, a.vvTried, a.nNew, a.nTried)
  BY DEF Only
<1>2. a.mapInfo \in [DOMAIN a.mapInfo -> Info]
  BY DEF BaseOK, IsManager
<1>3. Alike(a, c)
  BY <1>1, <1>2 DEF Alike
<1> QED
  BY <1>1, <1>3, AlikeBase

(* The entry has got the place it was about to get: the manager is         *)
(* consistent again.                                                       *)
LEMMA FilledIsSound ==
    ASSUME NEW a, NEW c, NEW n, NEW b \in NewBuckets, NEW out,
           FillingOK(a, n), BaseOK(c), n \notin a.vvNew[b], out \subseteq a.vvNew[b],
           DOMAIN c.mapInfo \subseteq DOMAIN a.mapInfo,
           c.vvNew = [a.vvNew EXCEPT ![b] = (a.vvNew[b] \ out) \cup {n}],
           Cardinality(c.vvNew[b]) <= MaxNewBucket,
           \A m \in DOMAIN c.mapInfo :
              /\ c.mapInfo[m].fInTried = a.mapInfo[m].fInTried
              /\ c.mapInfo[m].nRefCount = IF m = n THEN a.mapInfo[m].nRefCount + 1
                                          ELSE IF m \in out THEN a.mapInfo[m].nRefCount - 1
                                          ELSE a.mapInfo[m].nRefCount,
           \A m \in out : m \in DOMAIN c.mapInfo => a.mapInfo[m].nRefCount # 1
    PROVE  SoundOK(c)
<1> DEFINE D == DOMAIN a.mapInfo
<1>1. a.vvNew \in [NewBuckets -> SUBSET D] /\ MaxRefs \in Nat \ {0} /\ n \notin out
  BY AddrManAssumption DEF FillingOK, BaseOK, IsManager
<1>2. /\ \A x \in NewBuckets \ {b} : c.vvNew[x] = a.vvNew[x]
      /\ c.vvNew[b] = (a.vvNew[b] \ out) \cup {n}
  BY <1>1
<1>3. SizesOK(c)
  BY <1>2 DEF FillingOK, SizesOK
<1>4. ASSUME NEW m \in DOMAIN c.mapInfo
      PROVE  EntryOK(c, m)
  <2>1. /\ IsFiniteSet(PlacesOf(a, m)) /\ Cardinality(PlacesOf(a, m)) \in Nat
    BY PlacesAreFinite
  <2>2. CASE m = n
    <3>1. PlacesOf(c, n) = PlacesOf(a, n) \cup {b} /\ b \notin PlacesOf(a, n)
      BY <1>2 DEF PlacesOf
    <3>2. Cardinality(PlacesOf(c, n)) = Cardinality(PlacesOf(a, n)) + 1
      BY <2>1, <2>2, <3>1, FS_AddElement
    <3>3. a.mapInfo[n].nRefCount = Cardinality(PlacesOf(a, n))
          /\ a.mapInfo[n].nRefCount < MaxRefs /\ ~a.mapInfo[n].fInTried
      BY DEF FillingOK
    <3> QED
      BY <1>1, <2>1, <2>2, <3>2, <3>3 DEF EntryOK
  <2>3. CASE m # n /\ m \in out
    <3>1. PlacesOf(c, m) = PlacesOf(a, m) \ {b} /\ b \in PlacesOf(a, m)
      BY <1>2, <2>3 DEF PlacesOf
    <3>2. Cardinality(PlacesOf(c, m)) = Cardinality(PlacesOf(a, m)) - 1
      BY <2>1, <3>1, FS_RemoveElement
    <3>3. EntryOK(a, m)
      BY <2>3 DEF FillingOK
    <3>4. ~a.mapInfo[m].fInTried /\ a.mapInfo[m].nRefCount = Cardinality(PlacesOf(a, m))
          /\ Cardinality(PlacesOf(a, m)) \in 1..MaxRefs
      BY <3>1, <3>3 DEF EntryOK
    <3>5. c.mapInfo[m].nRefCount = a.mapInfo[m].nRefCount - 1 /\ ~c.mapInfo[m].fInTried
          /\ a.mapInfo[m].nRefCount # 1
      BY <2>3, <3>4
    <3> QED
      BY <1>1, <2>1, <3>2, <3>4, <3>5 DEF EntryOK
  <2>4. CASE m # n /\ m \notin out
    <3>1. PlacesOf(c, m) = PlacesOf(a, m)
      BY <1>2, <2>4 DEF PlacesOf
    <3>2. EntryOK(a, m)
      BY <2>4 DEF FillingOK
    <3> QED
      BY <2>4, <3>1, <3>2 DEF EntryOK
  <2> QED
    BY <2>2, <2>3, <2>4
<1> QED
  BY <1>3, <1>4 DEF SoundOK

(* Add_ puts an entry into a bucket that has room.                         *)
LEMMA PutWhereRoom ==
    ASSUME NEW a, NEW n, NEW b \in NewBuckets, NEW c, FillingOK(a, n), n \notin a.vvNew[b],
           Cardinality(a.vvNew[b]) < MaxNewBucket, c \in PutNew(a, n, b)
    PROVE  SoundOK(c) /\ KeepsTried(a, c)
<1> DEFINE D == DOMAIN a.mapInfo
           counted == [a EXCEPT !.mapInfo[n].nRefCount = @ + 1]
           k == a.mapInfo[n].nRefCount + 1
           new == [a.vvNew EXCEPT ![b] = a.vvNew[b] \cup {n}]
<1>1. a \in Only(a.mapInfo, a.mapAddr, a.vRandom, a.vvNew, a.vvTried, a.nNew, a.nTried)
      /\ a.vvNew \in [NewBuckets -> SUBSET D] /\ D \subseteq Ids /\ n \in D /\ BaseOK(a)
      /\ a.mapInfo \in [D -> Info]
  BY DEF FillingOK, BaseOK, IsManager
<1>2. counted \in Only([a.mapInfo EXCEPT ![n].nRefCount = k], a.mapAddr, a.vRandom, a.vvNew,
                       a.vvTried, a.nNew, a.nTried)
  BY <1>1 DEF Only
<1>3. c = [counted EXCEPT !.vvNew[b] = counted.vvNew[b] \cup {n}]
  BY DEF PutNew
<1> HIDE DEF counted
<1>4. c \in Only([a.mapInfo EXCEPT ![n].nRefCount = k], a.mapAddr, a.vRandom, new,
                 a.vvTried, a.nNew, a.nTried)
  BY <1>2, <1>3 DEF Only
<1>5. k \in Int /\ new \in [NewBuckets -> SUBSET D]
  BY <1>1 DEF Info
<1> HIDE DEF k, new
<1>6. /\ Alike(a, c) /\ BaseOK(c) /\ c.vvNew = new /\ c.mapInfo[n].nRefCount = k
      /\ \A m \in D \ {n} : c.mapInfo[m] = a.mapInfo[m]
  BY <1>1, <1>4, <1>5, Recounted
<1>7. DOMAIN c.mapInfo = D /\ \A m \in D : c.mapInfo[m].service = a.mapInfo[m].service
                                           /\ c.mapInfo[m].fInTried = a.mapInfo[m].fInTried
  BY <1>6 DEF Alike
<1>8. Cardinality(c.vvNew[b]) <= MaxNewBucket
  <2>1. c.vvNew[b] = a.vvNew[b] \cup {n}
    BY <1>1, <1>6 DEF new
  <2>2. IsFiniteSet(a.vvNew[b]) /\ Cardinality(a.vvNew[b]) \in Nat
    BY <1>1, BucketsAreFinite
  <2>3. Cardinality(a.vvNew[b] \cup {n}) = Cardinality(a.vvNew[b]) + 1
    BY <2>2, FS_AddElement
  <2> QED
    BY <2>1, <2>2, <2>3, AddrManAssumption
<1>9. SoundOK(c)
  <2> DEFINE out == {}
  <2>1. c.vvNew = [a.vvNew EXCEPT ![b] = (a.vvNew[b] \ out) \cup {n}]
    BY <1>6 DEF new
  <2>2. \A m \in DOMAIN c.mapInfo :
              /\ c.mapInfo[m].fInTried = a.mapInfo[m].fInTried
              /\ c.mapInfo[m].nRefCount = IF m = n THEN a.mapInfo[m].nRefCount + 1
                                          ELSE IF m \in out THEN a.mapInfo[m].nRefCount - 1
                                          ELSE a.mapInfo[m].nRefCount
    BY <1>6, <1>7 DEF k
  <2>3. out \subseteq a.vvNew[b] /\ \A m \in out : m \in DOMAIN c.mapInfo => a.mapInfo[m].nRefCount # 1
    OBVIOUS
  <2> HIDE DEF out
  <2> QED
    BY <1>6, <1>7, <1>8, <2>1, <2>2, <2>3, FilledIsSound
<1> QED
  BY <1>7, <1>9 DEF KeepsTried

(* Add_ puts an entry into a full bucket, from which ShrinkNew takes       *)
(* another one, for good if this was its last place.                       *)
LEMMA PutInPlaceOf ==
    ASSUME NEW a, NEW n, NEW b \in NewBuckets, NEW c, FillingOK(a, n), n \notin a.vvNew[b],
           ~(Cardinality(a.vvNew[b]) < MaxNewBucket), c \in PutNew(a, n, b)
    PROVE  SoundOK(c) /\ KeepsTried(a, c)
<1> DEFINE D == DOMAIN a.mapInfo
           counted == [a EXCEPT !.mapInfo[n].nRefCount = @ + 1]
           k == a.mapInfo[n].nRefCount + 1
<1>1. a \in Only(a.mapInfo, a.mapAddr, a.vRandom, a.vvNew, a.vvTried, a.nNew, a.nTried)
      /\ a.vvNew \in [NewBuckets -> SUBSET D] /\ D \subseteq Ids /\ n \in D /\ BaseOK(a)
      /\ a.mapInfo \in [D -> Info]
  BY DEF FillingOK, BaseOK, IsManager
<1>2. counted \in Only([a.mapInfo EXCEPT ![n].nRefCount = k], a.mapAddr, a.vRandom, a.vvNew,
                       a.vvTried, a.nNew, a.nTried)
  BY <1>1 DEF Only
<1>3. PICK old \in a.vvNew[b] :
         c = [ShrinkNew(counted, b, old) EXCEPT
                 !.vvNew[b] = ShrinkNew(counted, b, old).vvNew[b] \cup {n}]
  BY DEF PutNew
<1> HIDE DEF counted
<1>4. k \in Int
  BY <1>1 DEF Info
<1> HIDE DEF k
<1>5. /\ Alike(a, counted) /\ BaseOK(counted) /\ counted.vvNew = a.vvNew
      /\ counted.mapInfo[n].nRefCount = k
      /\ \A m \in D \ {n} : counted.mapInfo[m] = a.mapInfo[m]
  BY <1>1, <1>2, <1>4, Recounted
<1>6. /\ old \in D /\ old # n /\ EntryOK(a, old) /\ b \in PlacesOf(a, old)
      /\ ~a.mapInfo[old].fInTried /\ a.mapInfo[old].nRefCount = Cardinality(PlacesOf(a, old))
      /\ a.mapInfo[old].nRefCount \in Nat
  <2>1. old \in D /\ old # n
    BY <1>1
  <2>2. EntryOK(a, old) /\ b \in PlacesOf(a, old)
    BY <2>1 DEF FillingOK, PlacesOf
  <2> QED
    BY <2>1, <2>2, PlacesAreFinite DEF EntryOK
<1>7. /\ DOMAIN counted.mapInfo = D
      /\ \A m \in D : /\ counted.mapInfo[m].fInTried = a.mapInfo[m].fInTried
                      /\ counted.mapInfo[m].service = a.mapInfo[m].service
      /\ counted.mapInfo \in [D -> Info]
  BY <1>5 DEF Alike
<1> DEFINE r == a.mapInfo[old].nRefCount - 1
           less == [a.vvNew EXCEPT ![b] = a.vvNew[b] \ {old}]
           out == [counted EXCEPT !.mapInfo[old].nRefCount = @ - 1,
                                  !.vvNew[b] = counted.vvNew[b] \ {old}]
<1>8. r \in Int /\ less \in [NewBuckets -> SUBSET D]
  BY <1>1, <1>6
<1>9. out \in Only([counted.mapInfo EXCEPT ![old].nRefCount = r], counted.mapAddr,
                   counted.vRandom, less, counted.vvTried, counted.nNew, counted.nTried)
  <2>1. counted.mapInfo[old].nRefCount = a.mapInfo[old].nRefCount
    BY <1>5, <1>6
  <2>2. counted \in Only(counted.mapInfo, counted.mapAddr, counted.vRandom, counted.vvNew,
                         counted.vvTried, counted.nNew, counted.nTried)
    BY <1>5 DEF BaseOK, IsManager
  <2>3. out \in Only([counted.mapInfo EXCEPT ![old].nRefCount = @ - 1], counted.mapAddr,
                     counted.vRandom, [counted.vvNew EXCEPT ![b] = counted.vvNew[b] \ {old}],
                     counted.vvTried, counted.nNew, counted.nTried)
    BY <2>2 DEF Only
  <2>4. [counted.mapInfo EXCEPT ![old].nRefCount = @ - 1]
           = [counted.mapInfo EXCEPT ![old].nRefCount = r]
    BY <2>1
  <2> QED
    BY <1>5, <2>3, <2>4
<1>10. ShrinkNew(counted, b, old) = IF out.mapInfo[old].nRefCount = 0 THEN Delete(out, old) ELSE out
  BY DEF ShrinkNew
<1> HIDE DEF r, less, out
<1>11. /\ Alike(counted, out) /\ BaseOK(out) /\ out.vvNew = less
       /\ out.mapInfo[old].nRefCount = r
       /\ \A m \in D \ {old} : out.mapInfo[m] = counted.mapInfo[m]
  <2>1. old \in DOMAIN counted.mapInfo /\ less \in [NewBuckets -> SUBSET DOMAIN counted.mapInfo]
    BY <1>6, <1>7, <1>8
  <2>2. /\ Alike(counted, out) /\ BaseOK(out) /\ out.vvNew = less
        /\ out.mapInfo[old].nRefCount = r
        /\ \A m \in DOMAIN counted.mapInfo \ {old} : out.mapInfo[m] = counted.mapInfo[m]
    BY <1>5, <1>8, <1>9, <2>1, Recounted
  <2> QED
    BY <1>7, <2>2
<1>12. /\ DOMAIN out.mapInfo = D
       /\ \A m \in D : /\ out.mapInfo[m].fInTried = a.mapInfo[m].fInTried
                       /\ out.mapInfo[m].service = a.mapInfo[m].service
                       /\ out.mapInfo[m].nRefCount = IF m = n THEN a.mapInfo[m].nRefCount + 1
                                                     ELSE IF m = old THEN a.mapInfo[m].nRefCount - 1
                                                     ELSE a.mapInfo[m].nRefCount
  <2>1. DOMAIN out.mapInfo = D
        /\ \A m \in D : /\ out.mapInfo[m].fInTried = counted.mapInfo[m].fInTried
                        /\ out.mapInfo[m].service = counted.mapInfo[m].service
    BY <1>7, <1>11 DEF Alike
  <2>2. out.mapInfo[n].nRefCount = k
    BY <1>1, <1>5, <1>6, <1>11
  <2>3. \A m \in D \ {n, old} : out.mapInfo[m].nRefCount = a.mapInfo[m].nRefCount
    BY <1>5, <1>11
  <2> QED
    BY <1>6, <1>7, <1>11, <2>1, <2>2, <2>3 DEF k, r
<1> DEFINE s == ShrinkNew(counted, b, old)
           new == [a.vvNew EXCEPT ![b] = (a.vvNew[b] \ {old}) \cup {n}]
<1>13. /\ BaseOK(s) /\ s.vvNew = less /\ DOMAIN s.mapInfo \in {D, D \ {old}}
       /\ \A m \in DOMAIN s.mapInfo :
             /\ s.mapInfo[m].fInTried = out.mapInfo[m].fInTried
             /\ s.mapInfo[m].service = out.mapInfo[m].service
             /\ s.mapInfo[m].nRefCount = out.mapInfo[m].nRefCount
       /\ old \in DOMAIN s.mapInfo => a.mapInfo[old].nRefCount # 1
  <2>1. CASE r = 0
    <3>1. s = Delete(out, old)
      BY <1>10, <1>11, <2>1
    <3>2. old \in DOMAIN out.mapInfo /\ ~out.mapInfo[old].fInTried
      BY <1>6, <1>12
    <3>3. \A x \in NewBuckets : old \notin out.vvNew[x]
      <4>1. Cardinality(PlacesOf(a, old)) = 1
        BY <1>6, <2>1 DEF r
      <4>2. Cardinality(PlacesOf(a, old) \ {b}) = 0 /\ IsFiniteSet(PlacesOf(a, old) \ {b})
        BY <1>6, <4>1, PlacesAreFinite, FS_RemoveElement
      <4>3. PlacesOf(a, old) \ {b} = {}
        BY <4>2, FS_EmptySet
      <4> QED
        BY <1>1, <1>11, <4>3 DEF PlacesOf, less
    <3> HIDE DEF s
    <3>4. /\ BaseOK(s) /\ DOMAIN s.mapInfo = DOMAIN out.mapInfo \ {old}
          /\ \A m \in DOMAIN out.mapInfo \ {old} :
                 /\ s.mapInfo[m].service = out.mapInfo[m].service
                 /\ s.mapInfo[m].fInTried = out.mapInfo[m].fInTried
                 /\ s.mapInfo[m].nRefCount = out.mapInfo[m].nRefCount
          /\ s.vvNew = out.vvNew
      BY <1>11, <3>1, <3>2, <3>3, DeleteKeeps
    <3> QED
      BY <1>11, <1>12, <3>4
  <2>2. CASE r # 0
    <3>1. s = out
      BY <1>10, <1>11, <2>2
    <3> HIDE DEF s
    <3> QED
      BY <1>6, <1>11, <1>12, <2>2, <3>1 DEF r
  <2> QED
    BY <2>1, <2>2
<1>14. c = [s EXCEPT !.vvNew[b] = s.vvNew[b] \cup {n}]
  BY <1>3
<1> HIDE DEF s
<1>15. c \in Only(s.mapInfo, s.mapAddr, s.vRandom, new, s.vvTried, s.nNew, s.nTried)
  <2>1. s \in Only(s.mapInfo, s.mapAddr, s.vRandom, s.vvNew, s.vvTried, s.nNew, s.nTried)
    BY <1>13 DEF BaseOK, IsManager
  <2>2. c \in Only(s.mapInfo, s.mapAddr, s.vRandom, [s.vvNew EXCEPT ![b] = s.vvNew[b] \cup {n}],
                   s.vvTried, s.nNew, s.nTried)
    BY <1>14, <2>1 DEF Only
  <2>3. [s.vvNew EXCEPT ![b] = s.vvNew[b] \cup {n}] = new
    BY <1>1, <1>13 DEF less
  <2> QED
    BY <2>2, <2>3
<1>16. new \in [NewBuckets -> SUBSET DOMAIN s.mapInfo]
  <2>1. s.vvNew \in [NewBuckets -> SUBSET DOMAIN s.mapInfo] /\ n \in DOMAIN s.mapInfo
    BY <1>1, <1>6, <1>13 DEF BaseOK, IsManager
  <2>2. new = [s.vvNew EXCEPT ![b] = s.vvNew[b] \cup {n}]
    BY <1>1, <1>13 DEF less
  <2> HIDE DEF new
  <2> QED
    BY <2>1, <2>2
<1> HIDE DEF new
<1>17. BaseOK(c) /\ c.vvNew = new /\ c.mapInfo = s.mapInfo
  BY <1>13, <1>15, <1>16, Rebucketed
<1>18. Cardinality(c.vvNew[b]) <= MaxNewBucket
  <2>1. c.vvNew[b] = (a.vvNew[b] \ {old}) \cup {n}
    BY <1>1, <1>17 DEF new
  <2>2. IsFiniteSet(a.vvNew[b]) /\ Cardinality(a.vvNew[b]) \in Nat
    BY <1>1, BucketsAreFinite
  <2>3. Cardinality(a.vvNew[b] \ {old}) = Cardinality(a.vvNew[b]) - 1
        /\ IsFiniteSet(a.vvNew[b] \ {old})
    BY <2>2, FS_RemoveElement
  <2>4. Cardinality((a.vvNew[b] \ {old}) \cup {n}) = Cardinality(a.vvNew[b])
    <3>1. n \notin a.vvNew[b] \ {old}
      OBVIOUS
    <3>2. Cardinality((a.vvNew[b] \ {old}) \cup {n}) = Cardinality(a.vvNew[b] \ {old}) + 1
      BY <2>3, <3>1, FS_AddElement
    <3> QED
      BY <2>2, <2>3, <3>2
  <2>5. Cardinality(a.vvNew[b]) <= MaxNewBucket
    BY DEF FillingOK, SizesOK
  <2> QED
    BY <2>1, <2>4, <2>5
<1>19. SoundOK(c)
  <2> DEFINE gone == {old}
  <2>1. c.vvNew = [a.vvNew EXCEPT ![b] = (a.vvNew[b] \ gone) \cup {n}]
    BY <1>17 DEF new
  <2>2. DOMAIN c.mapInfo \subseteq D
        /\ \A m \in DOMAIN c.mapInfo :
              /\ c.mapInfo[m].fInTried = a.mapInfo[m].fInTried
              /\ c.mapInfo[m].nRefCount = IF m = n THEN a.mapInfo[m].nRefCount + 1
                                          ELSE IF m \in gone THEN a.mapInfo[m].nRefCount - 1
                                          ELSE a.mapInfo[m].nRefCount
    BY <1>12, <1>13, <1>17
  <2>3. gone \subseteq a.vvNew[b]
        /\ \A m \in gone : m \in DOMAIN c.mapInfo => a.mapInfo[m].nRefCount # 1
    BY <1>13, <1>17
  <2> HIDE DEF gone
  <2> QED
    BY <1>17, <1>18, <2>1, <2>2, <2>3, FilledIsSound
<1>20. KeepsTried(a, c)
  <2>1. ASSUME NEW m \in D, a.mapInfo[m].fInTried
        PROVE  m \in DOMAIN c.mapInfo /\ c.mapInfo[m].service = a.mapInfo[m].service
    <3>1. m # old
      BY <1>6, <2>1
    <3> QED
      BY <1>12, <1>13, <1>17, <3>1
  <2> QED
    BY <2>1 DEF KeepsTried
<1> QED
  BY <1>19, <1>20

(* Add_ puts an entry into a bucket, unless it is there already.           *)
LEMMA PutNewIsSound ==
    ASSUME NEW a, NEW n, NEW b \in NewBuckets, NEW c, FillingOK(a, n), c \in PutNew(a, n, b)
    PROVE  SoundOK(c) /\ KeepsTried(a, c)
<1>1. CASE n \in a.vvNew[b]
  <2>1. c = a
    BY <1>1 DEF PutNew
  <2>2. b \in PlacesOf(a, n) /\ IsFiniteSet(PlacesOf(a, n)) /\ Cardinality(PlacesOf(a, n)) \in Nat
    BY <1>1, PlacesAreFinite DEF PlacesOf
  <2>3. Cardinality(PlacesOf(a, n)) # 0
    BY <2>2, FS_EmptySet
  <2>4. EntryOK(a, n)
    BY <2>2, <2>3, AddrManAssumption DEF FillingOK, EntryOK
  <2> QED
    BY <2>1, <2>4 DEF FillingOK, SoundOK, KeepsTried
<1>2. CASE n \notin a.vvNew[b]
  BY <1>2, PutWhereRoom, PutInPlaceOf
<1> QED
  BY <1>1, <1>2

(* Add_ keeps the manager consistent and every tried entry.                *)
LEMMA AddStep ==
    ASSUME SoundOK(am), NEW s \in Services, NEW source \in Sources, Add(s, source)
    PROVE  SoundOK(am') /\ KeepsTried(am, am')
<1>1. BaseOK(am) /\ SizesOK(am) /\ \A n \in DOMAIN am.mapInfo : EntryOK(am, n)
  BY DEF SoundOK
<1>2. CASE ~Known(s) /\ \E n \in {Min(Ids \ DOMAIN am.mapInfo)} :
             am' \in PutNew(Create(am, n, s, source), n, NewBucket[<<s, source>>])
  <2>1. Address[s] \notin DOMAIN am.mapAddr
    BY <1>2 DEF Known
  <2>2. PICK n \in Ids \ DOMAIN am.mapInfo :
           am' \in PutNew(Create(am, n, s, source), n, NewBucket[<<s, source>>])
    BY <1>1, <1>2, <2>1, FreeId
  <2>3. PICK c : c = Create(am, n, s, source)
    OBVIOUS
  <2>4. /\ BaseOK(c)
        /\ DOMAIN c.mapInfo = DOMAIN am.mapInfo \cup {n}
        /\ \A m \in DOMAIN am.mapInfo : c.mapInfo[m] = am.mapInfo[m]
        /\ c.mapInfo[n].nRefCount = 0 /\ ~c.mapInfo[n].fInTried
        /\ c.vvNew = am.vvNew
    BY <1>1, <2>1, <2>3, CreateKeeps
  <2>5. FillingOK(c, n)
    <3>1. SizesOK(c)
      BY <1>1, <2>4 DEF SizesOK
    <3>2. \A m \in DOMAIN c.mapInfo : PlacesOf(c, m) = PlacesOf(am, m)
      BY <2>4 DEF PlacesOf
    <3>3. PlacesOf(am, n) = {}
      BY <1>1, <2>2 DEF PlacesOf, BaseOK, IsManager
    <3>4. Cardinality(PlacesOf(c, n)) = 0
      BY <2>4, <3>2, <3>3, FS_EmptySet
    <3>5. \A m \in DOMAIN c.mapInfo \ {n} : EntryOK(c, m)
      BY <1>1, <2>4, <3>2 DEF EntryOK
    <3> QED
      BY <2>4, <3>1, <3>4, <3>5, AddrManAssumption DEF FillingOK
  <2>6. NewBucket[<<s, source>>] \in NewBuckets
    BY AddrManAssumption
  <2>7. SoundOK(am') /\ KeepsTried(c, am')
    BY <2>2, <2>3, <2>5, <2>6, PutNewIsSound
  <2> QED
    BY <2>4, <2>7 DEF KeepsTried
<1>3. CASE Known(s) /\ \E n \in {IdOf(s)} :
             /\ ~am.mapInfo[n].fInTried /\ am.mapInfo[n].nRefCount # MaxRefs
             /\ am' \in PutNew(am, n, NewBucket[<<am.mapInfo[n].service, source>>])
  <2>1. PICK n \in {IdOf(s)} :
             /\ ~am.mapInfo[n].fInTried /\ am.mapInfo[n].nRefCount # MaxRefs
             /\ am' \in PutNew(am, n, NewBucket[<<am.mapInfo[n].service, source>>])
    BY <1>3
  <2>2. n \in DOMAIN am.mapInfo
    BY <1>1, <1>3, <2>1 DEF BaseOK, AddrOK, Known, IdOf
  <2>3. NewBucket[<<am.mapInfo[n].service, source>>] \in NewBuckets
    BY <1>1, <2>2, AddrManAssumption DEF BaseOK, IsManager, Info
  <2>4. FillingOK(am, n)
    BY <1>1, <2>1, <2>2, PlacesAreFinite, AddrManAssumption DEF FillingOK, EntryOK
  <2> QED
    BY <2>1, <2>3, <2>4, PutNewIsSound
<1> QED
  BY <1>2, <1>3 DEF Add

(* The entries are the same but for their references and their tables.     *)
Retabled(a, c) ==
    /\ c \in Only(c.mapInfo, a.mapAddr, a.vRandom, c.vvNew, c.vvTried, c.nNew, c.nTried)
    /\ DOMAIN c.mapInfo = DOMAIN a.mapInfo /\ c.mapInfo \in [DOMAIN a.mapInfo -> Info]
    /\ \A m \in DOMAIN a.mapInfo :
          /\ c.mapInfo[m].service = a.mapInfo[m].service
          /\ c.mapInfo[m].nRandomPos = a.mapInfo[m].nRandomPos
    /\ c.vvNew \in [NewBuckets -> SUBSET DOMAIN a.mapInfo]
    /\ c.vvTried \in [TriedBuckets -> SUBSET DOMAIN a.mapInfo]
    /\ c.nNew \in Int /\ c.nTried \in Int

(* The random order and mapAddr do not depend on the tables.               *)
LEMMA RetabledKeeps ==
    ASSUME NEW a, NEW c, BaseOK(a), Retabled(a, c)
    PROVE  IsManager(c) /\ RandomOK(c) /\ AddrOK(c) /\ c.vRandom = a.vRandom
<1>1. DOMAIN c.mapInfo = DOMAIN a.mapInfo /\ c.mapAddr = a.mapAddr /\ c.vRandom = a.vRandom
      /\ c \in Only(c.mapInfo, c.mapAddr, c.vRandom, c.vvNew, c.vvTried, c.nNew, c.nTried)
  BY DEF Retabled, Only
<1>2. \A n \in DOMAIN a.mapInfo :
          /\ c.mapInfo[n].service = a.mapInfo[n].service
          /\ c.mapInfo[n].nRandomPos = a.mapInfo[n].nRandomPos
  BY DEF Retabled
<1>3. IsManager(c)
  BY <1>1 DEF Retabled, BaseOK, IsManager
<1>4. a.vRandom \in Seq(DOMAIN a.mapInfo)
  BY DEF BaseOK, IsManager
<1>5. RandomOK(c)
  BY <1>1, <1>2, <1>4 DEF BaseOK, RandomOK
<1>6. AddrOK(c)
  BY <1>1, <1>2 DEF BaseOK, AddrOK
<1> QED
  BY <1>1, <1>3, <1>5, <1>6

(* What MakeTried does to the entry n itself.                              *)
LEMMA LeavesNew ==
    ASSUME NEW a, SoundOK(a), NEW n \in DOMAIN a.mapInfo, ~a.mapInfo[n].fInTried
    PROVE  LET left == [a EXCEPT
                    !.vvNew = [c \in NewBuckets |-> a.vvNew[c] \ {n}],
                    !.mapInfo[n].nRefCount
                        = @ - Cardinality({c \in NewBuckets : n \in a.vvNew[c]}),
                    !.mapInfo[n].fInTried = TRUE]
           IN  /\ left \in Only(left.mapInfo, a.mapAddr, a.vRandom, left.vvNew, a.vvTried,
                                a.nNew, a.nTried)
               /\ DOMAIN left.mapInfo = DOMAIN a.mapInfo
               /\ left.mapInfo \in [DOMAIN a.mapInfo -> Info]
               /\ left.mapInfo[n].nRefCount = 0 /\ left.mapInfo[n].fInTried
               /\ left.mapInfo[n].service = a.mapInfo[n].service
               /\ left.mapInfo[n].nRandomPos = a.mapInfo[n].nRandomPos
               /\ \A m \in DOMAIN a.mapInfo \ {n} : left.mapInfo[m] = a.mapInfo[m]
               /\ left.vvNew = [c \in NewBuckets |-> a.vvNew[c] \ {n}]
<1> DEFINE D == DOMAIN a.mapInfo
           k == a.mapInfo[n].nRefCount - Cardinality({c \in NewBuckets : n \in a.vvNew[c]})
           left == [a EXCEPT
                    !.vvNew = [c \in NewBuckets |-> a.vvNew[c] \ {n}],
                    !.mapInfo[n].nRefCount
                        = @ - Cardinality({c \in NewBuckets : n \in a.vvNew[c]}),
                    !.mapInfo[n].fInTried = TRUE]
           info == [a.mapInfo EXCEPT ![n].nRefCount = k, ![n].fInTried = TRUE]
           new == [c \in NewBuckets |-> a.vvNew[c] \ {n}]
<1>1. a \in Only(a.mapInfo, a.mapAddr, a.vRandom, a.vvNew, a.vvTried, a.nNew, a.nTried)
      /\ a.mapInfo \in [D -> Info]
  BY DEF SoundOK, BaseOK, IsManager
<1>2. k = 0
  <2>1. a.mapInfo[n].nRefCount = Cardinality(PlacesOf(a, n)) /\ Cardinality(PlacesOf(a, n)) \in Nat
    BY PlacesAreFinite DEF SoundOK, EntryOK
  <2> QED
    BY <2>1 DEF PlacesOf
<1>3. left \in Only(info, a.mapAddr, a.vRandom, new, a.vvTried, a.nNew, a.nTried)
  BY <1>1 DEF Only
<1>4. /\ info[n] = [[a.mapInfo[n] EXCEPT !.nRefCount = k] EXCEPT !.fInTried = TRUE]
      /\ \A m \in D \ {n} : info[m] = a.mapInfo[m]
      /\ info = [m \in D |-> info[m]]
  BY <1>1
<1>5. a.mapInfo[n] \in Info
  BY <1>1
<1> HIDE DEF left, new, info, k
<1>6. [a.mapInfo[n] EXCEPT !.nRefCount = k] \in Info
  BY <1>2, <1>5 DEF Info
<1>7. /\ info[n] \in Info /\ info[n].nRefCount = k /\ info[n].fInTried = TRUE
      /\ info[n].service = a.mapInfo[n].service /\ info[n].nRandomPos = a.mapInfo[n].nRandomPos
  BY <1>4, <1>5, <1>6 DEF Info
<1>8. DOMAIN info = D /\ info \in [D -> Info]
  BY <1>1, <1>4, <1>7
<1>9. left.mapInfo = info /\ left.vvNew = new
  BY <1>3 DEF Only
<1>10. left \in Only(left.mapInfo, a.mapAddr, a.vRandom, left.vvNew, a.vvTried, a.nNew, a.nTried)
  BY <1>3, <1>9
<1> QED
  BY <1>2, <1>4, <1>7, <1>8, <1>9, <1>10 DEF new, left

(* One element more or less changes a number by one at most.               *)
LEMMA OneElement ==
    ASSUME NEW S, IsFiniteSet(S), NEW x
    PROVE  /\ Cardinality(S) \in Nat /\ Cardinality(S \cup {x}) \in Nat
           /\ Cardinality(S \ {x}) \in Nat
           /\ Cardinality(S \cup {x}) <= Cardinality(S) + 1
           /\ Cardinality(S \ {x}) <= Cardinality(S)
           /\ x \in S => Cardinality(S \ {x}) < Cardinality(S)
<1>1. Cardinality(S) \in Nat
  BY FS_CardinalityType
<1>2. Cardinality(S \cup {x}) = IF x \in S THEN Cardinality(S) ELSE Cardinality(S) + 1
  BY FS_AddElement
<1>3. IsFiniteSet(S \ {x})
      /\ Cardinality(S \ {x}) = IF x \in S THEN Cardinality(S) - 1 ELSE Cardinality(S)
  BY FS_RemoveElement
<1>4. Cardinality(S \ {x}) \in Nat
  BY <1>3, FS_CardinalityType
<1> QED
  BY <1>1, <1>2, <1>3, <1>4

(* Replacing an element keeps the number of them.                          *)
LEMMA ElementReplaced ==
    ASSUME NEW S, IsFiniteSet(S), NEW x \in S, NEW y, y \notin S
    PROVE  Cardinality((S \ {x}) \cup {y}) = Cardinality(S)
<1>1. Cardinality(S) \in Nat
  BY FS_CardinalityType
<1>2. IsFiniteSet(S \ {x}) /\ Cardinality(S \ {x}) = Cardinality(S) - 1
  BY FS_RemoveElement
<1>3. y \notin S \ {x}
  OBVIOUS
<1>4. Cardinality((S \ {x}) \cup {y}) = Cardinality(S \ {x}) + 1
  BY <1>2, <1>3, FS_AddElement
<1> QED
  BY <1>1, <1>2, <1>4

(* Good_ when the bucket of tried entries has room.                        *)
LEMMA TryWhereRoom ==
    ASSUME NEW a, SoundOK(a), NEW n \in DOMAIN a.mapInfo, ~a.mapInfo[n].fInTried,
           NEW origin \in NewBuckets, n \in a.vvNew[origin],
           Cardinality(a.vvTried[TriedBucket[a.mapInfo[n].service]]) < MaxTriedBucket,
           NEW c, c \in MakeTried(a, n, origin)
    PROVE  SoundOK(c) /\ KeepsTried(a, c)
<1> DEFINE D == DOMAIN a.mapInfo
           t == TriedBucket[a.mapInfo[n].service]
           left == [a EXCEPT
                    !.vvNew = [x \in NewBuckets |-> a.vvNew[x] \ {n}],
                    !.mapInfo[n].nRefCount
                        = @ - Cardinality({x \in NewBuckets : n \in a.vvNew[x]}),
                    !.mapInfo[n].fInTried = TRUE]
           tried == [a.vvTried EXCEPT ![t] = @ \cup {n}]
<1>1. /\ BaseOK(a) /\ TotalsOK(a) /\ TriedOK(a) /\ SizesOK(a) /\ D \subseteq Ids
      /\ a.mapInfo \in [D -> Info] /\ a.vvNew \in [NewBuckets -> SUBSET D]
      /\ a.vvTried \in [TriedBuckets -> SUBSET D] /\ a.nNew \in Int /\ a.nTried \in Int
      /\ t \in TriedBuckets
  BY AddrManAssumption DEF SoundOK, BaseOK, IsManager, Info
<1>2. /\ left \in Only(left.mapInfo, a.mapAddr, a.vRandom, left.vvNew, a.vvTried, a.nNew, a.nTried)
      /\ DOMAIN left.mapInfo = D /\ left.mapInfo \in [D -> Info]
      /\ left.mapInfo[n].nRefCount = 0 /\ left.mapInfo[n].fInTried
      /\ left.mapInfo[n].service = a.mapInfo[n].service
      /\ left.mapInfo[n].nRandomPos = a.mapInfo[n].nRandomPos
      /\ \A m \in D \ {n} : left.mapInfo[m] = a.mapInfo[m]
      /\ left.vvNew = [x \in NewBuckets |-> a.vvNew[x] \ {n}]
  BY LeavesNew
<1>3. c = [left EXCEPT !.nNew = @ - 1, !.nTried = @ + 1, !.vvTried[t] = @ \cup {n}]
  BY DEF MakeTried
<1> HIDE DEF left, t
<1>4. c \in Only(left.mapInfo, a.mapAddr, a.vRandom, left.vvNew, tried, a.nNew - 1, a.nTried + 1)
  BY <1>2, <1>3 DEF Only
<1> HIDE DEF tried
<1>5. /\ c.mapInfo = left.mapInfo /\ c.vvNew = left.vvNew /\ c.vvTried = tried
      /\ c.nNew = a.nNew - 1 /\ c.nTried = a.nTried + 1
      /\ c \in Only(c.mapInfo, a.mapAddr, a.vRandom, c.vvNew, c.vvTried, c.nNew, c.nTried)
  BY <1>4 DEF Only
<1>6. /\ tried \in [TriedBuckets -> SUBSET D] /\ tried[t] = a.vvTried[t] \cup {n}
      /\ \A b \in TriedBuckets \ {t} : tried[b] = a.vvTried[b]
      /\ left.vvNew \in [NewBuckets -> SUBSET D]
  BY <1>1, <1>2 DEF tried
<1>7. Retabled(a, c)
  BY <1>1, <1>2, <1>5, <1>6 DEF Retabled
<1>8. IsManager(c) /\ RandomOK(c) /\ AddrOK(c) /\ c.vRandom = a.vRandom
  BY <1>1, <1>7, RetabledKeeps
<1>9. DOMAIN c.mapInfo = D
      /\ \A m \in D : c.mapInfo[m].fInTried = (a.mapInfo[m].fInTried \/ m = n)
                      /\ c.mapInfo[m].service = a.mapInfo[m].service
  BY <1>1, <1>2, <1>5 DEF Info
<1>10. TotalsOK(c)
  <2>1. TriedIn(c) = TriedIn(a) \cup {n} /\ NewIn(c) = NewIn(a) \ {n}
        /\ n \in NewIn(a) /\ n \notin TriedIn(a)
    BY <1>9 DEF TriedIn, NewIn
  <2>2. IsFiniteSet(TriedIn(a)) /\ Cardinality(TriedIn(a)) \in Nat
        /\ IsFiniteSet(NewIn(a)) /\ Cardinality(NewIn(a)) \in Nat
    BY <1>1, BucketsAreFinite DEF TriedIn, NewIn
  <2>3. Cardinality(TriedIn(c)) = Cardinality(TriedIn(a)) + 1
    BY <2>1, <2>2, FS_AddElement
  <2>4. Cardinality(NewIn(c)) = Cardinality(NewIn(a)) - 1
    BY <2>1, <2>2, FS_RemoveElement
  <2> QED
    BY <1>1, <1>5, <1>8, <2>2, <2>3, <2>4 DEF TotalsOK
<1>11. TriedOK(c)
  <2>1. \A m \in D, b \in TriedBuckets : m \in tried[b] <=> m \in a.vvTried[b] \/ (m = n /\ b = t)
    BY <1>6
  <2>2. Cardinality(tried[t]) <= MaxTriedBucket
    <3>1. IsFiniteSet(a.vvTried[t]) /\ Cardinality(a.vvTried[t]) \in Nat
      BY <1>1, BucketsAreFinite
    <3>2. Cardinality(tried[t]) <= Cardinality(a.vvTried[t]) + 1 /\ Cardinality(tried[t]) \in Nat
      BY <1>6, <3>1, OneElement
    <3>3. Cardinality(a.vvTried[t]) < MaxTriedBucket /\ MaxTriedBucket \in Nat
      BY AddrManAssumption DEF t
    <3> QED
      BY <3>1, <3>2, <3>3
  <2>3. \A m \in D, b \in TriedBuckets :
          m \in a.vvTried[b] <=> a.mapInfo[m].fInTried /\ b = TriedBucket[a.mapInfo[m].service]
    BY <1>1 DEF TriedOK
  <2>4. \A b \in TriedBuckets : Cardinality(a.vvTried[b]) <= MaxTriedBucket
    BY <1>1 DEF TriedOK
  <2>5. \A m \in D, b \in TriedBuckets : m \in tried[b] <=>
          c.mapInfo[m].fInTried /\ b = TriedBucket[c.mapInfo[m].service]
    <3>1. ASSUME NEW m \in D, NEW b \in TriedBuckets
          PROVE  m \in tried[b] <=>
                    c.mapInfo[m].fInTried /\ b = TriedBucket[c.mapInfo[m].service]
      <4>1. m \in tried[b] <=> m \in a.vvTried[b] \/ (m = n /\ b = t)
        BY <2>1
      <4>2. m \in a.vvTried[b] <=>
               a.mapInfo[m].fInTried /\ b = TriedBucket[a.mapInfo[m].service]
        BY <2>3
      <4>3. /\ c.mapInfo[m].fInTried = (a.mapInfo[m].fInTried \/ m = n)
            /\ c.mapInfo[m].service = a.mapInfo[m].service
        BY <1>9
      <4>4. CASE m = n
        BY <4>1, <4>2, <4>3, <4>4 DEF t
      <4>5. CASE m # n
        BY <4>1, <4>2, <4>3, <4>5
      <4> QED
        BY <4>4, <4>5
    <3> QED
      BY <3>1
  <2>6. \A b \in TriedBuckets : Cardinality(tried[b]) <= MaxTriedBucket
    BY <1>6, <2>2, <2>4
  <2> QED
    BY <1>5, <1>9, <2>5, <2>6 DEF TriedOK
<1>12. SizesOK(c)
  <2>1. ASSUME NEW b \in NewBuckets
        PROVE  Cardinality(c.vvNew[b]) <= MaxNewBucket
    <3>1. IsFiniteSet(a.vvNew[b]) /\ Cardinality(a.vvNew[b]) \in Nat
          /\ Cardinality(a.vvNew[b]) <= MaxNewBucket
      BY <1>1, BucketsAreFinite DEF SizesOK
    <3>2. c.vvNew[b] = a.vvNew[b] \ {n}
      BY <1>2, <1>5
    <3>3. Cardinality(a.vvNew[b] \ {n}) <= Cardinality(a.vvNew[b])
          /\ Cardinality(a.vvNew[b] \ {n}) \in Nat
      BY <3>1, OneElement
    <3>4. MaxNewBucket \in Nat
      BY AddrManAssumption
    <3> QED
      BY <3>1, <3>2, <3>3, <3>4
  <2> QED
    BY <2>1 DEF SizesOK
<1>13. ASSUME NEW m \in D
       PROVE  EntryOK(c, m)
  <2>1. CASE m = n
    <3>1. PlacesOf(c, n) = {}
      BY <1>2, <1>5 DEF PlacesOf
    <3> QED
      BY <1>2, <1>5, <2>1, <3>1, FS_EmptySet DEF EntryOK
  <2>2. CASE m # n
    <3>1. PlacesOf(c, m) = PlacesOf(a, m)
      BY <1>2, <1>5, <2>2 DEF PlacesOf
    <3>2. EntryOK(a, m)
      BY DEF SoundOK
    <3> QED
      BY <1>2, <1>5, <2>2, <3>1, <3>2 DEF EntryOK
  <2> QED
    BY <2>1, <2>2
<1>14. SoundOK(c)
  BY <1>8, <1>9, <1>10, <1>11, <1>12, <1>13 DEF SoundOK, BaseOK
<1> QED
  BY <1>9, <1>14 DEF KeepsTried

(* Good_ when the bucket of tried entries is full: another one goes back   *)
(* to the new ones, where there is room for it or where the entry was.     *)
LEMMA TryInPlaceOf ==
    ASSUME NEW a, SoundOK(a), NEW n \in DOMAIN a.mapInfo, ~a.mapInfo[n].fInTried,
           NEW origin \in NewBuckets, n \in a.vvNew[origin],
           ~(Cardinality(a.vvTried[TriedBucket[a.mapInfo[n].service]]) < MaxTriedBucket),
           NEW c, c \in MakeTried(a, n, origin)
    PROVE  SoundOK(c) /\ KeepsTried(a, c)
<1> DEFINE D == DOMAIN a.mapInfo
           t == TriedBucket[a.mapInfo[n].service]
           left == [a EXCEPT
                    !.vvNew = [x \in NewBuckets |-> a.vvNew[x] \ {n}],
                    !.mapInfo[n].nRefCount
                        = @ - Cardinality({x \in NewBuckets : n \in a.vvNew[x]}),
                    !.mapInfo[n].fInTried = TRUE]
           home(old) == NewBucket[<<a.mapInfo[old].service, a.mapInfo[old].source>>]
           back(old) == IF Cardinality(left.vvNew[home(old)]) < MaxNewBucket THEN home(old) ELSE origin
<1>1. /\ BaseOK(a) /\ TotalsOK(a) /\ TriedOK(a) /\ SizesOK(a) /\ D \subseteq Ids
      /\ a.mapInfo \in [D -> Info] /\ a.vvNew \in [NewBuckets -> SUBSET D]
      /\ a.vvTried \in [TriedBuckets -> SUBSET D] /\ a.nNew \in Int /\ a.nTried \in Int
      /\ t \in TriedBuckets
  BY AddrManAssumption DEF SoundOK, BaseOK, IsManager, Info
<1>2. /\ left \in Only(left.mapInfo, a.mapAddr, a.vRandom, left.vvNew, a.vvTried, a.nNew, a.nTried)
      /\ DOMAIN left.mapInfo = D /\ left.mapInfo \in [D -> Info]
      /\ left.mapInfo[n].nRefCount = 0 /\ left.mapInfo[n].fInTried
      /\ left.mapInfo[n].service = a.mapInfo[n].service
      /\ left.mapInfo[n].nRandomPos = a.mapInfo[n].nRandomPos
      /\ \A m \in D \ {n} : left.mapInfo[m] = a.mapInfo[m]
      /\ left.vvNew = [x \in NewBuckets |-> a.vvNew[x] \ {n}]
  BY LeavesNew
<1>3. PICK old \in a.vvTried[t] :
         c = [left EXCEPT !.vvTried[t] = (@ \ {old}) \cup {n},
                          !.vvNew[back(old)] = @ \cup {old},
                          !.mapInfo[old].fInTried = FALSE,
                          !.mapInfo[old].nRefCount = 1]
  BY DEF MakeTried
<1> HIDE DEF left, t
<1>4. /\ old \in D /\ old # n /\ a.mapInfo[old].fInTried /\ n \notin a.vvTried[t]
      /\ TriedBucket[a.mapInfo[old].service] = t
  BY <1>1 DEF TriedOK
<1>5. \A x \in NewBuckets : old \notin a.vvNew[x]
  <2>1. EntryOK(a, old)
    BY <1>4 DEF SoundOK
  <2> QED
    BY <1>4, <2>1 DEF EntryOK, PlacesOf
<1>6. PICK h : h = back(old)
  OBVIOUS
<1>7. h \in NewBuckets /\ Cardinality(left.vvNew[h]) < MaxNewBucket
  <2>1. home(old) \in NewBuckets
    BY <1>1, <1>4, AddrManAssumption DEF Info
  <2>2. CASE Cardinality(left.vvNew[home(old)]) < MaxNewBucket
    BY <1>6, <2>1, <2>2
  <2>3. CASE ~(Cardinality(left.vvNew[home(old)]) < MaxNewBucket)
    <3>1. h = origin /\ left.vvNew[origin] = a.vvNew[origin] \ {n}
      BY <1>2, <1>6, <2>3
    <3>2. IsFiniteSet(a.vvNew[origin]) /\ Cardinality(a.vvNew[origin]) <= MaxNewBucket
      BY <1>1, BucketsAreFinite DEF SizesOK
    <3>3. Cardinality(a.vvNew[origin] \ {n}) < Cardinality(a.vvNew[origin])
          /\ Cardinality(a.vvNew[origin] \ {n}) \in Nat /\ Cardinality(a.vvNew[origin]) \in Nat
      BY <3>2, OneElement
    <3>4. MaxNewBucket \in Nat
      BY AddrManAssumption
    <3> QED
      BY <3>1, <3>2, <3>3, <3>4
  <2> QED
    BY <2>2, <2>3
<1> HIDE DEF home, back
<1> DEFINE info == [left.mapInfo EXCEPT ![old].fInTried = FALSE, ![old].nRefCount = 1]
           tried == [a.vvTried EXCEPT ![t] = (@ \ {old}) \cup {n}]
           new == [left.vvNew EXCEPT ![h] = @ \cup {old}]
<1>8. c \in Only(info, a.mapAddr, a.vRandom, new, tried, a.nNew, a.nTried)
  BY <1>2, <1>3, <1>6 DEF Only
<1>9. /\ \A m \in D \ {old} : info[m] = left.mapInfo[m]
      /\ info = [m \in D |-> info[m]] /\ info[old] \in Info
      /\ info[old].fInTried = FALSE /\ info[old].nRefCount = 1
      /\ info[old].service = a.mapInfo[old].service
      /\ info[old].nRandomPos = a.mapInfo[old].nRandomPos
  <2>1. \A m \in D \ {old} : info[m] = left.mapInfo[m]
    BY <1>2
  <2>2. info = [m \in D |-> info[m]]
    BY <1>2
  <2>3. info[old] = [[a.mapInfo[old] EXCEPT !.fInTried = FALSE] EXCEPT !.nRefCount = 1]
    BY <1>2, <1>4
  <2> HIDE DEF info
  <2>4. a.mapInfo[old] \in Info
    BY <1>1, <1>4
  <2> DEFINE untried == [a.mapInfo[old] EXCEPT !.fInTried = FALSE]
  <2>5. /\ untried \in Info /\ untried.fInTried = FALSE
        /\ untried.service = a.mapInfo[old].service
        /\ untried.nRandomPos = a.mapInfo[old].nRandomPos
    BY <2>4 DEF Info
  <2>7. info[old] = [untried EXCEPT !.nRefCount = 1]
    BY <2>3
  <2> HIDE DEF untried
  <2>6. /\ info[old] \in Info
        /\ info[old].fInTried = FALSE /\ info[old].nRefCount = 1
        /\ info[old].service = a.mapInfo[old].service
        /\ info[old].nRandomPos = a.mapInfo[old].nRandomPos
    BY <2>5, <2>7 DEF Info
  <2> QED
    BY <2>1, <2>2, <2>6
<1>10. /\ tried \in [TriedBuckets -> SUBSET D] /\ tried[t] = (a.vvTried[t] \ {old}) \cup {n}
       /\ \A b \in TriedBuckets \ {t} : tried[b] = a.vvTried[b]
  BY <1>1
<1>11. /\ new \in [NewBuckets -> SUBSET D] /\ new[h] = (a.vvNew[h] \ {n}) \cup {old}
       /\ \A b \in NewBuckets \ {h} : new[b] = a.vvNew[b] \ {n}
  BY <1>1, <1>2, <1>4, <1>7
<1> HIDE DEF info, tried, new
<1>12. /\ c.mapInfo = info /\ c.vvNew = new /\ c.vvTried = tried
       /\ c.nNew = a.nNew /\ c.nTried = a.nTried
       /\ c \in Only(c.mapInfo, a.mapAddr, a.vRandom, c.vvNew, c.vvTried, c.nNew, c.nTried)
  BY <1>8 DEF Only
<1>13. DOMAIN info = D /\ info \in [D -> Info]
  <2>1. \A m \in D : info[m] \in Info
    BY <1>2, <1>9
  <2> QED
    BY <1>9, <2>1
<1>14. /\ \A m \in D : /\ info[m].service = a.mapInfo[m].service
                       /\ info[m].nRandomPos = a.mapInfo[m].nRandomPos
       /\ \A m \in D : info[m].fInTried = (m = n \/ (a.mapInfo[m].fInTried /\ m # old))
  <2>1. info[n].fInTried = TRUE /\ info[n].service = a.mapInfo[n].service
        /\ info[n].nRandomPos = a.mapInfo[n].nRandomPos
    BY <1>2, <1>4, <1>9, <1>13 DEF Info
  <2>2. \A m \in D \ {n, old} : info[m] = a.mapInfo[m] /\ a.mapInfo[m].fInTried \in BOOLEAN
    BY <1>1, <1>2, <1>9 DEF Info
  <2>3. ASSUME NEW m \in D
        PROVE  /\ info[m].service = a.mapInfo[m].service
               /\ info[m].nRandomPos = a.mapInfo[m].nRandomPos
               /\ info[m].fInTried = (m = n \/ (a.mapInfo[m].fInTried /\ m # old))
    <3>1. CASE m = n
      BY <2>1, <3>1
    <3>2. CASE m = old
      BY <1>4, <1>9, <3>2
    <3>3. CASE m \notin {n, old}
      BY <2>2, <3>3
    <3> QED
      BY <3>1, <3>2, <3>3
  <2> QED
    BY <2>3
<1>15. Retabled(a, c)
  BY <1>1, <1>10, <1>11, <1>12, <1>13, <1>14 DEF Retabled
<1>16. IsManager(c) /\ RandomOK(c) /\ AddrOK(c) /\ c.vRandom = a.vRandom
  BY <1>1, <1>15, RetabledKeeps
<1>17. TotalsOK(c)
  <2>1. TriedIn(c) = (TriedIn(a) \ {old}) \cup {n} /\ NewIn(c) = (NewIn(a) \ {n}) \cup {old}
    BY <1>4, <1>12, <1>13, <1>14 DEF TriedIn, NewIn
  <2>2. n \in NewIn(a) /\ n \notin TriedIn(a) /\ old \in TriedIn(a) /\ old \notin NewIn(a)
    BY <1>4 DEF TriedIn, NewIn
  <2>3. IsFiniteSet(TriedIn(a)) /\ Cardinality(TriedIn(a)) \in Nat
        /\ IsFiniteSet(NewIn(a)) /\ Cardinality(NewIn(a)) \in Nat
    BY <1>1, BucketsAreFinite DEF TriedIn, NewIn
  <2>4. Cardinality(TriedIn(c)) = Cardinality(TriedIn(a))
    BY <2>1, <2>2, <2>3, ElementReplaced
  <2>5. Cardinality(NewIn(c)) = Cardinality(NewIn(a))
    BY <2>1, <2>2, <2>3, ElementReplaced
  <2> QED
    BY <1>1, <1>12, <1>16, <2>4, <2>5 DEF TotalsOK
<1>18. TriedOK(c)
  <2>1. ASSUME NEW m \in D, NEW b \in TriedBuckets
        PROVE  m \in tried[b] <=> info[m].fInTried /\ b = TriedBucket[info[m].service]
    <3>1. m \in a.vvTried[b] <=> a.mapInfo[m].fInTried /\ b = TriedBucket[a.mapInfo[m].service]
      BY <1>1 DEF TriedOK
    <3>2. info[m].service = a.mapInfo[m].service
          /\ info[m].fInTried = (m = n \/ (a.mapInfo[m].fInTried /\ m # old))
      BY <1>14
    <3>3. m \in tried[b] <=> IF b = t THEN m = n \/ (m \in a.vvTried[t] /\ m # old)
                                      ELSE m \in a.vvTried[b]
      BY <1>10
    <3>4. CASE m = n
      BY <1>4, <3>1, <3>2, <3>3, <3>4 DEF t
    <3>5. CASE m = old
      BY <1>4, <3>1, <3>2, <3>3, <3>5
    <3>6. CASE m # n /\ m # old
      BY <3>1, <3>2, <3>3, <3>6
    <3> QED
      BY <3>4, <3>5, <3>6
  <2>2. ASSUME NEW b \in TriedBuckets
        PROVE  Cardinality(tried[b]) <= MaxTriedBucket
    <3>1. IsFiniteSet(a.vvTried[b]) /\ Cardinality(a.vvTried[b]) <= MaxTriedBucket
      BY <1>1, BucketsAreFinite DEF TriedOK
    <3>2. CASE b = t
      BY <1>4, <1>10, <3>1, <3>2, ElementReplaced
    <3> QED
      BY <1>10, <3>1, <3>2
  <2> QED
    BY <1>12, <1>13, <2>1, <2>2 DEF TriedOK
<1>19. SizesOK(c)
  <2>1. ASSUME NEW b \in NewBuckets
        PROVE  Cardinality(new[b]) <= MaxNewBucket
    <3>1. IsFiniteSet(a.vvNew[b]) /\ Cardinality(a.vvNew[b]) <= MaxNewBucket
      BY <1>1, BucketsAreFinite DEF SizesOK
    <3>2. Cardinality(a.vvNew[b] \ {n}) <= Cardinality(a.vvNew[b])
          /\ Cardinality(a.vvNew[b] \ {n}) \in Nat /\ Cardinality(a.vvNew[b]) \in Nat
      BY <3>1, OneElement
    <3>3. MaxNewBucket \in Nat
      BY AddrManAssumption
    <3>4. CASE b = h
      <4>1. PICK S : S = a.vvNew[h] \ {n}
        OBVIOUS
      <4>2. Cardinality(S) < MaxNewBucket /\ IsFiniteSet(S) /\ new[b] = S \cup {old}
        <5>1. S = left.vvNew[h] /\ S \subseteq Ids
          BY <1>1, <1>2, <1>7, <4>1
        <5> QED
          BY <1>7, <1>11, <3>4, <4>1, <5>1, BucketsAreFinite
      <4>3. Cardinality(S) \in Nat /\ Cardinality(S \cup {old}) <= Cardinality(S) + 1
            /\ Cardinality(S \cup {old}) \in Nat
        BY <4>2, OneElement
      <4> QED
        BY <3>3, <4>2, <4>3
    <3>5. CASE b # h
      <4>1. new[b] = a.vvNew[b] \ {n}
        BY <1>11, <3>5
      <4> QED
        BY <3>1, <3>2, <3>3, <4>1
    <3> QED
      BY <3>4, <3>5
  <2> QED
    BY <1>12, <2>1 DEF SizesOK
<1>20. ASSUME NEW m \in D
       PROVE  EntryOK(c, m)
  <2>1. CASE m = n
    <3>1. PlacesOf(c, n) = {}
      BY <1>4, <1>11, <1>12 DEF PlacesOf
    <3>2. c.mapInfo[n].nRefCount = 0 /\ c.mapInfo[n].fInTried
      BY <1>2, <1>4, <1>9, <1>12
    <3> QED
      BY <2>1, <3>1, <3>2, FS_EmptySet DEF EntryOK
  <2>2. CASE m = old
    <3>1. PlacesOf(c, old) = {h}
      BY <1>4, <1>5, <1>7, <1>11, <1>12 DEF PlacesOf
    <3>2. Cardinality({h}) = 1
      BY FS_Singleton
    <3>3. MaxRefs \in Nat \ {0}
      BY AddrManAssumption
    <3>4. c.mapInfo[old].nRefCount = 1 /\ ~c.mapInfo[old].fInTried
      BY <1>9, <1>12
    <3> QED
      BY <2>2, <3>1, <3>2, <3>3, <3>4 DEF EntryOK
  <2>3. CASE m # n /\ m # old
    <3>1. PlacesOf(c, m) = PlacesOf(a, m)
      BY <1>11, <1>12, <2>3 DEF PlacesOf
    <3>2. EntryOK(a, m)
      BY DEF SoundOK
    <3> QED
      BY <1>2, <1>9, <1>12, <2>3, <3>1, <3>2 DEF EntryOK
  <2> QED
    BY <2>1, <2>2, <2>3
<1>21. SoundOK(c)
  BY <1>12, <1>13, <1>16, <1>17, <1>18, <1>19, <1>20 DEF SoundOK, BaseOK
<1> QED
  BY <1>12, <1>13, <1>14, <1>21 DEF KeepsTried

(* Good_ keeps the manager consistent and every tried entry.               *)
LEMMA GoodStep ==
    ASSUME SoundOK(am), NEW s \in Services, Good(s)
    PROVE  SoundOK(am') /\ KeepsTried(am, am')
<1>1. PICK n : n = IdOf(s)
  OBVIOUS
<1>2. n \in DOMAIN am.mapInfo /\ ~am.mapInfo[n].fInTried
  BY <1>1 DEF Good, Known, IdOf, SoundOK, BaseOK, AddrOK
<1>3. PICK origin \in NewBuckets : n \in am.vvNew[origin] /\ am' \in MakeTried(am, n, origin)
  BY <1>1 DEF Good
<1> QED
  BY <1>2, <1>3, TryWhereRoom, TryInPlaceOf

(* What GetAddr_ may have made of the managers in S at position i.         *)
Shuffled(S, i) == {SwapRandom(a, i, j) : a \in S, j \in i..Len(am.vRandom)}

(* The recursive function that GetAddr_'s loop is, up to position n.       *)
IsShuffle(g, n) == g = [i \in 0..n |-> IF i = 0 THEN {am} ELSE Shuffled(g[i - 1], i)]

(* The recursion over the positions is well defined: were it not, there    *)
(* would be a least number of positions for which it is not.               *)
LEMMA ShuffleExists ==
    ASSUME NEW n \in Nat
    PROVE  \E g : IsShuffle(g, n)
<1> DEFINE T == {m \in Nat : ~ \E g : IsShuffle(g, m)}
<1>1. SUFFICES ASSUME T # {}
               PROVE  FALSE
  OBVIOUS
<1> HIDE DEF T
<1>2. PICK m \in T : \A k \in T : m <= k
  <2>1. T \subseteq Nat
    BY DEF T
  <2> QED
    BY <1>1, <2>1, LeastOf
<1>3. m \in Nat /\ ~ \E g : IsShuffle(g, m)
  BY <1>2 DEF T
<1>4. CASE m = 0
  <2> DEFINE h == [i \in 0..0 |-> {am}]
  <2>1. h = [i \in 0..0 |-> IF i = 0 THEN {am} ELSE Shuffled(h[i - 1], i)]
    OBVIOUS
  <2>2. IsShuffle(h, 0)
    BY <2>1 DEF IsShuffle
  <2> HIDE DEF h
  <2> QED
    BY <1>3, <1>4, <2>2
<1>5. CASE m # 0
  <2>1. m - 1 \in Nat /\ m - 1 \notin T
    BY <1>2, <1>3, <1>5
  <2>2. PICK g : IsShuffle(g, m - 1)
    BY <2>1 DEF T
  <2> DEFINE h == [i \in 0..m |-> IF i = m THEN Shuffled(g[m - 1], m) ELSE g[i]]
  <2>3. \A i \in 0..m - 1 : h[i] = g[i]
    BY <1>3
  <2>4. \A i \in 0..m - 1 : g[i] = IF i = 0 THEN {am} ELSE Shuffled(g[i - 1], i)
    BY <2>2 DEF IsShuffle
  <2>5. h[m] = Shuffled(g[m - 1], m)
    BY <1>3
  <2>6. \A i \in 0..m : h[i] = IF i = 0 THEN {am} ELSE Shuffled(h[i - 1], i)
    <3>1. ASSUME NEW i \in 0..m, i # m
          PROVE  h[i] = IF i = 0 THEN {am} ELSE Shuffled(h[i - 1], i)
      <4>1. i \in 0..m - 1 /\ (i # 0 => i - 1 \in 0..m - 1)
        BY <1>3, <3>1
      <4> HIDE DEF h
      <4> QED
        BY <2>3, <2>4, <4>1
    <3>2. h[m] = Shuffled(h[m - 1], m)
      <4>1. m - 1 \in 0..m - 1
        BY <2>1
      <4>2. h[m - 1] = g[m - 1]
        BY <2>3, <4>1
      <4> HIDE DEF h
      <4> QED
        BY <2>5, <4>2
    <3> QED
      BY <1>5, <3>1, <3>2
  <2>7. h = [i \in 0..m |-> h[i]]
    OBVIOUS
  <2> HIDE DEF h
  <2>8. IsShuffle(h, m)
    <3>1. [i \in 0..m |-> h[i]]
             = [i \in 0..m |-> IF i = 0 THEN {am} ELSE Shuffled(h[i - 1], i)]
      BY <2>6
    <3> QED
      BY <2>7, <3>1 DEF IsShuffle
  <2> QED
    BY <1>3, <2>8
<1> QED
  BY <1>4, <1>5

(* A manager on the way keeps everything but the order.                    *)
OnTheWay(a) == SoundOK(a) /\ Len(a.vRandom) = Len(am.vRandom) /\ KeepsTried(am, a)

(* Each swap of the loop keeps the manager consistent.                     *)
LEMMA SwapOnTheWay ==
    ASSUME NEW a, OnTheWay(a), NEW i \in Nat \ {0}, NEW j \in i..Len(am.vRandom)
    PROVE  OnTheWay(SwapRandom(a, i, j))
<1>1. PICK c : c = SwapRandom(a, i, j)
  OBVIOUS
<1>2. Len(a.vRandom) \in Nat /\ Len(a.vRandom) = Len(am.vRandom)
  BY DEF OnTheWay, SoundOK, BaseOK, IsManager
<1>3. i \in 1..Len(a.vRandom) /\ j \in 1..Len(a.vRandom)
  BY <1>2
<1>4. IsManager(a) /\ RandomOK(a) /\ SoundOK(a)
  BY DEF OnTheWay, SoundOK, BaseOK
<1>5. Moved(a, c) /\ RandomOK(c)
  BY <1>1, <1>3, <1>4, SwapMoves
<1>6. SoundOK(c)
  BY <1>4, <1>5, MovedSound
<1>7. Len(c.vRandom) = Len(a.vRandom) /\ DOMAIN c.mapInfo = DOMAIN a.mapInfo
      /\ \A m \in DOMAIN a.mapInfo : c.mapInfo[m].service = a.mapInfo[m].service
  BY <1>5 DEF Moved
<1>8. KeepsTried(am, c)
  BY <1>7 DEF OnTheWay, KeepsTried
<1> QED
  BY <1>1, <1>2, <1>6, <1>7, <1>8 DEF OnTheWay

(* GetAddr_ keeps the manager consistent and every tried entry: were it    *)
(* not so, there would be a first swap that does not.                      *)
LEMMA GetAddrStep ==
    ASSUME SoundOK(am), GetAddr
    PROVE  SoundOK(am') /\ KeepsTried(am, am')
<1> DEFINE size == Len(am.vRandom)
           n == Min({(MaxPct * size) \div 100, MaxGetAddr})
           shuffled == CHOOSE g : g = [i \in 0..n |->
                          IF i = 0 THEN {am}
                          ELSE {SwapRandom(a, i, j) : a \in g[i - 1], j \in i..size}]
<1>1. n \in Nat
  <2>1. size \in Nat
    BY DEF SoundOK, BaseOK, IsManager
  <2>2. MaxPct \in Nat /\ MaxGetAddr \in Nat
    BY AddrManAssumption
  <2>3. PICK k \in Nat : k = MaxPct * size
    BY <2>1, <2>2
  <2>4. k \div 100 \in Nat
    BY <2>3
  <2>5. PICK x \in Nat : x = (MaxPct * size) \div 100
    BY <2>3, <2>4
  <2>6. \E y \in {x, MaxGetAddr} : \A z \in {x, MaxGetAddr} : y <= z
    BY <2>2
  <2>7. Min({x, MaxGetAddr}) \in {x, MaxGetAddr}
    BY <2>6 DEF Min
  <2> QED
    BY <2>2, <2>5, <2>7
<1>2. am' \in shuffled[n]
  BY DEF GetAddr
<1>3. IsShuffle(shuffled, n)
  <2>1. \E g : IsShuffle(g, n)
    BY <1>1, ShuffleExists
  <2>2. shuffled = CHOOSE g : IsShuffle(g, n)
    BY DEF IsShuffle, Shuffled
  <2> HIDE DEF shuffled, n
  <2> QED
    BY <2>1, <2>2
<1> HIDE DEF shuffled, n
<1>4. shuffled[0] = {am}
  BY <1>1, <1>3 DEF IsShuffle
<1>5. \A i \in 1..n : shuffled[i] = Shuffled(shuffled[i - 1], i)
  <2>1. \A i \in 0..n : shuffled[i] = IF i = 0 THEN {am} ELSE Shuffled(shuffled[i - 1], i)
    BY <1>3 DEF IsShuffle
  <2>2. \A i \in 1..n : i \in 0..n /\ i # 0
    BY <1>1
  <2> QED
    BY <2>1, <2>2
<1> DEFINE T == {i \in 0..n : ~ \A a \in shuffled[i] : OnTheWay(a)}
<1>6. T = {}
  <2>1. SUFFICES ASSUME T # {}
                 PROVE  FALSE
    OBVIOUS
  <2> HIDE DEF T
  <2>2. PICK i \in T : \A k \in T : i <= k
    <3>1. T \subseteq Nat
      BY <1>1 DEF T
    <3> QED
      BY <2>1, <3>1, LeastOf
  <2>3. i \in 0..n /\ ~ \A a \in shuffled[i] : OnTheWay(a)
    BY <2>2 DEF T
  <2>4. OnTheWay(am)
    BY DEF OnTheWay, KeepsTried
  <2>5. i # 0
    BY <1>4, <2>3, <2>4
  <2>6. i - 1 \in 0..n /\ i \in 1..n /\ i \in Nat \ {0} /\ ~(i <= i - 1)
    BY <1>1, <2>3, <2>5
  <2>7. \A a \in shuffled[i - 1] : OnTheWay(a)
    BY <2>2, <2>6 DEF T
  <2>8. PICK c \in shuffled[i] : ~OnTheWay(c)
    BY <2>3
  <2>9. PICK a \in shuffled[i - 1], j \in i..Len(am.vRandom) : c = SwapRandom(a, i, j)
    BY <1>5, <2>6, <2>8 DEF Shuffled
  <2> QED
    BY <2>6, <2>7, <2>8, <2>9, SwapOnTheWay
<1>7. OnTheWay(am')
  BY <1>1, <1>2, <1>6
<1> QED
  BY <1>7 DEF OnTheWay

(* Ranks in a finite set of naturals are its elements, counted from one.   *)
LEMMA RankCounts ==
    ASSUME NEW S, S \subseteq Nat, IsFiniteSet(S)
    PROVE  /\ \A n \in S : Rank(n, S) \in 1..Cardinality(S)
           /\ \A n, m \in S : Rank(n, S) = Rank(m, S) => n = m
<1> DEFINE upto(n) == {m \in S : m <= n}
<1>1. ASSUME NEW n \in S
      PROVE  /\ IsFiniteSet(upto(n)) /\ Cardinality(upto(n)) \in Nat
             /\ Cardinality(upto(n)) \in 1..Cardinality(S)
  <2>1. upto(n) \in SUBSET S /\ {n} \in SUBSET upto(n)
    OBVIOUS
  <2> HIDE DEF upto
  <2>2. IsFiniteSet(upto(n)) /\ Cardinality(upto(n)) <= Cardinality(S)
    BY <2>1, FS_Subset
  <2>3. Cardinality({n}) <= Cardinality(upto(n)) /\ Cardinality({n}) = 1
    BY <2>1, <2>2, FS_Subset, FS_Singleton
  <2>4. Cardinality(upto(n)) \in Nat /\ Cardinality(S) \in Nat
    BY <2>2, FS_CardinalityType
  <2> QED
    BY <2>2, <2>3, <2>4
<1>2. ASSUME NEW n \in S, NEW m \in S, n < m
      PROVE  Cardinality(upto(n)) < Cardinality(upto(m))
  <2>1. upto(n) \cup {m} \in SUBSET upto(m) /\ m \notin upto(n)
    <3>1. n \in Nat /\ m \in Nat
      OBVIOUS
    <3>2. m \in upto(m) /\ m \notin upto(n)
      BY <1>2, <3>1
    <3>3. \A x \in upto(n) : x \in upto(m)
      <4>1. \A x \in upto(n) : x \in S /\ x <= n /\ x \in Nat
        OBVIOUS
      <4>2. \A x \in Nat : x <= n => x <= m
        BY <1>2, <3>1
      <4> QED
        BY <4>1, <4>2
    <3> HIDE DEF upto
    <3> QED
      BY <3>2, <3>3
  <2> HIDE DEF upto
  <2>2. Cardinality(upto(n) \cup {m}) = Cardinality(upto(n)) + 1
    BY <1>1, <2>1, FS_AddElement
  <2>3. Cardinality(upto(n) \cup {m}) <= Cardinality(upto(m))
    BY <1>1, <2>1, FS_Subset
  <2>4. Cardinality(upto(n)) \in Nat /\ Cardinality(upto(m)) \in Nat
    BY <1>1
  <2> QED
    BY <2>2, <2>3, <2>4
<1>3. \A n \in S : Rank(n, S) = Cardinality(upto(n))
  BY DEF Rank
<1> HIDE DEF upto
<1>4. ASSUME NEW n \in S, NEW m \in S, n # m
      PROVE  Rank(n, S) # Rank(m, S)
  <2>1. n < m \/ m < n
    BY <1>4
  <2>2. Cardinality(upto(n)) \in Nat /\ Cardinality(upto(m)) \in Nat
    BY <1>1
  <2> QED
    BY <1>2, <1>3, <2>1, <2>2
<1> QED
  BY <1>1, <1>3, <1>4

(* Renaming the elements of a finite set keeps their number.               *)
LEMMA SameSize ==
    ASSUME NEW D, NEW T, NEW f \in [D -> T], \A x, y \in D : f[x] = f[y] => x = y,
           NEW S \in SUBSET D, IsFiniteSet(S)
    PROVE  IsFiniteSet({f[x] : x \in S}) /\ Cardinality({f[x] : x \in S}) = Cardinality(S)
<1> DEFINE image == {f[x] : x \in S}
           g == [x \in S |-> f[x]]
<1>1. g \in [S -> image] /\ \A x \in S : g[x] = f[x]
  OBVIOUS
<1>2. \A y \in image : \E x \in S : f[x] = y
  OBVIOUS
<1> HIDE DEF g, image
<1>3. g \in Injection(S, image)
  <2>1. \A x, y \in S : f[x] = f[y] => x = y
    OBVIOUS
  <2>2. \A x, y \in S : g[x] = g[y] => x = y
    BY <1>1, <2>1
  <2> QED
    BY <1>1, <2>2 DEF Injection, IsInjective
<1>4. g \in Surjection(S, image)
  BY <1>1, <1>2 DEF Surjection
<1>5. ExistsBijection(S, image)
  BY <1>3, <1>4 DEF ExistsBijection, Bijection
<1>6. IsFiniteSet(image) /\ Cardinality(image) = Cardinality(S)
  BY <1>5, FS_Bijection
<1> QED
  BY <1>6 DEF image

(* c is a with its entries numbered anew, in the order of their numbers:   *)
(* f leads from the old number to the new one, w back.                     *)
Renumbered(a, c, f, w, k) ==
    /\ k = Cardinality(DOMAIN a.mapInfo)
    /\ f \in [DOMAIN a.mapInfo -> 1..k] /\ w \in [1..k -> DOMAIN a.mapInfo]
    /\ \A n \in DOMAIN a.mapInfo : w[f[n]] = n
    /\ \A i \in 1..k : f[w[i]] = i
    /\ c \in Only(c.mapInfo, c.mapAddr, [i \in 1..k |-> i],
                  [b \in NewBuckets |-> {f[n] : n \in a.vvNew[b]}],
                  [b \in TriedBuckets |-> {f[n] : n \in a.vvTried[b]}], a.nNew, a.nTried)
    /\ c.mapInfo \in [1..k -> Info]
    /\ \A i \in 1..k :
          /\ c.mapInfo[i].service = a.mapInfo[w[i]].service
          /\ c.mapInfo[i].source = a.mapInfo[w[i]].source
          /\ c.mapInfo[i].fInTried = a.mapInfo[w[i]].fInTried
          /\ c.mapInfo[i].nRefCount = a.mapInfo[w[i]].nRefCount
          /\ c.mapInfo[i].nRandomPos = i
    /\ DOMAIN c.mapAddr = {Address[a.mapInfo[w[i]].service] : i \in 1..k}
    /\ \A i \in 1..k : c.mapAddr[Address[a.mapInfo[w[i]].service]] = i

(* The tables of the renumbered manager hold the same entries.             *)
LEMMA RenumberedTables ==
    ASSUME NEW a, IsManager(a), NEW c, NEW f, NEW w, NEW k, Renumbered(a, c, f, w, k)
    PROVE  /\ k \in Nat /\ 1..k \subseteq Ids /\ DOMAIN c.mapInfo = 1..k
           /\ c.vRandom = [i \in 1..k |-> i] /\ c.nNew = a.nNew /\ c.nTried = a.nTried
           /\ \A b \in NewBuckets : c.vvNew[b] = {f[n] : n \in a.vvNew[b]}
           /\ \A b \in TriedBuckets : c.vvTried[b] = {f[n] : n \in a.vvTried[b]}
           /\ \A i \in 1..k, b \in NewBuckets : i \in c.vvNew[b] <=> w[i] \in a.vvNew[b]
           /\ \A i \in 1..k, b \in TriedBuckets : i \in c.vvTried[b] <=> w[i] \in a.vvTried[b]
<1> DEFINE D == DOMAIN a.mapInfo
<1>1. /\ k = Cardinality(D) /\ f \in [D -> 1..k] /\ w \in [1..k -> D]
      /\ \A n \in D : w[f[n]] = n
      /\ \A i \in 1..k : f[w[i]] = i
  BY DEF Renumbered
<1>2. k \in Nat /\ 1..k \subseteq Ids
  <2>1. D \in SUBSET Ids
    BY DEF IsManager
  <2>2. IsFiniteSet(D) /\ Cardinality(D) \in Nat /\ Cardinality(D) <= Cardinality(Ids)
    BY <2>1, IdsAreFinite, FS_Subset, FS_CardinalityType
  <2> QED
    BY <1>1, <2>2, IdsAreFinite DEF Ids
<1>3. /\ DOMAIN c.mapInfo = 1..k
      /\ c.vRandom = [i \in 1..k |-> i] /\ c.nNew = a.nNew /\ c.nTried = a.nTried
      /\ c.vvNew = [b \in NewBuckets |-> {f[n] : n \in a.vvNew[b]}]
      /\ c.vvTried = [b \in TriedBuckets |-> {f[n] : n \in a.vvTried[b]}]
  BY DEF Renumbered, Only
<1>4. /\ \A b \in NewBuckets : a.vvNew[b] \subseteq D
      /\ \A b \in TriedBuckets : a.vvTried[b] \subseteq D
  BY DEF IsManager
<1>5. ASSUME NEW i \in 1..k, NEW S, S \subseteq D
      PROVE  i \in {f[n] : n \in S} <=> w[i] \in S
  <2>1. w[i] \in D /\ f[w[i]] = i
    BY <1>1
  <2>2. \A n \in S : f[n] = i => w[i] = n
    BY <1>1, <1>5
  <2> QED
    BY <2>1, <2>2
<1>6. \A i \in 1..k, b \in NewBuckets : i \in c.vvNew[b] <=> w[i] \in a.vvNew[b]
  BY <1>3, <1>4, <1>5
<1>7. \A i \in 1..k, b \in TriedBuckets : i \in c.vvTried[b] <=> w[i] \in a.vvTried[b]
  BY <1>3, <1>4, <1>5
<1> QED
  BY <1>2, <1>3, <1>6, <1>7

(* Renumbering keeps the indexes consistent.                               *)
LEMMA RenumberedSound ==
    ASSUME NEW a, SoundOK(a), NEW c, NEW f, NEW w, NEW k, Renumbered(a, c, f, w, k)
    PROVE  SoundOK(c)
<1> DEFINE D == DOMAIN a.mapInfo
<1>1. /\ f \in [D -> 1..k] /\ w \in [1..k -> D]
      /\ \A n \in D : w[f[n]] = n
      /\ \A i \in 1..k : f[w[i]] = i
  BY DEF Renumbered
<1>2. /\ k \in Nat /\ 1..k \subseteq Ids /\ DOMAIN c.mapInfo = 1..k
      /\ c.vRandom = [i \in 1..k |-> i] /\ c.nNew = a.nNew /\ c.nTried = a.nTried
      /\ \A b \in NewBuckets : c.vvNew[b] = {f[n] : n \in a.vvNew[b]}
      /\ \A b \in TriedBuckets : c.vvTried[b] = {f[n] : n \in a.vvTried[b]}
      /\ \A i \in 1..k, b \in NewBuckets : i \in c.vvNew[b] <=> w[i] \in a.vvNew[b]
      /\ \A i \in 1..k, b \in TriedBuckets : i \in c.vvTried[b] <=> w[i] \in a.vvTried[b]
  BY RenumberedTables DEF SoundOK, BaseOK
<1>3. \A i \in 1..k :
          /\ w[i] \in D
          /\ c.mapInfo[i].service = a.mapInfo[w[i]].service
          /\ c.mapInfo[i].fInTried = a.mapInfo[w[i]].fInTried
          /\ c.mapInfo[i].nRefCount = a.mapInfo[w[i]].nRefCount
          /\ c.mapInfo[i].nRandomPos = i
  BY <1>1 DEF Renumbered
<1>4. \A x, y \in D : f[x] = f[y] => x = y
  BY <1>1
<1>5. ASSUME NEW S, S \subseteq D
      PROVE  Cardinality({f[n] : n \in S}) = Cardinality(S)
  <2>1. IsFiniteSet(S)
    BY <1>5, BucketsAreFinite DEF SoundOK, BaseOK, IsManager
  <2>2. S \in SUBSET D /\ f \in [D -> 1..k]
    BY <1>1, <1>5
  <2> HIDE DEF D
  <2> QED
    BY <1>4, <2>1, <2>2, SameSize
<1>6. /\ \A b \in NewBuckets : a.vvNew[b] \subseteq D
      /\ \A b \in TriedBuckets : a.vvTried[b] \subseteq D
      /\ a.nNew \in Int /\ a.nTried \in Int
  BY DEF SoundOK, BaseOK, IsManager
<1>7. IsManager(c)
  <2>1. c \in Only(c.mapInfo, c.mapAddr, c.vRandom, c.vvNew, c.vvTried, c.nNew, c.nTried)
    <3>1. \E order, new, tried :
             c \in Only(c.mapInfo, c.mapAddr, order, new, tried, a.nNew, a.nTried)
      BY DEF Renumbered
    <3> QED
      BY <3>1, OnlyFields
  <2>2. c.mapInfo \in [1..k -> Info]
    BY DEF Renumbered
  <2>3. c.vRandom \in Seq(1..k)
    BY <1>2
  <2>4. /\ c.vvNew = [b \in NewBuckets |-> {f[n] : n \in a.vvNew[b]}]
        /\ c.vvTried = [b \in TriedBuckets |-> {f[n] : n \in a.vvTried[b]}]
    BY DEF Renumbered, Only
  <2>5. /\ \A b \in NewBuckets : {f[n] : n \in a.vvNew[b]} \subseteq 1..k
        /\ \A b \in TriedBuckets : {f[n] : n \in a.vvTried[b]} \subseteq 1..k
    BY <1>1, <1>6
  <2>6. c.vvNew \in [NewBuckets -> SUBSET (1..k)] /\ c.vvTried \in [TriedBuckets -> SUBSET (1..k)]
    BY <2>4, <2>5
  <2> QED
    BY <1>2, <1>6, <2>1, <2>2, <2>3, <2>6 DEF IsManager
<1>8. RandomOK(c)
  <2>1. Len(c.vRandom) = k /\ \A i \in 1..k : c.vRandom[i] = i
    BY <1>2
  <2> QED
    BY <1>2, <1>3, <2>1 DEF RandomOK
<1>9. AddrOK(c)
  <2>1. /\ DOMAIN c.mapAddr = {Address[a.mapInfo[w[i]].service] : i \in 1..k}
        /\ \A i \in 1..k : c.mapAddr[Address[a.mapInfo[w[i]].service]] = i
    BY DEF Renumbered
  <2>2. {Address[a.mapInfo[w[i]].service] : i \in 1..k}
           = {Address[c.mapInfo[i].service] : i \in 1..k}
    BY <1>3
  <2>3. \A i \in 1..k : c.mapAddr[Address[c.mapInfo[i].service]] = i
    BY <1>3, <2>1
  <2> QED
    BY <1>2, <2>1, <2>2, <2>3 DEF AddrOK
<1>10. TotalsOK(c)
  <2>1. TriedIn(c) = {f[n] : n \in TriedIn(a)}
    <3>1. TriedIn(c) = {i \in 1..k : a.mapInfo[w[i]].fInTried}
      BY <1>2, <1>3 DEF TriedIn
    <3>2. \A n \in TriedIn(a) : n \in D /\ a.mapInfo[n].fInTried
      BY DEF TriedIn
    <3>3. \A i \in 1..k : a.mapInfo[w[i]].fInTried => w[i] \in TriedIn(a)
      BY <1>1 DEF TriedIn
    <3> QED
      BY <1>1, <3>1, <3>2, <3>3
  <2>2. NewIn(c) = {f[n] : n \in NewIn(a)}
    <3>1. NewIn(c) = {i \in 1..k : ~a.mapInfo[w[i]].fInTried}
      BY <1>2, <1>3 DEF NewIn
    <3> QED
      BY <1>1, <3>1 DEF NewIn
  <2>3. TriedIn(a) \subseteq D /\ NewIn(a) \subseteq D
    BY DEF TriedIn, NewIn
  <2>4. a.nTried = Cardinality(TriedIn(a)) /\ a.nNew = Cardinality(NewIn(a))
    BY DEF SoundOK, BaseOK, TotalsOK
  <2>5. c.nTried = Cardinality(TriedIn(c)) /\ c.nNew = Cardinality(NewIn(c))
    BY <1>2, <1>5, <2>1, <2>2, <2>3, <2>4
  <2>6. Len(c.vRandom) = k
    BY <1>2
  <2>7. k = Cardinality(NewIn(a)) + Cardinality(TriedIn(a))
    <3>1. NewIn(a) \cup TriedIn(a) = D /\ NewIn(a) \cap TriedIn(a) = {}
      BY DEF TriedIn, NewIn
    <3>2. IsFiniteSet(NewIn(a)) /\ IsFiniteSet(TriedIn(a))
      BY <2>3, BucketsAreFinite DEF SoundOK, BaseOK, IsManager
    <3>3. Cardinality(D) = Cardinality(NewIn(a)) + Cardinality(TriedIn(a)) - Cardinality({})
      BY <3>1, <3>2, FS_Union
    <3>4. Cardinality(NewIn(a)) \in Nat /\ Cardinality(TriedIn(a)) \in Nat /\ Cardinality({}) = 0
      BY <3>2, FS_CardinalityType, FS_EmptySet
    <3> QED
      BY <3>3, <3>4 DEF Renumbered
  <2> QED
    BY <1>2, <2>4, <2>5, <2>6, <2>7 DEF TotalsOK
<1>11. TriedOK(c)
  <2>1. ASSUME NEW i \in 1..k, NEW b \in TriedBuckets
        PROVE  i \in c.vvTried[b] <=>
                  c.mapInfo[i].fInTried /\ b = TriedBucket[c.mapInfo[i].service]
    <3>1. w[i] \in a.vvTried[b] <=>
             a.mapInfo[w[i]].fInTried /\ b = TriedBucket[a.mapInfo[w[i]].service]
      BY <1>3 DEF SoundOK, BaseOK, TriedOK
    <3> QED
      BY <1>2, <1>3, <3>1
  <2>2. ASSUME NEW b \in TriedBuckets
        PROVE  Cardinality(c.vvTried[b]) <= MaxTriedBucket
    <3>1. Cardinality(c.vvTried[b]) = Cardinality(a.vvTried[b])
      BY <1>2, <1>5, <1>6
    <3> QED
      BY <3>1 DEF SoundOK, BaseOK, TriedOK
  <2> QED
    BY <1>2, <2>1, <2>2 DEF TriedOK
<1>12. SizesOK(c)
  <2>1. \A b \in NewBuckets : Cardinality(c.vvNew[b]) = Cardinality(a.vvNew[b])
    BY <1>2, <1>5, <1>6
  <2> QED
    BY <2>1 DEF SoundOK, SizesOK
<1>13. ASSUME NEW i \in 1..k
       PROVE  EntryOK(c, i)
  <2>1. PlacesOf(c, i) = PlacesOf(a, w[i])
    BY <1>2 DEF PlacesOf
  <2>2. EntryOK(a, w[i])
    BY <1>3 DEF SoundOK
  <2> QED
    BY <1>3, <2>1, <2>2 DEF EntryOK
<1> QED
  BY <1>2, <1>7, <1>8, <1>9, <1>10, <1>11, <1>12, <1>13 DEF SoundOK, BaseOK

(* Every service known before is known after, in the tables it was in.     *)
LEMMA RenumberedAlike ==
    ASSUME NEW a, SoundOK(a), NEW c, NEW f, NEW w, NEW k, Renumbered(a, c, f, w, k)
    PROVE  /\ Tables(c) = Tables(a)
           /\ \A n \in DOMAIN a.mapInfo :
                 \E m \in DOMAIN c.mapInfo : c.mapInfo[m].service = a.mapInfo[n].service
<1> DEFINE D == DOMAIN a.mapInfo
           row(x, n) == <<x.mapInfo[n].service, x.mapInfo[n].source, x.mapInfo[n].fInTried,
                          {b \in NewBuckets : n \in x.vvNew[b]},
                          {b \in TriedBuckets : n \in x.vvTried[b]}>>
<1>1. /\ f \in [D -> 1..k] /\ w \in [1..k -> D]
      /\ \A n \in D : w[f[n]] = n
  BY DEF Renumbered
<1>2. /\ DOMAIN c.mapInfo = 1..k
      /\ \A i \in 1..k, b \in NewBuckets : i \in c.vvNew[b] <=> w[i] \in a.vvNew[b]
      /\ \A i \in 1..k, b \in TriedBuckets : i \in c.vvTried[b] <=> w[i] \in a.vvTried[b]
  BY RenumberedTables DEF SoundOK, BaseOK
<1>3. \A i \in 1..k :
          /\ c.mapInfo[i].service = a.mapInfo[w[i]].service
          /\ c.mapInfo[i].source = a.mapInfo[w[i]].source
          /\ c.mapInfo[i].fInTried = a.mapInfo[w[i]].fInTried
  BY DEF Renumbered
<1>4. ASSUME NEW i \in 1..k
      PROVE  row(c, i) = row(a, w[i])
  <2>1. {b \in NewBuckets : i \in c.vvNew[b]} = {b \in NewBuckets : w[i] \in a.vvNew[b]}
    BY <1>2
  <2>2. {b \in TriedBuckets : i \in c.vvTried[b]} = {b \in TriedBuckets : w[i] \in a.vvTried[b]}
    BY <1>2
  <2> QED
    BY <1>3, <2>1, <2>2
<1>5. Tables(c) = {row(c, i) : i \in 1..k} /\ Tables(a) = {row(a, n) : n \in D}
  BY <1>2 DEF Tables
<1> HIDE DEF row
<1>6. \A n \in D : f[n] \in 1..k /\ row(c, f[n]) = row(a, n)
  BY <1>1, <1>4
<1>7. \A i \in 1..k : w[i] \in D
  BY <1>1
<1>8. Tables(c) = Tables(a)
  BY <1>4, <1>5, <1>6, <1>7
<1>9. \A n \in D : f[n] \in DOMAIN c.mapInfo /\ c.mapInfo[f[n]].service = a.mapInfo[n].service
  BY <1>1, <1>2, <1>3
<1> QED
  BY <1>8, <1>9

(* Of a finite set with at most k elements, every element has fewer than k *)
(* others.                                                                 *)
LEMMA FewerOthers ==
    ASSUME NEW S, IsFiniteSet(S), NEW k \in Nat, Cardinality(S) <= k,
           NEW x \in S, NEW T \in SUBSET (S \ {x})
    PROVE  Cardinality(T) < k
<1>1. IsFiniteSet(S \ {x}) /\ Cardinality(S \ {x}) = Cardinality(S) - 1
  BY FS_RemoveElement
<1>2. IsFiniteSet(T) /\ Cardinality(T) <= Cardinality(S \ {x})
  BY <1>1, FS_Subset
<1>3. Cardinality(T) \in Nat /\ Cardinality(S) \in Nat
  BY <1>2, FS_CardinalityType
<1> QED
  BY <1>1, <1>2, <1>3

(* An address has no more places in the file than it may have, so that all *)
(* of them are read again.                                                 *)
LEMMA AllPlaces ==
    ASSUME SoundOK(am), NEW n \in DOMAIN am.mapInfo
    PROVE  Places(n) = PlacesOf(am, n)
<1>1. PICK all : all = PlacesOf(am, n)
  OBVIOUS
<1>2. Places(n) = {b \in all : Cardinality({c \in all : c < b}) < MaxRefs}
  BY <1>1 DEF Places, PlacesOf
<1>3. IsFiniteSet(all) /\ all \subseteq Nat /\ MaxRefs \in Nat
  BY <1>1, PlacesAreFinite, AddrManAssumption DEF PlacesOf
<1>4. Cardinality(all) <= MaxRefs \/ all = {}
  BY <1>1, <1>3 DEF SoundOK, EntryOK
<1>5. ASSUME NEW b \in all
      PROVE  Cardinality({c \in all : c < b}) < MaxRefs
  <2>1. {c \in all : c < b} \in SUBSET (all \ {b})
    BY <1>3
  <2>2. Cardinality(all) <= MaxRefs
    BY <1>4
  <2> QED
    BY <1>3, <2>1, <2>2, FewerOthers
<1> QED
  BY <1>1, <1>2, <1>5

(* A bucket of tried entries is not over its size, so that all of them are *)
(* read again.                                                             *)
LEMMA AllFit ==
    ASSUME SoundOK(am)
    PROVE  {n \in TriedIn(am) :
               Cardinality({m \in TriedIn(am) : m < n /\ TriedBucket[am.mapInfo[m].service]
                                                        = TriedBucket[am.mapInfo[n].service]})
                  < MaxTriedBucket} = TriedIn(am)
<1>1. ASSUME NEW n \in TriedIn(am)
      PROVE  Cardinality({m \in TriedIn(am) : m < n /\ TriedBucket[am.mapInfo[m].service]
                                                        = TriedBucket[am.mapInfo[n].service]})
                  < MaxTriedBucket
  <2>1. PICK b : b = TriedBucket[am.mapInfo[n].service]
    OBVIOUS
  <2>2. /\ DOMAIN am.mapInfo \subseteq Ids /\ am.mapInfo \in [DOMAIN am.mapInfo -> Info]
        /\ am.vvTried \in [TriedBuckets -> SUBSET DOMAIN am.mapInfo]
        /\ n \in DOMAIN am.mapInfo
    BY DEF SoundOK, BaseOK, IsManager, TriedIn
  <2>3. b \in TriedBuckets
    BY <2>1, <2>2, AddrManAssumption DEF Info
  <2>4. \A m \in TriedIn(am) :
           m \in am.vvTried[b] <=> b = TriedBucket[am.mapInfo[m].service]
    BY <2>3 DEF SoundOK, BaseOK, TriedOK, TriedIn
  <2>5. /\ IsFiniteSet(am.vvTried[b]) /\ Cardinality(am.vvTried[b]) <= MaxTriedBucket
        /\ MaxTriedBucket \in Nat /\ n \in am.vvTried[b]
    BY <2>1, <2>2, <2>3, <2>4, BucketsAreFinite, AddrManAssumption DEF SoundOK, BaseOK, TriedOK
  <2> DEFINE below == {m \in TriedIn(am) : m < n /\ TriedBucket[am.mapInfo[m].service] = b}
  <2>6. below \in SUBSET (am.vvTried[b] \ {n})
    <3>1. \A m \in below : m \in am.vvTried[b] /\ m < n
      BY <2>4
    <3>2. \A m \in below : m # n
      <4>1. ~(n < n)
        <5>1. n \in Nat
          BY <2>2, IdsAreFinite
        <5> QED
          BY <5>1
      <4> QED
        BY <3>1, <4>1
    <3> HIDE DEF below
    <3> QED
      BY <3>1, <3>2
  <2> HIDE DEF below
  <2>7. Cardinality(below) < MaxTriedBucket
    BY <2>5, <2>6, FewerOthers
  <2> QED
    BY <2>1, <2>7 DEF below
<1> QED
  BY <1>1

(* Numbers from 1 for the new entries, further ones for the tried ones.    *)
NumberOf(new, fits, n) ==
    IF n \in new THEN Rank(n, new) ELSE Cardinality(new) + Rank(n, fits)

(* The new numbers are those from one to the number of entries.            *)
LEMMA NumbersCount ==
    ASSUME NEW new, NEW fits, new \subseteq Nat, fits \subseteq Nat,
           IsFiniteSet(new), IsFiniteSet(fits), new \cap fits = {}
    PROVE  /\ \A n \in new \cup fits : NumberOf(new, fits, n) \in 1..Cardinality(new \cup fits)
           /\ \A n, m \in new \cup fits : NumberOf(new, fits, n) = NumberOf(new, fits, m) => n = m
           /\ {NumberOf(new, fits, n) : n \in new \cup fits} = 1..Cardinality(new \cup fits)
<1> DEFINE all == new \cup fits
           k == Cardinality(all)
           id(n) == NumberOf(new, fits, n)
<1>1. /\ Cardinality(new) \in Nat /\ Cardinality(fits) \in Nat /\ IsFiniteSet(all)
      /\ k = Cardinality(new) + Cardinality(fits)
  <2>1. Cardinality(new) \in Nat /\ Cardinality(fits) \in Nat /\ Cardinality({}) = 0
    BY FS_CardinalityType, FS_EmptySet
  <2>2. IsFiniteSet(all) /\ k = Cardinality(new) + Cardinality(fits) - Cardinality({})
    BY FS_Union
  <2> QED
    BY <2>1, <2>2
<1>2. /\ \A n \in new : Rank(n, new) \in 1..Cardinality(new)
      /\ \A n, m \in new : Rank(n, new) = Rank(m, new) => n = m
  BY RankCounts
<1>3. /\ \A n \in fits : Rank(n, fits) \in 1..Cardinality(fits)
      /\ \A n, m \in fits : Rank(n, fits) = Rank(m, fits) => n = m
  BY RankCounts
<1>4. \A n \in new : id(n) = Rank(n, new)
  BY DEF NumberOf
<1>5. \A n \in fits : id(n) = Cardinality(new) + Rank(n, fits)
  BY DEF NumberOf
<1> HIDE DEF id, k
<1>6. \A n \in all : id(n) \in 1..k
  <2>1. \A n \in new : id(n) \in 1..k
    BY <1>1, <1>2, <1>4
  <2>2. \A n \in fits : id(n) \in 1..k
    BY <1>1, <1>3, <1>5
  <2> QED
    BY <2>1, <2>2
<1>7. ASSUME NEW n \in all, NEW m \in all, id(n) = id(m)
      PROVE  n = m
  <2>1. CASE n \in new /\ m \in new
    BY <1>2, <1>4, <1>7, <2>1
  <2>2. CASE n \in fits /\ m \in fits
    BY <1>1, <1>3, <1>5, <1>7, <2>2
  <2>3. ASSUME NEW x \in new, NEW y \in fits
        PROVE  id(x) < id(y)
    BY <1>1, <1>2, <1>3, <1>4, <1>5
  <2>4. \A x \in all : id(x) \in Nat
    BY <1>1, <1>6
  <2> QED
    <3>1. ASSUME NEW x \in all, NEW y \in all, x \in new, y \in fits
          PROVE  id(x) # id(y)
      <4>1. id(x) < id(y) /\ id(x) \in Nat /\ id(y) \in Nat
        BY <2>3, <2>4, <3>1
      <4> QED
        BY <4>1
    <3>2. ~(n \in new /\ m \in fits) /\ ~(n \in fits /\ m \in new)
      BY <1>7, <3>1
    <3> QED
      BY <2>1, <2>2, <3>2
<1>8. {id(n) : n \in all} = 1..k
  <2>1. PICK f : f = [n \in all |-> id(n)]
    OBVIOUS
  <2>2. /\ f \in [all -> 1..k] /\ \A x, y \in all : f[x] = f[y] => x = y
        /\ {f[n] : n \in all} = {id(n) : n \in all}
    BY <1>6, <1>7, <2>1
  <2>3. all \in SUBSET all /\ IsFiniteSet(all)
    BY <1>1
  <2> HIDE DEF all
  <2>4. Cardinality({f[n] : n \in all}) = Cardinality(all)
    <3>1. f \in [all -> 1..k] /\ \A x, y \in all : f[x] = f[y] => x = y
      BY <2>2
    <3> QED
      BY ONLY <2>3, <3>1, SameSize
  <2>5. PICK S : S = {id(n) : n \in all}
    OBVIOUS
  <2>6. S \in SUBSET (1..k) /\ Cardinality(S) = Cardinality(all)
    BY <1>6, <2>2, <2>4, <2>5
  <2>7. IsFiniteSet(1..k) /\ Cardinality(1..k) = k
    <3>1. k \in Nat
      BY <1>1
    <3> QED
      BY <3>1, FS_Interval
  <2> QED
    BY <2>5, <2>6, <2>7, FS_Subset DEF k
<1> QED
  BY <1>6, <1>7, <1>8 DEF id, k

(* Writing the manager to peers.dat and reading it back only renumbers it. *)
LEMMA ReloadRenumbers ==
    ASSUME SoundOK(am), Reload
    PROVE  \E f, w, k : Renumbered(am, am', f, w, k)
<1> DEFINE known == DOMAIN am.mapInfo
           bucket(n) == TriedBucket[am.mapInfo[n].service]
           intried == {n \in known : am.mapInfo[n].fInTried}
           new == {n \in known : am.mapInfo[n].nRefCount # 0}
           fits == {n \in intried :
                       Cardinality({m \in intried : m < n /\ bucket(m) = bucket(n)})
                          < MaxTriedBucket}
           id(n) == IF n \in new THEN Rank(n, new) ELSE Cardinality(new) + Rank(n, fits)
           was(i) == CHOOSE n \in new \cup fits : id(n) = i
           ids == {id(n) : n \in new \cup fits}
           info == [i \in ids |-> [am.mapInfo[was(i)] EXCEPT
                       !.nRandomPos = i, !.nRefCount = Cardinality(Places(was(i)))]]
           addr == [x \in {Address[am.mapInfo[was(i)].service] : i \in ids} |->
                       CHOOSE i \in ids : Address[am.mapInfo[was(i)].service] = x]
           order == [i \in 1..Cardinality(ids) |-> i]
           vvNew == [b \in NewBuckets |-> {id(n) : n \in {m \in new : b \in Places(m)}}]
           vvTried == [b \in TriedBuckets |-> {id(n) : n \in {m \in fits : bucket(m) = b}}]
           k == Cardinality(known)
<1>1. am' \in Only(info, addr, order, vvNew, vvTried, Cardinality(new), Cardinality(fits))
  <2>1. am' = [mapInfo |-> info, mapAddr |-> addr, vRandom |-> order, vvNew |-> vvNew,
               vvTried |-> vvTried, nNew |-> Cardinality(new), nTried |-> Cardinality(fits)]
    BY DEF Reload
  <2> HIDE DEF info, addr, order, vvNew, vvTried, new, fits
  <2> QED
    BY <2>1 DEF Only
<1> HIDE DEF info, addr, order, vvNew, vvTried
<1>2. /\ known \subseteq Ids /\ am.mapInfo \in [known -> Info]
      /\ am.vvNew \in [NewBuckets -> SUBSET known]
      /\ am.vvTried \in [TriedBuckets -> SUBSET known]
      /\ am.nNew = Cardinality(NewIn(am)) /\ am.nTried = Cardinality(TriedIn(am))
  BY DEF SoundOK, BaseOK, IsManager, TotalsOK
<1>3. new = NewIn(am)
  <2>1. ASSUME NEW n \in known
        PROVE  am.mapInfo[n].nRefCount # 0 <=> ~am.mapInfo[n].fInTried
    <3>1. EntryOK(am, n)
      BY DEF SoundOK
    <3> QED
      BY <3>1, FS_EmptySet DEF EntryOK
  <2> QED
    BY <2>1 DEF NewIn
<1>4. intried = TriedIn(am) /\ fits = TriedIn(am)
  BY AllFit DEF TriedIn
<1>5. \A n \in known : Places(n) = PlacesOf(am, n)
  BY AllPlaces
<1>6. /\ new \cup fits = known /\ new \cap fits = {} /\ new \subseteq known /\ fits \subseteq known
  BY <1>3, <1>4 DEF NewIn, TriedIn
<1>7. \A n \in new \cup fits : id(n) = NumberOf(new, fits, n)
  BY DEF NumberOf
<1> HIDE DEF new, fits, id
<1>8. /\ \A n \in known : id(n) \in 1..k
      /\ \A n, m \in known : id(n) = id(m) => n = m
      /\ ids = 1..k
  <2>1. new \subseteq Nat /\ fits \subseteq Nat /\ IsFiniteSet(new) /\ IsFiniteSet(fits)
    <3>1. new \subseteq Ids /\ fits \subseteq Ids
      BY <1>2, <1>6
    <3> QED
      BY <3>1, BucketsAreFinite, IdsAreFinite
  <2>2. /\ \A n \in new \cup fits : NumberOf(new, fits, n) \in 1..Cardinality(new \cup fits)
        /\ \A n, m \in new \cup fits : NumberOf(new, fits, n) = NumberOf(new, fits, m) => n = m
        /\ {NumberOf(new, fits, n) : n \in new \cup fits} = 1..Cardinality(new \cup fits)
    BY <1>6, <2>1, NumbersCount
  <2>3. ids = {NumberOf(new, fits, n) : n \in new \cup fits}
    BY <1>7
  <2> QED
    BY <1>6, <1>7, <2>2, <2>3
<1>9. ASSUME NEW i \in 1..k
      PROVE  was(i) \in known /\ id(was(i)) = i
  <2>1. \E n \in new \cup fits : id(n) = i
    BY <1>8
  <2> QED
    BY <1>6, <2>1
<1>10. ASSUME NEW n \in known
       PROVE  was(id(n)) = n
  <2>1. id(n) \in 1..k
    BY <1>8
  <2>2. was(id(n)) \in known /\ id(was(id(n))) = id(n)
    BY <1>9, <2>1
  <2> HIDE DEF was
  <2> QED
    BY <1>8, <2>2
<1> HIDE DEF was
<1>11. k \in Nat /\ Cardinality(ids) = k
  <2>1. k \in Nat
    BY <1>2, BucketsAreFinite
  <2>2. PICK j \in Nat : j = k
    BY <2>1
  <2>3. Cardinality(1..j) = j
    BY FS_Interval
  <2>4. ids = 1..k
    BY <1>8
  <2> HIDE DEF ids, k
  <2> QED
    BY <2>1, <2>2, <2>3, <2>4
<1> HIDE DEF ids, k
<1> DEFINE f == [n \in known |-> id(n)]
           w == [i \in 1..k |-> was(i)]
<1>12. /\ f \in [known -> 1..k] /\ w \in [1..k -> known]
       /\ \A n \in known : f[n] = id(n)
       /\ \A i \in 1..k : w[i] = was(i)
       /\ \A n \in known : w[f[n]] = n
       /\ \A i \in 1..k : f[w[i]] = i
  BY <1>8, <1>9, <1>10
<1> HIDE DEF f, w
<1>13. order = [i \in 1..k |-> i]
  BY <1>11 DEF order
<1>14. vvNew = [b \in NewBuckets |-> {f[n] : n \in am.vvNew[b]}]
  <2>1. ASSUME NEW b \in NewBuckets
        PROVE  {m \in new : b \in Places(m)} = am.vvNew[b]
    <3>1. \A m \in known : b \in Places(m) <=> m \in am.vvNew[b]
      BY <1>5 DEF PlacesOf
    <3>2. am.vvNew[b] \subseteq new
      <4>1. ASSUME NEW m \in am.vvNew[b]
            PROVE  ~am.mapInfo[m].fInTried
        <5>1. m \in known /\ b \in PlacesOf(am, m)
          BY <1>2 DEF PlacesOf
        <5>2. EntryOK(am, m)
          BY <5>1 DEF SoundOK
        <5> QED
          BY <5>1, <5>2 DEF EntryOK
      <4> QED
        BY <1>2, <1>3, <4>1 DEF NewIn
    <3> QED
      BY <1>6, <3>1, <3>2
  <2>2. ASSUME NEW b \in NewBuckets
        PROVE  {id(n) : n \in {m \in new : b \in Places(m)}} = {f[n] : n \in am.vvNew[b]}
    <3>1. am.vvNew[b] \subseteq known
      BY <1>2
    <3> QED
      BY <1>12, <2>1, <3>1
  <2> QED
    BY <2>2 DEF vvNew
<1>15. vvTried = [b \in TriedBuckets |-> {f[n] : n \in am.vvTried[b]}]
  <2>1. ASSUME NEW b \in TriedBuckets
        PROVE  {m \in fits : bucket(m) = b} = am.vvTried[b]
    <3>1. \A m \in known : m \in am.vvTried[b] <=> am.mapInfo[m].fInTried /\ b = bucket(m)
      BY DEF SoundOK, BaseOK, TriedOK
    <3>2. am.vvTried[b] \subseteq known
      BY <1>2
    <3> QED
      BY <1>4, <3>1, <3>2 DEF TriedIn
  <2>2. ASSUME NEW b \in TriedBuckets
        PROVE  {id(n) : n \in {m \in fits : bucket(m) = b}} = {f[n] : n \in am.vvTried[b]}
    <3>1. am.vvTried[b] \subseteq known
      BY <1>2
    <3> QED
      BY <1>12, <2>1, <3>1
  <2> QED
    BY <2>2 DEF vvTried
<1>16. ASSUME NEW i \in 1..k
       PROVE  /\ info[i] \in Info
              /\ info[i].service = am.mapInfo[w[i]].service
              /\ info[i].source = am.mapInfo[w[i]].source
              /\ info[i].fInTried = am.mapInfo[w[i]].fInTried
              /\ info[i].nRefCount = am.mapInfo[w[i]].nRefCount
              /\ info[i].nRandomPos = i
  <2>1. PICK e : e = am.mapInfo[w[i]]
    OBVIOUS
  <2>2. w[i] \in known /\ e \in Info
    BY <1>2, <1>12, <2>1
  <2>3. Cardinality(Places(w[i])) = e.nRefCount
    BY <1>5, <2>1, <2>2 DEF SoundOK, EntryOK
  <2>4. info[i] = [e EXCEPT !.nRandomPos = i, !.nRefCount = e.nRefCount]
    BY <1>8, <1>12, <2>1, <2>3 DEF info, ids
  <2>5. i \in Nat /\ e.nRefCount \in Int
    BY <1>11, <2>2 DEF Info
  <2> QED
    BY <2>1, <2>2, <2>4, <2>5 DEF Info
<1>17. DOMAIN info = 1..k /\ info \in [1..k -> Info]
  <2>1. info = [i \in 1..k |-> info[i]]
    BY <1>8 DEF info
  <2> QED
    BY <1>16, <2>1
<1>18. DOMAIN addr = {Address[am.mapInfo[w[i]].service] : i \in 1..k}
  BY <1>8, <1>12 DEF addr
<1>19. ASSUME NEW i \in 1..k
       PROVE  addr[Address[am.mapInfo[w[i]].service]] = i
  <2>1. PICK x : x = Address[am.mapInfo[w[i]].service]
    OBVIOUS
  <2>2. addr[x] = CHOOSE j \in 1..k : Address[am.mapInfo[was(j)].service] = x
    BY <1>8, <1>12, <1>18, <2>1 DEF addr
  <2>3. ASSUME NEW j \in 1..k, Address[am.mapInfo[was(j)].service] = x
        PROVE  j = i
    <3>1. w[i] \in known /\ w[j] \in known /\ w[j] = was(j)
      BY <1>12
    <3>2. am.mapAddr[x] = w[i] /\ am.mapAddr[x] = w[j]
      BY <2>1, <2>3, <3>1 DEF SoundOK, BaseOK, AddrOK
    <3> QED
      BY <1>12, <3>2
  <2>4. Address[am.mapInfo[was(i)].service] = x
    BY <1>12, <2>1
  <2> QED
    BY <2>1, <2>2, <2>3, <2>4
<1>20. am'.mapInfo = info /\ am'.mapAddr = addr
       /\ am' \in Only(am'.mapInfo, am'.mapAddr, order, vvNew, vvTried, am.nNew, am.nTried)
  BY <1>1, <1>2, <1>3, <1>4 DEF Only
<1>21. Renumbered(am, am', f, w, k)
  BY <1>12, <1>13, <1>14, <1>15, <1>16, <1>17, <1>18, <1>19, <1>20 DEF Renumbered, k
<1> QED
  BY <1>21

(* So the manager stays consistent, and keeps its tables and services.     *)
LEMMA ReloadStep ==
    ASSUME SoundOK(am), Reload
    PROVE  /\ SoundOK(am') /\ Tables(am') = Tables(am)
           /\ \A n \in DOMAIN am.mapInfo :
                 \E m \in DOMAIN am'.mapInfo : am'.mapInfo[m].service = am.mapInfo[n].service
<1>1. PICK f, w, k : Renumbered(am, am', f, w, k)
  BY ReloadRenumbers
<1> QED
  BY <1>1, RenumberedSound, RenumberedAlike

(* Every operation keeps the inductive invariant.                          *)
LEMMA SoundInductive == SoundOK(am) /\ [AddrManNext]_am => SoundOK(am')
<1> SUFFICES ASSUME SoundOK(am), [AddrManNext]_am
             PROVE  SoundOK(am')
  OBVIOUS
<1>1. ASSUME NEW s \in Services, NEW source \in Sources, Add(s, source)
      PROVE  SoundOK(am')
  BY <1>1, AddStep
<1>2. ASSUME NEW s \in Services, Good(s)
      PROVE  SoundOK(am')
  BY <1>2, GoodStep
<1>3. CASE GetAddr
  BY <1>3, GetAddrStep
<1>4. CASE Reload
  BY <1>4, ReloadStep
<1>5. CASE UNCHANGED am
  BY <1>5
<1> QED
  BY <1>1, <1>2, <1>3, <1>4, <1>5 DEF AddrManNext

(* The address manager is consistent after every operation, for all sizes  *)
(* of its buckets: what Check_ tests holds without the test.               *)
THEOREM AddrManIsConsistent == AddrManSpec => []AddrManConsistent
<1>1. AddrManInit => SoundOK(am)
  BY InitSound
<1>2. SoundOK(am) /\ [AddrManNext]_am => SoundOK(am)'
  BY SoundInductive
<1>3. SoundOK(am) => AddrManConsistent
  BY SoundIsConsistent
<1> QED
  BY <1>1, <1>2, <1>3, PTL DEF AddrManSpec

(* What TriedStays says of a step.                                         *)
StepKeepsTried ==
    \A n \in DOMAIN am.mapInfo : am.mapInfo[n].fInTried =>
        \E m \in DOMAIN am'.mapInfo : am'.mapInfo[m].service = am.mapInfo[n].service

(* No operation forgets a tried entry: Delete, which Add_ calls by way of  *)
(* ShrinkNew, meets entries of new buckets only; Good_ moves a tried entry *)
(* back to the new ones; an orderly restart reads all tried entries again, *)
(* as no bucket is over its size.                                          *)
THEOREM TriedEntriesStay == AddrManSpec => TriedStays
<1>1. AddrManInit => SoundOK(am)
  BY InitSound
<1>2. SoundOK(am) /\ [AddrManNext]_am => SoundOK(am)'
  BY SoundInductive
<1>3. SoundOK(am) /\ [AddrManNext]_am => [StepKeepsTried]_am
  <2> SUFFICES ASSUME SoundOK(am), AddrManNext
               PROVE  StepKeepsTried
    OBVIOUS
  <2>1. ASSUME KeepsTried(am, am')
        PROVE  StepKeepsTried
    BY <2>1 DEF KeepsTried, StepKeepsTried
  <2>2. ASSUME NEW s \in Services, NEW source \in Sources, Add(s, source)
        PROVE  StepKeepsTried
    BY <2>1, <2>2, AddStep
  <2>3. ASSUME NEW s \in Services, Good(s)
        PROVE  StepKeepsTried
    BY <2>1, <2>3, GoodStep
  <2>4. CASE GetAddr
    BY <2>1, <2>4, GetAddrStep
  <2>5. CASE Reload
    BY <2>5, ReloadStep DEF StepKeepsTried
  <2> QED
    BY <2>2, <2>3, <2>4, <2>5 DEF AddrManNext
<1> QED
  BY <1>1, <1>2, <1>3, PTL DEF AddrManSpec, TriedStays, StepKeepsTried

(* An orderly restart keeps every entry in its buckets, although ids and   *)
(* the tried buckets are made anew and places are cut at MaxRefs.          *)
THEOREM ReloadsKeepTables == AddrManSpec => ReloadKeepsTables
<1>1. AddrManInit => SoundOK(am)
  BY InitSound
<1>2. SoundOK(am) /\ [AddrManNext]_am => SoundOK(am)'
  BY SoundInductive
<1>3. SoundOK(am) => [Reload => Tables(am') = Tables(am)]_am
  BY ReloadStep
<1> QED
  BY <1>1, <1>2, <1>3, PTL DEF AddrManSpec, ReloadKeepsTables
=============================================================================
